--------------------------- MODULE ButtonDebounce ---------------------------
(***************************************************************************)
(* The filter of button_handler in ch12/smart_fan/lib/hw/app_hw.c, with    *)
(* the arithmetic of its unsigned tick counts: an interrupt is accepted    *)
(* when next <= now, and sets next ten ticks ahead.  Both now and next are *)
(* TickType_t and wrap.  Module FanHw abstracts the filter to a flag,      *)
(* armed, that stands for Open here.                                       *)
(*                                                                         *)
(* Time passes without a bound; age and wrapped record, for the            *)
(* properties, how long ago the last interrupt was accepted.               *)
(***************************************************************************)
EXTENDS Integers

CONSTANTS
  PERIOD,     \* TickType_t counts modulo PERIOD, 2^32 in the code
  WINDOW      \* 100 / portTICK_PERIOD_MS

ASSUME TickAssumption ==
  /\ PERIOD \in Nat /\ WINDOW \in Nat
  /\ 0 < WINDOW /\ WINDOW < PERIOD

VARIABLES
  now,        \* the tick count
  next,       \* the static variable of app_hw.c
  age,        \* ticks since the last accepted interrupt, PERIOD if more
  wrapped     \* now has wrapped since then

vars == <<now, next, age, wrapped>>

TickType == 0 .. PERIOD - 1

TypeOK ==
  /\ now \in TickType
  /\ next \in TickType
  /\ age \in 0 .. PERIOD
  /\ wrapped \in BOOLEAN

Init == now = 0 /\ next = 0 /\ age = PERIOD /\ wrapped = FALSE

\* Mutant: the sum is kept as it is.
WrapNever(n) == n

\* Reduction of a sum below 2 * PERIOD to TickType_t.
Wrap(n) == IF n < PERIOD THEN n ELSE n - PERIOD

\* Mutants: the comparison turned round, and off by one.
OpenBefore == now <= next
OpenAfter  == next < now

Open == next <= now

\* Mutant: the deadline is the tick of the interrupt itself.
AcceptAtOnce ==
  /\ Open
  /\ next' = now
  /\ age' = 0
  /\ wrapped' = FALSE
  /\ UNCHANGED now

\* Mutant: the window is one tick too long.
AcceptTooLong ==
  /\ Open
  /\ next' = Wrap(now + WINDOW + 1)
  /\ age' = 0
  /\ wrapped' = FALSE
  /\ UNCHANGED now

button_handler ==
  /\ Open
  /\ next' = Wrap(now + WINDOW)
  /\ age' = 0
  /\ wrapped' = FALSE
  /\ UNCHANGED now

Tick ==
  /\ now' = Wrap(now + 1)
  /\ age' = IF age < PERIOD THEN age + 1 ELSE age
  /\ wrapped' = (wrapped \/ now' = 0)
  /\ UNCHANGED next

Next == button_handler \/ Tick

Spec == Init /\ [][Next]_vars /\ WF_vars(Tick)

-----------------------------------------------------------------------------
(* Properties *)

\* A press that bounces is queued once: two interrupts are accepted less than a
\* window apart only when the deadline of the earlier one wrapped
\* (app_hw.c:26-30).
BouncesFiltered == [][age' = 0 => age >= WINDOW \/ next < WINDOW]_vars

\* Buttons answer again after the window, as long as the tick count has not
\* wrapped since the last press; after it has, they may be dead for as long as
\* the old deadline lies ahead, up to a whole period.
DeadOnlyAfterWrap == ~Open => age < WINDOW \/ wrapped

\* The buttons are never dead for ever.
OpensAgain == []<>Open

\* What FanHw assumes of the filter: it closes only when an interrupt is
\* accepted or the tick count wraps, and an accepted interrupt closes it unless
\* its deadline wraps.
FilterOfFanHw ==
  [][/\ Open /\ ~Open' => age' = 0 \/ now' = 0
     /\ age' = 0 /\ Open' => next' < WINDOW]_vars

=============================================================================
