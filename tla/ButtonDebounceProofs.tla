------------------------ MODULE ButtonDebounceProofs ------------------------
(***************************************************************************)
(* Proofs about the bounce filter of button_handler, for every width of    *)
(* the tick count and every window shorter than its period.                *)
(***************************************************************************)
EXTENDS ButtonDebounce, TLAPS

\* While the deadline lies ahead of a tick count that has not wrapped, it is
\* exactly one window after the last accepted interrupt.
DeadlineAhead ==
  wrapped \/ next <= now \/ (age < WINDOW /\ next + age = now + WINDOW)

\* Within the window it is, unless it wrapped, which leaves it below WINDOW.
DeadlineInWindow ==
  age < WINDOW => next < WINDOW \/ next + age = now + WINDOW

FilterInv == TypeOK /\ DeadlineAhead /\ DeadlineInWindow

\* Reducing the sum of a tick count and a window gives a tick count.
LEMMA WrapFacts ==
  ASSUME NEW n \in TickType, NEW d \in 0 .. PERIOD
  PROVE  /\ Wrap(n + d) \in TickType
         /\ Wrap(n + d) = n + d \/ Wrap(n + d) + PERIOD = n + d
         /\ n + d < PERIOD => Wrap(n + d) = n + d
         /\ n + d >= PERIOD => Wrap(n + d) + PERIOD = n + d
  BY TickAssumption DEF TickAssumption, Wrap, TickType

\* A sum that wrapped is below both its terms.
LEMMA WrappedSum ==
  ASSUME NEW n \in Int, NEW w \in Int, NEW p \in Int, NEW m \in Int,
         m + p = n + w, n < p, w < p
  PROVE  m < n /\ m < w
  OBVIOUS

\* The initial state satisfies the invariant.
LEMMA FilterInit == Init => FilterInv
<1> SUFFICES ASSUME Init PROVE FilterInv
  OBVIOUS
<1>1. now = 0 /\ next = 0 /\ age = PERIOD
  BY DEF Init
<1>2. wrapped \in BOOLEAN
  BY DEF Init
<1>3. TypeOK
  BY <1>1, <1>2, TickAssumption DEF TickAssumption, TypeOK, TickType
<1>4. DeadlineAhead
  BY <1>1 DEF DeadlineAhead
<1>5. DeadlineInWindow
  BY <1>1, TickAssumption DEF TickAssumption, DeadlineInWindow
<1> QED
  BY <1>3, <1>4, <1>5 DEF FilterInv

\* Every step keeps the invariant.
LEMMA FilterStep == FilterInv /\ [Next]_vars => FilterInv'
<1> SUFFICES ASSUME FilterInv, [Next]_vars PROVE FilterInv'
  OBVIOUS
<1>0. now \in TickType /\ next \in TickType /\ age \in 0 .. PERIOD /\ wrapped \in BOOLEAN
  BY DEF FilterInv, TypeOK
<1>1. CASE button_handler
  <2>1. now' = now /\ age' = 0 /\ wrapped' \in BOOLEAN
    BY <1>1 DEF button_handler
  <2>2. /\ next' \in TickType
        /\ \/ next' = now + WINDOW
           \/ next' + PERIOD = now + WINDOW
    BY <1>0, <1>1, TickAssumption, WrapFacts DEF TickAssumption, button_handler
  <2>3. next' + age' = now' + WINDOW \/ (next' <= now' /\ next' < WINDOW)
    <3>1. CASE next' = now + WINDOW
      BY <1>0, <2>1, <2>2, <3>1, TickAssumption DEF TickAssumption, TickType
    <3>2. CASE next' + PERIOD = now + WINDOW
      <4>1. /\ now \in Int /\ next' \in Int /\ PERIOD \in Int /\ WINDOW \in Int
            /\ now < PERIOD /\ WINDOW < PERIOD
        BY <1>0, <2>2, TickAssumption DEF TickAssumption, TickType
      <4>2. next' < now /\ next' < WINDOW
        BY <3>2, <4>1, WrappedSum
      <4>3. next' <= now
        BY <4>1, <4>2
      <4> QED
        BY <2>1, <4>2, <4>3
    <3> QED
      BY <2>2, <3>1, <3>2
  <2>4. TypeOK'
    BY <1>0, <2>1, <2>2, TickAssumption DEF TickAssumption, TypeOK
  <2>5. DeadlineAhead' /\ DeadlineInWindow'
    BY <2>1, <2>3, TickAssumption DEF TickAssumption, DeadlineAhead, DeadlineInWindow
  <2> QED
    BY <2>4, <2>5 DEF FilterInv
<1>2. CASE Tick
  <2>1. next' = next /\ age' \in 0 .. PERIOD /\ (age' = age + 1 \/ (age' = PERIOD /\ age = PERIOD))
    BY <1>0, <1>2, TickAssumption DEF TickAssumption, Tick
  <2>2. now' \in TickType /\ (now' = now + 1 \/ (now' = 0 /\ now = PERIOD - 1))
    BY <1>0, <1>2, TickAssumption, WrapFacts DEF TickAssumption, Tick, TickType
  <2>3. wrapped' \in BOOLEAN /\ (now' = 0 => wrapped') /\ (wrapped => wrapped')
    BY <1>0, <1>2 DEF Tick
  <2>4. TypeOK'
    BY <1>0, <2>1, <2>2, <2>3 DEF TypeOK
  <2>5. DeadlineAhead'
    <3>1. CASE wrapped \/ now' = 0
      BY <2>3, <3>1 DEF DeadlineAhead
    <3>2. CASE now' = now + 1 /\ ~wrapped
      <4>1. next <= now \/ (age < WINDOW /\ next + age = now + WINDOW)
        BY <3>2 DEF FilterInv, DeadlineAhead
      <4>2. next' <= now' \/ (age' < WINDOW /\ next' + age' = now' + WINDOW)
        <5>1. CASE next <= now
          BY <1>0, <2>1, <3>2, <5>1 DEF TickType
        <5>2. CASE age < WINDOW /\ next + age = now + WINDOW
          <6>1. age' = age + 1 /\ age + 1 <= WINDOW
            BY <1>0, <2>1, <5>2, TickAssumption DEF TickAssumption
          <6>2. next' + age' = now' + WINDOW
            BY <1>0, <2>1, <3>2, <5>2, <6>1, TickAssumption DEF TickAssumption, TickType
          <6>3. now' \in Int /\ age' \in Int /\ next' \in Int /\ WINDOW \in Int
            BY <1>0, <2>1, <2>2, TickAssumption DEF TickAssumption, TickType
          <6>4. CASE age' = WINDOW
            BY <6>2, <6>3, <6>4
          <6>5. CASE age' < WINDOW
            BY <6>2, <6>5
          <6> QED
            BY <1>0, <6>1, <6>3, <6>4, <6>5
        <5> QED
          BY <4>1, <5>1, <5>2
      <4> QED
        BY <4>2 DEF DeadlineAhead
    <3> QED
      BY <2>2, <3>1, <3>2
  <2>6. DeadlineInWindow'
    <3>1. age < WINDOW => next < WINDOW \/ next + age = now + WINDOW
      BY DEF FilterInv, DeadlineInWindow
    <3>2. age' < WINDOW => next' < WINDOW \/ next' + age' = now' + WINDOW
      <4> SUFFICES ASSUME age' < WINDOW, next' >= WINDOW
                   PROVE  next' + age' = now' + WINDOW
        BY <1>0, <2>1, TickAssumption DEF TickAssumption, TickType
      <4>1. age' = age + 1 /\ age + 1 < WINDOW
        BY <1>0, <2>1, TickAssumption DEF TickAssumption
      <4>2. next + age = now + WINDOW
        BY <1>0, <2>1, <3>1, <4>1, TickAssumption DEF TickAssumption, TickType
      <4>3. now' = now + 1
        BY <1>0, <2>2, <4>1, <4>2, TickAssumption DEF TickAssumption, TickType
      <4> QED
        BY <1>0, <2>1, <4>1, <4>2, <4>3, TickAssumption DEF TickAssumption, TickType
    <3> QED
      BY <3>2 DEF DeadlineInWindow
  <2> QED
    BY <2>4, <2>5, <2>6 DEF FilterInv
<1>3. CASE UNCHANGED vars
  BY <1>3 DEF vars, FilterInv, TypeOK, DeadlineAhead, DeadlineInWindow
<1> QED
  BY <1>1, <1>2, <1>3 DEF Next

\* The invariant holds in every state of every behaviour.
LEMMA FilterAlways == Spec => []FilterInv
  BY FilterInit, FilterStep, PTL DEF Spec

-----------------------------------------------------------------------------
\* The tick counts stay within their width, for any window.
THEOREM TicksInRange == Spec => []TypeOK
<1>1. FilterInv => TypeOK
  BY DEF FilterInv
<1> QED
  BY <1>1, FilterAlways, PTL

\* Buttons are dead only within the window, or after the tick count wrapped.
THEOREM DeadTimeBounded == Spec => []DeadOnlyAfterWrap
<1>1. FilterInv => DeadOnlyAfterWrap
  BY TickAssumption
     DEF TickAssumption, FilterInv, TypeOK, TickType, DeadlineAhead, DeadOnlyAfterWrap, Open
<1> QED
  BY <1>1, FilterAlways, PTL

\* Two interrupts within a window are never both accepted, unless the deadline
\* of the first wrapped.
THEOREM BouncesNeverPass == Spec => BouncesFiltered
<1>1. FilterInv /\ [Next]_vars => [age' = 0 => age >= WINDOW \/ next < WINDOW]_vars
  <2> SUFFICES ASSUME FilterInv, Next, age' = 0
               PROVE  age >= WINDOW \/ next < WINDOW
    OBVIOUS
  <2> USE TickAssumption DEF TickAssumption, FilterInv, TypeOK, TickType
  <2>1. CASE button_handler
    BY <2>1 DEF button_handler, Open, DeadlineInWindow
  <2>2. CASE Tick
    BY <2>2 DEF Tick
  <2> QED
    BY <2>1, <2>2 DEF Next
<1> QED
  BY <1>1, FilterAlways, PTL DEF Spec, BouncesFiltered

\* The filter behaves as the flag armed of FanHw: it closes only with an
\* accepted interrupt or a wrap, and stays open after one only at a wrap.
THEOREM FilterIsFlag == Spec => FilterOfFanHw
<1>1. FilterInv /\ [Next]_vars =>
        [/\ Open /\ ~Open' => age' = 0 \/ now' = 0
         /\ age' = 0 /\ Open' => next' < WINDOW]_vars
  <2> SUFFICES ASSUME FilterInv, Next
               PROVE  /\ Open /\ ~Open' => age' = 0 \/ now' = 0
                      /\ age' = 0 /\ Open' => next' < WINDOW
    OBVIOUS
  <2> USE TickAssumption DEF TickAssumption, FilterInv, TypeOK, TickType, Open
  <2>1. CASE button_handler
    <3>1. next' = now + WINDOW \/ (next' + PERIOD = now + WINDOW /\ next' < WINDOW)
      BY <2>1, WrapFacts DEF button_handler
    <3> QED
      BY <2>1, <3>1 DEF button_handler
  <2>2. CASE Tick
    <3>1. now' = now + 1 \/ now' = 0
      BY <2>2, WrapFacts DEF Tick
    <3> QED
      BY <2>2, <3>1 DEF Tick
  <2> QED
    BY <2>1, <2>2 DEF Next
<1> QED
  BY <1>1, FilterAlways, PTL DEF Spec, FilterOfFanHw

=============================================================================
