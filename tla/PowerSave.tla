----------------------------- MODULE PowerSave ------------------------------
(***************************************************************************)
(* The power management of the multisensor, ch5/multisensor/src/pmsub.cpp. *)
(*                                                                         *)
(* Motion and the rotary encoder push the time of the next sleep to one    *)
(* period ahead; the task sleep_check waits for that time, switches the    *)
(* display off and puts the chip to light sleep, from which only motion    *)
(* wakes it.  Tick counts are unsigned and wrap: W is 2^32 and the period  *)
(* 2000 ticks in the firmware.                                             *)
(*                                                                         *)
(* The chip has two cores and nothing is locked.  The motion interrupt is  *)
(* one step; a task that updates the time reads the tick count in one step *)
(* and writes next_sleep in a later one.  A task that can run is kept from *)
(* its next step for at most MaxSlip ticks (by other tasks of its          *)
(* priority, or by the display's bus).  While the chip sleeps the tick     *)
(* count stands still.                                                     *)
(***************************************************************************)
EXTENDS Integers

CONSTANTS
  W,          \* the tick count is W - 1 at most
  Period,     \* period of pmsub.cpp
  MaxSlip     \* bound on the ticks a task that can run is kept waiting

ASSUME PowerAssumption ==
  /\ W \in Nat /\ Period \in Nat /\ MaxSlip \in Nat
  /\ MaxSlip < Period /\ 0 < Period /\ Period < W

Ticks     == 0 .. W - 1
TickOrNil == -1 .. W - 1

VARIABLES
  tick,         \* xTaskGetTickCount()
  next_sleep,
  sleeper,      \* where sleep_check is
  now,          \* its local variable
  due,          \* ticks left of its vTaskDelay
  read,         \* the tick count a task has read in pmsub_update, or -1
  slip,         \* ticks each task has been kept waiting
  idle,         \* ticks since the last activity (history)
  left,         \* ticks to the time next_sleep stands for (history)
  hidden        \* the wait began after a wrap, for a deadline before (history)

powerVars == <<tick, next_sleep, sleeper, now, due, read, slip, idle, left, hidden>>

Tasks == {"sleep_check", "encoder"}
Steps == {"look", "compare", "before", "asleep", "after", "update", "again", "wait", "delay"}

\* The histories count no further than this.
Far == 2 * W

TypeOK ==
  /\ tick \in Ticks /\ next_sleep \in Ticks /\ now \in Ticks /\ due \in Ticks
  /\ sleeper \in Steps
  /\ read \in [Tasks -> TickOrNil]
  /\ slip \in [Tasks -> 0 .. MaxSlip]
  /\ idle \in 0 .. Far
  /\ left \in -Far .. Period
  /\ hidden \in BOOLEAN

\* pmsub_init has set the time, pmsub_start creates the task.
Init ==
  /\ tick = 0 /\ next_sleep = Period
  /\ sleeper = "look" /\ now = 0 /\ due = 0
  /\ read = [t \in Tasks |-> -1]
  /\ slip = [t \in Tasks |-> 0]
  /\ idle = 0 /\ left = Period /\ hidden = FALSE

-----------------------------------------------------------------------------
(* Time *)

CanRun(t) ==
  IF t = "encoder" THEN read[t] # -1
  ELSE sleeper # "delay" \/ due = 0

Tick ==
  /\ sleeper # "asleep"
  /\ \A t \in Tasks : CanRun(t) => slip[t] < MaxSlip
  /\ tick' = (tick + 1) % W
  /\ due' = IF due > 0 THEN due - 1 ELSE 0
  /\ slip' = [t \in Tasks |-> IF CanRun(t) THEN slip[t] + 1 ELSE 0]
  /\ idle' = IF idle < Far THEN idle + 1 ELSE Far
  /\ left' = IF left > -Far THEN left - 1 ELSE -Far
  /\ UNCHANGED <<next_sleep, sleeper, now, read, hidden>>

\* Task t is not kept waiting any longer.
Ran(t) == slip' = [slip EXCEPT ![t] = 0]

-----------------------------------------------------------------------------
(* pmsub_update *)

Deadline(t) == (t + Period) % W

\* pir_handler: pmsub_update(true).
pir_handler ==
  /\ sleeper # "asleep"
  /\ next_sleep' = Deadline(tick)
  /\ left' = Period
  /\ idle' = 0
  /\ UNCHANGED <<tick, sleeper, now, due, read, slip, hidden>>

\* pmsub_update(false) in task t: the tick count is read ...
ReadTick(t) ==
  /\ sleeper # "asleep"
  /\ read[t] = -1
  /\ read' = [read EXCEPT ![t] = tick]
  /\ Ran(t)
  /\ UNCHANGED idle

\* Ticks since t read the tick count.
Since(t) == (tick - read[t]) % W

\* ... and the sum written, whatever an interrupt has written meanwhile.
WriteDeadline(t) ==
  /\ sleeper # "asleep"
  /\ read[t] # -1
  /\ next_sleep' = Deadline(read[t])
  /\ left' = Period - Since(t)
  /\ idle' = IF Since(t) < idle THEN Since(t) ELSE idle
  /\ read' = [read EXCEPT ![t] = -1]
  /\ Ran(t)

\* The encoder task calls update_power_man after a turn.
EncoderTurned ==
  /\ \/ ReadTick("encoder") /\ UNCHANGED <<next_sleep, left>>
     \/ WriteDeadline("encoder")
  /\ UNCHANGED <<tick, sleeper, now, due, hidden>>

-----------------------------------------------------------------------------
(* sleep_check *)

At(step) == sleeper = step
Goto(step) == sleeper' = step /\ Ran("sleep_check")

Look ==
  /\ At("look") /\ Goto("compare")
  /\ now' = tick
  /\ UNCHANGED <<tick, next_sleep, due, read, idle, left, hidden>>

\* Mutant: the task sleeps on the tick it has waited for.
DecideNotLater ==
  /\ At("compare")
  /\ now >= next_sleep
  /\ Goto("before")
  /\ UNCHANGED <<tick, next_sleep, now, due, read, idle, left, hidden>>

Decide ==
  /\ At("compare")
  /\ now > next_sleep
  /\ Goto("before")
  /\ UNCHANGED <<tick, next_sleep, now, due, read, idle, left, hidden>>

StayAwake ==
  /\ At("compare")
  /\ now <= next_sleep
  /\ Goto("wait")
  /\ UNCHANGED <<tick, next_sleep, now, due, read, idle, left, hidden>>

\* config.before_sleep, the display goes off; esp_light_sleep_start.
FallAsleep ==
  /\ At("before") /\ Goto("asleep")
  /\ UNCHANGED <<tick, next_sleep, now, due, read, idle, left, hidden>>

\* The motion pin is high: light sleep ends, at once if it was high already.
WakeUp ==
  /\ At("asleep") /\ Goto("after")
  /\ UNCHANGED <<tick, next_sleep, now, due, read, idle, left, hidden>>

\* config.after_wakeup, the display goes on; pmsub_update(false) begins.
Resume ==
  /\ At("after")
  /\ sleeper' = "update"
  /\ ReadTick("sleep_check")
  /\ UNCHANGED <<tick, next_sleep, now, due, left, hidden>>

Postpone ==
  /\ At("update")
  /\ sleeper' = "again"
  /\ WriteDeadline("sleep_check")
  /\ UNCHANGED <<tick, now, due, hidden>>

LookAgain ==
  /\ At("again") /\ Goto("wait")
  /\ now' = tick
  /\ UNCHANGED <<tick, next_sleep, due, read, idle, left, hidden>>

\* Mutant: a deadline that has moved across the wrap gives a negative wait.
BeginSignedDelay ==
  /\ At("wait") /\ Goto("delay")
  /\ due' = next_sleep - now
  /\ hidden' = (tick + left < 0)
  /\ UNCHANGED <<tick, next_sleep, now, read, idle, left>>

\* Mutant: the wait is a whole period.
BeginPeriod ==
  /\ At("wait") /\ Goto("delay")
  /\ due' = Period
  /\ hidden' = (tick + left < 0)
  /\ UNCHANGED <<tick, next_sleep, now, read, idle, left>>

\* vTaskDelay(next_sleep - now): the difference wraps as the sum did.
BeginDelay ==
  /\ At("wait") /\ Goto("delay")
  /\ due' = (next_sleep - now) % W
  /\ hidden' = (tick + left < 0)
  /\ UNCHANGED <<tick, next_sleep, now, read, idle, left>>

DelayOver ==
  /\ At("delay") /\ due = 0 /\ Goto("look")
  /\ UNCHANGED <<tick, next_sleep, now, due, read, idle, left, hidden>>

-----------------------------------------------------------------------------
sleep_check ==
  \/ Look \/ Decide \/ StayAwake \/ FallAsleep \/ Resume \/ Postpone
  \/ LookAgain \/ BeginDelay \/ DelayOver

Next == Tick \/ pir_handler \/ EncoderTurned \/ sleep_check \/ WakeUp

Spec == Init /\ [][Next]_powerVars /\ WF_powerVars(sleep_check) /\ WF_powerVars(Tick)

-----------------------------------------------------------------------------
(* Properties *)

\* The sleep is decided only when nobody has moved or turned the encoder for a
\* period, but for the ticks a task lost between reading the tick count and
\* overwriting a later deadline (pmsub.cpp:35-45, 56-57); the comparison decides
\* too early when the deadline lies beyond a wrap of the tick count that now has
\* not seen.
DecidesOnlyIdle ==
  [][Decide => \/ idle > Period - MaxSlip
               \/ now + ((tick - now) % W) + left >= W]_powerVars

\* While it waits, the task is at most a few steps behind the deadline: nobody
\* moves, so the device sleeps a period later.  What it does not survive is a
\* deadline before the wrap that it sees only after it, when it waits for that
\* tick to come round again, or for ever at the largest tick (pmsub.cpp:57, 72).
\* It needs a period of at least two delays: a task kept longer between its
\* look and its wait may see the deadline pass, and waits for a turn of the count.
SleepsInTime ==
  sleeper \in {"look", "compare", "wait", "delay"} =>
    left >= -6 * MaxSlip \/ tick + left < 0 \/ hidden

=============================================================================
