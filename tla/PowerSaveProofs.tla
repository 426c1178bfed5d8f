--------------------------- MODULE PowerSaveProofs ---------------------------
(***************************************************************************)
(* Proofs about the power management of the multisensor, for every width   *)
(* of the tick count, every period and every bound on the ticks a task is  *)
(* kept waiting: the sleep is decided only when nobody has been active,    *)
(* and it comes in time, if a period is at least twice that bound.         *)
(***************************************************************************)
EXTENDS PowerSave, TLAPS

\* Ticks from the count a to the count b, less than a turn later.
Later(a, b) == IF b >= a THEN b - a ELSE b - a + W

\* What a task has read is as old as the task has been kept waiting since.
SlipInv ==
  /\ \A t \in Tasks : read[t] # -1 => Later(read[t], tick) = slip[t]
  /\ read["sleep_check"] # -1 <=> sleeper = "update"
  /\ sleeper = "compare" => Later(now, tick) = slip["sleep_check"]

\* next_sleep is the deadline that left stands for, reduced to a tick count.
DeadlineInv == left > -Far => next_sleep - tick - left \in {-W, 0, W, 2 * W}

\* The deadline is a period after the last activity, or as much earlier as a
\* task was kept waiting before it overwrote a later one.
IdleInv == idle = Far \/ idle + left >= Period - MaxSlip

PowerInv == TypeOK /\ SlipInv /\ DeadlineInv /\ IdleInv

-----------------------------------------------------------------------------
(* Tick counts *)

\* A sum or a difference of tick counts is reduced by one turn at most.
LEMMA ModFacts ==
  ASSUME NEW n \in Int
  PROVE  /\ n % W \in Ticks
         /\ n \in 0 .. W - 1 => n % W = n
         /\ n \in W .. 2 * W - 1 => n % W = n - W
         /\ n \in -W .. -1 => n % W = n + W
  BY PowerAssumption DEF PowerAssumption, Ticks

\* The difference in unsigned arithmetic is the time that has passed.
LEMMA LaterFacts ==
  ASSUME NEW a \in Ticks, NEW b \in Ticks
  PROVE  /\ (b - a) % W = Later(a, b)
         /\ Later(a, b) \in Ticks
         /\ b = a + Later(a, b) \/ b = a + Later(a, b) - W
<1>1. W \in Nat /\ a \in Int /\ b \in Int /\ a >= 0 /\ b >= 0 /\ a < W /\ b < W
  BY PowerAssumption DEF PowerAssumption, Ticks
<1>2. CASE b >= a
  <2>1. b - a \in 0 .. W - 1
    BY <1>1, <1>2
  <2> QED
    BY <1>1, <1>2, <2>1, ModFacts DEF Later, Ticks
<1>3. CASE b < a
  <2>1. b - a \in -W .. -1 /\ b - a + W \in Ticks
    BY <1>1, <1>3 DEF Ticks
  <2> QED
    BY <1>1, <1>3, <2>1, ModFacts DEF Later
<1> QED
  BY <1>1, <1>2, <1>3

\* The next tick is one tick later, unless the count comes round to a.
LEMMA LaterTick ==
  ASSUME NEW a \in Ticks, NEW b \in Ticks, Later(a, b) < W - 1
  PROVE  Later(a, (b + 1) % W) = Later(a, b) + 1
<1>1. W \in Nat /\ a \in Int /\ b \in Int /\ a >= 0 /\ b >= 0 /\ a < W /\ b < W
  BY PowerAssumption DEF PowerAssumption, Ticks
<1>2. CASE b = W - 1
  <2>1. (b + 1) % W = 0
    BY <1>1, <1>2, ModFacts
  <2> QED
    BY <1>1, <1>2, <2>1 DEF Later
<1>3. CASE b # W - 1
  <2>1. (b + 1) % W = b + 1
    BY <1>1, <1>3, ModFacts
  <2> QED
    BY <1>1, <1>3, <2>1 DEF Later
<1> QED
  BY <1>2, <1>3

\* A deadline is a tick count, at most one turn below the sum.
LEMMA DeadlineFacts ==
  ASSUME NEW a \in Ticks
  PROVE  Deadline(a) \in Ticks /\ (Deadline(a) = a + Period \/ Deadline(a) = a + Period - W)
<1>1. W \in Nat /\ Period \in Nat /\ Period < W /\ a \in Int /\ a >= 0 /\ a < W
  BY PowerAssumption DEF PowerAssumption, Ticks
<1>2. a + Period \in 0 .. W - 1 \/ a + Period \in W .. 2 * W - 1
  BY <1>1
<1> QED
  BY <1>1, <1>2, ModFacts DEF Deadline

-----------------------------------------------------------------------------
(* The steps, by what they touch *)

\* A step of sleep_check that touches neither the time nor the deadline.
Quiet ==
  \/ Look \/ Decide \/ StayAwake \/ FallAsleep \/ WakeUp \/ Resume
  \/ LookAgain \/ BeginDelay \/ DelayOver

\* Next, sorted by what a step touches.
LEMMA NextCases ==
  ASSUME [Next]_powerVars
  PROVE  \/ Tick \/ pir_handler \/ Quiet
         \/ ReadTick("encoder")
              /\ UNCHANGED <<tick, next_sleep, sleeper, now, due, left, hidden>>
         \/ WriteDeadline("encoder") /\ UNCHANGED <<tick, sleeper, now, due, hidden>>
         \/ Postpone
         \/ UNCHANGED powerVars
  BY DEF Next, EncoderTurned, sleep_check, Quiet

\* A task that writes its deadline has read the tick count slip[t] ticks ago.
LEMMA WriteFacts ==
  ASSUME PowerInv, NEW t \in Tasks, WriteDeadline(t)
  PROVE  /\ Since(t) = slip[t] /\ slip[t] \in 0 .. MaxSlip
         /\ read[t] \in Ticks
         /\ tick = read[t] + slip[t] \/ tick = read[t] + slip[t] - W
         /\ next_sleep' = Deadline(read[t])
         /\ left' = Period - slip[t]
         /\ idle' = IF slip[t] < idle THEN slip[t] ELSE idle
<1>1. read[t] \in Ticks /\ tick \in Ticks /\ slip[t] \in 0 .. MaxSlip
  <2>1. read[t] \in TickOrNil /\ read[t] # -1 /\ tick \in Ticks /\ slip[t] \in 0 .. MaxSlip
    BY DEF PowerInv, TypeOK, WriteDeadline
  <2> QED
    BY <2>1, PowerAssumption DEF PowerAssumption, TickOrNil, Ticks
<1>2. Later(read[t], tick) = slip[t]
  BY DEF PowerInv, SlipInv, WriteDeadline
<1>3. Since(t) = slip[t]
  BY <1>1, <1>2, LaterFacts DEF Since
<1> QED
  BY <1>1, <1>2, <1>3, LaterFacts DEF WriteDeadline

\* What a quiet step does.
LEMMA QuietFacts ==
  ASSUME TypeOK, Quiet
  PROVE  /\ UNCHANGED <<tick, next_sleep, left>>
         /\ idle' = idle
         /\ slip' = [slip EXCEPT !["sleep_check"] = 0]
         /\ now' = now \/ now' = tick
  BY DEF Quiet, Look, Decide, StayAwake, FallAsleep, WakeUp, Resume, LookAgain, BeginDelay,
         DelayOver, At, Goto, Ran, ReadTick

-----------------------------------------------------------------------------
(* Types *)

\* Every step keeps the types.
LEMMA TypeStep == PowerInv /\ [Next]_powerVars => TypeOK'
<1> SUFFICES ASSUME PowerInv, [Next]_powerVars PROVE TypeOK'
  OBVIOUS
<1>a. /\ tick \in Ticks /\ next_sleep \in Ticks /\ now \in Ticks /\ due \in Ticks
      /\ sleeper \in Steps
      /\ read \in [Tasks -> TickOrNil] /\ slip \in [Tasks -> 0 .. MaxSlip]
      /\ idle \in 0 .. Far /\ left \in -Far .. Period
  BY DEF PowerInv, TypeOK
<1>b. hidden \in BOOLEAN
  BY DEF PowerInv, TypeOK
<1>c. /\ W \in Nat /\ Period \in Nat /\ MaxSlip \in Nat /\ Far \in Nat /\ Far = 2 * W
      /\ 0 < Period /\ Period < W /\ MaxSlip < Period
  BY PowerAssumption DEF PowerAssumption, Far
<1>d. Ticks \subseteq TickOrNil /\ -1 \in TickOrNil /\ 0 \in 0 .. MaxSlip
  BY <1>c DEF Ticks, TickOrNil
<1>1. CASE Tick
  <2>1. tick' \in Ticks
    BY <1>1, <1>a, ModFacts DEF Tick, Ticks
  <2>2. due' \in Ticks
    BY <1>1, <1>a, <1>c DEF Tick, Ticks
  <2>3. idle' \in 0 .. Far
    BY <1>1, <1>a, <1>c DEF Tick
  <2>4. left' \in -Far .. Period
    BY <1>1, <1>a, <1>c DEF Tick
  <2>5. slip' \in [Tasks -> 0 .. MaxSlip]
    <3>1. ASSUME NEW t \in Tasks
          PROVE  (IF CanRun(t) THEN slip[t] + 1 ELSE 0) \in 0 .. MaxSlip
      <4>1. slip[t] \in 0 .. MaxSlip /\ (CanRun(t) => slip[t] < MaxSlip)
        BY <1>1, <1>a DEF Tick
      <4> QED
        BY <1>c, <4>1
    <3> QED
      BY <1>1, <3>1 DEF Tick
  <2>6. UNCHANGED <<next_sleep, sleeper, now, read, hidden>>
    BY <1>1 DEF Tick
  <2> QED
    BY <1>a, <1>b, <2>1, <2>2, <2>3, <2>4, <2>5, <2>6 DEF TypeOK
<1>2. CASE pir_handler
  <2>1. next_sleep' \in Ticks /\ left' \in -Far .. Period /\ idle' \in 0 .. Far
    BY <1>2, <1>a, <1>c, DeadlineFacts DEF pir_handler
  <2>2. UNCHANGED <<tick, sleeper, now, due, read, slip, hidden>>
    BY <1>2 DEF pir_handler
  <2> QED
    BY <1>a, <1>b, <2>1, <2>2 DEF TypeOK
<1>3. ASSUME NEW t \in Tasks, ReadTick(t)
      PROVE  read' \in [Tasks -> TickOrNil] /\ slip' \in [Tasks -> 0 .. MaxSlip] /\ idle' = idle
  BY <1>3, <1>a, <1>d DEF ReadTick, Ran
<1>4. ASSUME NEW t \in Tasks, WriteDeadline(t)
      PROVE  /\ next_sleep' \in Ticks /\ left' \in -Far .. Period /\ idle' \in 0 .. Far
             /\ read' \in [Tasks -> TickOrNil] /\ slip' \in [Tasks -> 0 .. MaxSlip]
  <2>1. next_sleep' \in Ticks
    BY <1>4, WriteFacts, DeadlineFacts
  <2>2. left' \in -Far .. Period
    <3>1. slip[t] \in 0 .. MaxSlip /\ left' = Period - slip[t]
      BY <1>4, WriteFacts
    <3> QED
      BY <1>c, <3>1
  <2>3. idle' \in 0 .. Far
    <3>1. slip[t] \in 0 .. MaxSlip /\ idle' = IF slip[t] < idle THEN slip[t] ELSE idle
      BY <1>4, WriteFacts
    <3> QED
      BY <1>a, <1>c, <3>1
  <2> QED
    BY <1>4, <1>a, <1>d, <2>1, <2>2, <2>3 DEF WriteDeadline, Ran
<1>5. CASE Quiet
  <2>1. UNCHANGED <<tick, next_sleep, left, idle>> /\ now' \in Ticks
    BY <1>5, <1>a, QuietFacts DEF PowerInv
  <2>2. slip' \in [Tasks -> 0 .. MaxSlip]
    BY <1>5, <1>a, <1>d, QuietFacts DEF PowerInv
  <2>3. sleeper' \in Steps
    BY <1>5 DEF Quiet, Look, Decide, StayAwake, FallAsleep, WakeUp, Resume, LookAgain,
                BeginDelay, DelayOver, At, Goto, Steps
  <2>4. due' \in Ticks
    <3>1. due' = due \/ due' = (next_sleep - now) % W
      BY <1>5 DEF Quiet, Look, Decide, StayAwake, FallAsleep, WakeUp, Resume, LookAgain,
                  BeginDelay, DelayOver
    <3> QED
      BY <1>a, <3>1, ModFacts DEF Ticks
  <2>5. read' \in [Tasks -> TickOrNil]
    BY <1>5, <1>3, <1>a DEF Quiet, Look, Decide, StayAwake, FallAsleep, WakeUp, Resume, LookAgain,
                            BeginDelay, DelayOver, Tasks
  <2>6. hidden' \in BOOLEAN
    <3>1. CASE BeginDelay
      BY <3>1 DEF BeginDelay
    <3>2. CASE ~BeginDelay
      <4>1. hidden' = hidden
        BY <1>5, <3>2 DEF Quiet, Look, Decide, StayAwake, FallAsleep, WakeUp, Resume, LookAgain,
                          DelayOver
      <4> QED
        BY <1>b, <4>1
    <3> QED
      BY <3>1, <3>2
  <2> QED
    BY <1>a, <2>1, <2>2, <2>3, <2>4, <2>5, <2>6 DEF TypeOK
<1>6. CASE ReadTick("encoder") /\ UNCHANGED <<tick, next_sleep, sleeper, now, due, left, hidden>>
  BY <1>6, <1>3, <1>a, <1>b DEF TypeOK, Tasks
<1>7. CASE WriteDeadline("encoder") /\ UNCHANGED <<tick, sleeper, now, due, hidden>>
  BY <1>7, <1>4, <1>a, <1>b DEF TypeOK, Tasks
<1>8. CASE Postpone
  <2>1. /\ WriteDeadline("sleep_check") /\ sleeper' \in Steps
        /\ UNCHANGED <<tick, now, due, hidden>>
    BY <1>8 DEF Postpone, Steps
  <2> QED
    BY <2>1, <1>4, <1>a, <1>b DEF TypeOK, Tasks
<1>9. CASE UNCHANGED powerVars
  BY <1>9, <1>a, <1>b DEF powerVars, TypeOK
<1> QED
  BY <1>1, <1>2, <1>5, <1>6, <1>7, <1>8, <1>9, NextCases

-----------------------------------------------------------------------------
(* Time passes *)

\* A tick, for a task that has been waiting since it read a tick count.
LEMMA TickFacts ==
  ASSUME PowerInv, Tick
  PROVE  /\ tick' = tick + 1 \/ (tick = W - 1 /\ tick' = 0)
         /\ \A a \in Ticks : Later(a, tick) < W - 1 => Later(a, tick') = Later(a, tick) + 1
         /\ left' = IF left > -Far THEN left - 1 ELSE -Far
         /\ \A t \in Tasks : slip'[t] = IF CanRun(t) THEN slip[t] + 1 ELSE 0
         /\ \A t \in Tasks : CanRun(t) => slip[t] < MaxSlip
<1>1. tick \in Ticks /\ W \in Nat
  BY PowerAssumption DEF PowerInv, TypeOK, PowerAssumption
<1>2. tick' = (tick + 1) % W
  BY DEF Tick
<1>3. tick' = tick + 1 \/ (tick = W - 1 /\ tick' = 0)
  BY <1>1, <1>2, ModFacts DEF Ticks
<1>4. \A a \in Ticks : Later(a, tick) < W - 1 => Later(a, tick') = Later(a, tick) + 1
  BY <1>1, <1>2, LaterTick
<1> QED
  BY <1>3, <1>4 DEF Tick

\* Whoever has read the tick count is ready to run.
LEMMA SlipStep == PowerInv /\ [Next]_powerVars => SlipInv'
<1> SUFFICES ASSUME PowerInv, [Next]_powerVars PROVE SlipInv'
  OBVIOUS
<1>a. /\ tick \in Ticks /\ now \in Ticks /\ sleeper \in Steps
      /\ read \in [Tasks -> TickOrNil] /\ slip \in [Tasks -> 0 .. MaxSlip]
  BY DEF PowerInv, TypeOK
<1>b. SlipInv
  BY DEF PowerInv
<1>c. W \in Nat /\ MaxSlip \in Nat /\ MaxSlip < W - 1
  BY PowerAssumption DEF PowerAssumption
<1>d. \A t \in Tasks : read[t] # -1 => read[t] \in Ticks
  BY <1>a, PowerAssumption DEF PowerAssumption, TickOrNil, Ticks
<1>e. Later(tick, tick) = 0 /\ tick # -1
  BY <1>a, <1>c DEF Later, Ticks
<1>f. "sleep_check" \in Tasks /\ "encoder" \in Tasks /\ "sleep_check" # "encoder"
  BY DEF Tasks
<1>1. CASE Tick
  <2>1. UNCHANGED <<read, sleeper, now>>
    BY <1>1 DEF Tick
  <2>2. ASSUME NEW t \in Tasks, read[t] # -1
        PROVE  Later(read[t], tick') = slip'[t]
    <3>1. CanRun(t)
      BY <1>b, <2>2 DEF SlipInv, CanRun, Tasks
    <3>2. slip'[t] = slip[t] + 1 /\ slip[t] < MaxSlip
      BY <1>1, <3>1, TickFacts
    <3>3. Later(read[t], tick) = slip[t] /\ slip[t] \in 0 .. MaxSlip /\ read[t] \in Ticks
      BY <1>a, <1>b, <1>d, <2>2 DEF SlipInv
    <3>4. Later(read[t], tick') = Later(read[t], tick) + 1
      BY <1>1, <1>c, <3>2, <3>3, TickFacts
    <3> QED
      BY <3>2, <3>3, <3>4
  <2>3. ASSUME sleeper = "compare"
        PROVE  Later(now, tick') = slip'["sleep_check"]
    <3>1. CanRun("sleep_check")
      BY <2>3 DEF CanRun
    <3>2. slip'["sleep_check"] = slip["sleep_check"] + 1 /\ slip["sleep_check"] < MaxSlip
      BY <1>1, <1>f, <3>1, TickFacts
    <3>3. Later(now, tick) = slip["sleep_check"] /\ slip["sleep_check"] \in 0 .. MaxSlip
      BY <1>a, <1>b, <1>f, <2>3 DEF SlipInv
    <3>4. Later(now, tick') = Later(now, tick) + 1
      BY <1>1, <1>a, <1>c, <3>2, <3>3, TickFacts
    <3> QED
      BY <3>2, <3>3, <3>4
  <2> QED
    BY <1>b, <2>1, <2>2, <2>3 DEF SlipInv
<1>2. ASSUME NEW t \in Tasks, ReadTick(t), tick' = tick
      PROVE  /\ \A u \in Tasks : read'[u] # -1 => Later(read'[u], tick') = slip'[u]
             /\ read'[t] # -1 /\ \A u \in Tasks \ {t} : read'[u] = read[u] /\ slip'[u] = slip[u]
  <2>1. /\ read'[t] = tick /\ slip'[t] = 0
        /\ \A u \in Tasks \ {t} : read'[u] = read[u] /\ slip'[u] = slip[u]
    BY <1>2, <1>a DEF ReadTick, Ran
  <2> QED
    BY <1>2, <1>b, <1>e, <2>1 DEF SlipInv
<1>3. ASSUME NEW t \in Tasks, WriteDeadline(t), tick' = tick
      PROVE  /\ \A u \in Tasks : read'[u] # -1 => Later(read'[u], tick') = slip'[u]
             /\ read'[t] = -1 /\ \A u \in Tasks \ {t} : read'[u] = read[u] /\ slip'[u] = slip[u]
  <2>1. /\ read'[t] = -1 /\ slip'[t] = 0
        /\ \A u \in Tasks \ {t} : read'[u] = read[u] /\ slip'[u] = slip[u]
    BY <1>3, <1>a, <1>c DEF WriteDeadline, Ran, TickOrNil
  <2> QED
    BY <1>3, <1>b, <2>1 DEF SlipInv
<1>4. CASE Quiet /\ ~Resume
  <2>1. UNCHANGED <<tick, read>> /\ sleeper # "update" /\ sleeper' # "update"
    BY <1>4 DEF Quiet, Look, Decide, StayAwake, FallAsleep, WakeUp, LookAgain, BeginDelay,
                DelayOver, At, Goto
  <2>2. slip' = [slip EXCEPT !["sleep_check"] = 0]
    BY <1>4, QuietFacts DEF PowerInv
  <2>3. slip'["sleep_check"] = 0 /\ \A u \in Tasks : u # "sleep_check" => slip'[u] = slip[u]
    BY <1>a, <1>f, <2>2
  <2>4. sleeper' = "compare" => now' = tick
    BY <1>4 DEF Quiet, Look, Decide, StayAwake, FallAsleep, WakeUp, LookAgain, BeginDelay,
                DelayOver, At, Goto
  <2> QED
    BY <1>b, <1>e, <2>1, <2>3, <2>4 DEF SlipInv
<1>5. CASE Resume
  <2>1. ReadTick("sleep_check") /\ tick' = tick /\ sleeper' = "update"
    BY <1>5 DEF Resume
  <2> QED
    BY <1>2, <1>f, <2>1 DEF SlipInv
<1>6. CASE Postpone
  <2>1. WriteDeadline("sleep_check") /\ tick' = tick /\ sleeper' = "again"
    BY <1>6 DEF Postpone
  <2> QED
    BY <1>3, <1>f, <2>1 DEF SlipInv
<1>7. CASE ReadTick("encoder") /\ UNCHANGED <<tick, next_sleep, sleeper, now, due, left, hidden>>
  <2>1. /\ \A u \in Tasks : read'[u] # -1 => Later(read'[u], tick') = slip'[u]
        /\ read'["sleep_check"] = read["sleep_check"] /\ slip'["sleep_check"] = slip["sleep_check"]
    BY <1>2, <1>7, <1>f
  <2> QED
    BY <1>7, <1>b, <2>1 DEF SlipInv
<1>8. CASE WriteDeadline("encoder") /\ UNCHANGED <<tick, sleeper, now, due, hidden>>
  <2>1. /\ \A u \in Tasks : read'[u] # -1 => Later(read'[u], tick') = slip'[u]
        /\ read'["sleep_check"] = read["sleep_check"] /\ slip'["sleep_check"] = slip["sleep_check"]
    BY <1>3, <1>8, <1>f
  <2> QED
    BY <1>8, <1>b, <2>1 DEF SlipInv
<1>9. CASE pir_handler \/ UNCHANGED powerVars
  <2>1. UNCHANGED <<tick, sleeper, now, read, slip>>
    BY <1>9 DEF pir_handler, powerVars
  <2> QED
    BY <1>b, <2>1 DEF SlipInv
<1> QED
  BY <1>1, <1>4, <1>5, <1>6, <1>7, <1>8, <1>9, NextCases

\* The deadline moves with what has been read, and left with it.
LEMMA DeadlineStep == PowerInv /\ [Next]_powerVars => DeadlineInv' /\ IdleInv'
<1> SUFFICES ASSUME PowerInv, [Next]_powerVars PROVE DeadlineInv' /\ IdleInv'
  OBVIOUS
<1>a. /\ tick \in Ticks /\ next_sleep \in Ticks /\ idle \in 0 .. Far /\ left \in -Far .. Period
      /\ tick \in Int /\ next_sleep \in Int /\ idle \in Int /\ left \in Int
      /\ 0 <= tick /\ tick < W /\ 0 <= next_sleep /\ next_sleep < W
  BY PowerAssumption DEF PowerInv, TypeOK, Ticks, Far, PowerAssumption
<1>b. DeadlineInv /\ IdleInv
  BY DEF PowerInv
<1>c. /\ W \in Nat /\ Period \in Nat /\ MaxSlip \in Nat /\ Far = 2 * W
      /\ MaxSlip < Period /\ Period < W
  BY PowerAssumption DEF PowerAssumption, Far
<1>1. CASE Tick
  <2>1. /\ tick' = tick + 1 \/ (tick = W - 1 /\ tick' = 0)
        /\ left' = IF left > -Far THEN left - 1 ELSE -Far
    BY <1>1, TickFacts
  <2>2. next_sleep' = next_sleep /\ idle' = IF idle < Far THEN idle + 1 ELSE Far
    BY <1>1 DEF Tick
  <2>3. DeadlineInv'
    <3>1. SUFFICES ASSUME left' > -Far
                   PROVE  next_sleep' - tick' - left' \in {-W, 0, W, 2 * W}
      BY DEF DeadlineInv
    <3>2. left > -Far /\ left' = left - 1
      BY <1>a, <1>c, <2>1, <3>1
    <3>3. next_sleep - tick - left \in {-W, 0, W, 2 * W}
      BY <1>b, <3>2 DEF DeadlineInv
    <3>4. CASE tick' = tick + 1
      BY <1>a, <1>c, <2>2, <3>2, <3>3, <3>4
    <3>5. CASE tick = W - 1 /\ tick' = 0
      BY <1>a, <1>c, <2>2, <3>1, <3>2, <3>3, <3>5
    <3> QED
      BY <2>1, <3>4, <3>5
  <2>4. IdleInv'
    BY <1>a, <1>b, <1>c, <2>1, <2>2 DEF IdleInv
  <2> QED
    BY <2>3, <2>4
<1>2. CASE pir_handler
  <2>1. tick' = tick /\ next_sleep' = Deadline(tick) /\ left' = Period /\ idle' = 0
    BY <1>2 DEF pir_handler
  <2>2. Deadline(tick) = tick + Period \/ Deadline(tick) = tick + Period - W
    BY <1>a, DeadlineFacts
  <2> QED
    BY <1>a, <1>c, <2>1, <2>2 DEF DeadlineInv, IdleInv
<1>3. ASSUME NEW t \in Tasks, WriteDeadline(t), tick' = tick
      PROVE  DeadlineInv' /\ IdleInv'
  <2>1. /\ slip[t] \in 0 .. MaxSlip /\ read[t] \in Ticks
        /\ tick = read[t] + slip[t] \/ tick = read[t] + slip[t] - W
        /\ next_sleep' = Deadline(read[t])
        /\ left' = Period - slip[t]
        /\ idle' = IF slip[t] < idle THEN slip[t] ELSE idle
    BY <1>3, WriteFacts
  <2>2. Deadline(read[t]) = read[t] + Period \/ Deadline(read[t]) = read[t] + Period - W
    BY <2>1, DeadlineFacts
  <2>3. read[t] \in Int /\ slip[t] \in Int /\ slip[t] >= 0 /\ slip[t] <= MaxSlip
    BY <1>c, <2>1 DEF Ticks
  <2>4. DeadlineInv'
    BY <1>3, <1>a, <1>c, <2>1, <2>2, <2>3 DEF DeadlineInv
  <2>5. IdleInv'
    BY <1>a, <1>c, <2>1, <2>3 DEF IdleInv
  <2> QED
    BY <2>4, <2>5
<1>4. CASE UNCHANGED <<tick, next_sleep, left, idle>>
  BY <1>4, <1>b DEF DeadlineInv, IdleInv
<1>5. CASE Quiet
  BY <1>5, <1>4, QuietFacts DEF PowerInv
<1>6. CASE ReadTick("encoder") /\ UNCHANGED <<tick, next_sleep, sleeper, now, due, left, hidden>>
  BY <1>6, <1>4 DEF ReadTick
<1>7. CASE (WriteDeadline("encoder") /\ UNCHANGED <<tick, sleeper, now, due, hidden>>) \/ Postpone
  BY <1>7, <1>3 DEF Postpone, Tasks
<1>8. CASE UNCHANGED powerVars
  BY <1>8, <1>4 DEF powerVars
<1> QED
  BY <1>1, <1>2, <1>5, <1>6, <1>7, <1>8, NextCases

\* The device has been started, and its first deadline set.
LEMMA PowerInit == Init => PowerInv
<1> SUFFICES ASSUME Init PROVE PowerInv
  OBVIOUS
<1>1. /\ tick = 0 /\ next_sleep = Period /\ sleeper = "look" /\ now = 0 /\ due = 0
      /\ idle = 0 /\ left = Period /\ hidden = FALSE
      /\ read = [t \in Tasks |-> -1] /\ slip = [t \in Tasks |-> 0]
  BY DEF Init
<1>2. /\ W \in Nat /\ Period \in Nat /\ MaxSlip \in Nat /\ Far = 2 * W
      /\ 0 < Period /\ Period < W
  BY PowerAssumption DEF PowerAssumption, Far
<1>3. /\ tick \in Ticks /\ next_sleep \in Ticks /\ now \in Ticks /\ due \in Ticks
      /\ idle \in 0 .. Far /\ left \in -Far .. Period
  BY <1>1, <1>2 DEF Ticks
<1>4. read \in [Tasks -> TickOrNil] /\ slip \in [Tasks -> 0 .. MaxSlip]
  BY <1>1, <1>2 DEF TickOrNil
<1>5. hidden \in BOOLEAN
  BY <1>1
<1>6. TypeOK
  BY <1>1, <1>3, <1>4, <1>5 DEF TypeOK, Steps
<1>7. SlipInv
  BY <1>1 DEF SlipInv, Tasks
<1>8. DeadlineInv /\ IdleInv
  BY <1>1, <1>2 DEF DeadlineInv, IdleInv
<1> QED
  BY <1>6, <1>7, <1>8 DEF PowerInv

\* The invariant holds throughout.
LEMMA PowerAlways == Spec => []PowerInv
<1>1. PowerInv /\ [Next]_powerVars => PowerInv'
  BY TypeStep, SlipStep, DeadlineStep DEF PowerInv
<1> QED
  BY <1>1, PowerInit, PTL DEF Spec

\* Every variable keeps its type: tick counts stay below W however often they
\* wrap, and no task is kept waiting longer than MaxSlip.
THEOREM PowerTyped == Spec => []TypeOK
<1>1. PowerInv => TypeOK
  BY DEF PowerInv
<1> QED
  BY <1>1, PowerAlways, PTL

-----------------------------------------------------------------------------
(* The decision to sleep *)

\* The sleep is decided only after a period without activity, but for the ticks
\* between reading and overwriting; or the deadline lay beyond a wrap.
THEOREM SleepsOnlyIdle == Spec => DecidesOnlyIdle
<1>1. ASSUME PowerInv, Decide
      PROVE  \/ idle > Period - MaxSlip
             \/ now + ((tick - now) % W) + left >= W
  <2>1. sleeper = "compare" /\ now > next_sleep
    BY <1>1 DEF Decide, At
  <2>2. /\ tick \in Ticks /\ now \in Ticks /\ next_sleep \in Ticks
        /\ idle \in 0 .. Far /\ left \in -Far .. Period
    BY <1>1 DEF PowerInv, TypeOK
  <2>3. /\ W \in Nat /\ Period \in Nat /\ MaxSlip \in Nat /\ Far = 2 * W
        /\ MaxSlip < Period /\ Period < W
    BY PowerAssumption DEF PowerAssumption, Far
  <2>4. /\ (tick - now) % W = Later(now, tick)
        /\ Later(now, tick) \in Ticks
        /\ tick = now + Later(now, tick) \/ tick = now + Later(now, tick) - W
    BY <2>2, LaterFacts
  <2>5. CASE left < 0
    BY <1>1, <2>2, <2>3, <2>5 DEF PowerInv, IdleInv
  <2>6. CASE left >= 0
    <3>1. next_sleep - tick - left \in {-W, 0, W, 2 * W}
      BY <1>1, <2>2, <2>3, <2>6 DEF PowerInv, DeadlineInv
    <3>2. now + Later(now, tick) + left >= W
      BY <2>1, <2>2, <2>3, <2>4, <2>6, <3>1 DEF Ticks
    <3> QED
      BY <2>4, <3>2
  <2> QED
    BY <2>2, <2>3, <2>5, <2>6
<1>2. PowerInv /\ [Next]_powerVars =>
        [Decide => \/ idle > Period - MaxSlip
                   \/ now + ((tick - now) % W) + left >= W]_powerVars
  BY <1>1
<1> QED
  BY <1>2, PowerAlways, PTL DEF Spec, DecidesOnlyIdle

-----------------------------------------------------------------------------
(* The sleep comes in time *)

\* Two steps of a task take no longer than a period.  Without this the time to
\* wait can be negative after a wake-up, and vTaskDelay takes it for a turn of
\* the tick count: the run's constants satisfy it, the firmware's 2000 ticks too.
Prompt == 2 * MaxSlip <= Period

\* Ticks sleep_check has been kept from its next step.
Late == slip["sleep_check"]

\* At most n ticks behind the deadline, but for one before a wrap.
OnTime(n) == left >= -n \/ tick + left < 0 \/ hidden

\* How far the task is behind when it looks, compares and waits: the wait it has
\* begun ends at most three steps after the deadline.
SleepInv ==
  /\ sleeper = "look" => OnTime(4 * MaxSlip + Late)
  /\ sleeper = "compare" => OnTime(5 * MaxSlip + Late)
  /\ sleeper = "again" => left >= Period - MaxSlip - Late
  /\ sleeper = "wait" =>
       /\ Later(now, tick) <= MaxSlip + Late
       /\ tick + left < 0 \/ Later(now, tick) + left >= 0
  /\ sleeper = "delay" /\ ~hidden =>
       /\ due <= Period + 2 * MaxSlip
       /\ due <= left + 3 * MaxSlip + Late
       /\ due > 0 => Late = 0

\* The integers of a state and what they satisfy.
LEMMA Numbers ==
  ASSUME PowerInv
  PROVE  /\ W \in Int /\ Period \in Int /\ MaxSlip \in Int /\ Far = 2 * W
         /\ 0 <= MaxSlip /\ MaxSlip < Period /\ Period < W
         /\ tick \in Int /\ now \in Int /\ next_sleep \in Int /\ due \in Int
         /\ 0 <= tick /\ tick < W /\ 0 <= now /\ now < W
         /\ 0 <= next_sleep /\ next_sleep < W /\ 0 <= due /\ due < W
         /\ left \in Int /\ -Far <= left /\ left <= Period
         /\ Late \in Int /\ 0 <= Late /\ Late <= MaxSlip
         /\ Later(now, tick) \in Int /\ 0 <= Later(now, tick) /\ Later(now, tick) < W
         /\ tick = now + Later(now, tick) \/ tick = now + Later(now, tick) - W
         /\ left > -Far => next_sleep - tick - left \in {-W, 0, W, 2 * W}
<1>1. /\ tick \in Ticks /\ now \in Ticks /\ next_sleep \in Ticks /\ due \in Ticks
      /\ left \in -Far .. Period /\ slip["sleep_check"] \in 0 .. MaxSlip
  BY DEF PowerInv, TypeOK, Tasks
<1>2. /\ W \in Nat /\ Period \in Nat /\ MaxSlip \in Nat /\ Far = 2 * W
      /\ MaxSlip < Period /\ Period < W
  BY PowerAssumption DEF PowerAssumption, Far
<1>3. /\ Later(now, tick) \in Ticks
      /\ tick = now + Later(now, tick) \/ tick = now + Later(now, tick) - W
  BY <1>1, LaterFacts
<1> QED
  BY <1>1, <1>2, <1>3 DEF PowerInv, DeadlineInv, Ticks, Late

\* Activity puts the deadline almost a period ahead.
LEMMA ActivityKeeps ==
  ASSUME Prompt, PowerInv, SleepInv, sleeper' = sleeper, left' \in Int, left' >= Period - MaxSlip,
         left' <= Period, UNCHANGED <<tick, now, due, hidden>>, Late' = Late
  PROVE  SleepInv'
<1> USE Numbers
<1>1. Later(now, tick)' = Later(now, tick)
  BY DEF Later
<1>3. 4 * MaxSlip + Late \in Int /\ 4 * MaxSlip + Late >= 0
      /\ 5 * MaxSlip + Late \in Int /\ 5 * MaxSlip + Late >= 0
  OBVIOUS
<1>4. OnTime(4 * MaxSlip + Late)' /\ OnTime(5 * MaxSlip + Late)'
  BY <1>3 DEF OnTime
<1>5. sleeper = "again" => left' >= Period - MaxSlip - Late
  OBVIOUS
<1>6. sleeper = "wait" => Later(now, tick) <= MaxSlip + Late /\ Later(now, tick) + left' >= 0
  BY DEF SleepInv
<1>7. sleeper = "delay" /\ ~hidden =>
        /\ due <= Period + 2 * MaxSlip
        /\ due <= left' + 3 * MaxSlip + Late
        /\ due > 0 => Late = 0
  BY DEF SleepInv
<1> QED
  BY <1>1, <1>4, <1>5, <1>6, <1>7 DEF SleepInv

\* Time passes: the task is late by what it has been kept waiting.
LEMMA TickKeeps ==
  ASSUME Prompt, PowerInv, SleepInv, Tick
  PROVE  SleepInv'
<1> USE Numbers
<1>1. /\ tick' = tick + 1 \/ (tick = W - 1 /\ tick' = 0)
      /\ left' = IF left > -Far THEN left - 1 ELSE -Far
  BY TickFacts
<1>2. UNCHANGED <<next_sleep, sleeper, now, hidden>>
  BY DEF Tick
<1>3. Late' = IF sleeper # "delay" \/ due = 0 THEN Late + 1 ELSE 0
  BY TickFacts DEF Late, CanRun, Tasks
<1>4. sleeper # "delay" \/ due = 0 => Late < MaxSlip
  BY TickFacts DEF Late, CanRun, Tasks
<1>5. left' \in Int /\ left' >= left - 1 /\ (tick + left < 0 => tick' + left' < 0)
  BY <1>1
<1>7. sleeper = "look" => OnTime(4 * MaxSlip + Late)'
  <2>1. ASSUME sleeper = "look" PROVE left' >= -(4 * MaxSlip + Late') \/ tick' + left' < 0 \/ hidden'
    BY <1>2, <1>3, <1>5, <2>1 DEF SleepInv, OnTime
  <2> QED
    BY <2>1 DEF OnTime
<1>8. sleeper = "compare" => OnTime(5 * MaxSlip + Late)'
  <2>1. ASSUME sleeper = "compare" PROVE left' >= -(5 * MaxSlip + Late') \/ tick' + left' < 0 \/ hidden'
    BY <1>2, <1>3, <1>5, <2>1 DEF SleepInv, OnTime
  <2> QED
    BY <2>1 DEF OnTime
<1>9. sleeper = "again" => left' >= Period - MaxSlip - Late'
  BY <1>3, <1>5 DEF SleepInv
<1>10. ASSUME sleeper = "wait"
       PROVE  /\ Later(now, tick)' <= MaxSlip + Late'
              /\ tick' + left' < 0 \/ Later(now, tick)' + left' >= 0
  <2>1. Late' = Late + 1 /\ Late < MaxSlip
    BY <1>3, <1>4, <1>10
  <2>2. Later(now, tick) <= MaxSlip + Late
    BY <1>10 DEF SleepInv
  <2>3. Later(now, tick) < W - 1
    BY <2>1, <2>2 DEF Prompt
  <2>4. Later(now, tick)' = Later(now, tick) + 1
    <3>1. now \in Ticks
      BY DEF PowerInv, TypeOK
    <3>2. Later(now, tick') = Later(now, tick) + 1
      BY <2>3, <3>1, TickFacts
    <3> QED
      BY <1>2, <3>2 DEF Later
  <2> QED
    BY <1>5, <1>10, <2>1, <2>2, <2>4 DEF SleepInv
<1>11. ASSUME sleeper = "delay", ~hidden
       PROVE  /\ due' <= Period + 2 * MaxSlip
              /\ due' <= left' + 3 * MaxSlip + Late'
              /\ due' > 0 => Late' = 0
  <2>1. due' = IF due > 0 THEN due - 1 ELSE 0
    BY DEF Tick
  <2>2. /\ due <= Period + 2 * MaxSlip
        /\ due <= left + 3 * MaxSlip + Late
        /\ due > 0 => Late = 0
    BY <1>11 DEF SleepInv
  <2>3. CASE due > 0
    BY <1>3, <1>5, <1>11, <2>1, <2>2, <2>3
  <2>4. CASE due = 0
    BY <1>3, <1>5, <1>11, <2>1, <2>2, <2>4
  <2> QED
    BY <2>3, <2>4
<1> QED
  BY <1>2, <1>7, <1>8, <1>9, <1>10, <1>11 DEF SleepInv

\* A task that stays awake has the deadline ahead of what it has read, in unsigned
\* arithmetic; and so it has the time it waits for.
LEMMA CompareKeeps ==
  ASSUME Prompt, PowerInv, SleepInv, StayAwake
  PROVE  SleepInv'
<1> USE Numbers
<1>1. /\ sleeper' = "wait" /\ Late' = 0 /\ sleeper = "compare" /\ now <= next_sleep
      /\ UNCHANGED <<tick, now, left>>
  BY DEF StayAwake, At, Goto, Ran, Late, PowerInv, TypeOK, Tasks
<1>2. Later(now, tick) = Late
  BY <1>1 DEF PowerInv, SlipInv, Late
<1>3. Later(now, tick)' = Later(now, tick)
  BY <1>1 DEF Later
<1>4. tick + left < 0 \/ Later(now, tick) + left >= 0
  BY <1>1
<1> QED
  BY <1>1, <1>2, <1>3, <1>4 DEF SleepInv

\* The wait lasts no longer than to the deadline, unless it has been hidden.
LEMMA DelayKeeps ==
  ASSUME Prompt, PowerInv, SleepInv, BeginDelay
  PROVE  SleepInv'
<1> USE Numbers
<1>1. /\ sleeper = "wait" /\ sleeper' = "delay" /\ Late' = 0
      /\ due' = (next_sleep - now) % W /\ hidden' = (tick + left < 0)
      /\ UNCHANGED <<tick, now, left>>
  BY DEF BeginDelay, At, Goto, Ran, Late, PowerInv, TypeOK, Tasks
<1>2. CASE tick + left < 0
  BY <1>1, <1>2 DEF SleepInv
<1>3. CASE tick + left >= 0
  <2>1. Later(now, tick) <= 2 * MaxSlip /\ Later(now, tick) + left >= 0
    BY <1>1, <1>3 DEF SleepInv
  <2>2. now \in Ticks /\ next_sleep \in Ticks
    BY DEF PowerInv, TypeOK
  <2>3. due' = Later(now, next_sleep) /\ due' \in Int /\ due' >= 0 /\ due' < W
        /\ (next_sleep = now + due' \/ next_sleep = now + due' - W)
    <3>1. /\ (next_sleep - now) % W = Later(now, next_sleep)
          /\ Later(now, next_sleep) \in Ticks
          /\ next_sleep = now + Later(now, next_sleep)
             \/ next_sleep = now + Later(now, next_sleep) - W
      BY <2>2, LaterFacts
    <3>2. due' = Later(now, next_sleep)
      BY <1>1, <3>1
    <3> QED
      BY <3>1, <3>2 DEF Ticks
  <2>4. due' <= Later(now, tick) + left
    BY <1>3, <2>1, <2>3
  <2> QED
    BY <1>1, <2>1, <2>4 DEF SleepInv
<1> QED
  BY <1>2, <1>3

\* Every other step of sleep_check, and a reading of the tick count.
LEMMA QuietKeeps ==
  ASSUME Prompt, PowerInv, SleepInv, Quiet, ~StayAwake, ~BeginDelay
  PROVE  SleepInv'
<1> USE Numbers
<1>1. UNCHANGED <<tick, left, due, hidden>> /\ Late' = 0
  <2>1. slip' = [slip EXCEPT !["sleep_check"] = 0] /\ slip \in [Tasks -> 0 .. MaxSlip]
    BY QuietFacts DEF PowerInv, TypeOK
  <2>2. Late' = 0
    BY <2>1 DEF Late, Tasks
  <2> QED
    BY <2>2 DEF Quiet, Look, Decide, FallAsleep, WakeUp, Resume, LookAgain, DelayOver
<1>2. CASE Look
  <2>1. sleeper = "look" /\ sleeper' = "compare"
    BY <1>2 DEF Look, At, Goto
  <2>2. left >= -(5 * MaxSlip) \/ tick + left < 0 \/ hidden
    BY <2>1 DEF SleepInv, OnTime
  <2> QED
    BY <1>1, <2>1, <2>2 DEF SleepInv, OnTime
<1>3. CASE LookAgain
  <2>1. sleeper = "again" /\ sleeper' = "wait" /\ now' = tick
    BY <1>3 DEF LookAgain, At, Goto
  <2>2. left >= 0
    BY <2>1 DEF SleepInv, Prompt
  <2>3. Later(now, tick)' = 0
    BY <1>1, <2>1 DEF Later
  <2> QED
    BY <1>1, <2>1, <2>2, <2>3 DEF SleepInv
<1>4. CASE DelayOver
  <2>1. sleeper = "delay" /\ sleeper' = "look" /\ due = 0
    BY <1>4 DEF DelayOver, At, Goto
  <2>2. left >= -(4 * MaxSlip) \/ hidden
    BY <2>1 DEF SleepInv
  <2> QED
    BY <1>1, <2>1, <2>2 DEF SleepInv, OnTime
<1>5. CASE Decide \/ FallAsleep \/ WakeUp \/ Resume
  <2>1. sleeper' \in {"before", "asleep", "after", "update"}
    BY <1>5 DEF Decide, FallAsleep, WakeUp, Resume, At, Goto
  <2> QED
    BY <2>1 DEF SleepInv
<1> QED
  BY <1>2, <1>3, <1>4, <1>5 DEF Quiet

\* Every step keeps the task on time.
LEMMA SleepStep == Prompt /\ PowerInv /\ SleepInv /\ [Next]_powerVars => SleepInv'
<1> SUFFICES ASSUME Prompt, PowerInv, SleepInv, [Next]_powerVars PROVE SleepInv'
  OBVIOUS
<1> USE Numbers
<1>1. CASE pir_handler
  <2>1. left' = Period /\ UNCHANGED <<tick, sleeper, now, due, slip, hidden>>
    BY <1>1 DEF pir_handler
  <2> QED
    BY <2>1, ActivityKeeps DEF Late
<1>2. ASSUME NEW t \in Tasks, WriteDeadline(t)
      PROVE  left' \in Int /\ left' >= Period - MaxSlip /\ left' <= Period
  <2>1. slip[t] \in 0 .. MaxSlip /\ left' = Period - slip[t]
    BY <1>2, WriteFacts
  <2> QED
    BY <2>1
<1>3. CASE WriteDeadline("encoder") /\ UNCHANGED <<tick, sleeper, now, due, hidden>>
  <2>1. Late' = Late
    BY <1>3 DEF WriteDeadline, Ran, Late, PowerInv, TypeOK, Tasks
  <2>2. left' \in Int /\ left' >= Period - MaxSlip /\ left' <= Period
    BY <1>2, <1>3 DEF Tasks
  <2> QED
    BY <1>3, <2>1, <2>2, ActivityKeeps
<1>4. CASE Postpone
  <2>1. sleeper' = "again" /\ WriteDeadline("sleep_check")
    BY <1>4 DEF Postpone
  <2>2. left' \in Int /\ left' >= Period - MaxSlip /\ Late' = 0
    BY <1>2, <2>1 DEF WriteDeadline, Ran, Late, PowerInv, TypeOK, Tasks
  <2> QED
    BY <2>1, <2>2 DEF SleepInv
<1>5. CASE UNCHANGED <<tick, sleeper, now, due, left, hidden>> /\ Late' = Late
  <2>1. Later(now, tick)' = Later(now, tick)
    BY <1>5 DEF Later
  <2> QED
    BY <1>5, <2>1 DEF SleepInv, OnTime
<1>6. CASE ReadTick("encoder") /\ UNCHANGED <<tick, next_sleep, sleeper, now, due, left, hidden>>
  <2>1. Late' = Late
    BY <1>6 DEF ReadTick, Ran, Late, PowerInv, TypeOK, Tasks
  <2> QED
    BY <1>5, <1>6, <2>1
<1>7. CASE UNCHANGED powerVars
  BY <1>5, <1>7 DEF powerVars, Late
<1> QED
  BY <1>1, <1>3, <1>4, <1>6, <1>7, NextCases, TickKeeps, CompareKeeps, DelayKeeps, QuietKeeps

\* While it waits, the task is at most six steps behind the deadline, or the
\* deadline lay before a wrap that it sees only after it.
THEOREM SleepsSoon == Prompt => (Spec => []SleepsInTime)
<1>1. Init => SleepInv
  <2> SUFFICES ASSUME Init PROVE SleepInv
    OBVIOUS
  <2>1. sleeper = "look" /\ left = Period
    BY DEF Init
  <2>2. left >= -(4 * MaxSlip + Late)
    BY <2>1, PowerInit, Numbers
  <2> QED
    BY <2>1, <2>2 DEF SleepInv, OnTime
<1>2. Prompt /\ PowerInv /\ SleepInv => SleepsInTime
  <2> SUFFICES ASSUME Prompt, PowerInv, SleepInv,
                      sleeper \in {"look", "compare", "wait", "delay"}
               PROVE  left >= -(6 * MaxSlip) \/ tick + left < 0 \/ hidden
    BY Numbers DEF SleepsInTime
  <2>1. CASE sleeper \in {"look", "compare"}
    BY <2>1, Numbers DEF SleepInv, OnTime
  <2>2. CASE sleeper \in {"wait", "delay"}
    BY <2>2, Numbers DEF SleepInv
  <2> QED
    BY <2>1, <2>2
<1>3. ASSUME Prompt PROVE Spec => []SleepsInTime
  <2>1. PowerInv /\ SleepInv /\ [Next]_powerVars => SleepInv'
    BY <1>3, SleepStep
  <2>2. PowerInv /\ SleepInv => SleepsInTime
    BY <1>2, <1>3
  <2> QED
    BY <1>1, <2>1, <2>2, PowerAlways, PTL DEF Spec
<1> QED
  BY <1>3

=============================================================================
