---------------------------- MODULE SensorUiProofs ----------------------------
(***************************************************************************)
(* Proofs about the display of the multisensor, for any number of edges,   *)
(* readings and failures: no turn is forgotten but in the window before    *)
(* the encoder task sleeps, the screen shows what was drawn last, which is *)
(* old only after the race that the code has, and every variable keeps its *)
(* type.                                                                   *)
(***************************************************************************)
EXTENDS SensorUi, TLAPS

-----------------------------------------------------------------------------
(* The encoder task *)

\* Until an interrupt finds it running, the task has read where the encoder is,
\* and from then on has followed it.
TurnInv ==
  /\ {pos, rotenc_pos, pos1} \subseteq Int
  /\ missed \in BOOLEAN
  /\ rpos \in {"none", "get", "compare", "changed", "show", "suspend", "suspended"}
  /\ rpos = "compare" /\ ~missed => pos1 = pos
  /\ rpos \in {"changed", "show", "suspend", "suspended"} /\ ~missed =>
       Abs(pos - rotenc_pos) < DETENT

\* An interrupt resumes a suspended task, and else is remembered as missed.
LEMMA EdgeTurn ==
  ASSUME TurnInv, NEW by \in {-1, 1}, rotenc_isr(by)
  PROVE  TurnInv'
<1>1. pos' \in Int /\ UNCHANGED <<rotenc_pos, pos1>>
  BY DEF TurnInv, rotenc_isr
<1>2. CASE rpos \in {"none", "suspended"}
  <2>1. rpos' \in {"none", "get"} /\ missed' \in BOOLEAN
    BY <1>2 DEF TurnInv, rotenc_isr
  <2> QED
    BY <1>1, <2>1 DEF TurnInv
<1>3. CASE rpos \notin {"none", "suspended"}
  <2>1. rpos' = rpos /\ missed' = TRUE
    BY <1>3 DEF TurnInv, rotenc_isr
  <2> QED
    BY <1>1, <2>1 DEF TurnInv
<1> QED
  BY <1>2, <1>3

\* The task compares what it has read; a turn by a value is taken over.
LEMMA TaskTurn ==
  ASSUME TurnInv, EncoderTask
  PROVE  TurnInv'
<1> USE DEF TurnInv
<1>1. CASE rotenc_getPos
  BY <1>1 DEF rotenc_getPos
<1>2. CASE TurnedFar
  <2>1. /\ rpos = "compare" /\ rpos' = "changed" /\ rotenc_pos' = pos1
        /\ pos' = pos /\ pos1' = pos1 /\ missed' = missed
    BY <1>2 DEF TurnedFar
  <2>2. ~missed => Abs(pos' - rotenc_pos') < DETENT
    BY <2>1, UiAssumption DEF UiAssumption, Abs
  <2> QED
    BY <2>1, <2>2
<1>3. CASE TurnedLittle
  <2>1. /\ rpos = "compare" /\ rpos' = "suspend" /\ Abs(pos1 - rotenc_pos) < DETENT
        /\ UNCHANGED <<pos, rotenc_pos, pos1, missed>>
    BY <1>3 DEF TurnedLittle
  <2> QED
    BY <2>1 DEF Abs
<1>4. CASE CopyReading \/ Shown \/ vTaskSuspend
  <2>1. /\ rpos \in {"changed", "show", "suspend"} /\ rpos' \in {"show", "suspend", "suspended"}
        /\ UNCHANGED <<pos, rotenc_pos, pos1, missed>>
    BY <1>4 DEF CopyReading, Shown, vTaskSuspend
  <2> QED
    BY <2>1 DEF Abs
<1> QED
  BY <1>1, <1>2, <1>3, <1>4 DEF EncoderTask

\* Every step keeps the invariant; an abort starts the task anew.
LEMMA TurnStep == TurnInv /\ [Next]_vars => TurnInv'
<1> SUFFICES ASSUME TurnInv, [Next]_vars PROVE TurnInv'
  OBVIOUS
<1>1. CASE UNCHANGED encVars
  BY <1>1 DEF TurnInv, encVars, Abs
<1>2. CASE Abort
  <2>1. pos' = 0 /\ rotenc_pos' = 0 /\ pos1' = 0 /\ rpos' = "none"
    BY <1>2 DEF Abort
  <2>2. missed' \in BOOLEAN
    BY <1>2 DEF Abort
  <2> QED
    BY <2>1, <2>2 DEF TurnInv
<1>3. CASE BootStep
  <2>1. CASE CreateEncoderTask
    BY <2>1 DEF CreateEncoderTask, TurnInv
  <2> QED
    BY <1>1, <1>3, <2>1 DEF BootStep, InstallInterrupt, CreateGuard, ClearScreen
<1>4. ASSUME NEW p \in Drawers, uisub_show(p)
      PROVE  TurnInv'
  BY <1>1, <1>2, <1>4
     DEF uisub_show, TakeGuard, GuardBusy, NoGuard, Draw, StoreAndGive
<1>5. CASE NewReading \/ SensorFails
  BY <1>1, <1>2, <1>5 DEF NewReading, SensorFails
<1>6. CASE UNCHANGED vars
  BY <1>1, <1>6 DEF vars
<1> QED
  BY <1>3, <1>4, <1>5, <1>6, EdgeTurn, TaskTurn DEF Next

\* A suspended encoder task has followed the encoder to within one value, unless
\* an interrupt came between its reading of the position and its suspension.
THEOREM TurnsFollowed == Spec => []TurnNotForgotten
<1>1. ASSUME Init PROVE TurnInv
  <2>1. pos = 0 /\ rotenc_pos = 0 /\ pos1 = 0 /\ rpos = "none"
    BY <1>1 DEF Init, DeviceInit
  <2>2. missed \in BOOLEAN
    BY <1>1 DEF Init, DeviceInit
  <2> QED
    BY <2>1, <2>2 DEF TurnInv
<1>2. TurnInv => TurnNotForgotten
  BY DEF TurnInv, TurnNotForgotten
<1> QED
  BY <1>1, <1>2, TurnStep, PTL DEF Spec

-----------------------------------------------------------------------------
(* The screen *)

Pictures == {Nothing} \cup [value : Values, number : Int]

All(n) == [v \in Values |-> n]

\* The picture shows this reading.
Shows(reading) == screen # Nothing => screen.number = reading[screen.value]

\* The mutex exists when the boot has created it, and is held by the task that
\* draws.
ShowTypes ==
  /\ show \in [Drawers -> {"idle", "take", "draw", "store"}]
  /\ data \in [Drawers -> [Values -> Int]]
  /\ disp_guard \in Drawers \cup {"null", "free"}
  /\ last_reading \in [Values -> Int]
  /\ screen \in Pictures
  /\ {newest, accepted} \subseteq Int
  /\ overtaken \in BOOLEAN
  /\ disp_guard = "null" <=> boot \in {"rotenc", "task", "guard"}
  /\ boot \in {"rotenc", "task"} => rpos = "none"
  /\ \A p \in Drawers : show[p] \in {"draw", "store"} <=> disp_guard = p
  /\ rpos # "show" => show["rpos"] = "idle"
  /\ show["read"] # "idle" => data["read"] = All(newest)

\* What is on the screen is what is stored, or what is about to be stored.
DrawnInv ==
  /\ disp_guard = "null" => screen = Nothing
  /\ disp_guard = "free" => Shows(last_reading)
  /\ \A p \in Drawers : show[p] = "store" => Shows(data[p])

\* Unless a redraw has been overtaken, every copy is the newest reading drawn.
CopyInv ==
  ~overtaken =>
    IF show["read"] = "store" THEN accepted = newest /\ show["rpos"] = "idle"
    ELSE /\ last_reading = All(accepted)
         /\ show["rpos"] # "idle" => data["rpos"] = All(accepted)

ScreenInv == ShowTypes /\ DrawnInv /\ CopyInv

\* A device that boots has drawn nothing.
LEMMA Fresh ==
  ASSUME boot = "rotenc", rpos = "none", disp_guard = "null", screen = Nothing, last_reading = Zero,
         show = [p \in Drawers |-> "idle"], data = [p \in Drawers |-> Zero],
         newest = 0, accepted = 0, overtaken = FALSE
  PROVE  ScreenInv
<1>0. Zero \in [Values -> Int]
  BY DEF Zero
<1>1. ShowTypes
  <2>1. show \in [Drawers -> {"idle", "take", "draw", "store"}]
    OBVIOUS
  <2>2. data \in [Drawers -> [Values -> Int]]
    BY <1>0
  <2>3. \A p \in Drawers : show[p] \in {"draw", "store"} <=> disp_guard = p
    BY DEF Drawers
  <2>4. show["rpos"] = "idle" /\ show["read"] = "idle"
    BY DEF Drawers
  <2>5. overtaken \in BOOLEAN
    OBVIOUS
  <2> QED
    BY <1>0, <2>1, <2>2, <2>3, <2>4, <2>5 DEF ShowTypes, Pictures
<1>2. DrawnInv
  BY DEF DrawnInv, Drawers
<1>3. CopyInv
  BY DEF CopyInv, Drawers, Zero, All
<1> QED
  BY <1>1, <1>2, <1>3 DEF ScreenInv

\* The same of an abort.
LEMMA FreshAgain == ASSUME Abort PROVE ScreenInv'
<1>0. Zero \in [Values -> Int]
  BY DEF Zero
<1>1. ShowTypes'
  <2>1. show' = [p \in Drawers |-> "idle"] /\ data' = [p \in Drawers |-> Zero]
    BY DEF Abort
  <2>2. show' \in [Drawers -> {"idle", "take", "draw", "store"}]
    BY <2>1
  <2>3. data' \in [Drawers -> [Values -> Int]]
    BY <1>0, <2>1
  <2>4. \A p \in Drawers : show'[p] \in {"draw", "store"} <=> disp_guard' = p
    BY <2>1 DEF Abort, Drawers
  <2>5. show'["rpos"] = "idle" /\ show'["read"] = "idle"
    BY <2>1 DEF Drawers
  <2>6. overtaken' \in BOOLEAN
    BY DEF Abort
  <2>7. boot' = "rotenc" /\ rpos' = "none"
    BY DEF Abort
  <2>8. disp_guard' = "null" /\ last_reading' = Zero /\ screen' = Nothing /\ newest' = 0 /\ accepted' = 0
    BY DEF Abort
  <2> QED
    BY <1>0, <2>2, <2>3, <2>4, <2>5, <2>6, <2>7, <2>8 DEF ShowTypes, Pictures
<1>2. DrawnInv'
  BY DEF Abort, DrawnInv, Drawers
<1>3. CopyInv'
  BY DEF Abort, CopyInv, Drawers, Zero, All
<1> QED
  BY <1>1, <1>2, <1>3 DEF ScreenInv

\* What is drawn is a picture of the reading.
LEMMA PictureFacts ==
  ASSUME NEW position, NEW reading \in [Values -> Int]
  PROVE  /\ Picture(position, reading) \in Pictures
         /\ Picture(position, reading) # Nothing =>
              Picture(position, reading).number = reading[Picture(position, reading).value]
  BY DEF Picture, Pictures

\* The boot creates the mutex on an empty screen and clears the screen.
LEMMA BootScreen ==
  ASSUME ScreenInv, BootStep
  PROVE  ScreenInv'
<1>1. CASE InstallInterrupt \/ CreateEncoderTask
  <2>1. UNCHANGED <<dispVars, newest>>
    BY <1>1 DEF InstallInterrupt, CreateEncoderTask, readVars
  <2>2. /\ boot \in {"rotenc", "task"} /\ rpos = "none" /\ boot' \in {"task", "guard"}
        /\ boot' = "task" => rpos' = "none"
    BY <1>1 DEF InstallInterrupt, CreateEncoderTask, encVars, ScreenInv, ShowTypes
  <2> QED
    BY <2>1, <2>2 DEF ScreenInv, ShowTypes, DrawnInv, CopyInv, Shows, dispVars
<1>2. CASE CreateGuard
  <2>1. /\ UNCHANGED <<show, data, last_reading, screen, newest, accepted, overtaken, rpos>>
        /\ disp_guard = "null" /\ disp_guard' = "free" /\ boot' = "clear"
    BY <1>2 DEF CreateGuard, encVars, readVars, ScreenInv, ShowTypes
  <2> QED
    BY <2>1 DEF ScreenInv, ShowTypes, DrawnInv, CopyInv, Shows, Drawers
<1>3. CASE ClearScreen
  BY <1>3 DEF ClearScreen, encVars, readVars, ScreenInv, ShowTypes, DrawnInv, CopyInv, Shows, Pictures
<1> QED
  BY <1>1, <1>2, <1>3 DEF BootStep

\* The steps of the encoder change no picture; a redraw starts from a copy.
LEMMA EncoderScreen ==
  ASSUME ScreenInv, EncoderTask \/ \E by \in {-1, 1} : rotenc_isr(by)
  PROVE  ScreenInv'
<1>1. CASE UNCHANGED <<boot, dispVars, newest>> /\ (rpos' = "show" <=> rpos = "show")
           /\ (rpos' = "none" <=> rpos = "none")
  BY <1>1 DEF ScreenInv, ShowTypes, DrawnInv, CopyInv, Shows, dispVars
<1>2. ASSUME NEW by \in {-1, 1}, rotenc_isr(by)
      PROVE  ScreenInv'
  <2>1. UNCHANGED <<boot, dispVars, newest>>
    BY <1>2 DEF rotenc_isr, readVars
  <2>2. rpos' = rpos \/ (rpos = "suspended" /\ rpos' = "get")
    BY <1>2 DEF rotenc_isr
  <2> QED
    BY <1>1, <2>1, <2>2
<1>3. CASE rotenc_getPos \/ TurnedFar \/ TurnedLittle \/ vTaskSuspend
  <2>1. UNCHANGED <<boot, dispVars, newest>>
    BY <1>3 DEF rotenc_getPos, TurnedFar, TurnedLittle, vTaskSuspend, readVars
  <2>2. rpos \notin {"none", "show"} /\ rpos' \notin {"none", "show"}
    BY <1>3 DEF rotenc_getPos, TurnedFar, TurnedLittle, vTaskSuspend
  <2> QED
    BY <1>1, <2>1, <2>2
<1>4. CASE Shown
  <2>1. /\ UNCHANGED <<boot, dispVars, newest>>
        /\ rpos = "show" /\ rpos' = "suspend" /\ show["rpos"] = "idle"
    BY <1>4 DEF Shown, readVars
  <2> QED
    BY <2>1 DEF ScreenInv, ShowTypes, DrawnInv, CopyInv, Shows, dispVars
<1>5. CASE CopyReading
  <2>1. PICK copy \in Copies : data' = [data EXCEPT !["rpos"] = copy]
    BY <1>5 DEF CopyReading
  <2>2. /\ rpos = "changed" /\ rpos' = "show"
        /\ show' = [show EXCEPT !["rpos"] = "take"]
        /\ overtaken' = (overtaken \/ show["read"] = "store")
        /\ UNCHANGED <<boot, disp_guard, last_reading, screen, accepted, newest>>
    BY <1>5 DEF CopyReading, readVars
  <2>3. copy \in [Values -> Int]
    BY <2>1 DEF Copies, ScreenInv, ShowTypes, Drawers
  <2>4. show["rpos"] = "idle" /\ show'["rpos"] = "take" /\ show'["read"] = show["read"]
    BY <2>2 DEF ScreenInv, ShowTypes, Drawers
  <2>5. data'["read"] = data["read"] /\ data'["rpos"] = copy /\ data' \in [Drawers -> [Values -> Int]]
    BY <2>1, <2>3 DEF ScreenInv, ShowTypes, Drawers
  <2>6. ShowTypes'
    <3>1. \A p \in Drawers : show'[p] \in {"draw", "store"} <=> disp_guard' = p
      BY <2>2, <2>4 DEF ScreenInv, ShowTypes, Drawers
    <3>2. show' \in [Drawers -> {"idle", "take", "draw", "store"}]
      BY <2>2 DEF ScreenInv, ShowTypes
    <3> QED
      BY <2>2, <2>4, <2>5, <3>1, <3>2 DEF ScreenInv, ShowTypes
  <2>7. DrawnInv'
    BY <2>2, <2>4, <2>5 DEF ScreenInv, DrawnInv, Shows, Drawers
  <2>8. CopyInv'
    BY <2>1, <2>2, <2>4, <2>5 DEF ScreenInv, CopyInv, Copies
  <2> QED
    BY <2>6, <2>7, <2>8 DEF ScreenInv
<1> QED
  BY <1>2, <1>3, <1>4, <1>5 DEF EncoderTask

\* A task that finds the mutex free takes it, and one that does not gives up.
LEMMA TakeScreen ==
  ASSUME ScreenInv, NEW p \in Drawers, TakeGuard(p) \/ GuardBusy(p)
  PROVE  ScreenInv'
<1>1. /\ show[p] = "take"
      /\ UNCHANGED <<boot, rpos, data, last_reading, screen, newest, accepted, overtaken>>
  BY DEF TakeGuard, GuardBusy, encVars, readVars
<1>2. \/ disp_guard = "free" /\ disp_guard' = p /\ show' = [show EXCEPT ![p] = "draw"]
      \/ disp_guard' = disp_guard /\ show' = [show EXCEPT ![p] = "idle"]
  BY DEF TakeGuard, GuardBusy, GoOn
<1>3. /\ show'[p] \in {"draw", "idle"} /\ \A q \in Drawers : q # p => show'[q] = show[q]
      /\ show' \in [Drawers -> {"idle", "take", "draw", "store"}]
  BY <1>2 DEF ScreenInv, ShowTypes
<1>4. \A q \in Drawers : show'[q] \in {"draw", "store"} <=> disp_guard' = q
  BY <1>1, <1>2 DEF ScreenInv, ShowTypes, Drawers
<1>5. ShowTypes'
  BY <1>1, <1>2, <1>3, <1>4 DEF ScreenInv, ShowTypes, Drawers
<1>6. DrawnInv'
  <2>1. disp_guard' = "null" <=> disp_guard = "null"
    BY <1>2 DEF Drawers
  <2>2. disp_guard' = "free" => disp_guard = "free"
    BY <1>2 DEF Drawers
  <2>3. \A q \in Drawers : show'[q] = "store" => show[q] = "store"
    BY <1>3
  <2> QED
    BY <1>1, <2>1, <2>2, <2>3 DEF ScreenInv, DrawnInv, Shows
<1>7. CopyInv'
  <2>1. (show'["read"] = "store" <=> show["read"] = "store")
        /\ (show'["rpos"] # "idle" => show["rpos"] # "idle")
    BY <1>1, <1>3 DEF Drawers
  <2> QED
    BY <1>1, <2>1 DEF ScreenInv, CopyInv
<1> QED
  BY <1>5, <1>6, <1>7 DEF ScreenInv

\* What is drawn is what will be stored; the reading task draws the newest.
LEMMA DrawScreen ==
  ASSUME ScreenInv, NEW p \in Drawers, Draw(p)
  PROVE  ScreenInv'
<1>1. /\ show[p] = "draw" /\ show' = [show EXCEPT ![p] = "store"]
      /\ screen' = Picture(rotenc_pos, data[p])
      /\ UNCHANGED <<boot, rpos, data, disp_guard, last_reading, newest>>
  BY DEF Draw, GoOn, encVars, readVars
<1>2. disp_guard = p /\ data[p] \in [Values -> Int]
  BY <1>1 DEF ScreenInv, ShowTypes
<1>3. /\ show'[p] = "store" /\ \A q \in Drawers : q # p => show'[q] = show[q]
      /\ show' \in [Drawers -> {"idle", "take", "draw", "store"}]
  BY <1>1 DEF ScreenInv, ShowTypes
<1>4. \A q \in Drawers : show'[q] \in {"draw", "store"} <=> disp_guard' = q
  BY <1>1, <1>3 DEF ScreenInv, ShowTypes
<1>5. \A q \in Drawers : q # p => show'[q] \notin {"draw", "store"}
  BY <1>1, <1>2, <1>4
<1>6. screen' \in Pictures /\ (screen' # Nothing => screen'.number = data[p][screen'.value])
  BY <1>1, <1>2, PictureFacts
<1>7. /\ accepted' = newest \/ accepted' = accepted
      /\ overtaken' \in BOOLEAN
  BY DEF Draw, ScreenInv, ShowTypes
<1>8. ShowTypes'
  <2>1. rpos # "show" => show'["rpos"] = "idle"
    BY <1>1, <1>3 DEF ScreenInv, ShowTypes, Drawers
  <2>2. show'["read"] # "idle" => show["read"] # "idle"
    BY <1>1, <1>3 DEF Drawers
  <2> QED
    BY <1>1, <1>3, <1>4, <1>6, <1>7, <2>1, <2>2 DEF ScreenInv, ShowTypes
<1>9. DrawnInv'
  BY <1>1, <1>2, <1>5, <1>6 DEF ScreenInv, DrawnInv, Shows, Drawers
<1>10. CopyInv'
  <2>1. CASE p = "read"
    <3>1. accepted' = newest /\ overtaken' = (show["rpos"] # "idle")
      BY <2>1 DEF Draw
    <3>2. show'["rpos"] = show["rpos"] /\ show'["read"] = "store"
      BY <1>3, <2>1 DEF Drawers
    <3> QED
      BY <1>1, <3>1, <3>2 DEF CopyInv
  <2>2. CASE p = "rpos"
    <3>1. UNCHANGED <<accepted, overtaken>>
      BY <2>2 DEF Draw
    <3>2. show'["read"] = show["read"] /\ show["read"] # "store" /\ show["rpos"] # "idle"
      BY <1>1, <1>3, <1>5, <2>2 DEF Drawers
    <3> QED
      BY <1>1, <3>1, <3>2 DEF ScreenInv, CopyInv
  <2> QED
    BY <2>1, <2>2 DEF Drawers
<1> QED
  BY <1>8, <1>9, <1>10 DEF ScreenInv

\* What was drawn is stored before the mutex is given back.
LEMMA StoreScreen ==
  ASSUME ScreenInv, NEW p \in Drawers, StoreAndGive(p)
  PROVE  ScreenInv'
<1>1. /\ show[p] = "store" /\ show' = [show EXCEPT ![p] = "idle"]
      /\ last_reading' = data[p] /\ disp_guard' = "free"
      /\ UNCHANGED <<boot, rpos, data, screen, newest, accepted, overtaken>>
  BY DEF StoreAndGive, GoOn, encVars, readVars
<1>2. disp_guard = p /\ data[p] \in [Values -> Int]
  BY <1>1 DEF ScreenInv, ShowTypes
<1>3. /\ show'[p] = "idle" /\ \A q \in Drawers : q # p => show'[q] = show[q]
      /\ show' \in [Drawers -> {"idle", "take", "draw", "store"}]
  BY <1>1 DEF ScreenInv, ShowTypes
<1>4. \A q \in Drawers : q # p => show[q] \notin {"draw", "store"}
  BY <1>2 DEF ScreenInv, ShowTypes
<1>5. \A q \in Drawers : show'[q] \notin {"draw", "store"} /\ disp_guard' # q
  BY <1>1, <1>3, <1>4 DEF Drawers
<1>6. ShowTypes'
  <2>1. /\ rpos # "show" => show'["rpos"] = "idle"
        /\ show'["read"] # "idle" => show["read"] # "idle"
    BY <1>1, <1>3 DEF ScreenInv, ShowTypes, Drawers
  <2>2. disp_guard # "null"
    BY <1>2 DEF Drawers
  <2> QED
    BY <1>1, <1>2, <1>3, <1>5, <2>1, <2>2 DEF ScreenInv, ShowTypes
<1>7. DrawnInv'
  BY <1>1, <1>5 DEF ScreenInv, DrawnInv, Shows
<1>8. CopyInv'
  <2>1. CASE p = "read"
    <3>1. data["read"] = All(newest)
      BY <1>1, <2>1 DEF ScreenInv, ShowTypes
    <3>2. show'["read"] # "store" /\ show'["rpos"] = show["rpos"]
      BY <1>3, <2>1 DEF Drawers
    <3> QED
      BY <1>1, <2>1, <3>1, <3>2 DEF ScreenInv, CopyInv, All
  <2>2. CASE p = "rpos"
    <3>1. show["read"] # "store" /\ show'["read"] # "store" /\ show'["rpos"] = "idle"
      BY <1>3, <1>4, <1>5, <2>2 DEF Drawers
    <3> QED
      BY <1>1, <2>2, <3>1 DEF ScreenInv, CopyInv, All
  <2> QED
    BY <2>1, <2>2 DEF Drawers
<1> QED
  BY <1>6, <1>7, <1>8 DEF ScreenInv

\* A new reading waits for the mutex; what is on the screen is not touched.
LEMMA ReadingScreen ==
  ASSUME ScreenInv, NewReading
  PROVE  ScreenInv'
<1>1. /\ boot = "ready" /\ show["read"] = "idle" /\ show' = [show EXCEPT !["read"] = "take"]
      /\ data' = [data EXCEPT !["read"] = All(newest')]
      /\ UNCHANGED <<boot, rpos, disp_guard, last_reading, screen, accepted, overtaken>>
  BY DEF NewReading, GoOn, encVars, All
<1>2. newest' \in Int
  BY DEF NewReading, ScreenInv, ShowTypes
<1>3. All(newest') \in [Values -> Int]
  BY <1>2 DEF All
<1>4. /\ show'["read"] = "take" /\ show'["rpos"] = show["rpos"]
      /\ show' \in [Drawers -> {"idle", "take", "draw", "store"}]
  BY <1>1 DEF ScreenInv, ShowTypes, Drawers
<1>5. /\ data'["read"] = All(newest') /\ data'["rpos"] = data["rpos"]
      /\ data' \in [Drawers -> [Values -> Int]]
  BY <1>1, <1>3 DEF ScreenInv, ShowTypes, Drawers
<1>6. \A q \in Drawers : show'[q] \in {"draw", "store"} <=> disp_guard' = q
  BY <1>1, <1>4 DEF ScreenInv, ShowTypes, Drawers
<1>7. ShowTypes'
  BY <1>1, <1>2, <1>4, <1>5, <1>6 DEF ScreenInv, ShowTypes
<1>8. DrawnInv'
  BY <1>1, <1>4, <1>5 DEF ScreenInv, DrawnInv, Shows, Drawers
<1>9. CopyInv'
  BY <1>1, <1>4, <1>5 DEF ScreenInv, CopyInv
<1> QED
  BY <1>7, <1>8, <1>9 DEF ScreenInv

\* Every step keeps the invariant.
LEMMA ScreenStep == ScreenInv /\ [Next]_vars => ScreenInv'
<1> SUFFICES ASSUME ScreenInv, [Next]_vars PROVE ScreenInv'
  OBVIOUS
<1>1. CASE UNCHANGED vars
  BY <1>1 DEF vars, encVars, dispVars, readVars, ScreenInv, ShowTypes, DrawnInv, CopyInv, Shows
<1>2. ASSUME NEW p \in Drawers, uisub_show(p)
      PROVE  ScreenInv'
  BY <1>2, TakeScreen, DrawScreen, StoreScreen, FreshAgain DEF uisub_show, NoGuard
<1>3. CASE SensorFails
  BY <1>3, FreshAgain DEF SensorFails
<1> QED
  BY <1>1, <1>2, <1>3, BootScreen, EncoderScreen, ReadingScreen DEF Next

\* The screen shows what was drawn last, and that is the newest reading drawn
\* unless a redraw held an older copy meanwhile.
THEOREM ScreenAlwaysCurrent == Spec => []ScreenCurrent
<1>1. Init => ScreenInv
  BY Fresh DEF Init, DeviceInit
<1>2. ScreenInv => ScreenCurrent
  <2> SUFFICES ASSUME ScreenInv, disp_guard = "free", screen # Nothing
               PROVE  /\ screen.number = last_reading[screen.value]
                      /\ ~overtaken => screen.number = accepted
    BY DEF ScreenCurrent
  <2>1. screen.number = last_reading[screen.value] /\ screen.value \in Values
    BY DEF ScreenInv, ShowTypes, DrawnInv, Shows, Pictures
  <2>2. show["read"] # "store"
    BY DEF ScreenInv, ShowTypes, Drawers
  <2>3. ~overtaken => last_reading[screen.value] = accepted
    BY <2>1, <2>2 DEF ScreenInv, CopyInv, All
  <2> QED
    BY <2>1, <2>3
<1> QED
  BY <1>1, <1>2, ScreenStep, PTL DEF Spec

-----------------------------------------------------------------------------
(* Types *)

\* The encoder is no further than its edges have brought it.
EncoderTypes ==
  /\ edges \in 0 .. MaxEdges
  /\ pos \in -edges .. edges /\ rotenc_pos \in -edges .. edges /\ pos1 \in -edges .. edges
  /\ rpos \in {"none", "get", "compare", "changed", "show", "suspend", "suspended"}
  /\ missed \in BOOLEAN

DisplayTypes ==
  /\ show \in [Drawers -> {"idle", "take", "draw", "store"}]
  /\ data \in [Drawers -> Readings]
  /\ disp_guard \in Drawers \cup {"null", "free"}
  /\ last_reading \in Readings
  /\ screen \in [value : Values \cup {-1}, number : 0 .. MaxReadings]
  /\ accepted \in 0 .. MaxReadings
  /\ overtaken \in BOOLEAN

ReadingTypes ==
  /\ boot \in {"rotenc", "task", "guard", "clear", "ready"}
  /\ newest \in 0 .. MaxReadings
  /\ failures \in 0 .. MaxFailures

UiTypes == EncoderTypes /\ DisplayTypes /\ ReadingTypes

\* RAM after a reset, whether the chip has just been switched on or has aborted.
LEMMA BlankTypes ==
  /\ Zero \in Readings
  /\ Nothing \in [value : Values \cup {-1}, number : 0 .. MaxReadings]
  /\ 0 \in 0 .. MaxReadings /\ 0 \in 0 .. MaxEdges /\ 0 \in 0 .. MaxFailures
  BY UiAssumption DEF UiAssumption, Zero, Readings, Nothing

\* An abort, after which the edges and the failures are still counted.
LEMMA AbortTypes ==
  ASSUME UiTypes, Abort, edges' = edges, failures' \in 0 .. MaxFailures
  PROVE  UiTypes'
<1>1. EncoderTypes'
  <2>1. pos' = 0 /\ rotenc_pos' = 0 /\ pos1' = 0 /\ rpos' = "none" /\ missed' = FALSE
    BY DEF Abort
  <2>2. edges \in Nat /\ edges \in 0 .. MaxEdges
    BY UiAssumption DEF UiTypes, EncoderTypes, UiAssumption
  <2>3. 0 \in -edges .. edges
    BY <2>2
  <2> QED
    BY <2>1, <2>2, <2>3 DEF EncoderTypes
<1>2. DisplayTypes'
  <2>1. show' \in [Drawers -> {"idle", "take", "draw", "store"}]
    BY DEF Abort
  <2>2. data' \in [Drawers -> Readings] /\ last_reading' \in Readings
    BY BlankTypes DEF Abort
  <2>3. /\ disp_guard' = "null" /\ screen' = Nothing /\ accepted' = 0
        /\ overtaken' = FALSE
    BY DEF Abort
  <2> QED
    BY <2>1, <2>2, <2>3, BlankTypes DEF DisplayTypes
<1>3. ReadingTypes'
  BY BlankTypes DEF Abort, ReadingTypes
<1> QED
  BY <1>1, <1>2, <1>3 DEF UiTypes

\* An edge moves the encoder by one.
LEMMA EdgeTypes ==
  ASSUME EncoderTypes, NEW by \in {-1, 1}, rotenc_isr(by)
  PROVE  EncoderTypes'
<1>1. edges \in Nat /\ edges < MaxEdges /\ edges' = edges + 1 /\ edges' \in 0 .. MaxEdges
  BY UiAssumption DEF EncoderTypes, rotenc_isr, UiAssumption
<1>2. \A n \in Nat, p \in Int : p \in -n .. n => p \in -(n + 1) .. n + 1 /\ p + by \in -(n + 1) .. n + 1
  OBVIOUS
<1>3. pos' = pos + by /\ rotenc_pos' = rotenc_pos /\ pos1' = pos1
  BY DEF rotenc_isr
<1>4. pos \in -edges .. edges /\ rotenc_pos \in -edges .. edges /\ pos1 \in -edges .. edges
  BY DEF EncoderTypes
<1>5. pos \in Int /\ rotenc_pos \in Int /\ pos1 \in Int
  BY <1>1, <1>4
<1>6. pos' \in -edges' .. edges' /\ rotenc_pos' \in -edges' .. edges' /\ pos1' \in -edges' .. edges'
  BY <1>1, <1>2, <1>3, <1>4, <1>5
<1>7. rpos' \in {"none", "get", "compare", "changed", "show", "suspend", "suspended"}
  BY DEF rotenc_isr, EncoderTypes
<1>8. missed' \in BOOLEAN
  BY DEF rotenc_isr, EncoderTypes
<1> QED
  BY <1>1, <1>6, <1>7, <1>8 DEF EncoderTypes

\* The encoder task copies positions, and the last reading as far as it is stored.
LEMMA TaskTypes ==
  ASSUME UiTypes, EncoderTask
  PROVE  UiTypes'
<1>a. EncoderTypes /\ DisplayTypes /\ ReadingTypes
  BY DEF UiTypes
<1>1. ReadingTypes'
  BY <1>a DEF EncoderTask, rotenc_getPos, TurnedFar, TurnedLittle, CopyReading, Shown,
              vTaskSuspend, readVars, ReadingTypes
<1>2. EncoderTypes'
  <2>1. edges' = edges /\ pos' = pos
    BY DEF EncoderTask, rotenc_getPos, TurnedFar, TurnedLittle, CopyReading, Shown, vTaskSuspend
  <2>2. rotenc_pos' \in {rotenc_pos, pos1} /\ pos1' \in {pos1, pos}
    BY DEF EncoderTask, rotenc_getPos, TurnedFar, TurnedLittle, CopyReading, Shown, vTaskSuspend
  <2>3. missed' \in BOOLEAN
    BY <1>a DEF EncoderTask, rotenc_getPos, TurnedFar, TurnedLittle, CopyReading, Shown,
                vTaskSuspend, EncoderTypes
  <2>4. rpos' \in {"none", "get", "compare", "changed", "show", "suspend", "suspended"}
    BY DEF EncoderTask, rotenc_getPos, TurnedFar, TurnedLittle, CopyReading, Shown, vTaskSuspend
  <2> QED
    BY <1>a, <2>1, <2>2, <2>3, <2>4 DEF EncoderTypes
<1>3. CASE UNCHANGED dispVars
  BY <1>1, <1>2, <1>3, <1>a DEF dispVars, UiTypes, DisplayTypes
<1>4. CASE CopyReading
  <2>1. PICK copy \in Copies : data' = [data EXCEPT !["rpos"] = copy]
    BY <1>4 DEF CopyReading
  <2>2. copy \in Readings
    BY <1>a, <2>1 DEF Copies, DisplayTypes, Readings, Drawers
  <2>3. data' \in [Drawers -> Readings]
    BY <1>a, <2>1, <2>2 DEF DisplayTypes
  <2>4. show' \in [Drawers -> {"idle", "take", "draw", "store"}]
    BY <1>4, <1>a DEF CopyReading, DisplayTypes
  <2>5. overtaken' \in BOOLEAN
    BY <1>4, <1>a DEF CopyReading, DisplayTypes
  <2>6. UNCHANGED <<disp_guard, last_reading, screen, accepted>>
    BY <1>4 DEF CopyReading
  <2> QED
    BY <1>1, <1>2, <1>a, <2>3, <2>4, <2>5, <2>6 DEF UiTypes, DisplayTypes
<1> QED
  BY <1>3, <1>4 DEF EncoderTask, rotenc_getPos, TurnedFar, TurnedLittle, Shown, vTaskSuspend

\* A task draws and stores a reading.
LEMMA ShowTypesStep ==
  ASSUME UiTypes, NEW p \in Drawers, uisub_show(p)
  PROVE  UiTypes'
<1>a. EncoderTypes /\ DisplayTypes /\ ReadingTypes
  BY DEF UiTypes
<1>1. CASE NoGuard(p)
  BY <1>1, <1>a, AbortTypes DEF NoGuard, ReadingTypes
<1>2. CASE ~NoGuard(p)
  <2>1. EncoderTypes' /\ ReadingTypes'
    BY <1>2, <1>a DEF uisub_show, TakeGuard, GuardBusy, Draw, StoreAndGive, encVars, readVars,
                      EncoderTypes, ReadingTypes
  <2>2. data' = data /\ data[p] \in Readings
    BY <1>2, <1>a DEF uisub_show, TakeGuard, GuardBusy, Draw, StoreAndGive, DisplayTypes
  <2>3. show' \in [Drawers -> {"idle", "take", "draw", "store"}]
    BY <1>2, <1>a DEF uisub_show, TakeGuard, GuardBusy, Draw, StoreAndGive, GoOn, DisplayTypes
  <2>4. disp_guard' \in Drawers \cup {"null", "free"} /\ last_reading' \in Readings
    BY <1>2, <1>a, <2>2 DEF uisub_show, TakeGuard, GuardBusy, Draw, StoreAndGive, DisplayTypes
  <2>5. screen' \in [value : Values \cup {-1}, number : 0 .. MaxReadings]
    <3>1. Picture(rotenc_pos, data[p]) \in [value : Values \cup {-1}, number : 0 .. MaxReadings]
      BY <2>2, BlankTypes DEF Picture, Readings
    <3> QED
      BY <1>2, <1>a, <3>1 DEF uisub_show, TakeGuard, GuardBusy, Draw, StoreAndGive, DisplayTypes
  <2>6. accepted' \in 0 .. MaxReadings
    BY <1>2, <1>a DEF uisub_show, TakeGuard, GuardBusy, Draw, StoreAndGive, DisplayTypes, ReadingTypes
  <2>7. overtaken' \in BOOLEAN
    BY <1>2, <1>a DEF uisub_show, TakeGuard, GuardBusy, Draw, StoreAndGive, DisplayTypes
  <2>8. data' \in [Drawers -> Readings]
    BY <1>a, <2>2 DEF DisplayTypes
  <2> QED
    BY <2>1, <2>3, <2>4, <2>5, <2>6, <2>7, <2>8 DEF UiTypes, DisplayTypes
<1> QED
  BY <1>1, <1>2

\* Every step keeps the types.
LEMMA UiTypesStep == UiTypes /\ [Next]_vars => UiTypes'
<1> SUFFICES ASSUME UiTypes, [Next]_vars PROVE UiTypes'
  OBVIOUS
<1>a. EncoderTypes /\ DisplayTypes /\ ReadingTypes
  BY DEF UiTypes
<1>1. CASE BootStep
  <2>1. boot' \in {"task", "guard", "clear", "ready"} /\ UNCHANGED readVars
    BY <1>1 DEF BootStep, InstallInterrupt, CreateEncoderTask, CreateGuard, ClearScreen
  <2>2. /\ UNCHANGED <<pos, rotenc_pos, pos1, missed, edges>>
        /\ rpos' \in {rpos, "get"}
    BY <1>1 DEF BootStep, InstallInterrupt, CreateEncoderTask, CreateGuard, ClearScreen, encVars
  <2>3. /\ UNCHANGED <<show, data, last_reading, accepted, overtaken>>
        /\ disp_guard' \in {disp_guard, "free"} /\ screen' \in {screen, Nothing}
    BY <1>1 DEF BootStep, InstallInterrupt, CreateEncoderTask, CreateGuard, ClearScreen, dispVars
  <2> QED
    BY <1>a, <2>1, <2>2, <2>3, BlankTypes
       DEF UiTypes, EncoderTypes, DisplayTypes, ReadingTypes, readVars
<1>2. ASSUME NEW by \in {-1, 1}, rotenc_isr(by)
      PROVE  UiTypes'
  <2>1. UNCHANGED <<boot, dispVars, readVars>>
    BY <1>2 DEF rotenc_isr
  <2> QED
    BY <1>2, <1>a, <2>1, EdgeTypes DEF UiTypes, DisplayTypes, ReadingTypes, dispVars, readVars
<1>3. CASE NewReading
  <2>1. UNCHANGED encVars /\ UNCHANGED <<boot, failures>>
    BY <1>3 DEF NewReading
  <2>2. newest' \in 0 .. MaxReadings
    BY <1>3, <1>a, UiAssumption DEF NewReading, ReadingTypes, UiAssumption
  <2>3. show' \in [Drawers -> {"idle", "take", "draw", "store"}]
    BY <1>3, <1>a DEF NewReading, GoOn, DisplayTypes
  <2>4. [v \in Values |-> newest'] \in Readings
    BY <2>2 DEF Readings
  <2>5. data' \in [Drawers -> Readings]
    BY <1>3, <1>a, <2>4 DEF NewReading, DisplayTypes
  <2>6. UNCHANGED <<disp_guard, last_reading, screen, accepted, overtaken>>
    BY <1>3 DEF NewReading
  <2> QED
    BY <1>a, <2>1, <2>2, <2>3, <2>5, <2>6
       DEF UiTypes, EncoderTypes, DisplayTypes, ReadingTypes, encVars
<1>4. CASE SensorFails
  <2>1. failures' \in 0 .. MaxFailures
    BY <1>4, <1>a, UiAssumption DEF SensorFails, ReadingTypes, UiAssumption
  <2> QED
    BY <1>4, <2>1, AbortTypes DEF SensorFails
<1>5. CASE UNCHANGED vars
  BY <1>5, <1>a
     DEF vars, encVars, dispVars, readVars, UiTypes, EncoderTypes, DisplayTypes, ReadingTypes
<1> QED
  BY <1>1, <1>2, <1>3, <1>4, <1>5, TaskTypes, ShowTypesStep DEF Next

\* Every variable keeps its type: no position lies beyond the edges there have
\* been, aborts or not, and no number on the screen beyond the readings.
THEOREM UiTyped == Spec => []TypeOK
<1>1. ASSUME Init PROVE UiTypes
  <2>1. /\ edges = 0 /\ pos = 0 /\ rotenc_pos = 0 /\ pos1 = 0 /\ rpos = "none" /\ missed = FALSE
        /\ boot = "rotenc" /\ newest = 0 /\ failures = 0
    BY <1>1 DEF Init, DeviceInit
  <2>2. EncoderTypes
    <3>1. edges \in Nat /\ pos \in -edges .. edges /\ rotenc_pos \in -edges .. edges
          /\ pos1 \in -edges .. edges
      BY <2>1
    <3>2. missed \in BOOLEAN
      BY <2>1
    <3> QED
      BY <2>1, <3>1, <3>2, BlankTypes DEF EncoderTypes
  <2>3. show \in [Drawers -> {"idle", "take", "draw", "store"}]
    BY <1>1 DEF Init, DeviceInit
  <2>4. data \in [Drawers -> Readings] /\ last_reading \in Readings
    BY <1>1, BlankTypes DEF Init, DeviceInit
  <2>5. disp_guard = "null" /\ screen = Nothing /\ accepted = 0 /\ overtaken = FALSE
    BY <1>1 DEF Init, DeviceInit
  <2>6. DisplayTypes
    BY <2>3, <2>4, <2>5, BlankTypes DEF DisplayTypes
  <2> QED
    BY <2>1, <2>2, <2>6, BlankTypes DEF UiTypes, ReadingTypes
<1>2. ASSUME UiTypes PROVE TypeOK
  <2>1. EncoderTypes /\ DisplayTypes /\ ReadingTypes
    BY <1>2 DEF UiTypes
  <2>2. \A n \in 0 .. MaxEdges, q \in Int : q \in -n .. n => q \in -MaxEdges .. MaxEdges
    BY UiAssumption DEF UiAssumption
  <2>3. pos \in -MaxEdges .. MaxEdges /\ rotenc_pos \in -MaxEdges .. MaxEdges
        /\ pos1 \in -MaxEdges .. MaxEdges
    BY <2>1, <2>2, UiAssumption DEF EncoderTypes, UiAssumption
  <2>4. {missed, overtaken} \subseteq BOOLEAN
    BY <2>1 DEF EncoderTypes, DisplayTypes
  <2> QED
    BY <2>1, <2>3, <2>4 DEF TypeOK, EncoderTypes, DisplayTypes, ReadingTypes
<1> QED
  BY <1>1, <1>2, UiTypesStep, PTL DEF Spec

=============================================================================
