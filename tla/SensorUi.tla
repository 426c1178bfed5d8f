------------------------------ MODULE SensorUi ------------------------------
(***************************************************************************)
(* The display of the multisensor of ch5: the rotary encoder               *)
(* (lib/rotenc/rotenc.cpp), the task that turns its position into the      *)
(* value to show and the mutex of the display (uisub.cpp), and the task    *)
(* that brings a reading every ten seconds (sesub.cpp).                    *)
(*                                                                         *)
(* Both tasks draw with uisub_show, which gives up when the mutex is       *)
(* taken.  The encoder task redraws the last reading, of which it takes a  *)
(* copy before it asks for the mutex; between turns it is suspended, and   *)
(* the interrupt resumes it.  To resume a task that is not suspended has   *)
(* no effect.                                                              *)
(*                                                                         *)
(* A reading is one number per value shown; here the number is the age of  *)
(* the reading, so that a copy torn between two readings can be told.  The *)
(* buzzer and the light sleep (module PowerSave) are left out.             *)
(***************************************************************************)
EXTENDS Integers

CONSTANTS
  DETENT,        \* edges of the encoder per value, 4 in uisub.cpp
  SCREENS,       \* values to show, 4 in uisub.cpp
  MaxEdges,      \* edges of the encoder
  MaxReadings,   \* readings that differ; from then on they stay the same
  MaxFailures    \* failures of a sensor

ASSUME UiAssumption ==
  /\ {DETENT, SCREENS} \subseteq Nat \ {0}
  /\ {MaxEdges, MaxReadings, MaxFailures} \subseteq Nat

Drawers  == {"rpos", "read"}         \* the two tasks that call uisub_show
Values   == 0 .. SCREENS - 1
Readings == [Values -> 0 .. MaxReadings]
Nothing  == [value |-> -1, number |-> 0]

VARIABLES
  boot,           \* how far uisub_init has come
  pos,            \* rotenc_pos of rotenc.cpp
  rotenc_pos,     \* rotenc_pos of uisub.cpp: the position shown
  rpos,           \* where the encoder task is
  pos1,           \* its local variable
  show,           \* where each task is in uisub_show
  data,           \* the argument of its uisub_show
  disp_guard,     \* "null", "free" or the holder
  last_reading,
  screen,         \* the value drawn and its number
  newest,         \* the newest reading
  accepted,       \* the newest one that was drawn (history)
  missed,         \* an interrupt found the encoder task running (history)
  overtaken,      \* the newest one was drawn or stored beside a copy of an older
                  \* one (history)
  edges, failures \* counters for the bounds

encVars  == <<pos, rotenc_pos, rpos, pos1, missed, edges>>
dispVars == <<show, data, disp_guard, last_reading, screen, accepted, overtaken>>
readVars == <<newest, failures>>
vars     == <<boot, encVars, dispVars, readVars>>

TypeOK ==
  /\ boot \in {"rotenc", "task", "guard", "clear", "ready"}
  /\ {pos, rotenc_pos, pos1} \subseteq -MaxEdges .. MaxEdges
  /\ rpos \in {"none", "get", "compare", "changed", "show", "suspend", "suspended"}
  /\ show \in [Drawers -> {"idle", "take", "draw", "store"}]
  /\ data \in [Drawers -> Readings]
  /\ disp_guard \in Drawers \cup {"null", "free"}
  /\ last_reading \in Readings
  /\ screen \in [value : Values \cup {-1}, number : 0 .. MaxReadings]
  /\ {newest, accepted} \subseteq 0 .. MaxReadings
  /\ {missed, overtaken} \subseteq BOOLEAN
  /\ edges \in 0 .. MaxEdges /\ failures \in 0 .. MaxFailures

Zero == [v \in Values |-> 0]

\* RAM after a reset.
DeviceInit ==
  /\ boot = "rotenc"
  /\ pos = 0 /\ rotenc_pos = 0 /\ rpos = "none" /\ pos1 = 0
  /\ show = [p \in Drawers |-> "idle"] /\ data = [p \in Drawers |-> Zero]
  /\ disp_guard = "null"
  /\ last_reading = Zero
  /\ screen = Nothing
  /\ newest = 0 /\ accepted = 0 /\ missed = FALSE /\ overtaken = FALSE

Init == DeviceInit /\ edges = 0 /\ failures = 0

\* An abort: the chip boots again; the encoder stays where it is.
Abort ==
  /\ boot' = "rotenc"
  /\ pos' = 0 /\ rotenc_pos' = 0 /\ rpos' = "none" /\ pos1' = 0
  /\ show' = [p \in Drawers |-> "idle"] /\ data' = [p \in Drawers |-> Zero]
  /\ disp_guard' = "null"
  /\ last_reading' = Zero
  /\ screen' = Nothing
  /\ newest' = 0 /\ accepted' = 0 /\ missed' = FALSE /\ overtaken' = FALSE

-----------------------------------------------------------------------------
(* uisub_init: the interrupt, the encoder task, the mutex, a clear screen *)

InstallInterrupt ==
  /\ boot = "rotenc" /\ boot' = "task"
  /\ UNCHANGED <<encVars, dispVars, readVars>>

CreateEncoderTask ==
  /\ boot = "task" /\ boot' = "guard"
  /\ rpos' = "get"
  /\ UNCHANGED <<pos, rotenc_pos, pos1, missed, edges, dispVars, readVars>>

CreateGuard ==
  /\ boot = "guard" /\ boot' = "clear"
  /\ disp_guard' = "free"
  /\ UNCHANGED <<encVars, show, data, last_reading, screen, accepted, overtaken, readVars>>

\* reset_display, without the mutex; then sesub_start.
ClearScreen ==
  /\ boot = "clear" /\ boot' = "ready"
  /\ screen' = Nothing
  /\ UNCHANGED <<encVars, show, data, disp_guard, last_reading, accepted, overtaken, readVars>>

BootStep == InstallInterrupt \/ CreateEncoderTask \/ CreateGuard \/ ClearScreen

-----------------------------------------------------------------------------
(* The encoder *)

\* Mutant: an edge of the other pin is counted too.
IsrCountsBothPins(by) ==
  /\ boot # "rotenc"
  /\ edges < MaxEdges /\ edges' = edges + 1
  /\ pos' = pos + 2 * by
  /\ rpos' = IF rpos = "suspended" THEN "get" ELSE rpos
  /\ missed' = (missed \/ rpos \notin {"none", "suspended"})
  /\ UNCHANGED <<boot, rotenc_pos, pos1, dispVars, readVars>>

\* An edge of the clock pin, to the left or to the right.
rotenc_isr(by) ==
  /\ boot # "rotenc"
  /\ edges < MaxEdges /\ edges' = edges + 1
  /\ pos' = pos + by
  /\ rpos' = IF rpos = "suspended" THEN "get" ELSE rpos
  /\ missed' = (missed \/ rpos \notin {"none", "suspended"})
  /\ UNCHANGED <<boot, rotenc_pos, pos1, dispVars, readVars>>

rotenc_getPos ==
  /\ rpos = "get" /\ rpos' = "compare"
  /\ pos1' = pos
  /\ missed' = FALSE
  /\ UNCHANGED <<boot, pos, rotenc_pos, edges, dispVars, readVars>>

Abs(n) == IF n < 0 THEN -n ELSE n

\* rotenc_changed, called here, is pmsub_update of module PowerSave.
TurnedFar ==
  /\ rpos = "compare" /\ rpos' = "changed"
  /\ Abs(pos1 - rotenc_pos) >= DETENT
  /\ rotenc_pos' = pos1
  /\ UNCHANGED <<boot, pos, pos1, missed, edges, dispVars, readVars>>

\* Mutant: the distance is compared without its sign.
TurnedLittleOrLeft ==
  /\ rpos = "compare" /\ rpos' = "suspend"
  /\ pos1 - rotenc_pos < DETENT
  /\ UNCHANGED <<boot, pos, rotenc_pos, pos1, missed, edges, dispVars, readVars>>

TurnedLittle ==
  /\ rpos = "compare" /\ rpos' = "suspend"
  /\ Abs(pos1 - rotenc_pos) < DETENT
  /\ UNCHANGED <<boot, pos, rotenc_pos, pos1, missed, edges, dispVars, readVars>>

\* The copies a task can get of last_reading while the other one stores.
Copies ==
  IF show["read"] = "store"
  THEN {[v \in Values |-> IF v \in new THEN data["read"][v] ELSE last_reading[v]] :
          new \in SUBSET Values}
  ELSE {last_reading}

\* uisub_show(last_reading) begins.
CopyReading ==
  /\ rpos = "changed" /\ rpos' = "show"
  /\ show' = [show EXCEPT !["rpos"] = "take"]
  /\ \E copy \in Copies : data' = [data EXCEPT !["rpos"] = copy]
  /\ overtaken' = (overtaken \/ show["read"] = "store")
  /\ UNCHANGED <<boot, pos, rotenc_pos, pos1, missed, edges, disp_guard, last_reading,
                 screen, accepted, readVars>>

\* uisub_show has returned.
Shown ==
  /\ rpos = "show" /\ show["rpos"] = "idle"
  /\ rpos' = "suspend"
  /\ UNCHANGED <<boot, pos, rotenc_pos, pos1, missed, edges, dispVars, readVars>>

vTaskSuspend ==
  /\ rpos = "suspend" /\ rpos' = "suspended"
  /\ UNCHANGED <<boot, pos, rotenc_pos, pos1, missed, edges, dispVars, readVars>>

EncoderTask ==
  rotenc_getPos \/ TurnedFar \/ TurnedLittle \/ CopyReading \/ Shown \/ vTaskSuspend

-----------------------------------------------------------------------------
(* uisub_show(data) in task p; the clear screen and the picture on it are one  *)
(* step of Draw                                                              *)

\* The value at a position; C rounds towards zero, and below zero the
\* remainder is no case of the switch unless it is zero.
ValueAt(position) ==
  IF position >= 0 THEN (position \div DETENT) % SCREENS
  ELSE IF ((-position) \div DETENT) % SCREENS = 0 THEN 0 ELSE -1

Picture(position, reading) ==
  LET v == ValueAt(position)
  IN  IF v \in Values THEN [value |-> v, number |-> reading[v]] ELSE Nothing

GoOn(p, step) == show' = [show EXCEPT ![p] = step]

\* Mutant: the mutex is not asked for.
TakeAnyway(p) ==
  /\ show[p] = "take"
  /\ disp_guard # "null"
  /\ disp_guard' = p
  /\ GoOn(p, "draw")
  /\ UNCHANGED <<boot, encVars, data, last_reading, screen, accepted, overtaken, readVars>>

TakeGuard(p) ==
  /\ show[p] = "take"
  /\ disp_guard = "free"
  /\ disp_guard' = p
  /\ GoOn(p, "draw")
  /\ UNCHANGED <<boot, encVars, data, last_reading, screen, accepted, overtaken, readVars>>

GuardBusy(p) ==
  /\ show[p] = "take"
  /\ disp_guard \in Drawers
  /\ GoOn(p, "idle")
  /\ UNCHANGED <<boot, encVars, data, disp_guard, last_reading, screen, accepted, overtaken, readVars>>

\* The queue behind the handle does not exist: configASSERT.
NoGuard(p) ==
  /\ show[p] = "take"
  /\ disp_guard = "null"
  /\ Abort
  /\ UNCHANGED <<edges, failures>>

Draw(p) ==
  /\ show[p] = "draw"
  /\ screen' = Picture(rotenc_pos, data[p])
  /\ IF p = "read" THEN accepted' = newest /\ overtaken' = (show["rpos"] # "idle")
                    ELSE UNCHANGED <<accepted, overtaken>>
  /\ GoOn(p, "store")
  /\ UNCHANGED <<boot, encVars, data, disp_guard, last_reading, readVars>>

\* Mutant: the mutex is not given.
StoreKeepingGuard(p) ==
  /\ show[p] = "store"
  /\ last_reading' = data[p]
  /\ GoOn(p, "idle")
  /\ UNCHANGED <<boot, encVars, data, disp_guard, screen, accepted, overtaken, readVars>>

StoreAndGive(p) ==
  /\ show[p] = "store"
  /\ last_reading' = data[p]
  /\ disp_guard' = "free"
  /\ GoOn(p, "idle")
  /\ UNCHANGED <<boot, encVars, data, screen, accepted, overtaken, readVars>>

uisub_show(p) ==
  TakeGuard(p) \/ GuardBusy(p) \/ NoGuard(p) \/ Draw(p) \/ StoreAndGive(p)

-----------------------------------------------------------------------------
(* read_ambient *)

\* Ten seconds after the last reading.
NewReading ==
  /\ boot = "ready" /\ show["read"] = "idle"
  /\ newest' = IF newest < MaxReadings THEN newest + 1 ELSE newest
  /\ data' = [data EXCEPT !["read"] = [v \in Values |-> newest']]
  /\ GoOn("read", "take")
  /\ UNCHANGED <<boot, encVars, disp_guard, last_reading, screen, accepted, overtaken,
                 failures>>

\* ESP_ERROR_CHECK.
SensorFails ==
  /\ boot = "ready" /\ show["read"] = "idle"
  /\ failures < MaxFailures /\ failures' = failures + 1
  /\ Abort
  /\ UNCHANGED edges

-----------------------------------------------------------------------------
Next ==
  \/ BootStep
  \/ \E by \in {-1, 1} : rotenc_isr(by)
  \/ EncoderTask
  \/ \E p \in Drawers : uisub_show(p)
  \/ NewReading \/ SensorFails

\* Every task runs; nobody has to turn the encoder and no sensor has to fail.
Fairness ==
  /\ WF_vars(BootStep) /\ WF_vars(EncoderTask) /\ WF_vars(NewReading)
  /\ \A p \in Drawers : WF_vars(uisub_show(p))

Spec == Init /\ [][Next]_vars /\ Fairness

-----------------------------------------------------------------------------
(* Properties *)

\* A suspended encoder task has followed the encoder to within one value, unless
\* an interrupt came after it had read the position and before it slept: that
\* turn waits for the next one (uisub.cpp:125-136, rotenc.cpp:46-52).
TurnNotForgotten ==
  rpos = "suspended" /\ ~missed => Abs(pos - rotenc_pos) < DETENT

\* Whenever nobody draws, the value on the screen is the one last_reading has
\* for it; it is the newest reading drawn, unless a redraw held a copy of an
\* older one when that was drawn or stored: only such a redraw can put an old
\* reading, or a mixture, back (uisub.cpp:67-108, 133).
ScreenCurrent ==
  disp_guard = "free" /\ screen # Nothing =>
    /\ screen.number = last_reading[screen.value]
    /\ ~overtaken => screen.number = accepted

\* However the turns, the readings, the boot and a redraw that found the display
\* busy fell together, in the end the screen shows the newest reading of the
\* value that belongs to the position the task has taken over.
ScreenSettles ==
  <>[](screen = Picture(rotenc_pos, [v \in Values |-> newest]))

=============================================================================
