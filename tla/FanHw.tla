------------------------------- MODULE FanHw --------------------------------
(***************************************************************************)
(* The hardware half of the smart fan, ch12/smart_fan/lib/hw/app_hw.c.     *)
(*                                                                         *)
(* Four buttons raise an interrupt; the interrupt handler filters bounces  *)
(* and queues the index of the button.  The cloud half of the firmware     *)
(* queues an index too, through apphw_set_state.  One task consumes the    *)
(* queue, switches the relays of the three windings and calls fan_cb, the  *)
(* function that reports the new speed.  Here fan_cb is only a call that   *)
(* returns sooner or later; module SmartFan makes it appaws_publish.       *)
(*                                                                         *)
(* A relay closes when its pin is LOW and the board's output-enable pin is *)
(* HIGH.  GPIO_OUT is zero after a reset, so every relay pin starts LOW:   *)
(* only the output-enable pin keeps the windings off until the pins are    *)
(* written.                                                                *)
(*                                                                         *)
(* Abstractions: the filter `next` of the handler is the flag armed (its   *)
(* arithmetic on ticks is module ButtonDebounce); the loop over the relay  *)
(* pins is one step, nothing else writes the pins.  idx_queue holds four   *)
(* bytes per item and both ends use the address of a variable of one byte  *)
(* or four; the byte that counts is the low one, an index.                 *)
(***************************************************************************)
EXTENDS Integers, Sequences

CONSTANTS
  BTN_CNT,    \* number of buttons; button 0 is OFF
  BtnVal,     \* btn_map[i].val, the power level of button i
  QLEN,       \* length of idx_queue
  Wraps       \* whether the tick count wraps, which it does after 497 days

Uint8  == 0 .. 255
Idx    == 0 .. BTN_CNT - 1
Relays == 1 .. BTN_CNT - 1

ASSUME HwAssumption ==
  /\ BTN_CNT \in Nat /\ BTN_CNT > 1
  /\ BtnVal \in [Idx -> Uint8]
  /\ BtnVal[0] = 0
  /\ \A i, j \in Idx : i < j => BtnVal[i] < BtnVal[j]
  /\ QLEN \in Nat /\ QLEN > 0
  /\ Wraps \in BOOLEAN

VARIABLES
  boot,        \* how far apphw_init has come
  oe,          \* level of the output-enable pin APP_OE
  low,         \* the relay pins at level 0
  idx_queue,   \* the queue of requested indices
  armed,       \* next <= now: the handler accepts an interrupt
  rpc,         \* where set_relay_task is
  idx,         \* its local variable
  active_btn_idx

hwVars == <<boot, oe, low, idx_queue, armed, rpc, idx, active_btn_idx>>

BootSteps == {"reset", "isr", "off", "queue", "ready"}
TaskSteps == {"none", "start", "recv", "delay", "call"}

HwTypeOK ==
  /\ boot \in BootSteps
  /\ oe \in {0, 1}
  /\ low \in SUBSET Relays
  /\ idx_queue \in Seq(Idx)
  /\ Len(idx_queue) <= QLEN
  /\ armed \in BOOLEAN
  /\ rpc \in TaskSteps
  /\ idx \in Idx
  /\ active_btn_idx \in Idx

HwInit ==
  /\ boot = "reset"
  /\ oe = 0
  /\ low = Relays
  /\ idx_queue = <<>>
  /\ armed = TRUE
  /\ rpc = "none"
  /\ idx = 0
  /\ active_btn_idx = 0

\* The windings that carry current.
Energised == IF oe = 1 THEN low ELSE {}

\* idx_queue is NULL until xQueueCreate.
QueueExists == boot \in {"queue", "ready"}

-----------------------------------------------------------------------------
(* apphw_init, in the order of its effects *)

ConfigurePins ==
  /\ boot = "reset"
  /\ boot' = "isr"
  /\ UNCHANGED <<oe, low, idx_queue, armed, rpc, idx, active_btn_idx>>

OutputsOff ==
  /\ boot = "isr"
  /\ boot' = "off"
  /\ oe' = 0
  /\ low' = {}
  /\ UNCHANGED <<idx_queue, armed, rpc, idx, active_btn_idx>>

CreateQueue ==
  /\ boot = "off"
  /\ boot' = "queue"
  /\ idx_queue' = <<>>
  /\ UNCHANGED <<oe, low, armed, rpc, idx, active_btn_idx>>

CreateTask ==
  /\ boot = "queue"
  /\ boot' = "ready"
  /\ rpc' = "start"
  /\ UNCHANGED <<oe, low, idx_queue, armed, idx, active_btn_idx>>

-----------------------------------------------------------------------------
(* The producers of idx_queue *)

\* Mutant: a queue without a limit.
SendAlways(i) == idx_queue' = Append(idx_queue, i)

\* Both xQueueSendToBackFromISR and xQueueSendToBack with a timeout of 0:
\* the item is dropped when the queue is full.
Send(i) ==
  idx_queue' = IF Len(idx_queue) < QLEN THEN Append(idx_queue, i) ELSE idx_queue

\* An interrupt that the filter lets through.  One filter serves all buttons.
\* next = now + 10 closes it, unless the sum wraps.  An interrupt it rejects
\* changes nothing and needs no action.
button_handler(i) ==
  /\ QueueExists
  /\ armed
  /\ armed' \in {FALSE, Wraps}
  /\ Send(i)
  /\ UNCHANGED <<boot, oe, low, rpc, idx, active_btn_idx>>

\* The tick count reaches next.
DebounceOver ==
  /\ ~armed
  /\ armed' = TRUE
  /\ UNCHANGED <<boot, oe, low, idx_queue, rpc, idx, active_btn_idx>>

\* The tick count wraps while next, of some earlier press, stays where it is.
TickWrap ==
  /\ Wraps
  /\ armed
  /\ armed' = FALSE
  /\ UNCHANGED <<boot, oe, low, idx_queue, rpc, idx, active_btn_idx>>

\* Mutant: the level of a button does not reach that button.
FirstAbove(val) ==
  {i \in Relays : val < BtnVal[i] /\ \A j \in Relays : j < i => BtnVal[j] <= val}

\* The smallest button whose level is at least val.
FirstAtLeast(val) ==
  {i \in Relays : val <= BtnVal[i] /\ \A j \in Relays : j < i => BtnVal[j] < val}

\* A level above the highest button sends nothing.
apphw_set_state(val) ==
  /\ QueueExists
  /\ \/ val = 0 /\ Send(0)
     \/ val # 0 /\ \E i \in FirstAtLeast(val) : Send(i)
     \/ val # 0 /\ FirstAtLeast(val) = {} /\ UNCHANGED idx_queue
  /\ UNCHANGED <<boot, oe, low, armed, rpc, idx, active_btn_idx>>

-----------------------------------------------------------------------------
(* set_relay_task *)

EnableOutputs ==
  /\ rpc = "start"
  /\ rpc' = "recv"
  /\ oe' = 1
  /\ UNCHANGED <<boot, low, idx_queue, armed, idx, active_btn_idx>>

\* xQueueReceive.
TakeIndex ==
  /\ rpc = "recv"
  /\ idx_queue # <<>>
  /\ idx' = Head(idx_queue)
  /\ idx_queue' = Tail(idx_queue)

\* The index of the active speed is consumed and nothing is reported.
SkipActive ==
  /\ TakeIndex
  /\ idx' = active_btn_idx
  /\ UNCHANGED <<boot, oe, low, armed, rpc, active_btn_idx>>

\* Mutant: the relays are released but the speed stays recorded.
SwitchOffKeepsActive ==
  /\ TakeIndex
  /\ idx' = 0 /\ active_btn_idx # 0
  /\ low' = {}
  /\ rpc' = "call"
  /\ UNCHANGED <<boot, oe, armed, active_btn_idx>>

\* Mutant: off is not reported.
SwitchOffSilently ==
  /\ TakeIndex
  /\ idx' = 0 /\ active_btn_idx # 0
  /\ low' = {}
  /\ active_btn_idx' = 0
  /\ UNCHANGED <<boot, oe, armed, rpc>>

\* Off: every relay is released and the new state is reported.
SwitchOff ==
  /\ TakeIndex
  /\ idx' = 0 /\ active_btn_idx # 0
  /\ low' = {}
  /\ active_btn_idx' = 0
  /\ rpc' = "call"
  /\ UNCHANGED <<boot, oe, armed>>

\* Mutant: the relay of the old speed is not released.
BreakNothing ==
  /\ TakeIndex
  /\ idx' \notin {0, active_btn_idx}
  /\ rpc' = "delay"
  /\ UNCHANGED <<boot, oe, low, armed, active_btn_idx>>

\* Mutant: the new relay is closed before the pause.
SwapRelays ==
  /\ TakeIndex
  /\ idx' \notin {0, active_btn_idx}
  /\ low' = {idx'}
  /\ rpc' = "delay"
  /\ UNCHANGED <<boot, oe, armed, active_btn_idx>>

\* A speed: every relay is released, then the task sleeps 250 ms.
BreakRelays ==
  /\ TakeIndex
  /\ idx' \notin {0, active_btn_idx}
  /\ low' = {}
  /\ rpc' = "delay"
  /\ UNCHANGED <<boot, oe, armed, active_btn_idx>>

\* Mutant: the pause is cut short for a press that waits in the queue.
MakeRelayWhenIdle ==
  /\ rpc = "delay"
  /\ low' = IF idx_queue = <<>> THEN low \cup {idx} ELSE low
  /\ active_btn_idx' = idx
  /\ rpc' = "call"
  /\ UNCHANGED <<boot, oe, idx_queue, armed, idx>>

\* The sleep is over: the relay of the new speed is closed.
MakeRelay ==
  /\ rpc = "delay"
  /\ low' = low \cup {idx}
  /\ active_btn_idx' = idx
  /\ rpc' = "call"
  /\ UNCHANGED <<boot, oe, idx_queue, armed, idx>>

\* fan_cb(btn_map[idx].val) returns.
CallReturns ==
  /\ rpc = "call"
  /\ rpc' = "recv"
  /\ UNCHANGED <<boot, oe, low, idx_queue, armed, idx, active_btn_idx>>

-----------------------------------------------------------------------------
\* A power cycle, or the abort of a task: RAM and the GPIO registers are reset.
HwReset ==
  /\ boot' = "reset" /\ oe' = 0 /\ low' = Relays /\ idx_queue' = <<>>
  /\ armed' = TRUE /\ rpc' = "none" /\ idx' = 0 /\ active_btn_idx' = 0

\* An interrupt between gpio_isr_handler_add and xQueueCreate sends to a NULL
\* queue: the assertion of xQueueGenericSendFromISR aborts and the chip reboots.
IsrWithoutQueue ==
  /\ boot \in {"isr", "off"}
  /\ armed
  /\ HwReset

PowerCycle == HwReset

BootStep == ConfigurePins \/ OutputsOff \/ CreateQueue \/ CreateTask

RelayTask == EnableOutputs \/ SkipActive \/ SwitchOff \/ BreakRelays \/ MakeRelay

HwNext ==
  \/ BootStep
  \/ \E i \in Idx : button_handler(i)
  \/ DebounceOver
  \/ TickWrap
  \/ \E val \in Uint8 : apphw_set_state(val)
  \/ RelayTask
  \/ CallReturns
  \/ IsrWithoutQueue
  \/ PowerCycle

\* app_main and the relay task, the highest priority of the program, run.
\* Nobody has to press a button or to call in from the cloud.
HwFairness ==
  /\ WF_hwVars(BootStep)
  /\ WF_hwVars(RelayTask)
  /\ WF_hwVars(CallReturns)

HwSafety == HwInit /\ [][HwNext]_hwVars
HwSpec   == HwSafety /\ HwFairness

-----------------------------------------------------------------------------
(* Properties *)

\* The motor never has two windings energised, the boot with its LOW relay
\* pins included (app_hw.c: set_relay_task, apphw_init).
AtMostOneEnergised == \A i, j \in Energised : i = j

\* Whenever the relay task is not in the middle of a switch, the energised
\* winding is the one active_btn_idx names, and none for OFF: what is reported
\* next, btn_map[idx].val, is what the motor does.
EnergisedIsActive ==
  rpc \in {"recv", "call"} =>
    Energised = IF active_btn_idx = 0 THEN {} ELSE {active_btn_idx}

\* A winding is energised only in a step that starts with all windings off,
\* and only the one the task took from the queue: two speeds are never swapped
\* in one step, whatever was queued meanwhile (app_hw.c:50-60).
BreakBeforeMake ==
  [][Energised' \ Energised # {} => Energised = {} /\ Energised' = {idx}]_hwVars

\* The relay board seen through its windings: the one that is energised, and
\* the speed the task is heading for.
TheWinding == IF Energised = {} THEN 0 ELSE CHOOSE i \in Energised : TRUE
Heading    == IF rpc = "delay" THEN idx ELSE active_btn_idx

Interlock ==
  INSTANCE RelayInterlock WITH Speeds <- Relays, on <- TheWinding, goal <- Heading

\* app_hw.c is a correct relay interlock: no speed is energised but through off,
\* and an accepted speed is energised in the end unless the chip is reset.
ImplementsInterlock == Interlock!Spec

=============================================================================
