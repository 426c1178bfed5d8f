---------------------------- MODULE FanPartsProofs ---------------------------
(***************************************************************************)
(* Proofs about the two halves of the smart fan, each on its own: the      *)
(* hardware half for every number of buttons, every table of levels and    *)
(* every queue length, the cloud half for any number of appaws_connect     *)
(* tasks and any set of levels.                                            *)
(***************************************************************************)
EXTENDS FanHw, FanAws, SequenceTheorems, TLAPS

-----------------------------------------------------------------------------
(* The hardware half: the inductive invariant *)

\* The relay pins the task has made LOW for speed i.
Closed(i) == IF i = 0 THEN {} ELSE {i}

\* The inductive invariant.  HwTypeOK alone says nothing of the relays: what
\* keeps two of them apart is where the task is, how far the boot has come, and
\* that the output-enable pin stays low until the pins were written.
HwInv ==
  /\ HwTypeOK
  /\ boot = "ready" <=> rpc # "none"
  /\ oe = IF rpc \in {"none", "start"} THEN 0 ELSE 1
  /\ rpc \in {"none", "start"} => active_btn_idx = 0
  /\ rpc = "start" => low = {}
  /\ boot \in {"off", "queue"} => low = {}
  /\ rpc \in {"recv", "call"} => low = Closed(active_btn_idx)
  /\ rpc = "delay" => low = {} /\ idx # 0
  /\ rpc = "call" => idx = active_btn_idx

-----------------------------------------------------------------------------
(* The queue *)

\* Idx is the set of indices the queue may hold.
LEMMA IdxFacts == 0 \in Idx /\ Relays \subseteq Idx /\ 0 \notin Relays /\ Idx \subseteq Nat
  BY HwAssumption DEF HwAssumption, Idx, Relays

\* Sending keeps the queue a sequence of indices within its length.
LEMMA SendType ==
  ASSUME idx_queue \in Seq(Idx), Len(idx_queue) <= QLEN, NEW i \in Idx, Send(i)
  PROVE  idx_queue' \in Seq(Idx) /\ Len(idx_queue') <= QLEN
<1>1. CASE Len(idx_queue) < QLEN
  <2>1. idx_queue' = Append(idx_queue, i)
    BY <1>1 DEF Send
  <2>2. idx_queue' \in Seq(Idx) /\ Len(idx_queue') = Len(idx_queue) + 1
    BY <2>1, AppendProperties
  <2> QED
    BY <1>1, <2>2, HwAssumption, LenProperties DEF HwAssumption
<1>2. CASE ~(Len(idx_queue) < QLEN)
  BY <1>2 DEF Send
<1> QED
  BY <1>1, <1>2

\* Taking an index from the queue leaves a queue, and yields an index.
LEMMA TakeType ==
  ASSUME idx_queue \in Seq(Idx), Len(idx_queue) <= QLEN, TakeIndex
  PROVE  /\ idx' \in Idx
         /\ idx_queue' \in Seq(Idx)
         /\ Len(idx_queue') <= QLEN
<1>1. /\ Head(idx_queue) \in Idx
      /\ Tail(idx_queue) \in Seq(Idx)
      /\ Len(Tail(idx_queue)) = Len(idx_queue) - 1
  BY HeadTailProperties DEF TakeIndex
<1> QED
  BY <1>1, LenProperties, HwAssumption DEF TakeIndex, HwAssumption

\* The state after a reset satisfies the invariant; it is that of HwInit.
LEMMA ResetInv == HwReset => HwInv'
<1> SUFFICES ASSUME HwReset PROVE HwInv'
  OBVIOUS
<1>1. <<>> \in Seq(Idx) /\ Len(<<>>) = 0
  BY EmptySeq
<1> QED
  BY <1>1, IdxFacts, HwAssumption DEF HwReset, HwInv, HwTypeOK, HwAssumption, BootSteps, TaskSteps

\* So does the initial state.
LEMMA InitInv == HwInit => HwInv
<1> SUFFICES ASSUME HwInit PROVE HwInv
  OBVIOUS
<1>1. <<>> \in Seq(Idx) /\ Len(<<>>) = 0
  BY EmptySeq
<1> QED
  BY <1>1, IdxFacts, HwAssumption DEF HwInit, HwInv, HwTypeOK, HwAssumption, BootSteps, TaskSteps

-----------------------------------------------------------------------------
(* The hardware half: one lemma per part of the program *)

\* apphw_init keeps the task and the outputs off until everything is in place.
LEMMA BootInv == HwInv /\ BootStep => HwInv'
<1> SUFFICES ASSUME HwInv, BootStep PROVE HwInv'
  OBVIOUS
<1> USE DEF HwInv, HwTypeOK, BootSteps, TaskSteps
<1>1. CASE ConfigurePins
  BY <1>1 DEF ConfigurePins
<1>2. CASE OutputsOff
  BY <1>2 DEF OutputsOff
<1>3. CASE CreateQueue
  <2>1. <<>> \in Seq(Idx) /\ Len(<<>>) = 0
    BY EmptySeq
  <2> QED
    BY <1>3, <2>1, HwAssumption DEF CreateQueue, HwAssumption
<1>4. CASE CreateTask
  BY <1>4 DEF CreateTask
<1> QED
  BY <1>1, <1>2, <1>3, <1>4 DEF BootStep

\* Neither a press nor a request from the cloud touches anything but the queue
\* and the filter.
LEMMA ProducerInv ==
  ASSUME HwInv,
         \/ \E i \in Idx : button_handler(i)
         \/ \E val \in Uint8 : apphw_set_state(val)
         \/ DebounceOver
         \/ TickWrap
  PROVE  HwInv'
<1> USE DEF HwInv, HwTypeOK
<1>1. ASSUME NEW i \in Idx, button_handler(i) PROVE HwInv'
  <2>1. idx_queue' \in Seq(Idx) /\ Len(idx_queue') <= QLEN
    BY <1>1, SendType DEF button_handler
  <2>2. armed' \in BOOLEAN
    BY <1>1, HwAssumption DEF button_handler, HwAssumption
  <2> QED
    BY <1>1, <2>1, <2>2 DEF button_handler
<1>2. ASSUME NEW val \in Uint8, apphw_set_state(val) PROVE HwInv'
  <2>1. idx_queue' \in Seq(Idx) /\ Len(idx_queue') <= QLEN
    <3>1. CASE Send(0)
      BY <3>1, SendType, IdxFacts
    <3>2. ASSUME NEW i \in FirstAtLeast(val), Send(i)
          PROVE  idx_queue' \in Seq(Idx) /\ Len(idx_queue') <= QLEN
      <4>1. i \in Idx
        BY <3>2, IdxFacts DEF FirstAtLeast
      <4> QED
        BY <3>2, <4>1, SendType
    <3>3. CASE UNCHANGED idx_queue
      BY <3>3
    <3> QED
      BY <1>2, <3>1, <3>2, <3>3 DEF apphw_set_state
  <2> QED
    BY <1>2, <2>1 DEF apphw_set_state
<1>3. CASE DebounceOver
  BY <1>3 DEF DebounceOver
<1>4. CASE TickWrap
  BY <1>4 DEF TickWrap
<1> QED
  BY <1>1, <1>2, <1>3, <1>4

\* The relay task closes a relay only when all are open, and then records it.
LEMMA RelayInv == HwInv /\ (RelayTask \/ CallReturns) => HwInv'
<1> SUFFICES ASSUME HwInv, RelayTask \/ CallReturns PROVE HwInv'
  OBVIOUS
<1> USE DEF HwInv, HwTypeOK, TaskSteps
<1>1. CASE EnableOutputs
  BY <1>1 DEF EnableOutputs, Closed
<1>2. ASSUME TakeIndex
      PROVE  idx' \in Idx /\ idx_queue' \in Seq(Idx) /\ Len(idx_queue') <= QLEN
  BY <1>2, TakeType
<1>3. CASE SkipActive
  BY <1>2, <1>3 DEF SkipActive, TakeIndex
<1>4. CASE SwitchOff
  BY <1>2, <1>4, IdxFacts DEF SwitchOff, TakeIndex, Closed
<1>5. CASE BreakRelays
  BY <1>2, <1>5 DEF BreakRelays, TakeIndex
<1>6. CASE MakeRelay
  <2>1. idx \in Relays
    BY <1>6, HwAssumption DEF MakeRelay, Idx, Relays, HwAssumption
  <2>2. low' = {idx} /\ low' = Closed(active_btn_idx')
    BY <1>6 DEF MakeRelay, Closed
  <2> QED
    BY <1>6, <2>1, <2>2 DEF MakeRelay
<1>7. CASE CallReturns
  BY <1>7 DEF CallReturns
<1> QED
  BY <1>1, <1>3, <1>4, <1>5, <1>6, <1>7 DEF RelayTask

\* Every step keeps the invariant.
LEMMA StepInv == HwInv /\ [HwNext]_hwVars => HwInv'
<1> SUFFICES ASSUME HwInv, [HwNext]_hwVars PROVE HwInv'
  OBVIOUS
<1>1. CASE UNCHANGED hwVars
  BY <1>1 DEF hwVars, HwInv, HwTypeOK
<1>2. CASE HwNext
  BY <1>2, BootInv, ProducerInv, RelayInv, ResetInv DEF HwNext, IsrWithoutQueue, PowerCycle
<1> QED
  BY <1>1, <1>2

\* The invariant holds in every reachable state.
LEMMA AlwaysInv == HwSafety => []HwInv
  BY InitInv, StepInv, PTL DEF HwSafety

-----------------------------------------------------------------------------
(* The hardware half: the results *)

\* What the invariant says of the windings: that of the recorded speed while the
\* task waits or reports, and none while it has not started or switches.
LEMMA Windings ==
  HwInv => Energised = IF rpc \in {"recv", "call"} THEN Closed(active_btn_idx) ELSE {}
<1> SUFFICES ASSUME HwInv
             PROVE  Energised = IF rpc \in {"recv", "call"} THEN Closed(active_btn_idx) ELSE {}
  OBVIOUS
<1>1. CASE rpc \in {"recv", "call"}
  BY <1>1 DEF HwInv, Energised
<1>2. CASE rpc \in {"none", "start"}
  BY <1>2 DEF HwInv, Energised
<1>3. CASE rpc = "delay"
  BY <1>3 DEF HwInv, Energised
<1> QED
  BY <1>1, <1>2, <1>3 DEF HwInv, HwTypeOK, TaskSteps

\* Every variable of app_hw.c keeps its type, the queue its length included.
THEOREM HwTypeCorrect == HwSafety => []HwTypeOK
  BY AlwaysInv, PTL DEF HwInv

\* No two windings are ever energised, whatever is pressed, requested or reset
\* at whatever step of the boot and of the relay task.
THEOREM OneWinding == HwSafety => []AtMostOneEnergised
<1>1. HwInv => AtMostOneEnergised
  BY Windings DEF AtMostOneEnergised, HwInv, HwTypeOK, TaskSteps, Closed
<1> QED
  BY <1>1, AlwaysInv, PTL

\* The winding that is energised is the one the firmware reports.
THEOREM ReportedSpeedRuns == HwSafety => []EnergisedIsActive
<1>1. HwInv => EnergisedIsActive
  BY Windings DEF EnergisedIsActive, Closed
<1> QED
  BY <1>1, AlwaysInv, PTL

\* The same of the state after a step.
LEMMA WindingsNext ==
  HwInv' => Energised' = IF rpc' \in {"recv", "call"} THEN Closed(active_btn_idx') ELSE {}
<1> DEFINE W == Energised = IF rpc \in {"recv", "call"} THEN Closed(active_btn_idx) ELSE {}
<1>1. HwInv => W
  BY Windings
<1> HIDE DEF W
<1>2. HwInv' => W'
  BY <1>1, PTL
<1> QED
  BY <1>2 DEF W

\* The step in which a winding gets current is MakeRelay: every other step that
\* reaches "recv" or "call" keeps the recorded speed or switches it off.
LEMMA OnlyMakeRelayEnergises ==
  ASSUME HwInv, HwNext, Energised' \ Energised # {}
  PROVE  MakeRelay
<1> USE DEF HwInv
<1>1. Energised = IF rpc \in {"recv", "call"} THEN Closed(active_btn_idx) ELSE {}
  BY Windings
<1>2. Energised' = IF rpc' \in {"recv", "call"} THEN Closed(active_btn_idx') ELSE {}
  BY WindingsNext, StepInv
<1>3. rpc' \in {"recv", "call"} /\ active_btn_idx' # 0
  BY <1>2 DEF Closed
<1>4. rpc \in {"recv", "call"} => active_btn_idx' # active_btn_idx
  BY <1>1, <1>2
<1>5. ~BootStep
  BY <1>3, <1>4 DEF BootStep, ConfigurePins, OutputsOff, CreateQueue, CreateTask
<1>6. ~(\E i \in Idx : button_handler(i)) /\ ~DebounceOver /\ ~TickWrap
  BY <1>1, <1>2 DEF button_handler, DebounceOver, TickWrap
<1>7. ~(\E val \in Uint8 : apphw_set_state(val))
  BY <1>1, <1>2 DEF apphw_set_state
<1>8. ~HwReset
  BY <1>3 DEF HwReset
<1>9. ~EnableOutputs /\ ~SkipActive /\ ~SwitchOff /\ ~BreakRelays /\ ~CallReturns
  BY <1>3, <1>4 DEF EnableOutputs, SkipActive, SwitchOff, BreakRelays, CallReturns, TakeIndex
<1> QED
  BY <1>5, <1>6, <1>7, <1>8, <1>9 DEF HwNext, RelayTask, IsrWithoutQueue, PowerCycle

\* Two speeds are never swapped in one step: a winding gets current only from
\* "all off", and it is the one the task took from the queue.
THEOREM BreaksBeforeMaking == HwSafety => BreakBeforeMake
<1>1. HwInv /\ [HwNext]_hwVars =>
        [Energised' \ Energised # {} => Energised = {} /\ Energised' = {idx}]_hwVars
  <2> SUFFICES ASSUME HwInv, HwNext, Energised' \ Energised # {}
               PROVE  Energised = {} /\ Energised' = {idx}
    OBVIOUS
  <2>1. MakeRelay
    BY OnlyMakeRelayEnergises
  <2>2. Energised = {} /\ idx # 0
    BY <2>1, Windings DEF MakeRelay, HwInv
  <2>3. Energised' = Closed(idx)
    BY <2>1, WindingsNext, StepInv DEF MakeRelay
  <2> QED
    BY <2>2, <2>3 DEF Closed
<1> QED
  BY <1>1, AlwaysInv, PTL DEF HwSafety, BreakBeforeMake

-----------------------------------------------------------------------------
(* Implementation of the abstract interlock *)

\* The winding the refinement mapping shows, without its CHOOSE.
LEMMA TheWindingIs ==
  HwInv => TheWinding = IF rpc \in {"recv", "call"} THEN active_btn_idx ELSE 0
<1> SUFFICES ASSUME HwInv
             PROVE  TheWinding = IF rpc \in {"recv", "call"} THEN active_btn_idx ELSE 0
  OBVIOUS
<1>1. CASE Energised = {}
  BY <1>1, Windings DEF TheWinding, Closed
<1>2. CASE Energised # {}
  <2>1. rpc \in {"recv", "call"} /\ Energised = {active_btn_idx}
    BY <1>2, Windings DEF Closed
  <2> QED
    BY <2>1 DEF TheWinding
<1> QED
  BY <1>1, <1>2

\* The same of the state after a step.
LEMMA TheWindingIsNext ==
  HwInv' => TheWinding' = IF rpc' \in {"recv", "call"} THEN active_btn_idx' ELSE 0
<1> DEFINE W == TheWinding = IF rpc \in {"recv", "call"} THEN active_btn_idx ELSE 0
<1>1. HwInv => W
  BY TheWindingIs
<1> HIDE DEF W
<1>2. HwInv' => W'
  BY <1>1, PTL
<1> QED
  BY <1>2 DEF W

\* Every step of the program is, on the board, an accepted speed, the closing of
\* a relay, a reset, or nothing.
LEMMA InterlockStep ==
  HwInv /\ [HwNext]_hwVars => [Interlock!Next]_(Interlock!vars)
<1> SUFFICES ASSUME HwInv, [HwNext]_hwVars
             PROVE  [Interlock!Next]_(Interlock!vars)
  OBVIOUS
<1> DEFINE Shown(r, a) == IF r \in {"recv", "call"} THEN a ELSE 0
<1>1. TheWinding = Shown(rpc, active_btn_idx)
  BY TheWindingIs
<1>2. TheWinding' = Shown(rpc', active_btn_idx')
  BY TheWindingIsNext, StepInv
<1>3. rpc \in {"none", "start"} => active_btn_idx = 0
  BY DEF HwInv
<1>4. ASSUME rpc' = rpc, active_btn_idx' = active_btn_idx, rpc = "delay" => idx' = idx
      PROVE  UNCHANGED <<TheWinding, Heading>>
  BY <1>1, <1>2, <1>4 DEF Heading
<1>5. CASE UNCHANGED hwVars
  BY <1>4, <1>5 DEF hwVars, Interlock!vars
<1>6. CASE BootStep
  <2>1. rpc' = rpc \/ (rpc = "none" /\ rpc' = "start")
    BY <1>6 DEF BootStep, ConfigurePins, OutputsOff, CreateQueue, CreateTask, HwInv
  <2>2. UNCHANGED <<idx, active_btn_idx>>
    BY <1>6 DEF BootStep, ConfigurePins, OutputsOff, CreateQueue, CreateTask
  <2> QED
    BY <1>1, <1>2, <1>3, <2>1, <2>2 DEF Heading, Interlock!vars
<1>7. CASE \/ \E i \in Idx : button_handler(i)
           \/ \E val \in Uint8 : apphw_set_state(val)
           \/ DebounceOver \/ TickWrap
  <2>1. UNCHANGED <<rpc, idx, active_btn_idx>>
    BY <1>7 DEF button_handler, apphw_set_state, DebounceOver, TickWrap
  <2> QED
    BY <1>4, <2>1 DEF Interlock!vars
<1>8. CASE EnableOutputs \/ SkipActive \/ CallReturns
  <2>1. /\ rpc \in {"start", "recv", "call"} /\ rpc' = "recv"
        /\ active_btn_idx' = active_btn_idx
    BY <1>8 DEF EnableOutputs, SkipActive, CallReturns, TakeIndex
  <2> QED
    BY <1>1, <1>2, <1>3, <2>1 DEF Heading, Interlock!vars
<1>9. CASE SwitchOff
  <2>1. TheWinding = active_btn_idx /\ Heading = active_btn_idx /\ active_btn_idx # 0
    BY <1>1, <1>9 DEF SwitchOff, TakeIndex, Heading
  <2>2. TheWinding' = 0 /\ Heading' = 0
    BY <1>2, <1>9 DEF SwitchOff, Heading
  <2>3. Interlock!Accept(0)
    BY <2>1, <2>2 DEF Interlock!Accept
  <2> QED
    BY <2>3 DEF Interlock!Next
<1>10. CASE BreakRelays
  <2>1. TheWinding = active_btn_idx /\ Heading = active_btn_idx
    BY <1>1, <1>10 DEF BreakRelays, TakeIndex, Heading
  <2>2. TheWinding' = 0 /\ Heading' = idx' /\ idx' \notin {0, active_btn_idx}
    BY <1>2, <1>10 DEF BreakRelays, Heading
  <2>3. idx' \in Relays
    BY <2>2, StepInv, HwAssumption DEF HwInv, HwTypeOK, Idx, Relays, HwAssumption
  <2>4. Interlock!Accept(idx')
    BY <2>1, <2>2 DEF Interlock!Accept
  <2> QED
    BY <2>3, <2>4 DEF Interlock!Next
<1>11. CASE MakeRelay
  <2>1. TheWinding = 0 /\ Heading = idx /\ idx # 0
    BY <1>1, <1>11 DEF MakeRelay, Heading, HwInv
  <2>2. TheWinding' = idx /\ Heading' = idx
    BY <1>2, <1>11 DEF MakeRelay, Heading
  <2> QED
    BY <2>1, <2>2 DEF Interlock!Energise, Interlock!Next
<1>12. CASE HwReset
  <2>1. TheWinding' = 0 /\ Heading' = 0
    BY <1>2, <1>12 DEF HwReset, Heading
  <2> QED
    BY <2>1 DEF Interlock!Reset, Interlock!Next
<1> QED
  BY <1>5, <1>6, <1>7, <1>8, <1>9, <1>10, <1>11, <1>12
  DEF HwNext, RelayTask, IsrWithoutQueue, PowerCycle

\* The board starts with every winding off.
LEMMA InterlockInit == HwInit => Interlock!Init
<1> SUFFICES ASSUME HwInit PROVE Interlock!Init
  OBVIOUS
<1>1. HwInv /\ rpc = "none" /\ active_btn_idx = 0
  BY InitInv DEF HwInit
<1> QED
  BY <1>1, TheWindingIs DEF Heading, Interlock!Init

\* app_hw.c implements the relay interlock (the safety part of
\* ImplementsInterlock; its liveness is model-checked).
THEOREM HwImplementsInterlock == HwSafety => Interlock!Safety
  BY InterlockInit, InterlockStep, AlwaysInv, PTL DEF HwSafety, Interlock!Safety

-----------------------------------------------------------------------------
(* The cloud half: the inductive invariant *)

\* A registered callback has set the flag.  With it the invariants of the runs
\* are inductive together.
TokensMeanSubscribed == tokens > 0 => subFlag

\* The inductive invariant.
AwsInv ==
  /\ AwsTypeOK
  /\ GuardMatchesHolder
  /\ BusyClientHasOwner
  /\ CallbackUnderGuard
  /\ TokensMeanSubscribed
  /\ DispatchMeansSubscribed
  /\ VersionsOfShadow

\* The types of the records.
LEMMA RecordTypes ==
  ASSUME AwsTypeOK
  PROVE  /\ cb.level \in Levels /\ cb.left \in Nat
         /\ doc.reported \in Levels /\ doc.desired \in Levels \cup {NoLevel}
         /\ shadow.desired \in Levels /\ shadow.reported \in Levels
         /\ shadow.version \in Nat
         /\ \A d \in toDev : d.version \in Nat /\ d.level \in Levels
  BY DEF AwsTypeOK

\* No level is mistaken for "absent".
LEMMA LevelFacts == 0 \in Levels /\ NoLevel \notin Levels /\ Levels \subseteq Int
  BY AwsAssumption DEF AwsAssumption, NoLevel

\* The initial state satisfies the invariant.
LEMMA AwsInitInv == AwsInit => AwsInv
<1> SUFFICES ASSUME AwsInit PROVE AwsInv
  OBVIOUS
<1> USE DEF AwsInit, DeviceInit
<1>1. AwsTypeOK
  <2>1. /\ cb \in [level : Levels, left : Nat]
        /\ doc \in [reported : Levels, desired : Levels \cup {NoLevel}]
        /\ shadow \in [desired : Levels, reported : Levels, version : Nat]
    BY LevelFacts
  <2>2. task \in [Tasks -> ConnectSteps]
    BY DEF ConnectSteps
  <2> QED
    BY <2>1, <2>2, LevelFacts DEF AwsTypeOK, ClientStates
<1>2. GuardMatchesHolder
  BY AwsAssumption DEF GuardMatchesHolder, AwsAssumption
<1>3. BusyClientHasOwner
  BY DEF BusyClientHasOwner
<1>4. CallbackUnderGuard /\ TokensMeanSubscribed /\ DispatchMeansSubscribed
  BY DEF CallbackUnderGuard, TokensMeanSubscribed, DispatchMeansSubscribed
<1>5. VersionsOfShadow
  BY DEF VersionsOfShadow
<1> QED
  BY <1>1, <1>2, <1>3, <1>4, <1>5 DEF AwsInv

-----------------------------------------------------------------------------
(* The shadow *)

\* An update keeps the types and raises the version; no delta is newer than it.
LEMMA UpdateFacts ==
  ASSUME AwsTypeOK, VersionsOfShadow,
         NEW r \in Levels \cup {NoLevel}, NEW d \in Levels \cup {NoLevel},
         UpdateShadow(r, d)
  PROVE  /\ shadow' \in [desired : Levels, reported : Levels, version : Nat]
         /\ shadow'.version = shadow.version + 1
         /\ toDev' \subseteq [version : Nat, level : Levels]
         /\ \A e \in toDev' : e.version <= shadow'.version
<1> DEFINE new == [desired  |-> IF d = NoLevel THEN shadow.desired ELSE d,
                   reported |-> IF r = NoLevel THEN shadow.reported ELSE r,
                   version  |-> shadow.version + 1]
           delta == [version |-> new.version, level |-> new.desired]
<1>1. shadow' = new /\ (toDev' = toDev \cup {delta} \/ toDev' = toDev)
  BY DEF UpdateShadow
<1>2. new \in [desired : Levels, reported : Levels, version : Nat]
  BY RecordTypes
<1>3. delta \in [version : Nat, level : Levels] /\ delta.version = shadow.version + 1
  BY <1>2
<1>4. \A e \in toDev : e.version \in Nat /\ e.version <= shadow.version + 1
  BY RecordTypes DEF VersionsOfShadow
<1>5. toDev \subseteq [version : Nat, level : Levels]
  BY DEF AwsTypeOK
<1>6. shadow.version \in Nat
  BY RecordTypes
<1>7. shadow'.version = shadow.version + 1
  BY <1>1
<1> HIDE DEF new, delta
<1>8. toDev' \subseteq [version : Nat, level : Levels]
  BY <1>1, <1>3, <1>5
<1>9. \A e \in toDev' : e.version <= shadow'.version
  BY <1>1, <1>3, <1>4, <1>6, <1>7
<1> QED
  BY <1>1, <1>2, <1>7, <1>8, <1>9

-----------------------------------------------------------------------------
(* The cloud half: one lemma per part of the program *)

\* Opening the client keeps the invariant, although it takes no mutex.
LEMMA OpeningInv ==
  ASSUME AwsInv, NEW t \in Tasks, Opening(t) \/ ConnectSucceeds(t) \/ Start(t)
  PROVE  AwsInv'
<1> USE DEF AwsInv, AwsTypeOK, GuardMatchesHolder, BusyClientHasOwner, CallbackUnderGuard,
            TokensMeanSubscribed, DispatchMeansSubscribed, VersionsOfShadow,
            ConnectSteps, ClientStates, GoTo, SetClientState
<1>1. CASE Start(t)
  BY <1>1 DEF Start
<1>2. CASE ClearClient(t)
  BY <1>2 DEF ClearClient
<1>3. CASE InitClient(t)
  <2> USE <1>3 DEF InitClient
  <2>1. cb' \in [level : Levels, left : Nat] /\ cb'.left = 0
    OBVIOUS
  <2>2. task' \in [Tasks -> ConnectSteps] /\ \A u \in Tasks :
          /\ task'[u] = "yield" <=> task[u] = "yield"
          /\ task'[u] = "subscribing" <=> task[u] = "subscribing"
          /\ task'[u] = "connecting" <=> task[u] = "connecting"
    OBVIOUS
  <2>3. AwsTypeOK'
    BY <2>1, <2>2
  <2>4. GuardMatchesHolder' /\ BusyClientHasOwner'
    BY <2>2
  <2>5. VersionsOfShadow'
    BY RecordTypes
  <2> QED
    BY <2>1, <2>3, <2>4, <2>5
<1>4. CASE BeginConnect(t)
  BY <1>4 DEF BeginConnect
<1>5. CASE ConnectFails(t)
  BY <1>5 DEF ConnectFails
<1>6. CASE ConnectSucceeds(t)
  BY <1>6 DEF ConnectSucceeds
<1>7. CASE RegisterWithoutSubscribe(t)
  <2> USE <1>7 DEF RegisterWithoutSubscribe
  <2>1. /\ tokens' \in Nat /\ subFlag' \in BOOLEAN
        /\ tokens' > 0 => subFlag'
        /\ subFlag => subFlag'
    <3>1. CASE UNCHANGED <<tokens, subFlag>>
      BY <3>1
    <3>2. CASE tokens' = tokens + 1 /\ subFlag' = TRUE
      BY <3>2
    <3> QED
      BY <3>1, <3>2
  <2>2. task' \in [Tasks -> ConnectSteps] /\ \A u \in Tasks :
          /\ task'[u] = "yield" <=> task[u] = "yield"
          /\ task'[u] = "subscribing" <=> task[u] = "subscribing"
          /\ task'[u] = "connecting" <=> task[u] = "connecting"
    OBVIOUS
  <2>3. AwsTypeOK'
    BY <2>1, <2>2
  <2>4. GuardMatchesHolder' /\ BusyClientHasOwner'
    BY <2>2
  <2>5. CallbackUnderGuard' /\ TokensMeanSubscribed' /\ DispatchMeansSubscribed'
    BY <2>1
  <2>6. VersionsOfShadow'
    OBVIOUS
  <2> HIDE DEF AwsTypeOK, GuardMatchesHolder, BusyClientHasOwner, CallbackUnderGuard,
               TokensMeanSubscribed, DispatchMeansSubscribed, VersionsOfShadow
  <2> QED
    BY <2>3, <2>4, <2>5, <2>6 DEF AwsInv
<1>8. CASE BeginSubscribe(t)
  BY <1>8 DEF BeginSubscribe
<1>9. CASE EndSubscribe(t)
  <2> USE <1>9 DEF EndSubscribe
  <2>1. /\ tokens' \in Nat /\ subFlag' = TRUE
        /\ session' \in {"none", "open", "subscribed"} /\ handler' \in BOOLEAN
    <3>1. CASE session' = "subscribed" /\ handler' = TRUE
      BY <3>1
    <3>2. CASE UNCHANGED <<session, handler>>
      BY <3>2
    <3> QED
      BY <3>1, <3>2
  <2>2. task' \in [Tasks -> ConnectSteps] /\ \A u \in Tasks :
          /\ task'[u] = "yield" <=> task[u] = "yield"
          /\ task'[u] = "connecting" <=> task[u] = "connecting"
    OBVIOUS
  <2>3. client' \in ClientStates /\ client' # "subscribe"
        /\ (client' # "idle" => client' = client)
    OBVIOUS
  <2>4. AwsTypeOK'
    BY <2>1, <2>2, <2>3
  <2>5. GuardMatchesHolder' /\ BusyClientHasOwner'
    BY <2>2, <2>3
  <2>6. CallbackUnderGuard' /\ TokensMeanSubscribed' /\ DispatchMeansSubscribed'
    BY <2>1
  <2>7. VersionsOfShadow'
    OBVIOUS
  <2> HIDE DEF AwsTypeOK, GuardMatchesHolder, BusyClientHasOwner, CallbackUnderGuard,
               TokensMeanSubscribed, DispatchMeansSubscribed, VersionsOfShadow
  <2> QED
    BY <2>4, <2>5, <2>6, <2>7 DEF AwsInv
<1> QED
  BY <1>1, <1>2, <1>3, <1>4, <1>5, <1>6, <1>7, <1>8, <1>9 DEF Opening

\* So does the loop: the mutex is taken with the yield and given with its end,
\* and the callbacks run in between.
LEMMA LoopInv ==
  ASSUME AwsInv, NEW t \in Tasks,
         \/ BeginYield(t) \/ ReceiveDelta(t) \/ EndOfYield(t)
         \/ fan_powerlevel_change_requested(t)
  PROVE  AwsInv'
<1> USE DEF AwsInv, AwsTypeOK, GuardMatchesHolder, BusyClientHasOwner, CallbackUnderGuard,
            TokensMeanSubscribed, DispatchMeansSubscribed, VersionsOfShadow,
            ConnectSteps, ClientStates, GoTo, SetClientState
<1>1. CASE BeginYield(t)
  BY <1>1, AwsAssumption DEF BeginYield, AwsAssumption
<1>2. CASE ReceiveDelta(t)
  BY <1>2, RecordTypes DEF ReceiveDelta
<1>3. CASE fan_powerlevel_change_requested(t)
  BY <1>3, RecordTypes DEF fan_powerlevel_change_requested
<1>4. CASE EndYield(t)
  BY <1>4, AwsAssumption DEF EndYield, AwsAssumption
<1>5. CASE YieldDisconnects(t)
  BY <1>5, AwsAssumption DEF YieldDisconnects, AwsAssumption
<1> QED
  BY <1>1, <1>2, <1>3, <1>4, <1>5 DEF EndOfYield

\* So does the report of the relay task.
LEMMA PublishInv ==
  ASSUME AwsInv, (\E val \in Levels : BuildDocument(val)) \/ Publishing
  PROVE  AwsInv'
<1> USE DEF AwsInv, AwsTypeOK, GuardMatchesHolder, BusyClientHasOwner, CallbackUnderGuard,
            TokensMeanSubscribed, DispatchMeansSubscribed, VersionsOfShadow,
            ConnectSteps, ClientStates, SetClientState
<1>1. CASE \E val \in Levels : BuildDocument(val)
  BY <1>1 DEF BuildDocument
<1>2. CASE PublishRefused
  BY <1>2 DEF PublishRefused
<1>3. CASE BeginPublish
  BY <1>3, AwsAssumption DEF BeginPublish, AwsAssumption
<1>4. CASE PublishArrives
  <2> USE <1>4 DEF PublishArrives, FinishPublish
  <2>1. doc.reported \in Levels \cup {NoLevel} /\ doc.desired \in Levels \cup {NoLevel}
    BY RecordTypes
  <2>2. /\ shadow' \in [desired : Levels, reported : Levels, version : Nat]
        /\ shadow'.version = shadow.version + 1
        /\ toDev' \subseteq [version : Nat, level : Levels]
        /\ \A e \in toDev' : e.version <= shadow'.version
    BY <2>1, UpdateFacts
  <2>3. VersionsOfShadow'
    BY <2>2, RecordTypes
  <2>4. AwsTypeOK'
    BY <2>2
  <2>5. GuardMatchesHolder' /\ BusyClientHasOwner'
    BY AwsAssumption DEF AwsAssumption
  <2> QED
    BY <2>3, <2>4, <2>5
<1>5. CASE PublishLost
  BY <1>5, AwsAssumption DEF PublishLost, FinishPublish, AwsAssumption
<1> QED
  BY <1>1, <1>2, <1>3, <1>4, <1>5 DEF Publishing

\* So do the network, the other clients of the shadow, and a power cycle.
LEMMA EnvironmentInv ==
  ASSUME AwsInv,
         (\E level \in Levels : CloudRequest(level)) \/ LoseDelta \/ DropSession \/ AwsReset
  PROVE  AwsInv'
<1> USE DEF AwsInv, AwsTypeOK, GuardMatchesHolder, BusyClientHasOwner, CallbackUnderGuard,
            TokensMeanSubscribed, DispatchMeansSubscribed, VersionsOfShadow,
            ConnectSteps, ClientStates
<1>1. ASSUME NEW level \in Levels, CloudRequest(level)
      PROVE  AwsInv'
  <2> USE <1>1 DEF CloudRequest, deviceVars
  <2>1. /\ shadow' \in [desired : Levels, reported : Levels, version : Nat]
        /\ shadow'.version = shadow.version + 1
        /\ toDev' \subseteq [version : Nat, level : Levels]
        /\ \A e \in toDev' : e.version <= shadow'.version
    BY UpdateFacts
  <2>2. VersionsOfShadow'
    BY <2>1, RecordTypes
  <2>3. AwsTypeOK'
    BY <2>1
  <2> QED
    BY <2>2, <2>3
<1>2. CASE LoseDelta
  BY <1>2 DEF LoseDelta, deviceVars
<1>3. CASE DropSession
  BY <1>3 DEF DropSession, deviceVars
<1>4. CASE AwsReset
  <2> USE <1>4 DEF AwsReset
  <2>1. /\ cb' \in [level : Levels, left : Nat] /\ cb'.left = 0
        /\ doc' \in [reported : Levels, desired : Levels \cup {NoLevel}]
        /\ task' \in [Tasks -> ConnectSteps] /\ \A u \in Tasks : task'[u] = "none"
    BY LevelFacts
  <2>2. VersionsOfShadow'
    BY RecordTypes
  <2>3. AwsTypeOK'
    BY <2>1, LevelFacts
  <2>4. GuardMatchesHolder'
    BY <2>1, AwsAssumption DEF AwsAssumption
  <2> QED
    BY <2>1, <2>2, <2>3, <2>4
<1> QED
  BY <1>1, <1>2, <1>3, <1>4

\* Every step keeps the invariant.
LEMMA AwsStepInv == AwsInv /\ [AwsNext]_awsVars => AwsInv'
<1> SUFFICES ASSUME AwsInv, [AwsNext]_awsVars PROVE AwsInv'
  OBVIOUS
<1>1. CASE UNCHANGED awsVars
  BY <1>1 DEF awsVars, deviceVars, AwsInv, AwsTypeOK, GuardMatchesHolder,
     BusyClientHasOwner, CallbackUnderGuard, TokensMeanSubscribed,
     DispatchMeansSubscribed, VersionsOfShadow
<1>2. ASSUME NEW t \in Tasks, Opening(t) \/ ConnectSucceeds(t) \/ Start(t)
      PROVE  AwsInv'
  BY <1>2, OpeningInv
<1>3. ASSUME NEW t \in Tasks,
             \/ BeginYield(t) \/ ReceiveDelta(t) \/ EndOfYield(t)
             \/ fan_powerlevel_change_requested(t)
      PROVE  AwsInv'
  BY <1>3, LoopInv
<1>4. CASE (\E val \in Levels : BuildDocument(val)) \/ Publishing
  BY <1>4, PublishInv
<1>5. CASE (\E level \in Levels : CloudRequest(level)) \/ LoseDelta \/ DropSession \/ AwsReset
  BY <1>5, EnvironmentInv
<1> QED
  BY <1>1, <1>2, <1>3, <1>4, <1>5 DEF AwsNext

\* The invariant holds in every state of every behaviour.
LEMMA AwsAlwaysInv == AwsSafety => []AwsInv
  BY AwsInitInv, AwsStepInv, PTL DEF AwsSafety

-----------------------------------------------------------------------------
(* The cloud half: the results *)

\* Every variable keeps its type.
THEOREM AwsTypeCorrect == AwsSafety => []AwsTypeOK
<1>1. AwsInv => AwsTypeOK
  BY DEF AwsInv
<1> QED
  BY <1>1, AwsAlwaysInv, PTL

\* aws_guard is held exactly by the task that is inside a yield or a publish, for
\* any number of appaws_connect tasks: no path leaks it (app_aws.c:99-103, 137-142).
THEOREM GuardNeverLeaks == AwsSafety => []GuardMatchesHolder
<1>1. AwsInv => GuardMatchesHolder
  BY DEF AwsInv
<1> QED
  BY <1>1, AwsAlwaysInv, PTL

\* The client is never left busy by a call that has ended, although opening it
\* takes no mutex.
THEOREM ClientNeverStuckBusy == AwsSafety => []BusyClientHasOwner
<1>1. AwsInv => BusyClientHasOwner
  BY DEF AwsInv
<1> QED
  BY <1>1, AwsAlwaysInv, PTL

\* desired_state is written by a delta only while a task holds the mutex, and
\* only while the SDK's flag keeps every other task from subscribing.
THEOREM DispatchProtected == AwsSafety => [](CallbackUnderGuard /\ DispatchMeansSubscribed)
<1>1. AwsInv => CallbackUnderGuard /\ DispatchMeansSubscribed
  BY DEF AwsInv
<1> QED
  BY <1>1, AwsAlwaysInv, PTL

\* The device and the deltas on their way are never ahead of the shadow.
THEOREM DeviceBehindShadow == AwsSafety => []VersionsOfShadow
<1>1. AwsInv => VersionsOfShadow
  BY DEF AwsInv
<1> QED
  BY <1>1, AwsAlwaysInv, PTL

\* Only the two handlers that write the SDK's version change it, and neither
\* takes it back to a version between zero and the one kept.
LEMMA VersionStep == AwsInv /\ [AwsNext]_awsVars => version' >= version \/ version' = 0
<1> SUFFICES ASSUME AwsInv, [AwsNext]_awsVars PROVE version' >= version \/ version' = 0
  OBVIOUS
<1>1. version \in Nat
  BY DEF AwsInv, AwsTypeOK
<1>2. CASE version' = version
  BY <1>1, <1>2
<1>3. ASSUME NEW t \in Tasks, ReceiveDelta(t)
      PROVE  version' >= version
  BY <1>1, <1>3, RecordTypes DEF ReceiveDelta, AwsInv
<1>4. CASE AwsReset \/ \E t \in Tasks : InitClient(t)
  BY <1>4 DEF AwsReset, InitClient
<1>5. version' = version \/ AwsReset \/ \E t \in Tasks : InitClient(t) \/ ReceiveDelta(t)
  BY DEF AwsNext, awsVars, deviceVars, Start, Opening, ClearClient, BeginConnect,
     ConnectFails, ConnectSucceeds, RegisterWithoutSubscribe, BeginSubscribe,
     EndSubscribe, BeginYield, EndOfYield, EndYield, YieldDisconnects,
     fan_powerlevel_change_requested, BuildDocument, CloudRequest, Publishing,
     PublishRefused, BeginPublish, PublishArrives, PublishLost, FinishPublish,
     LoseDelta, DropSession
<1> QED
  BY <1>2, <1>3, <1>4, <1>5

\* Between two openings of the client, a delta older than one acted on is never
\* acted on.
THEOREM StaleDeltasFiltered == AwsSafety => VersionNeverBack
<1>1. AwsInv /\ [AwsNext]_awsVars => [version' >= version \/ version' = 0]_awsVars
  BY VersionStep
<1> QED
  BY <1>1, AwsAlwaysInv, PTL DEF AwsSafety, VersionNeverBack

=============================================================================
