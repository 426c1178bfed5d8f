--------------------------- MODULE SmartFanProofs ---------------------------
(***************************************************************************)
(* Proofs about the whole smart fan: every step of the firmware is a step  *)
(* of FanHw, of FanAws and of FanWifi or leaves that part alone, so what   *)
(* is proved of a part holds of the system; each report that arrives tells *)
(* what the motor does; motor, record and desire agree when all is quiet;  *)
(* and what the Lambda function of the skill does is within what the fan   *)
(* was specified for, so everything proved of the firmware holds with the  *)
(* skill beside it, for any number of invocations, the two sides round a   *)
(* level alike, and what Alexa answered is carried out.                    *)
(***************************************************************************)
EXTENDS FanSkill, FanPartsProofs

\* The broker has deltas on their way over a live session only.
NoSessionNoDelta == session = "none" => toDev = {}

WifiInv == WifiTypeOK /\ RetryMatchesState

\* What a step of the system needs to know of the state to be a step of each
\* part.
PartsInv == HwInv /\ AwsInv /\ NoSessionNoDelta

-----------------------------------------------------------------------------
(* Every step is a step of the parts *)

\* The callback of a delta hands a level to apphw_set_state, and fan_cb hands
\* one to appaws_publish: both are in the domain the callee was specified for.
LEMMA CallsInDomain ==
  ASSUME HwInv, AwsInv
  PROVE  cb.level \in Uint8 /\ BtnVal[idx] \in Levels
<1>1. cb.level \in Levels
  BY RecordTypes DEF AwsInv
<1>2. Levels \subseteq Uint8
  BY AwsAssumption DEF AwsAssumption, Uint8
<1>3. idx \in Idx
  BY DEF HwInv, HwTypeOK
<1> QED
  BY <1>1, <1>2, <1>3, FanAssumption DEF FanAssumption

\* Steps that only the device takes.
LEMMA DeviceStep ==
  ASSUME PartsInv, Device
  PROVE  [HwNext]_hwVars /\ [AwsNext]_awsVars /\ [WifiNext]_wifiVars
<1>1. CASE Boot \/ DebounceTick \/ RelayStep
  BY <1>1 DEF Boot, DebounceTick, RelayStep, HwNext
<1>2. CASE CallPublish
  <2>1. BuildDocument(BtnVal[idx]) /\ BtnVal[idx] \in Levels
    BY <1>2, CallsInDomain DEF CallPublish, PartsInv
  <2>2. AwsNext
    BY <2>1 DEF AwsNext
  <2> QED
    BY <1>2, <2>2 DEF CallPublish
<1>3. CASE PublishStep
  <2>1. [HwNext]_hwVars
    BY <1>3 DEF PublishStep, HwNext
  <2>2. AwsNext
    BY <1>3 DEF PublishStep, AwsNext, Publishing
  <2> QED
    BY <1>3, <2>1, <2>2 DEF PublishStep
<1>4. CASE StartWifi
  BY <1>4 DEF StartWifi, WifiNext
<1>5. ASSUME NEW t \in Tasks,
             OpenStep(t) \/ ConnectStep(t) \/ LoopStep(t) \/ ReceiveStep(t)
      PROVE  AwsNext /\ UNCHANGED <<hwVars, wifiVars>>
  BY <1>5 DEF OpenStep, ConnectStep, LoopStep, ReceiveStep, AwsNext
<1>6. ASSUME NEW t \in Tasks, DeltaCallback(t)
      PROVE  HwNext /\ AwsNext /\ UNCHANGED wifiVars
  <2>1. apphw_set_state(cb.level) /\ cb.level \in Uint8
    BY <1>6, CallsInDomain DEF DeltaCallback, PartsInv
  <2>2. HwNext
    BY <2>1 DEF HwNext
  <2> QED
    BY <1>6, <2>2 DEF DeltaCallback, AwsNext
<1> QED
  BY <1>1, <1>2, <1>3, <1>4, <1>5, <1>6 DEF Device

\* Steps of the people, the network and the cloud.
LEMMA EnvironmentStep ==
  ASSUME PartsInv, Environment
  PROVE  [HwNext]_hwVars /\ [AwsNext]_awsVars /\ [WifiNext]_wifiVars
<1>1. CASE \E i \in Idx : Press(i)
  BY <1>1 DEF Press, HwNext
<1>2. CASE \E level \in Levels : Request(level)
  BY <1>2 DEF Request, AwsNext
<1>3. CASE handle_wifi_connect
  BY <1>3 DEF handle_wifi_connect, AwsNext, WifiNext
<1>4. CASE WifiLost
  <2>1. CASE session = "none"
    BY <1>4, <2>1 DEF WifiLost, PartsInv, NoSessionNoDelta, awsVars, WifiNext
  <2>2. CASE session # "none"
    <3>1. DropSession
      BY <1>4, <2>2 DEF WifiLost, DropSession
    <3> QED
      BY <1>4, <3>1 DEF WifiLost, AwsNext, WifiNext
  <2> QED
    BY <2>1, <2>2
<1>5. CASE DeltaLost \/ Drop
  BY <1>5 DEF DeltaLost, Drop, AwsNext
<1>6. CASE Restart
  BY <1>6 DEF Restart, HwNext, AwsNext, WifiNext
<1> QED
  BY <1>1, <1>2, <1>3, <1>4, <1>5, <1>6 DEF Environment

\* A step, or no step.
LEMMA PartsStep ==
  ASSUME PartsInv, [Next]_vars
  PROVE  [HwNext]_hwVars /\ [AwsNext]_awsVars /\ [WifiNext]_wifiVars
<1>1. CASE UNCHANGED vars
  BY <1>1 DEF vars
<1> QED
  BY <1>1, DeviceStep, EnvironmentStep DEF Next

\* Deltas are sent to a subscribed session and disappear with it.
LEMMA SessionInv ==
  NoSessionNoDelta /\ [AwsNext]_awsVars => NoSessionNoDelta'
<1> SUFFICES ASSUME NoSessionNoDelta, [AwsNext]_awsVars PROVE NoSessionNoDelta'
  OBVIOUS
<1> USE DEF NoSessionNoDelta
<1>1. CASE UNCHANGED awsVars
  BY <1>1 DEF awsVars
<1>2. ASSUME NEW t \in Tasks, Start(t) \/ Opening(t) \/ ConnectSucceeds(t)
      PROVE  NoSessionNoDelta'
  BY <1>2 DEF Start, Opening, ConnectSucceeds, ClearClient, InitClient, BeginConnect,
     ConnectFails, RegisterWithoutSubscribe, BeginSubscribe, EndSubscribe
<1>3. ASSUME NEW t \in Tasks,
             \/ BeginYield(t) \/ ReceiveDelta(t) \/ EndOfYield(t)
             \/ fan_powerlevel_change_requested(t)
      PROVE  NoSessionNoDelta'
  BY <1>3 DEF BeginYield, ReceiveDelta, EndOfYield, EndYield, YieldDisconnects,
     fan_powerlevel_change_requested
<1>4. ASSUME NEW val \in Levels, BuildDocument(val) \/ CloudRequest(val)
      PROVE  NoSessionNoDelta'
  BY <1>4 DEF BuildDocument, CloudRequest, UpdateShadow, deviceVars
<1>5. CASE Publishing
  BY <1>5 DEF Publishing, PublishRefused, BeginPublish, PublishArrives, PublishLost,
     FinishPublish, UpdateShadow
<1>6. CASE LoseDelta \/ DropSession \/ AwsReset
  BY <1>6 DEF LoseDelta, DropSession, AwsReset
<1> QED
  BY <1>1, <1>2, <1>3, <1>4, <1>5, <1>6 DEF AwsNext

\* The invariants of the parts hold together.
LEMMA AlwaysParts == Safety => []PartsInv
<1>1. Init => PartsInv
  BY InitInv, AwsInitInv DEF Init, PartsInv, NoSessionNoDelta, AwsInit
<1>2. PartsInv /\ [Next]_vars => PartsInv'
  BY PartsStep, StepInv, AwsStepInv, SessionInv DEF PartsInv
<1> QED
  BY <1>1, <1>2, PTL DEF Safety

-----------------------------------------------------------------------------
(* The parts within the whole *)

\* main.c composes the three libraries without breaking what each was specified
\* to do: neither calls the other outside its domain or between its steps.
THEOREM SystemImplementsParts == Safety => ImplementsHw /\ ImplementsAws /\ ImplementsWifi
<1>1. Init => HwInit /\ AwsInit /\ WifiInit
  BY DEF Init
<1>2. PartsInv /\ [Next]_vars => [HwNext]_hwVars /\ [AwsNext]_awsVars /\ [WifiNext]_wifiVars
  BY PartsStep
<1> QED
  BY <1>1, <1>2, AlwaysParts, PTL
     DEF Safety, ImplementsHw, ImplementsAws, ImplementsWifi, HwSafety, AwsSafety, WifiSafety

\* In the whole firmware, with requests of the cloud between the presses, the
\* relay board is an interlock and the speed on record is the one that runs.
THEOREM SystemInterlock ==
  Safety => []EnergisedIsActive /\ BreakBeforeMake /\ Interlock!Safety
  BY SystemImplementsParts, ReportedSpeedRuns, BreaksBeforeMaking, HwImplementsInterlock, PTL
     DEF ImplementsHw

\* In the whole firmware no path leaks aws_guard, leaves the client busy, or
\* dispatches a delta outside the mutex.
THEOREM SystemGuard ==
  Safety => [](GuardMatchesHolder /\ BusyClientHasOwner /\ CallbackUnderGuard
               /\ DispatchMeansSubscribed /\ VersionsOfShadow)
<1>1. PartsInv => /\ GuardMatchesHolder /\ BusyClientHasOwner /\ CallbackUnderGuard
                  /\ DispatchMeansSubscribed /\ VersionsOfShadow
  BY DEF PartsInv, AwsInv
<1> QED
  BY <1>1, AlwaysParts, PTL

\* In the whole firmware stale deltas are filtered.
THEOREM SystemVersions == Safety => VersionNeverBack
  BY SystemImplementsParts, StaleDeltasFiltered, PTL DEF ImplementsAws

-----------------------------------------------------------------------------
(* The counter of the Wi-Fi handler *)

\* The counter runs past its limit by one at most, when the handler gives up.
LEMMA WifiStep == WifiInv /\ [WifiNext]_wifiVars => WifiInv'
  BY WifiAssumption DEF WifiAssumption, WifiInv, WifiTypeOK, RetryMatchesState, WifiNext,
     wifiVars, appwifi_connect, GotIp, StaDisconnected, WifiReset

\* The whole firmware keeps the Wi-Fi counter in step with the station.
LEMMA WifiAlways == Safety => []WifiInv
<1>1. WifiInit => WifiInv
  BY WifiAssumption
     DEF WifiAssumption, WifiInit, WifiInv, WifiTypeOK, RetryMatchesState
<1> QED
  BY <1>1, WifiStep, SystemImplementsParts, PTL DEF ImplementsWifi, WifiSafety

-----------------------------------------------------------------------------
(* Types *)

\* The auxiliary variables stay within their bounds.
CountInv ==
  /\ count \in [DOMAIN Bounds -> Nat]
  /\ \A e \in DOMAIN Bounds : count[e] <= Bounds[e]
  /\ lastBtn \in Idx
  /\ lost \in BOOLEAN

\* Counting an event keeps the counters within their bounds.
LEMMA CountKeeps ==
  ASSUME CountInv, NEW e \in DOMAIN Bounds, Count(e)
  PROVE  /\ count' \in [DOMAIN Bounds -> Nat]
         /\ \A f \in DOMAIN Bounds : count'[f] <= Bounds[f]
<1>1. \A f \in DOMAIN Bounds : Bounds[f] \in Nat
  BY FanAssumption DEF FanAssumption, Bounds
<1>2. count' = [count EXCEPT ![e] = @ + 1] /\ count[e] < Bounds[e]
  BY DEF Count
<1> QED
  BY <1>1, <1>2 DEF CountInv

\* Every step keeps the auxiliary variables in their domains.
LEMMA CountStep == CountInv /\ [Next]_vars => CountInv'
<1> SUFFICES ASSUME CountInv, [Next]_vars PROVE CountInv'
  OBVIOUS
<1>1. 0 \in Idx
  BY IdxFacts
<1>2. /\ UNCHANGED count \/ \E e \in DOMAIN Bounds : Count(e)
      /\ lastBtn' \in Idx
      /\ lost' \in BOOLEAN
  <2>1. CASE UNCHANGED auxVars
    BY <2>1 DEF auxVars, CountInv
  <2>2. CASE \E i \in Idx : Press(i)
    BY <2>2 DEF Press, CountInv, Bounds
  <2>3. CASE Restart
    BY <1>1, <2>3 DEF Restart, Bounds
  <2>4. CASE Drop \/ \E level \in Levels : Request(level)
    BY <2>4 DEF Drop, Request, CountInv, Bounds
  <2>5. CASE PublishStep \/ WifiLost \/ DeltaLost
    BY <2>5 DEF PublishStep, WifiLost, DeltaLost, CountInv
  <2>6. CASE \E t \in Tasks : OpenStep(t) \/ ConnectStep(t) \/ DeltaCallback(t)
    BY <2>6 DEF OpenStep, ConnectStep, DeltaCallback, CountInv
  <2>7. CASE \/ UNCHANGED vars \/ Boot \/ DebounceTick \/ RelayStep \/ CallPublish
             \/ StartWifi \/ handle_wifi_connect
             \/ \E t \in Tasks : LoopStep(t) \/ ReceiveStep(t)
    BY <2>1, <2>7 DEF vars, Boot, DebounceTick, RelayStep, CallPublish, StartWifi,
       handle_wifi_connect, LoopStep, ReceiveStep
  <2> QED
    BY <2>2, <2>3, <2>4, <2>5, <2>6, <2>7 DEF Next, Device, Environment
<1> QED
  BY <1>2, CountKeeps DEF CountInv

\* Every variable of the system keeps its type.
THEOREM SystemTypeCorrect == Safety => []TypeOK
<1>1. Init => CountInv
  <2>1. \A e \in DOMAIN Bounds : Bounds[e] \in Nat
    BY FanAssumption DEF FanAssumption, Bounds
  <2> SUFFICES ASSUME Init PROVE CountInv
    OBVIOUS
  <2>2. count = [e \in DOMAIN Bounds |-> 0] /\ lastBtn \in Idx
    BY IdxFacts DEF Init
  <2>3. count \in [DOMAIN Bounds -> Nat] /\ \A e \in DOMAIN Bounds : count[e] <= Bounds[e]
    BY <2>1, <2>2
  <2>4. lost \in BOOLEAN
    BY DEF Init
  <2> QED
    BY <2>2, <2>3, <2>4 DEF CountInv
<1>2. PartsInv /\ WifiInv /\ CountInv => TypeOK
  BY DEF PartsInv, HwInv, AwsInv, WifiInv, CountInv, TypeOK
<1> QED
  BY <1>1, <1>2, CountStep, AlwaysParts, WifiAlways, PTL DEF Safety

-----------------------------------------------------------------------------
(* Agreement: what the queue holds *)

\* Every level that is desired or reported is the level of a button.  The skill
\* asks for no other (update_power, lambda_function.py:113-123) and fan_cb
\* reports no other; a client that desires a level between two buttons, when the
\* fan runs at the upper one, is never answered.
LevelsOfButtons == \A level \in Levels : \E i \in Idx : BtnVal[i] = level

\* Some index in the queue, every index in the queue, is that of a level.
Queued(level)     == \E k \in 1 .. Len(idx_queue) : BtnVal[idx_queue[k]] = level
OnlyQueued(level) == \A k \in 1 .. Len(idx_queue) : BtnVal[idx_queue[k]] = level

\* The queue that does not exist yet is empty.
NoQueueYet == ~QueueExists => idx_queue = <<>>

\* The index that is sent comes last, or is dropped if the queue is full.
LEMMA SendAddsLast ==
  ASSUME HwInv, NEW i \in Idx, Send(i)
  PROVE  \/ Len(idx_queue) = QLEN /\ idx_queue' = idx_queue
         \/ /\ Len(idx_queue') = Len(idx_queue) + 1
            /\ idx_queue'[Len(idx_queue) + 1] = i
            /\ \A k \in 1 .. Len(idx_queue) : idx_queue'[k] = idx_queue[k]
<1>1. idx_queue \in Seq(Idx) /\ Len(idx_queue) <= QLEN /\ Len(idx_queue) \in Nat
  BY LenProperties DEF HwInv, HwTypeOK
<1>2. CASE Len(idx_queue) < QLEN
  <2>1. idx_queue' = Append(idx_queue, i)
    BY <1>2 DEF Send
  <2> QED
    BY <1>1, <2>1, AppendProperties
<1>3. CASE ~(Len(idx_queue) < QLEN)
  <2>1. Len(idx_queue) = QLEN
    BY <1>1, <1>3, HwAssumption DEF HwAssumption
  <2> QED
    BY <1>3, <2>1 DEF Send
<1> QED
  BY <1>2, <1>3

\* What is sent is queued unless it is dropped, and drives out nothing.
LEMMA SendQueues ==
  ASSUME HwInv, NEW i \in Idx, Send(i), NEW level
  PROVE  /\ Queued(level) => Queued(level)'
         /\ Len(idx_queue) # QLEN /\ BtnVal[i] = level => Queued(level)'
         /\ OnlyQueued(level) /\ BtnVal[i] = level => OnlyQueued(level)'
<1>1. Len(idx_queue) \in Nat
  BY LenProperties DEF HwInv, HwTypeOK
<1>2. CASE Len(idx_queue) = QLEN /\ idx_queue' = idx_queue
  BY <1>2 DEF Queued, OnlyQueued
<1>3. CASE /\ Len(idx_queue') = Len(idx_queue) + 1
           /\ idx_queue'[Len(idx_queue) + 1] = i
           /\ \A k \in 1 .. Len(idx_queue) : idx_queue'[k] = idx_queue[k]
  <2>1. Queued(level) => Queued(level)'
    BY <1>1, <1>3 DEF Queued
  <2>2. BtnVal[i] = level => Queued(level)'
    BY <1>1, <1>3 DEF Queued
  <2>3. OnlyQueued(level) /\ BtnVal[i] = level => OnlyQueued(level)'
    BY <1>1, <1>3 DEF OnlyQueued
  <2> QED
    BY <2>1, <2>2, <2>3
<1> QED
  BY <1>2, <1>3, SendAddsLast

\* What is queued is the index taken or stays in the queue.
LEMMA TakeLeavesRest ==
  ASSUME HwInv, TakeIndex, NEW level
  PROVE  /\ Queued(level) => BtnVal[idx'] = level \/ Queued(level)'
         /\ OnlyQueued(level) => BtnVal[idx'] = level /\ OnlyQueued(level)'
<1>1. /\ idx_queue \in Seq(Idx) /\ idx_queue # <<>>
      /\ idx' = Head(idx_queue) /\ idx_queue' = Tail(idx_queue)
  BY DEF TakeIndex, HwInv, HwTypeOK
<1>2. /\ Len(idx_queue) \in Nat \ {0}
      /\ Len(idx_queue') = Len(idx_queue) - 1
      /\ \A k \in 1 .. Len(idx_queue') : idx_queue'[k] = idx_queue[k + 1]
  BY <1>1, HeadTailProperties, EmptySeq
<1>3. idx' = idx_queue[1]
  BY <1>1
<1>4. ASSUME NEW k \in 1 .. Len(idx_queue)
      PROVE  \/ k = 1
             \/ k - 1 \in 1 .. Len(idx_queue') /\ idx_queue'[k - 1] = idx_queue[k]
  BY <1>2
<1>5. ASSUME NEW k \in 1 .. Len(idx_queue')
      PROVE  k + 1 \in 1 .. Len(idx_queue) /\ idx_queue'[k] = idx_queue[k + 1]
  BY <1>2
<1>6. Queued(level) => BtnVal[idx'] = level \/ Queued(level)'
  BY <1>3, <1>4 DEF Queued
<1>7. OnlyQueued(level) => OnlyQueued(level)'
  BY <1>5 DEF OnlyQueued
<1>8. OnlyQueued(level) => BtnVal[idx'] = level
  BY <1>2, <1>3 DEF OnlyQueued
<1> QED
  BY <1>6, <1>7, <1>8

\* Only the boot creates the queue, and nobody sends before.
LEMMA NoQueueStep == NoQueueYet /\ [HwNext]_hwVars => NoQueueYet'
<1> SUFFICES ASSUME NoQueueYet, [HwNext]_hwVars PROVE NoQueueYet'
  OBVIOUS
<1> USE DEF NoQueueYet, QueueExists
<1>1. CASE UNCHANGED hwVars
  BY <1>1 DEF hwVars
<1>2. CASE BootStep
  BY <1>2 DEF BootStep, ConfigurePins, OutputsOff, CreateQueue, CreateTask
<1>3. CASE (\E i \in Idx : button_handler(i)) \/ \E val \in Uint8 : apphw_set_state(val)
  BY <1>3 DEF button_handler, apphw_set_state
<1>4. CASE DebounceOver \/ TickWrap \/ CallReturns
  BY <1>4 DEF DebounceOver, TickWrap, CallReturns
<1>5. CASE RelayTask
  BY <1>5 DEF RelayTask, EnableOutputs, SkipActive, SwitchOff, BreakRelays, MakeRelay,
     TakeIndex
<1>6. CASE IsrWithoutQueue \/ PowerCycle
  BY <1>6 DEF IsrWithoutQueue, PowerCycle, HwReset
<1> QED
  BY <1>1, <1>2, <1>3, <1>4, <1>5, <1>6 DEF HwNext

\* A level of a button reaches that button: the smallest button whose level is
\* at least that of button i is i, and OFF has the level zero.
LEMMA LevelReachesButton ==
  ASSUME HwInv, NEW i \in Idx, apphw_set_state(BtnVal[i])
  PROVE  Send(i)
<1>1. /\ BtnVal[0] = 0
      /\ \A j \in Idx : BtnVal[j] \in Int
      /\ \A j, k \in Idx : j < k => BtnVal[j] < BtnVal[k]
      /\ BTN_CNT \in Nat
  BY HwAssumption DEF HwAssumption, Uint8
<1>2. CASE i = 0
  BY <1>1, <1>2 DEF apphw_set_state
<1>3. CASE i # 0
  <2>1. i \in Relays /\ 0 < i /\ 0 \in Idx
    BY <1>1, <1>3, IdxFacts DEF Idx, Relays
  <2>2. BtnVal[i] # 0
    BY <1>1, <2>1
  <2>3. \A j \in Relays : j \in Idx /\ j \in Int
    BY <1>1 DEF Relays, Idx
  <2>4. i \in FirstAtLeast(BtnVal[i])
    BY <1>1, <2>1, <2>3 DEF FirstAtLeast
  <2>5. ASSUME NEW j \in FirstAtLeast(BtnVal[i])
        PROVE  j = i
    <3>1. j \in Relays /\ BtnVal[i] <= BtnVal[j] /\ (i < j => BtnVal[i] < BtnVal[i])
      BY <2>1, <2>5 DEF FirstAtLeast
    <3>2. ~(i < j)
      BY <1>1, <3>1
    <3>3. ~(j < i)
      BY <1>1, <2>3, <3>1
    <3> QED
      BY <2>1, <2>3, <3>1, <3>2, <3>3
  <2> QED
    BY <2>2, <2>4, <2>5 DEF apphw_set_state
<1> QED
  BY <1>2, <1>3

\* So the callback of a delta sends the index of the level it dispatches.
LEMMA CallbackSends ==
  ASSUME PartsInv, LevelsOfButtons, NEW t \in Tasks, DeltaCallback(t)
  PROVE  \E i \in Idx : BtnVal[i] = cb.level /\ Send(i)
<1>1. cb.level \in Levels
  BY RecordTypes DEF PartsInv, AwsInv
<1>2. PICK i \in Idx : BtnVal[i] = cb.level
  BY <1>1 DEF LevelsOfButtons
<1>3. apphw_set_state(BtnVal[i])
  BY <1>2 DEF DeltaCallback
<1> QED
  BY <1>2, <1>3, LevelReachesButton DEF PartsInv

-----------------------------------------------------------------------------
(* Agreement: the inductive invariant *)

\* What the fan runs at is on record in the shadow but while it is reported,
\* and what is being reported is what the fan runs at.
Recorded  == ~lost /\ rpc # "call" => shadow.reported = apphw_get_state
Reporting == pub # "none" => rpc = "call" /\ doc.reported = apphw_get_state

\* A client that hears deltas has a callback for them.
Heard == handler => tokens > 0

\* Deltas under way differ in their versions, and from the last version seen.
Distinct ==
  /\ \A d \in toDev : d.version > 0 /\ d.version # version
  /\ \A d, e \in toDev : d.version = e.version => d = e

\* A level is on its way towards the device, or inside it.  A report about to be
\* sent is enough: it makes the service answer.
InAir(level) ==
  \/ [version |-> shadow.version, level |-> level] \in toDev
  \/ cb.left > 0 /\ cb.level = level
InFan(level) ==
  \/ Queued(level)
  \/ rpc = "delay" /\ BtnVal[idx] = level
  \/ rpc = "call"

\* A level that is desired and not reported is on its way unless it was lost.
Owed ==
  ~lost /\ shadow.desired # shadow.reported =>
    InAir(shadow.desired) \/ InFan(shadow.desired)

\* The parts of the invariant that hold whatever levels are desired.
AgreeInv == Recorded /\ Reporting /\ Heard /\ Distinct /\ NoQueueYet

\* The callbacks of the client and its subscription appear and disappear together.
LEMMA HeardStep == AwsTypeOK /\ Heard /\ [AwsNext]_awsVars => Heard'
<1> SUFFICES ASSUME AwsTypeOK, Heard, [AwsNext]_awsVars PROVE Heard'
  OBVIOUS
<1>0. tokens \in Nat
  BY DEF AwsTypeOK
<1> USE DEF Heard
<1>1. CASE UNCHANGED awsVars
  BY <1>1 DEF awsVars, deviceVars
<1>2. ASSUME NEW t \in Tasks, Start(t) \/ Opening(t) \/ ConnectSucceeds(t)
      PROVE  Heard'
  <2>1. CASE Start(t) \/ ClearClient(t) \/ InitClient(t) \/ ConnectSucceeds(t)
    BY <2>1 DEF Start, ClearClient, InitClient, ConnectSucceeds
  <2>2. CASE BeginConnect(t) \/ ConnectFails(t) \/ BeginSubscribe(t)
    BY <2>2 DEF BeginConnect, ConnectFails, BeginSubscribe
  <2>3. CASE RegisterWithoutSubscribe(t)
    BY <1>0, <2>3 DEF RegisterWithoutSubscribe
  <2>4. CASE EndSubscribe(t)
    BY <1>0, <2>4 DEF EndSubscribe
  <2> QED
    BY <1>2, <2>1, <2>2, <2>3, <2>4 DEF Opening
<1>3. ASSUME NEW t \in Tasks,
             \/ BeginYield(t) \/ ReceiveDelta(t) \/ EndOfYield(t)
             \/ fan_powerlevel_change_requested(t)
      PROVE  Heard'
  BY <1>3 DEF BeginYield, ReceiveDelta, EndOfYield, EndYield, YieldDisconnects,
     fan_powerlevel_change_requested
<1>4. ASSUME NEW val \in Levels, BuildDocument(val) \/ CloudRequest(val)
      PROVE  Heard'
  BY <1>4 DEF BuildDocument, CloudRequest, deviceVars
<1>5. CASE Publishing
  BY <1>5 DEF Publishing, PublishRefused, BeginPublish, PublishArrives, PublishLost,
     FinishPublish
<1>6. CASE LoseDelta \/ DropSession \/ AwsReset
  BY <1>6 DEF LoseDelta, DropSession, AwsReset, deviceVars
<1> QED
  BY <1>1, <1>2, <1>3, <1>4, <1>5, <1>6 DEF AwsNext

\* An update of the shadow adds at most one delta, of a new version.
LEMMA UpdateAddsNewest ==
  ASSUME AwsTypeOK, NEW r, NEW d, UpdateShadow(r, d)
  PROVE  /\ shadow'.version = shadow.version + 1
         /\ shadow'.reported = IF r = NoLevel THEN shadow.reported ELSE r
         /\ shadow'.desired = IF d = NoLevel THEN shadow.desired ELSE d
         /\ toDev' = IF shadow'.desired # shadow'.reported /\ session = "subscribed"
                     THEN toDev \cup {[version |-> shadow'.version, level |-> shadow'.desired]}
                     ELSE toDev
  BY DEF UpdateShadow

\* So deltas stay distinct.
LEMMA DistinctUpdate ==
  ASSUME AwsInv, Distinct, NEW r, NEW d, UpdateShadow(r, d), UNCHANGED version
  PROVE  Distinct'
<1> DEFINE delta == [version |-> shadow'.version, level |-> shadow'.desired]
<1>1. toDev' = toDev \cup {delta} \/ toDev' = toDev
  BY UpdateAddsNewest DEF AwsInv
<1>2. shadow'.version = shadow.version + 1
  BY UpdateAddsNewest DEF AwsInv
<1>3. delta.version = shadow'.version
  OBVIOUS
<1>4. \A e \in toDev : e.version \in Nat /\ e.version <= shadow.version
  BY RecordTypes DEF AwsInv, VersionsOfShadow
<1>5. version \in Nat /\ version <= shadow.version /\ shadow.version \in Nat
  BY RecordTypes DEF AwsInv, AwsTypeOK, VersionsOfShadow
<1> HIDE DEF delta
<1> QED
  BY <1>1, <1>2, <1>3, <1>4, <1>5 DEF Distinct

\* The client never sees a version twice.
LEMMA DistinctStep == AwsInv /\ Distinct /\ [AwsNext]_awsVars => Distinct'
<1> SUFFICES ASSUME AwsInv, Distinct, [AwsNext]_awsVars PROVE Distinct'
  OBVIOUS
<1>1. CASE toDev' \subseteq toDev /\ UNCHANGED version
  BY <1>1 DEF Distinct
<1>2. CASE toDev' \subseteq toDev /\ version' = 0
  BY <1>2 DEF Distinct
<1>3. CASE UNCHANGED awsVars
  BY <1>1, <1>3 DEF awsVars, deviceVars
<1>4. ASSUME NEW t \in Tasks, Start(t) \/ Opening(t) \/ ConnectSucceeds(t)
      PROVE  Distinct'
  <2>1. toDev' \subseteq toDev /\ (UNCHANGED version \/ version' = 0)
    BY <1>4 DEF Start, Opening, ConnectSucceeds, ClearClient, InitClient, BeginConnect,
       ConnectFails, RegisterWithoutSubscribe, BeginSubscribe, EndSubscribe
  <2> QED
    BY <1>1, <1>2, <2>1
<1>5. ASSUME NEW t \in Tasks,
             BeginYield(t) \/ EndOfYield(t) \/ fan_powerlevel_change_requested(t)
      PROVE  Distinct'
  BY <1>1, <1>5 DEF BeginYield, EndOfYield, EndYield, YieldDisconnects,
     fan_powerlevel_change_requested
<1>6. ASSUME NEW t \in Tasks, ReceiveDelta(t)
      PROVE  Distinct'
  <2>1. PICK d \in toDev : /\ toDev' = toDev \ {d}
                           /\ version' = d.version \/ version' = version
    BY <1>6 DEF ReceiveDelta
  <2> QED
    BY <2>1 DEF Distinct
<1>7. ASSUME NEW val \in Levels, BuildDocument(val) \/ CloudRequest(val)
      PROVE  Distinct'
  <2>1. CASE BuildDocument(val)
    BY <1>1, <2>1 DEF BuildDocument
  <2>2. CASE CloudRequest(val)
    BY <2>2, DistinctUpdate DEF CloudRequest, deviceVars
  <2> QED
    BY <1>7, <2>1, <2>2
<1>8. CASE PublishRefused \/ BeginPublish \/ PublishLost
  BY <1>1, <1>8 DEF PublishRefused, BeginPublish, PublishLost, FinishPublish
<1>9. CASE PublishArrives
  BY <1>9, DistinctUpdate DEF PublishArrives, FinishPublish
<1>10. CASE LoseDelta \/ DropSession \/ AwsReset
  <2>1. toDev' \subseteq toDev /\ (UNCHANGED version \/ version' = 0)
    BY <1>10 DEF LoseDelta, DropSession, AwsReset, deviceVars
  <2> QED
    BY <1>1, <1>2, <2>1
<1> QED
  BY <1>3, <1>4, <1>5, <1>6, <1>7, <1>8, <1>9, <1>10 DEF AwsNext, Publishing

\* The steps that touch neither the task's place, nor the speed on record, nor
\* the report: all but those of the relay task and its call, the boot and a
\* restart.
LEMMA WhoReports ==
  ASSUME [Next]_vars
  PROVE  \/ Boot \/ RelayStep \/ CallPublish \/ PublishStep \/ Restart
         \/ /\ UNCHANGED <<rpc, idx, active_btn_idx, pub, doc>>
            /\ shadow'.reported = shadow.reported
            /\ lost => lost'
<1>1. CASE UNCHANGED vars
  BY <1>1 DEF vars, hwVars, awsVars, deviceVars, auxVars
<1>2. CASE DebounceTick \/ StartWifi \/ WifiLost \/ handle_wifi_connect
  BY <1>2 DEF DebounceTick, DebounceOver, TickWrap, StartWifi, WifiLost,
     handle_wifi_connect, Start, hwVars, awsVars, deviceVars, auxVars
<1>3. ASSUME NEW t \in Tasks, OpenStep(t) \/ ConnectStep(t)
      PROVE  /\ UNCHANGED <<rpc, idx, active_btn_idx, pub, doc>>
             /\ shadow'.reported = shadow.reported
             /\ lost => lost'
  BY <1>3 DEF OpenStep, ConnectStep, Opening, ConnectSucceeds, ClearClient, InitClient,
     BeginConnect, ConnectFails, RegisterWithoutSubscribe, BeginSubscribe, EndSubscribe, hwVars
<1>4. ASSUME NEW t \in Tasks, LoopStep(t) \/ ReceiveStep(t)
      PROVE  /\ UNCHANGED <<rpc, idx, active_btn_idx, pub, doc>>
             /\ shadow'.reported = shadow.reported
             /\ lost => lost'
  BY <1>4 DEF LoopStep, ReceiveStep, BeginYield, ReceiveDelta, EndOfYield, EndYield,
     YieldDisconnects, hwVars, auxVars
<1>5. ASSUME NEW t \in Tasks, DeltaCallback(t)
      PROVE  /\ UNCHANGED <<rpc, idx, active_btn_idx, pub, doc>>
             /\ shadow'.reported = shadow.reported
             /\ lost => lost'
  BY <1>5 DEF DeltaCallback, fan_powerlevel_change_requested, apphw_set_state
<1>6. ASSUME NEW level \in Levels, Request(level)
      PROVE  /\ UNCHANGED <<rpc, idx, active_btn_idx, pub, doc>>
             /\ shadow'.reported = shadow.reported
             /\ lost => lost'
  BY <1>6 DEF Request, CloudRequest, UpdateShadow, hwVars, deviceVars
<1>7. CASE DeltaLost \/ Drop \/ \E i \in Idx : Press(i)
  BY <1>7 DEF DeltaLost, Drop, Press, LoseDelta, DropSession, button_handler, hwVars,
     awsVars, deviceVars
<1> QED
  BY <1>1, <1>2, <1>3, <1>4, <1>5, <1>6, <1>7 DEF Next, Device, Environment

\* A report in progress is that of the speed that runs.
LEMMA ReportingStep ==
  ASSUME PartsInv, Reporting, [Next]_vars
  PROVE  Reporting'
<1> USE DEF Reporting, apphw_get_state
<1>1. CASE Boot \/ RelayStep
  <2>1. UNCHANGED <<pub, doc>>
    BY <1>1 DEF Boot, RelayStep, awsVars, deviceVars
  <2>2. rpc # "call"
    BY <1>1 DEF Boot, BootStep, ConfigurePins, OutputsOff, CreateQueue, CreateTask, RelayStep,
       RelayTask, EnableOutputs, SkipActive, SwitchOff, BreakRelays, MakeRelay, TakeIndex,
       PartsInv, HwInv
  <2> QED
    BY <2>1, <2>2
<1>2. CASE CallPublish
  BY <1>2 DEF CallPublish, BuildDocument, hwVars, PartsInv, HwInv
<1>3. CASE PublishStep
  BY <1>3 DEF PublishStep, PublishRefused, BeginPublish, PublishArrives, PublishLost,
     FinishPublish, hwVars
<1>4. CASE Restart
  BY <1>4 DEF Restart, AwsReset
<1> QED
  BY <1>1, <1>2, <1>3, <1>4, WhoReports

\* A report arrives while the relay task waits in its call.
LEMMA ReportArrives ==
  ASSUME PartsInv, Reporting, PublishStep, PublishArrives
  PROVE  /\ shadow'.reported = apphw_get_state
         /\ rpc = "call" /\ rpc' = "recv" /\ UNCHANGED active_btn_idx
<1>1. pub = "sending" /\ UpdateShadow(doc.reported, doc.desired)
  BY DEF PublishArrives, FinishPublish
<1>2. rpc = "call" /\ doc.reported = apphw_get_state
  BY <1>1 DEF Reporting
<1>3. doc.reported # NoLevel
  BY RecordTypes, LevelFacts DEF PartsInv, AwsInv
<1>4. shadow'.reported = doc.reported
  BY <1>1, <1>3, UpdateAddsNewest DEF PartsInv, AwsInv
<1>5. CallReturns
  BY <1>1 DEF PublishStep, PublishArrives, FinishPublish, PublishRefused, BeginPublish, PublishLost
<1> QED
  BY <1>2, <1>4, <1>5 DEF CallReturns

\* The report that arrives puts the speed that runs on record.
LEMMA RecordedStep ==
  ASSUME PartsInv, Reporting, Recorded, [Next]_vars
  PROVE  Recorded'
<1> USE DEF Recorded, apphw_get_state
<1>1. CASE Boot
  BY <1>1 DEF Boot, BootStep, ConfigurePins, OutputsOff, CreateQueue, CreateTask, awsVars,
     auxVars, PartsInv, HwInv
<1>2. CASE RelayStep
  <2>1. UNCHANGED <<shadow, lost>>
    BY <1>2 DEF RelayStep, awsVars, auxVars
  <2>2. \/ rpc' = "call"
        \/ rpc # "call" /\ UNCHANGED active_btn_idx
    BY <1>2 DEF RelayStep, RelayTask, EnableOutputs, SkipActive, SwitchOff, BreakRelays,
       MakeRelay, TakeIndex
  <2> QED
    BY <2>1, <2>2
<1>3. CASE CallPublish
  BY <1>3 DEF CallPublish, BuildDocument, hwVars, auxVars
<1>4. CASE PublishStep
  <2>1. CASE PublishArrives
    <3>1. shadow'.reported = apphw_get_state /\ UNCHANGED active_btn_idx
      BY <1>4, <2>1, ReportArrives
    <3> QED
      BY <3>1 DEF apphw_get_state
  <2>2. CASE BeginPublish /\ UNCHANGED hwVars /\ UNCHANGED lost
    BY <2>2 DEF BeginPublish, hwVars
  <2>3. CASE lost'
    BY <2>3
  <2> QED
    BY <1>4, <2>1, <2>2, <2>3 DEF PublishStep
<1>5. CASE Restart
  BY <1>5 DEF Restart
<1> QED
  BY <1>1, <1>2, <1>3, <1>4, <1>5, WhoReports

\* All of it together.
LEMMA AlwaysAgreeInv == Safety => []AgreeInv
<1>1. Init => AgreeInv
  BY HwAssumption DEF HwAssumption, Init, HwInit, AwsInit, DeviceInit, AgreeInv, Recorded,
     Reporting, Heard, Distinct, NoQueueYet, apphw_get_state
<1>2. PartsInv /\ AgreeInv /\ [Next]_vars => AgreeInv'
  <2> SUFFICES ASSUME PartsInv, AgreeInv, [Next]_vars PROVE AgreeInv'
    OBVIOUS
  <2>1. [HwNext]_hwVars /\ [AwsNext]_awsVars
    BY PartsStep
  <2>2. Heard' /\ Distinct' /\ NoQueueYet'
    BY <2>1, HeardStep, DistinctStep, NoQueueStep DEF AgreeInv, PartsInv, AwsInv
  <2> QED
    BY <2>2, ReportingStep, RecordedStep DEF AgreeInv
<1> QED
  BY <1>1, <1>2, AlwaysParts, PTL DEF Safety

\* The winding under current and the level on record, with the winding named as
\* the property names it.
LEMMA ReportShowsMotor ==
  ASSUME PartsInv, Reporting, PartsInv', PublishStep, PublishArrives
  PROVE  /\ shadow'.reported = apphw_get_state'
         /\ Energised' = {active_btn_idx'} \cap Relays
<1>1. /\ shadow'.reported = apphw_get_state
      /\ rpc' = "recv" /\ UNCHANGED active_btn_idx
  BY ReportArrives
<1>2. Energised' = Closed(active_btn_idx')
  BY <1>1, WindingsNext DEF PartsInv
<1>3. active_btn_idx' \in Idx
  BY DEF PartsInv, HwInv, HwTypeOK
<1>4. \A i \in Idx : Closed(i) = {i} \cap Relays
  BY DEF Closed, Idx, Relays
<1>5. apphw_get_state' = apphw_get_state
  BY <1>1 DEF apphw_get_state
<1> QED
  BY <1>1, <1>2, <1>3, <1>4, <1>5

\* Whatever was lost, restarted or started beside it before: a report that is
\* accepted says what the motor is doing at that moment.
THEOREM ReportsAreCurrent == Safety => ReportsWhatRuns
<1> DEFINE Told == shadow'.reported # shadow.reported =>
                     /\ shadow'.reported = apphw_get_state'
                     /\ Energised' = {active_btn_idx'} \cap Relays
<1>1. PartsInv /\ AgreeInv /\ PartsInv' /\ [Next]_vars => [Told]_vars
  <2> SUFFICES ASSUME PartsInv, AgreeInv, PartsInv', [Next]_vars,
                      shadow'.reported # shadow.reported
               PROVE  /\ shadow'.reported = apphw_get_state'
                      /\ Energised' = {active_btn_idx'} \cap Relays
    OBVIOUS
  <2>1. PublishStep
    BY WhoReports DEF Boot, RelayStep, CallPublish, BuildDocument, Restart, AwsReset, awsVars
  <2>2. PublishArrives
    BY <2>1 DEF PublishStep, PublishRefused, BeginPublish, PublishLost
  <2> QED
    BY <2>1, <2>2, ReportShowsMotor DEF AgreeInv
<1> HIDE DEF Told
<1>2. Safety => [][Told]_vars
  BY <1>1, AlwaysParts, AlwaysAgreeInv, PTL DEF Safety
<1> QED
  BY <1>2 DEF Told, ReportsWhatRuns

-----------------------------------------------------------------------------
(* Agreement: what is owed stays on its way *)

\* The relay task carries a level on until it reports it, or finds the fan at it.
LEMMA RelayCarriesOn ==
  ASSUME HwInv, RelayTask, NEW level, InFan(level)
  PROVE  InFan(level)' \/ (rpc # "call" /\ BtnVal[active_btn_idx] = level)
<1> USE DEF InFan
<1>1. CASE EnableOutputs
  BY <1>1 DEF EnableOutputs, Queued
<1>2. CASE SkipActive
  <2>1. TakeIndex /\ idx' = active_btn_idx /\ rpc = "recv"
    BY <1>2 DEF SkipActive, TakeIndex
  <2>2. Queued(level)
    BY <2>1
  <2> QED
    BY <2>1, <2>2, TakeLeavesRest
<1>3. CASE SwitchOff
  BY <1>3 DEF SwitchOff
<1>4. CASE BreakRelays
  <2>1. TakeIndex /\ rpc = "recv" /\ rpc' = "delay"
    BY <1>4 DEF BreakRelays, TakeIndex
  <2>2. Queued(level)
    BY <2>1
  <2>3. BtnVal[idx'] = level \/ Queued(level)'
    BY <2>1, <2>2, TakeLeavesRest
  <2> QED
    BY <2>1, <2>3
<1>5. CASE MakeRelay
  BY <1>5 DEF MakeRelay
<1> QED
  BY <1>1, <1>2, <1>3, <1>4, <1>5 DEF RelayTask

\* A delta that is not filtered is dispatched; the newest one is never filtered.
LEMMA NewestIsHeard ==
  ASSUME AwsInv, Heard, Distinct, NEW t \in Tasks, ReceiveDelta(t), NEW level, InAir(level)
  PROVE  InAir(level)'
<1> DEFINE newest == [version |-> shadow.version, level |-> level]
<1>1. /\ cb.left = 0 /\ tokens > 0 /\ UNCHANGED shadow
      /\ newest \in toDev
  BY DEF ReceiveDelta, Heard, InAir
<1>2. newest.version = shadow.version /\ newest.level = level
  OBVIOUS
<1>3. newest.version > version
  <2>1. version <= shadow.version /\ newest.version # version
    BY <1>1 DEF AwsInv, VersionsOfShadow, Distinct
  <2>2. version \in Nat /\ shadow.version \in Nat
    BY RecordTypes DEF AwsInv, AwsTypeOK
  <2> QED
    BY <1>2, <2>1, <2>2
<1>4. PICK d \in toDev :
        /\ toDev' = toDev \ {d}
        /\ d.version > version => cb' = [level |-> d.level, left |-> tokens]
  BY DEF ReceiveDelta
<1>5. CASE d = newest
  <2>1. cb'.left = tokens /\ cb'.level = level
    BY <1>2, <1>3, <1>4, <1>5
  <2> QED
    BY <1>1, <2>1 DEF InAir
<1>6. CASE d # newest
  BY <1>1, <1>4, <1>6 DEF InAir
<1> QED
  BY <1>5, <1>6

\* An update that leaves something desired unreported is answered by a delta,
\* which only a session that is not subscribed misses.
LEMMA UpdateIsAnswered ==
  ASSUME AwsTypeOK, NEW r, NEW d, UpdateShadow(r, d), session = "subscribed",
         shadow'.desired # shadow'.reported
  PROVE  [version |-> shadow'.version, level |-> shadow'.desired] \in toDev'
  BY UpdateAddsNewest

\* Nothing that Owed speaks of changes.
LEMMA OwedFrame ==
  ASSUME Owed, UNCHANGED <<shadow, toDev, cb, lost, idx_queue, rpc, idx>>
  PROVE  Owed'
  BY DEF Owed, InAir, InFan, Queued

\* Steps of the hardware half.
LEMMA OwedHw ==
  ASSUME PartsInv, Recorded, NoQueueYet, Owed,
         Boot \/ RelayStep \/ \E i \in Idx : Press(i)
  PROVE  Owed'
<1>1. CASE Boot
  <2>1. UNCHANGED <<shadow, toDev, cb, lost>>
    BY <1>1 DEF Boot, awsVars, deviceVars, auxVars
  <2>2. UNCHANGED idx_queue
    BY <1>1 DEF Boot, BootStep, ConfigurePins, OutputsOff, CreateQueue, CreateTask,
       NoQueueYet, QueueExists
  <2>3. UNCHANGED <<rpc, idx>> \/ (rpc = "none" /\ UNCHANGED idx)
    BY <1>1 DEF Boot, BootStep, ConfigurePins, OutputsOff, CreateQueue, CreateTask,
       PartsInv, HwInv
  <2> QED
    BY <2>1, <2>2, <2>3 DEF Owed, InAir, InFan, Queued
<1>2. CASE RelayStep
  <2>1. RelayTask /\ UNCHANGED <<shadow, toDev, cb, lost>>
    BY <1>2 DEF RelayStep, awsVars, deviceVars, auxVars
  <2>2. InAir(shadow.desired) => InAir(shadow.desired)'
    BY <2>1 DEF InAir
  <2>3. ASSUME NEW level, InFan(level)
        PROVE  InFan(level)' \/ (rpc # "call" /\ BtnVal[active_btn_idx] = level)
    BY <2>1, <2>3, RelayCarriesOn DEF PartsInv
  <2>4. InFan(shadow.desired) =>
          InFan(shadow.desired)' \/ (rpc # "call" /\ apphw_get_state = shadow.desired)
    BY <2>1, <2>3 DEF InFan, Queued, apphw_get_state
  <2> QED
    BY <2>1, <2>2, <2>4 DEF Owed, Recorded
<1>3. ASSUME NEW i \in Idx, Press(i)
      PROVE  Owed'
  <2>1. Send(i) /\ UNCHANGED <<shadow, toDev, cb, rpc, idx>> /\ (lost => lost')
    BY <1>3 DEF Press, button_handler, awsVars, deviceVars
  <2>2. \A level : Queued(level) => \E k \in 1 .. Len(idx_queue') : BtnVal[idx_queue'[k]] = level
    BY <2>1, SendQueues DEF PartsInv, Queued
  <2> QED
    BY <2>1, <2>2 DEF Owed, InAir, InFan, Queued
<1> QED
  BY <1>1, <1>2, <1>3

\* The callback of a delta puts its level into the queue, or the level is lost.
LEMMA OwedCallback ==
  ASSUME PartsInv, LevelsOfButtons, Owed, NEW t \in Tasks, DeltaCallback(t)
  PROVE  Owed'
<1>1. /\ UNCHANGED <<shadow, toDev, rpc, idx>>
      /\ cb'.level = cb.level
      /\ lost' = (lost \/ Len(idx_queue) = QLEN)
  BY RecordTypes DEF DeltaCallback, fan_powerlevel_change_requested, apphw_set_state,
     PartsInv, AwsInv
<1>2. PICK i \in Idx : BtnVal[i] = cb.level /\ Send(i)
  BY CallbackSends
<1>3. Queued(shadow.desired) => Queued(shadow.desired)'
  <2>1. \A l : Queued(l) => \E k \in 1 .. Len(idx_queue') : BtnVal[idx_queue'[k]] = l
    BY <1>2, SendQueues DEF PartsInv, Queued
  <2> QED
    BY <1>1, <2>1 DEF Queued
<1>4. Len(idx_queue) # QLEN /\ cb.level = shadow.desired => Queued(shadow.desired)'
  <2>1. Len(idx_queue) # QLEN =>
          \E k \in 1 .. Len(idx_queue') : BtnVal[idx_queue'[k]] = cb.level
    BY <1>2, SendQueues DEF PartsInv, Queued
  <2> QED
    BY <1>1, <2>1 DEF Queued
<1> QED
  BY <1>1, <1>3, <1>4 DEF Owed, InAir, InFan

\* A report is lost, or arrives and is answered if it is not what is desired.
LEMMA OwedPublish ==
  ASSUME PartsInv, Owed, PublishStep
  PROVE  Owed'
<1>1. CASE BeginPublish /\ UNCHANGED hwVars /\ UNCHANGED lost
  BY <1>1, OwedFrame DEF BeginPublish, hwVars
<1>2. CASE lost'
  BY <1>2 DEF Owed
<1>3. CASE /\ PublishArrives /\ CallReturns
           /\ lost' = (lost \/ (shadow'.desired # shadow'.reported /\ session # "subscribed"))
  <2>1. UpdateShadow(doc.reported, doc.desired)
    BY <1>3 DEF PublishArrives
  <2>2. session = "subscribed" /\ shadow'.desired # shadow'.reported =>
          [version |-> shadow'.version, level |-> shadow'.desired] \in toDev'
    BY <2>1, UpdateIsAnswered DEF PartsInv, AwsInv
  <2> QED
    BY <1>3, <2>2 DEF Owed, InAir
<1> QED
  BY <1>1, <1>2, <1>3 DEF PublishStep

\* So is a request of another client.
LEMMA OwedRequest ==
  ASSUME PartsInv, Owed, NEW level \in Levels, Request(level)
  PROVE  Owed'
<1>1. UpdateShadow(NoLevel, level) /\ UNCHANGED <<cb, idx_queue, rpc, idx>>
  BY DEF Request, CloudRequest, hwVars, deviceVars
<1>2. /\ shadow'.reported = shadow.reported
      /\ shadow'.desired = level
  BY <1>1, UpdateAddsNewest, LevelFacts DEF PartsInv, AwsInv
<1>3. session = "subscribed" /\ shadow'.desired # shadow'.reported =>
        [version |-> shadow'.version, level |-> shadow'.desired] \in toDev'
  BY <1>1, UpdateIsAnswered DEF PartsInv, AwsInv
<1>4. lost' = (lost \/ (level # shadow.reported /\ session # "subscribed"))
  BY DEF Request
<1> QED
  BY <1>2, <1>3, <1>4 DEF Owed, InAir

\* A connection that ends, or is opened anew, takes the deltas under way with it.
LEMMA OwedConnection ==
  ASSUME PartsInv, Owed,
         WifiLost \/ Drop \/ \E t \in Tasks : OpenStep(t) \/ ConnectStep(t)
  PROVE  Owed'
<1>1. CASE WifiLost \/ Drop \/ \E t \in Tasks : ConnectStep(t)
  <2>1. /\ UNCHANGED <<shadow, cb, idx_queue, rpc, idx>>
        /\ lost' = (lost \/ toDev # {})
    BY <1>1 DEF WifiLost, Drop, ConnectStep, DropSession, ConnectSucceeds, hwVars, deviceVars
  <2> QED
    BY <2>1 DEF Owed, InAir, InFan, Queued
<1>2. ASSUME NEW t \in Tasks, OpenStep(t)
      PROVE  Owed'
  <2>1. Opening(t) /\ UNCHANGED <<idx_queue, rpc, idx>>
    BY <1>2 DEF OpenStep, hwVars
  <2>2. /\ UNCHANGED shadow
        /\ toDev' = toDev \/ toDev' = {}
        /\ cb' = cb \/ cb' = [cb EXCEPT !.left = 0]
    BY <2>1 DEF Opening, ClearClient, InitClient, BeginConnect, ConnectFails,
       RegisterWithoutSubscribe, BeginSubscribe, EndSubscribe
  <2>3. /\ cb.left \in Nat
        /\ [cb EXCEPT !.left = 0].left = 0
    BY RecordTypes DEF PartsInv, AwsInv, AwsTypeOK
  <2>4. ~lost' => ~lost /\ toDev' = toDev /\ (cb.left > 0 => cb' = cb)
    BY <1>2, <2>2, <2>3 DEF OpenStep
  <2> QED
    BY <2>1, <2>2, <2>4 DEF Owed, InAir, InFan, Queued
<1> QED
  BY <1>1, <1>2

\* No step leaves a level desired that nobody will report.
LEMMA OwedStep ==
  ASSUME PartsInv, LevelsOfButtons, AgreeInv, Owed, [Next]_vars
  PROVE  Owed'
<1>1. CASE UNCHANGED vars
  BY <1>1, OwedFrame DEF vars, hwVars, awsVars, deviceVars, auxVars
<1>2. CASE DebounceTick \/ CallPublish \/ StartWifi \/ handle_wifi_connect
  BY <1>2, OwedFrame DEF DebounceTick, DebounceOver, TickWrap, CallPublish, BuildDocument,
     StartWifi, handle_wifi_connect, Start, hwVars, awsVars, deviceVars, auxVars
<1>3. CASE Boot \/ RelayStep \/ \E i \in Idx : Press(i)
  BY <1>3, OwedHw DEF AgreeInv
<1>4. CASE WifiLost \/ Drop \/ \E t \in Tasks : OpenStep(t) \/ ConnectStep(t)
  BY <1>4, OwedConnection
<1>5. ASSUME NEW t \in Tasks, LoopStep(t)
      PROVE  Owed'
  BY <1>5, OwedFrame DEF LoopStep, BeginYield, EndOfYield, EndYield, YieldDisconnects,
     hwVars, auxVars
<1>6. ASSUME NEW t \in Tasks, ReceiveStep(t)
      PROVE  Owed'
  <2>1. ReceiveDelta(t) /\ UNCHANGED <<shadow, lost, idx_queue, rpc, idx>>
    BY <1>6 DEF ReceiveStep, ReceiveDelta, hwVars, auxVars
  <2>2. InAir(shadow.desired) => InAir(shadow.desired)'
    <3>1. \A l : InAir(l) => \/ [version |-> shadow'.version, level |-> l] \in toDev'
                             \/ cb'.left > 0 /\ cb'.level = l
      BY <2>1, NewestIsHeard DEF InAir, PartsInv, AgreeInv
    <3> QED
      BY <2>1, <3>1 DEF InAir
  <2> QED
    BY <2>1, <2>2 DEF Owed, InFan, Queued
<1>7. CASE DeltaLost \/ Restart
  BY <1>7 DEF DeltaLost, Restart, Owed
<1> QED
  BY <1>1, <1>2, <1>3, <1>4, <1>5, <1>6, <1>7, OwedCallback, OwedPublish, OwedRequest
     DEF Next, Device, Environment

\* When everything is quiet nothing is on its way, so nothing is owed.
LEMMA QuietOwesNothing == AgreeInv /\ Owed => QuietMeansAgreed
<1> SUFFICES ASSUME AgreeInv, Owed, Quiet, ~lost
             PROVE  /\ shadow.reported = apphw_get_state
                    /\ shadow.desired = shadow.reported
  BY DEF QuietMeansAgreed
<1>1. ~InAir(shadow.desired)
  BY DEF InAir, Quiet
<1>2. ~InFan(shadow.desired)
  BY EmptySeq DEF InFan, Queued, Quiet
<1> QED
  BY <1>1, <1>2 DEF Owed, AgreeInv, Recorded, Quiet

\* Whatever crosses on the way between buttons, fan and cloud, for any number of
\* tasks: when the device is quiet and nothing was lost, the motor runs at the
\* level on record, and that is the level desired.
THEOREM AgreedWhenQuiet == LevelsOfButtons => (Safety => []QuietMeansAgreed)
<1>1. Init => Owed
  BY DEF Init, AwsInit, Owed
<1>2. CASE ~LevelsOfButtons
  BY <1>2
<1>3. CASE LevelsOfButtons
  <2>1. PartsInv /\ AgreeInv /\ Owed /\ [Next]_vars => Owed'
    BY <1>3, OwedStep
  <2>2. Safety => []QuietMeansAgreed
    BY <1>1, <2>1, QuietOwesNothing, AlwaysParts, AlwaysAgreeInv, PTL DEF Safety
  <2> QED
    BY <2>2
<1> QED
  BY <1>2, <1>3

-----------------------------------------------------------------------------
(* The skill: the tables and the invariant *)

\* The table btn_map of app_hw.c.
FirmwareTable ==
  /\ BTN_CNT = 4
  /\ BtnVal[0] = 0 /\ BtnVal[1] = 33 /\ BtnVal[2] = 66 /\ BtnVal[3] = 100

\* Invocations in progress hold a level of the shadow and a change asked for, and
\* what Alexa has told is a level of the fan.
AdjustInv ==
  /\ adjust \in [Calls -> [busy : BOOLEAN, level : Levels, change : Changes \cup {0}]]
  /\ told \in Levels \cup {NoLevel}

\* Whatever is asked for, a level of the fan comes out.
LEMMA UpdateRange == ASSUME NEW n \in Int PROVE update_power(n) \in Levels
  BY SkillAssumption DEF SkillAssumption, update_power

-----------------------------------------------------------------------------
(* The skill stays within what the fan was specified for *)

\* A request of the skill is one of the requests of the cloud half.
LEMMA SkillIsRequest ==
  ASSUME AdjustInv, Skill
  PROVE  UNCHANGED vars \/ \E level \in Levels : Request(level)
<1>1. ASSUME NEW level \in Asked, set_power_level(level)
      PROVE  \E l \in Levels : Request(l)
  <2>1. update_power(level) \in Levels
    BY UpdateRange, SkillAssumption DEF SkillAssumption
  <2> QED
    BY <1>1, <2>1 DEF set_power_level, set_power_level_shadow
<1>2. ASSUME NEW c \in Calls, NEW change \in Changes, ReadReported(c, change)
      PROVE  UNCHANGED vars
  BY <1>2 DEF ReadReported
<1>3. ASSUME NEW c \in Calls, DesireAdjusted(c)
      PROVE  \E l \in Levels : Request(l)
  <2>1. adjust[c].level \in Int /\ adjust[c].change \in Int
    BY SkillAssumption, LevelFacts DEF AdjustInv, SkillAssumption
  <2>2. update_power(adjust[c].level + adjust[c].change) \in Levels
    BY <2>1, UpdateRange
  <2> QED
    BY <1>3, <2>2 DEF DesireAdjusted, set_power_level_shadow
<1> QED
  BY <1>1, <1>2, <1>3 DEF Skill

\* A step of the fan with its skill is a step of the fan or leaves it alone.
LEMMA SkillStep ==
  ASSUME AdjustInv, [SkillNext]_allVars
  PROVE  [Next]_vars
<1>1. CASE UNCHANGED allVars
  BY <1>1 DEF allVars
<1>2. CASE Skill
  BY <1>2, SkillIsRequest DEF Next, Environment
<1>3. CASE PressButton
  BY <1>3 DEF PressButton, Next, Environment
<1>4. CASE FanAlone
  BY <1>4 DEF FanAlone, Next, Environment
<1> QED
  BY <1>1, <1>2, <1>3, <1>4 DEF SkillNext

\* What an invocation has read stays a level of the shadow, and what is told
\* comes out of update_power.
LEMMA AdjustStep ==
  ASSUME PartsInv, AdjustInv, [SkillNext]_allVars
  PROVE  AdjustInv'
<1>0. shadow.reported \in Levels /\ 0 \in Levels /\ Levels \subseteq Int
  BY RecordTypes, LevelFacts DEF PartsInv, AwsInv
<1>1. CASE UNCHANGED skillVars
  BY <1>1 DEF AdjustInv, skillVars
<1>2. ASSUME NEW level \in Asked, set_power_level(level)
      PROVE  AdjustInv'
  <2>1. update_power(level) \in Levels
    BY UpdateRange, SkillAssumption DEF SkillAssumption
  <2> QED
    BY <1>2, <2>1 DEF AdjustInv, set_power_level, set_power_level_shadow
<1>3. ASSUME NEW c \in Calls, NEW change \in Changes, ReadReported(c, change)
      PROVE  AdjustInv'
  BY <1>0, <1>3 DEF AdjustInv, ReadReported
<1>4. ASSUME NEW c \in Calls, DesireAdjusted(c)
      PROVE  AdjustInv'
  <2>1. adjust[c].level \in Int /\ adjust[c].change \in Int
    BY <1>0, SkillAssumption DEF AdjustInv, SkillAssumption
  <2>2. update_power(adjust[c].level + adjust[c].change) \in Levels
    BY <2>1, UpdateRange
  <2>3. told' \in Levels \cup {NoLevel}
    BY <1>4, <2>2 DEF DesireAdjusted, set_power_level_shadow
  <2> QED
    BY <1>0, <1>4, <2>3 DEF AdjustInv, DesireAdjusted, Waiting
<1>5. CASE PressButton
  BY <1>5 DEF PressButton, AdjustInv
<1> QED
  BY <1>1, <1>2, <1>3, <1>4, <1>5 DEF SkillNext, Skill, FanAlone, allVars

\* The invariants of the fan and of the invocations hold together.
LEMMA AlwaysSkill == SkillSpec => [](PartsInv /\ AdjustInv)
<1>1. SkillInit => PartsInv /\ AdjustInv
  <2>1. SkillInit => PartsInv
    BY InitInv, AwsInitInv DEF SkillInit, Init, PartsInv, NoSessionNoDelta, AwsInit
  <2>2. SkillInit => AdjustInv
    BY LevelFacts DEF SkillInit, AdjustInv, Waiting
  <2> QED
    BY <2>1, <2>2
<1>2. PartsInv /\ AdjustInv /\ [SkillNext]_allVars => PartsInv' /\ AdjustInv'
  <2> SUFFICES ASSUME PartsInv, AdjustInv, [SkillNext]_allVars
               PROVE  PartsInv' /\ AdjustInv'
    OBVIOUS
  <2>1. [Next]_vars
    BY SkillStep
  <2>2. PartsInv'
    BY <2>1, PartsStep, StepInv, AwsStepInv, SessionInv DEF PartsInv
  <2> QED
    BY <2>2, AdjustStep
<1> QED
  BY <1>1, <1>2, PTL DEF SkillSpec

\* The Lambda function, with any number of invocations at any step, does to the
\* shadow only what the firmware was specified for.
THEOREM SkillImplementsFan == SkillSpec => Safety
<1>1. SkillInit => Init
  BY DEF SkillInit
<1>2. AdjustInv /\ [SkillNext]_allVars => [Next]_vars
  BY SkillStep
<1> QED
  BY <1>1, <1>2, AlwaysSkill, PTL DEF SkillSpec, Safety

\* With the skill beside it, the relay board is still an interlock, the mutex
\* and the client stay consistent, and stale deltas are filtered.
THEOREM SkillKeepsFan ==
  SkillSpec => /\ []EnergisedIsActive /\ BreakBeforeMake
               /\ [](GuardMatchesHolder /\ BusyClientHasOwner /\ CallbackUnderGuard)
               /\ VersionNeverBack
  BY SkillImplementsFan, SystemInterlock, SystemGuard, SystemVersions, PTL

\* Every variable of the fan and of the invocations keeps its type.
THEOREM SkillTypeCorrect == SkillSpec => []SkillTypeOK
<1>1. TypeOK /\ AdjustInv => SkillTypeOK
  BY DEF AdjustInv, SkillTypeOK
<1> QED
  BY <1>1, AlwaysSkill, SkillImplementsFan, SystemTypeCorrect, PTL

-----------------------------------------------------------------------------
(* Rounding *)

\* With the table of the firmware, update_power picks the level of the button
\* that apphw_set_state would pick.
LEMMA RoundsAlike ==
  ASSUME FirmwareTable, NEW n \in 1 .. 100
  PROVE  \E i \in FirstAtLeast(n) : update_power(n) = BtnVal[i]
<1>1. Relays = {1, 2, 3}
  BY DEF FirmwareTable, Relays, Idx
<1>2. CASE n <= 33
  <2>1. 1 \in FirstAtLeast(n)
    BY <1>1, <1>2 DEF FirmwareTable, FirstAtLeast
  <2> QED
    BY <1>2, <2>1 DEF update_power, FirmwareTable
<1>3. CASE n > 33 /\ n <= 66
  <2>1. 2 \in FirstAtLeast(n)
    BY <1>1, <1>3 DEF FirmwareTable, FirstAtLeast
  <2> QED
    BY <1>3, <2>1 DEF update_power, FirmwareTable
<1>4. CASE n > 66
  <2>1. 3 \in FirstAtLeast(n)
    BY <1>1, <1>4 DEF FirmwareTable, FirstAtLeast
  <2> QED
    BY <1>4, <2>1 DEF update_power, FirmwareTable
<1> QED
  BY <1>2, <1>3, <1>4

\* The level Alexa announces for an adjustment in progress is the level of the
\* button the firmware would choose, whatever changes are asked for.
THEOREM SkillRounds == FirmwareTable => (SkillSpec => []RoundsAsFirmware)
<1>1. FirmwareTable /\ AdjustInv => RoundsAsFirmware
  <2> SUFFICES ASSUME FirmwareTable, AdjustInv, NEW c \in Calls,
                      adjust[c].level + adjust[c].change \in 0 .. 100,
                      adjust[c].level + adjust[c].change # 0
               PROVE  LET level == adjust[c].level + adjust[c].change
                      IN  \E i \in FirstAtLeast(level) : update_power(level) = BtnVal[i]
    BY DEF RoundsAsFirmware, FirmwareTable, update_power
  <2>1. adjust[c].level + adjust[c].change \in 1 .. 100
    OBVIOUS
  <2> QED
    BY <2>1, RoundsAlike
<1>2. CASE ~FirmwareTable
  BY <1>2
<1>3. CASE FirmwareTable
  <2>1. AdjustInv => RoundsAsFirmware
    BY <1>1, <1>3
  <2>2. SkillSpec => []RoundsAsFirmware
    BY <2>1, AlwaysSkill, PTL
  <2> QED
    BY <2>2
<1> QED
  BY <1>2, <1>3

-----------------------------------------------------------------------------
(* What Alexa answered is carried out *)

\* From the desired level to the relays, only one level is on its way.
NothingElse(level) ==
  /\ shadow.desired = level
  /\ \A d \in toDev : d.level = level
  /\ cb.left > 0 => cb.level = level
  /\ OnlyQueued(level)
  /\ rpc \in {"delay", "call"} => BtnVal[idx] = level
  /\ pub # "none" => doc.desired \in {NoLevel, level}

\* Once Alexa has answered it is the level told, until somebody intervenes.
OnlyTold == told # NoLevel => NothingElse(told)

\* What the cloud half has to say of it.
NothingElseInAir(level) ==
  /\ shadow.desired = level
  /\ \A d \in toDev : d.level = level
  /\ cb.left > 0 => cb.level = level
  /\ pub # "none" => doc.desired \in {NoLevel, level}

\* And the hardware half.
NothingElseInFan(level) ==
  /\ OnlyQueued(level)
  /\ rpc \in {"delay", "call"} => BtnVal[idx] = level

\* The relay task reports what it took from the queue.
LEMMA RelayBringsNothing ==
  ASSUME HwInv, BootStep \/ RelayTask \/ CallReturns \/ HwReset, NEW level,
         NothingElseInFan(level)
  PROVE  NothingElseInFan(level)'
<1> USE DEF NothingElseInFan
<1>1. CASE CreateQueue \/ HwReset
  BY <1>1, EmptySeq DEF CreateQueue, HwReset, OnlyQueued, HwInv
<1>2. CASE ConfigurePins \/ OutputsOff \/ CreateTask
  BY <1>2 DEF ConfigurePins, OutputsOff, CreateTask, OnlyQueued
<1>3. CASE EnableOutputs \/ CallReturns \/ MakeRelay
  BY <1>3 DEF EnableOutputs, CallReturns, MakeRelay, OnlyQueued
<1>4. CASE SkipActive \/ SwitchOff \/ BreakRelays
  <2>1. TakeIndex
    BY <1>4 DEF SkipActive, SwitchOff, BreakRelays
  <2> QED
    BY <2>1, TakeLeavesRest
<1> QED
  BY <1>1, <1>2, <1>3, <1>4 DEF BootStep, RelayTask

\* The report of that speed desires no other, so the service answers with none.
LEMMA CloudBringsNothing ==
  ASSUME AwsInv, NEW level \in Levels, NothingElseInAir(level),
         \/ \E t \in Tasks : \/ Start(t) \/ Opening(t) \/ ConnectSucceeds(t) \/ BeginYield(t)
                             \/ ReceiveDelta(t) \/ EndOfYield(t)
                             \/ fan_powerlevel_change_requested(t)
         \/ BuildDocument(level) \/ Publishing \/ LoseDelta \/ DropSession \/ AwsReset
  PROVE  NothingElseInAir(level)'
<1> USE DEF NothingElseInAir
<1>0. cb.left \in Nat /\ \A l : [cb EXCEPT !.left = l].level = cb.level
  BY RecordTypes DEF AwsInv, AwsTypeOK
<1>1. ASSUME NEW t \in Tasks, Start(t) \/ Opening(t) \/ ConnectSucceeds(t)
      PROVE  NothingElseInAir(level)'
  <2>1. /\ UNCHANGED <<shadow, pub, doc>>
        /\ toDev' \subseteq toDev
        /\ cb' = cb \/ cb' = [cb EXCEPT !.left = 0]
    BY <1>1 DEF Start, Opening, ConnectSucceeds, ClearClient, InitClient, BeginConnect,
       ConnectFails, RegisterWithoutSubscribe, BeginSubscribe, EndSubscribe
  <2>2. cb' = [cb EXCEPT !.left = 0] => cb'.left = 0
    BY RecordTypes DEF AwsInv, AwsTypeOK
  <2> QED
    BY <2>1, <2>2
<1>2. ASSUME NEW t \in Tasks, BeginYield(t) \/ EndOfYield(t)
      PROVE  NothingElseInAir(level)'
  BY <1>2 DEF BeginYield, EndOfYield, EndYield, YieldDisconnects
<1>3. ASSUME NEW t \in Tasks, ReceiveDelta(t)
      PROVE  NothingElseInAir(level)'
  <2>1. /\ UNCHANGED <<shadow, pub, doc>>
        /\ toDev' \subseteq toDev
        /\ cb' = cb \/ \E d \in toDev : cb' = [level |-> d.level, left |-> tokens]
    BY <1>3 DEF ReceiveDelta
  <2> QED
    BY <2>1
<1>4. ASSUME NEW t \in Tasks, fan_powerlevel_change_requested(t)
      PROVE  NothingElseInAir(level)'
  <2>1. /\ UNCHANGED <<shadow, pub, doc, toDev>>
        /\ cb'.level = cb.level /\ cb.left > 0
    BY <1>0, <1>4 DEF fan_powerlevel_change_requested
  <2> QED
    BY <2>1
<1>5. CASE BuildDocument(level)
  BY <1>5 DEF BuildDocument
<1>6. CASE PublishRefused \/ BeginPublish \/ PublishLost
  BY <1>6 DEF PublishRefused, BeginPublish, PublishLost, FinishPublish
<1>7. CASE PublishArrives
  <2>1. /\ UpdateShadow(doc.reported, doc.desired) /\ UNCHANGED cb
        /\ pub' = "none" /\ doc.desired \in {NoLevel, level}
    BY <1>7 DEF PublishArrives, FinishPublish
  <2>2. shadow'.desired = level
    BY <2>1, UpdateAddsNewest DEF AwsInv
  <2>3. \/ toDev' = toDev
        \/ toDev' = toDev \cup {[version |-> shadow'.version, level |-> shadow'.desired]}
    BY <2>1, UpdateAddsNewest DEF AwsInv
  <2> QED
    BY <2>1, <2>2, <2>3
<1>8. CASE LoseDelta \/ DropSession \/ AwsReset
  BY <1>8 DEF LoseDelta, DropSession, AwsReset, deviceVars
<1> QED
  BY <1>1, <1>2, <1>3, <1>4, <1>5, <1>6, <1>7, <1>8 DEF Publishing

\* NothingElse is both.
LEMMA NothingElseParts ==
  ASSUME NEW level
  PROVE  NothingElse(level) <=> NothingElseInAir(level) /\ NothingElseInFan(level)
  BY DEF NothingElse, NothingElseInAir, NothingElseInFan

\* The fan left alone, its network and its Wi-Fi set no other level on its way.
LEMMA FanBringsNothing ==
  ASSUME PartsInv, LevelsOfButtons, NEW level \in Levels,
         NothingElseInAir(level), NothingElseInFan(level),
         Device \/ handle_wifi_connect \/ WifiLost \/ DeltaLost \/ Drop \/ Restart
  PROVE  NothingElseInAir(level)' /\ NothingElseInFan(level)'
<1> USE DEF PartsInv
<1>1. ASSUME UNCHANGED awsVars PROVE NothingElseInAir(level)'
  BY <1>1 DEF NothingElseInAir, awsVars, deviceVars
<1>2. ASSUME UNCHANGED <<idx_queue, rpc, idx>> PROVE NothingElseInFan(level)'
  BY <1>2 DEF NothingElseInFan, OnlyQueued
<1>3. CASE Boot \/ RelayStep
  BY <1>1, <1>3, RelayBringsNothing DEF Boot, RelayStep
<1>4. CASE DebounceTick \/ StartWifi
  BY <1>1, <1>2, <1>4 DEF DebounceTick, DebounceOver, TickWrap, StartWifi, hwVars
<1>5. CASE CallPublish
  <2>1. BuildDocument(level)
    BY <1>5 DEF CallPublish, NothingElseInFan
  <2> QED
    BY <1>2, <1>5, <2>1, CloudBringsNothing DEF CallPublish, hwVars
<1>6. CASE PublishStep
  <2>1. Publishing /\ (CallReturns \/ UNCHANGED hwVars)
    BY <1>6 DEF PublishStep, Publishing
  <2>2. NothingElseInAir(level)'
    BY <2>1, CloudBringsNothing
  <2>3. NothingElseInFan(level)'
    BY <1>2, <2>1, RelayBringsNothing DEF hwVars
  <2> QED
    BY <2>2, <2>3
<1>7. ASSUME NEW t \in Tasks, OpenStep(t) \/ ConnectStep(t) \/ LoopStep(t) \/ ReceiveStep(t)
      PROVE  NothingElseInAir(level)' /\ NothingElseInFan(level)'
  <2>1. NothingElseInAir(level)'
    BY <1>7, CloudBringsNothing DEF OpenStep, ConnectStep, LoopStep, ReceiveStep
  <2> QED
    BY <1>2, <1>7, <2>1 DEF OpenStep, ConnectStep, LoopStep, ReceiveStep, hwVars
<1>8. ASSUME NEW t \in Tasks, DeltaCallback(t)
      PROVE  NothingElseInAir(level)' /\ NothingElseInFan(level)'
  <2>1. NothingElseInAir(level)'
    BY <1>8, CloudBringsNothing DEF DeltaCallback
  <2>2. cb.level = level
    BY <1>8 DEF DeltaCallback, fan_powerlevel_change_requested, NothingElseInAir
  <2>3. OnlyQueued(level)'
    BY <1>8, <2>2, CallbackSends, SendQueues DEF NothingElseInFan
  <2>4. UNCHANGED <<rpc, idx>>
    BY <1>8 DEF DeltaCallback, apphw_set_state
  <2> QED
    BY <2>1, <2>3, <2>4 DEF NothingElseInFan
<1>9. CASE handle_wifi_connect
  BY <1>2, <1>9, CloudBringsNothing DEF handle_wifi_connect, hwVars
<1>10. CASE WifiLost
  BY <1>2, <1>10 DEF WifiLost, hwVars, deviceVars, NothingElseInAir
<1>11. CASE DeltaLost \/ Drop
  BY <1>2, <1>11, CloudBringsNothing DEF DeltaLost, Drop, hwVars
<1>12. CASE Restart
  BY <1>12, CloudBringsNothing, RelayBringsNothing DEF Restart, PowerCycle, IsrWithoutQueue
<1> QED
  BY <1>3, <1>4, <1>5, <1>6, <1>7, <1>8, <1>9, <1>10, <1>11, <1>12 DEF Device

\* A request made when all is quiet is the only one on its way.
LEMMA QuietRequest ==
  ASSUME PartsInv, Reporting, Quiet, NEW level \in Levels, Request(level)
  PROVE  NothingElse(level)'
<1>1. /\ UpdateShadow(NoLevel, level)
      /\ UNCHANGED <<cb, idx_queue, rpc, idx, pub, doc>>
  BY DEF Request, CloudRequest, hwVars, deviceVars
<1>2. /\ shadow'.desired = level
      /\ \/ toDev' = {}
         \/ toDev' = {[version |-> shadow'.version, level |-> level]}
  BY <1>1, UpdateAddsNewest, LevelFacts DEF PartsInv, AwsInv, Quiet
<1>3. /\ cb'.left = 0 /\ rpc' = "recv" /\ pub' = "none"
      /\ Len(idx_queue') = 0
  BY <1>1, EmptySeq DEF Quiet, Reporting
<1> QED
  BY <1>2, <1>3 DEF NothingElse, OnlyQueued

\* Every step keeps what Alexa has told the only level on its way.
LEMMA OnlyToldStep ==
  ASSUME PartsInv, AdjustInv, Reporting, LevelsOfButtons, OnlyTold, [SkillNext]_allVars
  PROVE  OnlyTold'
<1>1. CASE UNCHANGED allVars
  BY <1>1 DEF allVars, vars, hwVars, awsVars, deviceVars, skillVars, OnlyTold, NothingElse,
     OnlyQueued
<1>2. CASE PressButton
  BY <1>2 DEF PressButton, OnlyTold
<1>3. ASSUME NEW level \in Levels, set_power_level_shadow(level)
      PROVE  OnlyTold'
  <2>1. CASE Quiet
    <3>1. NothingElse(level)' /\ told' = level
      BY <1>3, <2>1, QuietRequest DEF set_power_level_shadow
    <3> QED
      BY <3>1 DEF OnlyTold, NothingElse, OnlyQueued
  <2>2. CASE ~Quiet
    BY <1>3, <2>2 DEF set_power_level_shadow, OnlyTold
  <2> QED
    BY <2>1, <2>2
<1>4. CASE Skill
  <2>1. ASSUME NEW level \in Asked, set_power_level(level)
        PROVE  OnlyTold'
    BY <1>3, <2>1, UpdateRange, SkillAssumption DEF SkillAssumption, set_power_level
  <2>2. ASSUME NEW c \in Calls, NEW change \in Changes, ReadReported(c, change)
        PROVE  OnlyTold'
    BY <2>2 DEF ReadReported, vars, hwVars, awsVars, deviceVars, OnlyTold, NothingElse,
       OnlyQueued
  <2>3. ASSUME NEW c \in Calls, DesireAdjusted(c)
        PROVE  OnlyTold'
    <3>1. adjust[c].level \in Int /\ adjust[c].change \in Int
      BY SkillAssumption, LevelFacts DEF AdjustInv, SkillAssumption
    <3>2. update_power(adjust[c].level + adjust[c].change) \in Levels
      BY <3>1, UpdateRange
    <3> QED
      BY <1>3, <2>3, <3>2 DEF DesireAdjusted
  <2> QED
    BY <1>4, <2>1, <2>2, <2>3 DEF Skill
<1>5. CASE FanAlone
  <2>1. UNCHANGED told /\ told \in Levels \cup {NoLevel}
    BY <1>5 DEF FanAlone, skillVars, AdjustInv
  <2>2. ASSUME NEW level \in Levels, NothingElse(level)
        PROVE  NothingElse(level)'
    <3>1. NothingElseInAir(level)' /\ NothingElseInFan(level)'
      BY <1>5, <2>2, NothingElseParts, FanBringsNothing DEF FanAlone
    <3> QED
      BY <3>1 DEF NothingElse, NothingElseInAir, NothingElseInFan
  <2>3. CASE told = NoLevel
    BY <2>1, <2>3 DEF OnlyTold
  <2>4. CASE told # NoLevel
    <3>1. told \in Levels /\ NothingElse(told) /\ told' = told
      BY <2>1, <2>4 DEF OnlyTold
    <3>2. ASSUME NEW level \in Levels, NothingElse(level), told' = level
          PROVE  NothingElse(told)'
      <4>1. NothingElse(level)'
        BY <2>2, <3>2
      <4> QED
        BY <3>2, <4>1 DEF NothingElse, OnlyQueued
    <3> QED
      BY <3>1, <3>2 DEF OnlyTold
  <2> QED
    BY <2>3, <2>4
<1> QED
  BY <1>1, <1>2, <1>4, <1>5 DEF SkillNext

\* What Alexa answered to a request made at rest is what the motor does when all
\* is quiet again, whatever the network, the Wi-Fi, the tasks of the device and
\* the other invocations did meanwhile, unless something was lost.
THEOREM SkillCarriesOut == LevelsOfButtons => (SkillSpec => []AnswerCarriedOut)
<1>1. SkillInit => OnlyTold
  BY DEF SkillInit, OnlyTold
<1>2. OnlyTold /\ QuietMeansAgreed => AnswerCarriedOut
  BY DEF OnlyTold, NothingElse, QuietMeansAgreed, AnswerCarriedOut
<1>3. AgreeInv => Reporting
  BY DEF AgreeInv
<1>4. CASE ~LevelsOfButtons
  BY <1>4
<1>5. CASE LevelsOfButtons
  <2>1. PartsInv /\ AdjustInv /\ Reporting /\ OnlyTold /\ [SkillNext]_allVars => OnlyTold'
    BY <1>5, OnlyToldStep
  <2>2. Safety => []QuietMeansAgreed
    BY <1>5, AgreedWhenQuiet
  <2>3. SkillSpec => []AnswerCarriedOut
    BY <1>1, <1>2, <1>3, <2>1, <2>2, AlwaysSkill, AlwaysAgreeInv, SkillImplementsFan, PTL
       DEF SkillSpec
  <2> QED
    BY <2>3
<1> QED
  BY <1>4, <1>5

=============================================================================
