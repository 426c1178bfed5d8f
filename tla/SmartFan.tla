------------------------------ MODULE SmartFan ------------------------------
(***************************************************************************)
(* The whole firmware of ch12/smart_fan, as src/main.c puts it together:   *)
(*                                                                         *)
(*    apphw_init(appaws_publish)      fan_cb of FanHw is appaws_publish    *)
(*    appaws_init(apphw_set_state)    the delta callback calls into FanHw  *)
(*    appwifi_connect(cbs)            every address obtained starts one    *)
(*                                    more appaws_connect task             *)
(*                                                                         *)
(* Every step of the system is a step of FanHw, of FanAws, of FanWifi, or  *)
(* a call that is a step of two of them.                                   *)
(*                                                                         *)
(* Three auxiliary variables record the history: they appear in no guard   *)
(* but those of the bounds.                                                *)
(***************************************************************************)
EXTENDS FanHw, FanAws, FanWifi

CONSTANTS
  MaxPresses,    \* accepted interrupts
  MaxRequests,   \* requests of other shadow clients
  MaxDrops,      \* connections lost while the Wi-Fi stays up
  MaxRestarts,   \* power cycles and aborts
  Lossy          \* whether the network loses a delta of a live session

ASSUME FanAssumption ==
  /\ \A i \in Idx : BtnVal[i] \in Levels
  /\ {MaxPresses, MaxRequests, MaxDrops, MaxRestarts} \subseteq Nat
  /\ Lossy \in BOOLEAN

VARIABLES
  count,      \* how often each bounded event has happened
  lastBtn,    \* the index of the last accepted interrupt
  lost        \* whether a request, a delta or a report was ever lost

auxVars == <<count, lastBtn, lost>>
vars    == <<hwVars, awsVars, wifiVars, auxVars>>

Bounds == [presses |-> MaxPresses, requests |-> MaxRequests,
           drops |-> MaxDrops, restarts |-> MaxRestarts]

TypeOK ==
  /\ HwTypeOK /\ AwsTypeOK /\ WifiTypeOK
  /\ count \in [DOMAIN Bounds -> Nat]
  /\ \A e \in DOMAIN Bounds : count[e] <= Bounds[e]
  /\ lastBtn \in Idx
  /\ lost \in BOOLEAN

Init ==
  /\ HwInit /\ AwsInit /\ WifiInit
  /\ count = [e \in DOMAIN Bounds |-> 0]
  /\ lastBtn = 0
  /\ lost = FALSE

\* One more bounded event e.
Count(e) ==
  /\ count[e] < Bounds[e]
  /\ count' = [count EXCEPT ![e] = @ + 1]

\* The level the fan reports.
apphw_get_state == BtnVal[active_btn_idx]

-----------------------------------------------------------------------------
(* Steps of the hardware half alone *)

Boot ==
  /\ BootStep
  /\ UNCHANGED <<awsVars, wifiVars, auxVars>>

Press(i) ==
  /\ button_handler(i)
  /\ Count("presses")
  /\ lastBtn' = i
  /\ lost' = (lost \/ Len(idx_queue) = QLEN)
  /\ UNCHANGED <<awsVars, wifiVars>>

DebounceTick ==
  /\ DebounceOver \/ TickWrap
  /\ UNCHANGED <<awsVars, wifiVars, auxVars>>

\* app_main calls appaws_init and appwifi_connect well within the 250 ms that
\* the relay task sleeps before its first report.
RelayStep ==
  /\ RelayTask
  /\ rpc = "delay" => wifi # "stopped"
  /\ UNCHANGED <<awsVars, wifiVars, auxVars>>

-----------------------------------------------------------------------------
(* Calls between the halves *)

\* set_relay_task calls appaws_publish(btn_map[idx].val).
CallPublish ==
  /\ rpc = "call"
  /\ BuildDocument(BtnVal[idx])
  /\ UNCHANGED <<hwVars, wifiVars, auxVars>>

\* Mutant: the report is sent by a task of its own, and nobody waits for it.
PublishInBackground ==
  /\ \/ PublishRefused /\ CallReturns /\ lost' = TRUE
     \/ BeginPublish /\ CallReturns /\ UNCHANGED lost
     \/ PublishArrives /\ UNCHANGED hwVars /\ UNCHANGED lost
     \/ PublishLost /\ UNCHANGED hwVars /\ lost' = TRUE
  /\ UNCHANGED <<wifiVars, count, lastBtn>>

\* The publisher goes on; its last step returns to the relay task.  A report
\* that disagrees with what is desired makes the service answer with a delta.
PublishStep ==
  /\ \/ PublishRefused /\ CallReturns /\ lost' = TRUE
     \/ BeginPublish /\ UNCHANGED hwVars /\ UNCHANGED lost
     \/ /\ PublishArrives /\ CallReturns
        /\ lost' = (lost \/ (shadow'.desired # shadow'.reported /\ session # "subscribed"))
     \/ PublishLost /\ CallReturns /\ lost' = TRUE
  /\ UNCHANGED <<wifiVars, count, lastBtn>>

\* The delta callback calls apphw_set_state; the queue may be full.
DeltaCallback(t) ==
  /\ fan_powerlevel_change_requested(t)
  /\ apphw_set_state(cb.level)
  /\ lost' = (lost \/ Len(idx_queue) = QLEN)
  /\ UNCHANGED <<wifiVars, count, lastBtn>>

\* appwifi_connect of app_main, after apphw_init and appaws_init.
StartWifi ==
  /\ boot = "ready"
  /\ appwifi_connect
  /\ UNCHANGED <<hwVars, awsVars, auxVars>>

\* handle_wifi_connect: every address obtained starts a task, and nothing in the
\* program limits the addresses; Tasks bounds those between two restarts.
handle_wifi_connect ==
  /\ GotIp
  /\ \E t \in Tasks : Start(t)
  /\ UNCHANGED <<hwVars, auxVars>>

\* The Wi-Fi goes down and with it the connection to the broker; when the
\* handler gives up, handle_wifi_failed only logs.
WifiLost ==
  /\ StaDisconnected
  /\ session' = "none"
  /\ toDev' = {}
  /\ lost' = (lost \/ toDev # {})
  /\ UNCHANGED <<hwVars, deviceVars, shadow, count, lastBtn>>

-----------------------------------------------------------------------------
(* Steps of the cloud half alone *)

\* A task that clears the client loses what was sent to it, and one that sets it
\* up again cuts short what another was dispatching.
OpenStep(t) ==
  /\ Opening(t)
  /\ lost' = (lost \/ (toDev # {} /\ toDev' = {}) \/ (cb.left > 0 /\ cb'.left = 0))
  /\ UNCHANGED <<hwVars, wifiVars, count, lastBtn>>

ConnectStep(t) ==
  /\ wifi = "up"
  /\ ConnectSucceeds(t)
  /\ lost' = (lost \/ toDev # {})
  /\ UNCHANGED <<hwVars, wifiVars, count, lastBtn>>

LoopStep(t) ==
  /\ BeginYield(t) \/ EndOfYield(t)
  /\ UNCHANGED <<hwVars, wifiVars, auxVars>>

ReceiveStep(t) ==
  /\ ReceiveDelta(t)
  /\ UNCHANGED <<hwVars, wifiVars, auxVars>>

\* A request that reaches no subscribed session is never seen by the device.
Request(level) ==
  /\ CloudRequest(level)
  /\ Count("requests")
  /\ lost' = (lost \/ (level # shadow.reported /\ session # "subscribed"))
  /\ UNCHANGED <<hwVars, wifiVars, lastBtn>>

DeltaLost ==
  /\ Lossy
  /\ LoseDelta
  /\ lost' = TRUE
  /\ UNCHANGED <<hwVars, wifiVars, count, lastBtn>>

Drop ==
  /\ DropSession
  /\ Count("drops")
  /\ lost' = (lost \/ toDev # {})
  /\ UNCHANGED <<hwVars, wifiVars, lastBtn>>

\* A power cycle at any time, or the abort of an interrupt before the queue.
Restart ==
  /\ PowerCycle \/ IsrWithoutQueue
  /\ AwsReset
  /\ WifiReset
  /\ Count("restarts")
  /\ lastBtn' = 0
  /\ lost' = TRUE

-----------------------------------------------------------------------------
Device ==
  \/ Boot \/ DebounceTick \/ RelayStep \/ CallPublish \/ PublishStep \/ StartWifi
  \/ \E t \in Tasks :
       OpenStep(t) \/ ConnectStep(t) \/ LoopStep(t) \/ ReceiveStep(t) \/ DeltaCallback(t)

Environment ==
  \/ \E i \in Idx : Press(i)
  \/ \E level \in Levels : Request(level)
  \/ handle_wifi_connect \/ WifiLost
  \/ DeltaLost \/ Drop \/ Restart

Next == Device \/ Environment

Safety == Init /\ [][Next]_vars

\* Every task of the device is scheduled.  The relay task waits for aws_guard
\* at priority 10, the others at priority 5 and with a time limit: the kernel
\* gives the mutex to the relay task, and a task that polls for it gets it when
\* the relay task sleeps, hence strong fairness.  A yield reads what has
\* arrived and ends after 250 ms.  Connecting succeeds in the end if it is
\* tried for ever.  Neither presses, requests nor an address are owed.
Fairness ==
  /\ WF_vars(Boot) /\ WF_vars(RelayStep)
  /\ WF_vars(CallPublish) /\ SF_vars(PublishStep)
  /\ WF_vars(StartWifi)
  /\ \A t \in Tasks :
       /\ WF_vars(OpenStep(t)) /\ SF_vars(ConnectStep(t))
       /\ SF_vars(LoopStep(t)) /\ SF_vars(ReceiveStep(t))
       /\ WF_vars(DeltaCallback(t))

Spec == Safety /\ Fairness

-----------------------------------------------------------------------------
(* Properties *)

\* No request is on its way inside the device or towards it.
Quiet ==
  /\ idx_queue = <<>> /\ rpc = "recv"
  /\ toDev = {} /\ cb.left = 0

\* When everything is quiet and nothing was ever lost, the motor does what the
\* cloud was told, and what the cloud wants: reports, echoes and requests that
\* cross on the way do not leave the three apart (app_aws.c:53-54, 130-140).
QuietMeansAgreed ==
  Quiet /\ ~lost => /\ shadow.reported = apphw_get_state
                    /\ shadow.desired = shadow.reported

\* The relay task is never stuck in its report: whoever holds aws_guard gives
\* it back, because the callback that runs under it never waits for the queue.
ReportEnds == rpc = "call" ~> rpc \in {"recv", "none"}

\* What is in the queue gets its turn at the motor, connected or not: when the
\* Wi-Fi has given up for good (app_wifi.c:29), when reports are refused or sent
\* to nobody, and whoever yields meanwhile, the relay task comes back for the next
\* press (app_hw.c:40-68, app_aws.c:137-142).
RequestsCarriedOut ==
  \A i \in Idx : (\E n \in DOMAIN idx_queue : idx_queue[n] = i) ~> active_btn_idx = i

\* Nothing is reported after a boot and a report may be lost, so the shadow can
\* be wrong for long; but each report that arrives tells it what the motor is
\* doing at that moment.  No switch overtakes the report of the one before, and
\* none is reported before its winding is on: the relay task is still in its
\* call, whatever became of the client meanwhile (app_hw.c:46-68,
\* app_aws.c:130-142).
ReportsWhatRuns ==
  [][shadow'.reported # shadow.reported =>
       /\ shadow'.reported = apphw_get_state'
       /\ Energised' = {active_btn_idx'} \cap Relays]_vars

\* Buttons and cloud cannot set each other off for ever: when presses and
\* requests stop, the fan comes to rest, in agreement unless something was lost.
ComesToRest == <>[](idx_queue = <<>> /\ rpc \in {"recv", "none", "start"})
SettlesInAgreement ==
  <>[](lost \/ /\ shadow.desired = shadow.reported
               /\ shadow.reported = apphw_get_state)

\* The system as a whole behaves as its parts were specified.
ImplementsHw   == HwSafety
ImplementsAws  == AwsSafety
ImplementsWifi == WifiSafety

\* app_hw.h:10 calls button 0 OFF.  As long as nobody uses the cloud, a fan at
\* rest is off when the last accepted press was that of the OFF button.
OffButtonTurnsOff ==
  Quiet /\ ~lost /\ count.requests = 0 /\ lastBtn = 0 => active_btn_idx = 0

\* app_aws.c:38 logs "reconnecting..." when the connection is lost: with the
\* Wi-Fi up, a disconnected client is connected again in the end.
Reconnects == client = "disconnected" ~> (Connected \/ wifi # "up")

=============================================================================
