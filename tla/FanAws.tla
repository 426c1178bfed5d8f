------------------------------- MODULE FanAws -------------------------------
(***************************************************************************)
(* The cloud half of the smart fan, ch12/smart_fan/lib/aws/app_aws.c, with *)
(* the parts of the AWS IoT device SDK it runs on (client state machine,   *)
(* delta registration, version filter) and the device shadow it talks to.  *)
(*                                                                         *)
(* One task per call of appaws_connect runs forever: it clears and opens   *)
(* the one static MQTT client, registers for deltas, and from then on      *)
(* yields to the client under the mutex aws_guard.  The relay task reports *)
(* a new speed with appaws_publish, under the same mutex.  Only the loop   *)
(* and the publisher use the mutex: opening the client does not.           *)
(*                                                                         *)
(* The environment of this module is the relay task (which calls           *)
(* appaws_publish), the Wi-Fi handler (which starts tasks), the network    *)
(* and the other clients of the shadow.                                    *)
(*                                                                         *)
(* Abstractions: an update reaches the shadow in the step that ends the    *)
(* send (one TCP connection keeps updates in order, and a request of       *)
(* another client commutes with everything the device does before it sees  *)
(* the delta); JSON is a record; QoS 0 messages to the device may be lost  *)
(* and, as the SDK's version filter expects, reordered.                    *)
(***************************************************************************)
EXTENDS Integers

CONSTANTS
  Tasks,     \* the tasks the Wi-Fi handler may start, one per address obtained
  Levels     \* the power levels that can be desired or reported

ASSUME AwsAssumption ==
  /\ "relay" \notin Tasks /\ "free" \notin Tasks
  /\ Levels \subseteq 0 .. 255
  /\ 0 \in Levels

VARIABLES
  aws_guard,     \* holder of the mutex: a task, "relay" or "free"
  task,          \* where each appaws_connect task is
  client,        \* aws_client.clientStatus.clientState
  handler,       \* aws_client has the delta topic in messageHandlers
  tokens,        \* tokenTableIndex of the SDK
  subFlag,       \* deltaTopicSubscribedFlag of the SDK
  version,       \* shadowJsonVersionNum of the SDK
  cb,            \* the delta being dispatched: its level, the callbacks left
  desired_state,
  pub,           \* where appaws_publish is
  doc,           \* its document
  session,       \* the broker's side of the connection
  shadow,        \* the device shadow: desired, reported, version
  toDev          \* deltas on their way to the device

deviceVars == <<aws_guard, task, client, handler, tokens, subFlag, version, cb,
                desired_state, pub, doc>>
awsVars    == <<deviceVars, session, shadow, toDev>>

NoLevel == -1     \* the key is absent from the document

ConnectSteps == {"none", "memset", "init", "connect", "connecting", "register",
                 "subscribing", "loop", "yield"}
ClientStates == {"invalid", "initialized", "connecting", "idle", "yield",
                 "publish", "subscribe", "disconnected"}

AwsTypeOK ==
  /\ aws_guard \in Tasks \cup {"relay", "free"}
  /\ task \in [Tasks -> ConnectSteps]
  /\ client \in ClientStates
  /\ handler \in BOOLEAN
  /\ tokens \in Nat
  /\ subFlag \in BOOLEAN
  /\ version \in Nat
  /\ cb \in [level : Levels, left : Nat]
  /\ desired_state \in Levels
  /\ pub \in {"none", "wait", "sending"}
  /\ doc \in [reported : Levels, desired : Levels \cup {NoLevel}]
  /\ session \in {"none", "open", "subscribed"}
  /\ shadow \in [desired : Levels, reported : Levels, version : Nat]
  /\ toDev \subseteq [version : Nat, level : Levels]

\* RAM after a reset, and appaws_init: the mutex is created free.
DeviceInit ==
  /\ aws_guard = "free"
  /\ task = [t \in Tasks |-> "none"]
  /\ client = "invalid"
  /\ handler = FALSE
  /\ tokens = 0
  /\ subFlag = FALSE
  /\ version = 0
  /\ cb = [level |-> 0, left |-> 0]
  /\ desired_state = 0
  /\ pub = "none"
  /\ doc = [reported |-> 0, desired |-> NoLevel]

AwsInit ==
  /\ DeviceInit
  /\ session = "none"
  /\ shadow = [desired |-> 0, reported |-> 0, version |-> 0]
  /\ toDev = {}

\* aws_iot_mqtt_is_client_connected
Connected == client \in {"idle", "yield", "publish", "subscribe"}

\* aws_iot_mqtt_set_client_state: the change happens only from the state the
\* caller expects.
SetClientState(from, to) == client' = IF client = from THEN to ELSE client

-----------------------------------------------------------------------------
(* The shadow service *)

\* An accepted update gets the next version; while desired and reported differ
\* the service publishes a delta, which only a subscribed session receives.
UpdateShadow(reported, desired) ==
  LET new == [desired  |-> IF desired = NoLevel THEN shadow.desired ELSE desired,
              reported |-> IF reported = NoLevel THEN shadow.reported ELSE reported,
              version  |-> shadow.version + 1]
  IN  /\ shadow' = new
      /\ toDev' = IF new.desired # new.reported /\ session = "subscribed"
                  THEN toDev \cup {[version |-> new.version, level |-> new.desired]}
                  ELSE toDev

\* Another client of the shadow, the Lambda of the Alexa skill among them,
\* sets the desired level.
CloudRequest(level) ==
  /\ UpdateShadow(NoLevel, level)
  /\ UNCHANGED <<deviceVars, session>>

LoseDelta ==
  /\ \E d \in toDev : toDev' = toDev \ {d}
  /\ UNCHANGED <<deviceVars, session, shadow>>

\* The connection breaks: the broker forgets a clean session.
DropSession ==
  /\ session # "none"
  /\ session' = "none"
  /\ toDev' = {}
  /\ UNCHANGED <<deviceVars, shadow>>

-----------------------------------------------------------------------------
(* appaws_connect(param), up to its loop *)

GoTo(t, step) == task' = [task EXCEPT ![t] = step]

Start(t) ==
  /\ task[t] = "none"
  /\ GoTo(t, "memset")
  /\ UNCHANGED <<aws_guard, client, handler, tokens, subFlag, version, cb,
                 desired_state, pub, doc, session, shadow, toDev>>

\* The memory of the client, its connection and its handlers, is cleared
\* whoever is using it; the broker's session is no longer read by anyone.
ClearClient(t) ==
  /\ task[t] = "memset"
  /\ GoTo(t, "init")
  /\ client' = "invalid"
  /\ handler' = FALSE
  /\ session' = "none"
  /\ toDev' = {}
  /\ UNCHANGED <<aws_guard, tokens, subFlag, version, cb, desired_state, pub, doc,
                 shadow>>

\* Mutant: a dispatch in progress goes on with the tokens it has counted.
InitBesideDispatch(t) ==
  /\ task[t] = "init"
  /\ GoTo(t, "connect")
  /\ client' = "initialized"
  /\ handler' = FALSE
  /\ tokens' = 0
  /\ subFlag' = FALSE
  /\ version' = 0
  /\ UNCHANGED <<aws_guard, cb, desired_state, pub, doc, session, shadow, toDev>>

\* aws_iot_shadow_init; enableAutoReconnect keeps its default, false.  A
\* dispatch in progress re-reads tokenTableIndex and ends.
InitClient(t) ==
  /\ task[t] = "init"
  /\ GoTo(t, "connect")
  /\ client' = "initialized"
  /\ handler' = FALSE
  /\ tokens' = 0
  /\ subFlag' = FALSE
  /\ version' = 0
  /\ cb' = [cb EXCEPT !.left = 0]
  /\ UNCHANGED <<aws_guard, desired_state, pub, doc, session, shadow, toDev>>

\* aws_iot_mqtt_connect refuses a client that is connected or connecting; the
\* task tries again a second later, forever.
BeginConnect(t) ==
  /\ task[t] = "connect"
  /\ client \in {"initialized", "disconnected"}
  /\ client' = "connecting"
  /\ GoTo(t, "connecting")
  /\ UNCHANGED <<aws_guard, handler, tokens, subFlag, version, cb, desired_state,
                 pub, doc, session, shadow, toDev>>

ConnectFails(t) ==
  /\ task[t] = "connecting"
  /\ SetClientState("connecting", "disconnected")
  /\ GoTo(t, "connect")
  /\ UNCHANGED <<aws_guard, handler, tokens, subFlag, version, cb, desired_state,
                 pub, doc, session, shadow, toDev>>

\* A new clean session replaces the one of the same client id.
ConnectSucceeds(t) ==
  /\ task[t] = "connecting"
  /\ SetClientState("connecting", "idle")
  /\ session' = "open"
  /\ toDev' = {}
  /\ GoTo(t, "register")
  /\ UNCHANGED <<aws_guard, handler, tokens, subFlag, version, cb, desired_state,
                 pub, doc, shadow>>

\* aws_iot_shadow_register_delta, before it waits for the broker.  Three ways
\* out without a subscription: the client is not connected (no token either),
\* the flag says it is subscribed already, or the client is busy; the last
\* sets the flag all the same.  The result is only logged.
RegisterWithoutSubscribe(t) ==
  /\ task[t] = "register"
  /\ \/ ~Connected /\ UNCHANGED <<tokens, subFlag>>
     \/ Connected /\ (subFlag \/ client # "idle") /\ tokens' = tokens + 1 /\ subFlag' = TRUE
  /\ GoTo(t, "loop")
  /\ UNCHANGED <<aws_guard, client, handler, version, cb, desired_state, pub, doc,
                 session, shadow, toDev>>

BeginSubscribe(t) ==
  /\ task[t] = "register"
  /\ client = "idle" /\ ~subFlag
  /\ client' = "subscribe"
  /\ GoTo(t, "subscribing")
  /\ UNCHANGED <<aws_guard, handler, tokens, subFlag, version, cb, desired_state,
                 pub, doc, session, shadow, toDev>>

\* Mutant: the client is not set back to idle when the wait ends.
EndSubscribeBusy(t) ==
  /\ task[t] = "subscribing"
  /\ tokens' = tokens + 1
  /\ subFlag' = TRUE
  /\ GoTo(t, "loop")
  /\ UNCHANGED <<aws_guard, client, handler, version, cb, desired_state, pub, doc,
                 session, shadow, toDev>>

\* SUBACK arrives, or the wait ends with an error; the token is added and the
\* flag set in both cases.
EndSubscribe(t) ==
  /\ task[t] = "subscribing"
  /\ \/ session # "none" /\ client = "subscribe" /\ session' = "subscribed" /\ handler' = TRUE
     \/ UNCHANGED <<session, handler>>
  /\ SetClientState("subscribe", "idle")
  /\ tokens' = tokens + 1
  /\ subFlag' = TRUE
  /\ GoTo(t, "loop")
  /\ UNCHANGED <<aws_guard, version, cb, desired_state, pub, doc, shadow, toDev>>

-----------------------------------------------------------------------------
(* The loop of appaws_connect.  A take of aws_guard that times out, and a    *)
(* yield on a client that is not idle, change nothing and need no action.    *)

BeginYield(t) ==
  /\ task[t] = "loop"
  /\ aws_guard = "free"
  /\ client = "idle"
  /\ aws_guard' = t
  /\ client' = "yield"
  /\ GoTo(t, "yield")
  /\ UNCHANGED <<handler, tokens, subFlag, version, cb, desired_state, pub, doc,
                 session, shadow, toDev>>

\* Mutant: deltas are not filtered by version.
ReceiveAnyDelta(t) ==
  /\ task[t] = "yield"
  /\ cb.left = 0
  /\ handler
  /\ \E d \in toDev :
       /\ toDev' = toDev \ {d}
       /\ version' = d.version /\ cb' = [level |-> d.level, left |-> tokens]
  /\ UNCHANGED <<aws_guard, task, client, handler, tokens, subFlag, desired_state,
                 pub, doc, session, shadow>>

\* Mutant: the version kept is the next one expected.
ReceiveExpectingNext(t) ==
  /\ task[t] = "yield"
  /\ cb.left = 0
  /\ handler
  /\ \E d \in toDev :
       /\ toDev' = toDev \ {d}
       /\ IF d.version >= version
          THEN version' = d.version + 1 /\ cb' = [level |-> d.level, left |-> tokens]
          ELSE UNCHANGED <<version, cb>>
  /\ UNCHANGED <<aws_guard, task, client, handler, tokens, subFlag, desired_state,
                 pub, doc, session, shadow>>

\* shadow_delta_callback: a version not above the last one seen is discarded.
\* The state CONNECTED_WAIT_FOR_CB_RETURN of a client that dispatches is not told
\* apart from yield: DispatchMeansSubscribed says why nobody can see it.
ReceiveDelta(t) ==
  /\ task[t] = "yield"
  /\ cb.left = 0
  /\ handler
  /\ \E d \in toDev :
       /\ toDev' = toDev \ {d}
       /\ IF d.version > version
          THEN version' = d.version /\ cb' = [level |-> d.level, left |-> tokens]
          ELSE UNCHANGED <<version, cb>>
  /\ UNCHANGED <<aws_guard, task, client, handler, tokens, subFlag, desired_state,
                 pub, doc, session, shadow>>

\* One registered callback; fan_cb is apphw_set_state (module SmartFan).
fan_powerlevel_change_requested(t) ==
  /\ task[t] = "yield"
  /\ cb.left > 0
  /\ desired_state' = cb.level
  /\ cb' = [cb EXCEPT !.left = @ - 1]
  /\ UNCHANGED <<aws_guard, task, client, handler, tokens, subFlag, version, pub,
                 doc, session, shadow, toDev>>

\* Mutant: the mutex is given before the callbacks have run.
EndYieldEarly(t) ==
  /\ task[t] = "yield"
  /\ SetClientState("yield", "idle")
  /\ aws_guard' = "free"
  /\ GoTo(t, "loop")
  /\ UNCHANGED <<handler, tokens, subFlag, version, cb, desired_state, pub, doc,
                 session, shadow, toDev>>

\* Mutant: the mutex is not given.
EndYieldKeepingGuard(t) ==
  /\ task[t] = "yield"
  /\ cb.left = 0
  /\ SetClientState("yield", "idle")
  /\ GoTo(t, "loop")
  /\ UNCHANGED <<aws_guard, handler, tokens, subFlag, version, cb, desired_state, pub,
                 doc, session, shadow, toDev>>

\* The yield ends after 250 ms, or on an error that keeps the connection.
EndYield(t) ==
  /\ task[t] = "yield"
  /\ cb.left = 0
  /\ SetClientState("yield", "idle")
  /\ aws_guard' = "free"
  /\ GoTo(t, "loop")
  /\ UNCHANGED <<handler, tokens, subFlag, version, cb, desired_state, pub, doc,
                 session, shadow, toDev>>

\* Mutant: the mutex is kept when the yield fails.
YieldFailsKeepingGuard(t) ==
  /\ task[t] = "yield"
  /\ cb.left = 0
  /\ session = "none"
  /\ client' = "disconnected"
  /\ GoTo(t, "loop")
  /\ UNCHANGED <<aws_guard, handler, tokens, subFlag, version, cb, desired_state, pub,
                 doc, session, shadow, toDev>>

\* The read fails, the SDK disconnects, whatever the state of the client, and
\* calls disconnected_handler, which only logs.  Auto-reconnect is off.
YieldDisconnects(t) ==
  /\ task[t] = "yield"
  /\ cb.left = 0
  /\ session = "none"
  /\ client' = "disconnected"
  /\ aws_guard' = "free"
  /\ GoTo(t, "loop")
  /\ UNCHANGED <<handler, tokens, subFlag, version, cb, desired_state, pub, doc,
                 session, shadow, toDev>>

-----------------------------------------------------------------------------
(* appaws_publish(val), called by the relay task *)

\* The document is built, from a desired_state read without the mutex.
BuildDocument(val) ==
  /\ pub = "none"
  /\ doc' = [reported |-> val,
             desired  |-> IF desired_state # val THEN val ELSE NoLevel]
  /\ pub' = "wait"
  /\ UNCHANGED <<aws_guard, task, client, handler, tokens, subFlag, version, cb,
                 desired_state, session, shadow, toDev>>

\* Mutant: a report waits for a client that has lost its connection.
PublishWaits ==
  /\ pub = "wait"
  /\ aws_guard = "free"
  /\ client \notin {"idle", "disconnected"}
  /\ pub' = "none"
  /\ UNCHANGED <<aws_guard, task, client, handler, tokens, subFlag, version, cb,
                 desired_state, doc, session, shadow, toDev>>

\* aws_iot_shadow_update and aws_iot_mqtt_publish accept an idle client only;
\* otherwise the error is logged, the mutex given and the report is lost.
PublishRefused ==
  /\ pub = "wait"
  /\ aws_guard = "free"
  /\ client # "idle"
  /\ pub' = "none"
  /\ UNCHANGED <<aws_guard, task, client, handler, tokens, subFlag, version, cb,
                 desired_state, doc, session, shadow, toDev>>

BeginPublish ==
  /\ pub = "wait"
  /\ aws_guard = "free"
  /\ client = "idle"
  /\ aws_guard' = "relay"
  /\ client' = "publish"
  /\ pub' = "sending"
  /\ UNCHANGED <<task, handler, tokens, subFlag, version, cb, desired_state, doc,
                 session, shadow, toDev>>

\* Mutant: the mutex is not given.
FinishPublishKeepingGuard ==
  /\ pub = "sending"
  /\ SetClientState("publish", "idle")
  /\ pub' = "none"
  /\ UNCHANGED <<aws_guard, task, handler, tokens, subFlag, version, cb, desired_state,
                 doc, session>>

\* The common end of a publish: the send returns and the mutex is given.
FinishPublish ==
  /\ pub = "sending"
  /\ SetClientState("publish", "idle")
  /\ aws_guard' = "free"
  /\ pub' = "none"
  /\ UNCHANGED <<task, handler, tokens, subFlag, version, cb, desired_state, doc, session>>

PublishArrives ==
  /\ FinishPublish
  /\ session # "none"
  /\ UpdateShadow(doc.reported, doc.desired)

\* QoS 0: the packet is written to a connection that is broken, or breaks.
PublishLost ==
  /\ FinishPublish
  /\ session = "none"
  /\ UNCHANGED <<shadow, toDev>>

-----------------------------------------------------------------------------
\* A power cycle: the device forgets everything, the shadow nothing.
AwsReset ==
  /\ aws_guard' = "free"
  /\ task' = [t \in Tasks |-> "none"]
  /\ client' = "invalid" /\ handler' = FALSE
  /\ tokens' = 0 /\ subFlag' = FALSE /\ version' = 0
  /\ cb' = [level |-> 0, left |-> 0]
  /\ desired_state' = 0
  /\ pub' = "none" /\ doc' = [reported |-> 0, desired |-> NoLevel]
  /\ session' = "none" /\ toDev' = {}
  /\ UNCHANGED shadow

\* The steps of task t that wait for nobody
Opening(t) ==
  \/ ClearClient(t) \/ InitClient(t) \/ BeginConnect(t) \/ ConnectFails(t)
  \/ RegisterWithoutSubscribe(t) \/ BeginSubscribe(t) \/ EndSubscribe(t)

EndOfYield(t) == EndYield(t) \/ YieldDisconnects(t)

Publishing == PublishRefused \/ BeginPublish \/ PublishArrives \/ PublishLost

AwsNext ==
  \/ \E t \in Tasks :
       \/ Start(t) \/ Opening(t) \/ ConnectSucceeds(t)
       \/ BeginYield(t) \/ ReceiveDelta(t) \/ EndOfYield(t)
       \/ fan_powerlevel_change_requested(t)
  \/ \E val \in Levels : BuildDocument(val) \/ CloudRequest(val)
  \/ Publishing
  \/ LoseDelta \/ DropSession
  \/ AwsReset

AwsSafety == AwsInit /\ [][AwsNext]_awsVars

-----------------------------------------------------------------------------
(* Properties *)

\* The mutex is held exactly while its holder is inside the SDK: it is never
\* leaked, and yields and publishes never overlap, however many
\* appaws_connect tasks the Wi-Fi handler has started (app_aws.c:99-103, 137-142).
GuardMatchesHolder ==
  /\ aws_guard = "relay" <=> pub = "sending"
  /\ \A t \in Tasks : aws_guard = t <=> task[t] = "yield"

\* A client in the middle of a yield, a publish, a subscribe or a connect is so
\* because some task is still inside that call: a stuck state would make every
\* later call fail (MQTT_CLIENT_NOT_IDLE_ERROR).
BusyClientHasOwner ==
  /\ client = "publish" => aws_guard = "relay"
  /\ client = "yield" => aws_guard \in Tasks
  /\ client = "subscribe" => \E t \in Tasks : task[t] = "subscribing"
  /\ client = "connecting" => \E t \in Tasks : task[t] = "connecting"

\* Deltas are dispatched, and desired_state written, under the mutex only.
CallbackUnderGuard == cb.left > 0 => aws_guard \in Tasks

\* While a delta is dispatched the flag says subscribed.  A subscribe is the one
\* call, besides the publish under the mutex, that tells a client in a callback
\* from one in a yield, and the flag keeps a second task from making it.
DispatchMeansSubscribed == cb.left > 0 => subFlag

\* The device never acts on a delta that is older than one it acted on before
\* through the same client, although deltas may be reordered: the version it
\* keeps goes up, or back to zero when a task opens the client anew.
VersionNeverBack == [][version' >= version \/ version' = 0]_awsVars

\* No delta comes from the future of the shadow.
VersionsOfShadow ==
  /\ version <= shadow.version
  /\ \A d \in toDev : d.version <= shadow.version

=============================================================================
