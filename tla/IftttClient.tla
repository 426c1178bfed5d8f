----------------------------- MODULE IftttClient ----------------------------
(***************************************************************************)
(* The IFTTT client, ch11/ifttt_ex/src/main.c with the temperature task    *)
(* ch11/common/sensor/app_temp.c and the Wi-Fi handler of ch11/common/wifi *)
(* (the one of module FanWifi).                                            *)
(*                                                                         *)
(* Each address the station gets starts one more task that reads and one   *)
(* more that posts; nothing ends them.  A reader puts its reading into a   *)
(* queue and resets the queue when it is full; a poster takes a reading    *)
(* out before it connects and does not put it back when that fails.        *)
(*                                                                         *)
(* A reading is its number.  A reading of the sensor that fails, and a     *)
(* poster that finds nothing and waits, change nothing.                    *)
(***************************************************************************)
EXTENDS Sequences, Integers, Functions

CONSTANTS
  QUEUE_SIZE,   \* 10 in main.c
  MAX_RETRY,    \* of app_wifi.c
  MaxAddresses, \* addresses obtained: nothing in the program limits them
  MaxReadings   \* readings of the sensor

ASSUME IftttAssumption == QUEUE_SIZE \in Nat \ {0} /\ {MaxAddresses, MaxReadings} \subseteq Nat

Tasks    == 1 .. MaxAddresses
Readings == 1 .. MaxReadings
None     == 0
Full     == -1

VARIABLES
  wifi, retry_cnt,  \* the station
  tasks,            \* readers, and posters, created
  made,             \* readings so far
  reader,           \* the reading each reader holds, None, or Full
  temp_queue,
  temp,             \* the reading each poster holds, or None
  posted            \* readings the server has got (history)

wifiVars == <<wifi, retry_cnt>>
taskVars == <<reader, temp_queue, temp, posted>>
vars     == <<wifiVars, tasks, made, taskVars>>

Wifi == INSTANCE FanWifi

\* app_main: the queue exists before the Wi-Fi starts.
Init ==
  /\ Wifi!WifiInit
  /\ tasks = 0 /\ made = 0
  /\ reader = [t \in Tasks |-> None]
  /\ temp_queue = <<>>
  /\ temp = [t \in Tasks |-> None]
  /\ posted = {}

-----------------------------------------------------------------------------
(* The Wi-Fi handler *)

appwifi_connect == Wifi!appwifi_connect /\ UNCHANGED <<tasks, made, taskVars>>

\* handle_wifi_connect, for a connection or another address on the same one.
handle_wifi_connect ==
  /\ Wifi!GotIp
  /\ tasks < MaxAddresses /\ tasks' = tasks + 1
  /\ UNCHANGED <<made, taskVars>>

StaDisconnected == Wifi!StaDisconnected /\ UNCHANGED <<tasks, made, taskVars>>

-----------------------------------------------------------------------------
(* read_temp and publish_reading, in reader t *)

read_temp(t) ==
  /\ t <= tasks
  /\ reader[t] = None
  /\ made < MaxReadings /\ made' = made + 1
  /\ reader' = [reader EXCEPT ![t] = made + 1]
  /\ UNCHANGED <<wifiVars, tasks, temp_queue, temp, posted>>

xQueueSendToBack(t) ==
  /\ reader[t] \in Readings
  /\ IF Len(temp_queue) < QUEUE_SIZE
     THEN /\ temp_queue' = Append(temp_queue, reader[t])
          /\ reader' = [reader EXCEPT ![t] = None]
     ELSE /\ reader' = [reader EXCEPT ![t] = Full]
          /\ UNCHANGED temp_queue
  /\ UNCHANGED <<wifiVars, tasks, made, temp, posted>>

\* Mutant: a full queue is kept.
KeepQueue(t) ==
  /\ reader[t] = Full
  /\ temp_queue' = temp_queue
  /\ reader' = [reader EXCEPT ![t] = None]
  /\ UNCHANGED <<wifiVars, tasks, made, temp, posted>>

\* What the posters have left of it by now, and other readers have put in.
xQueueReset(t) ==
  /\ reader[t] = Full
  /\ temp_queue' = <<>>
  /\ reader' = [reader EXCEPT ![t] = None]
  /\ UNCHANGED <<wifiVars, tasks, made, temp, posted>>

-----------------------------------------------------------------------------
(* do_post, in poster t *)

xQueueReceive(t) ==
  /\ t <= tasks
  /\ temp[t] = None
  /\ temp_queue # <<>>
  /\ temp' = [temp EXCEPT ![t] = Head(temp_queue)]
  /\ temp_queue' = Tail(temp_queue)
  /\ UNCHANGED <<wifiVars, tasks, made, reader, posted>>

\* The connection is made, the request written and the answer read to its end.
Posted(t) ==
  /\ temp[t] # None
  /\ posted' = posted \cup {temp[t]}
  /\ temp' = [temp EXCEPT ![t] = None]
  /\ UNCHANGED <<wifiVars, tasks, made, reader, temp_queue>>

\* Mutant: the reading goes back to the queue, to be posted later.
PutBack(t) ==
  /\ temp[t] # None
  /\ Len(temp_queue) < QUEUE_SIZE
  /\ temp_queue' = Append(temp_queue, temp[t])
  /\ temp' = [temp EXCEPT ![t] = None]
  /\ UNCHANGED <<wifiVars, tasks, made, reader, posted>>

\* The connection or the write fails.
PostFails(t) ==
  /\ temp[t] # None
  /\ temp' = [temp EXCEPT ![t] = None]
  /\ UNCHANGED <<wifiVars, tasks, made, reader, temp_queue, posted>>

-----------------------------------------------------------------------------
Reader(t) == read_temp(t) \/ xQueueSendToBack(t) \/ xQueueReset(t)
do_post(t) == xQueueReceive(t) \/ Posted(t) \/ PostFails(t)

Next ==
  \/ appwifi_connect \/ handle_wifi_connect \/ StaDisconnected
  \/ \E t \in Tasks : Reader(t) \/ do_post(t)

\* The tasks run, and the connection answers or fails; the Wi-Fi may stay away.
Fairness == \A t \in Tasks : WF_vars(Reader(t)) /\ WF_vars(do_post(t))

Spec == Init /\ [][Next]_vars /\ Fairness

-----------------------------------------------------------------------------
(* Properties *)

Held == {reader[t] : t \in Tasks} \cup {temp[t] : t \in Tasks}

Feed == INSTANCE IftttFeed WITH
          unsettled <- (Held \cup Range(temp_queue)) \cap Readings,
          posters   <- tasks

\* Readings are lost (main.c:46-57, 91-95), but each is posted or given up in
\* the end, none is posted twice, and none out of order until another address has
\* started a second poster (main.c:100).
KeepsPromise == Feed!Spec

\* What waits to be posted is never older than the queue is long, however slow
\* the server is, as long as one task reads: a full queue gives up everything
\* rather than the newest (main.c:91-95).
QueueIsFresh ==
  tasks = 1 => \A i \in DOMAIN temp_queue : made - temp_queue[i] <= QUEUE_SIZE

=============================================================================
