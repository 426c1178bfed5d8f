------------------------------ MODULE MeshHome ------------------------------
(***************************************************************************)
(* The Bluetooth mesh home of ch9: a gateway that turns a form of a web    *)
(* page into a command (gateway/), a light sensor that publishes when it   *)
(* gets dark or bright (light_sensor/) and a switch with a relay that      *)
(* obeys whoever spoke last (switch/).                                     *)
(*                                                                         *)
(* Nothing is acknowledged or repeated: the command is a broadcast without *)
(* acknowledgement and the sensor speaks only when its state changes.      *)
(* Every node can be off the mesh: before init_ble, before it has been     *)
(* provisioned, after it has been reset, which reboots it five seconds     *)
(* later.  Provisioning survives a reboot (CONFIG_BLE_MESH_SETTINGS).      *)
(*                                                                         *)
(* The mesh is external: messages of one sender arrive in order, those of  *)
(* two senders in any order, each may be lost; a sender has at most MaxAir *)
(* of them on the way (a reading a second, a form at a time).  The relay   *)
(* of a node that reboots opens.  What a switch publishes after a command, *)
(* and a broadcast at the sensor, changes nothing in the three programs.   *)
(***************************************************************************)
EXTENDS Sequences, Integers

CONSTANTS
  MAX_RETRY,   \* of app_ip.c
  MaxAir,      \* messages of one sender on the way
  MaxPosts,    \* forms sent to the gateway
  MaxFaults    \* lost messages, resets and power failures

ASSUME MeshAssumption ==
  /\ {MAX_RETRY, MaxAir, MaxPosts, MaxFaults} \subseteq Nat
  /\ MaxAir > 0

Nodes   == {"gateway", "sensor", "switch"}
Senders == {"gateway", "sensor"}

VARIABLES
  wifi, retry_cnt,   \* the station of the gateway
  server,            \* the web server runs
  mesh,              \* what each node is on the mesh
  stored,            \* provisioned, in the NVS of each node
  rebooting,         \* the task reboot_after_ble_reset exists
  lux,               \* the light, compared to LIGHT_THRESHOLD
  light_level_low,
  air,               \* commands and publications on the way to the switch
  m_status,          \* the switch; its relay and srv->state are set with it
  obeyed,            \* whom the switch obeyed last since its boot (history)
  newest,            \* where the newest word about the light is (history)
  posts, faults      \* counters for the bounds

gatewayVars == <<wifi, retry_cnt, server>>
nodeVars    == <<mesh, stored, rebooting>>
switchVars  == <<m_status, obeyed>>
vars == <<gatewayVars, nodeVars, lux, light_level_low, air, switchVars, newest, posts, faults>>

\* gateway/src/app_ip.c is the Wi-Fi handler of the smart fan under another name.
Ip == INSTANCE FanWifi

TypeOK ==
  /\ Ip!WifiTypeOK
  /\ server \in BOOLEAN
  /\ mesh \in [Nodes -> {"boot", "open", "node"}]
  /\ {stored, rebooting} \subseteq [Nodes -> BOOLEAN]
  /\ lux \in {"below", "at", "above"}
  /\ {light_level_low, m_status} \subseteq BOOLEAN
  /\ \A s \in Senders : air[s] \in Seq(BOOLEAN) /\ Len(air[s]) <= MaxAir
  /\ obeyed \in Senders \cup {"nobody"}
  /\ newest \in {"air", "switch", "lost"}
  /\ posts \in 0 .. MaxPosts /\ faults \in 0 .. MaxFaults

Init ==
  /\ Ip!WifiInit /\ server = FALSE
  /\ mesh = [n \in Nodes |-> "boot"]
  /\ stored = [n \in Nodes |-> FALSE]
  /\ rebooting = [n \in Nodes |-> FALSE]
  /\ lux = "above" /\ light_level_low = FALSE
  /\ air = [s \in Senders |-> <<>>]
  /\ m_status = FALSE /\ obeyed = "nobody" /\ newest = "switch"
  /\ posts = 0 /\ faults = 0

-----------------------------------------------------------------------------
(* A node and the mesh *)

\* app_main has come to init_ble; the gateway has called appip_connect_wifi first.
init_ble(n) ==
  /\ mesh[n] = "boot"
  /\ n = "gateway" => wifi # "stopped"
  /\ mesh' = [mesh EXCEPT ![n] = IF stored[n] THEN "node" ELSE "open"]
  /\ UNCHANGED <<gatewayVars, stored, rebooting, lux, light_level_low, air, switchVars,
                 newest, posts, faults>>

\* PROV_COMPLETE, with the keys, the subscription of the switch and the
\* publication address of the sensor.
Provision(n) ==
  /\ mesh[n] = "open"
  /\ mesh' = [mesh EXCEPT ![n] = "node"]
  /\ stored' = [stored EXCEPT ![n] = TRUE]
  /\ UNCHANGED <<gatewayVars, rebooting, lux, light_level_low, air, switchVars,
                 newest, posts, faults>>

Fault == faults < MaxFaults /\ faults' = faults + 1

\* PROV_RESET: the node leaves the mesh and a task is to reboot it.
ProvReset(n) ==
  /\ Fault
  /\ mesh[n] = "node"
  /\ mesh' = [mesh EXCEPT ![n] = "open"]
  /\ stored' = [stored EXCEPT ![n] = FALSE]
  /\ rebooting' = [rebooting EXCEPT ![n] = TRUE]
  /\ UNCHANGED <<gatewayVars, lux, light_level_low, air, switchVars, newest, posts>>

\* With its relay open, the switch is where the newest word left it only if that
\* was "bright"; a sensor that forgets that it is dark says nothing of it.
ForgetsDark(n) == light_level_low /\ (n = "sensor" \/ (n = "switch" /\ newest = "switch"))

\* The node starts again from its reset, whatever its program was doing.
Boot(n) ==
  /\ mesh' = [mesh EXCEPT ![n] = "boot"]
  /\ rebooting' = [rebooting EXCEPT ![n] = FALSE]
  /\ IF n = "gateway" THEN Ip!WifiReset /\ server' = FALSE ELSE UNCHANGED gatewayVars
  /\ IF n = "switch" THEN m_status' = FALSE /\ obeyed' = "nobody" ELSE UNCHANGED switchVars
  /\ light_level_low' = (light_level_low /\ n # "sensor")
  /\ newest' = IF ForgetsDark(n) THEN "lost" ELSE newest
  /\ UNCHANGED <<stored, lux, air, posts>>

reboot_after_ble_reset(n) == rebooting[n] /\ Boot(n) /\ UNCHANGED faults

PowerFails(n) == Fault /\ Boot(n)

-----------------------------------------------------------------------------
(* The gateway *)

appip_connect_wifi ==
  /\ Ip!appwifi_connect
  /\ UNCHANGED <<server, nodeVars, lux, light_level_low, air, switchVars, newest, posts, faults>>

\* on_connected starts the web server; a second server finds its port taken.
wifi_connected ==
  /\ Ip!GotIp
  /\ server' = TRUE
  /\ UNCHANGED <<nodeVars, lux, light_level_low, air, switchVars, newest, posts, faults>>

handle_wifi_disconnected ==
  /\ Ip!StaDisconnected
  /\ UNCHANGED <<server, nodeVars, lux, light_level_low, air, switchVars, newest, posts, faults>>

\* A message of s; a node that is not on the mesh gets an error it ignores.
Send(s, onoff) == air' = IF mesh[s] = "node" THEN [air EXCEPT ![s] = Append(@, onoff)] ELSE air

\* handle_http_post calls appble_set_switch; the browser gets its page anyway.
appble_set_switch(onoff) ==
  /\ server /\ wifi = "up"
  /\ posts < MaxPosts /\ posts' = posts + 1
  /\ Len(air["gateway"]) < MaxAir
  /\ Send("gateway", onoff)
  /\ UNCHANGED <<gatewayVars, nodeVars, lux, light_level_low, switchVars, newest, faults>>

-----------------------------------------------------------------------------
(* The light sensor *)

LightChanges ==
  /\ \E l \in {"below", "at", "above"} \ {lux} : lux' = l
  /\ UNCHANGED <<gatewayVars, nodeVars, light_level_low, air, switchVars, newest, posts, faults>>

\* Mutant: the state is published twice.
UpdateStateTwice(onoff) ==
  /\ air' = IF mesh["sensor"] = "node" THEN [air EXCEPT !["sensor"] = @ \o <<onoff, onoff>>]
            ELSE air
  /\ newest' = IF mesh["sensor"] = "node" THEN "air" ELSE "lost"

\* Mutant: what is published is the state before.
UpdateStateLate(onoff) ==
  /\ Send("sensor", light_level_low)
  /\ newest' = IF mesh["sensor"] = "node" THEN "air" ELSE "lost"

\* Before init_ble, and off the mesh, the publication fails and is not repeated.
appble_update_state(onoff) ==
  /\ Send("sensor", onoff)
  /\ newest' = IF mesh["sensor"] = "node" THEN "air" ELSE "lost"

ItIsDark   == lux = "below" /\ ~light_level_low
ItIsBright == lux = "above" /\ light_level_low

\* One round of the task, with a reading that crosses the threshold; at the
\* threshold itself, and when the sensor does not answer, nothing happens.
read_light ==
  /\ ItIsDark \/ ItIsBright
  /\ Len(air["sensor"]) < MaxAir
  /\ light_level_low' = ItIsDark
  /\ appble_update_state(ItIsDark)
  /\ UNCHANGED <<gatewayVars, nodeVars, lux, switchVars, posts, faults>>

-----------------------------------------------------------------------------
(* The switch *)

\* The word of s leaves the air.
Taken(s) ==
  /\ air[s] # <<>>
  /\ air' = [air EXCEPT ![s] = Tail(@)]

WasNewest(s) == s = "sensor" /\ newest = "air" /\ Len(air[s]) = 1

\* Mutant: the word of the sensor does not reach the relay after a command.
CommandStays(s) ==
  /\ mesh["switch"] = "node"
  /\ Taken(s)
  /\ m_status' = IF obeyed = "gateway" /\ s = "sensor" THEN m_status ELSE Head(air[s])
  /\ obeyed' = IF obeyed = "gateway" THEN obeyed ELSE s
  /\ newest' = IF WasNewest(s) THEN "switch" ELSE newest
  /\ UNCHANGED <<gatewayVars, nodeVars, lux, light_level_low, posts, faults>>

\* set_switch_state, from generic_server_cb for a command of the gateway and
\* from generic_client_cb for a publication of the sensor.
set_switch_state(s) ==
  /\ mesh["switch"] = "node"
  /\ Taken(s)
  /\ m_status' = Head(air[s])
  /\ obeyed' = s
  /\ newest' = IF WasNewest(s) THEN "switch" ELSE newest
  /\ UNCHANGED <<gatewayVars, nodeVars, lux, light_level_low, posts, faults>>

Unheard(s) ==
  /\ Taken(s)
  /\ newest' = IF WasNewest(s) THEN "lost" ELSE newest
  /\ UNCHANGED <<gatewayVars, nodeVars, lux, light_level_low, switchVars, posts>>

\* The switch is not on the mesh.
NotListening(s) == mesh["switch"] # "node" /\ Unheard(s) /\ UNCHANGED faults

Lost(s) == Fault /\ Unheard(s)

-----------------------------------------------------------------------------
Next ==
  \/ \E n \in Nodes : \/ init_ble(n) \/ Provision(n) \/ ProvReset(n)
                      \/ reboot_after_ble_reset(n) \/ PowerFails(n)
  \/ appip_connect_wifi \/ wifi_connected \/ handle_wifi_disconnected
  \/ \E onoff \in BOOLEAN : appble_set_switch(onoff)
  \/ LightChanges \/ read_light
  \/ \E s \in Senders : set_switch_state(s) \/ NotListening(s) \/ Lost(s)

\* A program that can run does, a message on the way arrives if it is not lost,
\* and the sensor reads the light again and again; people, the light and the
\* Wi-Fi do as they please.
Fairness ==
  /\ \A n \in Nodes : WF_vars(init_ble(n)) /\ WF_vars(reboot_after_ble_reset(n))
  /\ WF_vars(appip_connect_wifi)
  /\ \A s \in Senders : WF_vars(set_switch_state(s) \/ NotListening(s))
  /\ WF_vars(read_light)

Spec == Init /\ [][Next]_vars /\ Fairness

-----------------------------------------------------------------------------
(* Properties *)

\* The relay contradicts the sensor only while the sensor's word is on its way
\* or has been lost, or when the gateway had the last word.  Lost includes the
\* reboot of a switch in the dark and of a sensor that had said "dark": neither
\* is ever repaired by the programs (app_sensor.c:27-43, app_sw.c:12).
RelayFollowsLight ==
  newest = "switch" /\ obeyed # "gateway" => m_status = light_level_low

\* The next change of the light repairs whatever was lost: when the sensor and
\* the switch stay on the mesh and the light keeps crossing the threshold, then
\* from some time on the relay agrees with the sensor whenever none of its
\* words is on the way, whatever the users and the faults did before.
RepairedByNextChange ==
  /\ <>[](\A n \in {"sensor", "switch"} : mesh[n] = "node")
  /\ []<><<read_light>>_vars
  => <>[](air["sensor"] = <<>> => m_status = light_level_low)

=============================================================================
