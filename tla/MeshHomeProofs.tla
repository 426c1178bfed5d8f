---------------------------- MODULE MeshHomeProofs ----------------------------
(***************************************************************************)
(* Proofs about the Bluetooth mesh home, for any number of messages on the *)
(* way, forms and faults: the relay contradicts the light sensor only for  *)
(* the reasons that RelayFollowsLight names, and every variable keeps its  *)
(* type.                                                                   *)
(***************************************************************************)
EXTENDS MeshHome, SequenceTheorems, TLAPS

LastWord(s) == s[Len(s)]

\* The word that newest stands for is the last one of the sensor on its way, and
\* says what the sensor holds; once the switch has obeyed it, none is on its way.
WordInv ==
  /\ newest \in {"air", "switch", "lost"}
  /\ newest = "air" => air["sensor"] # <<>> /\ LastWord(air["sensor"]) = light_level_low
  /\ newest = "switch" => air["sensor"] = <<>>

RelayTypes ==
  /\ air \in [Senders -> Seq(BOOLEAN)]
  /\ light_level_low \in BOOLEAN /\ m_status \in BOOLEAN

RelayInv == RelayTypes /\ WordInv /\ RelayFollowsLight

-----------------------------------------------------------------------------
(* Words on their way *)

\* A word that is sent is the last one.
LEMMA AppendFacts ==
  ASSUME NEW s \in Seq(BOOLEAN), NEW b \in BOOLEAN
  PROVE  /\ Append(s, b) \in Seq(BOOLEAN)
         /\ Append(s, b) # <<>>
         /\ LastWord(Append(s, b)) = b
  BY DEF LastWord

\* A word that is taken is the only one, or leaves the last one behind.
LEMMA TailFacts ==
  ASSUME NEW s \in Seq(BOOLEAN), s # <<>>
  PROVE  /\ Tail(s) \in Seq(BOOLEAN)
         /\ Head(s) \in BOOLEAN
         /\ Len(s) = 1 => Tail(s) = <<>> /\ Head(s) = LastWord(s)
         /\ Len(s) # 1 => Tail(s) # <<>> /\ LastWord(Tail(s)) = LastWord(s)
<1>1. Len(s) \in Nat /\ Len(s) > 0
  BY EmptySeq, LenProperties
<1>2. Tail(s) \in Seq(BOOLEAN) /\ Len(Tail(s)) = Len(s) - 1
  BY <1>1, HeadTailProperties
<1>3. \A i \in 1 .. Len(s) - 1 : Tail(s)[i] = s[i + 1]
  BY <1>1, HeadTailProperties
<1>4. CASE Len(s) = 1
  <2>1. Len(Tail(s)) = 0
    BY <1>2, <1>4
  <2>2. Tail(s) = <<>>
    BY <1>2, <2>1, EmptySeq
  <2> QED
    BY <1>1, <1>2, <1>4, <2>2, HeadTailProperties DEF LastWord
<1>5. CASE Len(s) # 1
  <2>1. Len(Tail(s)) # 0
    BY <1>1, <1>2, <1>5
  <2>2. Tail(s) # <<>>
    BY <1>2, <2>1, EmptySeq
  <2>3. Tail(s)[Len(s) - 1] = s[Len(s)]
    <3>1. \A n \in Nat : n > 0 /\ n # 1 => n - 1 \in 1 .. n - 1 /\ (n - 1) + 1 = n
      OBVIOUS
    <3>2. Tail(s)[Len(s) - 1] = s[(Len(s) - 1) + 1]
      BY <1>1, <1>3, <1>5, <3>1
    <3> QED
      BY <1>1, <1>5, <3>1, <3>2
  <2> QED
    BY <1>1, <1>2, <1>5, <2>2, <2>3, HeadTailProperties DEF LastWord
<1> QED
  BY <1>4, <1>5

\* What the switch takes from the sensor, when and whatever becomes of it, keeps
\* the word that newest stands for at the end of the rest.
LEMMA TakenFacts ==
  ASSUME RelayInv, NEW s \in Senders, Taken(s)
  PROVE  /\ air' \in [Senders -> Seq(BOOLEAN)]
         /\ newest # "switch" \/ (s = "gateway" /\ air'["sensor"] = air["sensor"])
         /\ WasNewest(s) => air'["sensor"] = <<>> /\ Head(air[s]) = light_level_low
         /\ newest = "air" /\ ~WasNewest(s) =>
              air'["sensor"] # <<>> /\ LastWord(air'["sensor"]) = light_level_low
<1>1. air[s] \in Seq(BOOLEAN) /\ air[s] # <<>>
  BY DEF RelayInv, RelayTypes, Taken
<1>2. air' = [air EXCEPT ![s] = Tail(air[s])]
  BY DEF Taken
<1>3. Tail(air[s]) \in Seq(BOOLEAN)
  BY <1>1, TailFacts
<1>4. air' \in [Senders -> Seq(BOOLEAN)]
  BY <1>2, <1>3 DEF RelayInv, RelayTypes
<1>5. CASE s = "sensor"
  <2>1. air'["sensor"] = Tail(air["sensor"])
    BY <1>2, <1>5 DEF RelayInv, RelayTypes, Senders
  <2>2. newest # "switch"
    BY <1>1, <1>5 DEF RelayInv, WordInv
  <2> QED
    BY <1>1, <1>4, <1>5, <2>1, <2>2, TailFacts DEF WasNewest, RelayInv, WordInv
<1>6. CASE s = "gateway"
  <2>1. air'["sensor"] = air["sensor"]
    BY <1>2, <1>6 DEF RelayInv, RelayTypes, Senders
  <2> QED
    BY <1>4, <1>6, <2>1 DEF WasNewest, RelayInv, WordInv
<1> QED
  BY <1>5, <1>6 DEF Senders

-----------------------------------------------------------------------------
(* The steps *)

\* A reboot in the dark counts as a lost word, so the relay's fresh start agrees.
LEMMA BootStep ==
  ASSUME RelayInv, NEW n \in Nodes, Boot(n)
  PROVE  RelayInv'
<1>1. air' = air
  BY DEF Boot
<1>2. CASE ForgetsDark(n)
  <2>1. newest' = "lost" /\ light_level_low' \in BOOLEAN /\ m_status' \in BOOLEAN
    BY <1>2 DEF Boot, RelayInv, RelayTypes, switchVars
  <2> QED
    BY <1>1, <2>1 DEF RelayInv, RelayTypes, WordInv, RelayFollowsLight
<1>3. CASE ~ForgetsDark(n)
  <2>1. newest' = newest /\ light_level_low' = light_level_low
    BY <1>3 DEF Boot, ForgetsDark, RelayInv, RelayTypes
  <2>2. CASE n = "switch"
    <3>1. m_status' = FALSE /\ (newest = "switch" => light_level_low = FALSE)
      BY <1>3, <2>2 DEF Boot, ForgetsDark, RelayInv, RelayTypes
    <3> QED
      BY <1>1, <2>1, <3>1 DEF RelayInv, RelayTypes, WordInv, RelayFollowsLight
  <2>3. CASE n # "switch"
    <3>1. m_status' = m_status /\ obeyed' = obeyed
      BY <2>3 DEF Boot, switchVars
    <3> QED
      BY <1>1, <2>1, <3>1 DEF RelayInv, RelayTypes, WordInv, RelayFollowsLight
  <2> QED
    BY <2>2, <2>3
<1> QED
  BY <1>2, <1>3

\* A form sent to the gateway does not touch what the sensor said.
LEMMA PostStep ==
  ASSUME RelayInv, NEW onoff \in BOOLEAN, appble_set_switch(onoff)
  PROVE  RelayInv'
<1>1. UNCHANGED <<light_level_low, m_status, obeyed, newest>>
  BY DEF appble_set_switch, switchVars
<1>2. air["gateway"] \in Seq(BOOLEAN)
  BY DEF RelayInv, RelayTypes, Senders
<1>3. air' = air \/ air' = [air EXCEPT !["gateway"] = Append(air["gateway"], onoff)]
  BY DEF appble_set_switch, Send
<1>4. air' \in [Senders -> Seq(BOOLEAN)] /\ air'["sensor"] = air["sensor"]
  BY <1>2, <1>3, AppendFacts DEF RelayInv, RelayTypes, Senders
<1> QED
  BY <1>1, <1>4 DEF RelayInv, RelayTypes, WordInv, RelayFollowsLight

\* What the sensor publishes is the newest word from then on, or lost at once.
LEMMA LightStep ==
  ASSUME RelayInv, read_light
  PROVE  RelayInv'
<1>1. UNCHANGED <<m_status, obeyed>> /\ light_level_low' = ItIsDark
  BY DEF read_light, switchVars
<1>2. ItIsDark \in BOOLEAN
  BY DEF ItIsDark
<1>3. air["sensor"] \in Seq(BOOLEAN)
  BY DEF RelayInv, RelayTypes, Senders
<1>4. CASE mesh["sensor"] = "node"
  <2>1. air' = [air EXCEPT !["sensor"] = Append(air["sensor"], ItIsDark)] /\ newest' = "air"
    BY <1>4 DEF read_light, appble_update_state, Send
  <2>2. air'["sensor"] = Append(air["sensor"], ItIsDark)
    BY <2>1 DEF RelayInv, RelayTypes, Senders
  <2>3. air' \in [Senders -> Seq(BOOLEAN)]
    BY <1>2, <1>3, <2>1, AppendFacts DEF RelayInv, RelayTypes
  <2> QED
    BY <1>1, <1>2, <1>3, <2>1, <2>2, <2>3, AppendFacts
       DEF RelayInv, RelayTypes, WordInv, RelayFollowsLight
<1>5. CASE mesh["sensor"] # "node"
  <2>1. air' = air /\ newest' = "lost"
    BY <1>5 DEF read_light, appble_update_state, Send
  <2> QED
    BY <1>1, <1>2, <2>1 DEF RelayInv, RelayTypes, WordInv, RelayFollowsLight
<1> QED
  BY <1>4, <1>5

\* The switch obeys a word; with the newest one of the sensor it agrees.
LEMMA ObeyStep ==
  ASSUME RelayInv, NEW s \in Senders, set_switch_state(s)
  PROVE  RelayInv'
<1>1. Taken(s)
  BY DEF set_switch_state
<1>2. m_status' = Head(air[s]) /\ obeyed' = s /\ light_level_low' = light_level_low
  BY DEF set_switch_state
<1>3. Head(air[s]) \in BOOLEAN
  BY <1>1, TailFacts DEF RelayInv, RelayTypes, Taken
<1>4. newest' = IF WasNewest(s) THEN "switch" ELSE newest
  BY DEF set_switch_state
<1>5. RelayTypes'
  BY <1>1, <1>2, <1>3, TakenFacts DEF RelayInv, RelayTypes
<1>6. WordInv'
  BY <1>1, <1>2, <1>4, TakenFacts DEF RelayInv, WordInv
<1>7. RelayFollowsLight'
  BY <1>1, <1>2, <1>4, TakenFacts DEF RelayInv, RelayFollowsLight
<1> QED
  BY <1>5, <1>6, <1>7 DEF RelayInv

\* A word that nobody hears is lost, if it was the newest of the sensor.
LEMMA UnheardStep ==
  ASSUME RelayInv, NEW s \in Senders, Unheard(s)
  PROVE  RelayInv'
<1>1. Taken(s)
  BY DEF Unheard
<1>2. UNCHANGED <<m_status, obeyed, light_level_low>>
  BY DEF Unheard, switchVars
<1>3. newest' = IF WasNewest(s) THEN "lost" ELSE newest
  BY DEF Unheard
<1>4. RelayTypes'
  BY <1>1, <1>2, TakenFacts DEF RelayInv, RelayTypes
<1>5. WordInv'
  BY <1>1, <1>2, <1>3, TakenFacts DEF RelayInv, WordInv
<1>6. RelayFollowsLight'
  BY <1>2, <1>3 DEF RelayInv, RelayFollowsLight
<1> QED
  BY <1>4, <1>5, <1>6 DEF RelayInv

\* Every step keeps the invariant.
LEMMA RelayStep == RelayInv /\ [Next]_vars => RelayInv'
<1> SUFFICES ASSUME RelayInv, [Next]_vars PROVE RelayInv'
  OBVIOUS
<1>1. CASE UNCHANGED <<air, light_level_low, m_status, obeyed, newest>>
  BY <1>1 DEF RelayInv, RelayTypes, WordInv, RelayFollowsLight
<1>2. ASSUME NEW n \in Nodes, reboot_after_ble_reset(n) \/ PowerFails(n)
      PROVE  RelayInv'
  BY <1>2, BootStep DEF reboot_after_ble_reset, PowerFails
<1>3. ASSUME NEW n \in Nodes, init_ble(n) \/ Provision(n) \/ ProvReset(n)
      PROVE  RelayInv'
  BY <1>1, <1>3 DEF init_ble, Provision, ProvReset, switchVars
<1>4. CASE appip_connect_wifi \/ wifi_connected \/ handle_wifi_disconnected \/ LightChanges
  BY <1>1, <1>4
     DEF appip_connect_wifi, wifi_connected, handle_wifi_disconnected, LightChanges, switchVars
<1>5. ASSUME NEW s \in Senders, NotListening(s) \/ Lost(s)
      PROVE  RelayInv'
  BY <1>5, UnheardStep DEF NotListening, Lost
<1>6. CASE UNCHANGED vars
  BY <1>1, <1>6 DEF vars, switchVars
<1> QED
  BY <1>2, <1>3, <1>4, <1>5, <1>6, PostStep, LightStep, ObeyStep DEF Next

\* The relay contradicts the sensor only while the sensor's word is on its way or
\* lost, or after a command, for any number of messages, forms and faults.
THEOREM RelayAlwaysFollows == Spec => []RelayFollowsLight
<1>1. ASSUME Init PROVE RelayInv
  <2>1. air = [s \in Senders |-> <<>>] /\ <<>> \in Seq(BOOLEAN)
    BY <1>1, EmptySeq DEF Init
  <2>2. air \in [Senders -> Seq(BOOLEAN)] /\ air["sensor"] = <<>>
    BY <2>1 DEF Senders
  <2>3. newest = "switch" /\ m_status = FALSE /\ light_level_low = FALSE
    BY <1>1 DEF Init
  <2> QED
    BY <2>2, <2>3 DEF RelayInv, RelayTypes, WordInv, RelayFollowsLight
<1>2. RelayInv => RelayFollowsLight
  BY DEF RelayInv
<1> QED
  BY <1>1, <1>2, RelayStep, PTL DEF Spec

-----------------------------------------------------------------------------
(* Types *)

\* A station that has not given up has a retry left.
StationTypes == Ip!WifiTypeOK /\ Ip!RetryMatchesState

\* Nobody has more words on the way than the mesh carries.
AirTypes ==
  /\ air \in [Senders -> Seq(BOOLEAN)]
  /\ \A s \in Senders : Len(air[s]) <= MaxAir

NodeTypes ==
  /\ server \in BOOLEAN
  /\ mesh \in [Nodes -> {"boot", "open", "node"}]
  /\ stored \in [Nodes -> BOOLEAN] /\ rebooting \in [Nodes -> BOOLEAN]
  /\ lux \in {"below", "at", "above"}
  /\ light_level_low \in BOOLEAN /\ m_status \in BOOLEAN
  /\ obeyed \in Senders \cup {"nobody"}
  /\ newest \in {"air", "switch", "lost"}

CountTypes == posts \in 0 .. MaxPosts /\ faults \in 0 .. MaxFaults

MeshTypes == StationTypes /\ AirTypes /\ NodeTypes /\ CountTypes

\* The station of the gateway is left alone, takes a step of its own or reboots.
LEMMA StationStep ==
  ASSUME StationTypes,
         \/ UNCHANGED <<wifi, retry_cnt>>
         \/ Ip!appwifi_connect \/ Ip!GotIp \/ Ip!StaDisconnected \/ Ip!WifiReset
  PROVE  StationTypes'
<1> USE MeshAssumption DEF MeshAssumption, StationTypes, Ip!WifiTypeOK, Ip!RetryMatchesState
<1>1. CASE UNCHANGED <<wifi, retry_cnt>>
  BY <1>1
<1>2. CASE Ip!appwifi_connect \/ Ip!GotIp
  BY <1>2 DEF Ip!appwifi_connect, Ip!GotIp
<1>3. CASE Ip!StaDisconnected
  BY <1>3 DEF Ip!StaDisconnected
<1>4. CASE Ip!WifiReset
  BY <1>4 DEF Ip!WifiReset
<1> QED
  BY <1>1, <1>2, <1>3, <1>4

\* One word less on the way.
LEMMA TakenTypes ==
  ASSUME AirTypes, NEW s \in Senders, Taken(s)
  PROVE  AirTypes' /\ Head(air[s]) \in BOOLEAN
<1>1. air[s] \in Seq(BOOLEAN) /\ Len(air[s]) \in Nat /\ Len(air[s]) <= MaxAir
  BY LenProperties DEF AirTypes
<1>2. air[s] # <<>> /\ air' = [air EXCEPT ![s] = Tail(air[s])]
  BY DEF Taken
<1>3. /\ Tail(air[s]) \in Seq(BOOLEAN) /\ Len(Tail(air[s])) = Len(air[s]) - 1
      /\ Head(air[s]) \in BOOLEAN
  BY <1>1, <1>2, HeadTailProperties
<1>4. Len(Tail(air[s])) <= MaxAir
  BY <1>1, <1>3, MeshAssumption DEF MeshAssumption
<1> QED
  BY <1>2, <1>3, <1>4 DEF AirTypes

\* One word more, while there is room.
LEMMA SentTypes ==
  ASSUME AirTypes, NEW s \in Senders, NEW b \in BOOLEAN, Len(air[s]) < MaxAir, Send(s, b)
  PROVE  AirTypes'
<1>1. air[s] \in Seq(BOOLEAN) /\ Len(air[s]) \in Nat
  BY LenProperties DEF AirTypes
<1>2. CASE mesh[s] # "node"
  BY <1>2 DEF Send, AirTypes
<1>3. CASE mesh[s] = "node"
  <2>1. air' = [air EXCEPT ![s] = Append(air[s], b)]
    BY <1>3 DEF Send
  <2>2. Append(air[s], b) \in Seq(BOOLEAN) /\ Len(Append(air[s], b)) = Len(air[s]) + 1
    BY <1>1, AppendProperties
  <2>3. Len(Append(air[s], b)) <= MaxAir
    BY <1>1, <2>2, MeshAssumption DEF MeshAssumption
  <2> QED
    BY <2>1, <2>2, <2>3 DEF AirTypes
<1> QED
  BY <1>2, <1>3

\* A fault is counted while there is one left.
LEMMA FaultTypes == ASSUME CountTypes, Fault PROVE faults' \in 0 .. MaxFaults
  BY MeshAssumption DEF CountTypes, Fault, MeshAssumption

\* A node that starts again.
LEMMA BootTypes ==
  ASSUME MeshTypes, NEW n \in Nodes, Boot(n), faults' \in 0 .. MaxFaults
  PROVE  MeshTypes'
<1>1. UNCHANGED <<air, stored, lux, posts>>
  BY DEF Boot
<1>2. StationTypes'
  <2>1. UNCHANGED <<wifi, retry_cnt>> \/ Ip!WifiReset
    BY DEF Boot, gatewayVars
  <2> QED
    BY <2>1, StationStep DEF MeshTypes
<1>3. NodeTypes'
  <2>1. server' \in BOOLEAN
    BY DEF Boot, gatewayVars, MeshTypes, NodeTypes
  <2>2. /\ mesh' \in [Nodes -> {"boot", "open", "node"}]
        /\ rebooting' \in [Nodes -> BOOLEAN]
    BY DEF Boot, MeshTypes, NodeTypes
  <2>3. m_status' \in BOOLEAN /\ obeyed' \in Senders \cup {"nobody"}
    BY DEF Boot, switchVars, MeshTypes, NodeTypes
  <2>4. light_level_low' \in BOOLEAN /\ newest' \in {"air", "switch", "lost"}
    BY DEF Boot, MeshTypes, NodeTypes
  <2> QED
    BY <1>1, <2>1, <2>2, <2>3, <2>4 DEF MeshTypes, NodeTypes
<1> QED
  BY <1>1, <1>2, <1>3 DEF MeshTypes, AirTypes, CountTypes

\* Every step keeps the types.
LEMMA MeshTypesStep == MeshTypes /\ [Next]_vars => MeshTypes'
<1> SUFFICES ASSUME MeshTypes, [Next]_vars PROVE MeshTypes'
  OBVIOUS
<1>a. StationTypes /\ AirTypes /\ NodeTypes /\ CountTypes
  BY DEF MeshTypes
<1>b. UNCHANGED gatewayVars => StationTypes' /\ server' = server
  BY <1>a, StationStep DEF gatewayVars
<1>c. UNCHANGED air => AirTypes'
  BY <1>a DEF AirTypes
<1>1. ASSUME NEW n \in Nodes, init_ble(n) \/ Provision(n) \/ ProvReset(n)
      PROVE  MeshTypes'
  <2>1. /\ UNCHANGED gatewayVars /\ UNCHANGED air
        /\ UNCHANGED <<lux, light_level_low, m_status, obeyed, newest, posts>>
    BY <1>1 DEF init_ble, Provision, ProvReset, switchVars
  <2>2. mesh' \in [Nodes -> {"boot", "open", "node"}]
    BY <1>1, <1>a DEF init_ble, Provision, ProvReset, NodeTypes
  <2>3. stored' \in [Nodes -> BOOLEAN] /\ rebooting' \in [Nodes -> BOOLEAN]
    BY <1>1, <1>a DEF init_ble, Provision, ProvReset, NodeTypes
  <2>4. faults' \in 0 .. MaxFaults
    BY <1>1, <1>a, FaultTypes DEF init_ble, Provision, ProvReset, CountTypes
  <2> QED
    BY <1>a, <1>b, <1>c, <2>1, <2>2, <2>3, <2>4 DEF MeshTypes, NodeTypes, CountTypes
<1>2. ASSUME NEW n \in Nodes, reboot_after_ble_reset(n) \/ PowerFails(n)
      PROVE  MeshTypes'
  BY <1>2, <1>a, BootTypes, FaultTypes DEF reboot_after_ble_reset, PowerFails, CountTypes
<1>3. CASE appip_connect_wifi \/ wifi_connected \/ handle_wifi_disconnected
  <2>1. StationTypes'
    BY <1>3, <1>a, StationStep DEF appip_connect_wifi, wifi_connected, handle_wifi_disconnected
  <2>2. /\ server' \in BOOLEAN
        /\ UNCHANGED <<mesh, stored, rebooting, lux, light_level_low, m_status, obeyed, newest>>
        /\ UNCHANGED <<posts, faults>> /\ UNCHANGED air
    BY <1>3, <1>a DEF appip_connect_wifi, wifi_connected, handle_wifi_disconnected,
                      nodeVars, switchVars, NodeTypes
  <2> QED
    BY <1>a, <1>c, <2>1, <2>2 DEF MeshTypes, NodeTypes, CountTypes
<1>4. ASSUME NEW onoff \in BOOLEAN, appble_set_switch(onoff)
      PROVE  MeshTypes'
  <2>1. /\ UNCHANGED gatewayVars
        /\ UNCHANGED <<mesh, stored, rebooting, lux, light_level_low, m_status, obeyed, newest, faults>>
    BY <1>4 DEF appble_set_switch, nodeVars, switchVars
  <2>2. posts' \in 0 .. MaxPosts
    BY <1>4, <1>a, MeshAssumption DEF appble_set_switch, CountTypes, MeshAssumption
  <2>3. AirTypes'
    BY <1>4, <1>a, SentTypes DEF appble_set_switch, Senders
  <2> QED
    BY <1>a, <1>b, <2>1, <2>2, <2>3 DEF MeshTypes, NodeTypes, CountTypes
<1>5. CASE LightChanges
  <2>1. /\ UNCHANGED gatewayVars /\ UNCHANGED air
        /\ UNCHANGED <<mesh, stored, rebooting, light_level_low, m_status, obeyed, newest, posts, faults>>
    BY <1>5 DEF LightChanges, nodeVars, switchVars
  <2>2. lux' \in {"below", "at", "above"}
    BY <1>5 DEF LightChanges
  <2> QED
    BY <1>a, <1>b, <1>c, <2>1, <2>2 DEF MeshTypes, NodeTypes, CountTypes
<1>6. CASE read_light
  <2>1. /\ UNCHANGED gatewayVars
        /\ UNCHANGED <<mesh, stored, rebooting, lux, m_status, obeyed, posts, faults>>
    BY <1>6 DEF read_light, nodeVars, switchVars
  <2>2. ItIsDark \in BOOLEAN
    BY DEF ItIsDark
  <2>3. /\ light_level_low' \in BOOLEAN /\ newest' \in {"air", "switch", "lost"}
        /\ Len(air["sensor"]) < MaxAir /\ Send("sensor", ItIsDark)
    BY <1>6, <2>2 DEF read_light, appble_update_state
  <2>4. AirTypes'
    BY <1>a, <2>2, <2>3, SentTypes DEF Senders
  <2> QED
    BY <1>a, <1>b, <2>1, <2>3, <2>4 DEF MeshTypes, NodeTypes, CountTypes
<1>7. ASSUME NEW s \in Senders, set_switch_state(s)
      PROVE  MeshTypes'
  <2>1. /\ UNCHANGED gatewayVars
        /\ UNCHANGED <<mesh, stored, rebooting, lux, light_level_low, posts, faults>>
    BY <1>7 DEF set_switch_state, nodeVars
  <2>2. AirTypes' /\ m_status' \in BOOLEAN
    BY <1>7, <1>a, TakenTypes DEF set_switch_state
  <2>3. obeyed' \in Senders \cup {"nobody"} /\ newest' \in {"air", "switch", "lost"}
    BY <1>7, <1>a DEF set_switch_state, NodeTypes
  <2> QED
    BY <1>a, <1>b, <2>1, <2>2, <2>3 DEF MeshTypes, NodeTypes, CountTypes
<1>8. ASSUME NEW s \in Senders, NotListening(s) \/ Lost(s)
      PROVE  MeshTypes'
  <2>1. Unheard(s) /\ faults' \in 0 .. MaxFaults
    BY <1>8, <1>a, FaultTypes DEF NotListening, Lost, CountTypes
  <2>2. /\ UNCHANGED gatewayVars
        /\ UNCHANGED <<mesh, stored, rebooting, lux, light_level_low, m_status, obeyed, posts>>
    BY <2>1 DEF Unheard, nodeVars, switchVars
  <2>3. AirTypes' /\ newest' \in {"air", "switch", "lost"}
    BY <1>a, <2>1, TakenTypes DEF Unheard, NodeTypes
  <2> QED
    BY <1>a, <1>b, <2>1, <2>2, <2>3 DEF MeshTypes, NodeTypes, CountTypes
<1>9. CASE UNCHANGED vars
  BY <1>9, <1>a, <1>b, <1>c DEF vars, nodeVars, switchVars, MeshTypes, NodeTypes, CountTypes
<1> QED
  BY <1>1, <1>2, <1>3, <1>4, <1>5, <1>6, <1>7, <1>8, <1>9 DEF Next

\* Every variable keeps its type and every counter its bound; the retries of the
\* gateway go one beyond MAX_RETRY and no further.
THEOREM MeshTyped == Spec => []TypeOK
<1>1. ASSUME Init PROVE MeshTypes
  <2>1. StationTypes
    BY <1>1, MeshAssumption
       DEF Init, Ip!WifiInit, StationTypes, Ip!WifiTypeOK, Ip!RetryMatchesState, MeshAssumption
  <2>2. AirTypes
    <3>1. air = [s \in Senders |-> <<>>] /\ <<>> \in Seq(BOOLEAN) /\ Len(<<>>) = 0
      BY <1>1, EmptySeq DEF Init
    <3> QED
      BY <3>1, MeshAssumption DEF AirTypes, MeshAssumption
  <2>3. NodeTypes
    <3>1. /\ server = FALSE /\ light_level_low = FALSE /\ m_status = FALSE
          /\ lux = "above" /\ obeyed = "nobody" /\ newest = "switch"
      BY <1>1 DEF Init
    <3>2. mesh \in [Nodes -> {"boot", "open", "node"}]
      BY <1>1 DEF Init
    <3>3. stored \in [Nodes -> BOOLEAN] /\ rebooting \in [Nodes -> BOOLEAN]
      BY <1>1 DEF Init
    <3> QED
      BY <3>1, <3>2, <3>3 DEF NodeTypes
  <2>4. CountTypes
    BY <1>1, MeshAssumption DEF Init, CountTypes, MeshAssumption
  <2> QED
    BY <2>1, <2>2, <2>3, <2>4 DEF MeshTypes
<1>2. MeshTypes => TypeOK
  BY DEF MeshTypes, StationTypes, AirTypes, NodeTypes, CountTypes, TypeOK
<1> QED
  BY <1>1, <1>2, MeshTypesStep, PTL DEF Spec

=============================================================================
