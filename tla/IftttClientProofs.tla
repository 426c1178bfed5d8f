--------------------------- MODULE IftttClientProofs --------------------------
(***************************************************************************)
(* Proofs about the IFTTT client, for any queue length and any number of   *)
(* tasks and readings: it never makes a reading up, posts none twice and,  *)
(* with one poster, none out of order; and what waits is fresh.            *)
(***************************************************************************)
EXTENDS IftttClient, SequenceTheorems, TLAPS

\* Tasks that do not exist hold nothing.
QueueTypes ==
  /\ tasks \in Nat
  /\ made \in 0 .. MaxReadings
  /\ reader \in [Tasks -> Readings \cup {None, Full}]
  /\ temp \in [Tasks -> Readings \cup {None}]
  /\ temp_queue \in Seq(Readings)
  /\ Len(temp_queue) <= QUEUE_SIZE
  /\ posted \subseteq Readings
  /\ \A t \in Tasks : t > tasks => reader[t] = None /\ temp[t] = None

\* Every reading is at one place.
OnePlace ==
  /\ \A t, u \in Tasks : reader[t] \in Readings /\ reader[t] = reader[u] => t = u
  /\ \A t, u \in Tasks : temp[t] # None /\ temp[t] = temp[u] => t = u
  /\ \A t, u \in Tasks : reader[t] \in Readings => reader[t] # temp[u]
  /\ \A i, j \in 1 .. Len(temp_queue) : temp_queue[i] = temp_queue[j] => i = j
  /\ \A t \in Tasks, i \in 1 .. Len(temp_queue) :
       temp_queue[i] # reader[t] /\ temp_queue[i] # temp[t]

\* No reading is from the future.
Known ==
  /\ \A t \in Tasks : reader[t] <= made /\ temp[t] <= made
  /\ \A i \in 1 .. Len(temp_queue) : temp_queue[i] <= made

Busy == \E t \in Tasks : reader[t] # None

\* The last reading that has left the queue of a single reader, one way or the
\* other.
Gone == IF Busy THEN made - 1 - Len(temp_queue) ELSE made - Len(temp_queue)

\* With one reader and one poster the queue holds the readings after that.
InOrder ==
  tasks <= 1 =>
    /\ \A t \in Tasks : reader[t] \in Readings => reader[t] = made
    /\ \A i \in 1 .. Len(temp_queue) : temp_queue[i] = Gone + i
    /\ \A m \in posted : m <= Gone
    /\ \A t \in Tasks : temp[t] # None => temp[t] <= Gone /\ \A m \in posted : m < temp[t]

QueueInv == QueueTypes /\ OnePlace /\ Known /\ InOrder

-----------------------------------------------------------------------------
(* Facts *)

\* None and Full are no readings.
LEMMA Numbers ==
  /\ Readings \subseteq Nat \ {0} /\ None \notin Readings /\ Full \notin Readings
  /\ None # Full /\ Tasks \subseteq Nat \ {0}
  BY IftttAssumption DEF IftttAssumption, Readings, None, Full, Tasks

\* The members of a queue.
LEMMA QueueRange ==
  ASSUME NEW q \in Seq(Readings)
  PROVE  Range(q) = {q[i] : i \in 1 .. Len(q)}
  BY LenProperties DEF Range

\* A queue that is taken from or put into.
LEMMA QueueFacts ==
  ASSUME NEW q \in Seq(Readings), NEW n \in Readings
  PROVE  /\ Len(q) \in Nat
         /\ Append(q, n) \in Seq(Readings) /\ Len(Append(q, n)) = Len(q) + 1
         /\ \A i \in 1 .. Len(q) : Append(q, n)[i] = q[i]
         /\ Append(q, n)[Len(q) + 1] = n
         /\ q # <<>> => /\ Len(q) > 0 /\ Head(q) = q[1]
                        /\ Tail(q) \in Seq(Readings) /\ Len(Tail(q)) = Len(q) - 1
                        /\ \A i \in 1 .. Len(q) - 1 : Tail(q)[i] = q[i + 1]
<1>1. Len(q) \in Nat /\ (q # <<>> => Len(q) > 0)
  BY LenProperties, EmptySeq
<1>2. q # <<>> => /\ Head(q) = q[1]
                  /\ Tail(q) \in Seq(Readings) /\ Len(Tail(q)) = Len(q) - 1
                  /\ \A i \in 1 .. Len(q) - 1 : Tail(q)[i] = q[i + 1]
  BY HeadTailProperties
<1>3. /\ Append(q, n) \in Seq(Readings) /\ Len(Append(q, n)) = Len(q) + 1
      /\ \A i \in 1 .. Len(q) : Append(q, n)[i] = q[i]
      /\ Append(q, n)[Len(q) + 1] = n
  BY AppendProperties
<1> QED
  BY <1>1, <1>2, <1>3

\* Whatever a task or the queue holds is a number.
LEMMA HeldNumbers ==
  ASSUME QueueTypes
  PROVE  /\ made \in Int /\ Len(temp_queue) \in Nat
         /\ \A t \in Tasks : reader[t] \in Int /\ temp[t] \in Int
         /\ \A i \in 1 .. Len(temp_queue) : temp_queue[i] \in Readings /\ temp_queue[i] \in Int
<1>1. Readings \subseteq Int /\ Readings \cup {None, Full} \subseteq Int
  BY DEF Readings, None, Full
<1>2. \A t \in Tasks : reader[t] \in Readings \cup {None, Full} /\ temp[t] \in Readings \cup {None}
  BY DEF QueueTypes
<1>3. \A i \in 1 .. Len(temp_queue) : temp_queue[i] \in Readings
  BY ElementOfSeq DEF QueueTypes
<1>4. Len(temp_queue) \in Nat
  BY LenProperties DEF QueueTypes
<1>5. made \in Int
  BY DEF QueueTypes
<1>6. \A t \in Tasks : reader[t] \in Int /\ temp[t] \in Int
  BY <1>1, <1>2
<1> QED
  BY <1>1, <1>3, <1>4, <1>5, <1>6

\* While there is one reader and one poster, the others hold nothing.
LEMMA Alone ==
  ASSUME QueueTypes, tasks <= 1, NEW t \in Tasks,
         t <= tasks \/ reader[t] # None \/ temp[t] # None
  PROVE  /\ t <= tasks
         /\ \A u \in Tasks : u # t => reader[u] = None /\ temp[u] = None
  BY Numbers DEF QueueTypes

-----------------------------------------------------------------------------
(* The steps keep the invariant *)

\* A reader takes a new number, which nobody has.
LEMMA ReadStep ==
  ASSUME QueueInv, NEW t \in Tasks, read_temp(t)
  PROVE  QueueInv'
<1>1. /\ t <= tasks /\ reader[t] = None /\ made < MaxReadings /\ made' = made + 1
      /\ reader' = [reader EXCEPT ![t] = made + 1]
      /\ UNCHANGED <<tasks, temp_queue, temp, posted>>
  BY DEF read_temp
<1>2. made + 1 \in Readings /\ made \in Nat /\ made + 1 # None
  BY <1>1, IftttAssumption DEF QueueInv, QueueTypes, Readings, IftttAssumption, None
<1>3. reader'[t] = made + 1 /\ \A u \in Tasks : u # t => reader'[u] = reader[u]
  BY <1>1 DEF QueueInv, QueueTypes
<1>4. QueueTypes'
  <2>1. reader' \in [Tasks -> Readings \cup {None, Full}]
    BY <1>1, <1>2 DEF QueueInv, QueueTypes
  <2>2. made' \in 0 .. MaxReadings
    BY <1>1, <1>2, IftttAssumption DEF IftttAssumption, QueueInv, QueueTypes
  <2>3. \A u \in Tasks : u > tasks => reader'[u] = None /\ temp[u] = None
    BY <1>1, <1>3, Numbers DEF QueueInv, QueueTypes
  <2> QED
    BY <1>1, <2>1, <2>2, <2>3 DEF QueueInv, QueueTypes
<1>5. \A u \in Tasks : reader[u] # made + 1 /\ temp[u] # made + 1
  BY <1>2, Numbers DEF QueueInv, QueueTypes, Known, None, Full
<1>6. \A i \in 1 .. Len(temp_queue) : temp_queue[i] # made + 1
  BY <1>2, Numbers DEF QueueInv, QueueTypes, Known
<1>7. OnePlace'
  BY <1>1, <1>2, <1>3, <1>5, <1>6 DEF QueueInv, OnePlace
<1>8. Known'
  BY <1>1, <1>2, <1>3, HeldNumbers DEF QueueInv, Known
<1>9. InOrder'
  <2> SUFFICES ASSUME tasks <= 1 PROVE InOrder'
    BY <1>1 DEF InOrder
  <2>1. \A u \in Tasks : u # t => reader[u] = None
    BY <1>1, Alone DEF QueueInv
  <2>2. ~Busy /\ Busy'
    BY <1>1, <1>2, <1>3, <2>1 DEF Busy
  <2>3. Len(temp_queue) \in Nat
    BY LenProperties DEF QueueInv, QueueTypes
  <2>4. Gone' = Gone
    BY <1>1, <1>2, <2>2, <2>3 DEF Gone
  <2> QED
    BY <1>1, <1>3, <2>1, <2>4, Numbers DEF QueueInv, InOrder
<1> QED
  BY <1>4, <1>7, <1>8, <1>9 DEF QueueInv

\* A reading is put at the end of the queue, or its reader finds it full.
LEMMA SendStep ==
  ASSUME QueueInv, NEW t \in Tasks, xQueueSendToBack(t)
  PROVE  QueueInv'
<1>1. /\ reader[t] \in Readings /\ reader[t] # None
      /\ UNCHANGED <<tasks, made, temp, posted>>
  BY Numbers DEF xQueueSendToBack
<1>2. t <= tasks
  BY <1>1, Numbers DEF QueueInv, QueueTypes
<1>3. CASE Len(temp_queue) < QUEUE_SIZE
  <2>1. /\ temp_queue' = Append(temp_queue, reader[t])
        /\ reader' = [reader EXCEPT ![t] = None]
    BY <1>3 DEF xQueueSendToBack
  <2>2. reader'[t] = None /\ \A u \in Tasks : u # t => reader'[u] = reader[u]
    BY <2>1 DEF QueueInv, QueueTypes
  <2>3. /\ temp_queue' \in Seq(Readings) /\ Len(temp_queue') = Len(temp_queue) + 1
        /\ \A i \in 1 .. Len(temp_queue) : temp_queue'[i] = temp_queue[i]
        /\ temp_queue'[Len(temp_queue) + 1] = reader[t]
        /\ Len(temp_queue) \in Nat
    BY <1>1, <2>1, QueueFacts DEF QueueInv, QueueTypes
  <2>4. \A i \in 1 .. Len(temp_queue') :
          \/ i \in 1 .. Len(temp_queue) /\ temp_queue'[i] = temp_queue[i]
          \/ i = Len(temp_queue) + 1 /\ temp_queue'[i] = reader[t]
    BY <2>3
  <2>5. QueueTypes'
    <3>1. reader' \in [Tasks -> Readings \cup {None, Full}]
      BY <2>1 DEF QueueInv, QueueTypes
    <3>2. Len(temp_queue') <= QUEUE_SIZE
      BY <1>3, <2>3, IftttAssumption DEF IftttAssumption
    <3> QED
      BY <1>1, <2>2, <2>3, <3>1, <3>2 DEF QueueInv, QueueTypes
  <2>6. OnePlace'
    <3>1. \A i, j \in 1 .. Len(temp_queue') : temp_queue'[i] = temp_queue'[j] => i = j
      BY <2>4 DEF QueueInv, OnePlace
    <3>2. \A u \in Tasks, i \in 1 .. Len(temp_queue') :
            temp_queue'[i] # reader'[u] /\ temp_queue'[i] # temp[u]
      BY <1>1, <2>2, <2>4, Numbers, HeldNumbers DEF QueueInv, OnePlace
    <3> QED
      BY <1>1, <2>2, <3>1, <3>2, Numbers DEF QueueInv, OnePlace
  <2>7. Known'
    <3>1. made >= 0
      BY DEF QueueInv, QueueTypes
    <3> QED
      BY <1>1, <2>2, <2>4, <3>1 DEF QueueInv, Known, None
  <2>8. InOrder'
    <3> SUFFICES ASSUME tasks <= 1 PROVE InOrder'
      BY <1>1 DEF InOrder
    <3>1. \A u \in Tasks : u # t => reader[u] = None
      BY <1>2, Alone DEF QueueInv
    <3>2. Busy /\ ~Busy'
      BY <1>1, <2>2, <3>1 DEF Busy
    <3>3. Gone' = Gone /\ reader[t] = made /\ made = Gone + (Len(temp_queue) + 1)
      <4>1. Gone = made - 1 - Len(temp_queue) /\ Gone' = made - (Len(temp_queue) + 1)
        BY <1>1, <2>3, <3>2 DEF Gone
      <4>2. made \in Int /\ Len(temp_queue) \in Int
        BY HeldNumbers DEF QueueInv
      <4>3. reader[t] = made
        BY <1>1 DEF QueueInv, InOrder
      <4> QED
        BY <4>1, <4>2, <4>3
    <3>4. \A i \in 1 .. Len(temp_queue') : temp_queue'[i] = Gone + i
      BY <2>4, <3>3 DEF QueueInv, InOrder
    <3> QED
      BY <1>1, <2>2, <3>1, <3>3, <3>4, Numbers DEF QueueInv, InOrder
  <2> QED
    BY <2>5, <2>6, <2>7, <2>8 DEF QueueInv
<1>4. CASE ~(Len(temp_queue) < QUEUE_SIZE)
  <2>1. temp_queue' = temp_queue /\ reader' = [reader EXCEPT ![t] = Full]
    BY <1>4 DEF xQueueSendToBack
  <2>2. reader'[t] = Full /\ \A u \in Tasks : u # t => reader'[u] = reader[u]
    BY <2>1 DEF QueueInv, QueueTypes
  <2>3. QueueTypes'
    <3>1. reader' \in [Tasks -> Readings \cup {None, Full}]
      BY <2>1 DEF QueueInv, QueueTypes
    <3>2. \A u \in Tasks : u > tasks => reader'[u] = None
      BY <1>2, <2>2, Numbers DEF QueueInv, QueueTypes
    <3> QED
      BY <1>1, <2>1, <3>1, <3>2 DEF QueueInv, QueueTypes
  <2>4. OnePlace'
    <3>1. \A i \in 1 .. Len(temp_queue) : temp_queue[i] # Full
      BY Numbers, HeldNumbers DEF QueueInv
    <3> QED
      BY <1>1, <2>1, <2>2, <3>1, Numbers DEF QueueInv, OnePlace
  <2>5. Known'
    <3>1. Full <= made
      BY DEF QueueInv, QueueTypes, Full
    <3> QED
      BY <1>1, <2>1, <2>2, <3>1 DEF QueueInv, Known
  <2>6. InOrder'
    <3>1. Busy /\ Busy'
      BY <1>1, <2>2, Numbers DEF Busy
    <3>2. Gone' = Gone
      BY <1>1, <2>1, <3>1 DEF Gone
    <3> QED
      BY <1>1, <2>1, <2>2, <3>2, Numbers DEF QueueInv, InOrder
  <2> QED
    BY <2>3, <2>4, <2>5, <2>6 DEF QueueInv
<1> QED
  BY <1>3, <1>4

\* A full queue is emptied.
LEMMA ResetStep ==
  ASSUME QueueInv, NEW t \in Tasks, xQueueReset(t)
  PROVE  QueueInv'
<1>1. /\ reader[t] = Full /\ temp_queue' = <<>>
      /\ reader' = [reader EXCEPT ![t] = None]
      /\ UNCHANGED <<tasks, made, temp, posted>>
  BY DEF xQueueReset
<1>2. reader'[t] = None /\ \A u \in Tasks : u # t => reader'[u] = reader[u]
  BY <1>1 DEF QueueInv, QueueTypes
<1>3. temp_queue' \in Seq(Readings) /\ Len(temp_queue') = 0
  BY <1>1, EmptySeq
<1>4. QueueTypes'
  <2>1. reader' \in [Tasks -> Readings \cup {None, Full}]
    BY <1>1 DEF QueueInv, QueueTypes
  <2>2. Len(temp_queue') <= QUEUE_SIZE
    BY <1>3, IftttAssumption DEF IftttAssumption
  <2> QED
    BY <1>1, <1>2, <1>3, <2>1, <2>2 DEF QueueInv, QueueTypes
<1>5. OnePlace'
  BY <1>1, <1>2, <1>3, Numbers DEF QueueInv, OnePlace
<1>6. Known'
  <2>1. None <= made
    BY DEF QueueInv, QueueTypes, None
  <2> QED
    BY <1>1, <1>2, <1>3, <2>1 DEF QueueInv, Known
<1>7. InOrder'
  <2> SUFFICES ASSUME tasks <= 1 PROVE InOrder'
    BY <1>1 DEF InOrder
  <2>1. \A u \in Tasks : u # t => reader[u] = None
    BY <1>1, Alone, Numbers DEF QueueInv
  <2>2. Busy /\ ~Busy'
    BY <1>1, <1>2, <2>1, Numbers DEF Busy
  <2>3. Gone' = made /\ Gone <= made /\ Gone \in Int
    BY <1>1, <1>3, <2>2, HeldNumbers DEF QueueInv, Gone
  <2>4. \A m \in posted : m <= made
    BY <2>3, Numbers DEF QueueInv, QueueTypes, InOrder
  <2>5. \A u \in Tasks : temp[u] # None => temp[u] <= made
    BY DEF QueueInv, Known
  <2> QED
    BY <1>1, <1>2, <1>3, <2>1, <2>3, <2>4, <2>5, Numbers DEF QueueInv, InOrder
<1> QED
  BY <1>4, <1>5, <1>6, <1>7 DEF QueueInv

\* The oldest reading of the queue goes to a poster.
LEMMA ReceiveStep ==
  ASSUME QueueInv, NEW t \in Tasks, xQueueReceive(t)
  PROVE  QueueInv'
<1>1. /\ t <= tasks /\ temp[t] = None /\ temp_queue # <<>>
      /\ temp' = [temp EXCEPT ![t] = Head(temp_queue)] /\ temp_queue' = Tail(temp_queue)
      /\ UNCHANGED <<tasks, made, reader, posted>>
  BY DEF xQueueReceive
<1>2. /\ Len(temp_queue) > 0 /\ Len(temp_queue) \in Nat /\ Head(temp_queue) = temp_queue[1]
      /\ temp_queue' \in Seq(Readings) /\ Len(temp_queue') = Len(temp_queue) - 1
      /\ \A i \in 1 .. Len(temp_queue') : temp_queue'[i] = temp_queue[i + 1]
  <2>1. Readings # {}
    BY <1>1, EmptySeq, HeadTailProperties DEF QueueInv, QueueTypes
  <2> QED
    BY <1>1, <2>1, QueueFacts DEF QueueInv, QueueTypes
<1>3. 1 \in 1 .. Len(temp_queue) /\ \A i \in 1 .. Len(temp_queue') : i + 1 \in 1 .. Len(temp_queue)
  BY <1>2
<1>4. temp_queue[1] \in Readings
  BY <1>3, HeldNumbers DEF QueueInv
<1>5. temp'[t] = temp_queue[1] /\ \A u \in Tasks : u # t => temp'[u] = temp[u]
  BY <1>1, <1>2 DEF QueueInv, QueueTypes
<1>6. QueueTypes'
  <2>1. temp' \in [Tasks -> Readings \cup {None}]
    BY <1>1, <1>2, <1>4 DEF QueueInv, QueueTypes
  <2>2. Len(temp_queue') <= QUEUE_SIZE
    BY <1>2, IftttAssumption DEF IftttAssumption, QueueInv, QueueTypes
  <2>3. \A u \in Tasks : u > tasks => temp'[u] = None
    BY <1>1, <1>5, Numbers DEF QueueInv, QueueTypes
  <2> QED
    BY <1>1, <1>2, <2>1, <2>2, <2>3 DEF QueueInv, QueueTypes
<1>7. OnePlace'
  <2>1. \A i, j \in 1 .. Len(temp_queue') : temp_queue'[i] = temp_queue'[j] => i = j
    BY <1>2, <1>3 DEF QueueInv, OnePlace
  <2>2. \A i \in 1 .. Len(temp_queue') : temp_queue'[i] # temp_queue[1]
    BY <1>2, <1>3 DEF QueueInv, OnePlace
  <2>3. \A u \in Tasks, i \in 1 .. Len(temp_queue') :
          temp_queue'[i] # reader[u] /\ temp_queue'[i] # temp'[u]
    BY <1>2, <1>3, <1>5, <2>2 DEF QueueInv, OnePlace
  <2>4. \A u, v \in Tasks : reader[u] \in Readings => reader[u] # temp'[v]
    BY <1>3, <1>5 DEF QueueInv, OnePlace
  <2>5. \A u, v \in Tasks : temp'[u] # None /\ temp'[u] = temp'[v] => u = v
    BY <1>3, <1>5 DEF QueueInv, OnePlace
  <2> QED
    BY <1>1, <2>1, <2>3, <2>4, <2>5 DEF QueueInv, OnePlace
<1>8. Known'
  BY <1>1, <1>2, <1>3, <1>5 DEF QueueInv, Known
<1>9. InOrder'
  <2> SUFFICES ASSUME tasks <= 1 PROVE InOrder'
    BY <1>1 DEF InOrder
  <2>1. Busy' <=> Busy
    BY <1>1 DEF Busy
  <2>2. Gone \in Int /\ Gone' = Gone + 1
    BY <1>1, <1>2, <2>1, HeldNumbers DEF QueueInv, Gone
  <2>3. temp_queue[1] = Gone + 1
    BY <1>3 DEF QueueInv, InOrder
  <2>4. \A i \in 1 .. Len(temp_queue') : temp_queue'[i] = (Gone + 1) + i
    BY <1>2, <1>3, <2>2 DEF QueueInv, InOrder
  <2>5. \A m \in posted : m \in Int /\ m <= Gone
    BY Numbers DEF QueueInv, QueueTypes, InOrder
  <2>6. \A m \in posted : m <= Gone + 1 /\ m < Gone + 1
    BY <2>2, <2>5
  <2>7. \A u \in Tasks : u # t => temp'[u] = None
    BY <1>1, <1>5, Alone DEF QueueInv
  <2> QED
    BY <1>1, <1>5, <2>2, <2>3, <2>4, <2>6, <2>7 DEF QueueInv, InOrder
<1> QED
  BY <1>6, <1>7, <1>8, <1>9 DEF QueueInv

\* A poster is done with its reading, and may have posted it.
LEMMA DoneStep ==
  ASSUME QueueInv, NEW t \in Tasks, temp[t] # None,
         temp' = [temp EXCEPT ![t] = None],
         posted' \in {posted, posted \cup {temp[t]}},
         UNCHANGED <<tasks, made, reader, temp_queue>>
  PROVE  QueueInv'
<1>1. temp'[t] = None /\ \A u \in Tasks : u # t => temp'[u] = temp[u]
  BY DEF QueueInv, QueueTypes
<1>2. temp[t] \in Readings
  BY DEF QueueInv, QueueTypes
<1>3. QueueTypes'
  <2>1. temp' \in [Tasks -> Readings \cup {None}] /\ posted' \subseteq Readings
    BY <1>2 DEF QueueInv, QueueTypes
  <2> QED
    BY <1>1, <2>1 DEF QueueInv, QueueTypes
<1>4. OnePlace'
  <2>1. \A i \in 1 .. Len(temp_queue) : temp_queue[i] # None
    BY Numbers, HeldNumbers DEF QueueInv
  <2> QED
    BY <1>1, <2>1, Numbers DEF QueueInv, OnePlace
<1>5. Known'
  <2>1. None <= made
    BY DEF QueueInv, QueueTypes, None
  <2> QED
    BY <1>1, <2>1 DEF QueueInv, Known
<1>6. InOrder'
  <2> SUFFICES ASSUME tasks <= 1 PROVE InOrder'
    BY DEF InOrder
  <2>1. Gone' = Gone
    BY DEF Gone, Busy
  <2>2. \A u \in Tasks : u # t => temp[u] = None
    BY Alone DEF QueueInv
  <2> QED
    BY <1>1, <2>1, <2>2 DEF QueueInv, InOrder
<1> QED
  BY <1>3, <1>4, <1>5, <1>6 DEF QueueInv

\* Every step keeps the invariant.
LEMMA QueueStep == QueueInv /\ [Next]_vars => QueueInv'
<1> SUFFICES ASSUME QueueInv, [Next]_vars PROVE QueueInv'
  OBVIOUS
<1>1. ASSUME NEW t \in Tasks, Reader(t)
      PROVE  QueueInv'
  BY <1>1, ReadStep, SendStep, ResetStep DEF Reader
<1>2. ASSUME NEW t \in Tasks, do_post(t)
      PROVE  QueueInv'
  <2>1. CASE Posted(t) \/ PostFails(t)
    BY <2>1, DoneStep DEF Posted, PostFails
  <2> QED
    BY <1>2, <2>1, ReceiveStep DEF do_post
<1>3. CASE tasks' \in {tasks, tasks + 1} /\ UNCHANGED <<made, taskVars>>
  <2>1. UNCHANGED <<made, reader, temp_queue, temp, posted>> /\ tasks \in Nat
    BY <1>3 DEF taskVars, QueueInv, QueueTypes
  <2>2. tasks' \in Nat /\ (tasks' <= 1 => tasks <= 1)
        /\ \A t \in Tasks : t > tasks' => t > tasks
    BY <1>3, <2>1, Numbers
  <2> QED
    BY <2>1, <2>2 DEF QueueInv, QueueTypes, OnePlace, Known, InOrder, Gone, Busy
<1>4. CASE appwifi_connect \/ handle_wifi_connect \/ StaDisconnected \/ UNCHANGED vars
  BY <1>3, <1>4 DEF appwifi_connect, handle_wifi_connect, StaDisconnected, vars
<1> QED
  BY <1>1, <1>2, <1>4 DEF Next

\* The invariant holds in every state of every behaviour.
LEMMA QueueAlways == Spec => []QueueInv
<1>1. ASSUME Init PROVE QueueInv
  <2>1. /\ tasks = 0 /\ made = 0 /\ temp_queue = <<>> /\ posted = {}
        /\ reader = [t \in Tasks |-> None] /\ temp = [t \in Tasks |-> None]
    BY <1>1 DEF Init
  <2>2. temp_queue \in Seq(Readings) /\ Len(temp_queue) = 0
    BY <2>1, EmptySeq
  <2>3. \A t \in Tasks : reader[t] = None /\ temp[t] = None
    BY <2>1
  <2>4. QueueTypes
    BY <2>1, <2>2, <2>3, IftttAssumption DEF IftttAssumption, QueueTypes
  <2>5. OnePlace
    BY <2>2, <2>3, Numbers DEF OnePlace
  <2>6. Known
    BY <2>1, <2>2, <2>3 DEF Known, None
  <2>7. InOrder
    BY <2>1, <2>2, <2>3, Numbers DEF InOrder
  <2> QED
    BY <2>4, <2>5, <2>6, <2>7 DEF QueueInv
<1> QED
  BY <1>1, QueueStep, PTL DEF Spec

-----------------------------------------------------------------------------
(* Theorems *)

\* What waits to be posted is never older than the queue is long while one task
\* reads, for any length of the queue.
THEOREM QueueStaysFresh == Spec => []QueueIsFresh
<1>1. QueueInv => QueueIsFresh
  <2> SUFFICES ASSUME QueueInv, tasks = 1, NEW i \in DOMAIN temp_queue
               PROVE  made - temp_queue[i] <= QUEUE_SIZE
    BY DEF QueueIsFresh
  <2>1. i \in 1 .. Len(temp_queue) /\ Len(temp_queue) \in Nat /\ Len(temp_queue) <= QUEUE_SIZE
    BY LenProperties DEF QueueInv, QueueTypes
  <2>2. temp_queue[i] = Gone + i
    BY <2>1 DEF QueueInv, InOrder
  <2>3. Gone = made - 1 - Len(temp_queue) \/ Gone = made - Len(temp_queue)
    BY DEF Gone
  <2>4. made \in Int /\ QUEUE_SIZE \in Int
    BY HeldNumbers, IftttAssumption DEF IftttAssumption, QueueInv
  <2> QED
    BY <2>1, <2>2, <2>3, <2>4
<1> QED
  BY <1>1, QueueAlways, PTL

\* The safety part of the promise.
KeepsOrder == Feed!Init /\ [][Feed!Next]_(Feed!feedVars)

Unsettled == (Held \cup Range(temp_queue)) \cap Readings

\* What is unsettled, by its places.
AtPlaces ==
  \A n : n \in Unsettled <=>
    /\ n \in Readings
    /\ \/ \E t \in Tasks : reader[t] = n \/ temp[t] = n
       \/ \E i \in 1 .. Len(temp_queue) : temp_queue[i] = n

\* A reading is unsettled when a task or the queue holds it.
LEMMA Places == QueueTypes => AtPlaces
<1> SUFFICES ASSUME QueueTypes PROVE AtPlaces
  OBVIOUS
<1>1. Range(temp_queue) = {temp_queue[i] : i \in 1 .. Len(temp_queue)}
  BY QueueRange DEF QueueTypes
<1> QED
  BY <1>1 DEF Unsettled, Held, AtPlaces

\* A step that only takes readings away gives them up.
LEMMA GivesUp ==
  ASSUME Unsettled' \subseteq Unsettled, UNCHANGED <<made, posted, tasks>>
  PROVE  Feed!Next
<1> DEFINE some == Unsettled \ Unsettled'
<1>1. some \in SUBSET Unsettled /\ Unsettled' = Unsettled \ some
  OBVIOUS
<1>2. Feed!GiveUp(some)
  BY <1>1 DEF Feed!GiveUp, Unsettled
<1> QED
  BY <1>1, <1>2 DEF Feed!Next, Unsettled

\* Every step of the client is a step of the feed or leaves it alone.
LEMMA FeedStep ==
  ASSUME QueueInv, QueueInv', [Next]_vars
  PROVE  [Feed!Next]_(Feed!feedVars)
<1>0. AtPlaces /\ AtPlaces'
  <2>1. QueueTypes /\ QueueTypes'
    BY DEF QueueInv
  <2>2. QueueTypes' => AtPlaces'
    BY Places, PTL
  <2> QED
    BY <2>1, <2>2, Places
<1>1. ASSUME NEW t \in Tasks, read_temp(t)
      PROVE  Feed!Next
  <2>1. /\ reader[t] = None /\ made' = made + 1 /\ made < MaxReadings /\ made \in Nat
        /\ reader' = [reader EXCEPT ![t] = made + 1]
        /\ UNCHANGED <<tasks, temp_queue, temp, posted>>
    BY <1>1 DEF read_temp, QueueInv, QueueTypes
  <2>2. reader'[t] = made + 1 /\ \A u \in Tasks : u # t => reader'[u] = reader[u]
    BY <2>1 DEF QueueInv, QueueTypes
  <2>3. made + 1 \in Readings
    BY <2>1, IftttAssumption DEF IftttAssumption, Readings
  <2>4. \A n : n \in Unsettled' <=> n \in Unsettled \cup {made + 1}
    BY <1>0, <2>1, <2>2, <2>3, Numbers DEF AtPlaces
  <2> QED
    BY <2>1, <2>3, <2>4 DEF Feed!Next, Feed!Read, Unsettled
<1>2. ASSUME NEW t \in Tasks, xQueueSendToBack(t)
      PROVE  Feed!Next
  <2>1. reader[t] \in Readings /\ UNCHANGED <<tasks, made, temp, posted>>
    BY <1>2 DEF xQueueSendToBack
  <2>2. \A u \in Tasks : reader'[u] = reader[u] \/ reader'[u] \in {None, Full}
    BY <1>2 DEF xQueueSendToBack, QueueInv, QueueTypes
  <2>3. \A i \in 1 .. Len(temp_queue') :
          \/ i \in 1 .. Len(temp_queue) /\ temp_queue'[i] = temp_queue[i]
          \/ temp_queue'[i] = reader[t]
    <3>1. CASE temp_queue' = temp_queue
      BY <3>1
    <3>2. CASE temp_queue' = Append(temp_queue, reader[t])
      BY <2>1, <3>2, QueueFacts DEF QueueInv, QueueTypes
    <3> QED
      BY <1>2, <3>1, <3>2 DEF xQueueSendToBack
  <2>4. Unsettled' \subseteq Unsettled
    BY <1>0, <2>1, <2>2, <2>3, Numbers DEF AtPlaces
  <2> QED
    BY <2>1, <2>4, GivesUp
<1>3. ASSUME NEW t \in Tasks, xQueueReset(t)
      PROVE  Feed!Next
  <2>1. UNCHANGED <<tasks, made, temp, posted>> /\ Len(temp_queue') = 0
    BY <1>3, EmptySeq DEF xQueueReset
  <2>2. \A u \in Tasks : reader'[u] = reader[u] \/ reader'[u] = None
    BY <1>3 DEF xQueueReset, QueueInv, QueueTypes
  <2>3. Unsettled' \subseteq Unsettled
    BY <1>0, <2>1, <2>2, Numbers DEF AtPlaces
  <2> QED
    BY <2>1, <2>3, GivesUp
<1>4. ASSUME NEW t \in Tasks, xQueueReceive(t)
      PROVE  Feed!Next
  <2>1. /\ temp_queue # <<>> /\ temp_queue' = Tail(temp_queue)
        /\ temp' = [temp EXCEPT ![t] = Head(temp_queue)]
        /\ UNCHANGED <<tasks, made, reader, posted>>
    BY <1>4 DEF xQueueReceive
  <2>2. /\ Len(temp_queue) \in Nat /\ Len(temp_queue) > 0 /\ Head(temp_queue) = temp_queue[1]
        /\ Len(temp_queue') = Len(temp_queue) - 1
        /\ \A i \in 1 .. Len(temp_queue') : temp_queue'[i] = temp_queue[i + 1]
    <3>1. Readings # {}
      BY <2>1, EmptySeq, HeadTailProperties DEF QueueInv, QueueTypes
    <3> QED
      BY <2>1, <3>1, QueueFacts DEF QueueInv, QueueTypes
  <2>3. 1 \in 1 .. Len(temp_queue) /\ \A i \in 1 .. Len(temp_queue') : i + 1 \in 1 .. Len(temp_queue)
    BY <2>2
  <2>4. \A u \in Tasks : temp'[u] = temp[u] \/ temp'[u] = temp_queue[1]
    BY <2>1, <2>2 DEF QueueInv, QueueTypes
  <2>5. Unsettled' \subseteq Unsettled
    BY <1>0, <2>1, <2>2, <2>3, <2>4 DEF AtPlaces
  <2> QED
    BY <2>1, <2>5, GivesUp
<1>5. ASSUME NEW t \in Tasks, Posted(t)
      PROVE  Feed!Next
  <2>1. /\ temp[t] # None /\ temp[t] \in Readings /\ posted' = posted \cup {temp[t]}
        /\ temp' = [temp EXCEPT ![t] = None]
        /\ UNCHANGED <<tasks, made, reader, temp_queue>>
    BY <1>5 DEF Posted, QueueInv, QueueTypes
  <2>2. temp'[t] = None /\ \A u \in Tasks : u # t => temp'[u] = temp[u]
    BY <2>1 DEF QueueInv, QueueTypes
  <2>3. temp[t] \in Unsettled
    BY <1>0, <2>1 DEF AtPlaces
  <2>4. \A n : n \in Unsettled' <=> n \in Unsettled \ {temp[t]}
    BY <1>0, <2>1, <2>2, Numbers DEF AtPlaces, QueueInv, OnePlace
  <2>5. tasks = 1 => \A m \in posted : m < temp[t]
    BY <2>1 DEF QueueInv, InOrder
  <2>6. Feed!Post(temp[t])
    BY <2>1, <2>3, <2>4, <2>5 DEF Feed!Post, Unsettled
  <2> QED
    BY <2>1, <2>6 DEF Feed!Next
<1>6. ASSUME NEW t \in Tasks, PostFails(t)
      PROVE  Feed!Next
  <2>1. UNCHANGED <<tasks, made, reader, temp_queue, posted>>
    BY <1>6 DEF PostFails
  <2>2. \A u \in Tasks : temp'[u] = temp[u] \/ temp'[u] = None
    BY <1>6 DEF PostFails, QueueInv, QueueTypes
  <2>3. Unsettled' \subseteq Unsettled
    BY <1>0, <2>1, <2>2, Numbers DEF AtPlaces
  <2> QED
    BY <2>1, <2>3, GivesUp
<1>7. CASE UNCHANGED <<made, taskVars>> /\ tasks' \in {tasks, tasks + 1}
  <2>1. UNCHANGED <<made, reader, temp_queue, temp, posted>>
    BY <1>7 DEF taskVars
  <2>2. Unsettled' = Unsettled
    BY <2>1 DEF Unsettled, Held
  <2> QED
    BY <1>7, <2>1, <2>2 DEF Feed!Next, Feed!Start, Feed!feedVars, Unsettled
<1>8. CASE appwifi_connect \/ handle_wifi_connect \/ StaDisconnected \/ UNCHANGED vars
  BY <1>7, <1>8 DEF appwifi_connect, handle_wifi_connect, StaDisconnected, vars
<1> QED
  BY <1>1, <1>2, <1>3, <1>4, <1>5, <1>6, <1>8 DEF Next, Reader, do_post

\* The client implements the safety part of its promise: readings are read once,
\* posted at most once, in order by a single poster, and else given up.
THEOREM ClientKeepsOrder == Spec => KeepsOrder
<1>1. ASSUME Init PROVE Feed!Init
  <2>1. /\ made = 0 /\ tasks = 0 /\ posted = {} /\ temp_queue = <<>>
        /\ \A t \in Tasks : reader[t] = None /\ temp[t] = None
    BY <1>1 DEF Init
  <2>2. Range(temp_queue) = {}
    <3>1. temp_queue \in Seq(Readings) /\ Len(temp_queue) = 0
      BY <2>1, EmptySeq
    <3>2. Range(temp_queue) = {temp_queue[i] : i \in 1 .. Len(temp_queue)}
      BY <3>1, QueueRange
    <3>3. 1 .. Len(temp_queue) = {}
      BY <3>1
    <3> QED
      BY <3>2, <3>3
  <2>3. Unsettled = {}
    BY <2>1, <2>2, Numbers DEF Unsettled, Held
  <2> QED
    BY <2>1, <2>3 DEF Feed!Init, Unsettled
<1>2. QueueInv /\ QueueInv' /\ [Next]_vars => [Feed!Next]_(Feed!feedVars)
  BY FeedStep
<1> QED
  BY <1>1, <1>2, QueueAlways, PTL DEF Spec, KeepsOrder

=============================================================================
