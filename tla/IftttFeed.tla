------------------------------ MODULE IftttFeed -----------------------------
(***************************************************************************)
(* What the IFTTT client of ch11 promises of the temperatures it reads:    *)
(* every reading is settled in the end, by a post or by being given up; no *)
(* reading is posted twice, and while a single task posts they are posted  *)
(* in the order in which they were read.                                   *)
(***************************************************************************)
EXTENDS Integers

CONSTANT Readings    \* the numbers of the readings, in their order

VARIABLES
  made,      \* readings so far
  unsettled, \* neither posted nor given up
  posted,
  posters    \* tasks that post

feedVars == <<made, unsettled, posted, posters>>

Init == made = 0 /\ unsettled = {} /\ posted = {} /\ posters = 0

Start == posters' = posters + 1 /\ UNCHANGED <<made, unsettled, posted>>

Read ==
  /\ made + 1 \in Readings
  /\ made' = made + 1
  /\ unsettled' = unsettled \cup {made + 1}
  /\ UNCHANGED <<posted, posters>>

Post(n) ==
  /\ n \in unsettled
  /\ posters = 1 => \A m \in posted : m < n
  /\ unsettled' = unsettled \ {n}
  /\ posted' = posted \cup {n}
  /\ UNCHANGED <<made, posters>>

GiveUp(some) ==
  /\ some \subseteq unsettled
  /\ unsettled' = unsettled \ some
  /\ UNCHANGED <<made, posted, posters>>

Next ==
  \/ Start \/ Read
  \/ \E n \in Readings : Post(n)
  \/ \E some \in SUBSET unsettled : GiveUp(some)

EachSettled == \A n \in Readings : n \in unsettled ~> n \notin unsettled

Spec == Init /\ [][Next]_feedVars /\ EachSettled

=============================================================================
