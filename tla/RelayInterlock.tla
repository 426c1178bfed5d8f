--------------------------- MODULE RelayInterlock ---------------------------
(***************************************************************************)
(* What the relay board of the smart fan promises to the motor, whatever   *)
(* asked for a speed.  At most one speed winding is energised, the board   *)
(* passes through "all windings off" between two speeds, and a speed that  *)
(* was accepted is energised in the end unless the board is reset.         *)
(*                                                                         *)
(* Abstract specification: module FanHw implements it.                     *)
(***************************************************************************)
EXTENDS Naturals

CONSTANT Speeds        \* the speed windings; 0 stands for "all off"

VARIABLES
  on,     \* the energised winding, 0 if none
  goal    \* the speed accepted last

vars == <<on, goal>>

Init == on = 0 /\ goal = 0

\* A new speed (or off) is accepted only when the previous one was reached,
\* and accepting it drops every winding.
Accept(s) ==
  /\ on = goal
  /\ s # goal
  /\ on' = 0
  /\ goal' = s

Energise ==
  /\ on # goal
  /\ on' = goal
  /\ UNCHANGED goal

Reset == on' = 0 /\ goal' = 0

Next ==
  \/ \E s \in Speeds \cup {0} : Accept(s)
  \/ Energise
  \/ Reset

Safety == Init /\ [][Next]_vars
Spec   == Safety /\ WF_vars(Energise)

=============================================================================
