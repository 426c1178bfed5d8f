----------------------------- MODULE MCSmartFan -----------------------------
(* Values of the constants of SmartFan for model checking. *)
EXTENDS SmartFan, TLC

CONSTANTS t1, t2

\* The first levels of btn_map; the Lambda asks for no other (update_power).
MCBtnVal == [i \in Idx |-> <<0, 33, 66, 100>>[i + 1]]
MCLevels == {BtnVal[i] : i \in Idx}

Symmetry == Permutations(Tasks)

=============================================================================
