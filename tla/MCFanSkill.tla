----------------------------- MODULE MCFanSkill -----------------------------
(* Values of the constants of FanSkill for model checking. *)
EXTENDS FanSkill, TLC

CONSTANTS t1, c1, c2

MCBtnVal  == [i \in Idx |-> <<0, 33, 66, 100>>[i + 1]]
MCLevels  == {BtnVal[i] : i \in Idx}
MCAsked   == {0, 50}
MCChanges == {-40, 33}

CallSymmetry == Permutations(Calls)

=============================================================================
