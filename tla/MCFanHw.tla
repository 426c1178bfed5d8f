------------------------------ MODULE MCFanHw -------------------------------
(* Values of the constants of FanHw for model checking. *)
EXTENDS FanHw

\* btn_map of app_hw.c
MCBtnVal == [i \in 0 .. 3 |-> CASE i = 0 -> 0 [] i = 1 -> 33 [] i = 2 -> 66 [] i = 3 -> 100]

=============================================================================
