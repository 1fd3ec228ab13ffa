---------------------------- MODULE MCElevation ----------------------------
(* Elevation for TLC: two configurations that can be launched and one that   *)
(* cannot.                                                                   *)
EXTENDS Elevation

CONSTANTS plain, tuned, broken

MCConfigs == {plain, tuned, broken}
MCLaunchable == {plain, tuned}

(* An error's text that fills the pipe is left out: see the README. *)
MCDetails == {"fits", "over"}

(* The two that can be launched are alike. *)
MCInit == Init /\ config = plain
MCSpec == MCInit /\ [][Next]_vars /\ Fairness
=============================================================================
