---------------------------- MODULE MCStateGuard ----------------------------
(* StateGuard for TLC: two roots, one with two values. *)
EXTENDS StateGuard, TLC

CONSTANTS width, height, other, cn, global, d1, d2

MCSettings == {width, height, other}
MCRoots == {cn, global}
MCRootOf == width :> cn @@ height :> cn @@ other :> global
MCData == {d1, d2}

SymmetricData == Permutations(MCData)
=============================================================================
