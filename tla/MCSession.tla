------------------------------ MODULE MCSession ------------------------------
(* Session for TLC: two roots, one of which can be empty; two launchers.     *)
EXTENDS Session, TLC

CONSTANTS width, height, other, cn, global, p1, p2, g1, g2, d1, d2

MCSettings == {width, height, other}
MCRoots == {cn, global}
MCRootOf == width :> cn @@ height :> cn @@ other :> global
MCLaunchers == {p1, p2}
MCPids == {g1, g2}
MCData == {d1, d2}

(* One setting in either root, for a run that checks liveness too. *)
TwoSettings == {width, other}
TwoRootOf == width :> cn @@ other :> global

(* A journal that cannot be probed is met where nothing is owed: its game is *)
(* gone, the settings are the user's and the same profile is launched again. *)
(* The other cases are SessionProbe's.                                       *)
HarmlessProbe ==
    \A p \in Launchers :
        /\ MisprobeJournal(p) => registry = baseline /\ ~Alive(journal.pid)
        /\ Prepare(p) /\ journal # NoJournal => local'[p].snap = journal.snap

CrashAndProbe == {"crash", "probe"}
NoFaults == {}
=============================================================================
