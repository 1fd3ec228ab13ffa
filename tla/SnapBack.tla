------------------------------ MODULE SnapBack ------------------------------
(***************************************************************************)
(* What a persistent state guard does to the settings it watches, without   *)
(* saying how it learns of a change: between its start and its end it may    *)
(* take up a root, and then puts back, one by one, what differs there from   *)
(* the snapshot. StateGuard implements this, and Session counts on no more.  *)
(***************************************************************************)
EXTENDS SettingsStore

VARIABLES
    store,      \* the settings
    snapshot,   \* what they are put back to
    on,         \* the guard has been started and not yet joined
    todo,       \* what the present snap-back has left to put back
    writes      \* how often the game has written a setting

snapBackVars == <<store, snapshot, on, todo, writes>>

SnapBackInit ==
    /\ store \in Contents
    /\ snapshot = Snapshot(store)
    /\ on = FALSE /\ todo = {}
    /\ writes = 0

Start ==
    /\ ~on /\ todo = {}
    /\ on' = TRUE
    /\ UNCHANGED <<store, snapshot, todo, writes>>

(* A snap-back of one root begins, whether or not anything differs there.    *)
Wake(r) ==
    /\ on /\ todo = {}
    /\ todo' = {s \in ToRestore(snapshot, store) : RootOf[s] = r}
    /\ UNCHANGED <<store, snapshot, on, writes>>

WriteBack(s) ==
    /\ s \in todo
    /\ store' = [store EXCEPT ![s] = snapshot[s]]
    /\ todo' = todo \ {s}
    /\ UNCHANGED <<snapshot, on, writes>>

GiveUp ==
    /\ todo # {}
    /\ todo' = {}
    /\ UNCHANGED <<store, snapshot, on, writes>>

(* The guard is joined, never in the middle of a snap-back.                  *)
End ==
    /\ on /\ todo = {}
    /\ on' = FALSE
    /\ UNCHANGED <<store, snapshot, todo, writes>>

Change(s, d) ==
    /\ store' = [store EXCEPT ![s] = d]
    /\ writes' = writes + 1
    /\ UNCHANGED <<snapshot, on, todo>>

SnapBackNext ==
    \/ Start \/ End \/ GiveUp
    \/ \E r \in Roots : Wake(r)
    \/ \E s \in Settings : WriteBack(s) \/ \E d \in Data : Change(s, d)

SnapBackSpec == SnapBackInit /\ [][SnapBackNext]_snapBackVars
=============================================================================
