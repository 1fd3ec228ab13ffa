---------------------------- MODULE SettingsStore ----------------------------
(***************************************************************************)
(* The part of the registry that a protected session captures: the         *)
(* Screenmanager values under the root keys a game adapter names, what a    *)
(* snapshot of them holds, and when the store agrees with a snapshot.       *)
(* A setting is one (root key, value name) pair; its type and bytes are one *)
(* element of Data.                                                         *)
(***************************************************************************)
EXTENDS Integers

CONSTANTS
    Settings,   \* every (root, value name) pair the games may ever store
    Roots,      \* the root keys of GameAdapter::persistent_state_roots()
    RootOf,     \* the root key each setting lives under
    Data,       \* the type-and-bytes a value can hold
    Absent,     \* the value is not in the registry
    Unsaved     \* the setting's root was left out of a snapshot

ASSUME StoreAssumption ==
    /\ RootOf \in [Settings -> Roots]
    /\ Absent \notin Data
    /\ Unsaved \notin Data \cup {Absent}

(* What the registry can hold. *)
Contents == [Settings -> Data \cup {Absent}]

(* What a PersistentDisplayState can hold: a setting whose root has no set  *)
(* is Unsaved, one whose root has a set without that name is Absent.        *)
Snapshots == [Settings -> Data \cup {Absent, Unsaved}]

(* read_registry_values(r) finds at least one Screenmanager value. *)
Stored(store, r) == \E s \in Settings : RootOf[s] = r /\ store[s] # Absent

(* snapshot_persistent_roots: a root that stores nothing gets no set. *)
Snapshot(store) ==
    [s \in Settings |-> IF Stored(store, RootOf[s]) THEN store[s] ELSE Unsaved]

(* A session that protects nothing: persistent_state is nullopt. *)
NoSnapshot == [s \in Settings |-> Unsaved]

(* persistent_state_equals, on the roots the snapshot has a set for: same   *)
(* names, same types, same bytes, and no name besides.                      *)
Agrees(snapshot, store) ==
    \A s \in Settings : snapshot[s] # Unsaved => store[s] = snapshot[s]

(* Mutant: every root is restored, those the snapshot has no set for too. *)
ToRestoreEveryRoot(snapshot, store) ==
    {s \in Settings : snapshot[s] # Absent \/ store[s] # Absent}

(* restore_registry_prefix_exact: the names it deletes, being stored but    *)
(* not retained, and the names it writes, being in the snapshot.            *)
ToRestore(snapshot, store) ==
    {s \in Settings : /\ snapshot[s] # Unsaved
                      /\ snapshot[s] # Absent \/ store[s] # Absent}
=============================================================================
