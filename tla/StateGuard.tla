----------------------------- MODULE StateGuard -----------------------------
(***************************************************************************)
(* PersistentStateGuard in detail: the one-shot registry notifications, the  *)
(* events they set, the worker that waits for them, and the engine thread    *)
(* that starts and stops it while the game writes its settings. Module       *)
(* Session keeps of this only the effect on the settings, module SnapBack.   *)
(*                                                                           *)
(* src/src/session/persistent_state_guard.cpp                                *)
(***************************************************************************)
EXTENDS SettingsStore

CONSTANTS
    MaxWrites,  \* bound: how many settings the game writes
    MaxFaults   \* bound: how many registry calls of the guard fail

ASSUME GuardAssumption == MaxWrites \in Nat /\ MaxFaults \in Nat

VARIABLES
    registry,   \* the settings
    snap,       \* snapshot_: the settings before the launch
    armed,      \* roots with a notification registered and not yet fired
    signaled,   \* roots whose event is set
    stopEvent,  \* stop_event_ is set
    running,    \* running_
    engine,     \* the thread that calls start() and stop()
    worker,     \* where watch_loop is
    root,       \* the watch the worker is serving
    todo,       \* what its restore has left to delete or write
    writes,     \* how many settings the game has written
    faults,     \* how many calls have failed
    listening,  \* history: roots whose latest RegNotifyChangeKeyValue succeeded
    missed      \* history: roots whose latest change the guard cannot know of,
                \*   or knew of when a call of its own failed

guardVars == <<registry, snap, armed, signaled, stopEvent, running, engine, worker,
               root, todo, writes, faults, listening, missed>>

watching == <<armed, signaled, listening>>
control == <<stopEvent, running, engine>>

(* The roots the snapshot has a set for; each gets a watch. *)
Watched == {r \in Roots : \E s \in Settings : RootOf[s] = r /\ snap[s] # Unsaved}

EngineStates == {"starting", "watching", "joining", "stopped"}
WorkerStates == {"none", "check", "wait", "arm", "read", "restore", "write", "exited"}

GuardTypeOK ==
    /\ registry \in Contents
    /\ snap \in Snapshots
    /\ armed \subseteq Watched
    /\ signaled \subseteq Watched
    /\ stopEvent \in BOOLEAN
    /\ running \in BOOLEAN
    /\ engine \in EngineStates
    /\ worker \in WorkerStates
    /\ root \in Roots
    /\ todo \subseteq Settings
    /\ writes \in 0 .. MaxWrites
    /\ faults \in 0 .. MaxFaults
    /\ listening \subseteq Watched
    /\ missed \subseteq Roots

(* start() is called with the game already running. *)
GuardInit ==
    /\ registry \in Contents
    /\ snap = Snapshot(registry)
    /\ snap # NoSnapshot
    /\ armed = {} /\ signaled = {}
    /\ stopEvent = FALSE /\ running = FALSE
    /\ engine = "starting" /\ worker = "none"
    /\ root \in Roots /\ todo = {}
    /\ writes = 0 /\ faults = 0
    /\ listening = {} /\ missed = {}

-----------------------------------------------------------------------------
(* root_matches_snapshot *)
Matches(r) ==
    \A s \in Settings : RootOf[s] = r /\ snap[s] # Unsaved => registry[s] = snap[s]

CallFails == faults < MaxFaults /\ faults' = faults + 1

(* What woke the worker is forgotten, unless the root has changed again. *)
Forget == missed' = IF root \in signaled THEN missed ELSE missed \cup {root}

(* A value under r is set or deleted: a registered notification fires, once. *)
Notify(r) ==
    /\ signaled' = IF r \in armed THEN signaled \cup {r} ELSE signaled
    /\ armed' = armed \ {r}

(* Mutant: roots without a snapshot are watched too. *)
StartWatchAnything(r) ==
    /\ engine = "starting" /\ worker = "none"
    /\ r \notin listening
    /\ armed' = armed \cup {r}
    /\ listening' = listening \cup {r}
    /\ UNCHANGED <<registry, snap, signaled, control, worker, root, todo, writes, faults, missed>>

(* start: open the next root's key, create its event and arm it. *)
StartWatch(r) ==
    /\ engine = "starting" /\ worker = "none"
    /\ r \in Watched \ listening
    /\ armed' = armed \cup {r}
    /\ listening' = listening \cup {r}
    /\ UNCHANGED <<registry, snap, signaled, control, worker, root, todo, writes, faults, missed>>

(* start fails: nothing is left running, and the engine ends the session. *)
StartFails ==
    /\ engine = "starting" /\ CallFails
    /\ engine' = "stopped"
    /\ armed' = {} /\ signaled' = {} /\ listening' = {}
    /\ UNCHANGED <<registry, snap, stopEvent, running, worker, root, todo, writes, missed>>

StartWorker ==
    /\ engine = "starting" /\ listening = Watched
    /\ engine' = "watching"
    /\ running' = TRUE
    /\ worker' = "check"
    /\ UNCHANGED <<registry, snap, watching, stopEvent, root, todo, writes, faults, missed>>

(* stop: running_ = false, SetEvent, then join. *)
Stop ==
    /\ engine = "watching"
    /\ engine' = "joining"
    /\ running' = FALSE
    /\ stopEvent' = TRUE
    /\ UNCHANGED <<registry, snap, watching, worker, root, todo, writes, faults, missed>>

(* Mutant: stop returns without waiting for the worker. *)
JoinedAtOnce ==
    /\ engine = "joining"
    /\ engine' = "stopped"
    /\ UNCHANGED <<registry, snap, watching, stopEvent, running, worker, root, todo,
                   writes, faults, missed>>

Joined ==
    /\ engine = "joining" /\ worker = "exited"
    /\ engine' = "stopped"
    /\ armed' = {} /\ signaled' = {} /\ listening' = {}
    /\ UNCHANGED <<registry, snap, stopEvent, running, worker, root, todo, writes, faults, missed>>

-----------------------------------------------------------------------------
(* while (running_) *)
CheckRunning ==
    /\ worker = "check"
    /\ worker' = IF running THEN "wait" ELSE "exited"
    /\ UNCHANGED <<registry, snap, watching, control, root, todo, writes, faults, missed>>

(* WaitForMultipleObjects: the stop event comes first and is auto-reset. *)
WakeToStop ==
    /\ worker = "wait" /\ stopEvent
    /\ stopEvent' = FALSE
    /\ worker' = "exited"
    /\ UNCHANGED <<registry, snap, watching, running, engine, root, todo, writes, faults, missed>>

WakeFor(r) ==
    /\ worker = "wait" /\ ~stopEvent
    /\ r \in signaled
    /\ signaled' = signaled \ {r}
    /\ root' = r
    /\ worker' = "arm"
    /\ UNCHANGED <<registry, snap, armed, listening, control, todo, writes, faults, missed>>

(* The wait fails: the worker returns, and nobody is told. *)
WaitFails ==
    /\ worker = "wait" /\ CallFails
    /\ worker' = "exited"
    /\ listening' = {}
    /\ missed' = missed \cup signaled
    /\ UNCHANGED <<registry, snap, armed, signaled, control, root, todo, writes>>

(* Mutant: the one-shot notification is taken for a lasting one. *)
RearmNotNeeded ==
    /\ worker = "arm"
    /\ worker' = "read"
    /\ UNCHANGED <<registry, snap, watching, control, root, todo, writes, faults, missed>>

(* Re-arm first; the result of arm() is ignored. *)
Rearm ==
    /\ worker = "arm"
    /\ worker' = "read"
    /\ \/ /\ armed' = armed \cup {root}
          /\ listening' = listening \cup {root}
          /\ UNCHANGED <<faults, missed>>
       \/ /\ CallFails
          /\ listening' = listening \ {root}
          /\ UNCHANGED <<armed, missed>>
    /\ UNCHANGED <<registry, snap, signaled, control, root, todo, writes>>

(* Mutant: no comparison, so the guard answers its own writes. *)
ReadAndRestore ==
    /\ worker = "read"
    /\ worker' = "restore"
    /\ UNCHANGED <<registry, snap, watching, control, root, todo, writes, faults, missed>>

(* Read the root and compare; after a failed read the change is forgotten. *)
Read ==
    /\ worker = "read"
    /\ \/ /\ worker' = IF Matches(root) THEN "check" ELSE "restore"
          /\ UNCHANGED <<faults, missed>>
       \/ /\ CallFails
          /\ worker' = "check"
          /\ Forget
    /\ UNCHANGED <<registry, snap, watching, control, root, todo, writes>>

(* restore_registry_prefix_exact reads again to learn what to delete. *)
BeginRestore ==
    /\ worker = "restore"
    /\ worker' = "write"
    /\ todo' = {s \in ToRestore(snap, registry) : RootOf[s] = root}
    /\ UNCHANGED <<registry, snap, watching, control, root, writes, faults, missed>>

(* One delete or write, which notifies the guard of its own change. *)
WriteSetting(s) ==
    /\ worker = "write" /\ s \in todo
    /\ registry' = [registry EXCEPT ![s] = snap[s]]
    /\ todo' = todo \ {s}
    /\ Notify(root)
    /\ UNCHANGED <<snap, listening, control, worker, root, writes, faults, missed>>

RestoreDone ==
    /\ worker = "write" /\ todo = {}
    /\ worker' = "check"
    /\ UNCHANGED <<registry, snap, watching, control, root, todo, writes, faults, missed>>

(* A failed restore is tried again only if a write of it has notified. *)
RestoreFails ==
    /\ worker \in {"restore", "write"} /\ CallFails
    /\ worker' = "check"
    /\ todo' = {}
    /\ Forget
    /\ UNCHANGED <<registry, snap, watching, control, root, writes>>

-----------------------------------------------------------------------------
(* The game persists a setting, before, while or after anybody watches. *)
GameWrites(s, d) ==
    /\ writes < MaxWrites
    /\ writes' = writes + 1
    /\ registry' = [registry EXCEPT ![s] = d]
    /\ missed' = IF RootOf[s] \in listening THEN missed \ {RootOf[s]}
                 ELSE missed \cup {RootOf[s]}
    /\ Notify(RootOf[s])
    /\ UNCHANGED <<snap, listening, control, worker, root, todo, faults>>

-----------------------------------------------------------------------------
Work ==
    \/ CheckRunning \/ WakeToStop \/ (\E r \in Roots : WakeFor(r))
    \/ WaitFails \/ Rearm \/ Read \/ BeginRestore \/ (\E s \in Settings : WriteSetting(s))
    \/ RestoreDone \/ RestoreFails

Control ==
    (\E r \in Roots : StartWatch(r)) \/ StartFails \/ StartWorker \/ Stop \/ Joined

GuardNext ==
    Work \/ Control \/ \E s \in Settings, d \in Data : GameWrites(s, d)

GuardSpec == GuardInit /\ [][GuardNext]_guardVars

(* The worker thread runs whenever it is not waiting; start() runs through.  *)
(* No failure is taken for progress.                                         *)
GuardFairSpec ==
    /\ GuardSpec
    /\ WF_guardVars(Work /\ UNCHANGED faults)
    /\ WF_guardVars(((\E r \in Roots : StartWatch(r)) \/ StartWorker) /\ UNCHANGED faults)

-----------------------------------------------------------------------------
(* When the guard sleeps with nothing to wake it, every watched root is as   *)
(* in the snapshot, but for those whose latest change was made with no       *)
(* notification registered or was dropped by a failed call.                  *)
NoLostWake ==
    worker = "wait" /\ signaled = {} =>
        \A r \in Watched : Matches(r) \/ r \in missed

(* Once stop() has returned the guard changes nothing: the engine's restore  *)
(* and verification are not disturbed.                                       *)
QuietAfterStop ==
    [][engine = "stopped" => UNCHANGED <<worker, todo>>]_guardVars

(* A change the guard was listening for is snapped back while it watches. *)
ChangeIsAnswered ==
    \A r \in Roots :
        engine = "watching" /\ ~Matches(r) /\ r \notin missed
            ~> Matches(r) \/ r \in missed \/ engine # "watching"

(* The guard's own writes wake it, but do not keep it writing: when the game *)
(* has stopped changing things the worker comes to rest, and once stop() has *)
(* been called, to its end.                                                  *)
GuardComesToRest ==
    <>[](worker \in {"none", "exited"} \/ (worker = "wait" /\ engine = "watching"))

(* The guard writes nothing but the snapshot's values, to a root it has read *)
(* after its start, and nothing at all once stop() has returned.             *)
Effect == INSTANCE SnapBack WITH
    store <- registry,
    snapshot <- snap,
    on <- engine \in {"watching", "joining"}

ImplementsSnapBack == Effect!SnapBackSpec
=============================================================================
