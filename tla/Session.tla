------------------------------- MODULE Session -------------------------------
(***************************************************************************)
(* SessionEngine with everything it touches: launcher processes that take   *)
(* the session lease, recover from the journal, start a game, patch it,     *)
(* guard its persisted display settings while it runs and restore them when *)
(* it has gone; the game processes themselves; the journal file; and the    *)
(* ways a step can fail or a launcher can die between two steps.            *)
(*                                                                          *)
(* src/src/session/session_engine.cpp, journal.cpp and                      *)
(* persistent_state_guard.cpp; the registry is module SettingsStore.        *)
(***************************************************************************)
EXTENDS SettingsStore, FiniteSets

CONSTANTS
    Launchers,  \* launcher processes the user may start
    Pids,       \* process ids the system may give to a game
    NoPid,      \* journal pid 0: no game has been spawned
    NoJournal,  \* active-session.json does not exist
    Nobody,     \* the lease mutex has no owner
    Faults,     \* the kinds of failure this instance can meet (FaultKinds)
    MaxFaults   \* bound: how many failures, crashes and pid reuses may happen

FaultKinds == {"load", "probe", "save", "clear", "restore", "verify", "spawn",
               "resume", "modules", "suspend", "stray", "patch", "guard",
               "runtime", "wait", "terminate", "crash", "reuse"}

ASSUME SessionAssumption ==
    /\ NoPid \notin Pids
    /\ Nobody \notin Launchers
    /\ Faults \subseteq FaultKinds
    /\ MaxFaults \in Nat
    /\ NoJournal \notin Snapshots
    /\ NoJournal \notin [pid : Pids \cup {NoPid}, snap : Snapshots]

VARIABLES
    registry,   \* the persisted display settings
    journal,    \* active-session.json
    lease,      \* who owns the named mutex
    game,       \* each pid: "gone", "suspended", "running" or "foreign"
    pc,         \* where each launcher is
    local,      \* the engine's locals in each launcher
    guard,      \* each launcher's PersistentStateGuard worker
    faults,     \* how many failures have happened (bounded by MaxFaults)
    baseline,   \* history: the settings as the user had them before the
                \*   oldest session that is still to be undone
    shielded    \* history: pids whose session protects the settings

vars == <<registry, journal, lease, game, pc, local, guard, faults, baseline, shielded>>

Journals == [pid : Pids \cup {NoPid}, snap : Snapshots]

ProcessStates == {"gone", "suspended", "running", "foreign"}

Labels == {"idle", "load", "restore", "verify", "clear", "prepare", "savePreparing",
           "launch", "abandon", "saveResolving", "locate", "resumeLoader",
           "waitModules", "suspendLoader", "resolve", "savePatching", "patch",
           "saveRunning", "resume", "startGuard", "startRuntime", "awaitExit",
           "stopGuard", "terminate", "saveFailed", "leave"}

(* Why a launcher is restoring or clearing: recovery of an older session,   *)
(* the normal end, finish_failed, or a launch that never spawned a game.    *)
Paths == {"preflight", "normal", "failed", "abandoned"}

Locals == [path : Paths, snap : Snapshots, pid : Pids \cup {NoPid},
           hasRun : BOOLEAN,
           gameDead : BOOLEAN, cleanupFailed : BOOLEAN, todo : SUBSET Settings]

(* on: the worker thread exists; todo: what its current snap-back has left. *)
Guards == [on : BOOLEAN, todo : SUBSET Settings]

Fresh == [path |-> "preflight", snap |-> NoSnapshot, pid |-> NoPid,
          hasRun |-> FALSE,
          gameDead |-> FALSE, cleanupFailed |-> FALSE, todo |-> {}]

GuardOff == [on |-> FALSE, todo |-> {}]

TypeOK ==
    /\ registry \in Contents
    /\ journal \in Journals \cup {NoJournal}
    /\ lease \in Launchers \cup {Nobody}
    /\ game \in [Pids -> ProcessStates]
    /\ pc \in [Launchers -> Labels]
    /\ local \in [Launchers -> Locals]
    /\ guard \in [Launchers -> Guards]
    /\ faults \in 0 .. MaxFaults
    /\ baseline \in Contents
    /\ shielded \subseteq Pids

Init ==
    /\ registry \in Contents
    /\ baseline = registry
    /\ journal = NoJournal
    /\ lease = Nobody
    /\ game = [g \in Pids |-> "gone"]
    /\ pc = [p \in Launchers |-> "idle"]
    /\ local = [p \in Launchers |-> Fresh]
    /\ guard = [p \in Launchers |-> GuardOff]
    /\ faults = 0
    /\ shielded = {}

-----------------------------------------------------------------------------
Alive(g) == g \in Pids /\ game[g] \in {"suspended", "running"}

(* Mutants: no live process is ever seen; every known pid counts as live. *)
InUseNever(g) == FALSE
InUseForever(g) == g \in Pids

(* inspect_process_liveness: some process, the game or another, has the pid. *)
InUse(g) == g \in Pids /\ game[g] # "gone"

(* A step fails in the way k names, if this instance still lets it. *)
Fault(k) ==
    /\ k \in Faults
    /\ faults < MaxFaults
    /\ faults' = faults + 1

Go(p, from, to) ==
    /\ pc[p] = from
    /\ pc' = [pc EXCEPT ![p] = to]

(* Mutant: the snapshot is dropped once there is a pid to write. *)
RecordWithoutSnapshot(p) ==
    [pid |-> local[p].pid,
     snap |-> IF local[p].pid = NoPid THEN local[p].snap ELSE NoSnapshot]

(* The journal the engine would write now. *)
Record(p) == [pid |-> local[p].pid, snap |-> local[p].snap]

(* save_journal: atomic; an error can be reported with or without the new   *)
(* bytes in place (write_file_atomic re-reads what it has published).       *)
Saved(p) ==
    /\ journal' = Record(p)
    /\ UNCHANGED faults

SaveFailed(p) ==
    /\ Fault("save")
    /\ journal' \in {journal, Record(p)}

(* Every failure after the spawn ends in finish_failed. *)
FinishFailed(p, from) ==
    /\ Go(p, from, "terminate")
    /\ local' = [local EXCEPT ![p].path = "failed"]

-----------------------------------------------------------------------------
(* SessionLease::acquire; a second launcher is told SessionAlreadyActive. *)
Acquire(p) ==
    /\ lease = Nobody
    /\ Go(p, "idle", "load")
    /\ lease' = p
    /\ UNCHANGED <<registry, journal, game, local, guard, faults, baseline, shielded>>

(* recover: load_journal finds no file. *)
NothingToRecover(p) ==
    /\ journal = NoJournal
    /\ Go(p, "load", "prepare")
    /\ UNCHANGED <<registry, journal, lease, game, local, guard, faults, baseline, shielded>>

(* load_journal ignores the error of exists(): a file that cannot be        *)
(* probed counts as no journal.                                             *)
MisprobeJournal(p) ==
    /\ journal # NoJournal
    /\ Fault("probe")
    /\ Go(p, "load", "prepare")
    /\ UNCHANGED <<registry, journal, lease, game, local, guard, baseline, shielded>>

(* recover refuses: something lives under the journal's pid, or the journal *)
(* or the process cannot be read.                                           *)
RefuseRecovery(p) ==
    /\ journal # NoJournal
    /\ \/ InUse(journal.pid) /\ UNCHANGED faults
       \/ Fault("load")
    /\ Go(p, "load", "leave")
    /\ UNCHANGED <<registry, journal, lease, game, local, guard, baseline, shielded>>

(* recover: the game is gone, or was never spawned. *)
BeginRecovery(p) ==
    /\ journal # NoJournal
    /\ ~InUse(journal.pid)
    /\ Go(p, "load", "restore")
    /\ local' = [local EXCEPT ![p] =
                    [@ EXCEPT !.snap = journal.snap,
                              !.todo = ToRestore(journal.snap, registry)]]
    /\ UNCHANGED <<registry, journal, lease, game, guard, faults, baseline, shielded>>

(* One RegDeleteValue or RegSetValue of restore_registry_prefix_exact. *)
RestoreSetting(p, s) ==
    /\ pc[p] = "restore"
    /\ s \in local[p].todo
    /\ registry' = [registry EXCEPT ![s] = local[p].snap[s]]
    /\ local' = [local EXCEPT ![p].todo = @ \ {s}]
    /\ UNCHANGED <<journal, lease, game, pc, guard, faults, baseline, shielded>>

RestoreDone(p) ==
    /\ local[p].todo = {}
    /\ Go(p, "restore", "verify")
    /\ UNCHANGED <<registry, journal, lease, game, local, guard, faults, baseline, shielded>>

(* Mutants: a failed restore clears the journal; a failed recovery is no     *)
(* reason not to start the next session.                                     *)
RestoreFailsQuietly(p) ==
    /\ local[p].snap # NoSnapshot /\ Fault("restore")
    /\ Go(p, "restore", "clear")
    /\ UNCHANGED <<registry, journal, lease, game, local, guard, baseline, shielded>>

RestoreFailsAndGoesOn(p) ==
    /\ local[p].snap # NoSnapshot /\ Fault("restore")
    /\ Go(p, "restore", IF local[p].path = "preflight" THEN "prepare" ELSE "leave")
    /\ UNCHANGED <<registry, journal, lease, game, local, guard, baseline, shielded>>

(* A failed restore keeps the journal, whatever path led to it. *)
RestoreFails(p) ==
    /\ local[p].snap # NoSnapshot /\ Fault("restore")
    /\ Go(p, "restore", "leave")
    /\ UNCHANGED <<registry, journal, lease, game, local, guard, baseline, shielded>>

(* Verified: read the roots again, compare. finish_failed then keeps the    *)
(* journal all the same if an earlier part of its cleanup failed.           *)
Verify(p) ==
    /\ Agrees(local[p].snap, registry)
    /\ Go(p, "verify", IF local[p].cleanupFailed THEN "leave" ELSE "clear")
    /\ UNCHANGED <<registry, journal, lease, game, local, guard, faults, baseline, shielded>>

VerifyFails(p) ==
    /\ \/ ~Agrees(local[p].snap, registry) /\ UNCHANGED faults
       \/ local[p].snap # NoSnapshot /\ Fault("verify")
    /\ Go(p, "verify", "leave")
    /\ UNCHANGED <<registry, journal, lease, game, local, guard, baseline, shielded>>

(* clear_journal. After a recovery the same launcher goes on to its session. *)
ClearJournal(p) ==
    /\ Go(p, "clear", IF local[p].path = "preflight" THEN "prepare" ELSE "leave")
    /\ journal' = NoJournal
    /\ UNCHANGED <<registry, lease, game, local, guard, faults, baseline, shielded>>

ClearFails(p) ==
    /\ Fault("clear")
    /\ Go(p, "clear", "leave")
    /\ UNCHANGED <<registry, journal, lease, game, local, guard, baseline, shielded>>

-----------------------------------------------------------------------------
(* The settings the user is owed: as they are now, unless an older session's *)
(* record of them has still to be honoured.                                  *)
Owed ==
    IF journal # NoJournal /\ journal.snap # NoSnapshot THEN baseline ELSE registry

(* Preparing: locate the install, validate the profile and, for a protected *)
(* session, snapshot the settings; a snapshot that found nothing is an      *)
(* error.                                                                   *)
Prepare(p) ==
    /\ Go(p, "prepare", "savePreparing")
    /\ \E snap \in {NoSnapshot, Snapshot(registry)} :
          local' = [local EXCEPT ![p] = [Fresh EXCEPT !.path = "normal", !.snap = snap]]
    /\ baseline' = Owed
    /\ UNCHANGED <<registry, journal, lease, game, guard, faults, shielded>>

(* Any refusal of Preparing: no journal has been written yet. *)
PrepareFails(p) ==
    /\ Go(p, "prepare", "leave")
    /\ UNCHANGED <<registry, journal, lease, game, local, guard, faults, baseline, shielded>>

(* The journal is on disk before there is a game. *)
SavePreparing(p) ==
    /\ \/ Saved(p) /\ Go(p, "savePreparing", "launch")
       \/ SaveFailed(p) /\ Go(p, "savePreparing", "leave")
    /\ UNCHANGED <<registry, lease, game, local, guard, baseline, shielded>>

(* Launching: CreateProcess(SUSPENDED). *)
Spawn(p) ==
    /\ Go(p, "launch", "saveResolving")
    /\ \E g \in Pids :
          /\ game[g] = "gone"
          /\ game' = [game EXCEPT ![g] = "suspended"]
          /\ local' = [local EXCEPT ![p].pid = g]
          /\ shielded' = IF local[p].snap = NoSnapshot THEN shielded \ {g}
                         ELSE shielded \cup {g}
    /\ UNCHANGED <<registry, journal, lease, guard, faults, baseline>>

(* build_launch_plan or spawn_suspended fails: journal Failed, then cleared. *)
LaunchFails(p) ==
    /\ Fault("spawn")
    /\ Go(p, "launch", "abandon")
    /\ local' = [local EXCEPT ![p].path = "abandoned"]
    /\ UNCHANGED <<registry, journal, lease, game, guard, baseline, shielded>>

SaveAbandoned(p) ==
    /\ \/ Saved(p) /\ Go(p, "abandon", "clear")
       \/ SaveFailed(p) /\ Go(p, "abandon", "leave")
    /\ UNCHANGED <<registry, lease, game, local, guard, baseline, shielded>>

(* Mutant: the launch goes on although the pid could not be saved. *)
SaveResolvingUnchecked(p) ==
    /\ Saved(p) \/ SaveFailed(p)
    /\ Go(p, "saveResolving", "locate")
    /\ UNCHANGED <<registry, lease, game, local, guard, baseline, shielded>>

(* The game's pid is on disk before the game may run. *)
SaveResolving(p) ==
    /\ \/ Saved(p) /\ Go(p, "saveResolving", "locate") /\ UNCHANGED local
       \/ SaveFailed(p) /\ FinishFailed(p, "saveResolving")
    /\ UNCHANGED <<registry, lease, game, guard, baseline, shielded>>

(* Resolving: the required modules are there, or the loader must run first. *)
LocateModules(p) ==
    /\ \/ Go(p, "locate", "resolve") /\ UNCHANGED local
       \/ /\ Go(p, "locate", "resumeLoader")
          /\ local' = [local EXCEPT ![p].hasRun = TRUE]
    /\ UNCHANGED <<registry, journal, lease, game, guard, faults, baseline, shielded>>

(* resume_process_threads or resume_thread on the owned game; none of its   *)
(* threads can be resumed once it is gone.                                  *)
ResumeGame(p, from, to) ==
    /\ Alive(local[p].pid)
    /\ game' = [game EXCEPT ![local[p].pid] = "running"]
    /\ local' = [local EXCEPT ![p].hasRun = TRUE]
    /\ Go(p, from, to)
    /\ UNCHANGED <<registry, journal, lease, guard, faults, baseline, shielded>>

ResumeFails(p, from) ==
    /\ \/ ~Alive(local[p].pid) /\ UNCHANGED faults
       \/ Fault("resume")
    /\ FinishFailed(p, from)
    /\ UNCHANGED <<registry, journal, lease, game, guard, baseline, shielded>>

ResumeLoader(p) ==
    \/ ResumeGame(p, "resumeLoader", "waitModules")
    \/ ResumeFails(p, "resumeLoader")

(* The polling loop: modules appear, or the game exits or the deadline passes. *)
WaitForModules(p) ==
    \/ /\ Alive(local[p].pid)
       /\ Go(p, "waitModules", "suspendLoader")
       /\ UNCHANGED <<registry, journal, lease, game, local, guard, faults, baseline, shielded>>
    \/ /\ (~Alive(local[p].pid) /\ UNCHANGED faults) \/ Fault("modules")
       /\ FinishFailed(p, "waitModules")
       /\ UNCHANGED <<registry, journal, lease, game, guard, baseline, shielded>>

(* suspend_process_threads walks one snapshot of the threads: a thread       *)
(* created behind the walk ("stray") leaves the game running, and the walk   *)
(* reports success.                                                          *)
SuspendLoader(p) ==
    \/ /\ Alive(local[p].pid)
       /\ \/ game' = [game EXCEPT ![local[p].pid] = "suspended"] /\ UNCHANGED faults
          \/ UNCHANGED game /\ Fault("stray")
       /\ Go(p, "suspendLoader", "resolve")
       /\ UNCHANGED <<registry, journal, lease, local, guard, baseline, shielded>>
    \/ /\ (~Alive(local[p].pid) /\ UNCHANGED faults) \/ Fault("suspend")
       /\ FinishFailed(p, "suspendLoader")
       /\ UNCHANGED <<registry, journal, lease, game, guard, baseline, shielded>>

(* snapshot_module and resolve_signatures; neither works on a dead game. *)
Resolve(p) ==
    /\ \/ /\ Alive(local[p].pid)
          /\ Go(p, "resolve", "savePatching")
          /\ UNCHANGED <<local, faults>>
       \/ /\ (~Alive(local[p].pid) /\ UNCHANGED faults) \/ Fault("patch")
          /\ FinishFailed(p, "resolve")
    /\ UNCHANGED <<registry, journal, lease, game, guard, baseline, shielded>>

SavePatching(p) ==
    /\ \/ Saved(p) /\ Go(p, "savePatching", "patch") /\ UNCHANGED local
       \/ SaveFailed(p) /\ FinishFailed(p, "savePatching")
    /\ UNCHANGED <<registry, lease, game, guard, baseline, shielded>>

(* build_patch_plan and apply_patch_plan, which undoes its own partial work. *)
ApplyPatches(p) ==
    /\ \/ Alive(local[p].pid) /\ Go(p, "patch", "saveRunning") /\ UNCHANGED <<local, faults>>
       \/ /\ (~Alive(local[p].pid) /\ UNCHANGED faults) \/ Fault("patch")
          /\ FinishFailed(p, "patch")
    /\ UNCHANGED <<registry, journal, lease, game, guard, baseline, shielded>>

SaveRunning(p) ==
    /\ \/ Saved(p) /\ Go(p, "saveRunning", "resume") /\ UNCHANGED local
       \/ SaveFailed(p) /\ FinishFailed(p, "saveRunning")
    /\ UNCHANGED <<registry, lease, game, guard, baseline, shielded>>

Resume(p) ==
    \/ ResumeGame(p, "resume", "startGuard")
    \/ ResumeFails(p, "resume")

(* guard.start, only for a session with a snapshot. *)
StartGuard(p) ==
    /\ \/ /\ Go(p, "startGuard", "startRuntime")
          /\ guard' = IF local[p].snap = NoSnapshot THEN guard
                      ELSE [guard EXCEPT ![p].on = TRUE]
          /\ UNCHANGED <<local, faults>>
       \/ /\ local[p].snap # NoSnapshot
          /\ Fault("guard")
          /\ FinishFailed(p, "startGuard")
          /\ UNCHANGED guard
    /\ UNCHANGED <<registry, journal, lease, game, baseline, shielded>>

(* controller.start, if the profile asks for it: a failure here ends the    *)
(* session with the guard still watching.                                   *)
StartRuntime(p) ==
    /\ \/ Go(p, "startRuntime", "awaitExit") /\ UNCHANGED <<local, faults>>
       \/ Fault("runtime") /\ FinishFailed(p, "startRuntime")
    /\ UNCHANGED <<registry, journal, lease, game, guard, baseline, shielded>>

(* WaitForSingleObject(INFINITE) and GetExitCodeProcess. *)
AwaitExit(p) ==
    /\ \/ ~Alive(local[p].pid) /\ Go(p, "awaitExit", "stopGuard") /\ UNCHANGED <<local, faults>>
       \/ Fault("wait") /\ FinishFailed(p, "awaitExit")
    /\ UNCHANGED <<registry, journal, lease, game, guard, baseline, shielded>>

(* Restoring: join the guard's worker, then restore. *)
StopGuard(p) ==
    /\ guard[p].todo = {}
    /\ Go(p, "stopGuard", "restore")
    /\ guard' = [guard EXCEPT ![p] = GuardOff]
    /\ local' = [local EXCEPT ![p].todo = ToRestore(local[p].snap, registry)]
    /\ UNCHANGED <<registry, journal, lease, game, faults, baseline, shielded>>

-----------------------------------------------------------------------------
(* Mutant: a game that was told to terminate is taken for dead. *)
TerminateUnconfirmed(p) ==
    /\ Go(p, "terminate", "saveFailed")
    /\ \/ /\ game' = [game EXCEPT ![local[p].pid] = "gone"]
          /\ UNCHANGED faults
       \/ Fault("terminate") /\ UNCHANGED game
    /\ local' = [local EXCEPT ![p].gameDead = TRUE]
    /\ UNCHANGED <<registry, journal, lease, guard, baseline, shielded>>

(* finish_failed, up to the Failed save: an exited game needs nothing; a     *)
(* live one is rolled back if its patches never ran, and terminated; the     *)
(* rollback, the termination and the waits may fail.                         *)
Terminate(p) ==
    LET g == local[p].pid IN
    /\ Go(p, "terminate", "saveFailed")
    /\ \E failed, died \in BOOLEAN :
          /\ failed \/ died
          /\ IF failed THEN Fault("terminate") ELSE UNCHANGED faults
          /\ game' = IF died /\ Alive(g) THEN [game EXCEPT ![g] = "gone"] ELSE game
          /\ local' = [local EXCEPT ![p] =
                          [@ EXCEPT !.gameDead = died, !.cleanupFailed = failed]]
    /\ UNCHANGED <<registry, journal, lease, guard, baseline, shielded>>

(* journal Failed; a game that may be alive, or a cleanup that failed before *)
(* anything was to restore, keeps the journal.                               *)
SaveFailedStage(p) ==
    LET next(failed) == IF ~local[p].gameDead THEN "leave"
                        ELSE IF local[p].hasRun THEN "restore"
                        ELSE IF failed THEN "leave" ELSE "clear"
        clean(failed) == [local EXCEPT ![p] =
                            [@ EXCEPT !.cleanupFailed = failed,
                                      !.todo = ToRestore(local[p].snap, registry)]]
    IN
    /\ \/ /\ Saved(p)
          /\ Go(p, "saveFailed", next(local[p].cleanupFailed))
          /\ local' = clean(local[p].cleanupFailed)
       \/ /\ SaveFailed(p)
          /\ Go(p, "saveFailed", next(TRUE))
          /\ local' = clean(TRUE)
    /\ UNCHANGED <<registry, lease, game, guard, baseline, shielded>>

(* The engine returns: the guard's destructor joins its worker, the lease's *)
(* releases the mutex.                                                      *)
Leave(p) ==
    /\ guard[p].todo = {}
    /\ Go(p, "leave", "idle")
    /\ guard' = [guard EXCEPT ![p] = GuardOff]
    /\ local' = [local EXCEPT ![p] = Fresh]
    /\ lease' = Nobody
    /\ UNCHANGED <<registry, journal, game, faults, baseline, shielded>>

-----------------------------------------------------------------------------
(* watch_loop: woken for root r it has found a difference, and reads again   *)
(* to learn what to restore. By then the difference may be gone.             *)
GuardWakes(p, r) ==
    /\ guard[p].on /\ guard[p].todo = {}
    /\ guard' = [guard EXCEPT ![p].todo =
                    {s \in ToRestore(local[p].snap, registry) : RootOf[s] = r}]
    /\ UNCHANGED <<registry, journal, lease, game, pc, local, faults, baseline, shielded>>

GuardWrites(p, s) ==
    /\ s \in guard[p].todo
    /\ registry' = [registry EXCEPT ![s] = local[p].snap[s]]
    /\ guard' = [guard EXCEPT ![p].todo = @ \ {s}]
    /\ UNCHANGED <<journal, lease, game, pc, local, faults, baseline, shielded>>

(* The snap-back fails part way: the guard goes back to watching. *)
GuardWriteFails(p) ==
    /\ guard[p].todo # {}
    /\ Fault("guard")
    /\ guard' = [guard EXCEPT ![p].todo = {}]
    /\ UNCHANGED <<registry, journal, lease, game, pc, local, baseline, shielded>>

(* The launcher process dies: its threads stop, the kernel frees the mutex, *)
(* and the game it started lives on.                                        *)
Crash(p) ==
    /\ pc[p] # "idle"
    /\ Fault("crash")
    /\ pc' = [pc EXCEPT ![p] = "idle"]
    /\ local' = [local EXCEPT ![p] = Fresh]
    /\ guard' = [guard EXCEPT ![p] = GuardOff]
    /\ lease' = Nobody
    /\ UNCHANGED <<registry, journal, game, baseline, shielded>>

-----------------------------------------------------------------------------
(* A running game persists a setting. Without protection that is how the    *)
(* user changes it for good.                                                *)
GameWrites(g, s, d) ==
    /\ game[g] = "running"
    /\ registry' = [registry EXCEPT ![s] = d]
    /\ baseline' = IF g \in shielded THEN baseline ELSE [baseline EXCEPT ![s] = d]
    /\ UNCHANGED <<journal, lease, game, pc, local, guard, faults, shielded>>

(* The player quits, the game crashes, or the user kills a suspended one. *)
GameExits(g) ==
    /\ Alive(g)
    /\ game' = [game EXCEPT ![g] = "gone"]
    /\ UNCHANGED <<registry, journal, lease, pc, local, guard, faults, baseline, shielded>>

(* A pid nobody holds a handle to is given to an unrelated process. *)
PidReused(g) ==
    /\ game[g] = "gone"
    /\ \A p \in Launchers : local[p].pid # g
    /\ Fault("reuse")
    /\ game' = [game EXCEPT ![g] = "foreign"]
    /\ UNCHANGED <<registry, journal, lease, pc, local, guard, baseline, shielded>>

ForeignExits(g) ==
    /\ game[g] = "foreign"
    /\ game' = [game EXCEPT ![g] = "gone"]
    /\ UNCHANGED <<registry, journal, lease, pc, local, guard, faults, baseline, shielded>>

-----------------------------------------------------------------------------
Recovering(p) ==
    \/ NothingToRecover(p) \/ MisprobeJournal(p) \/ RefuseRecovery(p) \/ BeginRecovery(p)

Restoring(p) ==
    \/ \E s \in Settings : RestoreSetting(p, s)
    \/ RestoreDone(p) \/ RestoreFails(p)
    \/ Verify(p) \/ VerifyFails(p)
    \/ ClearJournal(p) \/ ClearFails(p)

Launching(p) ==
    \/ Prepare(p) \/ PrepareFails(p) \/ SavePreparing(p)
    \/ Spawn(p) \/ LaunchFails(p) \/ SaveAbandoned(p) \/ SaveResolving(p)
    \/ LocateModules(p) \/ ResumeLoader(p) \/ WaitForModules(p) \/ SuspendLoader(p)
    \/ Resolve(p) \/ SavePatching(p) \/ ApplyPatches(p) \/ SaveRunning(p)

Running(p) ==
    \/ Resume(p) \/ StartGuard(p) \/ StartRuntime(p) \/ AwaitExit(p) \/ StopGuard(p)

Finishing(p) == Terminate(p) \/ SaveFailedStage(p) \/ Leave(p)

Engine(p) ==
    Recovering(p) \/ Restoring(p) \/ Launching(p) \/ Running(p) \/ Finishing(p)

Guarding(p) ==
    \/ \E r \in Roots : GuardWakes(p, r)
    \/ \E s \in Settings : GuardWrites(p, s)
    \/ GuardWriteFails(p)

Environment(g) ==
    \/ \E s \in Settings, d \in Data : GameWrites(g, s, d)
    \/ GameExits(g) \/ PidReused(g) \/ ForeignExits(g)

Next ==
    \/ \E p \in Launchers : Acquire(p) \/ Engine(p) \/ Guarding(p) \/ Crash(p)
    \/ \E g \in Pids : Environment(g)

Spec == Init /\ [][Next]_vars

(* Threads that can move do, and no failure is taken for progress; the user *)
(* ends every game, foreign processes end, and the user starts the launcher *)
(* again.                                                                   *)
Fairness ==
    /\ \A p \in Launchers :
          /\ WF_vars(Engine(p) /\ UNCHANGED faults)
          /\ WF_vars(Guarding(p) /\ UNCHANGED faults)
          /\ SF_vars(StopGuard(p) \/ Leave(p))
    /\ WF_vars(\E p \in Launchers : Acquire(p))
    /\ \A g \in Pids : WF_vars(GameExits(g)) /\ WF_vars(ForeignExits(g))

FairSpec == Spec /\ Fairness

-----------------------------------------------------------------------------
(* What the session must get right. *)

(* Everything a protected session captured is as the user left it. *)
Clean == Agrees(Snapshot(baseline), registry)

(* Whenever a captured setting differs from what the user had before, the    *)
(* journal on disk still holds exactly what the user had: no crash, failed   *)
(* cleanup or later session leaves a changed setting with nothing to restore *)
(* it from.                                                                  *)
PendingRestoreIsRecorded ==
    Clean \/ (journal # NoJournal /\ journal.snap = Snapshot(baseline))

(* A game that can write settings is the one the journal names, so recovery  *)
(* can ask whether it is still alive.                                        *)
RunningGameIsNamed ==
    \A g \in Pids : game[g] = "running" => journal # NoJournal /\ journal.pid = g

(* No launcher restores, verifies or clears while any game can still write:  *)
(* what was verified stays true until the journal is gone.                   *)
RestoreOnlyWhenStopped ==
    \A p \in Launchers : pc[p] \in {"restore", "verify", "clear"} =>
        \A g \in Pids : game[g] # "running"

(* The journal is removed only with the settings restored and the game it    *)
(* names gone: "cleared only after a verified clean completion".             *)
ClearedOnlyWhenSettled ==
    [][journal # NoJournal /\ journal' = NoJournal =>
          /\ Clean'
          /\ ~Alive(journal.pid)]_vars

(* No process restores from a snapshot that is not the user's: two sessions  *)
(* never interleave so that the second captures what the first one borrowed. *)
SnapshotIsTheUsers ==
    \A p \in Launchers :
        local[p].snap \in {NoSnapshot, Snapshot(baseline)}

(* Session implements UndoLog. *)
Log == INSTANCE UndoLog WITH
    NoLog <- NoJournal,
    store <- registry,
    log <- IF journal = NoJournal THEN NoJournal ELSE journal.snap

ImplementsUndoLog == Log!LogSpec

(* No journal blocks new sessions for ever. *)
JournalEventuallyCleared == journal # NoJournal ~> journal = NoJournal

-----------------------------------------------------------------------------
(* What the repository says and the code does not do. *)

(* persistent-state-experiment.md: after the restore every changed value     *)
(* must equal the one before the session.                                    *)
EveryChangeIsUndone ==
    [][journal # NoJournal /\ journal' = NoJournal => registry' = baseline']_vars
=============================================================================
