------------------------- MODULE SessionSafetyProofs -------------------------
(***************************************************************************)
(* What a session promises about the user's settings, for any number of     *)
(* launchers, games, settings, values and failures, as long as the journal  *)
(* file can be probed: one inductive invariant, the safety properties of    *)
(* Session that follow from it, and the refinement of UndoLog.              *)
(*                                                                          *)
(* The argument: only the owner of the lease is anything but idle, so an    *)
(* invariant about "the launcher" is enough. Its journal names the game it  *)
(* may resume and holds the snapshot it works with; the snapshot on disk is *)
(* the user's; a game can run only while the journal that names it is       *)
(* there; and until a game has run nothing differs from what the user had.  *)
(***************************************************************************)
EXTENDS SessionProofs

(* Where the engine relies on the journal it wrote or loaded. *)
HeldPcs == SessionPcs \cup {"restore", "verify", "clear"}

(* Where the journal names the game this launcher may still resume. *)
NamedPcs == {"locate", "resumeLoader", "waitModules", "suspendLoader", "resolve",
             "savePatching", "patch", "saveRunning", "resume"}

(* Where a failure leads to finish_failed. *)
FailPcs == {"saveResolving", "resumeLoader", "waitModules", "suspendLoader", "resolve",
            "savePatching", "patch", "saveRunning", "resume", "startGuard",
            "startRuntime", "awaitExit"}

NothingRuns == \A g \in Pids : game[g] # "running"

(* A launcher that does anything owns the lease; an idle one holds nothing. *)
LeaseIsHeld(p) ==
    /\ pc[p] # "idle" => lease = p
    /\ pc[p] = "idle" => local[p] = Fresh

(* The journal the engine counts on is the one on disk. *)
JournalIsHeld(p) ==
    /\ pc[p] \in {"prepare", "savePreparing"} => journal = NoJournal
    /\ pc[p] \in HeldPcs => journal # NoJournal /\ journal.snap = local[p].snap

(* Whom the journal names, and whether that game's session is protected. *)
GameIsHeld(p) ==
    /\ pc[p] \in {"savePreparing", "launch", "abandon"} =>
          local[p].pid = NoPid /\ ~local[p].hasRun
    /\ pc[p] \in SessionPcs => journal.pid \in {NoPid, local[p].pid}
    /\ pc[p] \in NamedPcs => journal.pid = local[p].pid
    /\ pc[p] \in SessionPcs /\ local[p].pid # NoPid =>
          (local[p].pid \in shielded <=> local[p].snap # NoSnapshot)

(* The game is dead while the engine restores, and when it believes so. *)
DeadWhenRestoring(p) ==
    /\ pc[p] \in {"restore", "verify", "clear"} => ~Alive(journal.pid)
    /\ pc[p] = "stopGuard" => ~Alive(local[p].pid)
    /\ pc[p] = "saveFailed" /\ local[p].gameDead => ~Alive(local[p].pid)

(* A launcher's snapshot is the user's. *)
LocalIsTheUsers(p) ==
    \/ local[p].snap = NoSnapshot
    \/ /\ local[p].snap = Snapshot(baseline)
       /\ journal = NoJournal \/ journal.snap = local[p].snap

(* Before the game has run, and once a restore is verified, nothing differs. *)
UnchangedUntilRun(p) ==
    /\ pc[p] = "savePreparing" => registry = baseline
    /\ pc[p] \in SessionPcs /\ ~local[p].hasRun => registry = baseline /\ NothingRuns
    /\ pc[p] = "clear" => Clean

LauncherSafe(p) ==
    /\ LeaseIsHeld(p)
    /\ JournalIsHeld(p)
    /\ GameIsHeld(p)
    /\ DeadWhenRestoring(p)
    /\ LocalIsTheUsers(p)
    /\ UnchangedUntilRun(p)

(* A running game's session is protected just when its journal says so. *)
RunningGameIsHeld ==
    \A g \in Pids : game[g] = "running" =>
        (g \in shielded <=> journal.snap # NoSnapshot)

(* The snapshot on disk is the user's. *)
JournalIsTheUsers ==
    journal # NoJournal =>
        /\ journal.snap \in {NoSnapshot, Snapshot(baseline)}
        /\ journal.snap = NoSnapshot => registry = baseline

WorldSafe ==
    /\ RunningGameIsNamed
    /\ RunningGameIsHeld
    /\ JournalIsTheUsers
    /\ PendingRestoreIsRecorded

SafeInv == TypeInv /\ WorldSafe /\ \A p \in Launchers : LauncherSafe(p)
-----------------------------------------------------------------------------
(* Moving a program counter, and what the updates of single locals keep. *)
LEMMA GoMoves ==
    ASSUME TypeOK, NEW p \in Launchers, NEW from, NEW to, Go(p, from, to)
    PROVE  /\ pc[p] = from /\ pc'[p] = to
           /\ \A q \in Launchers : q # p => pc'[q] = pc[q]
BY DEF TypeOK, Go

LEMMA FinishFailedMoves ==
    ASSUME TypeOK, NEW p \in Launchers, NEW from, FinishFailed(p, from)
    PROVE  /\ pc[p] = from /\ pc'[p] = "terminate"
           /\ local'[p].snap = local[p].snap /\ local'[p].pid = local[p].pid
           /\ local'[p].hasRun = local[p].hasRun
           /\ \A q \in Launchers : q # p => pc'[q] = pc[q] /\ local'[q] = local[q]
<1> DEFINE x == [local[p] EXCEPT !.path = "failed"]
<1>1. x.snap = local[p].snap /\ x.pid = local[p].pid /\ x.hasRun = local[p].hasRun
    BY DEF TypeOK, Locals
<1>2. local' = [local EXCEPT ![p] = x]
    BY DEF FinishFailed
<1> HIDE DEF x
<1>. QED BY <1>1, <1>2, GoMoves DEF TypeOK, FinishFailed

LEMMA HasRunMoves ==
    ASSUME TypeOK, NEW p \in Launchers, local' = [local EXCEPT ![p].hasRun = TRUE]
    PROVE  /\ local'[p].snap = local[p].snap /\ local'[p].pid = local[p].pid
           /\ local'[p].hasRun = TRUE
           /\ \A q \in Launchers : q # p => local'[q] = local[q]
<1> DEFINE x == [local[p] EXCEPT !.hasRun = TRUE]
<1>1. x.snap = local[p].snap /\ x.pid = local[p].pid /\ x.hasRun = TRUE
    BY DEF TypeOK, Locals
<1>2. local' = [local EXCEPT ![p] = x]
    OBVIOUS
<1> HIDE DEF x
<1>. QED BY <1>1, <1>2 DEF TypeOK

-----------------------------------------------------------------------------
(* Only the owner of the lease is not idle, so a step of the owner is safe  *)
(* when it leaves the owner and the world safe.                             *)
LEMMA IdleIsSafe ==
    ASSUME NEW q \in Launchers, pc'[q] = "idle", local'[q] = Fresh
    PROVE  LauncherSafe(q)'
BY DEF LauncherSafe, LeaseIsHeld, JournalIsHeld, GameIsHeld, DeadWhenRestoring,
       LocalIsTheUsers, UnchangedUntilRun, HeldPcs, NamedPcs, SessionPcs, Fresh

LEMMA OthersAreIdle ==
    ASSUME SafeInv, NEW p \in Launchers, pc[p] # "idle",
           NEW q \in Launchers, q # p
    PROVE  pc[q] = "idle" /\ local[q] = Fresh
<1>1. LeaseIsHeld(p) /\ LeaseIsHeld(q)
    BY DEF SafeInv, LauncherSafe
<1>. QED BY <1>1 DEF LeaseIsHeld

LEMMA StepBy ==
    ASSUME SafeInv, TypeInv', NEW p \in Launchers, pc[p] # "idle",
           \A q \in Launchers : q # p => pc'[q] = pc[q] /\ local'[q] = local[q],
           LauncherSafe(p)', WorldSafe'
    PROVE  SafeInv'
<1>1. ASSUME NEW q \in Launchers, q # p
      PROVE  LauncherSafe(q)'
    <2>1. pc'[q] = "idle" /\ local'[q] = Fresh
        BY <1>1, OthersAreIdle
    <2>. QED BY <2>1, IdleIsSafe
<1>. QED BY <1>1 DEF SafeInv

(* The world is safe while nothing of it changes, and when the engine saves *)
(* the journal it relies on again.                                          *)
LEMMA WorldKept ==
    ASSUME WorldSafe, UNCHANGED <<registry, journal, game, baseline, shielded>>
    PROVE  WorldSafe'
BY DEF WorldSafe, RunningGameIsNamed, RunningGameIsHeld, JournalIsTheUsers,
       PendingRestoreIsRecorded, Clean

LEMMA SavedIsHeld ==
    ASSUME SafeInv, NEW p \in Launchers, pc[p] \in SessionPcs, journal' = Record(p)
    PROVE  /\ journal # NoJournal /\ journal' # NoJournal
           /\ journal.snap = local[p].snap /\ journal'.snap = local[p].snap
           /\ journal'.pid = local[p].pid /\ journal.pid \in {NoPid, local[p].pid}
<1>1. JournalIsHeld(p) /\ GameIsHeld(p)
    BY DEF SafeInv, LauncherSafe
<1>2. Record(p) \in Journals
    BY RecordType DEF SafeInv, TypeInv
<1>. QED BY <1>1, <1>2, SessionAssumption
         DEF JournalIsHeld, GameIsHeld, HeldPcs, Record, Journals

LEMMA WorldSaved ==
    ASSUME SafeInv, NEW p \in Launchers, pc[p] \in SessionPcs, journal' = Record(p),
           UNCHANGED <<registry, game, baseline, shielded>>
    PROVE  WorldSafe'
<1>1. WorldSafe
    BY DEF SafeInv
<1>2. RunningGameIsNamed'
    BY <1>1, SavedIsHeld, SessionAssumption DEF WorldSafe, RunningGameIsNamed
<1>3. RunningGameIsHeld'
    BY <1>1, SavedIsHeld DEF WorldSafe, RunningGameIsHeld
<1>4. JournalIsTheUsers'
    BY <1>1, SavedIsHeld DEF WorldSafe, JournalIsTheUsers
<1>5. PendingRestoreIsRecorded'
    BY <1>1, SavedIsHeld DEF WorldSafe, PendingRestoreIsRecorded, Clean
<1>. QED BY <1>2, <1>3, <1>4, <1>5 DEF WorldSafe

(* A failure in the middle of a session, saved or not, keeps everything. *)
LEMMA FinishFailedSafe ==
    ASSUME SafeInv, TypeInv', NEW p \in Launchers, NEW from \in FailPcs,
           FinishFailed(p, from), journal' \in {journal, Record(p)},
           UNCHANGED <<registry, lease, game, baseline, shielded>>
    PROVE  SafeInv'
<1> DEFINE M == /\ pc[p] = from /\ pc'[p] = "terminate"
                /\ local'[p].snap = local[p].snap /\ local'[p].pid = local[p].pid
                /\ local'[p].hasRun = local[p].hasRun
<1>1. M
    BY FinishFailedMoves DEF SafeInv, TypeInv
<1>2. pc[p] \in SessionPcs /\ pc[p] # "idle"
    BY <1>1 DEF FailPcs, SessionPcs
<1>3. WorldSafe'
    BY <1>2, WorldKept, WorldSaved DEF SafeInv
<1>4. LauncherSafe(p)
    BY DEF SafeInv
<1>5. LeaseIsHeld(p)'
    BY <1>1, <1>2, <1>4 DEF LauncherSafe, LeaseIsHeld
<1>6. JournalIsHeld(p)'
    BY <1>1, <1>2, <1>4, SavedIsHeld DEF LauncherSafe, JournalIsHeld, HeldPcs, SessionPcs
<1>7. GameIsHeld(p)'
    BY <1>1, <1>2, <1>4, SavedIsHeld DEF LauncherSafe, GameIsHeld, NamedPcs, SessionPcs
<1>8. DeadWhenRestoring(p)'
    BY <1>1 DEF DeadWhenRestoring
<1>9. LocalIsTheUsers(p)'
    BY <1>1, <1>2, <1>4, SavedIsHeld DEF LauncherSafe, LocalIsTheUsers
<1>10. UnchangedUntilRun(p)'
    BY <1>1, <1>2, <1>4 DEF LauncherSafe, UnchangedUntilRun, SessionPcs, NothingRuns
<1>11. LauncherSafe(p)'
    BY <1>5, <1>6, <1>7, <1>8, <1>9, <1>10 DEF LauncherSafe
<1>. QED BY <1>1, <1>2, <1>3, <1>11, StepBy, FinishFailedMoves DEF SafeInv, TypeInv
(* Giving up without touching anything keeps everything. *)
LEMMA GiveUpSafe ==
    ASSUME SafeInv, TypeInv', NEW p \in Launchers, NEW from, from # "idle",
           Go(p, from, "leave"),
           UNCHANGED <<registry, journal, lease, game, local, baseline, shielded>>
    PROVE  SafeInv'
<1>1. pc[p] = from /\ pc'[p] = "leave"
    BY GoMoves DEF SafeInv, TypeInv
<1>2. LauncherSafe(p) /\ WorldSafe'
    BY WorldKept DEF SafeInv
<1>3. LauncherSafe(p)'
    BY <1>1, <1>2
    DEF LauncherSafe, LeaseIsHeld, JournalIsHeld, GameIsHeld, DeadWhenRestoring,
        LocalIsTheUsers, UnchangedUntilRun, HeldPcs, NamedPcs, SessionPcs
<1>. QED BY <1>1, <1>2, <1>3, StepBy, GoMoves DEF SafeInv, TypeInv

(* Going on from one stage of a session to a later one. *)
LEMMA AdvanceSafe ==
    ASSUME SafeInv, TypeInv', NEW p \in Launchers,
           NEW from \in SessionPcs, NEW to \in SessionPcs \ {"launch", "abandon", "saveFailed"},
           to \in NamedPcs => from \in NamedPcs,
           to = "stopGuard" => ~Alive(local[p].pid),
           Go(p, from, to),
           UNCHANGED <<registry, journal, lease, game, local, baseline, shielded>>
    PROVE  SafeInv'
<1>1. pc[p] = from /\ pc'[p] = to /\ from # "idle" /\ to # "idle"
    BY GoMoves DEF SafeInv, TypeInv, SessionPcs
<1>2. LauncherSafe(p) /\ WorldSafe'
    BY WorldKept DEF SafeInv
<1>3. LeaseIsHeld(p)' /\ LocalIsTheUsers(p)'
    BY <1>1, <1>2 DEF LauncherSafe, LeaseIsHeld, LocalIsTheUsers
<1>4. JournalIsHeld(p)'
    BY <1>1, <1>2 DEF LauncherSafe, JournalIsHeld, HeldPcs, SessionPcs
<1>5. GameIsHeld(p)'
    BY <1>1, <1>2 DEF LauncherSafe, GameIsHeld, SessionPcs
<1>6. DeadWhenRestoring(p)'
    BY <1>1 DEF DeadWhenRestoring, SessionPcs, Alive
<1>7. UnchangedUntilRun(p)'
    BY <1>1, <1>2 DEF LauncherSafe, UnchangedUntilRun, SessionPcs, NothingRuns
<1>8. LauncherSafe(p)'
    BY <1>3, <1>4, <1>5, <1>6, <1>7 DEF LauncherSafe
<1>. QED BY <1>1, <1>2, <1>8, StepBy, GoMoves DEF SafeInv, TypeInv

(* Saving the pid, or a stage, and going on. *)
LEMMA SaveSafe ==
    ASSUME SafeInv, TypeInv', NEW p \in Launchers,
           NEW from \in {"saveResolving", "savePatching", "saveRunning"},
           NEW to \in {"locate", "patch", "resume"},
           Go(p, from, to), journal' = Record(p),
           UNCHANGED <<registry, lease, game, local, baseline, shielded>>
    PROVE  SafeInv'
<1>1. pc[p] = from /\ pc'[p] = to /\ pc[p] \in SessionPcs /\ pc[p] # "idle"
    BY GoMoves DEF SafeInv, TypeInv, SessionPcs
<1>2. LauncherSafe(p) /\ WorldSafe'
    BY <1>1, WorldSaved DEF SafeInv
<1>3. LeaseIsHeld(p)' /\ LocalIsTheUsers(p)'
    BY <1>1, <1>2, SavedIsHeld DEF LauncherSafe, LeaseIsHeld, LocalIsTheUsers
<1>4. JournalIsHeld(p)'
    BY <1>1, <1>2, SavedIsHeld DEF LauncherSafe, JournalIsHeld
<1>5. GameIsHeld(p)'
    BY <1>1, <1>2, SavedIsHeld DEF LauncherSafe, GameIsHeld, SessionPcs
<1>6. DeadWhenRestoring(p)'
    BY <1>1 DEF DeadWhenRestoring
<1>7. UnchangedUntilRun(p)'
    BY <1>1, <1>2 DEF LauncherSafe, UnchangedUntilRun, SessionPcs, NothingRuns
<1>8. LauncherSafe(p)'
    BY <1>3, <1>4, <1>5, <1>6, <1>7 DEF LauncherSafe
<1>. QED BY <1>1, <1>2, <1>8, StepBy, GoMoves DEF SafeInv, TypeInv

(* The game runs: it is the one the journal names. *)
LEMMA ResumeGameSafe ==
    ASSUME SafeInv, TypeInv', NEW p \in Launchers,
           NEW from \in {"resumeLoader", "resume"}, NEW to \in {"waitModules", "startGuard"},
           to \in NamedPcs => from \in NamedPcs,
           ResumeGame(p, from, to)
    PROVE  SafeInv'
<1>1. /\ pc[p] = from /\ pc'[p] = to /\ pc[p] \in SessionPcs /\ pc[p] # "idle"
      /\ local'[p].snap = local[p].snap /\ local'[p].pid = local[p].pid
      /\ local'[p].hasRun = TRUE
    <2>1. pc[p] = from /\ pc'[p] = to
        BY GoMoves DEF SafeInv, TypeInv, ResumeGame
    <2>2. local' = [local EXCEPT ![p].hasRun = TRUE] /\ TypeOK
        BY DEF SafeInv, TypeInv, ResumeGame
    <2>. QED BY <2>1, <2>2, HasRunMoves DEF SessionPcs
<1>2. /\ LauncherSafe(p) /\ WorldSafe
      /\ UNCHANGED <<registry, journal, lease, baseline, shielded>>
    BY DEF SafeInv, ResumeGame
<1>3. /\ journal # NoJournal /\ journal.pid = local[p].pid
      /\ journal.snap = local[p].snap
      /\ local[p].pid \in shielded <=> local[p].snap # NoSnapshot
    BY <1>1, <1>2, SessionAssumption
    DEF LauncherSafe, JournalIsHeld, GameIsHeld, NamedPcs, HeldPcs, SessionPcs, ResumeGame, Alive
<1>4. \A g \in Pids : game'[g] = "running" => g = local[p].pid
    BY <1>2, <1>3 DEF WorldSafe, RunningGameIsNamed, ResumeGame, SafeInv, TypeInv, TypeOK
<1>5. WorldSafe'
    BY <1>2, <1>3, <1>4
    DEF WorldSafe, RunningGameIsNamed, RunningGameIsHeld, JournalIsTheUsers,
        PendingRestoreIsRecorded, Clean
<1>6. LeaseIsHeld(p)' /\ LocalIsTheUsers(p)'
    BY <1>1, <1>2 DEF LauncherSafe, LeaseIsHeld, LocalIsTheUsers
<1>7. JournalIsHeld(p)' /\ GameIsHeld(p)'
    BY <1>1, <1>2, <1>3 DEF JournalIsHeld, GameIsHeld
<1>8. DeadWhenRestoring(p)' /\ UnchangedUntilRun(p)'
    BY <1>1 DEF DeadWhenRestoring, UnchangedUntilRun
<1>9. LauncherSafe(p)'
    BY <1>6, <1>7, <1>8 DEF LauncherSafe
<1>10. \A q \in Launchers : q # p => pc'[q] = pc[q] /\ local'[q] = local[q]
    BY GoMoves, HasRunMoves DEF SafeInv, TypeInv, ResumeGame
<1>. QED BY <1>1, <1>5, <1>9, <1>10, StepBy

(* A launcher that gives everything up, by returning or by dying. *)
LEMMA DropSafe ==
    ASSUME SafeInv, TypeInv', NEW p \in Launchers, pc[p] # "idle",
           pc' = [pc EXCEPT ![p] = "idle"], local' = [local EXCEPT ![p] = Fresh],
           UNCHANGED <<registry, journal, game, baseline, shielded>>
    PROVE  SafeInv'
<1>1. \A q \in Launchers : pc'[q] = "idle" /\ local'[q] = Fresh
    BY OthersAreIdle DEF SafeInv, TypeInv, TypeOK
<1>2. \A q \in Launchers : LauncherSafe(q)'
    BY <1>1, IdleIsSafe
<1>. QED BY <1>2, WorldKept DEF SafeInv
(* Games that stop, or become strangers, take nothing away. *)
LEMMA FewerGames ==
    ASSUME SafeInv,
           \A g \in Pids :
              /\ game'[g] = "running" => game[g] = "running"
              /\ game'[g] \in {"suspended", "running"} =>
                    game[g] \in {"suspended", "running"},
           UNCHANGED <<registry, journal, lease, pc, local, baseline, shielded>>
    PROVE  WorldSafe' /\ \A q \in Launchers : LauncherSafe(q)'
<1>1. WorldSafe'
    BY DEF SafeInv, WorldSafe, RunningGameIsNamed, RunningGameIsHeld, JournalIsTheUsers,
           PendingRestoreIsRecorded, Clean
<1>2. ASSUME NEW q \in Launchers
      PROVE  LauncherSafe(q)'
    <2>1. LauncherSafe(q)
        BY DEF SafeInv
    <2>2. LeaseIsHeld(q)' /\ JournalIsHeld(q)' /\ GameIsHeld(q)' /\ LocalIsTheUsers(q)'
        BY <2>1 DEF LauncherSafe, LeaseIsHeld, JournalIsHeld, GameIsHeld, LocalIsTheUsers
    <2>3. DeadWhenRestoring(q)'
        BY <2>1 DEF LauncherSafe, DeadWhenRestoring, Alive
    <2>4. UnchangedUntilRun(q)'
        BY <2>1 DEF LauncherSafe, UnchangedUntilRun, NothingRuns, Clean
    <2>. QED BY <2>2, <2>3, <2>4 DEF LauncherSafe
<1>. QED BY <1>1, <1>2

(* Writing a saved value back never spoils an agreement. *)
LEMMA WriteBack ==
    ASSUME SafeInv, NEW p \in Launchers, NEW s \in Settings, local[p].snap[s] # Unsaved,
           registry' = [registry EXCEPT ![s] = local[p].snap[s]],
           UNCHANGED <<journal, game, baseline, shielded>>
    PROVE  /\ pc[p] # "idle"
           /\ WorldSafe'
           /\ registry = baseline => registry' = registry
           /\ Clean => Clean'
<1>1. LauncherSafe(p) /\ WorldSafe /\ TypeOK
    BY DEF SafeInv, TypeInv
<1>2. local[p].snap # NoSnapshot
    BY NoSnapshotSavesNothing
<1>3. pc[p] # "idle"
    BY <1>1, <1>2 DEF LauncherSafe, LeaseIsHeld, Fresh
<1>4. local[p].snap = Snapshot(baseline)
    BY <1>1, <1>2 DEF LauncherSafe, LocalIsTheUsers
<1>5. local[p].snap[s] = baseline[s]
    BY <1>1, <1>4, SnapshotSaved DEF TypeOK
<1>6. registry = baseline => registry' = registry
    BY <1>1, <1>5 DEF TypeOK, Contents
<1>7. Clean => Clean'
    <2>1. Snapshot(baseline) \in Snapshots /\ registry \in Contents
        BY <1>1, SnapshotType DEF TypeOK
    <2>. QED BY <1>4, <2>1, RestoreWriteAgrees DEF Clean
<1>8. WorldSafe'
    BY <1>1, <1>6, <1>7
    DEF WorldSafe, RunningGameIsNamed, RunningGameIsHeld, JournalIsTheUsers,
        PendingRestoreIsRecorded, Clean
<1>. QED BY <1>3, <1>6, <1>7, <1>8

LEMMA WriteBackSafe ==
    ASSUME SafeInv, TypeInv', NEW p \in Launchers, NEW s \in Settings,
           local[p].snap[s] # Unsaved,
           registry' = [registry EXCEPT ![s] = local[p].snap[s]],
           local' = local \/ local' = [local EXCEPT ![p].todo = @ \ {s}],
           UNCHANGED <<journal, lease, game, pc, baseline, shielded>>
    PROVE  SafeInv'
<1>1. /\ local'[p].snap = local[p].snap /\ local'[p].pid = local[p].pid
      /\ local'[p].hasRun = local[p].hasRun /\ local'[p].gameDead = local[p].gameDead
      /\ \A q \in Launchers : q # p => local'[q] = local[q]
    <2>1. CASE local' = local
        BY <2>1
    <2>2. CASE local' = [local EXCEPT ![p].todo = @ \ {s}]
        <3> DEFINE x == [local[p] EXCEPT !.todo = @ \ {s}]
        <3>1. /\ x.snap = local[p].snap /\ x.pid = local[p].pid
              /\ x.hasRun = local[p].hasRun /\ x.gameDead = local[p].gameDead
            BY DEF SafeInv, TypeInv, TypeOK, Locals
        <3>2. local' = [local EXCEPT ![p] = x]
            BY <2>2
        <3> HIDE DEF x
        <3>. QED BY <3>1, <3>2 DEF SafeInv, TypeInv, TypeOK
    <2>. QED BY <2>1, <2>2
<1>2. /\ pc[p] # "idle" /\ WorldSafe'
      /\ registry = baseline => registry' = registry
      /\ Clean => Clean'
    BY WriteBack
<1>3. LauncherSafe(p)
    BY DEF SafeInv
<1>4. LeaseIsHeld(p)' /\ JournalIsHeld(p)' /\ GameIsHeld(p)' /\ DeadWhenRestoring(p)'
          /\ LocalIsTheUsers(p)'
    BY <1>1, <1>2, <1>3
    DEF LauncherSafe, LeaseIsHeld, JournalIsHeld, GameIsHeld, DeadWhenRestoring,
        LocalIsTheUsers, Alive
<1>5. UnchangedUntilRun(p)'
    BY <1>1, <1>2, <1>3 DEF LauncherSafe, UnchangedUntilRun, NothingRuns
<1>6. LauncherSafe(p)'
    BY <1>4, <1>5 DEF LauncherSafe
<1>. QED BY <1>1, <1>2, <1>6, StepBy
-----------------------------------------------------------------------------
LEMMA SafeInit == Init => SafeInv
<1> SUFFICES ASSUME Init PROVE SafeInv
    OBVIOUS
<1>1. TypeInv
    BY TypeInit
<1>2. Clean
    BY <1>1, AgreesWithItself DEF TypeInv, TypeOK, Init, Clean
<1>3. WorldSafe
    BY <1>2 DEF Init, WorldSafe, RunningGameIsNamed, RunningGameIsHeld, JournalIsTheUsers,
                PendingRestoreIsRecorded
<1>4. ASSUME NEW p \in Launchers
      PROVE  LauncherSafe(p)
    BY DEF Init, LauncherSafe, LeaseIsHeld, JournalIsHeld, GameIsHeld, DeadWhenRestoring,
           LocalIsTheUsers, UnchangedUntilRun, HeldPcs, NamedPcs, SessionPcs, Fresh
<1>. QED BY <1>1, <1>3, <1>4 DEF SafeInv

(* Recovery of an older session. *)
LEMMA RecoveringSafe ==
    ASSUME SafeInv, TypeInv', "probe" \notin Faults, NEW p \in Launchers, Recovering(p)
    PROVE  SafeInv'
<1>1. CASE NothingToRecover(p)
    <2>1. /\ pc[p] = "load" /\ pc'[p] = "prepare" /\ journal = NoJournal
          /\ LauncherSafe(p) /\ WorldSafe'
          /\ UNCHANGED <<journal, lease, local, game, registry, baseline, shielded>>
        BY <1>1, GoMoves, WorldKept DEF NothingToRecover, SafeInv, TypeInv
    <2>2. LauncherSafe(p)'
        BY <2>1
        DEF LauncherSafe, LeaseIsHeld, JournalIsHeld, GameIsHeld, DeadWhenRestoring,
            LocalIsTheUsers, UnchangedUntilRun, HeldPcs, NamedPcs, SessionPcs
    <2>. QED BY <1>1, <2>1, <2>2, StepBy, GoMoves DEF NothingToRecover, SafeInv, TypeInv
<1>2. CASE MisprobeJournal(p)
    BY <1>2 DEF MisprobeJournal, Fault
<1>3. CASE RefuseRecovery(p)
    BY <1>3, GiveUpSafe DEF RefuseRecovery
<1>4. CASE BeginRecovery(p)
    <2> DEFINE x == [local[p] EXCEPT !.snap = journal.snap,
                                     !.todo = ToRestore(journal.snap, registry)]
    <2>1. x.snap = journal.snap
        BY DEF SafeInv, TypeInv, TypeOK, Locals
    <2>2. local' = [local EXCEPT ![p] = x]
        BY <1>4 DEF BeginRecovery
    <2> HIDE DEF x
    <2>3. /\ pc[p] = "load" /\ pc'[p] = "restore" /\ local'[p].snap = journal.snap
          /\ \A q \in Launchers : q # p => pc'[q] = pc[q] /\ local'[q] = local[q]
        BY <1>4, <2>1, <2>2, GoMoves DEF BeginRecovery, SafeInv, TypeInv, TypeOK
    <2>4. /\ LauncherSafe(p) /\ WorldSafe /\ WorldSafe'
          /\ journal # NoJournal /\ ~Alive(journal.pid)
          /\ UNCHANGED <<journal, lease, game, registry, baseline, shielded>>
        BY <1>4, WorldKept DEF SafeInv, BeginRecovery, InUse, Alive
    <2>5. LauncherSafe(p)'
        BY <2>3, <2>4
        DEF LauncherSafe, LeaseIsHeld, JournalIsHeld, GameIsHeld, DeadWhenRestoring,
            LocalIsTheUsers, UnchangedUntilRun, HeldPcs, NamedPcs, SessionPcs, Alive,
            WorldSafe, JournalIsTheUsers
    <2>. QED BY <2>3, <2>4, <2>5, StepBy
<1>. QED BY <1>1, <1>2, <1>3, <1>4 DEF Recovering

(* Restoring, verifying and clearing, for whatever reason. *)
LEMMA RestoringSafe ==
    ASSUME SafeInv, TypeInv', NEW p \in Launchers, Restoring(p)
    PROVE  SafeInv'
<1>1. ASSUME NEW s \in Settings, RestoreSetting(p, s)
      PROVE  SafeInv'
    BY <1>1, WriteBackSafe DEF RestoreSetting, SafeInv, TypeInv, TodoIsSaved
<1>2. CASE RestoreDone(p)
    <2>1. /\ pc[p] = "restore" /\ pc'[p] = "verify" /\ LauncherSafe(p) /\ WorldSafe'
          /\ UNCHANGED <<journal, lease, local, game, registry, baseline, shielded>>
        BY <1>2, GoMoves, WorldKept DEF RestoreDone, SafeInv, TypeInv
    <2>2. LauncherSafe(p)'
        BY <2>1
        DEF LauncherSafe, LeaseIsHeld, JournalIsHeld, GameIsHeld, DeadWhenRestoring,
            LocalIsTheUsers, UnchangedUntilRun, HeldPcs, NamedPcs, SessionPcs, Alive
    <2>. QED BY <1>2, <2>1, <2>2, StepBy, GoMoves DEF RestoreDone, SafeInv, TypeInv
<1>3. CASE RestoreFails(p) \/ VerifyFails(p) \/ ClearFails(p)
    BY <1>3, GiveUpSafe DEF RestoreFails, VerifyFails, ClearFails
<1>4. CASE Verify(p) /\ local[p].cleanupFailed
    BY <1>4, GiveUpSafe DEF Verify
<1>5. CASE Verify(p) /\ ~local[p].cleanupFailed
    <2>1. /\ pc[p] = "verify" /\ pc'[p] = "clear" /\ LauncherSafe(p)
          /\ WorldSafe /\ WorldSafe'
          /\ UNCHANGED <<journal, lease, local, game, registry, baseline, shielded>>
        BY <1>5, GoMoves, WorldKept DEF Verify, SafeInv, TypeInv
    <2>2. Clean
        <3>1. local[p].snap = NoSnapshot => Clean
            BY <2>1, AgreesWithNothing
            DEF LauncherSafe, JournalIsHeld, HeldPcs, WorldSafe, PendingRestoreIsRecorded, Clean
        <3>2. local[p].snap # NoSnapshot => local[p].snap = Snapshot(baseline)
            BY <2>1 DEF LauncherSafe, LocalIsTheUsers
        <3>. QED BY <1>5, <3>1, <3>2 DEF Verify, Clean
    <2>3. LauncherSafe(p)'
        BY <2>1, <2>2
        DEF LauncherSafe, LeaseIsHeld, JournalIsHeld, GameIsHeld, DeadWhenRestoring,
            LocalIsTheUsers, UnchangedUntilRun, HeldPcs, NamedPcs, SessionPcs, Alive, Clean
    <2>. QED BY <1>5, <2>1, <2>3, StepBy, GoMoves DEF Verify, SafeInv, TypeInv
<1>6. CASE ClearJournal(p)
    <2>1. /\ pc[p] = "clear" /\ pc'[p] \in {"prepare", "leave"} /\ journal' = NoJournal
          /\ LauncherSafe(p) /\ WorldSafe
          /\ UNCHANGED <<lease, local, game, registry, baseline, shielded>>
          /\ \A q \in Launchers : q # p => pc'[q] = pc[q]
        BY <1>6, GoMoves DEF ClearJournal, SafeInv, TypeInv
    <2>2. Clean /\ \A g \in Pids : game[g] # "running"
        BY <2>1
        DEF LauncherSafe, UnchangedUntilRun, DeadWhenRestoring, WorldSafe, RunningGameIsNamed,
            Alive
    <2>3. WorldSafe'
        BY <2>1, <2>2
        DEF WorldSafe, RunningGameIsNamed, RunningGameIsHeld, JournalIsTheUsers,
            PendingRestoreIsRecorded, Clean
    <2>4. LauncherSafe(p)'
        BY <2>1
        DEF LauncherSafe, LeaseIsHeld, JournalIsHeld, GameIsHeld, DeadWhenRestoring,
            LocalIsTheUsers, UnchangedUntilRun, HeldPcs, NamedPcs, SessionPcs
    <2>. QED BY <2>1, <2>3, <2>4, StepBy
<1>. QED BY <1>1, <1>2, <1>3, <1>4, <1>5, <1>6 DEF Restoring, Verify

(* Preparing: the settings are captured, and the journal is written. *)
LEMMA PrepareSafe ==
    ASSUME SafeInv, TypeInv', NEW p \in Launchers, Prepare(p)
    PROVE  SafeInv'
<1>1. pc[p] = "prepare" /\ pc'[p] = "savePreparing"
    BY GoMoves DEF SafeInv, TypeInv, Prepare
<1>2. /\ LauncherSafe(p) /\ WorldSafe
      /\ UNCHANGED <<registry, journal, lease, game, shielded>>
    BY DEF SafeInv, Prepare
<1>3. journal = NoJournal /\ baseline' = registry
    BY <1>1, <1>2 DEF LauncherSafe, JournalIsHeld, Prepare, Owed
<1>4. PICK snap \in {NoSnapshot, Snapshot(registry)} :
          local' = [local EXCEPT ![p] = [Fresh EXCEPT !.path = "normal", !.snap = snap]]
    BY DEF Prepare
<1> DEFINE x == [Fresh EXCEPT !.path = "normal", !.snap = snap]
<1>5. x.snap = snap /\ x.pid = NoPid /\ x.hasRun = FALSE
    BY DEF Fresh
<1>6. local' = [local EXCEPT ![p] = x]
    BY <1>4
<1> HIDE DEF x
<1>7. /\ local'[p].snap = snap /\ local'[p].pid = NoPid /\ local'[p].hasRun = FALSE
      /\ \A q \in Launchers : q # p => local'[q] = local[q]
    BY <1>5, <1>6 DEF SafeInv, TypeInv, TypeOK
<1>8. WorldSafe'
    <2>1. Clean'
        BY <1>2, <1>3, AgreesWithItself DEF Clean, SafeInv, TypeInv, TypeOK
    <2>. QED BY <1>2, <1>3, <2>1
         DEF WorldSafe, RunningGameIsNamed, RunningGameIsHeld, JournalIsTheUsers,
             PendingRestoreIsRecorded
<1>9. LauncherSafe(p)'
    <2>1. LeaseIsHeld(p)' /\ JournalIsHeld(p)' /\ DeadWhenRestoring(p)'
        BY <1>1, <1>2, <1>3
        DEF LauncherSafe, LeaseIsHeld, JournalIsHeld, DeadWhenRestoring, HeldPcs, SessionPcs
    <2>2. GameIsHeld(p)'
        BY <1>1, <1>7 DEF GameIsHeld, NamedPcs, SessionPcs
    <2>3. LocalIsTheUsers(p)'
        BY <1>2, <1>3, <1>7 DEF LocalIsTheUsers
    <2>4. UnchangedUntilRun(p)'
        BY <1>1, <1>2, <1>3 DEF UnchangedUntilRun, SessionPcs
    <2>. QED BY <2>1, <2>2, <2>3, <2>4 DEF LauncherSafe
<1>. QED BY <1>1, <1>7, <1>8, <1>9, StepBy, GoMoves DEF SafeInv, TypeInv, Prepare

LEMMA SavePreparingSafe ==
    ASSUME SafeInv, TypeInv', NEW p \in Launchers, SavePreparing(p)
    PROVE  SafeInv'
<1>1. /\ pc[p] = "savePreparing" /\ pc'[p] \in {"launch", "leave"}
      /\ pc'[p] = "launch" => journal' = Record(p)
      /\ \A q \in Launchers : q # p => pc'[q] = pc[q]
    BY GoMoves DEF SafeInv, TypeInv, SavePreparing, Saved
<1>2. /\ LauncherSafe(p) /\ WorldSafe
      /\ journal' \in {journal, Record(p)}
      /\ UNCHANGED <<registry, lease, game, local, baseline, shielded>>
    BY DEF SafeInv, SavePreparing, Saved, SaveFailed
<1>3. /\ journal = NoJournal /\ registry = baseline /\ local[p].pid = NoPid
      /\ ~local[p].hasRun
      /\ local[p].snap \in {NoSnapshot, Snapshot(baseline)}
    BY <1>1, <1>2
    DEF LauncherSafe, JournalIsHeld, UnchangedUntilRun, GameIsHeld, LocalIsTheUsers
<1>4. /\ NothingRuns /\ NothingRuns'
      /\ Record(p) # NoJournal /\ Record(p).snap = local[p].snap
      /\ Record(p).pid = local[p].pid
    <2>1. Record(p) \in Journals
        BY RecordType DEF SafeInv, TypeInv
    <2>2. NothingRuns
        BY <1>2, <1>3 DEF WorldSafe, RunningGameIsNamed, NothingRuns
    <2>. QED BY <1>2, <2>1, <2>2, SessionAssumption DEF NothingRuns, Record, Journals
<1>5. WorldSafe'
    <2>1. Clean'
        BY <1>2, <1>3, AgreesWithItself DEF Clean, SafeInv, TypeInv, TypeOK
    <2>. QED BY <1>2, <1>3, <1>4, <2>1
         DEF WorldSafe, RunningGameIsNamed, RunningGameIsHeld, JournalIsTheUsers,
             PendingRestoreIsRecorded, NothingRuns
<1>6. LauncherSafe(p)'
    <2>1. LeaseIsHeld(p)' /\ DeadWhenRestoring(p)'
        BY <1>1, <1>2 DEF LauncherSafe, LeaseIsHeld, DeadWhenRestoring
    <2>2. JournalIsHeld(p)' /\ GameIsHeld(p)'
        BY <1>1, <1>2, <1>3, <1>4 DEF JournalIsHeld, GameIsHeld, HeldPcs, NamedPcs, SessionPcs
    <2>3. LocalIsTheUsers(p)'
        BY <1>2, <1>3, <1>4 DEF LauncherSafe, LocalIsTheUsers
    <2>4. UnchangedUntilRun(p)'
        BY <1>1, <1>2, <1>3, <1>4 DEF UnchangedUntilRun, SessionPcs, NothingRuns
    <2>. QED BY <2>1, <2>2, <2>3, <2>4 DEF LauncherSafe
<1>. QED BY <1>1, <1>2, <1>5, <1>6, StepBy

(* Launching: the game exists, suspended, and the journal does not know yet. *)
LEMMA SpawnSafe ==
    ASSUME SafeInv, TypeInv', NEW p \in Launchers, Spawn(p)
    PROVE  SafeInv'
<1>1. pc[p] = "launch" /\ pc'[p] = "saveResolving"
    BY GoMoves DEF SafeInv, TypeInv, Spawn
<1>2. /\ LauncherSafe(p) /\ WorldSafe
      /\ UNCHANGED <<registry, journal, lease, baseline>>
    BY DEF SafeInv, Spawn
<1>3. /\ journal # NoJournal /\ journal.snap = local[p].snap /\ registry = baseline
      /\ journal.pid = NoPid /\ ~local[p].hasRun /\ NothingRuns
    BY <1>1, <1>2
    DEF LauncherSafe, JournalIsHeld, GameIsHeld, UnchangedUntilRun, HeldPcs, SessionPcs
<1>4. PICK g \in Pids :
          /\ game' = [game EXCEPT ![g] = "suspended"]
          /\ local' = [local EXCEPT ![p].pid = g]
          /\ shielded' = IF local[p].snap = NoSnapshot THEN shielded \ {g}
                         ELSE shielded \cup {g}
    BY DEF Spawn
<1> DEFINE x == [local[p] EXCEPT !.pid = g]
<1>5. x.snap = local[p].snap /\ x.pid = g /\ x.hasRun = local[p].hasRun
    BY DEF SafeInv, TypeInv, TypeOK, Locals
<1>6. local' = [local EXCEPT ![p] = x]
    BY <1>4
<1> HIDE DEF x
<1>7. /\ local'[p].snap = local[p].snap /\ local'[p].pid = g
      /\ local'[p].hasRun = local[p].hasRun
      /\ \A q \in Launchers : q # p => local'[q] = local[q]
    BY <1>5, <1>6 DEF SafeInv, TypeInv, TypeOK
<1>8. NothingRuns'
    BY <1>3, <1>4 DEF NothingRuns, SafeInv, TypeInv, TypeOK
<1>9. WorldSafe'
    BY <1>2, <1>8
    DEF WorldSafe, RunningGameIsNamed, RunningGameIsHeld, JournalIsTheUsers,
        PendingRestoreIsRecorded, NothingRuns, Clean
<1>10. LauncherSafe(p)'
    <2>1. LeaseIsHeld(p)' /\ DeadWhenRestoring(p)'
        BY <1>1, <1>2 DEF LauncherSafe, LeaseIsHeld, DeadWhenRestoring
    <2>2. JournalIsHeld(p)' /\ LocalIsTheUsers(p)'
        BY <1>1, <1>2, <1>3, <1>7 DEF LauncherSafe, JournalIsHeld, LocalIsTheUsers
    <2>3. GameIsHeld(p)'
        BY <1>1, <1>2, <1>3, <1>4, <1>7 DEF GameIsHeld, NamedPcs
    <2>4. UnchangedUntilRun(p)'
        BY <1>1, <1>2, <1>3, <1>8 DEF UnchangedUntilRun
    <2>. QED BY <2>1, <2>2, <2>3, <2>4 DEF LauncherSafe
<1>. QED BY <1>1, <1>7, <1>9, <1>10, StepBy, GoMoves DEF SafeInv, TypeInv, Spawn

LEMMA LaunchFailsSafe ==
    ASSUME SafeInv, TypeInv', NEW p \in Launchers, LaunchFails(p)
    PROVE  SafeInv'
<1> DEFINE x == [local[p] EXCEPT !.path = "abandoned"]
<1>1. x.snap = local[p].snap /\ x.pid = local[p].pid /\ x.hasRun = local[p].hasRun
    BY DEF SafeInv, TypeInv, TypeOK, Locals
<1>2. local' = [local EXCEPT ![p] = x]
    BY DEF LaunchFails
<1> HIDE DEF x
<1>3. /\ pc[p] = "launch" /\ pc'[p] = "abandon"
      /\ local'[p].snap = local[p].snap /\ local'[p].pid = local[p].pid
      /\ local'[p].hasRun = local[p].hasRun
      /\ \A q \in Launchers : q # p => pc'[q] = pc[q] /\ local'[q] = local[q]
    BY <1>1, <1>2, GoMoves DEF SafeInv, TypeInv, TypeOK, LaunchFails
<1>4. /\ LauncherSafe(p) /\ WorldSafe'
      /\ UNCHANGED <<registry, journal, lease, game, baseline, shielded>>
    BY WorldKept DEF SafeInv, LaunchFails
<1>5. LeaseIsHeld(p)' /\ JournalIsHeld(p)' /\ DeadWhenRestoring(p)' /\ LocalIsTheUsers(p)'
    BY <1>3, <1>4
    DEF LauncherSafe, LeaseIsHeld, JournalIsHeld, DeadWhenRestoring, LocalIsTheUsers,
        HeldPcs, SessionPcs
<1>6. GameIsHeld(p)' /\ UnchangedUntilRun(p)'
    BY <1>3, <1>4
    DEF LauncherSafe, GameIsHeld, UnchangedUntilRun, NamedPcs, SessionPcs, NothingRuns
<1>7. LauncherSafe(p)'
    BY <1>5, <1>6 DEF LauncherSafe
<1>. QED BY <1>3, <1>4, <1>7, StepBy

LEMMA SaveAbandonedSafe ==
    ASSUME SafeInv, TypeInv', NEW p \in Launchers, SaveAbandoned(p)
    PROVE  SafeInv'
<1>1. /\ pc[p] = "abandon" /\ pc'[p] \in {"clear", "leave"}
      /\ pc'[p] = "clear" => journal' = Record(p)
      /\ \A q \in Launchers : q # p => pc'[q] = pc[q]
    BY GoMoves DEF SafeInv, TypeInv, SaveAbandoned, Saved
<1>2. /\ LauncherSafe(p) /\ WorldSafe /\ pc[p] \in SessionPcs
      /\ journal' \in {journal, Record(p)}
      /\ UNCHANGED <<registry, lease, game, local, baseline, shielded>>
    BY <1>1 DEF SafeInv, SaveAbandoned, Saved, SaveFailed, SessionPcs
<1>3. WorldSafe'
    BY <1>2, WorldKept, WorldSaved
<1>4. /\ registry = baseline /\ local[p].pid = NoPid /\ ~local[p].hasRun
      /\ journal.snap = local[p].snap /\ journal # NoJournal
    BY <1>1, <1>2
    DEF LauncherSafe, UnchangedUntilRun, GameIsHeld, JournalIsHeld, HeldPcs, SessionPcs
<1>5. Clean'
    BY <1>2, <1>4, AgreesWithItself DEF Clean, SafeInv, TypeInv, TypeOK
<1>6. LauncherSafe(p)'
    <2>1. LeaseIsHeld(p)'
        BY <1>1, <1>2 DEF LauncherSafe, LeaseIsHeld
    <2>2. JournalIsHeld(p)' /\ GameIsHeld(p)'
        BY <1>1, <1>2, <1>4, SavedIsHeld DEF JournalIsHeld, GameIsHeld, HeldPcs, NamedPcs, SessionPcs
    <2>3. DeadWhenRestoring(p)'
        BY <1>1, <1>2, <1>4, SavedIsHeld, SessionAssumption DEF DeadWhenRestoring, Alive
    <2>4. LocalIsTheUsers(p)'
        BY <1>2, <1>4, SavedIsHeld DEF LauncherSafe, LocalIsTheUsers
    <2>5. UnchangedUntilRun(p)'
        BY <1>1, <1>5 DEF UnchangedUntilRun, SessionPcs
    <2>. QED BY <2>1, <2>2, <2>3, <2>4, <2>5 DEF LauncherSafe
<1>. QED BY <1>1, <1>2, <1>3, <1>6, StepBy DEF SessionPcs

(* Resolving: the loader will run, or has run and is stopped again. *)
LEMMA LocateModulesSafe ==
    ASSUME SafeInv, TypeInv', NEW p \in Launchers, LocateModules(p)
    PROVE  SafeInv'
<1>1. CASE Go(p, "locate", "resolve") /\ UNCHANGED local
    BY <1>1, AdvanceSafe DEF LocateModules, SessionPcs, NamedPcs
<1>2. CASE Go(p, "locate", "resumeLoader") /\ local' = [local EXCEPT ![p].hasRun = TRUE]
    <2>1. /\ pc[p] = "locate" /\ pc'[p] = "resumeLoader"
          /\ local'[p].snap = local[p].snap /\ local'[p].pid = local[p].pid
          /\ local'[p].hasRun = TRUE
          /\ \A q \in Launchers : q # p => pc'[q] = pc[q] /\ local'[q] = local[q]
        <3>1. TypeOK
            BY DEF SafeInv, TypeInv
        <3>2. /\ pc[p] = "locate" /\ pc'[p] = "resumeLoader"
              /\ \A q \in Launchers : q # p => pc'[q] = pc[q]
            BY <1>2, <3>1, GoMoves
        <3>3. /\ local'[p].snap = local[p].snap /\ local'[p].pid = local[p].pid
              /\ local'[p].hasRun = TRUE
              /\ \A q \in Launchers : q # p => local'[q] = local[q]
            BY <1>2, <3>1, HasRunMoves
        <3>. QED BY <3>2, <3>3
    <2>2. /\ LauncherSafe(p) /\ WorldSafe'
          /\ UNCHANGED <<registry, journal, lease, game, baseline, shielded>>
        BY WorldKept DEF SafeInv, LocateModules
    <2>3. LeaseIsHeld(p)' /\ JournalIsHeld(p)' /\ DeadWhenRestoring(p)' /\ LocalIsTheUsers(p)'
        BY <2>1, <2>2
        DEF LauncherSafe, LeaseIsHeld, JournalIsHeld, DeadWhenRestoring, LocalIsTheUsers,
            HeldPcs, SessionPcs
    <2>4. GameIsHeld(p)' /\ UnchangedUntilRun(p)'
        BY <2>1, <2>2
        DEF LauncherSafe, GameIsHeld, UnchangedUntilRun, NamedPcs, SessionPcs
    <2>5. LauncherSafe(p)'
        BY <2>3, <2>4 DEF LauncherSafe
    <2>. QED BY <2>1, <2>2, <2>5, StepBy
<1>. QED BY <1>1, <1>2 DEF LocateModules

LEMMA SuspendLoaderSafe ==
    ASSUME SafeInv, TypeInv', NEW p \in Launchers, SuspendLoader(p)
    PROVE  SafeInv'
<1>1. CASE /\ FinishFailed(p, "suspendLoader")
           /\ UNCHANGED <<registry, journal, lease, game, baseline, shielded>>
    BY <1>1, FinishFailedSafe DEF FailPcs
<1>2. CASE /\ Go(p, "suspendLoader", "resolve")
           /\ game' = [game EXCEPT ![local[p].pid] = "suspended"] \/ UNCHANGED game
           /\ UNCHANGED <<registry, journal, lease, local, baseline, shielded>>
    <2>1. pc[p] = "suspendLoader" /\ pc'[p] = "resolve" /\ LauncherSafe(p) /\ WorldSafe
        BY <1>2, GoMoves DEF SafeInv, TypeInv
    <2>2. \A g \in Pids : game'[g] = "running" => game[g] = "running"
        BY <1>2 DEF SafeInv, TypeInv, TypeOK
    <2>3. WorldSafe'
        BY <1>2, <2>1, <2>2
        DEF WorldSafe, RunningGameIsNamed, RunningGameIsHeld, JournalIsTheUsers,
            PendingRestoreIsRecorded, Clean
    <2>4. LeaseIsHeld(p)' /\ JournalIsHeld(p)' /\ DeadWhenRestoring(p)' /\ LocalIsTheUsers(p)'
        BY <1>2, <2>1
        DEF LauncherSafe, LeaseIsHeld, JournalIsHeld, DeadWhenRestoring, LocalIsTheUsers,
            HeldPcs, SessionPcs
    <2>5. GameIsHeld(p)' /\ UnchangedUntilRun(p)'
        BY <1>2, <2>1, <2>2
        DEF LauncherSafe, GameIsHeld, UnchangedUntilRun, NamedPcs, SessionPcs, NothingRuns
    <2>6. LauncherSafe(p)'
        BY <2>4, <2>5 DEF LauncherSafe
    <2>. QED BY <1>2, <2>1, <2>3, <2>6, StepBy, GoMoves DEF SafeInv, TypeInv
<1>. QED BY <1>1, <1>2 DEF SuspendLoader

LEMMA ResumeSafe ==
    ASSUME SafeInv, TypeInv', NEW p \in Launchers, ResumeLoader(p) \/ Resume(p)
    PROVE  SafeInv'
<1>1. CASE ResumeGame(p, "resumeLoader", "waitModules") \/ ResumeGame(p, "resume", "startGuard")
    BY <1>1, ResumeGameSafe DEF NamedPcs
<1>2. CASE ResumeFails(p, "resumeLoader") \/ ResumeFails(p, "resume")
    BY <1>2, FinishFailedSafe DEF ResumeFails, FailPcs
<1>. QED BY <1>1, <1>2 DEF ResumeLoader, Resume

(* Saving a stage: the session goes on only with the journal written. *)
LEMMA SaveStageSafe ==
    ASSUME SafeInv, TypeInv', NEW p \in Launchers,
           SaveResolving(p) \/ SavePatching(p) \/ SaveRunning(p)
    PROVE  SafeInv'
<1>1. CASE SaveResolving(p)
    BY <1>1, SaveSafe, FinishFailedSafe DEF SaveResolving, Saved, SaveFailed, FailPcs
<1>2. CASE SavePatching(p)
    BY <1>2, SaveSafe, FinishFailedSafe DEF SavePatching, Saved, SaveFailed, FailPcs
<1>3. CASE SaveRunning(p)
    BY <1>3, SaveSafe, FinishFailedSafe DEF SaveRunning, Saved, SaveFailed, FailPcs
<1>. QED BY <1>1, <1>2, <1>3

LEMMA LaunchingSafe ==
    ASSUME SafeInv, TypeInv', NEW p \in Launchers, Launching(p)
    PROVE  SafeInv'
<1>1. CASE Prepare(p) \/ SavePreparing(p) \/ Spawn(p) \/ LaunchFails(p) \/ SaveAbandoned(p)
    BY <1>1, PrepareSafe, SavePreparingSafe, SpawnSafe, LaunchFailsSafe, SaveAbandonedSafe
<1>2. CASE PrepareFails(p)
    BY <1>2, GiveUpSafe DEF PrepareFails
<1>3. CASE SaveResolving(p) \/ SavePatching(p) \/ SaveRunning(p)
    BY <1>3, SaveStageSafe
<1>4. CASE LocateModules(p) \/ ResumeLoader(p) \/ SuspendLoader(p)
    BY <1>4, LocateModulesSafe, ResumeSafe, SuspendLoaderSafe
<1>5. CASE WaitForModules(p)
    BY <1>5, AdvanceSafe, FinishFailedSafe DEF WaitForModules, FailPcs, SessionPcs, NamedPcs
<1>6. CASE Resolve(p)
    BY <1>6, AdvanceSafe, FinishFailedSafe DEF Resolve, FailPcs, SessionPcs, NamedPcs
<1>7. CASE ApplyPatches(p)
    BY <1>7, AdvanceSafe, FinishFailedSafe DEF ApplyPatches, FailPcs, SessionPcs, NamedPcs
<1>. QED BY <1>1, <1>2, <1>3, <1>4, <1>5, <1>6, <1>7 DEF Launching

(* The session runs, and its game ends. *)
LEMMA StopGuardSafe ==
    ASSUME SafeInv, TypeInv', NEW p \in Launchers, StopGuard(p)
    PROVE  SafeInv'
<1> DEFINE x == [local[p] EXCEPT !.todo = ToRestore(local[p].snap, registry)]
<1>1. x.snap = local[p].snap /\ x.pid = local[p].pid /\ x.hasRun = local[p].hasRun
    BY DEF SafeInv, TypeInv, TypeOK, Locals
<1>2. local' = [local EXCEPT ![p] = x]
    BY DEF StopGuard
<1> HIDE DEF x
<1>3. /\ pc[p] = "stopGuard" /\ pc'[p] = "restore"
      /\ local'[p].snap = local[p].snap /\ local'[p].pid = local[p].pid
      /\ local'[p].hasRun = local[p].hasRun
      /\ \A q \in Launchers : q # p => pc'[q] = pc[q] /\ local'[q] = local[q]
    BY <1>1, <1>2, GoMoves DEF SafeInv, TypeInv, TypeOK, StopGuard
<1>4. /\ LauncherSafe(p) /\ WorldSafe'
      /\ UNCHANGED <<registry, journal, lease, game, baseline, shielded>>
    BY WorldKept DEF SafeInv, StopGuard
<1>5. LeaseIsHeld(p)' /\ JournalIsHeld(p)' /\ LocalIsTheUsers(p)'
    BY <1>3, <1>4
    DEF LauncherSafe, LeaseIsHeld, JournalIsHeld, LocalIsTheUsers, HeldPcs, SessionPcs
<1>6. GameIsHeld(p)' /\ UnchangedUntilRun(p)'
    BY <1>3 DEF GameIsHeld, UnchangedUntilRun, NamedPcs, SessionPcs
<1>7. DeadWhenRestoring(p)'
    BY <1>3, <1>4, SessionAssumption
    DEF LauncherSafe, DeadWhenRestoring, GameIsHeld, SessionPcs, Alive
<1>8. LauncherSafe(p)'
    BY <1>5, <1>6, <1>7 DEF LauncherSafe
<1>. QED BY <1>3, <1>4, <1>8, StepBy

LEMMA RunningSafe ==
    ASSUME SafeInv, TypeInv', NEW p \in Launchers, Running(p)
    PROVE  SafeInv'
<1>1. CASE Resume(p) \/ StopGuard(p)
    BY <1>1, ResumeSafe, StopGuardSafe
<1>2. CASE StartGuard(p)
    BY <1>2, AdvanceSafe, FinishFailedSafe DEF StartGuard, FailPcs, SessionPcs, NamedPcs
<1>3. CASE StartRuntime(p)
    BY <1>3, AdvanceSafe, FinishFailedSafe DEF StartRuntime, FailPcs, SessionPcs, NamedPcs
<1>4. CASE AwaitExit(p)
    BY <1>4, AdvanceSafe, FinishFailedSafe DEF AwaitExit, FailPcs, SessionPcs, NamedPcs
<1>. QED BY <1>1, <1>2, <1>3, <1>4 DEF Running

(* finish_failed: the game is dead, or it is not known to be. *)
LEMMA TerminateSafe ==
    ASSUME SafeInv, TypeInv', NEW p \in Launchers, Terminate(p)
    PROVE  SafeInv'
<1>1. PICK failed \in BOOLEAN, died \in BOOLEAN :
          /\ game' = IF died /\ Alive(local[p].pid)
                     THEN [game EXCEPT ![local[p].pid] = "gone"] ELSE game
          /\ local' = [local EXCEPT ![p] =
                          [@ EXCEPT !.gameDead = died, !.cleanupFailed = failed]]
    BY Zenon DEF Terminate
<1> DEFINE x == [local[p] EXCEPT !.gameDead = died, !.cleanupFailed = failed]
<1>2. /\ x.snap = local[p].snap /\ x.pid = local[p].pid /\ x.hasRun = local[p].hasRun
      /\ x.gameDead = died
    BY DEF SafeInv, TypeInv, TypeOK, Locals
<1>3. local' = [local EXCEPT ![p] = x]
    BY <1>1
<1> HIDE DEF x
<1>4. /\ pc[p] = "terminate" /\ pc'[p] = "saveFailed"
      /\ local'[p].snap = local[p].snap /\ local'[p].pid = local[p].pid
      /\ local'[p].hasRun = local[p].hasRun /\ local'[p].gameDead = died
      /\ \A q \in Launchers : q # p => pc'[q] = pc[q] /\ local'[q] = local[q]
    <2>1. /\ pc[p] = "terminate" /\ pc'[p] = "saveFailed"
          /\ \A q \in Launchers : q # p => pc'[q] = pc[q]
        BY GoMoves DEF SafeInv, TypeInv, Terminate
    <2>2. /\ local'[p].snap = local[p].snap /\ local'[p].pid = local[p].pid
          /\ local'[p].hasRun = local[p].hasRun /\ local'[p].gameDead = died
          /\ \A q \in Launchers : q # p => local'[q] = local[q]
        BY <1>2, <1>3 DEF SafeInv, TypeInv, TypeOK
    <2>. QED BY <2>1, <2>2
<1>5. /\ LauncherSafe(p) /\ WorldSafe
      /\ UNCHANGED <<registry, journal, lease, baseline, shielded>>
    BY DEF SafeInv, Terminate
<1>6. \A g \in Pids : game'[g] = "running" => game[g] = "running"
    BY <1>1 DEF SafeInv, TypeInv, TypeOK
<1>7. WorldSafe'
    BY <1>5, <1>6
    DEF WorldSafe, RunningGameIsNamed, RunningGameIsHeld, JournalIsTheUsers,
        PendingRestoreIsRecorded, Clean
<1>8. LeaseIsHeld(p)' /\ JournalIsHeld(p)' /\ GameIsHeld(p)' /\ LocalIsTheUsers(p)'
    BY <1>4, <1>5
    DEF LauncherSafe, LeaseIsHeld, JournalIsHeld, GameIsHeld, LocalIsTheUsers,
        HeldPcs, NamedPcs, SessionPcs
<1>9. DeadWhenRestoring(p)'
    <2>1. died => ~Alive(local[p].pid)'
        BY <1>1, <1>4 DEF Alive, SafeInv, TypeInv, TypeOK
    <2>. QED BY <1>4, <2>1 DEF DeadWhenRestoring, Alive
<1>10. UnchangedUntilRun(p)'
    BY <1>4, <1>5, <1>6 DEF LauncherSafe, UnchangedUntilRun, SessionPcs, NothingRuns
<1>11. LauncherSafe(p)'
    BY <1>8, <1>9, <1>10 DEF LauncherSafe
<1>. QED BY <1>4, <1>7, <1>11, StepBy

LEMMA SaveFailedStageSafe ==
    ASSUME SafeInv, TypeInv', NEW p \in Launchers, SaveFailedStage(p)
    PROVE  SafeInv'
<1>1. PICK failed \in {TRUE, local[p].cleanupFailed} :
          /\ Go(p, "saveFailed", IF ~local[p].gameDead THEN "leave"
                                 ELSE IF local[p].hasRun THEN "restore"
                                 ELSE IF failed THEN "leave" ELSE "clear")
          /\ local' = [local EXCEPT ![p] =
                          [@ EXCEPT !.cleanupFailed = failed,
                                    !.todo = ToRestore(local[p].snap, registry)]]
    BY Zenon DEF SaveFailedStage
<1> DEFINE x == [local[p] EXCEPT !.cleanupFailed = failed,
                                 !.todo = ToRestore(local[p].snap, registry)]
<1>2. /\ x.snap = local[p].snap /\ x.pid = local[p].pid /\ x.hasRun = local[p].hasRun
      /\ x.gameDead = local[p].gameDead
    BY DEF SafeInv, TypeInv, TypeOK, Locals
<1>3. local' = [local EXCEPT ![p] = x]
    BY <1>1
<1> HIDE DEF x
<1>4. /\ local'[p].snap = local[p].snap /\ local'[p].pid = local[p].pid
      /\ local'[p].hasRun = local[p].hasRun
      /\ \A q \in Launchers : q # p => local'[q] = local[q]
    BY <1>2, <1>3 DEF SafeInv, TypeInv, TypeOK
<1>5. /\ pc[p] = "saveFailed" /\ pc'[p] \in {"leave", "restore", "clear"}
      /\ pc'[p] \in {"restore", "clear"} => local[p].gameDead
      /\ pc'[p] = "clear" => ~local[p].hasRun
      /\ \A q \in Launchers : q # p => pc'[q] = pc[q]
    BY <1>1, GoMoves DEF SafeInv, TypeInv
<1>6. /\ LauncherSafe(p) /\ WorldSafe /\ pc[p] \in SessionPcs
      /\ journal' \in {journal, Record(p)}
      /\ UNCHANGED <<registry, lease, game, baseline, shielded>>
    BY <1>5 DEF SafeInv, SaveFailedStage, Saved, SaveFailed, SessionPcs
<1>7. WorldSafe'
    BY <1>6, WorldKept, WorldSaved
<1>8. /\ journal # NoJournal /\ journal' # NoJournal
      /\ journal.snap = local[p].snap /\ journal'.snap = local[p].snap
      /\ journal.pid \in {NoPid, local[p].pid} /\ journal'.pid \in {NoPid, local[p].pid}
    BY <1>5, <1>6, SavedIsHeld
    DEF LauncherSafe, JournalIsHeld, GameIsHeld, HeldPcs, SessionPcs
<1>9. LauncherSafe(p)'
    <2>1. LeaseIsHeld(p)' /\ JournalIsHeld(p)'
        BY <1>4, <1>5, <1>6, <1>8
        DEF LauncherSafe, LeaseIsHeld, JournalIsHeld, HeldPcs, SessionPcs
    <2>2. GameIsHeld(p)'
        BY <1>5 DEF GameIsHeld, NamedPcs, SessionPcs
    <2>3. DeadWhenRestoring(p)'
        BY <1>4, <1>5, <1>6, <1>8, SessionAssumption
        DEF LauncherSafe, DeadWhenRestoring, Alive
    <2>4. LocalIsTheUsers(p)'
        BY <1>4, <1>6, <1>8 DEF LauncherSafe, LocalIsTheUsers
    <2>5. UnchangedUntilRun(p)'
        <3>1. pc'[p] = "clear" => registry = baseline
            BY <1>5, <1>6 DEF LauncherSafe, UnchangedUntilRun
        <3>2. registry = baseline => Clean'
            BY <1>6, AgreesWithItself DEF Clean, SafeInv, TypeInv, TypeOK
        <3>. QED BY <1>5, <3>1, <3>2 DEF UnchangedUntilRun, SessionPcs
    <2>. QED BY <2>1, <2>2, <2>3, <2>4, <2>5 DEF LauncherSafe
<1>. QED BY <1>4, <1>5, <1>6, <1>7, <1>9, StepBy DEF SessionPcs

LEMMA FinishingSafe ==
    ASSUME SafeInv, TypeInv', NEW p \in Launchers, Finishing(p)
    PROVE  SafeInv'
<1>1. CASE Leave(p)
    BY <1>1, DropSafe DEF Leave, Go
<1>. QED BY <1>1, TerminateSafe, SaveFailedStageSafe DEF Finishing

LEMMA AcquireSafe ==
    ASSUME SafeInv, TypeInv', NEW p \in Launchers, Acquire(p)
    PROVE  SafeInv'
<1>1. /\ pc[p] = "idle" /\ pc'[p] = "load" /\ lease = Nobody /\ lease' = p
      /\ \A q \in Launchers : q # p => pc'[q] = pc[q]
    BY GoMoves DEF SafeInv, TypeInv, Acquire
<1>2. /\ WorldSafe'
      /\ UNCHANGED <<registry, journal, game, local, baseline, shielded>>
    BY WorldKept DEF SafeInv, Acquire
<1>3. \A q \in Launchers : pc[q] = "idle" /\ local[q] = Fresh
    BY <1>1, SessionAssumption DEF SafeInv, LauncherSafe, LeaseIsHeld
<1>4. ASSUME NEW q \in Launchers, q # p
      PROVE  LauncherSafe(q)'
    BY <1>1, <1>2, <1>3, <1>4, IdleIsSafe
<1>5. LauncherSafe(p)'
    BY <1>1, <1>2, <1>3
    DEF LauncherSafe, LeaseIsHeld, JournalIsHeld, GameIsHeld, DeadWhenRestoring,
        LocalIsTheUsers, UnchangedUntilRun, HeldPcs, NamedPcs, SessionPcs, Fresh
<1>. QED BY <1>2, <1>4, <1>5 DEF SafeInv

LEMMA UntouchedSafe ==
    ASSUME SafeInv, TypeInv',
           UNCHANGED <<registry, journal, lease, game, pc, local, baseline, shielded>>
    PROVE  SafeInv'
<1>1. \A g \in Pids : game'[g] = game[g]
    OBVIOUS
<1>. QED BY <1>1, FewerGames DEF SafeInv

LEMMA GuardingSafe ==
    ASSUME SafeInv, TypeInv', NEW p \in Launchers, Guarding(p)
    PROVE  SafeInv'
<1>1. ASSUME NEW r \in Roots, GuardWakes(p, r)
      PROVE  SafeInv'
    BY <1>1, UntouchedSafe DEF GuardWakes
<1>2. ASSUME NEW s \in Settings, GuardWrites(p, s)
      PROVE  SafeInv'
    BY <1>2, WriteBackSafe DEF GuardWrites, SafeInv, TypeInv, TodoIsSaved
<1>3. CASE GuardWriteFails(p)
    BY <1>3, UntouchedSafe DEF GuardWriteFails
<1>. QED BY <1>1, <1>2, <1>3 DEF Guarding

(* What the games and the system do. A game that writes is the journal's, so *)
(* its session is under way; if it asked for no protection, what the game    *)
(* writes is what the user has from then on.                                 *)
LEMMA GameWritesSafe ==
    ASSUME SafeInv, TypeInv', NEW g \in Pids, NEW s \in Settings, NEW d \in Data,
           GameWrites(g, s, d)
    PROVE  SafeInv'
<1>1. /\ WorldSafe /\ UNCHANGED <<journal, lease, game, pc, local, shielded>>
      /\ game[g] = "running" /\ registry' = [registry EXCEPT ![s] = d]
    BY DEF SafeInv, GameWrites
<1>2. /\ journal # NoJournal /\ journal.pid = g
      /\ g \in shielded <=> journal.snap # NoSnapshot
      /\ journal.snap \in {NoSnapshot, Snapshot(baseline)}
    BY <1>1 DEF WorldSafe, RunningGameIsNamed, RunningGameIsHeld, JournalIsTheUsers
<1>3. journal.snap # NoSnapshot => baseline' = baseline
    BY <1>2 DEF GameWrites
<1>4. journal.snap = NoSnapshot => registry = baseline /\ registry' = baseline' /\ Clean'
    <2>1. journal.snap = NoSnapshot => registry = baseline
        BY <1>1, <1>2 DEF WorldSafe, JournalIsTheUsers
    <2>2. journal.snap = NoSnapshot => registry' = baseline'
        BY <1>1, <1>2, <2>1 DEF GameWrites
    <2>3. registry' = baseline' => Clean'
        BY AgreesWithItself DEF Clean, TypeInv, TypeOK
    <2>. QED BY <2>1, <2>2, <2>3
<1>5. WorldSafe'
    BY <1>1, <1>2, <1>3, <1>4
    DEF WorldSafe, RunningGameIsNamed, RunningGameIsHeld, JournalIsTheUsers,
        PendingRestoreIsRecorded
<1>6. ASSUME NEW q \in Launchers
      PROVE  LauncherSafe(q)'
    <2>1. LauncherSafe(q)
        BY DEF SafeInv
    <2>2. LeaseIsHeld(q)' /\ JournalIsHeld(q)' /\ GameIsHeld(q)' /\ DeadWhenRestoring(q)'
        BY <1>1, <2>1
        DEF LauncherSafe, LeaseIsHeld, JournalIsHeld, GameIsHeld, DeadWhenRestoring, Alive
    <2>3. LocalIsTheUsers(q)'
        BY <1>1, <1>2, <1>3, <2>1 DEF LauncherSafe, LocalIsTheUsers
    <2>4. UnchangedUntilRun(q)'
        BY <1>1, <1>2, <2>1
        DEF LauncherSafe, UnchangedUntilRun, JournalIsHeld, DeadWhenRestoring, NothingRuns, Alive
    <2>. QED BY <2>2, <2>3, <2>4 DEF LauncherSafe
<1>. QED BY <1>5, <1>6 DEF SafeInv

LEMMA EnvironmentSafe ==
    ASSUME SafeInv, TypeInv', NEW g \in Pids, Environment(g)
    PROVE  SafeInv'
<1>1. ASSUME NEW s \in Settings, NEW d \in Data, GameWrites(g, s, d)
      PROVE  SafeInv'
    BY <1>1, GameWritesSafe
<1>2. CASE GameExits(g) \/ PidReused(g) \/ ForeignExits(g)
    <2>1. /\ \A h \in Pids :
                /\ game'[h] = "running" => game[h] = "running"
                /\ game'[h] \in {"suspended", "running"} =>
                      game[h] \in {"suspended", "running"}
          /\ UNCHANGED <<registry, journal, lease, pc, local, baseline, shielded>>
        BY <1>2 DEF GameExits, PidReused, ForeignExits, SafeInv, TypeInv, TypeOK
    <2>. QED BY <2>1, FewerGames DEF SafeInv
<1>. QED BY <1>1, <1>2 DEF Environment

(* Every step keeps the invariant, as long as no journal is overlooked. *)
LEMMA SafeStep ==
    ASSUME "probe" \notin Faults, SafeInv, [Next]_vars
    PROVE  SafeInv'
<1>1. TypeInv'
    BY TypeStep DEF SafeInv
<1>2. ASSUME NEW p \in Launchers, Acquire(p) \/ Engine(p)
      PROVE  SafeInv'
    BY <1>1, <1>2, AcquireSafe, RecoveringSafe, RestoringSafe, LaunchingSafe, RunningSafe,
       FinishingSafe DEF Engine
<1>3. ASSUME NEW p \in Launchers, Guarding(p)
      PROVE  SafeInv'
    BY <1>1, <1>3, GuardingSafe
<1>4. ASSUME NEW p \in Launchers, Crash(p)
      PROVE  SafeInv'
    BY <1>1, <1>4, DropSafe DEF Crash
<1>5. ASSUME NEW g \in Pids, Environment(g)
      PROVE  SafeInv'
    BY <1>1, <1>5, EnvironmentSafe
<1>6. CASE UNCHANGED vars
    BY <1>1, <1>6, UntouchedSafe DEF vars
<1>. QED BY <1>2, <1>3, <1>4, <1>5, <1>6 DEF Next

LEMMA SessionIsSafe ==
    ASSUME "probe" \notin Faults
    PROVE  Spec => []SafeInv
<1>1. Init => SafeInv
    BY SafeInit
<1>2. SafeInv /\ [Next]_vars => SafeInv'
    BY SafeStep
<1>. QED BY <1>1, <1>2, PTL DEF Spec

-----------------------------------------------------------------------------
(* No changed setting is without its record: see PendingRestoreIsRecorded. *)
THEOREM RestoreIsNeverLost ==
    ASSUME "probe" \notin Faults
    PROVE  Spec => []PendingRestoreIsRecorded
<1>1. SafeInv => PendingRestoreIsRecorded
    BY DEF SafeInv, WorldSafe
<1>. QED BY <1>1, SessionIsSafe, PTL

(* A game that can write is the one recovery will ask about. *)
THEOREM GameIsNeverForgotten ==
    ASSUME "probe" \notin Faults
    PROVE  Spec => []RunningGameIsNamed
<1>1. SafeInv => RunningGameIsNamed
    BY DEF SafeInv, WorldSafe
<1>. QED BY <1>1, SessionIsSafe, PTL

(* Restores, verifications and clears happen with every game stopped. *)
THEOREM RestoreIsUndisturbed ==
    ASSUME "probe" \notin Faults
    PROVE  Spec => []RestoreOnlyWhenStopped
<1>1. SafeInv => RestoreOnlyWhenStopped
    BY DEF SafeInv, WorldSafe, RunningGameIsNamed, LauncherSafe, DeadWhenRestoring, Alive,
           RestoreOnlyWhenStopped
<1>. QED BY <1>1, SessionIsSafe, PTL

(* Every snapshot a launcher works with is the user's. *)
THEOREM SnapshotIsNeverBorrowed ==
    ASSUME "probe" \notin Faults
    PROVE  Spec => []SnapshotIsTheUsers
<1>1. SafeInv => SnapshotIsTheUsers
    BY DEF SafeInv, LauncherSafe, LocalIsTheUsers, SnapshotIsTheUsers
<1>. QED BY <1>1, SessionIsSafe, PTL

-----------------------------------------------------------------------------
(* What a step can do to the journal: write it first, write it again, or     *)
(* remove it. Nothing touches the settings in the same step.                 *)
JournalOpens(p) ==
    pc[p] = "savePreparing" /\ journal' = Record(p) /\ UNCHANGED <<registry, baseline>>

JournalIsSaved(p) ==
    pc[p] \in SessionPcs /\ journal' = Record(p) /\ UNCHANGED <<registry, baseline>>

LEMMA JournalMoves ==
    ASSUME SafeInv, [Next]_vars
    PROVE  \/ UNCHANGED journal
           \/ \E p \in Launchers : JournalOpens(p) \/ JournalIsSaved(p) \/ ClearJournal(p)
<1>1. ASSUME NEW p \in Launchers, Acquire(p) \/ Recovering(p) \/ Guarding(p) \/ Crash(p)
      PROVE  UNCHANGED journal
    BY <1>1 DEF Acquire, Recovering, Guarding, Crash, NothingToRecover, MisprobeJournal,
                RefuseRecovery, BeginRecovery, GuardWakes, GuardWrites, GuardWriteFails
<1>2. ASSUME NEW p \in Launchers, Restoring(p)
      PROVE  UNCHANGED journal \/ ClearJournal(p)
    BY <1>2 DEF Restoring, RestoreSetting, RestoreDone, RestoreFails, Verify, VerifyFails,
                ClearFails
<1>3. ASSUME NEW p \in Launchers, Launching(p)
      PROVE  UNCHANGED journal \/ JournalOpens(p) \/ JournalIsSaved(p)
    <2>1. CASE SavePreparing(p)
        BY <2>1 DEF SavePreparing, Saved, SaveFailed, Go, JournalOpens
    <2>2. CASE SaveAbandoned(p) \/ SaveResolving(p) \/ SavePatching(p) \/ SaveRunning(p)
        BY <2>2 DEF SaveAbandoned, SaveResolving, SavePatching, SaveRunning, FinishFailed,
                    Saved, SaveFailed, Go, SessionPcs, JournalIsSaved
    <2>3. CASE Prepare(p) \/ PrepareFails(p) \/ Spawn(p) \/ LaunchFails(p)
        BY <2>3 DEF Prepare, PrepareFails, Spawn, LaunchFails
    <2>4. CASE LocateModules(p) \/ ResumeLoader(p) \/ WaitForModules(p) \/ SuspendLoader(p)
        BY <2>4 DEF LocateModules, ResumeLoader, ResumeGame, ResumeFails, WaitForModules,
                    SuspendLoader
    <2>5. CASE Resolve(p) \/ ApplyPatches(p)
        BY <2>5 DEF Resolve, ApplyPatches
    <2>. QED BY <1>3, <2>1, <2>2, <2>3, <2>4, <2>5 DEF Launching
<1>4. ASSUME NEW p \in Launchers, Running(p) \/ Finishing(p)
      PROVE  UNCHANGED journal \/ JournalIsSaved(p)
    <2>1. CASE SaveFailedStage(p)
        BY <2>1 DEF SaveFailedStage, Saved, SaveFailed, Go, SessionPcs, JournalIsSaved
    <2>2. CASE Terminate(p) \/ Leave(p)
        BY <2>2, Zenon DEF Terminate, Leave
    <2>3. CASE Resume(p) \/ StopGuard(p)
        BY <2>3 DEF Resume, ResumeGame, ResumeFails, StopGuard
    <2>4. CASE StartGuard(p) \/ StartRuntime(p) \/ AwaitExit(p)
        BY <2>4 DEF StartGuard, StartRuntime, AwaitExit
    <2>. QED BY <1>4, <2>1, <2>2, <2>3, <2>4 DEF Running, Finishing
<1>5. ASSUME NEW g \in Pids, Environment(g)
      PROVE  UNCHANGED journal
    BY <1>5 DEF Environment, GameWrites, GameExits, PidReused, ForeignExits
<1>. QED BY <1>1, <1>2, <1>3, <1>4, <1>5 DEF Next, Engine, vars

(* Settings change only under a journal: a guard or a game that writes has   *)
(* one, and a guard that outlives it has nothing left to change.             *)
LEMMA SettingsMove ==
    ASSUME SafeInv, [Next]_vars, registry' # registry
    PROVE  journal # NoJournal /\ UNCHANGED journal
<1>1. ASSUME NEW p \in Launchers, NEW s \in Settings, RestoreSetting(p, s)
      PROVE  journal # NoJournal /\ UNCHANGED journal
    BY <1>1 DEF RestoreSetting, SafeInv, LauncherSafe, JournalIsHeld, HeldPcs
<1>2. ASSUME NEW p \in Launchers, NEW s \in Settings, GuardWrites(p, s)
      PROVE  journal # NoJournal /\ UNCHANGED journal
    <2>1. local[p].snap[s] # Unsaved /\ LauncherSafe(p) /\ WorldSafe /\ TypeOK
        BY <1>2 DEF GuardWrites, SafeInv, TypeInv, TodoIsSaved
    <2>2. local[p].snap = Snapshot(baseline)
        BY <2>1, NoSnapshotSavesNothing DEF LauncherSafe, LocalIsTheUsers
    <2>3. journal = NoJournal => registry[s] = local[p].snap[s]
        BY <2>1, <2>2 DEF WorldSafe, PendingRestoreIsRecorded, Clean, Agrees
    <2>4. registry[s] = local[p].snap[s] => registry' = registry
        BY <1>2, <2>1 DEF GuardWrites, TypeOK, Contents
    <2>. QED BY <1>2, <2>3, <2>4 DEF GuardWrites
<1>3. ASSUME NEW g \in Pids, Environment(g)
      PROVE  journal # NoJournal /\ UNCHANGED journal
    BY <1>3 DEF Environment, GameWrites, GameExits, PidReused, ForeignExits, SafeInv,
                WorldSafe, RunningGameIsNamed
<1>4. ASSUME NEW p \in Launchers, Guarding(p)
      PROVE  \E s \in Settings : GuardWrites(p, s)
    BY <1>4 DEF Guarding, GuardWakes, GuardWriteFails
<1>5. ASSUME NEW p \in Launchers, Restoring(p)
      PROVE  \E s \in Settings : RestoreSetting(p, s)
    BY <1>5 DEF Restoring, RestoreDone, RestoreFails, Verify, VerifyFails, ClearJournal,
                ClearFails
<1>6. ASSUME NEW p \in Launchers, Launching(p)
      PROVE  FALSE
    <2>1. CASE SavePreparing(p) \/ SaveAbandoned(p) \/ SaveResolving(p)
                  \/ SavePatching(p) \/ SaveRunning(p)
        BY <2>1 DEF SavePreparing, SaveAbandoned, SaveResolving, SavePatching, SaveRunning
    <2>2. CASE Prepare(p) \/ PrepareFails(p) \/ Spawn(p) \/ LaunchFails(p)
        BY <2>2 DEF Prepare, PrepareFails, Spawn, LaunchFails
    <2>3. CASE LocateModules(p) \/ ResumeLoader(p) \/ WaitForModules(p) \/ SuspendLoader(p)
        BY <2>3 DEF LocateModules, ResumeLoader, ResumeGame, ResumeFails, WaitForModules,
                    SuspendLoader
    <2>4. CASE Resolve(p) \/ ApplyPatches(p)
        BY <2>4 DEF Resolve, ApplyPatches
    <2>. QED BY <1>6, <2>1, <2>2, <2>3, <2>4 DEF Launching
<1>7. ASSUME NEW p \in Launchers, Acquire(p) \/ Recovering(p) \/ Running(p) \/ Finishing(p)
                                      \/ Crash(p)
      PROVE  FALSE
    <2>1. CASE Acquire(p) \/ Recovering(p) \/ Crash(p)
        BY <2>1 DEF Acquire, Recovering, Crash, NothingToRecover, MisprobeJournal,
                    RefuseRecovery, BeginRecovery
    <2>2. CASE Terminate(p) \/ SaveFailedStage(p) \/ Leave(p)
        BY <2>2, Zenon DEF Terminate, SaveFailedStage, Leave
    <2>3. CASE Resume(p) \/ StopGuard(p)
        BY <2>3 DEF Resume, ResumeGame, ResumeFails, StopGuard
    <2>4. CASE StartGuard(p) \/ StartRuntime(p) \/ AwaitExit(p)
        BY <2>4 DEF StartGuard, StartRuntime, AwaitExit
    <2>. QED BY <1>7, <2>1, <2>2, <2>3, <2>4 DEF Running, Finishing
<1>. QED BY <1>1, <1>2, <1>3, <1>4, <1>5, <1>6, <1>7 DEF Next, Engine, vars

(* The journal goes only with everything settled: ClearedOnlyWhenSettled. *)
THEOREM JournalIsClearedLast ==
    ASSUME "probe" \notin Faults
    PROVE  Spec => ClearedOnlyWhenSettled
<1>1. SafeInv /\ [Next]_vars => [journal # NoJournal /\ journal' = NoJournal =>
                                    Clean' /\ ~Alive(journal.pid)]_vars
    <2> SUFFICES ASSUME SafeInv, [Next]_vars, journal # NoJournal, journal' = NoJournal
                 PROVE  Clean' /\ ~Alive(journal.pid)
        OBVIOUS
    <2>1. PICK p \in Launchers : ClearJournal(p)
        <3>1. ASSUME NEW p \in Launchers
              PROVE  Record(p) # NoJournal
            BY RecordType, SessionAssumption DEF SafeInv, TypeInv, Journals
        <3>. QED BY <3>1, JournalMoves DEF JournalOpens, JournalIsSaved
    <2>2. pc[p] = "clear" /\ LauncherSafe(p) /\ UNCHANGED <<registry, baseline>>
        BY <2>1 DEF ClearJournal, Go, SafeInv
    <2>. QED BY <2>2 DEF LauncherSafe, DeadWhenRestoring, UnchangedUntilRun, Clean
<1>. QED BY <1>1, SessionIsSafe, PTL DEF Spec, ClearedOnlyWhenSettled

-----------------------------------------------------------------------------
(* The refinement of UndoLog. Its operators are the session's own. *)
LEMMA SameStore ==
    /\ Log!Contents = Contents
    /\ Log!NoSnapshot = NoSnapshot
    /\ Log!Snapshot(registry) = Snapshot(registry)
    /\ \A snapshot : Log!Agrees(snapshot, registry) <=> Agrees(snapshot, registry)
BY DEF Log!Contents, Contents, Log!NoSnapshot, NoSnapshot, Log!Snapshot, Snapshot,
       Log!Stored, Stored, Log!Agrees, Agrees

LEMMA LogStep ==
    ASSUME "probe" \notin Faults, SafeInv, [Next]_vars
    PROVE  [Log!LogNext]_(Log!logVars)
<1> DEFINE log == IF journal = NoJournal THEN NoJournal ELSE journal.snap
<1>1. TypeOK /\ TypeOK'
    BY SafeStep DEF SafeInv, TypeInv
<1>2. journal # NoJournal => log \in Snapshots /\ log # NoJournal
    BY <1>1, SessionAssumption DEF TypeOK, Journals
<1>3. ASSUME NEW p \in Launchers
      PROVE  Record(p) # NoJournal /\ Record(p).snap = local[p].snap
    <2>1. Record(p) \in Journals
        BY <1>1, RecordType
    <2>. QED BY <2>1, SessionAssumption DEF Record, Journals
<1>4. CASE registry' # registry
    <2>1. journal # NoJournal /\ log' = log /\ registry' \in Contents
        BY <1>1, <1>4, SettingsMove DEF TypeOK
    <2>2. Log!Change
        BY <1>2, <2>1, SameStore DEF Log!Change
    <2>. QED BY <2>2 DEF Log!LogNext
<1>5. CASE UNCHANGED <<journal, registry>>
    BY <1>5 DEF Log!logVars
<1>6. ASSUME NEW p \in Launchers, JournalOpens(p)
      PROVE  Log!LogNext
    <2>1. /\ journal = NoJournal /\ registry = baseline /\ UNCHANGED registry
          /\ local[p].snap \in {NoSnapshot, Snapshot(baseline)}
        BY <1>6 DEF JournalOpens, SafeInv, LauncherSafe, JournalIsHeld, UnchangedUntilRun,
                    LocalIsTheUsers
    <2>2. log = NoJournal /\ log' \in {Snapshot(registry), NoSnapshot}
        BY <1>3, <1>6, <2>1 DEF JournalOpens
    <2>3. Log!Open
        BY <2>1, <2>2, SameStore DEF Log!Open
    <2>. QED BY <2>3 DEF Log!LogNext
<1>7. ASSUME NEW p \in Launchers, JournalIsSaved(p)
      PROVE  UNCHANGED Log!logVars
    <2>1. journal # NoJournal /\ journal.snap = local[p].snap /\ journal' = Record(p)
              /\ UNCHANGED registry
        BY <1>7 DEF JournalIsSaved, SafeInv, LauncherSafe, JournalIsHeld, HeldPcs
    <2>. QED BY <1>3, <2>1 DEF Log!logVars
<1>8. ASSUME NEW p \in Launchers, ClearJournal(p)
      PROVE  Log!LogNext
    <2>1. /\ pc[p] = "clear" /\ journal' = NoJournal /\ UNCHANGED registry
          /\ LauncherSafe(p) /\ WorldSafe
        BY <1>8 DEF ClearJournal, Go, SafeInv
    <2>2. /\ journal # NoJournal /\ Clean
          /\ journal.snap \in {NoSnapshot, Snapshot(baseline)}
        BY <2>1 DEF LauncherSafe, JournalIsHeld, UnchangedUntilRun, HeldPcs, WorldSafe,
                    JournalIsTheUsers
    <2>3. Agrees(journal.snap, registry)
        BY <2>2, AgreesWithNothing DEF Clean
    <2>4. Log!Close
        BY <1>2, <2>1, <2>2, <2>3, SameStore DEF Log!Close
    <2>. QED BY <2>4 DEF Log!LogNext
<1>. QED BY <1>4, <1>5, <1>6, <1>7, <1>8, JournalMoves

(* A session implements the undo log: whatever crashes, fails or is launched *)
(* again, the settings change only under a record of them.                   *)
THEOREM SessionImplementsUndoLog ==
    ASSUME "probe" \notin Faults
    PROVE  Spec => ImplementsUndoLog
<1>1. Init => Log!LogInit
    BY SameStore DEF Init, Log!LogInit
<1>2. SafeInv /\ [Next]_vars => [Log!LogNext]_(Log!logVars)
    BY LogStep
<1>. QED BY <1>1, <1>2, SessionIsSafe, PTL DEF Spec, ImplementsUndoLog, Log!LogSpec

-----------------------------------------------------------------------------
(* Launcher p's guard as SnapBack sees it; the writes of games are counted by *)
(* nobody here.                                                               *)
Effect(p) == INSTANCE SnapBack WITH
    store <- registry,
    snapshot <- local[p].snap,
    on <- guard[p].on,
    todo <- guard[p].todo,
    writes <- 0

LEMMA SameRestore ==
    ASSUME NEW p
    PROVE  Effect(p)!ToRestore(local[p].snap, registry) = ToRestore(local[p].snap, registry)
BY DEF Effect!ToRestore, ToRestore

(* What launcher p's guard may do to the settings is what SnapBack lets a     *)
(* guard do, no less and no more: begin a snap-back of a root, write one       *)
(* setting back, give up. The rest of the session stands still meanwhile.      *)
THEOREM SessionTakesSnapBack ==
    ASSUME NEW p \in Launchers, TypeOK,
           guard' \in [Launchers -> Guards],
           \A q \in Launchers \ {p} : guard'[q] = guard[q],
           UNCHANGED <<journal, lease, game, pc, local, baseline, shielded>>
    PROVE  /\ UNCHANGED faults =>
                  \A r \in Roots : GuardWakes(p, r) <=> Effect(p)!Wake(r)
           /\ UNCHANGED faults =>
                  \A s \in Settings : GuardWrites(p, s) <=> Effect(p)!WriteBack(s)
           /\ Fault("guard") =>
                  (GuardWriteFails(p) <=> Effect(p)!GiveUp)
<1>. DEFINE g == guard[p]
            h == guard'[p]
<1>1. /\ guard \in [Launchers -> Guards] /\ g \in Guards /\ h \in Guards
      /\ UNCHANGED local /\ local[p].snap' = local[p].snap
    BY DEF TypeOK
<1>2. ASSUME NEW b \in BOOLEAN, NEW T \in SUBSET Settings
      PROVE  guard' = [guard EXCEPT ![p] = [on |-> b, todo |-> T]]
                 <=> h.on = b /\ h.todo = T
    <2>1. h = [on |-> b, todo |-> T] <=> h.on = b /\ h.todo = T
        BY <1>1 DEF Guards
    <2>2. guard' = [guard EXCEPT ![p] = [on |-> b, todo |-> T]] <=> h = [on |-> b, todo |-> T]
        BY <1>1
    <2>. QED BY <2>1, <2>2
<1>3. ASSUME NEW T \in SUBSET Settings
      PROVE  guard' = [guard EXCEPT ![p].todo = T] <=> h.on = g.on /\ h.todo = T
    <2>1. [g EXCEPT !.todo = T] = [on |-> g.on, todo |-> T] /\ g.on \in BOOLEAN
        BY <1>1 DEF Guards
    <2>2. [guard EXCEPT ![p].todo = T] = [guard EXCEPT ![p] = [g EXCEPT !.todo = T]]
        OBVIOUS
    <2>. HIDE DEF g
    <2>. QED BY <2>1, <2>2, <1>2
<1>4. ASSUME UNCHANGED faults, NEW r \in Roots
      PROVE  GuardWakes(p, r) <=> Effect(p)!Wake(r)
    <2>. DEFINE T == {s \in ToRestore(local[p].snap, registry) : RootOf[s] = r}
    <2>1. T \in SUBSET Settings
        BY DEF ToRestore
    <2>2. GuardWakes(p, r) <=> g.on /\ g.todo = {} /\ h.on = g.on /\ h.todo = T
                                   /\ UNCHANGED registry
        BY <1>4, <1>3, <2>1 DEF GuardWakes
    <2>3. Effect(p)!Wake(r) <=> g.on /\ g.todo = {} /\ h.on = g.on /\ h.todo = T
                                   /\ UNCHANGED registry
        BY <1>1, SameRestore DEF Effect!Wake
    <2>. QED BY <2>2, <2>3
<1>5. ASSUME UNCHANGED faults, NEW s \in Settings
      PROVE  GuardWrites(p, s) <=> Effect(p)!WriteBack(s)
    <2>1. g.todo \ {s} \in SUBSET Settings
        BY <1>1 DEF Guards
    <2>2. [guard EXCEPT ![p].todo = @ \ {s}] = [guard EXCEPT ![p].todo = g.todo \ {s}]
        OBVIOUS
    <2>. QED BY <1>1, <1>3, <1>5, <2>1, <2>2 DEF GuardWrites, Effect!WriteBack
<1>6. ASSUME Fault("guard")
      PROVE  GuardWriteFails(p) <=> Effect(p)!GiveUp
    BY <1>1, <1>3, <1>6 DEF GuardWriteFails, Effect!GiveUp
<1>. QED BY <1>4, <1>5, <1>6
=============================================================================
