---------------------------- MODULE SessionProofs ----------------------------
(***************************************************************************)
(* The types of Session, for any number of launchers, processes, settings   *)
(* and values, and any number of failures. Nothing about them is inductive  *)
(* by itself: that the registry only ever holds values needs that whatever  *)
(* is to be written back was saved, and that the guard works for the same   *)
(* snapshot as the engine that started it.                                  *)
(***************************************************************************)
EXTENDS Session, TLAPS

-----------------------------------------------------------------------------
(* What snapshots and restores do to the store, whatever the settings, the    *)
(* roots and the values are.                                                  *)

(* A snapshot of the registry is a snapshot, and so is the empty one. *)
LEMMA SnapshotType ==
    ASSUME NEW store \in Contents
    PROVE  Snapshot(store) \in Snapshots
BY DEF Snapshot, Snapshots, Contents

LEMMA NoSnapshotType == NoSnapshot \in Snapshots
BY DEF NoSnapshot, Snapshots

(* What a snapshot saved is what the registry held. *)
LEMMA SnapshotSaved ==
    ASSUME NEW store \in Contents, NEW s \in Settings, Snapshot(store)[s] # Unsaved
    PROVE  Snapshot(store)[s] = store[s]
BY DEF Snapshot

LEMMA NoSnapshotSavesNothing ==
    ASSUME NEW s \in Settings
    PROVE  NoSnapshot[s] = Unsaved
BY DEF NoSnapshot

(* The store agrees with its own snapshot, and with one that saved nothing. *)
LEMMA AgreesWithItself ==
    ASSUME NEW store \in Contents
    PROVE  Agrees(Snapshot(store), store)
BY SnapshotSaved DEF Agrees

LEMMA AgreesWithNothing ==
    ASSUME NEW store
    PROVE  Agrees(NoSnapshot, store)
BY NoSnapshotSavesNothing DEF Agrees

(* What there is to restore is saved, so it can be written to the registry. *)
LEMMA ToRestoreIsSaved ==
    ASSUME NEW snapshot \in Snapshots, NEW store
    PROVE  /\ ToRestore(snapshot, store) \subseteq Settings
           /\ \A s \in ToRestore(snapshot, store) :
                 snapshot[s] # Unsaved /\ snapshot[s] \in Data \cup {Absent}
BY DEF ToRestore, Snapshots

(* Writing a saved value keeps the registry a registry, and an agreement    *)
(* once reached.                                                            *)
LEMMA RestoreWriteType ==
    ASSUME NEW snapshot \in Snapshots, NEW store \in Contents, NEW s \in Settings,
           snapshot[s] # Unsaved
    PROVE  [store EXCEPT ![s] = snapshot[s]] \in Contents
BY DEF Snapshots, Contents

LEMMA RestoreWriteAgrees ==
    ASSUME NEW snapshot \in Snapshots, NEW store \in Contents, NEW s \in Settings,
           Agrees(snapshot, store)
    PROVE  Agrees(snapshot, [store EXCEPT ![s] = snapshot[s]])
BY DEF Agrees, Contents

-----------------------------------------------------------------------------
(* Where the engine is between its first save and the end of its session. *)
SessionPcs == {"launch", "abandon", "saveResolving", "locate", "resumeLoader",
               "waitModules", "suspendLoader", "resolve", "savePatching", "patch",
               "saveRunning", "resume", "startGuard", "startRuntime", "awaitExit",
               "stopGuard", "terminate", "saveFailed"}

(* Where the guard's worker may exist. *)
GuardedPcs == {"startRuntime", "awaitExit", "stopGuard", "terminate", "saveFailed",
               "restore", "verify", "clear", "leave"}

-----------------------------------------------------------------------------
(* Everything still to be written back was saved. *)
TodoIsSaved ==
    \A p \in Launchers, s \in Settings :
        s \in local[p].todo \cup guard[p].todo => local[p].snap[s] # Unsaved

(* A guard exists only in the launcher's own session, never in a recovery. *)
GuardIsPlaced ==
    \A p \in Launchers :
        /\ guard[p].on \/ guard[p].todo # {} => pc[p] \in GuardedPcs /\ local[p].path # "preflight"
        /\ pc[p] \in SessionPcs \cup {"savePreparing"} => local[p].path # "preflight"

TypeInv == TypeOK /\ TodoIsSaved /\ GuardIsPlaced

-----------------------------------------------------------------------------
(* The engine's fresh locals and the journal it would write are well typed. *)
LEMMA FreshType == Fresh \in Locals /\ GuardOff \in Guards
BY NoSnapshotType DEF Fresh, GuardOff, Locals, Guards, Paths

LEMMA RecordType ==
    ASSUME TypeOK, NEW p \in Launchers
    PROVE  Record(p) \in Journals
BY DEF TypeOK, Locals, Record, Journals

LEMMA TypeInit == Init => TypeInv
<1> SUFFICES ASSUME Init PROVE TypeInv
    OBVIOUS
<1>1. TypeOK
    BY FreshType, SessionAssumption
    DEF Init, TypeOK, ProcessStates, Labels, Contents
<1>2. TodoIsSaved /\ GuardIsPlaced
    BY DEF Init, TodoIsSaved, GuardIsPlaced, Fresh, GuardOff, SessionPcs
<1>. QED BY <1>1, <1>2 DEF TypeInv


(* What the updates of single locals leave of a launcher. *)
LEMMA FinishFailedType ==
    ASSUME TypeOK, NEW p \in Launchers, NEW from, FinishFailed(p, from)
    PROVE  /\ local' \in [Launchers -> Locals]
           /\ \A q \in Launchers :
                 local'[q].snap = local[q].snap /\ local'[q].todo = local[q].todo
<1> DEFINE x == [local[p] EXCEPT !.path = "failed"]
<1>1. x \in Locals /\ x.snap = local[p].snap /\ x.todo = local[p].todo
    BY DEF TypeOK, Locals, Paths
<1>2. local' = [local EXCEPT ![p] = x]
    BY DEF FinishFailed
<1> HIDE DEF x
<1>. QED BY <1>1, <1>2 DEF TypeOK

LEMMA HasRunType ==
    ASSUME TypeOK, NEW p \in Launchers, local' = [local EXCEPT ![p].hasRun = TRUE]
    PROVE  /\ local' \in [Launchers -> Locals]
           /\ \A q \in Launchers :
                 /\ local'[q].snap = local[q].snap /\ local'[q].todo = local[q].todo
                 /\ local'[q].path = local[q].path
<1> DEFINE x == [local[p] EXCEPT !.hasRun = TRUE]
<1>1. x \in Locals /\ x.snap = local[p].snap /\ x.todo = local[p].todo
          /\ x.path = local[p].path
    BY DEF TypeOK, Locals
<1>2. local' = [local EXCEPT ![p] = x]
    OBVIOUS
<1> HIDE DEF x
<1>. QED BY <1>1, <1>2 DEF TypeOK

(* ResumeGame and ResumeFails, the two outcomes of ResumeLoader and Resume. *)
LEMMA ResumeGameType ==
    ASSUME TypeInv, NEW p \in Launchers,
           NEW from \in {"resumeLoader", "resume"}, NEW to \in {"waitModules", "startGuard"},
           ResumeGame(p, from, to)
    PROVE  TypeInv'
<1>1. pc' \in [Launchers -> Labels]
    BY DEF TypeInv, TypeOK, ResumeGame, Go, Labels
<1>2. local' \in [Launchers -> Locals]
    BY HasRunType DEF TypeInv, ResumeGame
<1>3. game' \in [Pids -> ProcessStates]
    BY DEF TypeInv, TypeOK, ResumeGame, ProcessStates
<1>4. TypeOK'
    BY <1>1, <1>2, <1>3 DEF TypeInv, TypeOK, ResumeGame
<1>5. TodoIsSaved'
    BY HasRunType DEF TypeInv, TodoIsSaved, ResumeGame
<1>6. GuardIsPlaced'
    BY HasRunType DEF TypeInv, TypeOK, GuardIsPlaced, ResumeGame, Go, SessionPcs, GuardedPcs
<1>. QED BY <1>4, <1>5, <1>6 DEF TypeInv

LEMMA ResumeFailsType ==
    ASSUME TypeInv, NEW p \in Launchers, NEW from \in {"resumeLoader", "resume"},
           ResumeFails(p, from)
    PROVE  TypeInv'
<1>1. pc' \in [Launchers -> Labels]
    BY DEF TypeInv, TypeOK, ResumeFails, FinishFailed, Go, Labels
<1>2. local' \in [Launchers -> Locals]
    BY FinishFailedType DEF TypeInv, ResumeFails
<1>3. faults' \in 0 .. MaxFaults
    BY SessionAssumption DEF TypeInv, TypeOK, ResumeFails, Fault
<1>4. TypeOK'
    BY <1>1, <1>2, <1>3 DEF TypeInv, TypeOK, ResumeFails
<1>5. TodoIsSaved'
    BY FinishFailedType DEF TypeInv, TodoIsSaved, ResumeFails
<1>6. GuardIsPlaced'
    BY DEF TypeInv, TypeOK, GuardIsPlaced, ResumeFails, FinishFailed, Go, SessionPcs,
           GuardedPcs, Locals
<1>. QED BY <1>4, <1>5, <1>6 DEF TypeInv

(* Every step keeps the types, and with them what makes the types inductive: *)
(* an engine that wrote back a setting it never saved would break them.      *)
LEMMA TypeStep == TypeInv /\ [Next]_vars => TypeInv'
<1> SUFFICES ASSUME TypeInv, [Next]_vars PROVE TypeInv'
    OBVIOUS
<1>1. ASSUME NEW p \in Launchers, Acquire(p)
      PROVE  TypeInv'
    <2>1. pc' \in [Launchers -> Labels]
        BY <1>1 DEF TypeInv, TypeOK, Acquire, Go, Labels
    <2>2. TypeOK'
        BY <1>1, <2>1 DEF TypeInv, TypeOK, Acquire
    <2>3. TodoIsSaved'
        BY <1>1 DEF TypeInv, TypeOK, Acquire, TodoIsSaved, Locals
    <2>4. GuardIsPlaced'
        BY <1>1 DEF TypeInv, TypeOK, Acquire, GuardIsPlaced, Go, GuardedPcs,
           SessionPcs
    <2>. QED BY <2>2, <2>3, <2>4 DEF TypeInv
<1>2. ASSUME NEW p \in Launchers, NothingToRecover(p)
      PROVE  TypeInv'
    <2>1. pc' \in [Launchers -> Labels]
        BY <1>2 DEF TypeInv, TypeOK, NothingToRecover, Go, Labels
    <2>2. TypeOK'
        BY <1>2, <2>1 DEF TypeInv, TypeOK, NothingToRecover
    <2>3. TodoIsSaved'
        BY <1>2 DEF TypeInv, TypeOK, NothingToRecover, TodoIsSaved, Locals
    <2>4. GuardIsPlaced'
        BY <1>2 DEF TypeInv, TypeOK, NothingToRecover, GuardIsPlaced, Go,
           GuardedPcs, SessionPcs
    <2>. QED BY <2>2, <2>3, <2>4 DEF TypeInv
<1>3. ASSUME NEW p \in Launchers, MisprobeJournal(p)
      PROVE  TypeInv'
    <2>1. pc' \in [Launchers -> Labels]
        BY <1>3 DEF TypeInv, TypeOK, MisprobeJournal, Go, Labels
    <2>2. faults' \in 0 .. MaxFaults
        BY <1>3, SessionAssumption DEF TypeInv, TypeOK, MisprobeJournal,
           Fault
    <2>3. TypeOK'
        BY <1>3, <2>1, <2>2 DEF TypeInv, TypeOK, MisprobeJournal
    <2>4. TodoIsSaved'
        BY <1>3 DEF TypeInv, TypeOK, MisprobeJournal, TodoIsSaved, Locals
    <2>5. GuardIsPlaced'
        BY <1>3 DEF TypeInv, TypeOK, MisprobeJournal, GuardIsPlaced, Go,
           GuardedPcs, SessionPcs
    <2>. QED BY <2>3, <2>4, <2>5 DEF TypeInv
<1>4. ASSUME NEW p \in Launchers, RefuseRecovery(p)
      PROVE  TypeInv'
    <2>1. pc' \in [Launchers -> Labels]
        BY <1>4 DEF TypeInv, TypeOK, RefuseRecovery, Go, Labels
    <2>2. faults' \in 0 .. MaxFaults
        BY <1>4, SessionAssumption DEF TypeInv, TypeOK, RefuseRecovery,
           Fault
    <2>3. TypeOK'
        BY <1>4, <2>1, <2>2 DEF TypeInv, TypeOK, RefuseRecovery
    <2>4. TodoIsSaved'
        BY <1>4 DEF TypeInv, TypeOK, RefuseRecovery, TodoIsSaved, Locals
    <2>5. GuardIsPlaced'
        BY <1>4 DEF TypeInv, TypeOK, RefuseRecovery, GuardIsPlaced, Go,
           GuardedPcs, SessionPcs
    <2>. QED BY <2>3, <2>4, <2>5 DEF TypeInv
<1>5. ASSUME NEW p \in Launchers, BeginRecovery(p)
      PROVE  TypeInv'
    <2> DEFINE x == [local[p] EXCEPT !.snap = journal.snap,
                                     !.todo = ToRestore(journal.snap, registry)]
    <2>1. pc' \in [Launchers -> Labels]
        BY <1>5 DEF TypeInv, TypeOK, BeginRecovery, Go, Labels
    <2>2. journal.snap \in Snapshots
        BY <1>5 DEF TypeInv, TypeOK, BeginRecovery, Journals
    <2>3. x \in Locals /\ x.snap = journal.snap /\ x.path = local[p].path
              /\ x.todo = ToRestore(journal.snap, registry)
        <3>1. ToRestore(journal.snap, registry) \in SUBSET Settings
            BY <2>2, ToRestoreIsSaved
        <3>2. local[p] \in Locals
            BY DEF TypeInv, TypeOK
        <3>. QED BY <2>2, <3>1, <3>2 DEF Locals
    <2>4. local' = [local EXCEPT ![p] = x] /\ UNCHANGED guard
        BY <1>5 DEF BeginRecovery
    <2>5. guard[p].todo = {}
        BY <1>5 DEF TypeInv, TypeOK, GuardIsPlaced, BeginRecovery, Go, GuardedPcs
    <2> HIDE DEF x
    <2>6. TypeOK'
        BY <1>5, <2>1, <2>3, <2>4 DEF TypeInv, TypeOK, BeginRecovery
    <2>7. TodoIsSaved'
        BY <2>2, <2>3, <2>4, <2>5, ToRestoreIsSaved DEF TypeInv, TypeOK, TodoIsSaved
    <2>8. GuardIsPlaced'
        BY <1>5, <2>3, <2>4
        DEF TypeInv, TypeOK, BeginRecovery, GuardIsPlaced, Go, GuardedPcs, SessionPcs
    <2>. QED BY <2>6, <2>7, <2>8 DEF TypeInv
<1>6. ASSUME NEW p \in Launchers, NEW s \in Settings, RestoreSetting(p, s)
      PROVE  TypeInv'
    <2>1. pc' \in [Launchers -> Labels]
        BY <1>6 DEF TypeInv, TypeOK, RestoreSetting, Go, Labels
    <2>2. local' \in [Launchers -> Locals]
        BY <1>6, SMTT(60) DEF TypeInv, TypeOK, RestoreSetting, Locals, Paths
    <2>3. registry' \in Contents
        BY <1>6, RestoreWriteType DEF TypeInv, TypeOK, RestoreSetting,
           TodoIsSaved, Locals
    <2>4. TypeOK'
        BY <1>6, <2>1, <2>2, <2>3 DEF TypeInv, TypeOK, RestoreSetting
    <2>5. TodoIsSaved'
        BY <1>6 DEF TypeInv, TypeOK, RestoreSetting, TodoIsSaved, Locals
    <2>6. GuardIsPlaced'
        BY <1>6 DEF TypeInv, TypeOK, RestoreSetting, GuardIsPlaced, Go,
           GuardedPcs, SessionPcs, Locals
    <2>. QED BY <2>4, <2>5, <2>6 DEF TypeInv
<1>7. ASSUME NEW p \in Launchers, RestoreDone(p)
      PROVE  TypeInv'
    <2>1. pc' \in [Launchers -> Labels]
        BY <1>7 DEF TypeInv, TypeOK, RestoreDone, Go, Labels
    <2>2. TypeOK'
        BY <1>7, <2>1 DEF TypeInv, TypeOK, RestoreDone
    <2>3. TodoIsSaved'
        BY <1>7 DEF TypeInv, TypeOK, RestoreDone, TodoIsSaved, Locals
    <2>4. GuardIsPlaced'
        BY <1>7 DEF TypeInv, TypeOK, RestoreDone, GuardIsPlaced, Go,
           GuardedPcs, SessionPcs
    <2>. QED BY <2>2, <2>3, <2>4 DEF TypeInv
<1>8. ASSUME NEW p \in Launchers, RestoreFails(p)
      PROVE  TypeInv'
    <2>1. pc' \in [Launchers -> Labels]
        BY <1>8 DEF TypeInv, TypeOK, RestoreFails, Go, Labels
    <2>2. faults' \in 0 .. MaxFaults
        BY <1>8, SessionAssumption DEF TypeInv, TypeOK, RestoreFails, Fault
    <2>3. TypeOK'
        BY <1>8, <2>1, <2>2 DEF TypeInv, TypeOK, RestoreFails
    <2>4. TodoIsSaved'
        BY <1>8 DEF TypeInv, TypeOK, RestoreFails, TodoIsSaved, Locals
    <2>5. GuardIsPlaced'
        BY <1>8 DEF TypeInv, TypeOK, RestoreFails, GuardIsPlaced, Go,
           GuardedPcs, SessionPcs
    <2>. QED BY <2>3, <2>4, <2>5 DEF TypeInv
<1>9. ASSUME NEW p \in Launchers, Verify(p)
      PROVE  TypeInv'
    <2>1. pc' \in [Launchers -> Labels]
        BY <1>9 DEF TypeInv, TypeOK, Verify, Go, Labels
    <2>2. TypeOK'
        BY <1>9, <2>1 DEF TypeInv, TypeOK, Verify
    <2>3. TodoIsSaved'
        BY <1>9 DEF TypeInv, TypeOK, Verify, TodoIsSaved, Locals
    <2>4. GuardIsPlaced'
        BY <1>9 DEF TypeInv, TypeOK, Verify, GuardIsPlaced, Go, GuardedPcs,
           SessionPcs
    <2>. QED BY <2>2, <2>3, <2>4 DEF TypeInv
<1>10. ASSUME NEW p \in Launchers, VerifyFails(p)
      PROVE  TypeInv'
    <2>1. pc' \in [Launchers -> Labels]
        BY <1>10 DEF TypeInv, TypeOK, VerifyFails, Go, Labels
    <2>2. faults' \in 0 .. MaxFaults
        BY <1>10, SessionAssumption DEF TypeInv, TypeOK, VerifyFails, Fault
    <2>3. TypeOK'
        BY <1>10, <2>1, <2>2 DEF TypeInv, TypeOK, VerifyFails
    <2>4. TodoIsSaved'
        BY <1>10 DEF TypeInv, TypeOK, VerifyFails, TodoIsSaved, Locals
    <2>5. GuardIsPlaced'
        BY <1>10 DEF TypeInv, TypeOK, VerifyFails, GuardIsPlaced, Go,
           GuardedPcs, SessionPcs
    <2>. QED BY <2>3, <2>4, <2>5 DEF TypeInv
<1>11. ASSUME NEW p \in Launchers, ClearJournal(p)
      PROVE  TypeInv'
    <2>1. pc' \in [Launchers -> Labels]
        BY <1>11 DEF TypeInv, TypeOK, ClearJournal, Go, Labels
    <2>2. TypeOK'
        BY <1>11, <2>1 DEF TypeInv, TypeOK, ClearJournal
    <2>3. TodoIsSaved'
        BY <1>11 DEF TypeInv, TypeOK, ClearJournal, TodoIsSaved, Locals
    <2>4. GuardIsPlaced'
        BY <1>11 DEF TypeInv, TypeOK, ClearJournal, GuardIsPlaced, Go,
           GuardedPcs, SessionPcs
    <2>. QED BY <2>2, <2>3, <2>4 DEF TypeInv
<1>12. ASSUME NEW p \in Launchers, ClearFails(p)
      PROVE  TypeInv'
    <2>1. pc' \in [Launchers -> Labels]
        BY <1>12 DEF TypeInv, TypeOK, ClearFails, Go, Labels
    <2>2. faults' \in 0 .. MaxFaults
        BY <1>12, SessionAssumption DEF TypeInv, TypeOK, ClearFails, Fault
    <2>3. TypeOK'
        BY <1>12, <2>1, <2>2 DEF TypeInv, TypeOK, ClearFails
    <2>4. TodoIsSaved'
        BY <1>12 DEF TypeInv, TypeOK, ClearFails, TodoIsSaved, Locals
    <2>5. GuardIsPlaced'
        BY <1>12 DEF TypeInv, TypeOK, ClearFails, GuardIsPlaced, Go,
           GuardedPcs, SessionPcs
    <2>. QED BY <2>3, <2>4, <2>5 DEF TypeInv
<1>13. ASSUME NEW p \in Launchers, Prepare(p)
      PROVE  TypeInv'
    <2>1. PICK snap \in {NoSnapshot, Snapshot(registry)} :
              local' = [local EXCEPT ![p] = [Fresh EXCEPT !.path = "normal", !.snap = snap]]
        BY <1>13 DEF Prepare
    <2> DEFINE x == [Fresh EXCEPT !.path = "normal", !.snap = snap]
    <2>2. snap \in Snapshots
        BY SnapshotType, NoSnapshotType DEF TypeInv, TypeOK
    <2>3. x \in Locals /\ x.path = "normal" /\ x.todo = {}
        BY <2>2, FreshType DEF Locals, Paths, Fresh
    <2>4. local' = [local EXCEPT ![p] = x] /\ UNCHANGED guard
        BY <1>13, <2>1 DEF Prepare
    <2>5. guard[p].todo = {} /\ ~guard[p].on
        BY <1>13 DEF TypeInv, TypeOK, GuardIsPlaced, Prepare, Go, GuardedPcs
    <2>6. pc' \in [Launchers -> Labels]
        BY <1>13 DEF TypeInv, TypeOK, Prepare, Go, Labels
    <2> HIDE DEF x
    <2>7. TypeOK'
        BY <1>13, <2>3, <2>4, <2>6 DEF TypeInv, TypeOK, Prepare, Owed
    <2>8. TodoIsSaved'
        BY <2>3, <2>4, <2>5 DEF TypeInv, TypeOK, TodoIsSaved
    <2>9. GuardIsPlaced'
        BY <1>13, <2>3, <2>4, <2>5
        DEF TypeInv, TypeOK, Prepare, GuardIsPlaced, Go, GuardedPcs, SessionPcs
    <2>. QED BY <2>7, <2>8, <2>9 DEF TypeInv
<1>14. ASSUME NEW p \in Launchers, PrepareFails(p)
      PROVE  TypeInv'
    <2>1. pc' \in [Launchers -> Labels]
        BY <1>14 DEF TypeInv, TypeOK, PrepareFails, Go, Labels
    <2>2. TypeOK'
        BY <1>14, <2>1 DEF TypeInv, TypeOK, PrepareFails
    <2>3. TodoIsSaved'
        BY <1>14 DEF TypeInv, TypeOK, PrepareFails, TodoIsSaved, Locals
    <2>4. GuardIsPlaced'
        BY <1>14 DEF TypeInv, TypeOK, PrepareFails, GuardIsPlaced, Go,
           GuardedPcs, SessionPcs
    <2>. QED BY <2>2, <2>3, <2>4 DEF TypeInv
<1>15. ASSUME NEW p \in Launchers, SavePreparing(p)
      PROVE  TypeInv'
    <2>1. pc' \in [Launchers -> Labels]
        BY <1>15 DEF TypeInv, TypeOK, SavePreparing, Go, Labels
    <2>2. journal' \in Journals \cup {NoJournal}
        BY <1>15, RecordType DEF TypeInv, TypeOK, SavePreparing, Saved,
           SaveFailed
    <2>3. faults' \in 0 .. MaxFaults
        BY <1>15, SessionAssumption DEF TypeInv, TypeOK, SavePreparing,
           Fault, Saved, SaveFailed
    <2>4. TypeOK'
        BY <1>15, <2>1, <2>2, <2>3 DEF TypeInv, TypeOK, SavePreparing
    <2>5. TodoIsSaved'
        BY <1>15 DEF TypeInv, TypeOK, SavePreparing, TodoIsSaved, Locals
    <2>6. GuardIsPlaced'
        BY <1>15 DEF TypeInv, TypeOK, SavePreparing, GuardIsPlaced, Go,
           GuardedPcs, SessionPcs
    <2>. QED BY <2>4, <2>5, <2>6 DEF TypeInv
<1>16. ASSUME NEW p \in Launchers, Spawn(p)
      PROVE  TypeInv'
    <2>1. pc' \in [Launchers -> Labels]
        BY <1>16 DEF TypeInv, TypeOK, Spawn, Go, Labels
    <2>2. local' \in [Launchers -> Locals]
        BY <1>16, SMTT(60) DEF TypeInv, TypeOK, Spawn, Locals, Paths
    <2>3. game' \in [Pids -> ProcessStates]
        BY <1>16 DEF TypeInv, TypeOK, Spawn, ProcessStates
    <2>4. TypeOK'
        BY <1>16, <2>1, <2>2, <2>3 DEF TypeInv, TypeOK, Spawn
    <2>5. TodoIsSaved'
        BY <1>16 DEF TypeInv, TypeOK, Spawn, TodoIsSaved, Locals
    <2>6. GuardIsPlaced'
        BY <1>16 DEF TypeInv, TypeOK, Spawn, GuardIsPlaced, Go, GuardedPcs,
           SessionPcs, Locals
    <2>. QED BY <2>4, <2>5, <2>6 DEF TypeInv
<1>17. ASSUME NEW p \in Launchers, LaunchFails(p)
      PROVE  TypeInv'
    <2>1. pc' \in [Launchers -> Labels]
        BY <1>17 DEF TypeInv, TypeOK, LaunchFails, Go, Labels
    <2>2. local' \in [Launchers -> Locals]
        BY <1>17, SMTT(60) DEF TypeInv, TypeOK, LaunchFails, Locals, Paths
    <2>3. faults' \in 0 .. MaxFaults
        BY <1>17, SessionAssumption DEF TypeInv, TypeOK, LaunchFails, Fault
    <2>4. TypeOK'
        BY <1>17, <2>1, <2>2, <2>3 DEF TypeInv, TypeOK, LaunchFails
    <2>5. TodoIsSaved'
        BY <1>17 DEF TypeInv, TypeOK, LaunchFails, TodoIsSaved, Locals
    <2>6. GuardIsPlaced'
        BY <1>17 DEF TypeInv, TypeOK, LaunchFails, GuardIsPlaced, Go,
           GuardedPcs, SessionPcs, Locals
    <2>. QED BY <2>4, <2>5, <2>6 DEF TypeInv
<1>18. ASSUME NEW p \in Launchers, SaveAbandoned(p)
      PROVE  TypeInv'
    <2>1. pc' \in [Launchers -> Labels]
        BY <1>18 DEF TypeInv, TypeOK, SaveAbandoned, Go, Labels
    <2>2. journal' \in Journals \cup {NoJournal}
        BY <1>18, RecordType DEF TypeInv, TypeOK, SaveAbandoned, Saved,
           SaveFailed
    <2>3. faults' \in 0 .. MaxFaults
        BY <1>18, SessionAssumption DEF TypeInv, TypeOK, SaveAbandoned,
           Fault, Saved, SaveFailed
    <2>4. TypeOK'
        BY <1>18, <2>1, <2>2, <2>3 DEF TypeInv, TypeOK, SaveAbandoned
    <2>5. TodoIsSaved'
        BY <1>18 DEF TypeInv, TypeOK, SaveAbandoned, TodoIsSaved, Locals
    <2>6. GuardIsPlaced'
        BY <1>18 DEF TypeInv, TypeOK, SaveAbandoned, GuardIsPlaced, Go,
           GuardedPcs, SessionPcs
    <2>. QED BY <2>4, <2>5, <2>6 DEF TypeInv
<1>19. ASSUME NEW p \in Launchers, SaveResolving(p)
      PROVE  TypeInv'
    <2>1. pc' \in [Launchers -> Labels]
        BY <1>19 DEF TypeInv, TypeOK, SaveResolving, FinishFailed, Go,
           Labels
    <2>2. local' \in [Launchers -> Locals]
        BY <1>19, FinishFailedType DEF TypeInv, TypeOK, SaveResolving
    <2>3. journal' \in Journals \cup {NoJournal}
        BY <1>19, RecordType DEF TypeInv, TypeOK, SaveResolving, Saved,
           SaveFailed
    <2>4. faults' \in 0 .. MaxFaults
        BY <1>19, SessionAssumption DEF TypeInv, TypeOK, SaveResolving,
           Fault, Saved, SaveFailed
    <2>5. TypeOK'
        BY <1>19, <2>1, <2>2, <2>3, <2>4 DEF TypeInv, TypeOK, SaveResolving
    <2>6. TodoIsSaved'
        BY <1>19, FinishFailedType DEF TypeInv, SaveResolving, TodoIsSaved
    <2>7. GuardIsPlaced'
        BY <1>19 DEF TypeInv, TypeOK, SaveResolving, FinishFailed,
           GuardIsPlaced, Go, GuardedPcs, SessionPcs, Locals
    <2>. QED BY <2>5, <2>6, <2>7 DEF TypeInv
<1>20. ASSUME NEW p \in Launchers, LocateModules(p)
      PROVE  TypeInv'
    <2>1. pc' \in [Launchers -> Labels]
        BY <1>20 DEF TypeInv, TypeOK, LocateModules, Go, Labels
    <2>2. \/ UNCHANGED local
          \/ local' = [local EXCEPT ![p].hasRun = TRUE]
        BY <1>20 DEF LocateModules
    <2>3. local' \in [Launchers -> Locals]
        <3>1. CASE UNCHANGED local
            BY <3>1 DEF TypeInv, TypeOK
        <3>2. CASE local' = [local EXCEPT ![p].hasRun = TRUE]
            BY <3>2, HasRunType DEF TypeInv
        <3>. QED BY <2>2, <3>1, <3>2
    <2>4. TypeOK'
        BY <1>20, <2>1, <2>3 DEF TypeInv, TypeOK, LocateModules
    <2>5. TodoIsSaved'
        BY <1>20, HasRunType DEF TypeInv, LocateModules, TodoIsSaved
    <2>6. GuardIsPlaced'
        BY <1>20, HasRunType
        DEF TypeInv, TypeOK, LocateModules, GuardIsPlaced, Go, GuardedPcs, SessionPcs
    <2>. QED BY <2>4, <2>5, <2>6 DEF TypeInv
<1>21. ASSUME NEW p \in Launchers, ResumeLoader(p)
      PROVE  TypeInv'
    BY <1>21, ResumeGameType, ResumeFailsType DEF ResumeLoader
<1>22. ASSUME NEW p \in Launchers, WaitForModules(p)
      PROVE  TypeInv'
    <2>1. pc' \in [Launchers -> Labels]
        BY <1>22 DEF TypeInv, TypeOK, WaitForModules, FinishFailed, Go,
           Labels
    <2>2. local' \in [Launchers -> Locals]
        BY <1>22, FinishFailedType DEF TypeInv, TypeOK, WaitForModules
    <2>3. faults' \in 0 .. MaxFaults
        BY <1>22, SessionAssumption DEF TypeInv, TypeOK, WaitForModules,
           Fault
    <2>4. TypeOK'
        BY <1>22, <2>1, <2>2, <2>3 DEF TypeInv, TypeOK, WaitForModules
    <2>5. TodoIsSaved'
        BY <1>22, FinishFailedType DEF TypeInv, WaitForModules, TodoIsSaved
    <2>6. GuardIsPlaced'
        BY <1>22 DEF TypeInv, TypeOK, WaitForModules, FinishFailed,
           GuardIsPlaced, Go, GuardedPcs, SessionPcs, Locals
    <2>. QED BY <2>4, <2>5, <2>6 DEF TypeInv
<1>23. ASSUME NEW p \in Launchers, SuspendLoader(p)
      PROVE  TypeInv'
    <2>1. pc' \in [Launchers -> Labels]
        BY <1>23 DEF TypeInv, TypeOK, SuspendLoader, FinishFailed, Go,
           Labels
    <2>2. local' \in [Launchers -> Locals]
        BY <1>23, FinishFailedType DEF TypeInv, TypeOK, SuspendLoader
    <2>3. faults' \in 0 .. MaxFaults
        BY <1>23, SessionAssumption DEF TypeInv, TypeOK, SuspendLoader,
           Fault
    <2>4. game' \in [Pids -> ProcessStates]
        BY <1>23 DEF TypeInv, TypeOK, SuspendLoader, ProcessStates
    <2>5. TypeOK'
        BY <1>23, <2>1, <2>2, <2>3, <2>4 DEF TypeInv, TypeOK, SuspendLoader
    <2>6. TodoIsSaved'
        BY <1>23, FinishFailedType DEF TypeInv, SuspendLoader, TodoIsSaved
    <2>7. GuardIsPlaced'
        BY <1>23 DEF TypeInv, TypeOK, SuspendLoader, FinishFailed,
           GuardIsPlaced, Go, GuardedPcs, SessionPcs, Locals
    <2>. QED BY <2>5, <2>6, <2>7 DEF TypeInv
<1>24. ASSUME NEW p \in Launchers, Resolve(p)
      PROVE  TypeInv'
    <2>1. pc' \in [Launchers -> Labels]
        BY <1>24 DEF TypeInv, TypeOK, Resolve, FinishFailed, Go, Labels
    <2>2. local' \in [Launchers -> Locals]
        BY <1>24, FinishFailedType DEF TypeInv, TypeOK, Resolve
    <2>3. faults' \in 0 .. MaxFaults
        BY <1>24, SessionAssumption DEF TypeInv, TypeOK, Resolve, Fault
    <2>4. TypeOK'
        BY <1>24, <2>1, <2>2, <2>3 DEF TypeInv, TypeOK, Resolve
    <2>5. TodoIsSaved'
        BY <1>24, FinishFailedType DEF TypeInv, Resolve, TodoIsSaved
    <2>6. GuardIsPlaced'
        BY <1>24 DEF TypeInv, TypeOK, Resolve, FinishFailed, GuardIsPlaced,
           Go, GuardedPcs, SessionPcs, Locals
    <2>. QED BY <2>4, <2>5, <2>6 DEF TypeInv
<1>25. ASSUME NEW p \in Launchers, SavePatching(p)
      PROVE  TypeInv'
    <2>1. pc' \in [Launchers -> Labels]
        BY <1>25 DEF TypeInv, TypeOK, SavePatching, FinishFailed, Go, Labels
    <2>2. local' \in [Launchers -> Locals]
        BY <1>25, FinishFailedType DEF TypeInv, TypeOK, SavePatching
    <2>3. journal' \in Journals \cup {NoJournal}
        BY <1>25, RecordType DEF TypeInv, TypeOK, SavePatching, Saved,
           SaveFailed
    <2>4. faults' \in 0 .. MaxFaults
        BY <1>25, SessionAssumption DEF TypeInv, TypeOK, SavePatching,
           Fault, Saved, SaveFailed
    <2>5. TypeOK'
        BY <1>25, <2>1, <2>2, <2>3, <2>4 DEF TypeInv, TypeOK, SavePatching
    <2>6. TodoIsSaved'
        BY <1>25, FinishFailedType DEF TypeInv, SavePatching, TodoIsSaved
    <2>7. GuardIsPlaced'
        BY <1>25 DEF TypeInv, TypeOK, SavePatching, FinishFailed,
           GuardIsPlaced, Go, GuardedPcs, SessionPcs, Locals
    <2>. QED BY <2>5, <2>6, <2>7 DEF TypeInv
<1>26. ASSUME NEW p \in Launchers, ApplyPatches(p)
      PROVE  TypeInv'
    <2>1. pc' \in [Launchers -> Labels]
        BY <1>26 DEF TypeInv, TypeOK, ApplyPatches, FinishFailed, Go, Labels
    <2>2. local' \in [Launchers -> Locals]
        BY <1>26, FinishFailedType DEF TypeInv, TypeOK, ApplyPatches
    <2>3. faults' \in 0 .. MaxFaults
        BY <1>26, SessionAssumption DEF TypeInv, TypeOK, ApplyPatches, Fault
    <2>4. TypeOK'
        BY <1>26, <2>1, <2>2, <2>3 DEF TypeInv, TypeOK, ApplyPatches
    <2>5. TodoIsSaved'
        BY <1>26, FinishFailedType DEF TypeInv, ApplyPatches, TodoIsSaved
    <2>6. GuardIsPlaced'
        BY <1>26 DEF TypeInv, TypeOK, ApplyPatches, FinishFailed,
           GuardIsPlaced, Go, GuardedPcs, SessionPcs, Locals
    <2>. QED BY <2>4, <2>5, <2>6 DEF TypeInv
<1>27. ASSUME NEW p \in Launchers, SaveRunning(p)
      PROVE  TypeInv'
    <2>1. pc' \in [Launchers -> Labels]
        BY <1>27 DEF TypeInv, TypeOK, SaveRunning, FinishFailed, Go, Labels
    <2>2. local' \in [Launchers -> Locals]
        BY <1>27, FinishFailedType DEF TypeInv, TypeOK, SaveRunning
    <2>3. journal' \in Journals \cup {NoJournal}
        BY <1>27, RecordType DEF TypeInv, TypeOK, SaveRunning, Saved,
           SaveFailed
    <2>4. faults' \in 0 .. MaxFaults
        BY <1>27, SessionAssumption DEF TypeInv, TypeOK, SaveRunning, Fault,
           Saved, SaveFailed
    <2>5. TypeOK'
        BY <1>27, <2>1, <2>2, <2>3, <2>4 DEF TypeInv, TypeOK, SaveRunning
    <2>6. TodoIsSaved'
        BY <1>27, FinishFailedType DEF TypeInv, SaveRunning, TodoIsSaved
    <2>7. GuardIsPlaced'
        BY <1>27 DEF TypeInv, TypeOK, SaveRunning, FinishFailed,
           GuardIsPlaced, Go, GuardedPcs, SessionPcs, Locals
    <2>. QED BY <2>5, <2>6, <2>7 DEF TypeInv
<1>28. ASSUME NEW p \in Launchers, Resume(p)
      PROVE  TypeInv'
    BY <1>28, ResumeGameType, ResumeFailsType DEF Resume
<1>29. ASSUME NEW p \in Launchers, StartGuard(p)
      PROVE  TypeInv'
    <2>1. CASE FinishFailed(p, "startGuard") /\ UNCHANGED guard /\ Fault("guard")
        <3>1. pc' \in [Launchers -> Labels]
            BY <2>1 DEF TypeInv, TypeOK, FinishFailed, Go, Labels
        <3>2. local' \in [Launchers -> Locals]
            BY <2>1, FinishFailedType DEF TypeInv
        <3>3. TypeOK'
            BY <1>29, <2>1, <3>1, <3>2, SessionAssumption
            DEF TypeInv, TypeOK, StartGuard, Fault
        <3>4. TodoIsSaved'
            BY <2>1, FinishFailedType DEF TypeInv, TodoIsSaved
        <3>5. GuardIsPlaced'
            BY <2>1
            DEF TypeInv, TypeOK, GuardIsPlaced, FinishFailed, Go, GuardedPcs, SessionPcs, Locals
        <3>. QED BY <3>3, <3>4, <3>5 DEF TypeInv
    <2>2. CASE /\ Go(p, "startGuard", "startRuntime")
               /\ UNCHANGED <<local, faults>>
               /\ guard' = guard \/ guard' = [guard EXCEPT ![p].on = TRUE]
        <3>1. pc' \in [Launchers -> Labels]
            BY <2>2 DEF TypeInv, TypeOK, Go, Labels
        <3>2. guard' \in [Launchers -> Guards]
            <4>1. CASE guard' = guard
                BY <4>1 DEF TypeInv, TypeOK
            <4>2. CASE guard' = [guard EXCEPT ![p].on = TRUE]
                BY <4>2 DEF TypeInv, TypeOK, Guards
            <4>. QED BY <2>2, <4>1, <4>2
        <3>3. TypeOK'
            BY <1>29, <2>2, <3>1, <3>2 DEF TypeInv, TypeOK, StartGuard
        <3>4. \A q \in Launchers :
                  guard'[q].todo = guard[q].todo /\ (q # p => guard'[q].on = guard[q].on)
            <4>1. CASE guard' = guard
                BY <4>1
            <4>2. CASE guard' = [guard EXCEPT ![p].on = TRUE]
                BY <4>2 DEF TypeInv, TypeOK, Guards
            <4>. QED BY <2>2, <4>1, <4>2
        <3>5. TodoIsSaved'
            BY <2>2, <3>4 DEF TypeInv, TodoIsSaved
        <3>6. GuardIsPlaced'
            BY <2>2, <3>4
            DEF TypeInv, TypeOK, GuardIsPlaced, Go, GuardedPcs, SessionPcs
        <3>. QED BY <3>3, <3>5, <3>6 DEF TypeInv
    <2>. QED BY <1>29, <2>1, <2>2 DEF StartGuard
<1>30. ASSUME NEW p \in Launchers, StartRuntime(p)
      PROVE  TypeInv'
    <2>1. pc' \in [Launchers -> Labels]
        BY <1>30 DEF TypeInv, TypeOK, StartRuntime, FinishFailed, Go, Labels
    <2>2. local' \in [Launchers -> Locals]
        BY <1>30, FinishFailedType DEF TypeInv, TypeOK, StartRuntime
    <2>3. faults' \in 0 .. MaxFaults
        BY <1>30, SessionAssumption DEF TypeInv, TypeOK, StartRuntime, Fault
    <2>4. TypeOK'
        BY <1>30, <2>1, <2>2, <2>3 DEF TypeInv, TypeOK, StartRuntime
    <2>5. TodoIsSaved'
        BY <1>30, FinishFailedType DEF TypeInv, StartRuntime, TodoIsSaved
    <2>6. GuardIsPlaced'
        BY <1>30 DEF TypeInv, TypeOK, StartRuntime, FinishFailed,
           GuardIsPlaced, Go, GuardedPcs, SessionPcs, Locals
    <2>. QED BY <2>4, <2>5, <2>6 DEF TypeInv
<1>31. ASSUME NEW p \in Launchers, AwaitExit(p)
      PROVE  TypeInv'
    <2>1. pc' \in [Launchers -> Labels]
        BY <1>31 DEF TypeInv, TypeOK, AwaitExit, FinishFailed, Go, Labels
    <2>2. local' \in [Launchers -> Locals]
        BY <1>31, FinishFailedType DEF TypeInv, TypeOK, AwaitExit
    <2>3. faults' \in 0 .. MaxFaults
        BY <1>31, SessionAssumption DEF TypeInv, TypeOK, AwaitExit, Fault
    <2>4. TypeOK'
        BY <1>31, <2>1, <2>2, <2>3 DEF TypeInv, TypeOK, AwaitExit
    <2>5. TodoIsSaved'
        BY <1>31, FinishFailedType DEF TypeInv, AwaitExit, TodoIsSaved
    <2>6. GuardIsPlaced'
        BY <1>31 DEF TypeInv, TypeOK, AwaitExit, FinishFailed,
           GuardIsPlaced, Go, GuardedPcs, SessionPcs, Locals
    <2>. QED BY <2>4, <2>5, <2>6 DEF TypeInv
<1>32. ASSUME NEW p \in Launchers, StopGuard(p)
      PROVE  TypeInv'
    <2>1. pc' \in [Launchers -> Labels]
        BY <1>32 DEF TypeInv, TypeOK, StopGuard, Go, Labels
    <2>2. local' \in [Launchers -> Locals]
        BY <1>32, ToRestoreIsSaved DEF TypeInv, TypeOK, StopGuard, Locals,
           Paths
    <2>3. guard' \in [Launchers -> Guards]
        BY <1>32, FreshType DEF TypeInv, TypeOK, StopGuard, Guards
    <2>4. TypeOK'
        BY <1>32, <2>1, <2>2, <2>3 DEF TypeInv, TypeOK, StopGuard
    <2>5. TodoIsSaved'
        BY <1>32, ToRestoreIsSaved DEF TypeInv, TypeOK, StopGuard,
           TodoIsSaved, Locals, Guards, GuardOff
    <2>6. GuardIsPlaced'
        BY <1>32 DEF TypeInv, TypeOK, StopGuard, GuardIsPlaced, Go,
           GuardedPcs, SessionPcs, Locals, GuardOff, Guards
    <2>. QED BY <2>4, <2>5, <2>6 DEF TypeInv
<1>33. ASSUME NEW p \in Launchers, Terminate(p)
      PROVE  TypeInv'
    <2>1. PICK failed, died \in BOOLEAN :
              local' = [local EXCEPT ![p] =
                          [@ EXCEPT !.gameDead = died, !.cleanupFailed = failed]]
        BY <1>33, Zenon DEF Terminate
    <2> DEFINE x == [local[p] EXCEPT !.gameDead = died, !.cleanupFailed = failed]
    <2>2. x \in Locals /\ x.snap = local[p].snap /\ x.path = local[p].path
              /\ x.todo = local[p].todo
        BY DEF TypeInv, TypeOK, Locals
    <2>3. local' = [local EXCEPT ![p] = x]
        BY <2>1
    <2>4. pc' \in [Launchers -> Labels]
        BY <1>33 DEF TypeInv, TypeOK, Terminate, Go, Labels
    <2>5. game' \in [Pids -> ProcessStates]
        BY <1>33 DEF TypeInv, TypeOK, Terminate, ProcessStates
    <2>6. faults' \in 0 .. MaxFaults
        BY <1>33, SessionAssumption DEF TypeInv, TypeOK, Terminate, Fault
    <2> HIDE DEF x
    <2>7. TypeOK'
        BY <1>33, <2>2, <2>3, <2>4, <2>5, <2>6 DEF TypeInv, TypeOK, Terminate
    <2>8. TodoIsSaved'
        BY <1>33, <2>2, <2>3 DEF TypeInv, TypeOK, TodoIsSaved, Terminate
    <2>9. GuardIsPlaced'
        BY <1>33, <2>2, <2>3
        DEF TypeInv, TypeOK, Terminate, GuardIsPlaced, Go, GuardedPcs, SessionPcs
    <2>. QED BY <2>7, <2>8, <2>9 DEF TypeInv
<1>34. ASSUME NEW p \in Launchers, SaveFailedStage(p)
      PROVE  TypeInv'
    <2>1. PICK failed \in {TRUE, local[p].cleanupFailed} :
              local' = [local EXCEPT ![p] =
                          [@ EXCEPT !.cleanupFailed = failed,
                                    !.todo = ToRestore(local[p].snap, registry)]]
        BY <1>34 DEF SaveFailedStage
    <2> DEFINE x == [local[p] EXCEPT !.cleanupFailed = failed,
                                     !.todo = ToRestore(local[p].snap, registry)]
    <2>2. x \in Locals /\ x.snap = local[p].snap /\ x.path = local[p].path
              /\ x.todo = ToRestore(local[p].snap, registry) /\ local[p].snap \in Snapshots
        <3>1. local[p] \in Locals /\ local[p].snap \in Snapshots
            BY DEF TypeInv, TypeOK, Locals
        <3>2. ToRestore(local[p].snap, registry) \in SUBSET Settings
            BY <3>1, ToRestoreIsSaved
        <3>. QED BY <3>1, <3>2 DEF Locals
    <2>3. local' = [local EXCEPT ![p] = x]
        BY <2>1
    <2>4. pc' \in [Launchers -> Labels]
        BY <1>34 DEF TypeInv, TypeOK, SaveFailedStage, Go, Labels
    <2>5. journal' \in Journals \cup {NoJournal}
        BY <1>34, RecordType DEF TypeInv, TypeOK, SaveFailedStage, Saved, SaveFailed
    <2>6. faults' \in 0 .. MaxFaults
        BY <1>34, SessionAssumption
        DEF TypeInv, TypeOK, SaveFailedStage, Saved, SaveFailed, Fault
    <2> HIDE DEF x
    <2>7. TypeOK'
        BY <1>34, <2>2, <2>3, <2>4, <2>5, <2>6 DEF TypeInv, TypeOK, SaveFailedStage
    <2>8. TodoIsSaved'
        BY <1>34, <2>2, <2>3, ToRestoreIsSaved
        DEF TypeInv, TypeOK, TodoIsSaved, SaveFailedStage
    <2>9. GuardIsPlaced'
        BY <1>34, <2>2, <2>3
        DEF TypeInv, TypeOK, SaveFailedStage, GuardIsPlaced, Go, GuardedPcs, SessionPcs
    <2>. QED BY <2>7, <2>8, <2>9 DEF TypeInv
<1>35. ASSUME NEW p \in Launchers, Leave(p)
      PROVE  TypeInv'
    <2>1. pc' \in [Launchers -> Labels]
        BY <1>35 DEF TypeInv, TypeOK, Leave, Go, Labels
    <2>2. local' \in [Launchers -> Locals]
        BY <1>35, FreshType DEF TypeInv, TypeOK, Leave, Locals, Paths
    <2>3. guard' \in [Launchers -> Guards]
        BY <1>35, FreshType DEF TypeInv, TypeOK, Leave, Guards
    <2>4. TypeOK'
        BY <1>35, <2>1, <2>2, <2>3 DEF TypeInv, TypeOK, Leave
    <2>5. TodoIsSaved'
        BY <1>35 DEF TypeInv, TypeOK, Leave, TodoIsSaved, Locals, Fresh,
           GuardOff, Guards
    <2>6. GuardIsPlaced'
        BY <1>35 DEF TypeInv, TypeOK, Leave, GuardIsPlaced, Go, GuardedPcs,
           SessionPcs, Locals, Fresh, GuardOff, Guards
    <2>. QED BY <2>4, <2>5, <2>6 DEF TypeInv
<1>36. ASSUME NEW p \in Launchers, NEW r \in Roots, GuardWakes(p, r)
      PROVE  TypeInv'
    <2>1. guard' \in [Launchers -> Guards]
        BY <1>36, ToRestoreIsSaved DEF TypeInv, TypeOK, GuardWakes, Guards,
           Locals
    <2>2. TypeOK'
        BY <1>36, <2>1 DEF TypeInv, TypeOK, GuardWakes
    <2>3. TodoIsSaved'
        BY <1>36, ToRestoreIsSaved DEF TypeInv, TypeOK, GuardWakes,
           TodoIsSaved, Locals, Guards
    <2>4. GuardIsPlaced'
        BY <1>36 DEF TypeInv, TypeOK, GuardWakes, GuardIsPlaced, Go,
           GuardedPcs, SessionPcs, GuardOff, Guards
    <2>. QED BY <2>2, <2>3, <2>4 DEF TypeInv
<1>37. ASSUME NEW p \in Launchers, NEW s \in Settings, GuardWrites(p, s)
      PROVE  TypeInv'
    <2>1. guard' \in [Launchers -> Guards]
        BY <1>37 DEF TypeInv, TypeOK, GuardWrites, Guards
    <2>2. registry' \in Contents
        BY <1>37, RestoreWriteType DEF TypeInv, TypeOK, GuardWrites,
           TodoIsSaved, Locals, Guards
    <2>3. TypeOK'
        BY <1>37, <2>1, <2>2 DEF TypeInv, TypeOK, GuardWrites
    <2>4. TodoIsSaved'
        BY <1>37 DEF TypeInv, TypeOK, GuardWrites, TodoIsSaved, Locals,
           Guards
    <2>5. GuardIsPlaced'
        BY <1>37 DEF TypeInv, TypeOK, GuardWrites, GuardIsPlaced, Go,
           GuardedPcs, SessionPcs, GuardOff, Guards
    <2>. QED BY <2>3, <2>4, <2>5 DEF TypeInv
<1>38. ASSUME NEW p \in Launchers, GuardWriteFails(p)
      PROVE  TypeInv'
    <2>1. guard' \in [Launchers -> Guards]
        BY <1>38 DEF TypeInv, TypeOK, GuardWriteFails, Guards
    <2>2. faults' \in 0 .. MaxFaults
        BY <1>38, SessionAssumption DEF TypeInv, TypeOK, GuardWriteFails,
           Fault
    <2>3. TypeOK'
        BY <1>38, <2>1, <2>2 DEF TypeInv, TypeOK, GuardWriteFails
    <2>4. TodoIsSaved'
        BY <1>38 DEF TypeInv, TypeOK, GuardWriteFails, TodoIsSaved, Locals,
           Guards
    <2>5. GuardIsPlaced'
        BY <1>38 DEF TypeInv, TypeOK, GuardWriteFails, GuardIsPlaced, Go,
           GuardedPcs, SessionPcs, GuardOff, Guards
    <2>. QED BY <2>3, <2>4, <2>5 DEF TypeInv
<1>39. ASSUME NEW p \in Launchers, Crash(p)
      PROVE  TypeInv'
    <2>1. pc' \in [Launchers -> Labels]
        BY <1>39 DEF TypeInv, TypeOK, Crash, Go, Labels
    <2>2. local' \in [Launchers -> Locals]
        BY <1>39, FreshType DEF TypeInv, TypeOK, Crash, Locals, Paths
    <2>3. guard' \in [Launchers -> Guards]
        BY <1>39, FreshType DEF TypeInv, TypeOK, Crash, Guards
    <2>4. faults' \in 0 .. MaxFaults
        BY <1>39, SessionAssumption DEF TypeInv, TypeOK, Crash, Fault
    <2>5. TypeOK'
        BY <1>39, <2>1, <2>2, <2>3, <2>4 DEF TypeInv, TypeOK, Crash
    <2>6. TodoIsSaved'
        BY <1>39 DEF TypeInv, TypeOK, Crash, TodoIsSaved, Locals, Fresh,
           GuardOff, Guards
    <2>7. GuardIsPlaced'
        BY <1>39 DEF TypeInv, TypeOK, Crash, GuardIsPlaced, Go, GuardedPcs,
           SessionPcs, Locals, Fresh, GuardOff, Guards
    <2>. QED BY <2>5, <2>6, <2>7 DEF TypeInv
<1>40. ASSUME NEW g \in Pids, Environment(g)
      PROVE  TypeInv'
    <2>1. TypeOK'
        BY <1>40, SessionAssumption
        DEF Environment, GameWrites, GameExits, PidReused, ForeignExits, Fault,
            TypeInv, TypeOK, Contents, ProcessStates
    <2>2. TodoIsSaved' /\ GuardIsPlaced'
        BY <1>40
        DEF Environment, GameWrites, GameExits, PidReused, ForeignExits,
            TypeInv, TodoIsSaved, GuardIsPlaced
    <2>. QED BY <2>1, <2>2 DEF TypeInv
<1>41. CASE UNCHANGED vars
    BY <1>41 DEF vars, TypeInv, TypeOK, TodoIsSaved, GuardIsPlaced
<1>42. ASSUME NEW p \in Launchers, Recovering(p) \/ Restoring(p)
      PROVE  TypeInv'
    BY <1>2, <1>3, <1>4, <1>5, <1>6, <1>7, <1>8, <1>9, <1>10, <1>11, <1>12, <1>42
    DEF Recovering, Restoring
<1>43. ASSUME NEW p \in Launchers, Launching(p)
      PROVE  TypeInv'
    BY <1>13, <1>14, <1>15, <1>16, <1>17, <1>18, <1>19, <1>20, <1>21, <1>22, <1>23,
       <1>24, <1>25, <1>26, <1>27, <1>43
    DEF Launching
<1>44. ASSUME NEW p \in Launchers, Running(p) \/ Finishing(p)
      PROVE  TypeInv'
    BY <1>28, <1>29, <1>30, <1>31, <1>32, <1>33, <1>34, <1>35, <1>44
    DEF Running, Finishing
<1>45. ASSUME NEW p \in Launchers, Guarding(p)
      PROVE  TypeInv'
    BY <1>36, <1>37, <1>38, <1>45 DEF Guarding
<1>. QED
    BY <1>1, <1>39, <1>40, <1>41, <1>42, <1>43, <1>44, <1>45 DEF Next, Engine

(* The engine, its guards and the games never leave the types; in particular *)
(* nothing but a value the registry can hold is ever written back to it.     *)
THEOREM TypeCorrect == Spec => []TypeOK
<1>1. TypeInv => TypeOK
    BY DEF TypeInv
<1>. QED BY <1>1, TypeInit, TypeStep, PTL DEF Spec
=============================================================================
