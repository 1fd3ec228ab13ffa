--------------------------- MODULE StateGuardProofs ---------------------------
(***************************************************************************)
(* No wake-up is lost and nothing happens after stop(), for any roots and    *)
(* settings, any number of writes of the game and of failed calls.           *)
(*                                                                          *)
(* The argument: a root the guard listens to has its notification armed or    *)
(* its event set, or is being armed (Covered); so a watched root that differs *)
(* from the snapshot is signaled, is being served by a step that will still   *)
(* look at it, or is one the guard could not know of (Attended).             *)
(***************************************************************************)
EXTENDS StateGuard, TLAPS

Differ(r) == {s \in Settings : RootOf[s] = r /\ snap[s] # Unsaved /\ registry[s] # snap[s]}

Serving == {"arm", "read", "restore", "write"}

(* Where the worker and the engine thread can be at the same time. *)
Phases ==
    /\ engine = "starting" => worker = "none"
    /\ engine = "stopped" => worker \in {"none", "exited"}
    /\ engine \in {"watching", "joining"} => worker # "none"
    /\ worker \in Serving => root \in Watched
    /\ worker # "write" => todo = {}
    /\ \A s \in todo : RootOf[s] = root /\ snap[s] # Unsaved

Covered ==
    \A r \in listening : r \in armed \/ r \in signaled \/ (worker = "arm" /\ root = r)

Attended(r) ==
    \/ Differ(r) = {}
    \/ r \in missed
    \/ r \in signaled
    \/ root = r /\ worker \in {"arm", "read", "restore"}
    \/ root = r /\ worker = "write" /\ Differ(r) \subseteq todo

AllAttended ==
    engine # "stopped" /\ worker # "exited" => \A r \in Watched : Attended(r)

GuardInv == GuardTypeOK /\ Phases /\ Covered /\ AllAttended

-----------------------------------------------------------------------------
LEMMA GuardInvInit == GuardInit => GuardInv
<1> SUFFICES ASSUME GuardInit
             PROVE  GuardInv
    OBVIOUS
<1>1. GuardTypeOK
    <2>1. snap \in Snapshots
        BY StoreAssumption DEF GuardInit, Snapshot, Snapshots, Contents
    <2>2. writes \in 0 .. MaxWrites /\ faults \in 0 .. MaxFaults
        BY GuardAssumption DEF GuardInit
    <2>. QED BY <2>1, <2>2 DEF GuardInit, GuardTypeOK, EngineStates, WorkerStates
<1>2. Phases /\ Covered
    BY DEF GuardInit, Phases, Covered, Serving
<1>3. \A r \in Watched : Differ(r) = {}
    <2>1. ASSUME NEW s \in Settings, snap[s] # Unsaved
          PROVE  registry[s] = snap[s]
        BY <2>1 DEF GuardInit, Snapshot
    <2>. QED BY <2>1 DEF Differ
<1>. QED BY <1>1, <1>2, <1>3 DEF GuardInv, AllAttended, Attended

LEMMA DifferSame ==
    ASSUME UNCHANGED <<registry, snap>>
    PROVE  Watched' = Watched /\ \A r : Differ(r)' = Differ(r)
BY DEF Watched, Differ

(* start() and stop(). *)
LEMMA ControlSteps ==
    ASSUME GuardInv, Control
    PROVE  GuardInv'
<1>1. GuardTypeOK /\ Phases /\ Covered /\ AllAttended
    BY DEF GuardInv
<1>2. CASE \E r \in Roots : StartWatch(r)
    <2>1. PICK r \in Roots : StartWatch(r)
        BY <1>2
    <2>2. Watched' = Watched /\ \A x : Differ(x)' = Differ(x)
        BY <2>1, DifferSame DEF StartWatch
    <2>3. GuardTypeOK'
        BY <1>1, <2>1, <2>2 DEF GuardTypeOK, StartWatch, control
    <2>4. Phases'
        BY <1>1, <2>1, <2>2 DEF Phases, StartWatch, control
    <2>5. Covered'
        BY <1>1, <2>1 DEF Covered, StartWatch
    <2>6. AllAttended'
        BY <1>1, <2>1, <2>2 DEF AllAttended, Attended, StartWatch, control
    <2>. QED BY <2>3, <2>4, <2>5, <2>6 DEF GuardInv
<1>3. CASE StartFails
    <2>1. Watched' = Watched
        BY <1>3, DifferSame DEF StartFails
    <2>2. GuardTypeOK'
        BY <1>1, <1>3, <2>1, GuardAssumption DEF GuardTypeOK, StartFails, CallFails, EngineStates
    <2>3. Phases'
        BY <1>1, <1>3, <2>1 DEF Phases, StartFails
    <2>4. Covered' /\ AllAttended'
        BY <1>3 DEF Covered, AllAttended, StartFails
    <2>. QED BY <2>2, <2>3, <2>4 DEF GuardInv
<1>4. CASE StartWorker
    <2>1. Watched' = Watched /\ \A x : Differ(x)' = Differ(x)
        BY <1>4, DifferSame DEF StartWorker
    <2>2. GuardTypeOK'
        BY <1>1, <1>4, <2>1 DEF GuardTypeOK, StartWorker, watching, EngineStates, WorkerStates
    <2>3. Phases'
        BY <1>1, <1>4, <2>1 DEF Phases, StartWorker, Serving
    <2>4. Covered'
        BY <1>1, <1>4 DEF Covered, StartWorker, watching, Phases
    <2>5. AllAttended'
        BY <1>1, <1>4, <2>1 DEF AllAttended, Attended, StartWorker, watching, Phases
    <2>. QED BY <2>2, <2>3, <2>4, <2>5 DEF GuardInv
<1>5. CASE Stop
    <2>1. Watched' = Watched /\ \A x : Differ(x)' = Differ(x)
        BY <1>5, DifferSame DEF Stop
    <2>2. GuardTypeOK'
        BY <1>1, <1>5, <2>1 DEF GuardTypeOK, Stop, watching, EngineStates
    <2>3. Phases'
        BY <1>1, <1>5, <2>1 DEF Phases, Stop
    <2>4. Covered'
        BY <1>1, <1>5 DEF Covered, Stop, watching
    <2>5. AllAttended'
        BY <1>1, <1>5, <2>1 DEF AllAttended, Attended, Stop, watching
    <2>. QED BY <2>2, <2>3, <2>4, <2>5 DEF GuardInv
<1>6. CASE Joined
    <2>1. Watched' = Watched
        BY <1>6, DifferSame DEF Joined
    <2>2. GuardTypeOK'
        BY <1>1, <1>6, <2>1 DEF GuardTypeOK, Joined, EngineStates
    <2>3. Phases'
        BY <1>1, <1>6, <2>1 DEF Phases, Joined
    <2>4. Covered' /\ AllAttended'
        BY <1>6 DEF Covered, AllAttended, Joined
    <2>. QED BY <2>2, <2>3, <2>4 DEF GuardInv
<1>. QED BY <1>2, <1>3, <1>4, <1>5, <1>6 DEF Control

(* The worker waits, wakes and leaves. *)
LEMMA WaitSteps ==
    ASSUME GuardInv, CheckRunning \/ WakeToStop \/ (\E r \in Roots : WakeFor(r)) \/ WaitFails
    PROVE  GuardInv'
<1>1. GuardTypeOK /\ Phases /\ Covered /\ AllAttended
    BY DEF GuardInv
<1>2. Watched' = Watched /\ \A x : Differ(x)' = Differ(x)
    BY DifferSame DEF CheckRunning, WakeToStop, WakeFor, WaitFails
<1>3. Watched \subseteq Roots
    BY DEF Watched
<1>4. CASE CheckRunning
    <2>1. GuardTypeOK'
        BY <1>1, <1>2, <1>4 DEF GuardTypeOK, CheckRunning, watching, control, WorkerStates
    <2>2. Phases'
        BY <1>1, <1>2, <1>4 DEF Phases, CheckRunning, control, Serving
    <2>3. Covered'
        BY <1>1, <1>4 DEF Covered, CheckRunning, watching
    <2>4. AllAttended'
        BY <1>1, <1>2, <1>4 DEF AllAttended, Attended, CheckRunning, watching, control
    <2>. QED BY <2>1, <2>2, <2>3, <2>4 DEF GuardInv
<1>5. CASE WakeToStop
    <2>1. GuardTypeOK'
        BY <1>1, <1>2, <1>5 DEF GuardTypeOK, WakeToStop, watching, WorkerStates
    <2>2. Phases'
        BY <1>1, <1>2, <1>5 DEF Phases, WakeToStop, Serving
    <2>3. Covered' /\ AllAttended'
        BY <1>1, <1>5 DEF Covered, AllAttended, WakeToStop, watching
    <2>. QED BY <2>1, <2>2, <2>3 DEF GuardInv
<1>6. CASE WaitFails
    <2>1. GuardTypeOK'
        BY <1>1, <1>2, <1>3, <1>6, GuardAssumption DEF GuardTypeOK, WaitFails, CallFails, control, WorkerStates
    <2>2. Phases'
        BY <1>1, <1>2, <1>6 DEF Phases, WaitFails, control, Serving
    <2>3. Covered' /\ AllAttended'
        BY <1>6 DEF Covered, AllAttended, WaitFails
    <2>. QED BY <2>1, <2>2, <2>3 DEF GuardInv
<1>7. CASE \E r \in Roots : WakeFor(r)
    <2>1. PICK r \in Roots : WakeFor(r)
        BY <1>7
    <2>2. r \in Watched
        BY <1>1, <2>1 DEF GuardTypeOK, WakeFor
    <2>3. GuardTypeOK'
        BY <1>1, <1>2, <2>1 DEF GuardTypeOK, WakeFor, control, WorkerStates
    <2>4. Phases'
        BY <1>1, <1>2, <2>1, <2>2 DEF Phases, WakeFor, control, Serving
    <2>5. Covered'
        BY <1>1, <2>1 DEF Covered, WakeFor
    <2>6. AllAttended'
        BY <1>1, <1>2, <2>1 DEF AllAttended, Attended, WakeFor, control
    <2>. QED BY <2>3, <2>4, <2>5, <2>6 DEF GuardInv
<1>. QED BY <1>4, <1>5, <1>6, <1>7

(* The worker arms, reads and compares. *)
LEMMA ServeSteps ==
    ASSUME GuardInv, Rearm \/ Read \/ BeginRestore
    PROVE  GuardInv'
<1>1. GuardTypeOK /\ Phases /\ Covered /\ AllAttended
    BY DEF GuardInv
<1>2. Watched' = Watched /\ \A x : Differ(x)' = Differ(x)
    BY DifferSame DEF Rearm, Read, BeginRestore
<1>3. root \in Watched
    BY <1>1 DEF Phases, Serving, Rearm, Read, BeginRestore
<1>4. Watched \subseteq Roots
    BY DEF Watched
<1>5. CASE Rearm
    <2>1. GuardTypeOK'
        BY <1>1, <1>2, <1>3, <1>5, GuardAssumption DEF GuardTypeOK, Rearm, CallFails, control, WorkerStates
    <2>2. Phases'
        BY <1>1, <1>2, <1>5 DEF Phases, Rearm, control, Serving
    <2>3. Covered'
        BY <1>1, <1>5 DEF Covered, Rearm
    <2>4. AllAttended'
        BY <1>1, <1>2, <1>5 DEF AllAttended, Attended, Rearm, control
    <2>. QED BY <2>1, <2>2, <2>3, <2>4 DEF GuardInv
<1>6. CASE Read
    <2>1. GuardTypeOK'
        BY <1>1, <1>2, <1>3, <1>4, <1>6, GuardAssumption DEF GuardTypeOK, Read, Forget, CallFails, watching, control, WorkerStates
    <2>2. Phases'
        BY <1>1, <1>2, <1>3, <1>6 DEF Phases, Read, control, Serving
    <2>3. Covered'
        BY <1>1, <1>6 DEF Covered, Read, watching
    <2>4. Matches(root) => Differ(root) = {}
        BY DEF Matches, Differ
    <2>5. AllAttended'
        BY <1>1, <1>2, <1>6, <2>4 DEF AllAttended, Attended, Read, Forget, watching, control
    <2>. QED BY <2>1, <2>2, <2>3, <2>5 DEF GuardInv
<1>7. CASE BeginRestore
    <2>1. GuardTypeOK'
        <3>1. todo' \subseteq Settings
            BY <1>7 DEF BeginRestore, ToRestore
        <3>. QED BY <1>1, <1>2, <1>7, <3>1 DEF GuardTypeOK, BeginRestore, watching, control, WorkerStates
    <2>2. Phases'
        BY <1>1, <1>2, <1>3, <1>7 DEF Phases, BeginRestore, ToRestore, control, Serving
    <2>3. Covered'
        BY <1>1, <1>7 DEF Covered, BeginRestore, watching
    <2>4. Differ(root) \subseteq todo'
        BY <1>7 DEF Differ, BeginRestore, ToRestore
    <2>5. AllAttended'
        BY <1>1, <1>2, <1>7, <2>4 DEF AllAttended, Attended, BeginRestore, watching, control
    <2>. QED BY <2>1, <2>2, <2>3, <2>5 DEF GuardInv
<1>. QED BY <1>5, <1>6, <1>7

(* The worker restores: each write notifies the guard itself. *)
LEMMA RestoreSteps ==
    ASSUME GuardInv, (\E s \in Settings : WriteSetting(s)) \/ RestoreDone \/ RestoreFails
    PROVE  GuardInv'
<1>1. GuardTypeOK /\ Phases /\ Covered /\ AllAttended
    BY DEF GuardInv
<1>2. root \in Watched /\ Watched \subseteq Roots
    BY <1>1 DEF Phases, Serving, WriteSetting, RestoreDone, RestoreFails, Watched
<1>3. CASE \E s \in Settings : WriteSetting(s)
    <2>1. PICK s \in Settings : WriteSetting(s)
        BY <1>3
    <2>2. /\ worker = "write" /\ worker' = "write" /\ s \in todo /\ todo' = todo \ {s}
          /\ registry' = [registry EXCEPT ![s] = snap[s]]
          /\ signaled' = (IF root \in armed THEN signaled \cup {root} ELSE signaled)
          /\ armed' = armed \ {root}
          /\ UNCHANGED <<snap, listening, stopEvent, running, engine, root, writes, faults, missed>>
        BY <2>1 DEF WriteSetting, Notify, control
    <2>3. RootOf[s] = root /\ snap[s] # Unsaved
        BY <1>1, <2>2 DEF Phases
    <2>4. Watched' = Watched
        BY <2>2 DEF Watched
    <2>5. snap[s] \in Data \cup {Absent}
        BY <1>1, <2>3 DEF GuardTypeOK, Snapshots
    <2>6. \A r : Differ(r)' = Differ(r) \ {s}
        BY <1>1, <2>2 DEF Differ, GuardTypeOK, Contents
    <2>7. \A r : r # root => Differ(r)' = Differ(r)
        BY <2>3, <2>6 DEF Differ
    <2>8. GuardTypeOK'
        <3>1. registry' \in Contents
            BY <1>1, <2>2, <2>5 DEF GuardTypeOK, Contents
        <3>. QED BY <1>1, <1>2, <2>2, <2>4, <3>1 DEF GuardTypeOK
    <2>9. Phases'
        BY <1>1, <2>2, <2>4 DEF Phases
    <2>10. Covered'
        BY <1>1, <2>2 DEF Covered
    <2>11. AllAttended'
        BY <1>1, <2>2, <2>4, <2>6, <2>7 DEF AllAttended, Attended
    <2>. QED BY <2>8, <2>9, <2>10, <2>11 DEF GuardInv
<1>4. CASE RestoreDone
    <2>1. Watched' = Watched /\ \A x : Differ(x)' = Differ(x)
        BY <1>4, DifferSame DEF RestoreDone
    <2>2. GuardTypeOK'
        BY <1>1, <1>4, <2>1 DEF GuardTypeOK, RestoreDone, watching, control, WorkerStates
    <2>3. Phases'
        BY <1>1, <1>4, <2>1 DEF Phases, RestoreDone, control, Serving
    <2>4. Covered'
        BY <1>1, <1>4 DEF Covered, RestoreDone, watching
    <2>5. AllAttended'
        BY <1>1, <1>4, <2>1 DEF AllAttended, Attended, RestoreDone, watching, control
    <2>. QED BY <2>2, <2>3, <2>4, <2>5 DEF GuardInv
<1>5. CASE RestoreFails
    <2>1. Watched' = Watched /\ \A x : Differ(x)' = Differ(x)
        BY <1>5, DifferSame DEF RestoreFails
    <2>2. GuardTypeOK'
        BY <1>1, <1>2, <1>5, <2>1, GuardAssumption DEF GuardTypeOK, RestoreFails, Forget, CallFails, watching, control, WorkerStates
    <2>3. Phases'
        BY <1>1, <1>5, <2>1 DEF Phases, RestoreFails, control, Serving
    <2>4. Covered'
        BY <1>1, <1>5 DEF Covered, RestoreFails, watching
    <2>5. AllAttended'
        BY <1>1, <1>5, <2>1 DEF AllAttended, Attended, RestoreFails, Forget, watching, control
    <2>. QED BY <2>2, <2>3, <2>4, <2>5 DEF GuardInv
<1>. QED BY <1>3, <1>4, <1>5

(* The game changes a setting, whoever is or is not listening. *)
LEMMA GameWritesStep ==
    ASSUME GuardInv, NEW s \in Settings, NEW d \in Data, GameWrites(s, d)
    PROVE  GuardInv'
<1>1. GuardTypeOK /\ Phases /\ Covered /\ AllAttended
    BY DEF GuardInv
<1> DEFINE w == RootOf[s]
<1>2. w \in Roots
    BY StoreAssumption
<1>3. /\ registry' = [registry EXCEPT ![s] = d]
      /\ signaled' = (IF w \in armed THEN signaled \cup {w} ELSE signaled)
      /\ armed' = armed \ {w}
      /\ missed' = (IF w \in listening THEN missed \ {w} ELSE missed \cup {w})
      /\ writes' = writes + 1 /\ writes < MaxWrites
      /\ UNCHANGED <<snap, listening, stopEvent, running, engine, worker, root, todo, faults>>
    BY DEF GameWrites, Notify, control
<1>4. Watched' = Watched
    BY <1>3 DEF Watched
<1>5. \A r : r # w => Differ(r)' = Differ(r)
    BY <1>1, <1>3 DEF Differ, GuardTypeOK, Contents
<1> HIDE DEF w
<1>6. GuardTypeOK'
    <2>1. registry' \in Contents
        BY <1>1, <1>3 DEF GuardTypeOK, Contents
    <2>2. writes' \in 0 .. MaxWrites
        BY <1>1, <1>3, GuardAssumption DEF GuardTypeOK
    <2>. QED BY <1>1, <1>2, <1>3, <1>4, <2>1, <2>2 DEF GuardTypeOK
<1>7. Phases'
    BY <1>1, <1>3, <1>4 DEF Phases
<1>8. Covered'
    BY <1>1, <1>3 DEF Covered
<1>9. AllAttended'
    <2> SUFFICES ASSUME engine # "stopped", worker # "exited", NEW r \in Watched
                 PROVE  Attended(r)'
        BY <1>3, <1>4 DEF AllAttended
    <2>1. Attended(r)
        BY <1>1 DEF AllAttended
    <2>2. CASE r # w
        BY <1>3, <1>5, <2>1, <2>2 DEF Attended
    <2>3. CASE r = w /\ w \notin listening
        BY <1>3, <2>3 DEF Attended
    <2>4. CASE r = w /\ w \in listening
        BY <1>1, <1>3, <2>4 DEF Attended, Covered
    <2>. QED BY <2>2, <2>3, <2>4
<1>. QED BY <1>6, <1>7, <1>8, <1>9 DEF GuardInv

-----------------------------------------------------------------------------
LEMMA GuardInvStep == GuardInv /\ [GuardNext]_guardVars => GuardInv'
<1> SUFFICES ASSUME GuardInv, [GuardNext]_guardVars
             PROVE  GuardInv'
    OBVIOUS
<1>1. CASE Work
    BY <1>1, WaitSteps, ServeSteps, RestoreSteps DEF Work
<1>2. CASE Control
    BY <1>2, ControlSteps
<1>3. CASE \E s \in Settings, d \in Data : GameWrites(s, d)
    BY <1>3, GameWritesStep
<1>4. CASE UNCHANGED guardVars
    <2>1. Watched' = Watched /\ \A x : Differ(x)' = Differ(x)
        BY <1>4, DifferSame DEF guardVars
    <2>2. GuardTypeOK'
        BY <1>4, <2>1 DEF GuardInv, GuardTypeOK, guardVars
    <2>3. Phases'
        BY <1>4, <2>1 DEF GuardInv, Phases, guardVars
    <2>4. Covered'
        BY <1>4 DEF GuardInv, Covered, guardVars
    <2>5. AllAttended'
        BY <1>4, <2>1 DEF GuardInv, AllAttended, Attended, guardVars
    <2>. QED BY <2>2, <2>3, <2>4, <2>5 DEF GuardInv
<1>. QED BY <1>1, <1>2, <1>3, <1>4 DEF GuardNext

LEMMA GuardInvariance == GuardSpec => []GuardInv
BY GuardInvInit, GuardInvStep, PTL DEF GuardSpec

(* The guard's state stays well typed: only roots with a snapshot are watched *)
(* and only saved values are written.                                        *)
THEOREM GuardTypeCorrect == GuardSpec => []GuardTypeOK
<1>1. GuardInv => GuardTypeOK
    BY DEF GuardInv
<1>. QED BY <1>1, GuardInvariance, PTL

(* watch_loop re-arms before it reads, so when it sleeps with no event set    *)
(* every watched root is as in the snapshot, but for changes the guard could  *)
(* not know of and those a failed call of its own dropped.                    *)
THEOREM NoWakeIsLost == GuardSpec => []NoLostWake
<1>1. GuardInv => NoLostWake
    <2> SUFFICES ASSUME GuardInv, worker = "wait", signaled = {}, NEW r \in Watched
                 PROVE  Matches(r) \/ r \in missed
        BY DEF NoLostWake
    <2>1. engine # "stopped"
        BY DEF GuardInv, Phases
    <2>2. Attended(r)
        BY <2>1 DEF GuardInv, AllAttended
    <2>3. Differ(r) = {} => Matches(r)
        BY DEF Differ, Matches
    <2>. QED BY <2>2, <2>3 DEF Attended
<1>. QED BY <1>1, GuardInvariance, PTL

(* stop() joins the worker, and a failed start() never had one: the engine's  *)
(* restore and verification have the settings to themselves.                  *)
THEOREM StopIsFinal == GuardSpec => QuietAfterStop
<1>1. GuardInv /\ [GuardNext]_guardVars =>
          [engine = "stopped" => UNCHANGED <<worker, todo>>]_guardVars
    <2> SUFFICES ASSUME GuardInv, [GuardNext]_guardVars, engine = "stopped"
                 PROVE  UNCHANGED <<worker, todo>>
        OBVIOUS
    <2>1. worker \in {"none", "exited"}
        BY DEF GuardInv, Phases
    <2>2. CASE Work
        BY <2>1, <2>2 DEF Work, CheckRunning, WakeToStop, WakeFor, WaitFails, Rearm, Read,
                          BeginRestore, WriteSetting, RestoreDone, RestoreFails
    <2>3. CASE Control
        BY <2>3 DEF Control, StartWatch, StartFails, StartWorker, Stop, Joined
    <2>4. CASE \E s \in Settings, d \in Data : GameWrites(s, d)
        BY <2>4 DEF GameWrites
    <2>5. CASE UNCHANGED guardVars
        BY <2>5 DEF guardVars
    <2>. QED BY <2>2, <2>3, <2>4, <2>5 DEF GuardNext
<1>. QED BY <1>1, GuardInvariance, PTL DEF GuardSpec, QuietAfterStop

-----------------------------------------------------------------------------
(* The guard in detail does what SnapBack says, and its operators are the     *)
(* guard's own.                                                               *)
LEMMA SameEffect ==
    /\ Effect!Contents = Contents
    /\ Effect!Snapshot(registry) = Snapshot(registry)
    /\ Effect!ToRestore(snap, registry) = ToRestore(snap, registry)
BY DEF Effect!Contents, Contents, Effect!Snapshot, Snapshot, Effect!Stored, Stored,
       Effect!ToRestore, ToRestore

(* A step that is none of SnapBack's leaves all it speaks of alone.           *)
LEMMA NoEffect ==
    ASSUME UNCHANGED <<registry, snap, todo, writes>>,
           engine' \in {"watching", "joining"} <=> engine \in {"watching", "joining"}
    PROVE  UNCHANGED Effect!snapBackVars
BY DEF Effect!snapBackVars

LEMMA WorkEffect ==
    ASSUME GuardInv, Work
    PROVE  [Effect!SnapBackNext]_(Effect!snapBackVars)
<1>1. /\ worker \notin {"none", "exited"} => engine \in {"watching", "joining"}
      /\ worker # "write" => todo = {}
      /\ worker \in Serving => root \in Roots
    BY DEF GuardInv, Phases, GuardTypeOK, EngineStates
<1>2. CASE \/ CheckRunning \/ WakeToStop \/ WaitFails \/ Rearm \/ Read \/ RestoreDone
           \/ \E r \in Roots : WakeFor(r)
    <2>1. UNCHANGED <<registry, snap, todo, writes, engine>>
        BY <1>2 DEF CheckRunning, WakeToStop, WaitFails, Rearm, Read, RestoreDone, WakeFor, control
    <2>. QED BY <2>1, NoEffect
<1>3. CASE BeginRestore
    <2>1. Effect!Wake(root)
        BY <1>1, <1>3, SameEffect DEF BeginRestore, Effect!Wake, control
    <2>2. root \in Roots
        BY <1>1, <1>3 DEF BeginRestore, Serving
    <2>. QED BY <2>1, <2>2 DEF Effect!SnapBackNext
<1>4. ASSUME NEW s \in Settings, WriteSetting(s)
      PROVE  Effect!SnapBackNext
    <2>1. Effect!WriteBack(s)
        BY <1>4 DEF WriteSetting, Effect!WriteBack, control
    <2>. QED BY <2>1 DEF Effect!SnapBackNext
<1>5. CASE RestoreFails
    <2>1. todo' = {} /\ UNCHANGED <<registry, snap, writes, engine>>
        BY <1>5 DEF RestoreFails, control
    <2>2. CASE todo = {}
        BY <2>1, <2>2, NoEffect
    <2>3. CASE todo # {}
        <3>1. Effect!GiveUp
            BY <2>1, <2>3 DEF Effect!GiveUp
        <3>. QED BY <3>1 DEF Effect!SnapBackNext
    <2>. QED BY <2>2, <2>3
<1>. QED BY <1>2, <1>3, <1>4, <1>5 DEF Work

LEMMA ControlEffect ==
    ASSUME GuardInv, Control
    PROVE  [Effect!SnapBackNext]_(Effect!snapBackVars)
<1>1. Phases
    BY DEF GuardInv
<1>2. CASE StartFails \/ Stop \/ \E r \in Roots : StartWatch(r)
    <2>1. /\ UNCHANGED <<registry, snap, todo, writes>>
          /\ engine' \in {"watching", "joining"} <=> engine \in {"watching", "joining"}
        BY <1>2 DEF StartFails, Stop, StartWatch, control
    <2>. QED BY <2>1, NoEffect
<1>3. CASE StartWorker
    <2>1. Effect!Start
        BY <1>1, <1>3 DEF StartWorker, Phases, Effect!Start
    <2>. QED BY <2>1 DEF Effect!SnapBackNext
<1>4. CASE Joined
    <2>1. Effect!End
        BY <1>1, <1>4 DEF Joined, Phases, Effect!End
    <2>. QED BY <2>1 DEF Effect!SnapBackNext
<1>. QED BY <1>2, <1>3, <1>4 DEF Control

(* What Session counts on: between start() and the return of stop() the guard *)
(* puts back one root's settings at a time, those restore_registry_prefix_-   *)
(* exact would, and otherwise only the game changes the settings; no join     *)
(* falls into a snap-back, and none follows it.                               *)
THEOREM StateGuardImplementsSnapBack == GuardSpec => ImplementsSnapBack
<1>1. GuardInit => Effect!SnapBackInit
    BY SameEffect DEF GuardInit, Effect!SnapBackInit
<1>2. GuardInv /\ [GuardNext]_guardVars => [Effect!SnapBackNext]_(Effect!snapBackVars)
    <2> SUFFICES ASSUME GuardInv, [GuardNext]_guardVars
                 PROVE  [Effect!SnapBackNext]_(Effect!snapBackVars)
        OBVIOUS
    <2>1. ASSUME NEW s \in Settings, NEW d \in Data, GameWrites(s, d)
          PROVE  Effect!SnapBackNext
        <3>1. Effect!Change(s, d)
            BY <2>1 DEF GameWrites, Effect!Change, control
        <3>. QED BY <3>1 DEF Effect!SnapBackNext
    <2>2. CASE UNCHANGED guardVars
        BY <2>2, NoEffect DEF guardVars
    <2>. QED BY <2>1, <2>2, WorkEffect, ControlEffect DEF GuardNext
<1>. QED BY <1>1, <1>2, GuardInvariance, PTL DEF GuardSpec, ImplementsSnapBack, Effect!SnapBackSpec
=============================================================================
