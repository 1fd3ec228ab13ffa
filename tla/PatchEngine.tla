----------------------------- MODULE PatchEngine -----------------------------
(***************************************************************************)
(* apply_patch_plan and rollback_patch_plan on a suspended game: each        *)
(* operation of a plan reads what it will overwrite, allocates what it        *)
(* needs, writes, and is recorded; a failure undoes the recorded ones. Every  *)
(* remote call can fail, a write also after some or all of it has landed.    *)
(*                                                                          *)
(* src/src/patch/patch_engine.cpp, memory_writer.cpp and remote_state.cpp    *)
(***************************************************************************)
EXTENDS Integers, Sequences

CONSTANTS
    Cells,      \* the pieces of the game's code a plan reads or writes whole
    Bytes,      \* what a cell can hold that is no address of a remote page
    Pages,      \* remote allocations; a cell that reaches into one holds it
    NoPage,     \* address 0
    Anything,   \* expected_original is empty for a cell
    Plans,      \* what build_patch_plan may return
    MaxFaults   \* bound: how many remote calls fail

Contents == Bytes \cup Pages

Kinds == {"write", "redirect", "stub", "invoke", "detour"}

(* window: the cells an operation reads, records and writes; field: those of *)
(* them it changes. A redirect writes the 16 bytes around its displacement.  *)
Operations == [kind : Kinds, window : SUBSET Cells, field : SUBSET Cells,
               data : [Cells -> Bytes], expects : [Cells -> Bytes \cup {Anything}],
               toState : BOOLEAN, stub : Nat]

ASSUME PatchAssumption ==
    /\ Bytes \cap Pages = {}
    /\ NoPage \notin Contents
    /\ Anything \notin Contents
    /\ Plans \subseteq Seq(Operations)
    /\ \A plan \in Plans : \A i \in 1 .. Len(plan) :
          /\ plan[i].field \subseteq plan[i].window
          /\ plan[i].kind \in {"stub", "invoke"} => plan[i].window = {}
          /\ plan[i].toState => plan[i].kind = "redirect"
    /\ MaxFaults \in Nat

VARIABLES
    mem,        \* the cells
    owned,      \* the remote pages that are allocated
    plan,       \* the plan being applied
    next,       \* the operation whose turn it is
    base,       \* runtime.base: the RemoteState page
    done,       \* AppliedPatch::operations
    stubs,      \* AppliedPatch::stubs
    pc,         \* where the engine is
    faults,     \* how many calls have failed
    original,   \* history: the cells before the plan
    landed,     \* history: cells left changed by a write that was reported failed
    leaked      \* history: pages whose release was reported failed

patchVars == <<mem, owned, plan, next, base, done, stubs, pc, faults, original, landed, leaked>>

PatchPcs == {"state", "apply", "applied", "live", "undo", "release", "undone", "failed", "stuck"}

(* saved holds the whole memory; only its window is ever written back. *)
Applied == [window : SUBSET Cells, saved : [Cells -> Contents], page : Pages \cup {NoPage}]

PatchTypeOK ==
    /\ mem \in [Cells -> Contents]
    /\ owned \subseteq Pages
    /\ plan \in Plans
    /\ next \in 1 .. Len(plan) + 1
    /\ base \in Pages \cup {NoPage}
    /\ done \in Seq(Applied) /\ Len(done) < next
    /\ stubs \in Seq(Pages)
    /\ pc \in PatchPcs
    /\ faults \in 0 .. MaxFaults
    /\ original \in [Cells -> Bytes]
    /\ landed \subseteq Cells
    /\ leaked \subseteq Pages

PatchInit ==
    /\ mem \in [Cells -> Bytes]
    /\ original = mem
    /\ owned = {} /\ leaked = {} /\ landed = {}
    /\ plan \in Plans
    /\ next = 1 /\ base = NoPage /\ done = <<>> /\ stubs = <<>>
    /\ pc = "state" /\ faults = 0

-----------------------------------------------------------------------------
Fail(n) == faults + n <= MaxFaults /\ faults' = faults + n

(* VirtualAllocEx finds a page nobody holds. *)
Allocate(b) == b \in Pages \ owned /\ owned' = owned \cup {b}

(* An error path releases the page it has just allocated, best effort: the   *)
(* step meets n failures, and one more when the release fails.               *)
FailedPage(n) ==
    \/ Fail(n) /\ UNCHANGED <<owned, leaked>>
    \/ /\ Fail(n + 1)
       /\ \E b \in Pages : Allocate(b) /\ leaked' = leaked \cup {b}

NeedsState == \E i \in 1 .. Len(plan) : plan[i].toState

(* allocate_remote_state, when an operation targets the RemoteState. *)
PrepareState ==
    /\ pc = "state"
    /\ pc' = "apply"
    /\ IF NeedsState THEN \E b \in Pages : Allocate(b) /\ base' = b
       ELSE UNCHANGED <<owned, base>>
    /\ UNCHANGED <<mem, plan, next, done, stubs, faults, original, landed, leaked>>

(* No page, or its header cannot be written: nothing has been applied. *)
PrepareStateFails ==
    /\ pc = "state" /\ NeedsState
    /\ pc' = "failed"
    /\ FailedPage(1)
    /\ UNCHANGED <<mem, plan, next, base, done, stubs, original, landed>>

-----------------------------------------------------------------------------
(* What op writes into a cell of its field: the jump to its page, the address *)
(* of the RemoteState, or its own bytes.                                      *)
Target(op, page, c) ==
    IF op.kind = "detour" THEN page
    ELSE IF op.toState THEN base
    ELSE op.data[c]

(* Mutant: the window is composed from the game as it was before the plan. *)
WrittenOverOriginal(op, page, cells) ==
    [c \in Cells |-> IF c \notin cells THEN mem[c]
                    ELSE IF c \notin op.field THEN original[c]
                    ELSE Target(op, page, c)]

(* The cells after the write of op has reached those in cells. *)
Written(op, page, cells) ==
    [c \in Cells |-> IF c \in cells \cap op.field THEN Target(op, page, c) ELSE mem[c]]

(* The bytes op was built for, when it names them. *)
Expected(op) ==
    /\ \A c \in op.window : op.expects[c] \in {Anything, mem[c]}
    /\ op.toState => base # NoPage

(* One operation is in place: it is recorded, with the page it owns. *)
Record(op, page) ==
    /\ done' = Append(done, [window |-> op.window, saved |-> mem, page |-> page])
    /\ next' = next + 1

(* It is not, and the write of it has reached some of its cells. *)
GiveUp(op, page, reached) ==
    /\ pc' = "undo"
    /\ mem' = Written(op, page, reached)
    /\ landed' = {c \in reached : mem'[c] # mem[c]}

ApplyWrite ==
    /\ pc = "apply" /\ next <= Len(plan)
    /\ plan[next].kind \in {"write", "redirect"}
    /\ Expected(plan[next])
    /\ mem' = Written(plan[next], NoPage, plan[next].window)
    /\ Record(plan[next], NoPage)
    /\ UNCHANGED <<owned, plan, base, stubs, pc, faults, original, landed, leaked>>

(* The cells are not what the plan expects, or cannot be read, reached from  *)
(* the instruction, unprotected or written; or they have been written and    *)
(* cannot be protected again.                                                *)
ApplyWriteFails ==
    /\ pc = "apply" /\ next <= Len(plan)
    /\ plan[next].kind \in {"write", "redirect"}
    /\ \/ ~Expected(plan[next]) /\ GiveUp(plan[next], NoPage, {}) /\ UNCHANGED faults
       \/ /\ Fail(1)
          /\ \E reached \in SUBSET plan[next].window :
                /\ reached # {} => Expected(plan[next])
                /\ GiveUp(plan[next], NoPage, reached)
    /\ UNCHANGED <<owned, plan, next, base, done, stubs, original, leaked>>

(* Mutant: the operation is recorded once more than it was applied. *)
InstallStubRecordedTwice ==
    /\ pc = "apply" /\ next <= Len(plan)
    /\ plan[next].kind = "stub"
    /\ \E b \in Pages :
          /\ Allocate(b)
          /\ stubs' = Append(stubs, b)
          /\ done' = done \o <<[window |-> {}, saved |-> mem, page |-> b],
                               [window |-> {}, saved |-> mem, page |-> b]>>
          /\ next' = next + 1
    /\ UNCHANGED <<mem, plan, base, pc, faults, original, landed, leaked>>

(* InstallCodeStub: a page of its own, reached by nothing yet. *)
InstallStub ==
    /\ pc = "apply" /\ next <= Len(plan)
    /\ plan[next].kind = "stub"
    /\ \E b \in Pages :
          /\ Allocate(b)
          /\ stubs' = Append(stubs, b)
          /\ Record(plan[next], b)
    /\ UNCHANGED <<mem, plan, base, pc, faults, original, landed, leaked>>

InstallStubFails ==
    /\ pc = "apply" /\ next <= Len(plan)
    /\ plan[next].kind = "stub"
    /\ pc' = "undo"
    /\ FailedPage(1)
    /\ UNCHANGED <<mem, plan, next, base, done, stubs, original, landed>>

(* InvokeBootstrap: a thread runs an installed stub to its end. *)
Invoke ==
    /\ pc = "apply" /\ next <= Len(plan)
    /\ plan[next].kind = "invoke"
    /\ plan[next].stub < Len(stubs)
    /\ Record(plan[next], NoPage)
    /\ UNCHANGED <<mem, owned, plan, base, stubs, pc, faults, original, landed, leaked>>

(* No such stub, no thread, or it does not end in time. *)
InvokeFails ==
    /\ pc = "apply" /\ next <= Len(plan)
    /\ plan[next].kind = "invoke"
    /\ (plan[next].stub >= Len(stubs) /\ UNCHANGED faults) \/ Fail(1)
    /\ pc' = "undo"
    /\ UNCHANGED <<mem, owned, plan, next, base, done, stubs, original, landed, leaked>>

(* InstallFunctionEntryDetour: the stub first, then the jump to it. *)
InstallDetour ==
    /\ pc = "apply" /\ next <= Len(plan)
    /\ plan[next].kind = "detour"
    /\ \E b \in Pages :
          /\ Allocate(b)
          /\ stubs' = Append(stubs, b)
          /\ mem' = Written(plan[next], b, plan[next].window)
          /\ Record(plan[next], b)
    /\ UNCHANGED <<plan, base, pc, faults, original, landed, leaked>>

(* It fails before the jump is written, or the write of the jump fails; the  *)
(* stub's page, if there is one, is released, or that fails too.             *)
InstallDetourFails ==
    /\ pc = "apply" /\ next <= Len(plan)
    /\ plan[next].kind = "detour"
    /\ \E b \in Pages \ owned, reached \in SUBSET plan[next].window :
          /\ GiveUp(plan[next], b, reached)
          /\ \/ Fail(1) /\ UNCHANGED <<owned, leaked>>
             \/ Fail(2) /\ Allocate(b) /\ leaked' = leaked \cup {b}
    /\ UNCHANGED <<plan, next, base, done, stubs, original>>

(* apply_patch_plan returns. *)
PlanApplied ==
    /\ pc = "apply" /\ next > Len(plan)
    /\ pc' = "applied"
    /\ UNCHANGED <<mem, owned, plan, next, base, done, stubs, faults, original, landed, leaked>>

(* The engine resumes the game: from here on nothing is rolled back. *)
GoLive ==
    /\ pc = "applied"
    /\ pc' = "live"
    /\ UNCHANGED <<mem, owned, plan, next, base, done, stubs, faults, original, landed, leaked>>

(* The journal cannot be saved or the game not resumed: finish_failed. *)
GoBack ==
    /\ pc = "applied"
    /\ pc' = "undo"
    /\ UNCHANGED <<mem, owned, plan, next, base, done, stubs, faults, original, landed, leaked>>

(* The game enters a detour: its stub writes the entry back and goes on.     *)
SelfUnhook(i) ==
    /\ pc = "live"
    /\ i \in 1 .. Len(done) /\ plan[i].kind = "detour"
    /\ \E c \in done[i].window : mem[c] = done[i].page
    /\ mem' = [c \in Cells |-> IF c \in done[i].window THEN done[i].saved[c] ELSE mem[c]]
    /\ UNCHANGED <<owned, plan, next, base, done, stubs, pc, faults, original, landed, leaked>>

-----------------------------------------------------------------------------
(* The cells after those in cells have been given back what was saved. *)
PutBack(saved, cells) == [c \in Cells |-> IF c \in cells THEN saved[c] ELSE mem[c]]

(* Mutant: rollback in the order of the plan. *)
UndoOldest ==
    /\ pc = "undo" /\ done # <<>>
    /\ mem' = PutBack(done[1].saved, done[1].window)
    /\ landed' = landed \ done[1].window
    /\ done' = Tail(done)
    /\ UNCHANGED <<owned, plan, next, base, stubs, pc, faults, original, leaked>>

(* undo_one of the latest operation; stubs and bootstraps have no bytes. *)
Undo ==
    /\ pc = "undo" /\ done # <<>>
    /\ LET last == done[Len(done)] IN
          /\ mem' = PutBack(last.saved, last.window)
          /\ landed' = landed \ last.window
    /\ done' = SubSeq(done, 1, Len(done) - 1)
    /\ UNCHANGED <<owned, plan, next, base, stubs, pc, faults, original, leaked>>

(* Mutant: a failed undo does not stop the rollback. *)
UndoFailsQuietly ==
    /\ pc = "undo" /\ done # <<>>
    /\ LET last == done[Len(done)] IN
          /\ last.window # {}
          /\ Fail(1)
          /\ \E reached \in SUBSET last.window :
                /\ mem' = PutBack(last.saved, reached)
                /\ landed' = landed \ reached
    /\ done' = SubSeq(done, 1, Len(done) - 1)
    /\ UNCHANGED <<owned, plan, next, base, stubs, pc, original, leaked>>

(* It fails, having reached some of the cells: nothing is released, for the   *)
(* game may still reach it.                                                   *)
UndoFails ==
    /\ pc = "undo" /\ done # <<>>
    /\ LET last == done[Len(done)] IN
          /\ last.window # {}
          /\ Fail(1)
          /\ \E reached \in SUBSET last.window :
                /\ mem' = PutBack(last.saved, reached)
                /\ landed' = landed \ reached
    /\ pc' = "stuck"
    /\ UNCHANGED <<owned, plan, next, base, done, stubs, original, leaked>>

AllUndone ==
    /\ pc = "undo" /\ done = <<>>
    /\ pc' = "release"
    /\ UNCHANGED <<mem, owned, plan, next, base, done, stubs, faults, original, landed, leaked>>

(* The stubs' pages, latest first. *)
FreeStub ==
    /\ pc = "release" /\ stubs # <<>>
    /\ \/ /\ owned' = owned \ {stubs[Len(stubs)]}
          /\ stubs' = SubSeq(stubs, 1, Len(stubs) - 1)
          /\ UNCHANGED <<pc, faults>>
       \/ Fail(1) /\ pc' = "stuck" /\ UNCHANGED <<owned, stubs>>
    /\ UNCHANGED <<mem, plan, next, base, done, original, landed, leaked>>

(* The RemoteState's page, then done; a page that cannot be released is given *)
(* up all the same.                                                           *)
FreeState ==
    /\ pc = "release" /\ stubs = <<>>
    /\ base' = NoPage
    /\ \/ owned' = owned \ {base} /\ pc' = "undone" /\ UNCHANGED <<faults, leaked>>
       \/ /\ base # NoPage /\ Fail(1)
          /\ pc' = "stuck" /\ leaked' = leaked \cup {base} /\ UNCHANGED owned
    /\ UNCHANGED <<mem, plan, next, done, stubs, original, landed>>

-----------------------------------------------------------------------------
Apply ==
    \/ PrepareState \/ PrepareStateFails
    \/ ApplyWrite \/ ApplyWriteFails
    \/ InstallStub \/ InstallStubFails
    \/ Invoke \/ InvokeFails
    \/ InstallDetour \/ InstallDetourFails
    \/ PlanApplied

Rollback == Undo \/ UndoFails \/ AllUndone \/ FreeStub \/ FreeState

PatchNext ==
    \/ Apply \/ Rollback \/ GoLive \/ GoBack
    \/ \E i \in 1 .. Len(done) : SelfUnhook(i)

PatchSpec == PatchInit /\ [][PatchNext]_patchVars

-----------------------------------------------------------------------------
(* Nothing in the game reaches a page that is not allocated, at no moment of *)
(* an apply, a rollback, a rollback that got stuck or the game's own unhook, *)
(* but where a write that was reported failed had landed.                    *)
NoDangling ==
    \A c \in Cells \ landed : mem[c] \in Pages => mem[c] \in owned

(* A plan that failed and was rolled back, however its windows overlap, has   *)
(* left neither a changed cell nor a page behind, but for what a failed write *)
(* had landed and a failed release had kept.                                  *)
RollbackIsExact ==
    pc \in {"undone", "failed"} =>
        /\ \A c \in Cells \ landed : mem[c] = original[c]
        /\ owned \subseteq leaked

(* An applied plan is in force as a whole: each cell holds what the last     *)
(* operation to change it put there, windows written around it included, and *)
(* the rest is the game's own.                                               *)
AppliedIsThePlan ==
    pc = "applied" =>
        \A c \in Cells :
            \/ /\ mem[c] = original[c]
               /\ \A i \in 1 .. Len(plan) : c \notin plan[i].field
            \/ \E i \in 1 .. Len(plan) :
                  /\ c \in plan[i].field
                  /\ mem[c] = Target(plan[i], done[i].page, c)
                  /\ \A j \in i + 1 .. Len(plan) : c \notin plan[j].field
=============================================================================
