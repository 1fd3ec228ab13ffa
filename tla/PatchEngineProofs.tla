-------------------------- MODULE PatchEngineProofs --------------------------
(***************************************************************************)
(* What a patch plan leaves behind, for every plan, every layout of windows  *)
(* and any number of failed calls: types, exact rollback, no reference to a  *)
(* page that is not allocated, and the whole plan in force once applied.     *)
(*                                                                          *)
(* The argument for rollback: the first recorded operation that covers a     *)
(* cell saved the game's own content of it, and a cell no recorded operation *)
(* covers still holds it. Undoing the latest operation keeps both, whatever  *)
(* the windows share; undoing any other would not.                           *)
(***************************************************************************)
EXTENDS PatchEngine, SequenceTheorems, TLAPS

(* No recorded operation covers cell c. *)
Uncovered(c) == \A k \in 1 .. Len(done) : c \notin done[k].window

FirstSavedTheOriginal ==
    \A j \in 1 .. Len(done) : \A c \in done[j].window :
        (\A k \in 1 .. j - 1 : c \notin done[k].window) => done[j].saved[c] = original[c]

UncoveredIsOriginal ==
    \A c \in Cells \ landed : Uncovered(c) => mem[c] = original[c]

(* Where the engine is, and what it has recorded there. *)
Progress ==
    /\ pc = "state" => base = NoPage /\ stubs = <<>> /\ owned = {} /\ leaked = {}
    /\ pc \in {"state", "failed", "release", "undone"} => done = <<>>
    /\ pc \in {"state", "apply", "applied", "live"} => landed = {}
    /\ pc = "failed" => base = NoPage /\ stubs = <<>>
    /\ pc = "undone" => base = NoPage /\ stubs = <<>>
    /\ pc = "applied" => next > Len(plan)
    /\ pc = "apply" /\ base # NoPage => base \in owned
    /\ pc \in {"state", "apply", "applied", "live"} => Len(done) = next - 1

(* Every page is accounted for. *)
PagesAreKnown ==
    \A b \in owned : \/ b \in leaked
                     \/ b = base
                     \/ \E k \in 1 .. Len(stubs) : b = stubs[k]

(* Neither the game nor what would be put back into it reaches a free page. *)
SavedIsOwned ==
    \A j \in 1 .. Len(done) : \A c \in done[j].window :
        done[j].saved[c] \in Pages => done[j].saved[c] \in owned

(* The plan so far is in force. *)
InForce ==
    pc \in {"apply", "applied"} =>
        \A c \in Cells :
            \/ /\ mem[c] = original[c]
               /\ \A i \in 1 .. Len(done) : c \notin plan[i].field
            \/ \E i \in 1 .. Len(done) :
                  /\ c \in plan[i].field
                  /\ mem[c] = Target(plan[i], done[i].page, c)
                  /\ \A j \in i + 1 .. Len(done) : c \notin plan[j].field

PatchInv ==
    /\ PatchTypeOK
    /\ FirstSavedTheOriginal
    /\ UncoveredIsOriginal
    /\ Progress
    /\ PagesAreKnown
    /\ NoDangling
    /\ SavedIsOwned
    /\ InForce

-----------------------------------------------------------------------------
(* The operation whose turn it is. *)
LEMMA OperationAtHand ==
    ASSUME PatchTypeOK, next <= Len(plan)
    PROVE  /\ plan \in Seq(Operations) /\ next \in 1 .. Len(plan)
           /\ plan[next] \in Operations
           /\ plan[next].field \subseteq plan[next].window
           /\ plan[next].window \subseteq Cells
           /\ plan[next].kind \in {"stub", "invoke"} => plan[next].window = {}
           /\ plan[next].toState => plan[next].kind = "redirect"
<1>1. plan \in Seq(Operations) /\ next \in 1 .. Len(plan)
    BY PatchAssumption DEF PatchTypeOK
<1>2. plan[next] \in Operations
    BY <1>1
<1>. QED BY <1>1, <1>2, PatchAssumption DEF PatchTypeOK, Operations

(* A write puts contents into cells, and only into those of the field that it *)
(* has reached.                                                               *)
LEMMA WrittenType ==
    ASSUME PatchTypeOK, next <= Len(plan), NEW page \in Pages \cup {NoPage},
           NEW cells \in SUBSET Cells,
           plan[next].kind = "detour" => page \in Pages,
           plan[next].toState => base # NoPage \/ cells = {}
    PROVE  /\ Written(plan[next], page, cells) \in [Cells -> Contents]
           /\ \A c \in Cells : c \notin cells \/ c \notin plan[next].field =>
                 Written(plan[next], page, cells)[c] = mem[c]
<1>1. plan[next] \in Operations
    BY OperationAtHand
<1>2. ASSUME NEW c \in Cells
      PROVE  Written(plan[next], page, cells)[c] \in Contents
    <2>1. CASE c \notin cells \/ c \notin plan[next].field
        BY <2>1 DEF Written, PatchTypeOK
    <2>2. CASE c \in cells /\ c \in plan[next].field
        BY <1>1, <2>2 DEF Written, Target, PatchTypeOK, Contents, Operations
    <2>. QED BY <2>1, <2>2
<1>3. Written(plan[next], page, cells) \in [Cells -> Contents]
    BY <1>2 DEF Written
<1>. QED BY <1>3 DEF Written

(* Recording one operation. *)
LEMMA RecordType ==
    ASSUME PatchTypeOK, next <= Len(plan), NEW page \in Pages \cup {NoPage},
           Record(plan[next], page)
    PROVE  /\ done' \in Seq(Applied) /\ Len(done') = Len(done) + 1
           /\ \A k \in 1 .. Len(done) : done'[k] = done[k]
           /\ done'[Len(done) + 1].window = plan[next].window
           /\ done'[Len(done) + 1].saved = mem
           /\ done'[Len(done) + 1].page = page
<1> DEFINE r == [window |-> plan[next].window, saved |-> mem, page |-> page]
<1>1. r \in Applied
    BY OperationAtHand DEF Applied, PatchTypeOK
<1>2. r.window = plan[next].window /\ r.saved = mem /\ r.page = page
    OBVIOUS
<1>3. done' = Append(done, r)
    BY DEF Record
<1>4. done \in Seq(Applied) /\ Len(done) \in Nat
    BY DEF PatchTypeOK
<1> HIDE DEF r
<1>. QED BY <1>1, <1>2, <1>3, <1>4

(* An operation that succeeds, whatever it writes and allocates. *)
LEMMA OperationApplied ==
    ASSUME PatchInv, pc = "apply", next <= Len(plan), NEW page \in Pages \cup {NoPage},
           Record(plan[next], page),
           mem' = Written(plan[next], page, plan[next].window),
           plan[next].kind = "detour" => page \in owned',
           plan[next].toState => base # NoPage,
           owned \subseteq owned', owned' \subseteq Pages,
           stubs' \in Seq(Pages), Len(stubs) <= Len(stubs'),
           \A k \in 1 .. Len(stubs) : stubs'[k] = stubs[k],
           \A b \in owned' : b \in owned \/ \E k \in 1 .. Len(stubs') : b = stubs'[k],
           UNCHANGED <<plan, base, pc, faults, original, landed, leaked>>
    PROVE  PatchInv'
<1> DEFINE op == plan[next]
           n  == Len(done) + 1
<1>1. PatchTypeOK /\ Progress
    BY DEF PatchInv
<1>2. /\ op \in Operations /\ op.field \subseteq op.window /\ op.window \subseteq Cells
      /\ next \in 1 .. Len(plan) /\ plan \in Seq(Operations)
    BY <1>1, OperationAtHand
<1>3. /\ next \in Nat /\ Len(done) \in Nat /\ Len(done) = next - 1 /\ landed = {}
      /\ base # NoPage => base \in owned
    <2>1. next \in Nat /\ Len(done) \in Nat
        BY <1>1, <1>2 DEF PatchTypeOK
    <2>. QED BY <1>1, <2>1 DEF Progress
<1>4. /\ done' \in Seq(Applied) /\ Len(done') = n /\ next' = next + 1
      /\ \A k \in 1 .. Len(done) : done'[k] = done[k]
      /\ done'[n].window = op.window /\ done'[n].saved = mem /\ done'[n].page = page
    BY <1>1, RecordType DEF Record
<1>5. /\ mem' \in [Cells -> Contents]
      /\ \A c \in Cells \ op.field : mem'[c] = mem[c]
    <2>1. op.kind = "detour" => page \in Pages
        OBVIOUS
    <2>2. op.window \in SUBSET Cells
        BY <1>2
    <2>. QED BY <1>1, <2>1, <2>2, WrittenType
<1>6. \A c \in op.field : mem'[c] = Target(op, page, c)
    BY <1>2 DEF Written
<1>7. PatchTypeOK'
    BY <1>1, <1>2, <1>3, <1>4, <1>5 DEF PatchTypeOK
<1>8. FirstSavedTheOriginal'
    <2> SUFFICES ASSUME NEW j \in 1 .. n, NEW c \in done'[j].window,
                        \A k \in 1 .. j - 1 : c \notin done'[k].window
                 PROVE  done'[j].saved[c] = original[c]
        BY <1>4 DEF FirstSavedTheOriginal
    <2>1. CASE j \in 1 .. Len(done)
        <3>1. ASSUME NEW k \in 1 .. j - 1
              PROVE  c \notin done[k].window
            <4>1. k \in 1 .. Len(done)
                BY <1>3, <2>1
            <4>. QED BY <1>4, <4>1
        <3>2. done'[j] = done[j] /\ c \in done[j].window
            BY <1>4, <2>1
        <3>. QED BY <2>1, <3>1, <3>2 DEF PatchInv, FirstSavedTheOriginal
    <2>2. CASE j = n
        <3>1. Uncovered(c)
            <4>1. \A k \in 1 .. Len(done) : k \in 1 .. j - 1 /\ done'[k] = done[k]
                BY <1>3, <1>4, <2>2
            <4>. QED BY <4>1 DEF Uncovered
        <3>2. c \in Cells
            BY <1>2, <1>4, <2>2
        <3>. QED BY <1>3, <1>4, <2>2, <3>1, <3>2 DEF PatchInv, UncoveredIsOriginal
    <2>. QED BY <1>3, <2>1, <2>2
<1>9. UncoveredIsOriginal'
    <2> SUFFICES ASSUME NEW c \in Cells, Uncovered(c)'
                 PROVE  mem'[c] = original[c]
        BY DEF UncoveredIsOriginal
    <2>1. \A k \in 1 .. n : c \notin done'[k].window
        BY <1>4 DEF Uncovered
    <2>2. n \in 1 .. n /\ \A k \in 1 .. Len(done) : k \in 1 .. n
        BY <1>3
    <2>3. c \notin op.window
        BY <1>4, <2>1, <2>2
    <2>4. \A k \in 1 .. Len(done) : c \notin done[k].window
        BY <1>4, <2>1, <2>2
    <2>5. Uncovered(c)
        BY <2>4 DEF Uncovered
    <2>. QED BY <1>2, <1>3, <1>5, <2>3, <2>5 DEF PatchInv, UncoveredIsOriginal
<1>10. Progress'
    <2>1. Len(done') = next' - 1
        BY <1>3, <1>4
    <2>2. pc' = "apply"
        OBVIOUS
    <2>. QED BY <1>3, <2>1, <2>2 DEF Progress
<1>11. PagesAreKnown'
    <2> SUFFICES ASSUME NEW b \in owned'
                 PROVE  b \in leaked \/ b = base \/ \E k \in 1 .. Len(stubs') : b = stubs'[k]
        BY DEF PagesAreKnown
    <2>1. CASE b \in owned
        <3>1. b \in leaked \/ b = base \/ \E k \in 1 .. Len(stubs) : b = stubs[k]
            BY <2>1 DEF PatchInv, PagesAreKnown
        <3>2. Len(stubs) \in Nat /\ Len(stubs') \in Nat
            BY <1>1 DEF PatchTypeOK
        <3>. QED BY <3>1, <3>2
    <2>2. CASE b \notin owned
        BY <2>2
    <2>. QED BY <2>1, <2>2
<1>12. NoDangling'
    <2> SUFFICES ASSUME NEW c \in Cells, mem'[c] \in Pages
                 PROVE  mem'[c] \in owned'
        BY DEF NoDangling
    <2>1. CASE c \notin op.field
        BY <1>3, <1>5, <2>1 DEF PatchInv, NoDangling
    <2>2. CASE c \in op.field
        <3>1. op.data[c] \in Bytes
            BY <1>2 DEF Operations
        <3>. QED BY <1>3, <1>6, <2>2, <3>1, PatchAssumption DEF Target
    <2>. QED BY <2>1, <2>2
<1>13. SavedIsOwned'
    <2> SUFFICES ASSUME NEW j \in 1 .. n, NEW c \in done'[j].window, done'[j].saved[c] \in Pages
                 PROVE  done'[j].saved[c] \in owned'
        BY <1>4 DEF SavedIsOwned
    <2>1. CASE j \in 1 .. Len(done)
        BY <1>4, <2>1 DEF PatchInv, SavedIsOwned
    <2>2. CASE j = n
        BY <1>2, <1>3, <1>4, <2>2 DEF PatchInv, NoDangling
    <2>. QED BY <1>3, <2>1, <2>2
<1>14. InForce'
    <2> SUFFICES ASSUME NEW c \in Cells
                 PROVE  \/ /\ mem'[c] = original[c]
                           /\ \A i \in 1 .. n : c \notin plan[i].field
                        \/ \E i \in 1 .. n :
                              /\ c \in plan[i].field
                              /\ mem'[c] = Target(plan[i], done'[i].page, c)
                              /\ \A j \in i + 1 .. n : c \notin plan[j].field
        BY <1>4 DEF InForce, Target
    <2>1. n = next
        BY <1>3
    <2>2. CASE c \in op.field
        <3>1. mem'[c] = Target(plan[n], done'[n].page, c)
            BY <1>4, <1>6, <2>1, <2>2
        <3>. QED BY <1>3, <2>1, <2>2, <3>1
    <2>3. CASE c \notin op.field
        <3>1. mem'[c] = mem[c]
            BY <1>5, <2>3
        <3>2. \A i \in 1 .. Len(done) : done'[i].page = done[i].page
            BY <1>4
        <3>3. \/ /\ mem[c] = original[c]
                 /\ \A i \in 1 .. Len(done) : c \notin plan[i].field
              \/ \E i \in 1 .. Len(done) :
                    /\ c \in plan[i].field
                    /\ mem[c] = Target(plan[i], done[i].page, c)
                    /\ \A j \in i + 1 .. Len(done) : c \notin plan[j].field
            BY DEF PatchInv, InForce
        <3>. QED BY <1>3, <2>1, <2>3, <3>1, <3>2, <3>3
    <2>. QED BY <2>2, <2>3
<1>. QED BY <1>7, <1>8, <1>9, <1>10, <1>11, <1>12, <1>13, <1>14 DEF PatchInv

(* An operation that fails, whatever of its write has landed. *)
LEMMA OperationGivenUp ==
    ASSUME PatchInv, pc = "apply", next <= Len(plan), NEW page \in Pages \cup {NoPage},
           NEW reached \in SUBSET plan[next].window,
           GiveUp(plan[next], page, reached),
           plan[next].kind = "detour" => page \in Pages,
           plan[next].toState => base # NoPage \/ reached = {},
           owned \subseteq owned', owned' \subseteq Pages,
           leaked \subseteq leaked', leaked' \subseteq Pages,
           \A b \in owned' : b \in owned \/ b \in leaked',
           faults' \in 0 .. MaxFaults,
           UNCHANGED <<plan, next, base, done, stubs, original>>
    PROVE  PatchInv'
<1>1. PatchTypeOK /\ Progress /\ landed = {}
    BY DEF PatchInv, Progress
<1>2. reached \subseteq Cells
    BY <1>1, OperationAtHand
<1>3. /\ mem' \in [Cells -> Contents] /\ pc' = "undo"
      /\ landed' \subseteq Cells
      /\ \A c \in Cells \ landed' : mem'[c] = mem[c]
    BY <1>1, <1>2, WrittenType DEF GiveUp
<1>4. PatchTypeOK'
    BY <1>1, <1>3 DEF PatchTypeOK, PatchPcs
<1>5. FirstSavedTheOriginal'
    BY DEF PatchInv, FirstSavedTheOriginal
<1>6. UncoveredIsOriginal'
    BY <1>1, <1>3 DEF PatchInv, UncoveredIsOriginal, Uncovered
<1>7. Progress'
    BY <1>3 DEF Progress
<1>8. PagesAreKnown'
    BY DEF PatchInv, PagesAreKnown
<1>9. NoDangling'
    BY <1>1, <1>3 DEF PatchInv, NoDangling
<1>10. SavedIsOwned'
    BY DEF PatchInv, SavedIsOwned
<1>11. InForce'
    BY <1>3 DEF InForce
<1>. QED BY <1>4, <1>5, <1>6, <1>7, <1>8, <1>9, <1>10, <1>11 DEF PatchInv

(* Steps that leave the cells, the pages and the records as they are. *)
LEMMA NothingTouched ==
    ASSUME PatchInv, UNCHANGED <<mem, owned, plan, next, base, done, stubs,
                                 original, landed, leaked>>,
           faults' \in 0 .. MaxFaults, PatchTypeOK', Progress', InForce'
    PROVE  PatchInv'
<1>1. FirstSavedTheOriginal'
    BY DEF PatchInv, FirstSavedTheOriginal
<1>2. UncoveredIsOriginal'
    BY DEF PatchInv, UncoveredIsOriginal, Uncovered
<1>3. PagesAreKnown'
    BY DEF PatchInv, PagesAreKnown
<1>4. NoDangling'
    BY DEF PatchInv, NoDangling
<1>5. SavedIsOwned'
    BY DEF PatchInv, SavedIsOwned
<1>. QED BY <1>1, <1>2, <1>3, <1>4, <1>5 DEF PatchInv

-----------------------------------------------------------------------------
(* The failures of an allocation that may be released again. *)
LEMMA FailedPageType ==
    ASSUME PatchTypeOK, NEW n \in Nat, FailedPage(n)
    PROVE  /\ owned \subseteq owned' /\ owned' \subseteq Pages
           /\ leaked \subseteq leaked' /\ leaked' \subseteq Pages
           /\ \A b \in owned' : b \in owned \/ b \in leaked'
           /\ faults' \in 0 .. MaxFaults
<1>1. faults \in 0 .. MaxFaults /\ owned \subseteq Pages /\ leaked \subseteq Pages /\ MaxFaults \in Nat
    BY PatchAssumption DEF PatchTypeOK
<1>2. CASE Fail(n) /\ UNCHANGED <<owned, leaked>>
    BY <1>1, <1>2 DEF Fail
<1>3. CASE Fail(n + 1) /\ \E b \in Pages : Allocate(b) /\ leaked' = leaked \cup {b}
    BY <1>1, <1>3 DEF Fail, Allocate
<1>. QED BY <1>2, <1>3 DEF FailedPage

(* Giving up before anything is written. *)
LEMMA NothingWritten ==
    ASSUME PatchTypeOK, next <= Len(plan), landed = {},
           pc' = "undo", UNCHANGED <<mem, landed>>
    PROVE  GiveUp(plan[next], NoPage, {})
<1>1. mem = Written(plan[next], NoPage, {})
    BY DEF Written, PatchTypeOK
<1>. QED BY <1>1 DEF GiveUp

LEMMA PrepareStateSteps ==
    ASSUME PatchInv, PrepareState \/ PrepareStateFails
    PROVE  PatchInv'
<1>1. /\ PatchTypeOK /\ Progress /\ pc = "state"
      /\ base = NoPage /\ stubs = <<>> /\ owned = {} /\ leaked = {} /\ done = <<>> /\ landed = {}
    BY DEF PatchInv, Progress, PrepareState, PrepareStateFails
<1>2. Len(done) = 0 /\ Len(stubs) = 0 /\ UNCHANGED <<mem, plan, next, done, stubs, original, landed>>
    BY <1>1 DEF PrepareState, PrepareStateFails
<1>3. FirstSavedTheOriginal' /\ SavedIsOwned'
    BY <1>2 DEF FirstSavedTheOriginal, SavedIsOwned
<1>4. UncoveredIsOriginal'
    BY <1>2 DEF PatchInv, UncoveredIsOriginal, Uncovered
<1>5. \A c \in Cells : mem[c] = original[c]
    BY <1>1, <1>2 DEF PatchInv, UncoveredIsOriginal, Uncovered
<1>6. InForce'
    BY <1>2, <1>5 DEF InForce
<1>7. NoDangling'
    BY <1>1, <1>2 DEF PatchInv, NoDangling
<1>8. CASE PrepareState
    <2>1. /\ pc' = "apply" /\ UNCHANGED <<faults, leaked>>
          /\ base' \in Pages \cup {NoPage} /\ owned' \subseteq Pages
          /\ base' # NoPage => base' \in owned'
          /\ \A b \in owned' : b = base'
        BY <1>1, <1>8, PatchAssumption DEF PrepareState, Allocate, Contents
    <2>2. PatchTypeOK'
        BY <1>1, <1>2, <2>1 DEF PatchTypeOK, PatchPcs
    <2>3. Progress'
        BY <1>1, <1>2, <2>1 DEF Progress
    <2>4. PagesAreKnown'
        BY <2>1 DEF PagesAreKnown
    <2>. QED BY <1>3, <1>4, <1>6, <1>7, <2>2, <2>3, <2>4 DEF PatchInv
<1>9. CASE PrepareStateFails
    <2>1. pc' = "failed" /\ FailedPage(1) /\ base' = base
        BY <1>9 DEF PrepareStateFails
    <2>2. /\ owned' \subseteq Pages /\ leaked' \subseteq Pages
          /\ \A b \in owned' : b \in leaked'
          /\ faults' \in 0 .. MaxFaults
        BY <1>1, <2>1, FailedPageType
    <2>3. PatchTypeOK'
        BY <1>1, <1>2, <2>1, <2>2 DEF PatchTypeOK, PatchPcs
    <2>4. Progress'
        BY <1>1, <1>2, <2>1 DEF Progress
    <2>5. PagesAreKnown'
        BY <2>2 DEF PagesAreKnown
    <2>. QED BY <1>3, <1>4, <1>6, <1>7, <2>3, <2>4, <2>5 DEF PatchInv
<1>. QED BY <1>8, <1>9

LEMMA ApplyWriteSteps ==
    ASSUME PatchInv, ApplyWrite \/ ApplyWriteFails
    PROVE  PatchInv'
<1>1. PatchTypeOK /\ Progress /\ pc = "apply" /\ next <= Len(plan) /\ landed = {}
    BY DEF PatchInv, Progress, ApplyWrite, ApplyWriteFails
<1>2. plan[next].kind # "detour"
    BY DEF ApplyWrite, ApplyWriteFails
<1>3. /\ stubs \in Seq(Pages) /\ owned \subseteq Pages /\ leaked \subseteq Pages
      /\ faults \in 0 .. MaxFaults /\ MaxFaults \in Nat
    BY <1>1, PatchAssumption DEF PatchTypeOK
<1>4. CASE ApplyWrite
    <2>1. /\ Record(plan[next], NoPage)
          /\ mem' = Written(plan[next], NoPage, plan[next].window)
          /\ plan[next].toState => base # NoPage
          /\ UNCHANGED <<owned, stubs>>
          /\ UNCHANGED <<plan, base, pc, faults, original, landed, leaked>>
        BY <1>4 DEF ApplyWrite, Expected
    <2>2. Len(stubs) <= Len(stubs')
        BY <1>3, <2>1
    <2>. QED BY <1>1, <1>2, <1>3, <2>1, <2>2, OperationApplied
<1>5. CASE ApplyWriteFails
    <2>1. PICK reached \in SUBSET plan[next].window :
             /\ GiveUp(plan[next], NoPage, reached)
             /\ reached # {} => Expected(plan[next])
             /\ faults' \in 0 .. MaxFaults
        <3>1. CASE ~Expected(plan[next]) /\ GiveUp(plan[next], NoPage, {}) /\ UNCHANGED faults
            BY <1>3, <3>1
        <3>2. CASE /\ Fail(1)
                   /\ \E reached \in SUBSET plan[next].window :
                         /\ reached # {} => Expected(plan[next])
                         /\ GiveUp(plan[next], NoPage, reached)
            BY <1>3, <3>2 DEF Fail
        <3>. QED BY <1>5, <3>1, <3>2 DEF ApplyWriteFails
    <2>2. plan[next].toState => base # NoPage \/ reached = {}
        BY <2>1 DEF Expected
    <2>3. UNCHANGED <<owned, plan, next, base, done, stubs, original, leaked>>
        BY <1>5 DEF ApplyWriteFails
    <2>. QED BY <1>1, <1>2, <1>3, <2>1, <2>2, <2>3, OperationGivenUp
<1>. QED BY <1>4, <1>5

(* A page is appended to the stubs. *)
LEMMA StubAdded ==
    ASSUME PatchTypeOK, NEW b \in Pages, Allocate(b), stubs' = Append(stubs, b)
    PROVE  /\ owned \subseteq owned' /\ owned' \subseteq Pages /\ b \in owned'
           /\ stubs' \in Seq(Pages) /\ Len(stubs) <= Len(stubs')
           /\ \A k \in 1 .. Len(stubs) : stubs'[k] = stubs[k]
           /\ \A x \in owned' : x \in owned \/ \E k \in 1 .. Len(stubs') : x = stubs'[k]
<1>1. stubs \in Seq(Pages) /\ owned \subseteq Pages
    BY DEF PatchTypeOK
<1>2. Len(stubs') = Len(stubs) + 1 /\ stubs'[Len(stubs) + 1] = b /\ Len(stubs) \in Nat
    BY <1>1
<1>3. \E k \in 1 .. Len(stubs') : b = stubs'[k]
    BY <1>2
<1>4. \A k \in 1 .. Len(stubs) : stubs'[k] = stubs[k]
    BY <1>1
<1>. QED BY <1>1, <1>2, <1>3, <1>4 DEF Allocate

LEMMA InstallSteps ==
    ASSUME PatchInv, InstallStub \/ InstallDetour
    PROVE  PatchInv'
<1>1. PatchTypeOK /\ pc = "apply" /\ next <= Len(plan)
    BY DEF PatchInv, InstallStub, InstallDetour
<1>2. PICK b \in Pages :
         /\ Allocate(b) /\ stubs' = Append(stubs, b) /\ Record(plan[next], b)
         /\ mem' = Written(plan[next], b, plan[next].window)
    <2>1. CASE InstallStub
        <3>1. plan[next].window = {} /\ mem' = mem /\ mem \in [Cells -> Contents]
            BY <1>1, <2>1, OperationAtHand DEF InstallStub, PatchTypeOK
        <3>2. \A b \in Pages : mem' = Written(plan[next], b, plan[next].window)
            BY <3>1 DEF Written
        <3>. QED BY <2>1, <3>2 DEF InstallStub
    <2>2. CASE InstallDetour
        BY <2>2 DEF InstallDetour
    <2>. QED BY <2>1, <2>2
<1>3. ~plan[next].toState
    BY <1>1, OperationAtHand DEF InstallStub, InstallDetour
<1>4. UNCHANGED <<plan, base, pc, faults, original, landed, leaked>>
    BY DEF InstallStub, InstallDetour
<1>. QED BY <1>1, <1>2, <1>3, <1>4, StubAdded, OperationApplied

LEMMA InstallFailsSteps ==
    ASSUME PatchInv, InstallStubFails \/ InstallDetourFails \/ InvokeFails
    PROVE  PatchInv'
<1>1. PatchTypeOK /\ pc = "apply" /\ next <= Len(plan) /\ landed = {}
    BY DEF PatchInv, Progress, InstallStubFails, InstallDetourFails, InvokeFails
<1>2. ~plan[next].toState
    BY <1>1, OperationAtHand DEF InstallStubFails, InstallDetourFails, InvokeFails
<1>3. UNCHANGED <<plan, next, base, done, stubs, original>>
    BY DEF InstallStubFails, InstallDetourFails, InvokeFails
<1>4. /\ owned \subseteq Pages /\ leaked \subseteq Pages
      /\ faults \in 0 .. MaxFaults /\ MaxFaults \in Nat
    BY <1>1, PatchAssumption DEF PatchTypeOK
<1>5. CASE InstallStubFails
    <2>1. /\ FailedPage(1) /\ plan[next].kind # "detour"
          /\ pc' = "undo" /\ UNCHANGED <<mem, landed>>
        BY <1>5 DEF InstallStubFails
    <2>. QED BY <1>1, <1>2, <1>3, <2>1, FailedPageType, NothingWritten, OperationGivenUp
<1>6. CASE InvokeFails
    <2>1. /\ UNCHANGED <<owned, leaked>> /\ plan[next].kind # "detour"
          /\ pc' = "undo" /\ UNCHANGED <<mem, landed>>
        BY <1>6 DEF InvokeFails
    <2>2. faults' \in 0 .. MaxFaults
        BY <1>4, <1>6 DEF InvokeFails, Fail
    <2>. QED BY <1>1, <1>2, <1>3, <1>4, <2>1, <2>2, NothingWritten, OperationGivenUp
<1>7. CASE InstallDetourFails
    <2>1. PICK b \in Pages \ owned, reached \in SUBSET plan[next].window :
             /\ GiveUp(plan[next], b, reached)
             /\ \/ Fail(1) /\ UNCHANGED <<owned, leaked>>
                \/ Fail(2) /\ Allocate(b) /\ leaked' = leaked \cup {b}
        BY <1>7 DEF InstallDetourFails
    <2>2. /\ owned \subseteq owned' /\ owned' \subseteq Pages
          /\ leaked \subseteq leaked' /\ leaked' \subseteq Pages
          /\ \A x \in owned' : x \in owned \/ x \in leaked'
        BY <1>4, <2>1 DEF Allocate
    <2>3. faults' \in 0 .. MaxFaults
        BY <1>4, <2>1 DEF Fail
    <2>. QED BY <1>1, <1>2, <1>3, <2>1, <2>2, <2>3, OperationGivenUp
<1>. QED BY <1>5, <1>6, <1>7

LEMMA InvokeSteps ==
    ASSUME PatchInv, Invoke
    PROVE  PatchInv'
<1>1. PatchTypeOK /\ pc = "apply" /\ next <= Len(plan)
    BY DEF PatchInv, Invoke
<1>2. /\ plan[next].window = {} /\ ~plan[next].toState /\ plan[next].kind # "detour"
    BY <1>1, OperationAtHand DEF Invoke
<1>3. /\ Record(plan[next], NoPage) /\ UNCHANGED <<mem, owned, stubs>>
      /\ UNCHANGED <<plan, base, pc, faults, original, landed, leaked>>
    BY DEF Invoke
<1>4. mem' = Written(plan[next], NoPage, plan[next].window)
    BY <1>1, <1>2, <1>3 DEF Written, PatchTypeOK
<1>5. owned \subseteq Pages /\ stubs \in Seq(Pages) /\ Len(stubs) <= Len(stubs')
    BY <1>1, <1>3 DEF PatchTypeOK
<1>. QED BY <1>1, <1>2, <1>3, <1>4, <1>5, OperationApplied

LEMMA ReturnSteps ==
    ASSUME PatchInv, PlanApplied \/ GoLive \/ GoBack \/ AllUndone
    PROVE  PatchInv'
<1>1. PatchTypeOK /\ Progress /\ InForce
    BY DEF PatchInv
<1>2. UNCHANGED <<mem, owned, plan, next, base, done, stubs, faults, original, landed, leaked>>
    BY DEF PlanApplied, GoLive, GoBack, AllUndone
<1>3. \/ pc = "apply" /\ pc' = "applied" /\ next > Len(plan)
      \/ pc = "applied" /\ pc' \in {"live", "undo"}
      \/ pc = "undo" /\ pc' = "release" /\ done = <<>>
    BY DEF PlanApplied, GoLive, GoBack, AllUndone
<1>4. PatchTypeOK'
    BY <1>1, <1>2, <1>3 DEF PatchTypeOK, PatchPcs
<1>5. Progress'
    BY <1>1, <1>2, <1>3 DEF Progress
<1>6. InForce'
    BY <1>1, <1>2, <1>3 DEF InForce, Target
<1>. QED BY <1>1, <1>2, <1>4, <1>5, <1>6, NothingTouched DEF PatchTypeOK

-----------------------------------------------------------------------------
(* The game unhooks itself: the entry gets back what was saved of it. *)
LEMMA SelfUnhookStep ==
    ASSUME PatchInv, NEW i \in 1 .. Len(done), SelfUnhook(i)
    PROVE  PatchInv'
<1>1. PatchTypeOK /\ Progress /\ pc = "live"
    BY DEF PatchInv, SelfUnhook
<1>2. /\ UNCHANGED <<owned, plan, next, base, done, stubs, pc, faults, original, landed, leaked>>
      /\ mem' = [c \in Cells |-> IF c \in done[i].window THEN done[i].saved[c] ELSE mem[c]]
    BY DEF SelfUnhook
<1>3. done[i] \in Applied
    BY <1>1 DEF PatchTypeOK
<1>4. mem' \in [Cells -> Contents]
    BY <1>1, <1>2, <1>3 DEF PatchTypeOK, Applied
<1>5. PatchTypeOK'
    BY <1>1, <1>2, <1>4 DEF PatchTypeOK
<1>6. FirstSavedTheOriginal'
    BY <1>2 DEF PatchInv, FirstSavedTheOriginal
<1>7. UncoveredIsOriginal'
    BY <1>2 DEF PatchInv, UncoveredIsOriginal, Uncovered
<1>8. Progress'
    BY <1>1, <1>2 DEF Progress
<1>9. PagesAreKnown'
    BY <1>2 DEF PatchInv, PagesAreKnown
<1>10. NoDangling'
    BY <1>2 DEF PatchInv, NoDangling, SavedIsOwned
<1>11. SavedIsOwned'
    BY <1>2 DEF PatchInv, SavedIsOwned
<1>12. InForce'
    BY <1>1, <1>2 DEF InForce
<1>. QED BY <1>5, <1>6, <1>7, <1>8, <1>9, <1>10, <1>11, <1>12 DEF PatchInv

(* A sequence without its last element. *)
LEMMA FrontOfSequence ==
    ASSUME NEW S, NEW s \in Seq(S), s # <<>>
    PROVE  /\ SubSeq(s, 1, Len(s) - 1) \in Seq(S)
           /\ Len(SubSeq(s, 1, Len(s) - 1)) = Len(s) - 1
           /\ \A k \in 1 .. Len(s) - 1 : SubSeq(s, 1, Len(s) - 1)[k] = s[k]
           /\ Len(s) \in Nat \ {0}
<1>1. Len(s) \in Nat \ {0}
    OBVIOUS
<1>2. /\ 1 \in 1 .. Len(s) + 1 /\ Len(s) - 1 \in 1 - 1 .. Len(s)
      /\ Len(s) - 1 \in Nat
    BY <1>1
<1>. DEFINE m == Len(s) - 1
<1>3. 1 \in 1 .. Len(s) + 1 /\ m \in 1 - 1 .. Len(s)
    BY <1>2
<1>4. m - 1 + 1 = m /\ \A k \in 1 .. m : 1 + k - 1 = k
    BY <1>2
<1>. HIDE DEF m
<1>5. /\ SubSeq(s, 1, m) \in Seq(S)
      /\ Len(SubSeq(s, 1, m)) = IF 1 <= m THEN m - 1 + 1 ELSE 0
      /\ \A i \in 1 .. m - 1 + 1 : SubSeq(s, 1, m)[i] = s[1 + i - 1]
    BY <1>3, SubSeqProperties
<1>6. /\ Len(SubSeq(s, 1, m)) = m
      /\ \A k \in 1 .. m : SubSeq(s, 1, m)[k] = s[k]
    BY <1>2, <1>4, <1>5 DEF m
<1>. QED BY <1>1, <1>5, <1>6 DEF m

(* Giving back what the latest operation saved, or as much as is reached of it. *)
LEMMA PuttingBack ==
    ASSUME PatchInv, pc = "undo", done # <<>>,
           NEW reached \in SUBSET done[Len(done)].window,
           mem' = PutBack(done[Len(done)].saved, reached),
           landed' = landed \ reached,
           \/ /\ reached = done[Len(done)].window
              /\ done' = SubSeq(done, 1, Len(done) - 1) /\ pc' = "undo"
           \/ done' = done /\ pc' = "stuck",
           faults' \in 0 .. MaxFaults,
           UNCHANGED <<owned, plan, next, base, stubs, original, leaked>>
    PROVE  PatchInv'
<1> DEFINE n    == Len(done)
           last == done[n]
<1>1. PatchTypeOK
    BY DEF PatchInv
<1>2. done \in Seq(Applied) /\ n \in Nat \ {0} /\ n \in 1 .. n /\ next \in Nat /\ n < next
    <2>1. done \in Seq(Applied) /\ plan \in Seq(Operations)
        BY <1>1, PatchAssumption DEF PatchTypeOK
    <2>2. n \in Nat /\ n # 0
        BY <2>1
    <2>. QED BY <1>1, <2>1, <2>2 DEF PatchTypeOK
<1>3. last \in Applied /\ last.window \subseteq Cells
    <2>1. last \in Applied
        BY <1>2
    <2>. QED BY <2>1 DEF Applied
<1>4. /\ done' \in Seq(Applied) /\ Len(done') \in Nat /\ Len(done') <= n
      /\ \A k \in 1 .. Len(done') : done'[k] = done[k]
    <2>1. CASE done' = SubSeq(done, 1, n - 1)
        <3>1. /\ SubSeq(done, 1, n - 1) \in Seq(Applied)
              /\ Len(SubSeq(done, 1, n - 1)) = n - 1
              /\ \A k \in 1 .. n - 1 : SubSeq(done, 1, n - 1)[k] = done[k]
            BY <1>2, FrontOfSequence
        <3>. QED BY <1>2, <2>1, <3>1
    <2>2. CASE done' = done
        BY <1>2, <2>2
    <2>. QED BY <2>1, <2>2
<1>5. \/ Len(done') = n - 1 /\ reached = last.window
      \/ done' = done
    <2>1. CASE done' = SubSeq(done, 1, n - 1) /\ reached = last.window
        <3>1. Len(SubSeq(done, 1, n - 1)) = n - 1
            BY <1>2, FrontOfSequence
        <3>. QED BY <2>1, <3>1
    <2>2. CASE done' = done
        BY <2>2
    <2>. QED BY <2>1, <2>2
<1>6. \A c \in Cells : mem'[c] = IF c \in reached THEN last.saved[c] ELSE mem[c]
    BY DEF PutBack
<1>7. PatchTypeOK'
    <2>1. mem' \in [Cells -> Contents]
        BY <1>1, <1>3 DEF PutBack, PatchTypeOK, Applied
    <2>2. Len(done') < next
        BY <1>2, <1>4
    <2>. QED BY <1>1, <1>4, <2>1, <2>2 DEF PatchTypeOK, PatchPcs
<1>8. FirstSavedTheOriginal'
    <2> SUFFICES ASSUME NEW j \in 1 .. Len(done'), NEW c \in done'[j].window,
                        \A k \in 1 .. j - 1 : c \notin done'[k].window
                 PROVE  done'[j].saved[c] = original[c]
        BY DEF FirstSavedTheOriginal
    <2>1. j \in 1 .. n /\ done'[j] = done[j]
        BY <1>2, <1>4
    <2>2. ASSUME NEW k \in 1 .. j - 1
          PROVE  c \notin done[k].window
        <3>1. k \in 1 .. Len(done')
            BY <1>4
        <3>. QED BY <1>4, <3>1
    <2>. QED BY <2>1, <2>2 DEF PatchInv, FirstSavedTheOriginal
<1>9. UncoveredIsOriginal'
    <2> SUFFICES ASSUME NEW c \in Cells, c \notin landed \ reached, Uncovered(c)'
                 PROVE  mem'[c] = original[c]
        BY DEF UncoveredIsOriginal
    <2>1. \A k \in 1 .. Len(done') : c \notin done[k].window
        BY <1>4 DEF Uncovered
    <2>2. CASE c \in reached
        <3>1. Len(done') = n - 1
            BY <1>2, <1>5, <2>1, <2>2
        <3>2. \A k \in 1 .. n - 1 : c \notin done[k].window
            BY <2>1, <3>1
        <3>3. last.saved[c] = original[c]
            BY <1>2, <2>2, <3>2 DEF PatchInv, FirstSavedTheOriginal
        <3>. QED BY <1>6, <2>2, <3>3
    <2>3. CASE c \notin reached
        <3>1. c \notin last.window
            BY <1>2, <1>5, <2>1, <2>3
        <3>2. Uncovered(c)
            <4> SUFFICES ASSUME NEW k \in 1 .. n
                         PROVE  c \notin done[k].window
                BY DEF Uncovered
            <4>1. CASE k = n
                BY <3>1, <4>1
            <4>2. CASE k # n
                BY <1>2, <1>5, <2>1, <4>2
            <4>. QED BY <4>1, <4>2
        <3>. QED BY <1>6, <2>3, <3>2 DEF PatchInv, UncoveredIsOriginal
    <2>. QED BY <2>2, <2>3
<1>10. Progress'
    BY DEF Progress
<1>11. PagesAreKnown'
    BY DEF PatchInv, PagesAreKnown
<1>12. NoDangling'
    BY <1>2, <1>6 DEF PatchInv, NoDangling, SavedIsOwned
<1>13. SavedIsOwned'
    <2> SUFFICES ASSUME NEW j \in 1 .. Len(done'), NEW c \in done'[j].window,
                        done'[j].saved[c] \in Pages
                 PROVE  done'[j].saved[c] \in owned
        BY DEF SavedIsOwned
    <2>1. j \in 1 .. n /\ done'[j] = done[j]
        BY <1>2, <1>4
    <2>. QED BY <2>1 DEF PatchInv, SavedIsOwned
<1>14. InForce'
    BY DEF InForce
<1>. QED BY <1>7, <1>8, <1>9, <1>10, <1>11, <1>12, <1>13, <1>14 DEF PatchInv

LEMMA UndoSteps ==
    ASSUME PatchInv, Undo \/ UndoFails
    PROVE  PatchInv'
<1>1. faults \in 0 .. MaxFaults /\ MaxFaults \in Nat
    BY PatchAssumption DEF PatchInv, PatchTypeOK
<1>2. CASE Undo
    <2>1. /\ pc = "undo" /\ pc' = "undo" /\ done # <<>>
          /\ mem' = PutBack(done[Len(done)].saved, done[Len(done)].window)
          /\ landed' = landed \ done[Len(done)].window
          /\ done' = SubSeq(done, 1, Len(done) - 1)
          /\ UNCHANGED <<owned, plan, next, base, stubs, original, leaked>>
          /\ faults' = faults
        BY <1>2 DEF Undo
    <2>. QED BY <1>1, <2>1, PuttingBack
<1>3. CASE UndoFails
    <2>1. PICK reached \in SUBSET done[Len(done)].window :
             /\ mem' = PutBack(done[Len(done)].saved, reached)
             /\ landed' = landed \ reached
        BY <1>3 DEF UndoFails
    <2>2. /\ pc = "undo" /\ pc' = "stuck" /\ done # <<>> /\ done' = done
          /\ UNCHANGED <<owned, plan, next, base, stubs, original, leaked>>
        BY <1>3 DEF UndoFails
    <2>3. faults' \in 0 .. MaxFaults
        BY <1>1, <1>3 DEF UndoFails, Fail
    <2>. QED BY <2>1, <2>2, <2>3, PuttingBack
<1>. QED BY <1>2, <1>3

(* Releasing a page: every cell is the game's own again. *)
LEMMA ReleaseSteps ==
    ASSUME PatchInv, FreeStub \/ FreeState
    PROVE  PatchInv'
<1>1. PatchTypeOK /\ Progress /\ pc = "release" /\ done = <<>>
    BY DEF PatchInv, Progress, FreeStub, FreeState
<1>2. /\ UNCHANGED <<mem, plan, next, done, original, landed>>
      /\ owned' \subseteq owned
    BY DEF FreeStub, FreeState
<1>3. /\ faults \in 0 .. MaxFaults /\ MaxFaults \in Nat
      /\ stubs \in Seq(Pages) /\ Len(done) = 0
      /\ original \in [Cells -> Bytes] /\ owned \subseteq Pages
    BY <1>1, PatchAssumption DEF PatchTypeOK
<1>4. FirstSavedTheOriginal' /\ SavedIsOwned'
    BY <1>2, <1>3 DEF FirstSavedTheOriginal, SavedIsOwned
<1>5. UncoveredIsOriginal'
    BY <1>2 DEF PatchInv, UncoveredIsOriginal, Uncovered
<1>6. NoDangling'
    <2> SUFFICES ASSUME NEW c \in Cells \ landed
                 PROVE  mem[c] \notin Pages
        BY <1>2 DEF NoDangling
    <2>1. mem[c] = original[c]
        BY <1>3 DEF PatchInv, UncoveredIsOriginal, Uncovered
    <2>. QED BY <1>3, <2>1, PatchAssumption
<1>7. CASE FreeStub
    <2>1. stubs # <<>> /\ base' = base /\ leaked' = leaked
        BY <1>7 DEF FreeStub
    <2>2. Len(stubs) \in Nat \ {0}
        BY <1>3, <2>1
    <2>3. CASE /\ owned' = owned \ {stubs[Len(stubs)]}
               /\ stubs' = SubSeq(stubs, 1, Len(stubs) - 1)
               /\ UNCHANGED <<pc, faults>>
        <3>2. /\ stubs' \in Seq(Pages) /\ Len(stubs') = Len(stubs) - 1
              /\ \A k \in 1 .. Len(stubs) - 1 : stubs'[k] = stubs[k]
            BY <1>3, <2>1, <2>3, FrontOfSequence
        <3>3. PatchTypeOK'
            BY <1>1, <1>2, <2>1, <2>3, <3>2 DEF PatchTypeOK
        <3>4. Progress'
            BY <1>1, <1>2, <2>3 DEF Progress
        <3>5. PagesAreKnown'
            <4> SUFFICES ASSUME NEW b \in owned, b # stubs[Len(stubs)],
                                b \notin leaked, b # base
                         PROVE  \E k \in 1 .. Len(stubs') : b = stubs'[k]
                BY <2>1, <2>3 DEF PagesAreKnown
            <4>1. PICK k \in 1 .. Len(stubs) : b = stubs[k]
                BY DEF PatchInv, PagesAreKnown
            <4>2. k \in 1 .. Len(stubs) - 1
                BY <2>2, <4>1
            <4>. QED BY <3>2, <4>1, <4>2
        <3>6. InForce'
            BY <1>1, <2>3 DEF InForce
        <3>. QED BY <1>4, <1>5, <1>6, <3>3, <3>4, <3>5, <3>6 DEF PatchInv
    <2>4. CASE Fail(1) /\ pc' = "stuck" /\ UNCHANGED <<owned, stubs>>
        <3>1. faults' \in 0 .. MaxFaults
            BY <1>3, <2>4 DEF Fail
        <3>2. PatchTypeOK'
            BY <1>1, <1>2, <2>1, <2>4, <3>1 DEF PatchTypeOK, PatchPcs
        <3>3. Progress'
            BY <2>4 DEF Progress
        <3>4. PagesAreKnown'
            BY <2>1, <2>4 DEF PatchInv, PagesAreKnown
        <3>5. InForce'
            BY <2>4 DEF InForce
        <3>. QED BY <1>4, <1>5, <1>6, <3>2, <3>3, <3>4, <3>5 DEF PatchInv
    <2>. QED BY <1>7, <2>3, <2>4 DEF FreeStub
<1>8. CASE FreeState
    <2>1. stubs = <<>> /\ stubs' = stubs /\ base' = NoPage /\ base \in Pages \cup {NoPage}
        BY <1>1, <1>8 DEF FreeState, PatchTypeOK
    <2>2. Len(stubs) = 0
        BY <2>1
    <2>3. CASE owned' = owned \ {base} /\ pc' = "undone" /\ UNCHANGED <<faults, leaked>>
        <3>1. PatchTypeOK'
            BY <1>1, <1>2, <2>1, <2>3 DEF PatchTypeOK, PatchPcs
        <3>2. Progress'
            BY <1>1, <1>2, <2>1, <2>3 DEF Progress
        <3>3. PagesAreKnown'
            BY <2>2, <2>3 DEF PatchInv, PagesAreKnown
        <3>4. InForce'
            BY <2>3 DEF InForce
        <3>. QED BY <1>4, <1>5, <1>6, <3>1, <3>2, <3>3, <3>4 DEF PatchInv
    <2>4. CASE /\ base # NoPage /\ Fail(1)
               /\ pc' = "stuck" /\ leaked' = leaked \cup {base} /\ UNCHANGED owned
        <3>1. faults' \in 0 .. MaxFaults
            BY <1>3, <2>4 DEF Fail
        <3>2. PatchTypeOK'
            BY <1>1, <1>2, <2>1, <2>4, <3>1 DEF PatchTypeOK, PatchPcs
        <3>3. Progress'
            BY <2>4 DEF Progress
        <3>4. PagesAreKnown'
            BY <2>2, <2>4 DEF PatchInv, PagesAreKnown
        <3>5. InForce'
            BY <2>4 DEF InForce
        <3>. QED BY <1>4, <1>5, <1>6, <3>2, <3>3, <3>4, <3>5 DEF PatchInv
    <2>. QED BY <1>8, <2>3, <2>4 DEF FreeState
<1>. QED BY <1>7, <1>8

-----------------------------------------------------------------------------
LEMMA PatchInvInit == PatchInit => PatchInv
<1> SUFFICES ASSUME PatchInit
             PROVE  PatchInv
    OBVIOUS
<1>1. Len(done) = 0 /\ Len(stubs) = 0
    BY DEF PatchInit
<1>2. PatchTypeOK
    <2>1. plan \in Seq(Operations)
        BY PatchAssumption DEF PatchInit
    <2>2. next \in 1 .. Len(plan) + 1
        BY <2>1 DEF PatchInit
    <2>3. done \in Seq(Applied) /\ stubs \in Seq(Pages)
        BY DEF PatchInit
    <2>4. Len(done) < next
        BY <1>1 DEF PatchInit
    <2>. QED BY <2>2, <2>3, <2>4, PatchAssumption DEF PatchInit, PatchTypeOK, PatchPcs, Contents
<1>3. FirstSavedTheOriginal /\ SavedIsOwned
    BY <1>1 DEF FirstSavedTheOriginal, SavedIsOwned
<1>4. UncoveredIsOriginal
    BY DEF PatchInit, UncoveredIsOriginal
<1>5. Progress
    BY <1>1 DEF PatchInit, Progress
<1>6. PagesAreKnown
    BY DEF PatchInit, PagesAreKnown
<1>7. NoDangling
    BY PatchAssumption DEF PatchInit, NoDangling
<1>8. InForce
    BY DEF PatchInit, InForce
<1>. QED BY <1>2, <1>3, <1>4, <1>5, <1>6, <1>7, <1>8 DEF PatchInv

LEMMA PatchInvStep == PatchInv /\ [PatchNext]_patchVars => PatchInv'
<1> SUFFICES ASSUME PatchInv, [PatchNext]_patchVars
             PROVE  PatchInv'
    OBVIOUS
<1>1. CASE Apply
    BY <1>1, PrepareStateSteps, ApplyWriteSteps, InstallSteps, InstallFailsSteps,
       InvokeSteps, ReturnSteps DEF Apply
<1>2. CASE Rollback
    BY <1>2, UndoSteps, ReleaseSteps, ReturnSteps DEF Rollback
<1>3. CASE GoLive \/ GoBack
    BY <1>3, ReturnSteps
<1>4. CASE \E i \in 1 .. Len(done) : SelfUnhook(i)
    BY <1>4, SelfUnhookStep
<1>5. CASE UNCHANGED patchVars
    <2>1. /\ UNCHANGED <<mem, owned, plan, next, base, done, stubs, original, landed, leaked>>
          /\ UNCHANGED <<pc, faults>>
        BY <1>5 DEF patchVars
    <2>2. PatchTypeOK' /\ faults' \in 0 .. MaxFaults
        BY <2>1 DEF PatchInv, PatchTypeOK
    <2>3. Progress'
        BY <2>1 DEF PatchInv, Progress
    <2>4. InForce'
        BY <2>1 DEF PatchInv, InForce, Target
    <2>. QED BY <2>1, <2>2, <2>3, <2>4, NothingTouched
<1>. QED BY <1>1, <1>2, <1>3, <1>4, <1>5 DEF PatchNext

LEMMA PatchInvariance == PatchSpec => []PatchInv
BY PatchInvInit, PatchInvStep, PTL DEF PatchSpec

(* The engine's records have the types the code gives them, for every plan. *)
THEOREM PatchTypeCorrect == PatchSpec => []PatchTypeOK
<1>1. PatchInv => PatchTypeOK
    BY DEF PatchInv
<1>. QED BY <1>1, PatchInvariance, PTL

(* No plan and no failure lets the game reach a released page, cells of a     *)
(* write that was reported failed excepted.                                   *)
THEOREM NothingDangles == PatchSpec => []NoDangling
<1>1. PatchInv => NoDangling
    BY DEF PatchInv
<1>. QED BY <1>1, PatchInvariance, PTL

(* apply_patch_plan, failing, and rollback_patch_plan leave the game and its  *)
(* pages as they were, whatever the operations' windows share.                *)
THEOREM RollbackRestores == PatchSpec => []RollbackIsExact
<1>1. PatchInv => RollbackIsExact
    <2> SUFFICES ASSUME PatchInv, pc \in {"undone", "failed"}
                 PROVE  /\ \A c \in Cells \ landed : mem[c] = original[c]
                        /\ owned \subseteq leaked
        BY DEF RollbackIsExact
    <2>1. done = <<>> /\ base = NoPage /\ stubs = <<>>
        BY DEF PatchInv, Progress
    <2>2. Len(done) = 0 /\ Len(stubs) = 0
        BY <2>1
    <2>3. \A c \in Cells \ landed : mem[c] = original[c]
        <3>1. \A c \in Cells : Uncovered(c)
            BY <2>2 DEF Uncovered
        <3>2. UncoveredIsOriginal
            BY DEF PatchInv
        <3>3. ASSUME NEW c \in Cells, c \notin landed
              PROVE  mem[c] = original[c]
            BY <3>1, <3>2, <3>3 DEF UncoveredIsOriginal
        <3>. QED BY <3>3, Zenon
    <2>4. owned \subseteq Pages /\ NoPage \notin Pages
        BY PatchAssumption DEF PatchInv, PatchTypeOK, Contents
    <2>5. owned \subseteq leaked
        BY <2>1, <2>2, <2>4 DEF PatchInv, PagesAreKnown
    <2>. QED BY <2>3, <2>5
<1>. QED BY <1>1, PatchInvariance, PTL

(* apply_patch_plan, succeeding, has put every cell where the last operation  *)
(* to change it wants it, and changed no other.                               *)
THEOREM AppliedInForce == PatchSpec => []AppliedIsThePlan
<1>1. ASSUME PatchInv, pc = "applied"
      PROVE  Len(done) = Len(plan)
    <2>1. plan \in Seq(Operations) /\ next \in 1 .. Len(plan) + 1
        BY <1>1, PatchAssumption DEF PatchInv, PatchTypeOK
    <2>2. next > Len(plan) /\ Len(done) = next - 1
        BY <1>1 DEF PatchInv, Progress
    <2>. QED BY <2>1, <2>2
<1>2. PatchInv => AppliedIsThePlan
    <2>1. ASSUME PatchInv, pc = "applied", NEW c \in Cells
          PROVE  \/ /\ mem[c] = original[c]
                    /\ \A i \in 1 .. Len(plan) : c \notin plan[i].field
                 \/ \E i \in 1 .. Len(plan) :
                       /\ c \in plan[i].field
                       /\ mem[c] = Target(plan[i], done[i].page, c)
                       /\ \A j \in i + 1 .. Len(plan) : c \notin plan[j].field
        <3>1. Len(done) = Len(plan) /\ InForce
            BY <1>1, <2>1 DEF PatchInv
        <3>. QED BY <2>1, <3>1 DEF InForce
    <2>. QED BY <2>1, Zenon DEF AppliedIsThePlan
<1>. QED BY <1>2, PatchInvariance, PTL
=============================================================================
