---------------------------- MODULE LaunchProofs ----------------------------
(* For every document, display, build and install: the profile the launch    *)
(* chooses is the one the design asks for, what its table asks of the game   *)
(* is done before the game runs, and the scan between the two finds every    *)
(* pattern where it first occurs and reads nothing past the end of a section. *)
EXTENDS Launch, SequenceTheorems, FiniteSetTheorems, WellFoundedInduction, TLAPS

ModuleSnapshots == UNION {[names -> Copies] : names \in SUBSET SectionNames}

-----------------------------------------------------------------------------
(* Patterns.                                                                 *)

(* A set of numbers that is not empty has a least element: the smallest of   *)
(* the intervals 0 .. x is that of the least x.                              *)
LEMMA LeastExists ==
    ASSUME NEW S, S \subseteq Nat, S # {}
    PROVE  \E x \in S : \A y \in S : x <= y
<1> DEFINE Intervals == {0 .. x : x \in S}
<1>1. Intervals \subseteq FiniteSubsetsOf(Nat) /\ Intervals # {}
  <2> SUFFICES ASSUME NEW x \in S PROVE 0 .. x \in FiniteSubsetsOf(Nat)
    OBVIOUS
  <2>1. x \in Int /\ 0 \in Int /\ 0 .. x \subseteq Nat
    OBVIOUS
  <2>2. IsFiniteSet(0 .. x)
    BY <2>1, FS_Interval
  <2> QED
    BY <2>1, <2>2 DEF FiniteSubsetsOf
<1>2. IsWellFoundedOn(StrictSubsetOrdering(Nat), FiniteSubsetsOf(Nat))
  BY FS_StrictSubsetOrderingWellFounded
<1> HIDE DEF Intervals
<1>3. PICK I \in Intervals : \A J \in Intervals : <<J, I>> \notin StrictSubsetOrdering(Nat)
  BY <1>1, <1>2, WFMin
<1> USE DEF Intervals
<1>4. PICK x \in S : I = 0 .. x
  OBVIOUS
<1>5. ASSUME NEW y \in S, ~(x <= y) PROVE FALSE
  <2>1. x \in Nat /\ y \in Nat /\ y < x
    BY <1>5
  <2>2. 0 .. y \subseteq 0 .. x /\ 0 .. x \subseteq Nat /\ x \notin 0 .. y /\ x \in 0 .. x
    BY <2>1
  <2>3. <<0 .. y, 0 .. x>> \in StrictSubsetOrdering(Nat)
    BY <2>2, Zenon DEF StrictSubsetOrdering
  <2> QED
    BY <1>3, <1>4, <2>3
<1> QED
  BY <1>5

(* A pattern that compiles has an anchor: one of its runs of fixed bytes. *)
LEMMA AnchorIsARun ==
    ASSUME NEW T, NEW p \in Seq(T), Runs(p) # {}
    PROVE  Anchor(p) \in Runs(p)
<1>1. \A r \in Runs(p) : /\ r.length \in 1 .. Len(p) /\ r.start \in 0 .. Len(p) - 1
  BY DEF Runs
<1> DEFINE Lacks == {Len(p) - r.length : r \in Runs(p)}
<1>2. PICK lack \in Lacks : \A other \in Lacks : lack <= other
  <2>1. Lacks \subseteq Nat /\ Lacks # {}
    BY <1>1
  <2> QED
    BY <2>1, LeastExists
<1> DEFINE Longest == {r \in Runs(p) : Len(p) - r.length = lack}
<1> DEFINE Starts == {r.start : r \in Longest}
<1>3. PICK start \in Starts : \A other \in Starts : start <= other
  <2>1. Starts \subseteq Nat /\ Starts # {}
    BY <1>1, <1>2
  <2> HIDE DEF Starts
  <2> QED
    BY <2>1, LeastExists
<1>4. PICK r \in Longest : r.start = start
  BY <1>3
<1>5. \A s \in Runs(p) : \/ s.length < r.length
                         \/ s.length = r.length /\ r.start <= s.start
  <2> SUFFICES ASSUME NEW s \in Runs(p), ~(s.length < r.length)
               PROVE  s.length = r.length /\ r.start <= s.start
    OBVIOUS
  <2>1. Len(p) - s.length \in Lacks
    OBVIOUS
  <2>2. lack <= Len(p) - s.length
    BY <1>2, <2>1
  <2>3. s.length = r.length
    BY <1>1, <1>4, <2>2
  <2>4. s \in Longest
    BY <1>4, <2>3
  <2> QED
    BY <1>3, <1>4, <2>3, <2>4
<1> QED
  BY <1>4, <1>5 DEF Anchor

(* What the proofs use of it. *)
LEMMA AnchorFits ==
    ASSUME NEW T, NEW p \in Seq(T), Compiles(p)
    PROVE  /\ Len(p) \in Nat
           /\ Anchor(p).start \in Nat /\ Anchor(p).length \in Nat \ {0}
           /\ Anchor(p).start + Anchor(p).length <= Len(p)
           /\ \A k \in Anchor(p).start + 1 .. Anchor(p).start + Anchor(p).length : p[k] # Wild
  BY AnchorIsARun DEF Compiles, Runs

(* The three comparisons of is_match_at are the comparison of all bytes. *)
LEMMA MatchIsOccurrence ==
    ASSUME NEW T, NEW p \in Seq(T), Compiles(p), NEW B, NEW bytes \in Seq(B),
           NEW pos \in Nat, pos + Len(p) <= Len(bytes)
    PROVE  IsMatchAt(p, bytes, pos) <=> OccursAt(p, bytes, pos)
<1> DEFINE a == Anchor(p).start
           l == Anchor(p).length
<1>1. /\ Len(p) \in Nat /\ Len(bytes) \in Nat /\ a \in Nat /\ l \in Nat \ {0} /\ a + l <= Len(p)
      /\ \A k \in a + 1 .. a + l : p[k] # Wild
  BY AnchorFits
<1>2. \A k \in 1 .. Len(p) : At(bytes, pos + k - 1) = bytes[pos + k]
  <2> SUFFICES ASSUME NEW k \in 1 .. Len(p) PROVE At(bytes, pos + k - 1) = bytes[pos + k]
    OBVIOUS
  <2>1. pos + k - 1 < Len(bytes) /\ pos + k - 1 + 1 = pos + k
    BY <1>1
  <2> QED
    BY <2>1 DEF At
<1> DEFINE Agrees(k) == At(bytes, pos + k - 1) = p[k]
<1>3. IsMatchAt(p, bytes, pos) <=>
        /\ \A k \in a + 1 .. a + l : Agrees(k)
        /\ \A k \in 0 + 1 .. a : p[k] = Wild \/ Agrees(k)
        /\ \A k \in a + l + 1 .. Len(p) : p[k] = Wild \/ Agrees(k)
  BY Zenon DEF IsMatchAt, MaskedEquals
<1>4. OccursAt(p, bytes, pos) <=> \A k \in 1 .. Len(p) : p[k] = Wild \/ Agrees(k)
  BY <1>2 DEF OccursAt
<1> HIDE DEF Agrees, a, l
<1>5. ASSUME \A k \in a + 1 .. a + l : Agrees(k),
             \A k \in 0 + 1 .. a : p[k] = Wild \/ Agrees(k),
             \A k \in a + l + 1 .. Len(p) : p[k] = Wild \/ Agrees(k),
             NEW k \in 1 .. Len(p)
      PROVE  p[k] = Wild \/ Agrees(k)
  <2>1. k \in a + 1 .. a + l \/ k \in 0 + 1 .. a \/ k \in a + l + 1 .. Len(p)
    BY <1>1
  <2> QED
    BY <1>5, <2>1
<1>6. ASSUME \A k \in 1 .. Len(p) : p[k] = Wild \/ Agrees(k)
      PROVE  /\ \A k \in a + 1 .. a + l : Agrees(k)
             /\ \A k \in 0 + 1 .. a : p[k] = Wild \/ Agrees(k)
             /\ \A k \in a + l + 1 .. Len(p) : p[k] = Wild \/ Agrees(k)
  <2>1. \A k \in a + 1 .. a + l : k \in 1 .. Len(p) /\ p[k] # Wild
    BY <1>1
  <2>2. (0 + 1 .. a) \cup (a + l + 1 .. Len(p)) \subseteq 1 .. Len(p)
    BY <1>1
  <2> QED
    BY <1>6, <2>1, <2>2
<1> QED
  BY <1>3, <1>4, <1>5, <1>6

-----------------------------------------------------------------------------
(* The inductive invariant.  FirstMatchWins says nothing of the sweep under  *)
(* way: the modules before this one hold no occurrence, and in this one each *)
(* occurrence is still ahead of the cursor or among the untested candidates. *)
Types ==
    /\ scan \in ScanStates
    /\ signatures \in Seq(SignatureRecords) /\ snapshots \in Seq(ModuleSnapshots)
    /\ sig \in 1 .. Len(signatures) + 1 /\ snap \in 1 .. Len(snapshots) + 1
    /\ \E S : resolved \in Seq(S)
    /\ Len(resolved) = sig - 1
    /\ scan \in {"idle", "compile", "refused"} => sig = 1 /\ snap = 1

Compiled == scan \in {"section", "sweep", "match", "done"} => AllCompile(signatures)

NoneBefore ==
    sig <= Len(signatures) => \A n \in 1 .. snap - 1 : Occurrences(Signature, n) = {}

InRegion ==
    /\ sig <= Len(signatures) /\ snap <= Len(snapshots) /\ Hosts(snap)
    /\ Len(Pattern) <= Len(Region)

Sweeping ==
    scan = "sweep" =>
    /\ InRegion
    /\ cursor \in Nat /\ First <= cursor /\ cursor <= End
    /\ hits \subseteq First .. cursor - 1
    /\ \A pos \in Occurrences(Signature, snap) : pos + First >= cursor \/ pos + First \in hits

Matched ==
    scan = "match" =>
    /\ InRegion
    /\ found \in Occurrences(Signature, snap)
    /\ \A other \in Occurrences(Signature, snap) : found <= other

(* The mask is a local of the sweep. *)
NoCandidates == scan # "sweep" => hits = {}

ScanInv == /\ Types /\ ReadsStayInside /\ Compiled /\ NoneBefore
           /\ NoCandidates /\ Sweeping /\ Matched /\ FirstMatchWins

(* What the sweep's window holds. *)
LEMMA Window ==
    ASSUME Types, AllCompile(signatures), InRegion
    PROVE  /\ Len(Pattern) \in Nat /\ Len(Region) \in Nat /\ First \in Nat
           /\ First + 1 <= Len(Pattern) /\ Len(Pattern) <= Len(Region)
           /\ End = Len(Region) - Len(Pattern) + First + 1
           /\ \A pos \in Occurrences(Signature, snap) :
                 pos \in Nat /\ pos + First \in First .. End - 1 /\ IsHit(pos + First)
           /\ \A o \in First .. End - 1 :
                 IsMatchAt(Pattern, Region, o - First)
                    <=> o - First \in Occurrences(Signature, snap)
<1>1. Signature \in SignatureRecords /\ Compiles(Pattern)
  <2>1. sig \in 1 .. Len(signatures) /\ signatures \in Seq(SignatureRecords)
    <3>1. Len(signatures) \in Nat /\ sig \in 1 .. Len(signatures) + 1 /\ sig <= Len(signatures)
      BY DEF Types, InRegion
    <3>2. signatures \in Seq(SignatureRecords)
      BY DEF Types
    <3> QED
      BY <3>1, <3>2
  <2>2. signatures[sig] \in SignatureRecords
    BY <2>1
  <2>3. Compiles(signatures[sig].pattern)
    BY <2>1, Zenon DEF AllCompile
  <2> QED
    BY <2>2, <2>3, Zenon DEF Signature, Pattern
<1>2. Pattern \in Seq(Byte \cup {Wild, Bad})
  BY <1>1 DEF SignatureRecords, Pattern
<1>3. Region \in Seq(Byte)
  <2>1. snapshots[snap] \in ModuleSnapshots
    BY DEF Types, InRegion
  <2>2. snapshots[snap][Signature.section] \in Copies
    BY <2>1 DEF ModuleSnapshots, InRegion, Hosts
  <2> QED
    BY <2>2 DEF Copies, Region, Section
<1>4. /\ Len(Pattern) \in Nat /\ Len(Region) \in Nat /\ First \in Nat
      /\ First + 1 <= Len(Pattern) /\ Pattern[First + 1] # Wild
  <2>1. /\ Anchor(Pattern).start \in Nat /\ Anchor(Pattern).length \in Nat \ {0}
        /\ Anchor(Pattern).start + Anchor(Pattern).length <= Len(Pattern)
        /\ \A k \in Anchor(Pattern).start + 1 .. Anchor(Pattern).start + Anchor(Pattern).length :
              Pattern[k] # Wild
    BY <1>1, <1>2, AnchorFits
  <2>2. Len(Pattern) \in Nat /\ Len(Region) \in Nat
    BY <1>2, <1>3
  <2> QED
    BY <2>1, <2>2 DEF First
<1>5. Len(Pattern) <= Len(Region)
  BY DEF InRegion
<1>6. \A pos : pos \in Occurrences(Signature, snap)
                  <=> pos \in 0 .. Len(Region) /\ OccursAt(Pattern, Region, pos)
  BY DEF Occurrences, InRegion, Hosts, Region, Section, Pattern
<1>7. ASSUME NEW pos \in Occurrences(Signature, snap)
      PROVE  pos \in Nat /\ pos + First \in First .. End - 1 /\ IsHit(pos + First)
  <2>1. pos \in Nat /\ pos + Len(Pattern) <= Len(Region)
    BY <1>4, <1>6 DEF OccursAt
  <2>2. First + 1 \in 1 .. Len(Pattern)
    BY <1>4
  <2>3. Region[pos + (First + 1)] = Pattern[First + 1]
    BY <1>4, <1>6, <2>2 DEF OccursAt
  <2>4. At(Region, pos + First) = Region[pos + (First + 1)]
    <3>1. pos + First < Len(Region) /\ pos + First + 1 = pos + (First + 1)
      BY <1>4, <2>1
    <3> QED
      BY <3>1 DEF At
  <2>5. pos + First \in First .. End - 1
    BY <1>4, <2>1 DEF End
  <2> QED
    BY <2>1, <2>3, <2>4, <2>5 DEF IsHit
<1>8. ASSUME NEW o \in First .. End - 1
      PROVE  IsMatchAt(Pattern, Region, o - First)
                <=> o - First \in Occurrences(Signature, snap)
  <2>1. o - First \in 0 .. Len(Region) /\ o - First \in Nat /\ o - First + Len(Pattern) <= Len(Region)
    BY <1>4 DEF End
  <2>2. IsMatchAt(Pattern, Region, o - First) <=> OccursAt(Pattern, Region, o - First)
    BY <1>1, <1>2, <1>3, <2>1, MatchIsOccurrence
  <2> QED
    BY <1>6, <2>1, <2>2
<1> QED
  BY <1>4, <1>5, <1>7, <1>8 DEF End

-----------------------------------------------------------------------------
(* The steps.                                                                *)

LEMMA EntriesKept ==
    ASSUME FirstMatchWins, UNCHANGED <<signatures, snapshots, resolved>>
    PROVE  FirstMatchWins'
<1>1. \A signature, n : Occurrences(signature, n)' = Occurrences(signature, n)
  BY DEF Occurrences
<1>2. \A entry, signature : IsEntryOf(entry, signature)' <=> IsEntryOf(entry, signature)
  BY <1>1, Zenon DEF IsEntryOf
<1> QED
  BY <1>2 DEF FirstMatchWins

LEMMA ScanInitInv == ScanInit => ScanInv
  BY DEF ScanInit, ScanInv, Types, ScanStates, ReadsStayInside, Compiled, NoneBefore,
         NoCandidates, Sweeping, Matched, FirstMatchWins

LEMMA ScanUnchangedInv == ScanInv /\ UNCHANGED scanVars => ScanInv'
<1> SUFFICES ASSUME ScanInv, UNCHANGED scanVars PROVE ScanInv'
  OBVIOUS
<1>1. FirstMatchWins'
  BY EntriesKept DEF ScanInv, scanVars
<1>2. NoneBefore'
  BY DEF ScanInv, scanVars, NoneBefore, Occurrences, Signature
<1>3. Types' /\ ReadsStayInside' /\ Compiled' /\ NoCandidates'
  BY DEF ScanInv, scanVars, Types, ReadsStayInside, Compiled, AllCompile, NoCandidates
<1>4. (InRegion <=> InRegion') /\ First' = First /\ End' = End
      /\ Occurrences(Signature, snap)' = Occurrences(Signature, snap)
  BY DEF scanVars, InRegion, Hosts, First, End, Region, Section, Pattern, Signature,
         Occurrences
<1>5. Sweeping' /\ Matched'
  BY <1>4 DEF ScanInv, scanVars, Sweeping, Matched
<1> QED
  BY <1>1, <1>2, <1>3, <1>5 DEF ScanInv

(* A scan begins with a table of signatures and copies of the modules. *)
LEMMA BeginScanInv ==
    ASSUME NEW table \in Seq(SignatureRecords), NEW copies \in Seq(ModuleSnapshots),
           ScanInv, BeginScan(table, copies)
    PROVE  ScanInv'
<1>1. resolved' = resolved /\ Len(resolved) = 0 /\ sig' = 1 /\ snap' = 1 /\ overrun' = overrun
      /\ scan' = "compile" /\ signatures' = table /\ snapshots' = copies
  BY DEF BeginScan, ScanInv, Types
<1>2. Types' /\ ReadsStayInside' /\ Compiled' /\ NoCandidates' /\ Sweeping' /\ Matched'
  BY <1>1 DEF BeginScan, ScanInv, Types, ScanStates, ReadsStayInside, Compiled, NoCandidates,
              Sweeping, Matched
<1>3. NoneBefore' /\ FirstMatchWins'
  BY <1>1 DEF NoneBefore, FirstMatchWins
<1> QED
  BY <1>2, <1>3 DEF ScanInv

(* The tables, the entries and the place of the scan stay. *)
InPlace == UNCHANGED <<signatures, snapshots, sig, snap, resolved>>

LEMMA PlaceKept ==
    ASSUME ScanInv, InPlace
    PROVE  /\ NoneBefore' /\ FirstMatchWins'
           /\ Signature' = Signature /\ Pattern' = Pattern /\ Region' = Region
           /\ First' = First /\ End' = End
           /\ InRegion' = InRegion
           /\ Occurrences(Signature, snap)' = Occurrences(Signature, snap)
           /\ AllCompile(signatures)' = AllCompile(signatures)
           /\ (scan' \in ScanStates \ {"idle", "compile", "refused"} => Types')
<1>1. FirstMatchWins'
  BY EntriesKept DEF ScanInv, InPlace
<1>2. NoneBefore'
  BY DEF ScanInv, InPlace, NoneBefore, Occurrences, Signature
<1>3. scan' \in ScanStates \ {"idle", "compile", "refused"} => Types'
  BY DEF ScanInv, InPlace, Types
<1>4. /\ Signature' = Signature /\ Pattern' = Pattern /\ Region' = Region
      /\ First' = First /\ End' = End /\ InRegion' = InRegion
      /\ Occurrences(Signature, snap)' = Occurrences(Signature, snap)
      /\ AllCompile(signatures)' = AllCompile(signatures)
  BY DEF InPlace, InRegion, Hosts, First, End, Region, Section, Pattern, Signature,
         Occurrences
<1> QED
  BY <1>1, <1>2, <1>3, <1>4

LEMMA CompileInv == ScanInv /\ Compile => ScanInv'
<1> SUFFICES ASSUME ScanInv, Compile PROVE ScanInv'
  OBVIOUS
<1>1. InPlace /\ scan' \in {"section", "refused"} /\ overrun' = overrun
      /\ (scan' = "section" => AllCompile(signatures))
  BY DEF Compile, InPlace
<1>2. NoneBefore' /\ FirstMatchWins'
  BY <1>1, PlaceKept
<1>3. Types'
  BY <1>1 DEF ScanInv, Types, InPlace, ScanStates, Compile
<1>4. ReadsStayInside' /\ Compiled' /\ NoCandidates' /\ Sweeping' /\ Matched'
  BY <1>1, PlaceKept DEF Compile, ScanInv, ReadsStayInside, Compiled, NoCandidates, Sweeping,
                         Matched
<1> QED
  BY <1>2, <1>3, <1>4 DEF ScanInv

(* A signature occurs in no section it does not fit in. *)
LEMMA NowhereElse ==
    ASSUME Types, sig <= Len(signatures), snap <= Len(snapshots),
           ~(Hosts(snap) /\ Len(Pattern) <= Len(Region))
    PROVE  Occurrences(Signature, snap) = {}
<1>1. CASE ~Hosts(snap)
  BY <1>1 DEF Hosts, Occurrences
<1>2. CASE Hosts(snap) /\ ~(Len(Pattern) <= Len(Region))
  <2>1. Pattern \in Seq(Byte \cup {Wild, Bad})
    <3>1. Signature \in SignatureRecords
      BY DEF Types, Signature
    <3> QED
      BY <3>1 DEF Pattern, SignatureRecords
  <2>2. Region \in Seq(Byte)
    <3>1. snapshots[snap] \in ModuleSnapshots
      BY DEF Types
    <3>2. snapshots[snap][Signature.section] \in Copies
      BY <1>2, <3>1 DEF ModuleSnapshots, Hosts
    <3> QED
      BY <3>2 DEF Copies, Region, Section
  <2>3. \A pos \in 0 .. Len(Region) : ~(pos + Len(Pattern) <= Len(Region))
    BY <1>2, <2>1, <2>2
  <2> QED
    BY <1>2, <2>3 DEF Occurrences, OccursAt, Hosts, Region, Section, Pattern
<1> QED
  BY <1>1, <1>2

(* On to the next module: this one has no occurrence. *)
LEMMA NextModule ==
    ASSUME ScanInv, sig <= Len(signatures), snap <= Len(snapshots),
           Occurrences(Signature, snap) = {}, AllCompile(signatures),
           snap' = snap + 1, scan' = "section", hits' = {},
           UNCHANGED <<signatures, snapshots, sig, resolved, overrun>>
    PROVE  ScanInv'
<1>1. FirstMatchWins'
  BY EntriesKept DEF ScanInv
<1>2. Types' /\ Compiled' /\ ReadsStayInside' /\ NoCandidates' /\ Sweeping' /\ Matched'
  BY DEF ScanInv, Types, ScanStates, Compiled, ReadsStayInside, NoCandidates, Sweeping, Matched,
         AllCompile
<1>3. \A n \in 1 .. snap : Occurrences(Signature, n) = {}
  <2> SUFFICES ASSUME NEW n \in 1 .. snap PROVE Occurrences(Signature, n) = {}
    OBVIOUS
  <2>1. n = snap \/ n \in 1 .. snap - 1
    BY DEF ScanInv, Types
  <2> QED
    BY <2>1 DEF ScanInv, NoneBefore
<1>4. snap' - 1 = snap /\ \A n : Occurrences(Signature, n)' = Occurrences(Signature, n)
  BY DEF ScanInv, Types, Occurrences, Signature
<1>5. NoneBefore'
  BY <1>3, <1>4 DEF NoneBefore, Signature, Occurrences
<1> QED
  BY <1>1, <1>2, <1>5 DEF ScanInv

LEMMA ReadInside ==
    ASSUME NEW end, ReadsStayInside, Reads(end), ~(end > Len(Region))
    PROVE  ReadsStayInside'
  BY Zenon DEF Reads, ReadsStayInside

LEMMA EnterSectionInv == ScanInv /\ EnterSection => ScanInv'
<1> SUFFICES ASSUME ScanInv, EnterSection PROVE ScanInv'
  OBVIOUS
<1>1. /\ AllCompile(signatures) /\ sig <= Len(signatures) /\ snap <= Len(snapshots)
      /\ UNCHANGED <<signatures, snapshots, sig, resolved, overrun>>
      /\ hits = {} /\ hits' = {}
  BY DEF EnterSection, ScanInv, Compiled, NoCandidates
<1>2. CASE ~(Hosts(snap) /\ Len(Pattern) <= Len(Region))
  <2>1. Occurrences(Signature, snap) = {}
    BY <1>1, <1>2, NowhereElse DEF ScanInv
  <2>2. snap' = snap + 1 /\ scan' = "section"
    BY <1>2 DEF EnterSection
  <2> QED
    BY <1>1, <2>1, <2>2, NextModule
<1>3. CASE Hosts(snap) /\ Len(Pattern) <= Len(Region)
  <2>1. scan' = "sweep" /\ cursor' = First /\ InPlace
    BY <1>1, <1>3 DEF EnterSection, InPlace
  <2>2. InRegion
    BY <1>1, <1>3 DEF InRegion
  <2>3. First \in Nat /\ First <= End
        /\ \A pos \in Occurrences(Signature, snap) : pos + First >= First
    BY <1>1, <2>2, Window DEF ScanInv
  <2>4. Sweeping'
    BY <1>1, <2>1, <2>2, <2>3, PlaceKept DEF Sweeping
  <2>5. Types' /\ NoneBefore' /\ FirstMatchWins'
    BY <2>1, PlaceKept DEF ScanStates
  <2>6. ReadsStayInside' /\ Compiled' /\ NoCandidates' /\ Matched'
    BY <1>1, <2>1, PlaceKept DEF ScanInv, ReadsStayInside, Compiled, NoCandidates, Matched
  <2> QED
    BY <2>4, <2>5, <2>6 DEF ScanInv
<1> QED
  BY <1>2, <1>3

LEMMA CompareChunkInv == ScanInv /\ CompareChunk => ScanInv'
<1> SUFFICES ASSUME ScanInv, CompareChunk PROVE ScanInv'
  OBVIOUS
<1>1. /\ InPlace /\ scan = "sweep" /\ scan' = "sweep" /\ hits = {}
      /\ cursor' = cursor + Chunk /\ cursor + Chunk <= End
      /\ hits' = {o \in cursor .. cursor + Chunk - 1 : IsHit(o)}
      /\ Reads(cursor + Chunk)
  BY DEF CompareChunk, InPlace
<1>2. /\ AllCompile(signatures) /\ InRegion /\ cursor \in Nat /\ First <= cursor
      /\ \A pos \in Occurrences(Signature, snap) : pos + First >= cursor
  BY <1>1 DEF ScanInv, Compiled, Sweeping
<1>3. /\ Len(Pattern) \in Nat /\ Len(Region) \in Nat /\ First \in Nat
      /\ First + 1 <= Len(Pattern) /\ End = Len(Region) - Len(Pattern) + First + 1
      /\ \A pos \in Occurrences(Signature, snap) : pos \in Nat /\ IsHit(pos + First)
  BY <1>2, Window DEF ScanInv
<1>4. cursor' \in Nat /\ First <= cursor' /\ cursor' <= End /\ cursor' <= Len(Region)
      /\ hits' \subseteq First .. cursor' - 1
  BY <1>1, <1>2, <1>3, ScannerAssumption
<1>5. ASSUME NEW pos \in Occurrences(Signature, snap), ~(pos + First >= cursor')
      PROVE  pos + First \in hits'
  <2>1. pos \in Nat /\ First \in Nat /\ cursor \in Nat /\ Chunk \in Nat /\ cursor' = cursor + Chunk
    BY <1>1, <1>2, <1>3, ScannerAssumption
  <2>2. pos + First >= cursor
    BY <1>2
  <2>3. pos + First \in cursor .. cursor + Chunk - 1
    BY <1>5, <2>1, <2>2
  <2>4. IsHit(pos + First)
    BY <1>3
  <2> HIDE DEF IsHit
  <2> QED
    BY <1>1, <2>3, <2>4, Zenon
<1>6. Sweeping'
  BY <1>1, <1>2, <1>4, <1>5, PlaceKept DEF Sweeping
<1>7. ReadsStayInside'
  <2>1. ~(cursor + Chunk > Len(Region))
    BY <1>1, <1>3, <1>4
  <2> QED
    BY <1>1, <2>1, ReadInside DEF ScanInv
<1>8. Types' /\ NoneBefore' /\ FirstMatchWins'
  BY <1>1, PlaceKept DEF ScanStates
<1>9. Compiled' /\ NoCandidates' /\ Matched'
  BY <1>1, <1>2, PlaceKept DEF Compiled, NoCandidates, Matched
<1> QED
  BY <1>6, <1>7, <1>8, <1>9 DEF ScanInv

(* The test of a candidate o before which nothing occurs: it ends the sweep  *)
(* at the first occurrence, or o is none.                                    *)
LEMMA TestInv ==
    ASSUME ScanInv, scan = "sweep", InPlace, NEW o \in First .. End - 1, Test(o),
           \A pos \in Occurrences(Signature, snap) : o <= pos + First,
           cursor' \in Nat, First <= cursor', cursor' <= End,
           hits' \subseteq First .. cursor' - 1, scan' = "match" => hits' = {},
           scan' = "match" \/ \A pos \in Occurrences(Signature, snap) :
              pos + First # o => (pos + First >= cursor' \/ pos + First \in hits')
    PROVE  ScanInv'
<1>1. AllCompile(signatures) /\ InRegion
  BY DEF ScanInv, Compiled, Sweeping
<1>2. /\ Len(Pattern) \in Nat /\ Len(Region) \in Nat /\ First \in Nat
      /\ End = Len(Region) - Len(Pattern) + First + 1
      /\ \A pos \in Occurrences(Signature, snap) : pos \in Nat
      /\ IsMatchAt(Pattern, Region, o - First) <=> o - First \in Occurrences(Signature, snap)
  BY <1>1, Window DEF ScanInv
<1>3. ReadsStayInside'
  <2>1. Reads(o - First + Len(Pattern))
    BY DEF Test
  <2>2. ~(o - First + Len(Pattern) > Len(Region))
    BY <1>2
  <2> QED
    BY <2>1, <2>2, ReadInside DEF ScanInv
<1>4. CASE IsMatchAt(Pattern, Region, o - First)
  <2>1. scan' = "match" /\ found' = o - First
    BY <1>4 DEF Test
  <2>2. ASSUME NEW other \in Occurrences(Signature, snap)
        PROVE  o - First <= other
    <3>1. other \in Nat /\ First \in Nat /\ o \in Int
      BY <1>2
    <3>2. o <= other + First
      OBVIOUS
    <3> QED
      BY <3>1, <3>2
  <2>3. Matched'
    BY <1>1, <1>2, <1>4, <2>1, <2>2, PlaceKept DEF Matched
  <2>4. Types' /\ NoneBefore' /\ FirstMatchWins'
    BY <2>1, PlaceKept DEF ScanStates
  <2>5. Compiled' /\ NoCandidates' /\ Sweeping'
    BY <1>1, <2>1, PlaceKept DEF Compiled, NoCandidates, Sweeping
  <2> QED
    BY <1>3, <2>3, <2>4, <2>5 DEF ScanInv
<1>5. CASE ~IsMatchAt(Pattern, Region, o - First)
  <2>1. scan' = "sweep"
    BY <1>5 DEF Test
  <2>2. ASSUME NEW pos \in Occurrences(Signature, snap)
        PROVE  pos + First >= cursor' \/ pos + First \in hits'
    <3>1. pos # o - First
      BY <1>2, <1>5
    <3>2. pos \in Nat /\ First \in Nat /\ o \in Int
      BY <1>2
    <3>3. pos + First # o
      BY <3>1, <3>2
    <3> QED
      BY <2>1, <3>3
  <2>3. Sweeping'
    BY <1>1, <2>1, <2>2, PlaceKept DEF Sweeping
  <2>4. Types' /\ NoneBefore' /\ FirstMatchWins'
    BY <2>1, PlaceKept DEF ScanStates
  <2>5. Compiled' /\ NoCandidates' /\ Matched'
    BY <1>1, <2>1, PlaceKept DEF Compiled, NoCandidates, Matched
  <2> QED
    BY <1>3, <2>3, <2>4, <2>5 DEF ScanInv
<1> QED
  BY <1>4, <1>5

LEMMA TestHitInv == ScanInv /\ TestHit => ScanInv'
<1> SUFFICES ASSUME ScanInv, TestHit PROVE ScanInv'
  OBVIOUS
<1>1. PICK o \in hits : /\ \A other \in hits : o <= other
                        /\ Test(o)
                        /\ hits' = IF scan' = "match" THEN {} ELSE hits \ {o}
  BY DEF TestHit
<1>2. InPlace /\ scan = "sweep" /\ cursor' = cursor
  BY DEF TestHit, InPlace
<1>3. /\ AllCompile(signatures) /\ InRegion
      /\ cursor \in Nat /\ First <= cursor /\ cursor <= End
      /\ hits \subseteq First .. cursor - 1
      /\ \A pos \in Occurrences(Signature, snap) : pos + First >= cursor \/ pos + First \in hits
  BY <1>2 DEF ScanInv, Compiled, Sweeping
<1>4. /\ First \in Nat /\ End \in Int
      /\ \A pos \in Occurrences(Signature, snap) : pos \in Nat
  BY <1>3, Window DEF ScanInv
<1>5. o \in First .. End - 1 /\ o < cursor
  BY <1>3, <1>4
<1>6. \A pos \in Occurrences(Signature, snap) : o <= pos + First
  BY <1>1, <1>3, <1>4, <1>5
<1>7. hits' \subseteq First .. cursor' - 1
  BY <1>1, <1>2, <1>3
<1>8. \/ scan' = "match"
      \/ \A pos \in Occurrences(Signature, snap) :
            pos + First # o => (pos + First >= cursor' \/ pos + First \in hits')
  BY <1>1, <1>2, <1>3
<1> QED
  BY <1>1, <1>2, <1>3, <1>5, <1>6, <1>7, <1>8, TestInv

LEMMA TailByteInv == ScanInv /\ TailByte => ScanInv'
<1> SUFFICES ASSUME ScanInv, TailByte PROVE ScanInv'
  OBVIOUS
<1>1. /\ InPlace /\ scan = "sweep" /\ hits = {} /\ hits' = {} /\ cursor < End
      /\ cursor' = cursor + 1
  BY DEF TailByte, InPlace
<1>2. /\ AllCompile(signatures) /\ InRegion /\ cursor \in Nat /\ First <= cursor
      /\ \A pos \in Occurrences(Signature, snap) : pos + First >= cursor
  BY <1>1 DEF ScanInv, Compiled, Sweeping
<1>3. /\ Len(Pattern) \in Nat /\ Len(Region) \in Nat /\ First \in Nat
      /\ First + 1 <= Len(Pattern) /\ End = Len(Region) - Len(Pattern) + First + 1
      /\ \A pos \in Occurrences(Signature, snap) : pos \in Nat /\ IsHit(pos + First)
  BY <1>2, Window DEF ScanInv
<1>4. cursor' \in Nat /\ First <= cursor' /\ cursor' <= End /\ cursor \in First .. End - 1
  BY <1>1, <1>2, <1>3
<1>5. ASSUME NEW pos \in Occurrences(Signature, snap), pos + First # cursor
      PROVE  pos + First >= cursor'
  <2>1. pos \in Nat /\ First \in Nat /\ cursor \in Nat /\ cursor' = cursor + 1
    BY <1>1, <1>2, <1>3
  <2>2. pos + First >= cursor
    BY <1>2
  <2> QED
    BY <1>5, <2>1, <2>2
<1>6. CASE IsHit(cursor)
  <2>1. Test(cursor)
    BY <1>6 DEF TailByte
  <2> QED
    BY <1>1, <1>2, <1>4, <1>5, <2>1, TestInv
<1>7. CASE ~IsHit(cursor)
  <2>1. scan' = "sweep" /\ Reads(cursor + 1)
    BY <1>1, <1>7 DEF TailByte
  <2>2. \A pos \in Occurrences(Signature, snap) : pos + First >= cursor'
    BY <1>3, <1>5, <1>7
  <2>3. Sweeping'
    BY <1>1, <1>2, <1>4, <2>1, <2>2, PlaceKept DEF Sweeping
  <2>4. ReadsStayInside'
    <3>1. ~(cursor + 1 > Len(Region))
      BY <1>1, <1>2, <1>3
    <3> QED
      BY <2>1, <3>1, ReadInside DEF ScanInv
  <2>5. Types' /\ NoneBefore' /\ FirstMatchWins'
    BY <1>1, <2>1, PlaceKept DEF ScanStates
  <2>6. Compiled' /\ NoCandidates' /\ Matched'
    BY <1>1, <1>2, <2>1, PlaceKept DEF Compiled, NoCandidates, Matched
  <2> QED
    BY <2>3, <2>4, <2>5, <2>6 DEF ScanInv
<1> QED
  BY <1>6, <1>7

LEMMA SweepEndsInv == ScanInv /\ SweepEnds => ScanInv'
<1> SUFFICES ASSUME ScanInv, SweepEnds PROVE ScanInv'
  OBVIOUS
<1>1. /\ scan = "sweep" /\ hits = {} /\ hits' = {} /\ cursor >= End
      /\ scan' = "section" /\ snap' = snap + 1
      /\ UNCHANGED <<signatures, snapshots, sig, resolved, overrun>>
  BY DEF SweepEnds
<1>2. /\ AllCompile(signatures) /\ InRegion /\ cursor \in Nat
      /\ \A pos \in Occurrences(Signature, snap) : pos + First >= cursor
  BY <1>1 DEF ScanInv, Compiled, Sweeping
<1>3. /\ First \in Nat /\ End \in Int
      /\ \A pos \in Occurrences(Signature, snap) : pos \in Nat /\ pos + First \in First .. End - 1
  BY <1>2, Window DEF ScanInv
<1>4. Occurrences(Signature, snap) = {}
  BY <1>1, <1>2, <1>3
<1> QED
  BY <1>1, <1>2, <1>4, NextModule DEF InRegion

-----------------------------------------------------------------------------
(* Entries.                                                                  *)

LEMMA AppendEntry ==
    ASSUME NEW S, NEW entries \in Seq(S), NEW entry
    PROVE  /\ Append(entries, entry) \in Seq(S \cup {entry})
           /\ Len(Append(entries, entry)) = Len(entries) + 1
           /\ \A n \in 1 .. Len(entries) : Append(entries, entry)[n] = entries[n]
           /\ Append(entries, entry)[Len(entries) + 1] = entry
<1>1. entries \in Seq(S \cup {entry}) /\ entry \in S \cup {entry}
  OBVIOUS
<1> QED
  BY <1>1

(* The entry of the signature under way is added; the next one is begun. *)
LEMMA AddEntryInv ==
    ASSUME ScanInv, scan \in {"section", "match"}, sig <= Len(signatures), NEW entry,
           AddEntry(entry), IsEntryOf(entry, Signature), ReadsStayInside'
    PROVE  ScanInv'
<1>1. /\ resolved' = Append(resolved, entry) /\ sig' = sig + 1 /\ snap' = 1
      /\ scan' = "section" /\ UNCHANGED <<signatures, snapshots>> /\ hits' = {}
  BY DEF AddEntry, ScanInv, NoCandidates
<1>2. PICK S : resolved \in Seq(S)
  BY DEF ScanInv, Types
<1>3. /\ resolved' \in Seq(S \cup {entry}) /\ Len(resolved') = sig' - 1
      /\ sig \in Nat /\ Len(resolved) = sig - 1 /\ Len(resolved') = sig
      /\ \A n \in 1 .. sig - 1 : resolved'[n] = resolved[n]
      /\ resolved'[sig] = entry
  BY <1>1, <1>2, AppendEntry DEF ScanInv, Types
<1>4. Types'
  <2>1. Len(signatures) \in Nat /\ Len(snapshots) \in Nat
    BY DEF ScanInv, Types
  <2>2. sig' \in 1 .. Len(signatures') + 1 /\ snap' \in 1 .. Len(snapshots') + 1
    BY <1>1, <1>3, <2>1
  <2>3. scan' \in ScanStates /\ signatures' \in Seq(SignatureRecords)
        /\ snapshots' \in Seq(ModuleSnapshots)
    BY <1>1 DEF ScanInv, Types, ScanStates
  <2> QED
    BY <1>1, <1>3, <2>2, <2>3 DEF Types
<1>5. Compiled' /\ NoneBefore' /\ NoCandidates' /\ Sweeping' /\ Matched'
  BY <1>1 DEF ScanInv, Compiled, AllCompile, NoneBefore, NoCandidates, Sweeping, Matched
<1>6. FirstMatchWins'
  <2>1. \A s, n : Occurrences(s, n)' = Occurrences(s, n)
    BY <1>1 DEF Occurrences
  <2>2. \A e, s : IsEntryOf(e, s)' <=> IsEntryOf(e, s)
    BY <1>1, <2>1, Zenon DEF IsEntryOf
  <2>3. ASSUME NEW n \in 1 .. sig PROVE IsEntryOf(resolved'[n], signatures[n])
    <3>1. CASE n = sig
      BY <1>3, <3>1 DEF Signature
    <3>2. CASE n # sig
      <4>1. n \in 1 .. sig - 1
        BY <1>3, <3>2
      <4> QED
        BY <1>3, <4>1 DEF ScanInv, FirstMatchWins
    <3> QED
      BY <3>1, <3>2
  <2> QED
    BY <1>1, <1>3, <2>2, <2>3 DEF FirstMatchWins
<1> QED
  BY <1>4, <1>5, <1>6 DEF ScanInv

LEMMA NoMatchInv == ScanInv /\ NoMatch => ScanInv'
<1> SUFFICES ASSUME ScanInv, NoMatch PROVE ScanInv'
  OBVIOUS
<1>1. /\ scan = "section" /\ sig <= Len(signatures) /\ snap > Len(snapshots)
      /\ AddEntry(Unresolved(Signature)) /\ overrun' = overrun
  BY DEF NoMatch
<1>2. \A n \in 1 .. Len(snapshots) : Occurrences(Signature, n) = {}
  <2>1. snap = Len(snapshots) + 1 /\ Len(snapshots) \in Nat
    BY <1>1 DEF ScanInv, Types
  <2>2. snap - 1 = Len(snapshots)
    BY <2>1
  <2> QED
    BY <1>1, <2>2 DEF ScanInv, NoneBefore
<1>3. IsEntryOf(Unresolved(Signature), Signature)
  BY <1>2, Zenon DEF IsEntryOf
<1> QED
  BY <1>1, <1>3, AddEntryInv DEF ScanInv, ReadsStayInside

LEMMA ResolveMatchInv == ScanInv /\ ResolveMatch => ScanInv'
<1> SUFFICES ASSUME ScanInv, ResolveMatch PROVE ScanInv'
  OBVIOUS
<1>1. /\ scan = "match" /\ AddEntry(Resolution(Signature, Section, found))
      /\ InRegion /\ found \in Occurrences(Signature, snap)
      /\ \A other \in Occurrences(Signature, snap) : found <= other
  BY DEF ResolveMatch, ScanInv, Matched
<1>2. IsEntryOf(Resolution(Signature, Section, found), Signature)
  <2>1. snap \in 1 .. Len(snapshots) /\ \A m \in 1 .. snap - 1 : Occurrences(Signature, m) = {}
    BY <1>1 DEF ScanInv, Types, NoneBefore, InRegion
  <2>2. Occurrences(Signature, snap) # {}
    BY <1>1
  <2> QED
    BY <1>1, <2>1, <2>2, Zenon DEF IsEntryOf, Section
<1>3. ReadsStayInside'
  <2>1. \A spec : \A f \in FieldsRead(spec, Section, found) : FieldFits(Section, f)
    BY DEF FieldsRead
  <2> QED
    BY <2>1, Zenon DEF ScanInv, ResolveMatch, ReadsStayInside
<1> QED
  BY <1>1, <1>2, <1>3, AddEntryInv DEF InRegion

LEMMA ScanEndsInv == ScanInv /\ ScanEnds => ScanInv'
<1> SUFFICES ASSUME ScanInv, ScanEnds PROVE ScanInv'
  OBVIOUS
<1>1. InPlace /\ scan = "section" /\ scan' = "done" /\ UNCHANGED <<hits, overrun>>
  BY DEF ScanEnds, InPlace
<1>2. Types' /\ NoneBefore' /\ FirstMatchWins'
  BY <1>1, PlaceKept DEF ScanStates
<1>3. ReadsStayInside' /\ Compiled' /\ NoCandidates' /\ Sweeping' /\ Matched'
  BY <1>1, PlaceKept DEF ScanInv, ReadsStayInside, Compiled, NoCandidates, Sweeping, Matched
<1> QED
  BY <1>2, <1>3 DEF ScanInv

(* Every step of the scan preserves the invariant. *)
LEMMA ScanNextInv == ScanInv /\ ScanNext => ScanInv'
  BY CompileInv, EnterSectionInv, NoMatchInv, CompareChunkInv, TestHitInv, TailByteInv,
     SweepEndsInv, ResolveMatchInv, ScanEndsInv DEF ScanNext

-----------------------------------------------------------------------------
(* The invariant: the profile is one of the launcher's game, which is one of *)
(* the two, until the scan has its table and its copies.                     *)
IsOne(set) == \E p : set = {p}

Given == \E w \in Worlds : build = w.build /\ install = w.install

Configured ==
    stage \in {"resolve", "choose", "validate", "arguments", "modules"} =>
        config.game \in Games

ChoiceShape ==
    /\ choice \in [specificity : {choice.specificity}, priority : {choice.priority},
                   tied : {choice.tied}, fallback : {choice.fallback}]
    /\ choice.fallback = {} \/ IsOne(choice.fallback)

OneProfile ==
    stage \in {"validate", "arguments", "modules"} =>
        IsOne(profile) /\ Game = config.game

LaunchInv == Given /\ Configured /\ ChoiceShape /\ OneProfile /\ ScanInv

LEMMA LaunchInitInv == Init => LaunchInv
<1> SUFFICES ASSUME Init PROVE LaunchInv
  OBVIOUS
<1>1. ScanInv
  BY ScanInitInv DEF Init
<1>2. Given /\ Configured /\ OneProfile
  BY DEF Init, Given, Configured, OneProfile
<1>3. ChoiceShape
  BY DEF Init, ChoiceShape, NoChoice
<1> QED
  BY <1>1, <1>2, <1>3 DEF LaunchInv

(* The parser accepts no other game. *)
LEMMA ParsedGame ==
    ASSUME NEW root, RootIsValid(root)
    PROVE  ParsedConfig(root).game \in Games
<1> DEFINE launcher == root.launcher.value
<1>1. Accepts(launcher, LauncherTypes, LauncherRanges)
  BY DEF RootIsValid
<1>2. ParsedConfig(root).game = Or(launcher, "game", "genshin")
  BY DEF ParsedConfig
<1>3. "game" \in DOMAIN LauncherRanges /\ LauncherRanges["game"] = Games
  BY DEF LauncherRanges
<1> HIDE DEF launcher
<1>4. "game" \in DOMAIN launcher => launcher["game"].value \in Games
  BY <1>1, <1>3 DEF Accepts
<1> QED
  BY <1>2, <1>4 DEF Or, Games

(* A step of the loop leaves at most one fallback. *)
LEMMA ConsideredShape ==
    ASSUME ChoiceShape, NEW c, NEW game, NEW p, NEW d,
           choice' = Considered(choice, c, game, p, d)
    PROVE  ChoiceShape'
<1> DEFINE seen == IF p.id = FallbackId(c, game)
                   THEN [choice EXCEPT !.fallback = {p}] ELSE choice
           Shaped(x) == /\ x \in [specificity : {x.specificity}, priority : {x.priority},
                                  tied : {x.tied}, fallback : {x.fallback}]
                        /\ x.fallback = {} \/ IsOne(x.fallback)
<1>1. Shaped(choice)
  BY DEF ChoiceShape
<1>2. Shaped(seen)
  BY <1>1 DEF IsOne
<1> HIDE DEF seen
<1>3. ASSUME NEW s PROVE Shaped(Ranked(seen, p, s))
  BY <1>2 DEF Ranked
<1>4. choice' = choice \/ choice' = seen \/ \E s : choice' = Ranked(seen, p, s)
  BY Zenon DEF Considered, seen
<1>5. Shaped(choice')
  BY <1>1, <1>2, <1>3, <1>4
<1> QED
  BY <1>5 DEF ChoiceShape

(* What resolve_launch may select is one profile or none. *)
LEMMA SelectsInv ==
    ASSUME LaunchInv, stage \in {"resolve", "choose"}, NEW chosen,
           chosen = {} \/ IsOne(chosen), Selects(chosen), UNCHANGED <<world, scanVars>>
    PROVE  LaunchInv'
<1>1. Given' /\ ScanInv'
  BY ScanUnchangedInv DEF LaunchInv, Given, world
<1>2. ChoiceShape'
  BY DEF LaunchInv, ChoiceShape, Selects, Refuse
<1>3. CASE \E p \in chosen : p.game = config.game
  <2>1. profile' = chosen /\ stage' = "validate" /\ config' = config
    BY <1>3 DEF Selects
  <2>2. PICK p : chosen = {p} /\ p.game = config.game
    BY <1>3 DEF IsOne
  <2>3. Profile' = p
    BY <2>1, <2>2 DEF Profile
  <2>4. Configured' /\ OneProfile'
    BY <2>1, <2>2, <2>3 DEF LaunchInv, Configured, OneProfile, IsOne, Game
  <2> QED
    BY <1>1, <1>2, <2>4 DEF LaunchInv
<1>4. CASE ~\E p \in chosen : p.game = config.game
  <2>1. stage' = "refused"
    BY <1>4 DEF Selects, Refuse
  <2>2. Configured' /\ OneProfile'
    BY <2>1 DEF Configured, OneProfile
  <2> QED
    BY <1>1, <1>2, <2>2 DEF LaunchInv
<1> QED
  BY <1>3, <1>4

(* A copy of a module's sections is made of bytes. *)
LEMMA SnapshotShape ==
    ASSUME NEW module, NEW names \in SUBSET SectionNames, CanSnapshot(module, names),
           \A name \in DOMAIN module : module[name] \in MemorySections
    PROVE  Snapshot(module, names) \in ModuleSnapshots
<1>1. Copied(module, names) \in SUBSET SectionNames
  BY DEF Copied
<1>2. ASSUME NEW n \in Copied(module, names)
      PROVE  [remote |-> module[n].address,
              bytes |-> SubSeq(module[n].memory, 1, SizeOf(module[n]))] \in Copies
  <2>1. module[n] \in MemorySections /\ SizeOf(module[n]) \in 1 .. MaxSection
    BY DEF Copied
  <2>2. SizeOf(module[n]) <= Len(module[n].memory)
    BY DEF CanSnapshot
  <2>3. module[n].address \in Nat /\ module[n].memory \in Seq(Byte)
    BY <2>1 DEF MemorySections
  <2>4. SizeOf(module[n]) \in Nat
    BY <2>1, ScannerAssumption
  <2>5. SubSeq(module[n].memory, 1, SizeOf(module[n])) \in Seq(Byte)
    <3> DEFINE bytes == module[n].memory
               size == SizeOf(module[n])
    <3>1. bytes \in Seq(Byte) /\ size \in Nat /\ size <= Len(bytes)
      BY <2>2, <2>3, <2>4
    <3> HIDE DEF bytes, size
    <3>2. \A k \in 1 .. size : bytes[k] \in Byte
      BY <3>1
    <3>3. SubSeq(bytes, 1, size) = [k \in 1 .. size |-> bytes[k]]
      BY <3>1
    <3>4. SubSeq(bytes, 1, size) \in Seq(Byte)
      BY <3>1, <3>2, <3>3, SeqDef
    <3> QED
      BY <3>4 DEF bytes, size
  <2> QED
    BY <2>3, <2>5 DEF Copies
<1>3. Snapshot(module, names) \in [Copied(module, names) -> Copies]
  BY <1>2 DEF Snapshot
<1> QED
  BY <1>1, <1>3 DEF ModuleSnapshots

LEMMA SnapshotModulesInv == LaunchInv /\ SnapshotModules => LaunchInv'
<1> SUFFICES ASSUME LaunchInv, SnapshotModules PROVE LaunchInv'
  OBVIOUS
<1>1. Given' /\ ChoiceShape'
  BY DEF LaunchInv, SnapshotModules, Given, world, ChoiceShape, Refuse
<1>2. Configured' /\ OneProfile'
  BY DEF SnapshotModules, Refuse, Configured, OneProfile
<1>3. CASE stage' = "refused"
  <2>1. UNCHANGED scanVars
    BY <1>3 DEF SnapshotModules
  <2> QED
    BY <1>1, <1>2, <2>1, ScanUnchangedInv DEF LaunchInv
<1>4. CASE stage' # "refused"
  <2> DEFINE needs == Requirements
             copies == [n \in DOMAIN needs |-> Snapshot(install.modules[n], needs[n])]
  <2>1. /\ \A n \in DOMAIN needs : CanSnapshot(install.modules[n], needs[n])
        /\ BeginScan(build[Game], copies)
    BY <1>4 DEF SnapshotModules, Refuse
  <2>2. PICK w \in Worlds : build = w.build /\ install = w.install
    BY DEF LaunchInv, Given
  <2>3. Game \in Games
    BY DEF LaunchInv, Configured, OneProfile, SnapshotModules
  <2>4. build[Game] \in Seq(SignatureRecords)
    BY <2>2, <2>3, WorldsAssumption
  <2>5. PICK k \in {1, 2} : /\ k <= (IF install.old THEN 2 ELSE 1)
                            /\ DOMAIN needs = 1 .. k
                            /\ \A n \in 1 .. k : needs[n] \in SUBSET SectionNames
    <3>1. CASE Game = "genshin" /\ install.old
      BY <3>1 DEF Requirements, SectionNames
    <3>2. CASE Game = "genshin" /\ ~install.old
      BY <3>2 DEF Requirements, SectionNames
    <3>3. CASE Game # "genshin"
      BY <3>3 DEF Requirements, SectionNames
    <3> QED
      BY <3>1, <3>2, <3>3
  <2> HIDE DEF needs
  <2>6. ASSUME NEW n \in 1 .. k PROVE copies[n] \in ModuleSnapshots
    <3>1. n \in 1 .. (IF install.old THEN 2 ELSE 1)
      BY <2>5
    <3>2. \A name \in DOMAIN install.modules[n] : install.modules[n][name] \in MemorySections
      BY <2>2, <3>1, WorldsAssumption
    <3>3. Snapshot(install.modules[n], needs[n]) \in ModuleSnapshots
      BY <2>1, <2>5, <3>2, SnapshotShape
    <3> QED
      BY <2>5, <3>3
  <2>7. copies \in Seq(ModuleSnapshots)
    <3>1. copies \in [1 .. k -> ModuleSnapshots]
      BY <2>5, <2>6
    <3> QED
      BY <2>5, <3>1, SeqDef
  <2> HIDE DEF copies
  <2>8. ScanInv'
    BY <2>1, <2>4, <2>7, BeginScanInv DEF LaunchInv
  <2> QED
    BY <1>1, <1>2, <2>8 DEF LaunchInv
<1> QED
  BY <1>3, <1>4

(* A step that changes neither the choice nor the scan, and goes on to a     *)
(* stage that is no earlier.                                                 *)
LEMMA OtherStepInv ==
    ASSUME LaunchInv, UNCHANGED <<world, scanVars, config, choice, profile>>,
           \/ stage' = stage
           \/ stage' \in {"scan", "plan", "running", "refused", "diagnosing"}
           \/ stage = "validate" /\ stage' = "arguments"
           \/ stage = "arguments" /\ stage' = "modules"
           \/ stage = "resolve" /\ stage' = "choose"
    PROVE  LaunchInv'
<1>1. Given' /\ ScanInv' /\ ChoiceShape'
  BY ScanUnchangedInv DEF LaunchInv, Given, world, ChoiceShape
<1>2. Profile' = Profile
  BY DEF Profile
<1>3. Configured' /\ OneProfile'
  BY <1>2 DEF LaunchInv, Configured, OneProfile, Game
<1> QED
  BY <1>1, <1>3 DEF LaunchInv

LEMMA LaunchNextInv == LaunchInv /\ [Next]_vars => LaunchInv'
<1> SUFFICES ASSUME LaunchInv, [Next]_vars PROVE LaunchInv'
  OBVIOUS
<1>1. CASE ReadConfig
  <2>1. UNCHANGED <<world, scanVars, choice, profile>>
    BY <1>1 DEF ReadConfig, Refuse
  <2>2. Given' /\ ScanInv' /\ ChoiceShape'
    BY <2>1, ScanUnchangedInv DEF LaunchInv, Given, world, ChoiceShape
  <2>3. CASE RootIsValid(document)
    <3>1. config' = ParsedConfig(document) /\ stage' \in {"resolve", "diagnosing"}
      BY <1>1, <2>3 DEF ReadConfig
    <3>2. config'.game \in Games
      BY <2>3, <3>1, ParsedGame
    <3>3. Configured' /\ OneProfile'
      BY <3>1, <3>2 DEF Configured, OneProfile
    <3> QED
      BY <2>2, <3>3 DEF LaunchInv
  <2>4. CASE ~RootIsValid(document)
    BY <1>1, <2>1, <2>4, OtherStepInv DEF ReadConfig, Refuse
  <2> QED
    BY <2>3, <2>4
<1>2. CASE ResolveLaunch
  <2>1. CASE config.profile = "auto"
    BY <1>2, <2>1, OtherStepInv DEF ResolveLaunch
  <2>2. CASE config.profile # "auto"
    <3> DEFINE id == IF config.profile = "" THEN FallbackId(config, config.game)
                     ELSE config.profile
               chosen == Named(id)
    <3>1. Selects(chosen)
      BY <1>2, <2>2, Zenon DEF ResolveLaunch
    <3>2. chosen = {} \/ IsOne(chosen)
      <4> HIDE DEF id
      <4>1. chosen = {} \/ chosen = {FindProfile(config, id)}
        BY Zenon DEF Named
      <4> QED
        BY <4>1, Zenon DEF IsOne
    <3>3. stage \in {"resolve", "choose"} /\ UNCHANGED <<world, scanVars>>
      <4> HIDE DEF id, chosen
      <4>1. stage = "resolve" /\ UNCHANGED <<world, scanVars>>
        BY <1>2, Zenon DEF ResolveLaunch
      <4> QED
        BY <4>1, Zenon
    <3> HIDE DEF chosen
    <3> QED
      BY <3>1, <3>2, <3>3, SelectsInv
  <2> QED
    BY <2>1, <2>2
<1>3. CASE Consider
  <2>1. UNCHANGED <<world, stage, config, profile, scanVars>>
    BY <1>3 DEF Consider
  <2>2. ChoiceShape'
    BY <1>3, ConsideredShape DEF Consider, LaunchInv
  <2>3. Given' /\ ScanInv' /\ Configured' /\ OneProfile'
    BY <2>1, ScanUnchangedInv
       DEF LaunchInv, Given, world, Configured, OneProfile, Game, Profile
  <2> QED
    BY <2>2, <2>3 DEF LaunchInv
<1>4. CASE Decide
  <2>1. Decided(choice) = {} \/ IsOne(Decided(choice))
    BY DEF LaunchInv, ChoiceShape, Decided, IsOne
  <2> QED
    BY <1>4, <2>1, SelectsInv DEF Decide
<1>5. CASE Validate
  BY <1>5, OtherStepInv DEF Validate, Refuse
<1>6. CASE BuildLaunchPlan
  BY <1>6, OtherStepInv DEF BuildLaunchPlan, Refuse
<1>7. CASE SnapshotModules
  BY <1>7, SnapshotModulesInv
<1>8. CASE Scans
  <2>1. ScanInv' /\ UNCHANGED <<world, stage, config, choice, profile>>
    BY <1>8, ScanNextInv DEF Scans, launchVars, LaunchInv
  <2>2. Given' /\ ChoiceShape' /\ Configured' /\ OneProfile'
    BY <2>1 DEF LaunchInv, Given, world, ChoiceShape, Configured, OneProfile, Game, Profile
  <2> QED
    BY <2>1, <2>2 DEF LaunchInv
<1>9. CASE ScanReturns
  BY <1>9, OtherStepInv DEF ScanReturns, Refuse
<1>10. CASE BuildPatchPlan
  BY <1>10, OtherStepInv DEF BuildPatchPlan, Refuse
<1>11. CASE StartRuntime
  BY <1>11, OtherStepInv DEF StartRuntime
<1>12. CASE UNCHANGED vars
  BY <1>12, OtherStepInv DEF vars, launchVars
<1> QED
  BY <1>1, <1>2, <1>3, <1>4, <1>5, <1>6, <1>7, <1>8, <1>9, <1>10, <1>11, <1>12 DEF Next

(* In every launch, for every table of signatures and every image of the     *)
(* game, each entry of the scan is that of the least offset at which its     *)
(* pattern occurs, in the first module in which it does.                     *)
THEOREM FirstMatchWinsTheorem == Spec => []FirstMatchWins
<1>1. LaunchInv => FirstMatchWins
  BY DEF LaunchInv, ScanInv
<1> QED
  BY <1>1, LaunchInitInv, LaunchNextInv, PTL DEF Spec

(* ... and no byte past the end of a copied section is read on the way, by a *)
(* chunk, by the test of a candidate or by a resolver.                       *)
THEOREM ReadsStayInsideTheorem == Spec => []ReadsStayInside
<1>1. LaunchInv => ReadsStayInside
  BY DEF LaunchInv, ScanInv
<1> QED
  BY <1>1, LaunchInitInv, LaunchNextInv, PTL DEF Spec

-----------------------------------------------------------------------------
(* The choice of a profile.  A score is a number written with one digit per  *)
(* tier, so comparing scores is comparing the tiers from the first.          *)
Optional(set) == set = {} \/ IsOne(set)

IsMatch(match) ==
    /\ Optional(match.device_name) /\ Optional(match.resolution)
    /\ Optional(match.aspect_ratio) /\ Optional(match.portrait)
    /\ match.priority \in Int

RankOf(match) ==
    1000 * Cardinality(match.device_name) + 100 * Cardinality(match.resolution)
    + 10 * Cardinality(match.aspect_ratio) + Cardinality(match.portrait)

LEMMA OptionalSize ==
    ASSUME NEW set, Optional(set)
    PROVE  Cardinality(set) \in {0, 1} /\ (set = {} <=> Cardinality(set) = 0)
<1>1. CASE set = {}
  BY <1>1, FS_EmptySet
<1>2. CASE IsOne(set)
  <2>1. PICK x : set = {x}
    BY <1>2 DEF IsOne
  <2> QED
    BY <2>1, FS_Singleton
<1> QED
  BY <1>1, <1>2 DEF Optional

LEMMA TheTiers ==
    /\ DOMAIN Tiers = 1 .. 4
    /\ Tiers[1] = "device_name" /\ Tiers[2] = "resolution"
    /\ Tiers[3] = "aspect_ratio" /\ Tiers[4] = "portrait"
  BY DEF Tiers

LEMMA RankRange ==
    ASSUME NEW match, IsMatch(match)
    PROVE  /\ Cardinality(match.device_name) \in {0, 1}
           /\ Cardinality(match.resolution) \in {0, 1}
           /\ Cardinality(match.aspect_ratio) \in {0, 1}
           /\ Cardinality(match.portrait) \in {0, 1}
           /\ RankOf(match) \in Nat
<1>1. /\ Cardinality(match.device_name) \in {0, 1}
      /\ Cardinality(match.resolution) \in {0, 1}
      /\ Cardinality(match.aspect_ratio) \in {0, 1}
      /\ Cardinality(match.portrait) \in {0, 1}
  BY OptionalSize, Zenon DEF IsMatch
<1> QED
  BY <1>1 DEF RankOf

(* The score is that of the tiers a profile declares, on a display it fits.  *)
LEMMA ScoreOfFit ==
    ASSUME NEW p, NEW d, d.is_attached
    PROVE  MatchScore(p.match, d) = IF Fits(p, d) THEN RankOf(p.match) ELSE -1
<1> DEFINE m == p.match
           Fails == \/ \E name \in m.device_name : name # d.device_name
                    \/ \E wanted \in m.resolution : wanted # ResolutionOf(d)
                    \/ \E ratio \in m.aspect_ratio : ~AspectClose(ratio, d)
                    \/ \E portrait \in m.portrait : portrait # IsPortrait(d)
                    \/ /\ m.device_name = {} /\ m.resolution = {}
                       /\ m.aspect_ratio = {} /\ m.portrait = {}
<1>1. MatchScore(m, d) = IF Fails THEN -1 ELSE RankOf(m)
  BY Zenon DEF MatchScore, RankOf
<1>2. (\E t \in DOMAIN Tiers : m[Tiers[t]] # {}) <=>
         \/ m.device_name # {} \/ m.resolution # {} \/ m.aspect_ratio # {} \/ m.portrait # {}
  BY TheTiers
<1>3. /\ m.device_name \subseteq {d.device_name}
            <=> ~\E name \in m.device_name : name # d.device_name
      /\ m.resolution \subseteq {ResolutionOf(d)}
            <=> ~\E wanted \in m.resolution : wanted # ResolutionOf(d)
      /\ m.portrait \subseteq {IsPortrait(d)}
            <=> ~\E portrait \in m.portrait : portrait # IsPortrait(d)
  BY Zenon
<1>4. Fits(p, d) <=> ~Fails
  BY <1>2, <1>3, Zenon DEF Fits
<1> HIDE DEF Fails
<1> QED
  BY <1>1, <1>4, Zenon

LEMMA SpecificityOfFit ==
    ASSUME NEW p, IsMatch(p.match), NEW ds
    PROVE  Specificity(p, ds) = IF \E d \in ds : Fits(p, d) THEN RankOf(p.match) ELSE -1
<1> DEFINE scores == {-1} \cup {MatchScore(p.match, d) : d \in {e \in ds : e.is_attached}}
           best == IF \E d \in ds : Fits(p, d) THEN RankOf(p.match) ELSE -1
<1>1. RankOf(p.match) \in Nat
  BY RankRange
<1>2. scores = {-1, best}
  <2>1. ASSUME NEW d \in ds, d.is_attached
        PROVE  MatchScore(p.match, d) \in {-1, best}
    BY <2>1, ScoreOfFit
  <2>2. ASSUME NEW d \in ds, Fits(p, d)
        PROVE  best \in scores
    <3>1. d.is_attached /\ MatchScore(p.match, d) = RankOf(p.match)
      BY <2>2, ScoreOfFit DEF Fits
    <3>2. best = RankOf(p.match)
      BY <2>2
    <3> QED
      BY <3>1, <3>2
  <2>3. best \in scores
    BY <2>2
  <2> QED
    BY <2>1, <2>3
<1>3. best \in Int /\ best >= -1
  BY <1>1
<1> HIDE DEF scores, best
<1>4. (CHOOSE s \in scores : \A t \in scores : t <= s) = best
  <2>1. best \in scores /\ \A t \in scores : t <= best
    BY <1>2, <1>3
  <2>2. ASSUME NEW s \in scores, \A t \in scores : t <= s PROVE s = best
    BY <1>2, <1>3, <2>1, <2>2
  <2> QED
    BY <2>1, <2>2
<1> QED
  BY <1>4 DEF Specificity, scores, best

(* The tiers of the design are the order of the scores. *)
LEMMA TiersAreRanks ==
    ASSUME NEW p, NEW q, IsMatch(p.match), IsMatch(q.match)
    PROVE  /\ MoreSpecific(p, q) <=> RankOf(p.match) > RankOf(q.match)
           /\ Preferred(p, q) <=>
                 \/ RankOf(p.match) > RankOf(q.match)
                 \/ /\ RankOf(p.match) = RankOf(q.match)
                    /\ p.match.priority > q.match.priority
<1>0. ASSUME NEW a, NEW b, IsMatch(a.match), IsMatch(b.match)
      PROVE  MoreSpecific(a, b) <=> RankOf(a.match) > RankOf(b.match)
  <2> DEFINE has(x, t) == x.match[Tiers[t]] # {}
  <2>1. /\ \A t \in 1 .. 4 : has(a, t) \in BOOLEAN /\ has(b, t) \in BOOLEAN
        /\ has(a, 1) <=> a.match.device_name # {}
        /\ has(a, 2) <=> a.match.resolution # {}
        /\ has(a, 3) <=> a.match.aspect_ratio # {}
        /\ has(a, 4) <=> a.match.portrait # {}
        /\ has(b, 1) <=> b.match.device_name # {}
        /\ has(b, 2) <=> b.match.resolution # {}
        /\ has(b, 3) <=> b.match.aspect_ratio # {}
        /\ has(b, 4) <=> b.match.portrait # {}
    BY TheTiers
  <2>2. MoreSpecific(a, b) <=>
          \E t \in 1 .. 4 : /\ has(a, t) /\ ~has(b, t)
                            /\ \A s \in 1 .. t - 1 : has(a, s) <=> has(b, s)
    <3>1. MoreSpecific(a, b) <=>
            \E t \in DOMAIN Tiers :
               /\ a.match[Tiers[t]] # {} /\ b.match[Tiers[t]] = {}
               /\ \A s \in 1 .. t - 1 : a.match[Tiers[s]] = {} <=> b.match[Tiers[s]] = {}
      BY DEF MoreSpecific
    <3> QED
      BY <3>1, TheTiers
  <2> HIDE DEF has
  <2>3. MoreSpecific(a, b) <=>
          \/ has(a, 1) /\ ~has(b, 1)
          \/ (has(a, 1) <=> has(b, 1)) /\ has(a, 2) /\ ~has(b, 2)
          \/ (has(a, 1) <=> has(b, 1)) /\ (has(a, 2) <=> has(b, 2)) /\ has(a, 3) /\ ~has(b, 3)
          \/ /\ (has(a, 1) <=> has(b, 1)) /\ (has(a, 2) <=> has(b, 2))
             /\ (has(a, 3) <=> has(b, 3)) /\ has(a, 4) /\ ~has(b, 4)
    <3> DEFINE F(t) == /\ has(a, t) /\ ~has(b, t)
                       /\ \A s \in 1 .. t - 1 : has(a, s) <=> has(b, s)
    <3>1. (\E t \in 1 .. 4 : F(t)) <=> F(1) \/ F(2) \/ F(3) \/ F(4)
      <4>1. 1 .. 4 = {1, 2, 3, 4}
        OBVIOUS
      <4> HIDE DEF F
      <4> QED
        BY <4>1
    <3>2. /\ 1 .. 1 - 1 = {} /\ 1 .. 2 - 1 = {1} /\ 1 .. 3 - 1 = {1, 2} /\ 1 .. 4 - 1 = {1, 2, 3}
      OBVIOUS
    <3>3. /\ F(1) <=> has(a, 1) /\ ~has(b, 1)
          /\ F(2) <=> (has(a, 1) <=> has(b, 1)) /\ has(a, 2) /\ ~has(b, 2)
          /\ F(3) <=> (has(a, 1) <=> has(b, 1)) /\ (has(a, 2) <=> has(b, 2)) /\ has(a, 3) /\ ~has(b, 3)
          /\ F(4) <=> /\ (has(a, 1) <=> has(b, 1)) /\ (has(a, 2) <=> has(b, 2))
                      /\ (has(a, 3) <=> has(b, 3)) /\ has(a, 4) /\ ~has(b, 4)
      BY <3>2
    <3> QED
      BY <2>2, <3>1, <3>3
  <2> DEFINE a1 == Cardinality(a.match.device_name) a2 == Cardinality(a.match.resolution)
             a3 == Cardinality(a.match.aspect_ratio) a4 == Cardinality(a.match.portrait)
             b1 == Cardinality(b.match.device_name) b2 == Cardinality(b.match.resolution)
             b3 == Cardinality(b.match.aspect_ratio) b4 == Cardinality(b.match.portrait)
  <2>4. /\ has(a, 1) <=> a1 # 0
        /\ has(a, 2) <=> a2 # 0
        /\ has(a, 3) <=> a3 # 0
        /\ has(a, 4) <=> a4 # 0
        /\ has(b, 1) <=> b1 # 0
        /\ has(b, 2) <=> b2 # 0
        /\ has(b, 3) <=> b3 # 0
        /\ has(b, 4) <=> b4 # 0
    <3>1. ASSUME NEW x, IsMatch(x.match)
          PROVE  /\ x.match.device_name # {} <=> Cardinality(x.match.device_name) # 0
                 /\ x.match.resolution # {} <=> Cardinality(x.match.resolution) # 0
                 /\ x.match.aspect_ratio # {} <=> Cardinality(x.match.aspect_ratio) # 0
                 /\ x.match.portrait # {} <=> Cardinality(x.match.portrait) # 0
      <4>1. /\ Optional(x.match.device_name) /\ Optional(x.match.resolution)
            /\ Optional(x.match.aspect_ratio) /\ Optional(x.match.portrait)
        BY <3>1, Zenon DEF IsMatch
      <4> QED
        BY <4>1, OptionalSize, Zenon
    <3> QED
      BY <1>0, <2>1, <3>1, Zenon
  <2>5. /\ a1 \in {0, 1} /\ a2 \in {0, 1} /\ a3 \in {0, 1} /\ a4 \in {0, 1}
        /\ b1 \in {0, 1} /\ b2 \in {0, 1} /\ b3 \in {0, 1} /\ b4 \in {0, 1}
    BY <1>0, RankRange
  <2>6. /\ RankOf(a.match) = 1000 * a1 + 100 * a2 + 10 * a3 + a4
        /\ RankOf(b.match) = 1000 * b1 + 100 * b2 + 10 * b3 + b4
    BY DEF RankOf
  <2> HIDE DEF a1, a2, a3, a4, b1, b2, b3, b4
  <2>7. RankOf(a.match) > RankOf(b.match) <=>
          \/ a1 # 0 /\ b1 = 0
          \/ a1 = b1 /\ a2 # 0 /\ b2 = 0
          \/ a1 = b1 /\ a2 = b2 /\ a3 # 0 /\ b3 = 0
          \/ a1 = b1 /\ a2 = b2 /\ a3 = b3 /\ a4 # 0 /\ b4 = 0
    BY <2>5, <2>6
  <2>8. /\ a1 = b1 <=> (has(a, 1) <=> has(b, 1))
        /\ a2 = b2 <=> (has(a, 2) <=> has(b, 2))
        /\ a3 = b3 <=> (has(a, 3) <=> has(b, 3))
    BY <2>4, <2>5
  <2> QED
    BY <2>3, <2>4, <2>7, <2>8, Zenon
<1>1. RankOf(p.match) \in Nat /\ RankOf(q.match) \in Nat
  BY RankRange
<1>2. MoreSpecific(p, q) <=> RankOf(p.match) > RankOf(q.match)
  BY <1>0
<1>3. MoreSpecific(q, p) <=> RankOf(q.match) > RankOf(p.match)
  BY <1>0
<1> QED
  BY <1>1, <1>2, <1>3 DEF Preferred
(* What the loop keeps of the profiles R it has ranked: the best score and   *)
(* priority, and all the profiles that have both, once each.                 *)
Rank(p) == RankOf(p.match)

Leads(c, R) ==
    /\ c \in [specificity : Int, priority : Int, tied : Seq(R), fallback : {c.fallback}]
    /\ c.tied = <<>> => R = {}
    /\ \A i \in DOMAIN c.tied : /\ Rank(c.tied[i]) = c.specificity
                                /\ c.tied[i].match.priority = c.priority
    /\ \A i, j \in DOMAIN c.tied : c.tied[i] = c.tied[j] => i = j
    /\ \A q \in R : \/ Rank(q) < c.specificity
                    \/ Rank(q) = c.specificity /\ q.match.priority < c.priority
                    \/ \E i \in DOMAIN c.tied : c.tied[i] = q

LEMMA RankedLeads ==
    ASSUME NEW R, \A q \in R : IsMatch(q.match), NEW c, Leads(c, R),
           NEW p, p \notin R, IsMatch(p.match)
    PROVE  /\ Leads(Ranked(c, p, Rank(p)), R \cup {p})
           /\ Ranked(c, p, Rank(p)).fallback = c.fallback
<1> DEFINE d == Ranked(c, p, Rank(p))
           S == R \cup {p}
<1>1. /\ \A q \in S : Rank(q) \in Int /\ q.match.priority \in Int
      /\ c.tied \in Seq(R) /\ c.tied \in Seq(S) /\ c.specificity \in Int /\ c.priority \in Int
  <2>1. \A q \in S : IsMatch(q.match)
    OBVIOUS
  <2>2. \A q \in S : Rank(q) \in Int /\ q.match.priority \in Int
    BY <2>1, RankRange DEF Rank, IsMatch
  <2>3. c.tied \in Seq(R) /\ c.specificity \in Int /\ c.priority \in Int
    BY DEF Leads
  <2>4. c.tied \in Seq(S)
    BY <2>3
  <2> QED
    BY <2>2, <2>3, <2>4
<1>0. Rank(p) \in Int /\ p.match.priority \in Int /\ p \in S
  BY <1>1
<1>2. /\ c.tied = <<>> => R = {}
      /\ \A i \in DOMAIN c.tied : /\ Rank(c.tied[i]) = c.specificity
                                  /\ c.tied[i].match.priority = c.priority
      /\ \A i, j \in DOMAIN c.tied : c.tied[i] = c.tied[j] => i = j
      /\ \A q \in R : \/ Rank(q) < c.specificity
                      \/ Rank(q) = c.specificity /\ q.match.priority < c.priority
                      \/ \E i \in DOMAIN c.tied : c.tied[i] = q
  BY Zenon DEF Leads
<1>3. c \in [specificity : Int, priority : Int, tied : Seq(R), fallback : {c.fallback}]
  BY Zenon DEF Leads
<1> DEFINE Best == \/ c.tied = <<>>
                   \/ Rank(p) > c.specificity
                   \/ Rank(p) = c.specificity /\ p.match.priority > c.priority
           Tied == Rank(p) = c.specificity /\ p.match.priority = c.priority
<1>4. CASE Best
  <2>1. d = [c EXCEPT !.specificity = Rank(p), !.priority = p.match.priority, !.tied = <<p>>]
    BY <1>4 DEF Ranked
  <2>2. /\ d.specificity = Rank(p) /\ d.priority = p.match.priority /\ d.tied = <<p>>
        /\ d.fallback = c.fallback
        /\ d \in [specificity : {Rank(p)}, priority : {p.match.priority}, tied : {<<p>>},
                  fallback : {c.fallback}]
    BY <1>3, <2>1
  <2> HIDE DEF d
  <2>3. d \in [specificity : Int, priority : Int, tied : Seq(S), fallback : {d.fallback}]
    <3> HIDE DEF S
    <3>1. <<p>> \in Seq(S)
      BY <1>0
    <3> QED
      BY <1>0, <2>2, <3>1, Zenon
  <2>4. \A q \in S : \/ Rank(q) < d.specificity
                     \/ Rank(q) = d.specificity /\ q.match.priority < d.priority
                     \/ \E i \in DOMAIN d.tied : d.tied[i] = q
    <3>1. SUFFICES ASSUME NEW q \in R
                   PROVE  \/ Rank(q) < d.specificity
                          \/ Rank(q) = d.specificity /\ q.match.priority < d.priority
      BY <2>2
    <3>2. c.tied # <<>>
      BY <1>2
    <3>3. \/ Rank(q) < c.specificity
          \/ Rank(q) = c.specificity /\ q.match.priority <= c.priority
      BY <1>1, <1>2
    <3> HIDE DEF Leads
    <3> QED
      BY <1>1, <1>4, <2>2, <3>2, <3>3
  <2>5. /\ \A i \in DOMAIN d.tied : /\ Rank(d.tied[i]) = d.specificity
                                    /\ d.tied[i].match.priority = d.priority
        /\ \A i, j \in DOMAIN d.tied : d.tied[i] = d.tied[j] => i = j
        /\ d.tied # <<>>
    BY <2>2
  <2>6. Leads(d, S)
    BY <2>3, <2>4, <2>5, Zenon DEF Leads
  <2> QED
    BY <2>2, <2>6 DEF d
<1>5. CASE ~Best /\ Tied
  <2>1. d = [c EXCEPT !.tied = Append(@, p)]
    BY <1>5 DEF Ranked
  <2>2. /\ d.specificity = c.specificity /\ d.priority = c.priority
        /\ d.tied = Append(c.tied, p) /\ d.fallback = c.fallback
        /\ d \in [specificity : {c.specificity}, priority : {c.priority},
                  tied : {Append(c.tied, p)}, fallback : {c.fallback}]
    BY <1>3, <2>1
  <2> HIDE DEF d
  <2>3. /\ DOMAIN d.tied = DOMAIN c.tied \cup {Len(c.tied) + 1}
        /\ Len(c.tied) + 1 \notin DOMAIN c.tied
        /\ \A i \in DOMAIN c.tied : d.tied[i] = c.tied[i] /\ d.tied[i] \in R
        /\ d.tied[Len(c.tied) + 1] = p /\ d.tied \in Seq(S) /\ d.tied # <<>>
    BY <1>1, <2>2
  <2>4. d \in [specificity : Int, priority : Int, tied : Seq(S), fallback : {d.fallback}]
    BY <1>1, <2>2, <2>3
  <2>5. \A i \in DOMAIN d.tied : /\ Rank(d.tied[i]) = d.specificity
                                 /\ d.tied[i].match.priority = d.priority
    BY <1>2, <1>5, <2>2, <2>3
  <2>6. \A i, j \in DOMAIN d.tied : d.tied[i] = d.tied[j] => i = j
    BY <1>2, <2>3, Zenon
  <2>7. \A q \in S : \/ Rank(q) < d.specificity
                     \/ Rank(q) = d.specificity /\ q.match.priority < d.priority
                     \/ \E i \in DOMAIN d.tied : d.tied[i] = q
    BY <1>2, <2>2, <2>3
  <2>8. Leads(d, S)
    BY <2>3, <2>4, <2>5, <2>6, <2>7, Zenon DEF Leads
  <2> QED
    BY <2>2, <2>8 DEF d
<1>6. CASE ~Best /\ ~Tied
  <2>1. d = c
    BY <1>6, Zenon DEF Ranked
  <2> HIDE DEF d
  <2>2. \/ Rank(p) < c.specificity
        \/ Rank(p) = c.specificity /\ p.match.priority < c.priority
    <3>1. /\ ~(Rank(p) > c.specificity)
          /\ ~(Rank(p) = c.specificity /\ p.match.priority > c.priority)
          /\ ~(Rank(p) = c.specificity /\ p.match.priority = c.priority)
      BY <1>6, Zenon
    <3>2. c.specificity \in Int /\ c.priority \in Int
      BY <1>1
    <3> QED
      BY <1>0, <3>1, <3>2
  <2>3. c \in [specificity : Int, priority : Int, tied : Seq(S), fallback : {c.fallback}]
    BY <1>1, <1>3
  <2>4. c.tied # <<>>
    BY <1>6
  <2>5. \A q \in S : \/ Rank(q) < c.specificity
                     \/ Rank(q) = c.specificity /\ q.match.priority < c.priority
                     \/ \E i \in DOMAIN c.tied : c.tied[i] = q
    BY <1>2, <2>2
  <2>6. Leads(c, S)
    BY <1>2, <2>3, <2>4, <2>5, Zenon DEF Leads
  <2> QED
    BY <2>1, <2>6 DEF d
<1> QED
  BY <1>4, <1>5, <1>6

(* ... which is what the design wants to know of them.                       *)
LEMMA LeadsDecides ==
    ASSUME NEW R, \A q \in R : IsMatch(q.match), NEW c, Leads(c, R)
    PROVE  /\ Len(c.tied) \in Nat /\ (Len(c.tied) = 0 <=> c.tied = <<>>)
           /\ c.tied = <<>> => R = {}
           /\ Len(c.tied) >= 1 =>
                /\ c.tied[1] \in R
                /\ \A o \in R : ~Preferred(o, c.tied[1])
           /\ Len(c.tied) = 1 => \A o \in R \ {c.tied[1]} : Preferred(c.tied[1], o)
           /\ Len(c.tied) > 1 =>
                /\ c.tied[2] \in R /\ c.tied[1] # c.tied[2]
                /\ ~Preferred(c.tied[1], c.tied[2]) /\ ~Preferred(c.tied[2], c.tied[1])
<1>1. /\ c.tied \in Seq(R) /\ c.specificity \in Int /\ c.priority \in Int
      /\ Len(c.tied) \in Nat /\ DOMAIN c.tied = 1 .. Len(c.tied)
      /\ Len(c.tied) = 0 <=> c.tied = <<>>
      /\ \A i \in DOMAIN c.tied : c.tied[i] \in R
  <2>1. c.tied \in Seq(R) /\ c.specificity \in Int /\ c.priority \in Int
    BY DEF Leads
  <2> QED
    BY <2>1
<1>2. /\ c.tied = <<>> => R = {}
      /\ \A i \in DOMAIN c.tied : /\ Rank(c.tied[i]) = c.specificity
                                  /\ c.tied[i].match.priority = c.priority
      /\ \A i, j \in DOMAIN c.tied : c.tied[i] = c.tied[j] => i = j
      /\ \A q \in R : \/ Rank(q) < c.specificity
                      \/ Rank(q) = c.specificity /\ q.match.priority < c.priority
                      \/ \E i \in DOMAIN c.tied : c.tied[i] = q
  BY Zenon DEF Leads
<1>3. \A q \in R : Rank(q) \in Int /\ q.match.priority \in Int
  BY RankRange DEF Rank, IsMatch
<1>4. \A a, b \in R : Preferred(a, b) <=> \/ Rank(a) > Rank(b)
                                          \/ /\ Rank(a) = Rank(b)
                                             /\ a.match.priority > b.match.priority
  BY TiersAreRanks, Zenon DEF Rank
<1>5. ASSUME NEW i \in DOMAIN c.tied, NEW o \in R PROVE ~Preferred(o, c.tied[i])
  <2>1. /\ c.tied[i] \in R
        /\ Rank(c.tied[i]) = c.specificity /\ c.tied[i].match.priority = c.priority
    BY <1>1, <1>2
  <2>2. \/ Rank(o) < c.specificity
        \/ Rank(o) = c.specificity /\ o.match.priority <= c.priority
    <3>1. \/ Rank(o) < c.specificity
          \/ Rank(o) = c.specificity /\ o.match.priority < c.priority
          \/ \E j \in DOMAIN c.tied : c.tied[j] = o
      BY <1>2, Zenon
    <3>2. CASE \E j \in DOMAIN c.tied : c.tied[j] = o
      <4>1. Rank(o) = c.specificity /\ o.match.priority = c.priority
        BY <1>2, <3>2, Zenon
      <4> QED
        BY <1>1, <4>1
    <3>3. CASE Rank(o) = c.specificity /\ o.match.priority < c.priority
      <4>1. o.match.priority \in Int /\ c.priority \in Int
        BY <1>1, <1>3
      <4> QED
        BY <3>3, <4>1
    <3> QED
      BY <3>1, <3>2, <3>3, Zenon
  <2>3. Preferred(o, c.tied[i]) <=>
           \/ Rank(o) > Rank(c.tied[i])
           \/ Rank(o) = Rank(c.tied[i]) /\ o.match.priority > c.tied[i].match.priority
    BY <1>4, <2>1, Zenon
  <2>4. Rank(o) \in Int /\ o.match.priority \in Int
    BY <1>3
  <2> QED
    BY <1>1, <2>1, <2>2, <2>3, <2>4
<1>6. ASSUME Len(c.tied) = 1, NEW o \in R \ {c.tied[1]} PROVE Preferred(c.tied[1], o)
  <2>1. DOMAIN c.tied = {1}
    BY <1>1, <1>6
  <2>2. \/ Rank(o) < c.specificity
        \/ Rank(o) = c.specificity /\ o.match.priority < c.priority
    BY <1>2, <2>1
  <2>3. /\ c.tied[1] \in R
        /\ Rank(c.tied[1]) = c.specificity /\ c.tied[1].match.priority = c.priority
    BY <1>1, <1>2, <2>1
  <2>4. Preferred(c.tied[1], o) <=>
           \/ Rank(c.tied[1]) > Rank(o)
           \/ Rank(c.tied[1]) = Rank(o) /\ c.tied[1].match.priority > o.match.priority
    BY <1>4, <2>3, Zenon
  <2>5. Rank(o) \in Int /\ o.match.priority \in Int
    BY <1>3
  <2> QED
    BY <1>1, <2>2, <2>3, <2>4, <2>5
<1>7. ASSUME Len(c.tied) >= 1 PROVE 1 \in DOMAIN c.tied
  BY <1>1, <1>7
<1>8. ASSUME Len(c.tied) > 1 PROVE 2 \in DOMAIN c.tied /\ 1 \in DOMAIN c.tied /\ 1 # 2
  BY <1>1, <1>8
<1> QED
  BY <1>1, <1>2, <1>5, <1>6, <1>7, <1>8, Zenon
-----------------------------------------------------------------------------
(* What the parser returns: a list of profiles no two of which have the same *)
(* id, because no two keys of a table are the same.                          *)
IsConfig(c) ==
    /\ Len(c.profiles) \in Nat /\ DOMAIN c.profiles = 1 .. Len(c.profiles)
    /\ \A n \in DOMAIN c.profiles : IsMatch(c.profiles[n].match)
    /\ \A m, n \in DOMAIN c.profiles : c.profiles[m].id = c.profiles[n].id => m = n

LEMMA ParsedMatch ==
    ASSUME NEW id, NEW body, ProfileIsValid(body)
    PROVE  IsMatch(ParsedProfile(id, body).match)
<1> DEFINE match == Or(body, "match", <<>>)
<1>1. ASSUME "priority" \in DOMAIN match PROVE match["priority"].value \in MinInt .. MaxInt
  <2>1. "match" \in DOMAIN body
    <3> SUFFICES ASSUME "match" \notin DOMAIN body PROVE FALSE
      OBVIOUS
    <3>1. match = <<>>
      BY Zenon DEF Or
    <3> QED
      BY <1>1, <3>1
  <2>2. match = body["match"].value /\ match \in Opt(body, "match")
    BY <2>1, Zenon DEF Or, Opt
  <2>3. Accepts(match, MatchTypes, MatchRanges)
    BY <2>2, Zenon DEF ProfileIsValid
  <2>4. "priority" \in DOMAIN MatchRanges /\ MatchRanges["priority"] = MinInt .. MaxInt
    BY DEF MatchRanges
  <2> QED
    BY <1>1, <2>3, <2>4, Zenon DEF Accepts
<1>2. Or(match, "priority", 0) \in Int
  <2> HIDE DEF match
  <2>1. CASE "priority" \in DOMAIN match
    <3>1. Or(match, "priority", 0) = match["priority"].value
      BY <2>1, Zenon DEF Or
    <3> QED
      BY <1>1, <2>1, <3>1, IntAssumption
  <2>2. CASE "priority" \notin DOMAIN match
    BY <2>2 DEF Or
  <2> QED
    BY <2>1, <2>2
<1>3. \A key : Optional(Opt(match, key))
  <2> HIDE DEF match
  <2> SUFFICES ASSUME NEW key PROVE Optional(Opt(match, key))
    OBVIOUS
  <2>1. Opt(match, key) = {} \/ Opt(match, key) = {match[key].value}
    BY Zenon DEF Opt
  <2> QED
    BY <2>1, Zenon DEF Optional, IsOne
<1> DEFINE policy == ParsedProfile(id, body).match
<1>4. /\ policy.device_name = Opt(match, "device_name")
      /\ policy.resolution = Opt(match, "resolution")
      /\ policy.aspect_ratio = Opt(match, "aspect_ratio")
      /\ policy.portrait = Opt(match, "portrait")
      /\ policy.priority = Or(match, "priority", 0)
  BY DEF ParsedProfile, MatchPolicy
<1> HIDE DEF policy, match
<1>5. IsMatch(policy)
  BY <1>2, <1>3, <1>4, Zenon DEF IsMatch
<1> QED
  BY <1>5 DEF policy

LEMMA ParsedIsConfig ==
    ASSUME NEW root, RootIsValid(root), IsList(root.profiles.value),
           \A m, n \in DOMAIN root.profiles.value :
              root.profiles.value[m].id = root.profiles.value[n].id => m = n
    PROVE  /\ IsConfig(ParsedConfig(root))
           /\ DOMAIN ParsedConfig(root).profiles = DOMAIN root.profiles.value
           /\ \A n \in DOMAIN root.profiles.value :
                 /\ ProfileIsValid(root.profiles.value[n].node.value)
                 /\ ParsedConfig(root).profiles[n] =
                       ParsedProfile(root.profiles.value[n].id, root.profiles.value[n].node.value)
<1> DEFINE entries == root.profiles.value
           profiles == ParsedConfig(root).profiles
<1>1. profiles = [n \in DOMAIN entries |-> ParsedProfile(entries[n].id, entries[n].node.value)]
  BY DEF ParsedConfig
<1>2. \A n \in DOMAIN entries : ProfileIsValid(entries[n].node.value)
  BY Zenon DEF RootIsValid
<1>3. Len(entries) \in Nat /\ DOMAIN entries = 1 .. Len(entries)
  BY DEF IsList
<1> HIDE DEF entries, profiles
<1>4. Len(profiles) \in Nat /\ DOMAIN profiles = 1 .. Len(profiles)
  <2>1. profiles \in [1 .. Len(entries) -> {profiles[n] : n \in 1 .. Len(entries)}]
    BY <1>1, <1>3
  <2>2. profiles \in Seq({profiles[n] : n \in 1 .. Len(entries)})
    BY <1>3, <2>1, SeqDef
  <2> QED
    BY <2>2
<1>5. \A n \in DOMAIN entries :
         /\ profiles[n] = ParsedProfile(entries[n].id, entries[n].node.value)
         /\ profiles[n].id = entries[n].id
  BY <1>1 DEF ParsedProfile
<1>6. \A n \in DOMAIN entries : IsMatch(profiles[n].match)
  BY <1>2, <1>5, ParsedMatch
<1>7. \A m, n \in DOMAIN profiles : profiles[m].id = profiles[n].id => m = n
  <2>1. \A m, n \in DOMAIN entries : entries[m].id = entries[n].id => m = n
    BY Zenon DEF entries
  <2>2. DOMAIN profiles = DOMAIN entries
    BY <1>1
  <2> QED
    BY <1>5, <2>1, <2>2, Zenon
<1> QED
  BY <1>1, <1>2, <1>4, <1>5, <1>6, <1>7, Zenon DEF IsConfig, entries, profiles

-----------------------------------------------------------------------------
(* The loop: after k profiles of the list c, the choice ranks those of them  *)
(* that compete on the displays ds, and the fallback is the default of the   *)
(* game if it is among them.                                                 *)
Seen(c, k) == {c.profiles[n] : n \in 1 .. k}

Competes(c, ds, p) ==
    p.game = c.game /\ p.match.auto_select /\ \E display \in ds : Fits(p, display)

Rivals(c, ds, k) == {p \in Seen(c, k) : Competes(c, ds, p)}

Fallbacks(c, k) == {p \in Seen(c, k) : p.game = c.game /\ p.id = FallbackId(c, c.game)}

Ranking(ch, c, ds, k) == Leads(ch, Rivals(c, ds, k)) /\ ch.fallback = Fallbacks(c, k)

LEMMA EmptyRanking ==
    ASSUME NEW c, NEW ds PROVE Ranking(NoChoice, c, ds, 0)
<1>1. Seen(c, 0) = {}
  BY DEF Seen
<1>2. Rivals(c, ds, 0) = {} /\ Fallbacks(c, 0) = {}
  BY <1>1 DEF Rivals, Fallbacks
<1>3. NoChoice \in [specificity : Int, priority : Int, tied : Seq({}), fallback : {{}}]
      /\ NoChoice.tied = <<>> /\ NoChoice.fallback = {}
  BY DEF NoChoice
<1>4. Leads(NoChoice, {})
  <2>1. DOMAIN NoChoice.tied = {}
    BY <1>3
  <2> QED
    BY <1>3, <2>1, Zenon DEF Leads
<1> QED
  BY <1>2, <1>3, <1>4, Zenon DEF Ranking

(* The fallback does not matter to the ranking. *)
LEMMA LeadsFallback ==
    ASSUME NEW R, NEW c, Leads(c, R), NEW f
    PROVE  LET d == [c EXCEPT !.fallback = f] IN Leads(d, R) /\ d.fallback = f
<1> DEFINE d == [c EXCEPT !.fallback = f]
<1>1. c \in [specificity : Int, priority : Int, tied : Seq(R), fallback : {c.fallback}]
  BY Zenon DEF Leads
<1>2. /\ d.specificity = c.specificity /\ d.priority = c.priority /\ d.tied = c.tied
      /\ d.fallback = f
      /\ d \in [specificity : Int, priority : Int, tied : Seq(R), fallback : {f}]
  BY <1>1
<1> HIDE DEF d
<1>3. Leads(d, R)
  BY <1>2, Zenon DEF Leads
<1> QED
  BY <1>2, <1>3 DEF d

LEMMA ConsideredRanking ==
    ASSUME NEW c, IsConfig(c), NEW ds, NEW k \in Nat, k + 1 <= Len(c.profiles),
           NEW ch, Ranking(ch, c, ds, k)
    PROVE  Ranking(Considered(ch, c, c.game, c.profiles[k + 1], ds), c, ds, k + 1)
<1> DEFINE p == c.profiles[k + 1]
           seen == IF p.id = FallbackId(c, c.game) THEN [ch EXCEPT !.fallback = {p}] ELSE ch
           R == Rivals(c, ds, k)
<1>1. /\ k + 1 \in DOMAIN c.profiles /\ 1 .. k \subseteq DOMAIN c.profiles /\ k + 1 \notin 1 .. k
      /\ 1 .. k + 1 = (1 .. k) \cup {k + 1}
  BY DEF IsConfig
<1>2. Seen(c, k + 1) = Seen(c, k) \cup {p}
  BY <1>1 DEF Seen
<1>3. \A q \in Seen(c, k) : q.id # p.id /\ q # p /\ IsMatch(q.match)
  BY <1>1 DEF Seen, IsConfig
<1>4. IsMatch(p.match)
  BY <1>1 DEF IsConfig
<1>5. Leads(ch, R) /\ ch.fallback = Fallbacks(c, k)
  BY DEF Ranking
<1> HIDE DEF p
<1>6. Specificity(p, ds) = IF \E d \in ds : Fits(p, d) THEN Rank(p) ELSE -1
  BY <1>4, SpecificityOfFit DEF Rank
<1>7. Rank(p) \in Nat
  BY <1>4, RankRange DEF Rank
<1>8. p \notin R /\ \A q \in R : IsMatch(q.match)
  BY <1>3 DEF Rivals
<1>9. ASSUME p.game = c.game PROVE Leads(seen, R) /\ seen.fallback = Fallbacks(c, k + 1)
  <2>1. CASE p.id = FallbackId(c, c.game)
    <3>1. Fallbacks(c, k + 1) = {p}
      BY <1>2, <1>3, <1>9, <2>1 DEF Fallbacks
    <3> QED
      BY <1>5, <2>1, <3>1, LeadsFallback
  <2>2. CASE p.id # FallbackId(c, c.game)
    <3>1. Fallbacks(c, k + 1) = Fallbacks(c, k)
      BY <1>2, <2>2 DEF Fallbacks
    <3> QED
      BY <1>5, <2>2, <3>1
  <2> QED
    BY <2>1, <2>2
<1>10. CASE p.game # c.game
  <2>1. Considered(ch, c, c.game, p, ds) = ch
    BY <1>10, Zenon DEF Considered
  <2>2. Rivals(c, ds, k + 1) = R
    BY <1>2, <1>10 DEF Rivals, Competes
  <2>3. Fallbacks(c, k + 1) = Fallbacks(c, k)
    BY <1>2, <1>10 DEF Fallbacks
  <2> QED
    BY <1>5, <2>1, <2>2, <2>3, Zenon DEF Ranking, p
<1> HIDE DEF seen
<1>11. CASE p.game = c.game /\ Competes(c, ds, p)
  <2>1. Specificity(p, ds) = Rank(p) /\ p.match.auto_select
    BY <1>6, <1>11, Zenon DEF Competes
  <2>2. Rank(p) >= 0
    BY <1>7
  <2>3. Considered(ch, c, c.game, p, ds) = Ranked(seen, p, Rank(p))
    BY <1>11, <2>1, <2>2, Zenon DEF Considered, seen
  <2>4. Rivals(c, ds, k + 1) = R \cup {p}
    BY <1>2, <1>11 DEF Rivals
  <2>5. /\ Leads(Ranked(seen, p, Rank(p)), R \cup {p})
        /\ Ranked(seen, p, Rank(p)).fallback = Fallbacks(c, k + 1)
    BY <1>4, <1>8, <1>9, <1>11, RankedLeads
  <2> QED
    BY <2>3, <2>4, <2>5, Zenon DEF Ranking, p
<1>12. CASE p.game = c.game /\ ~Competes(c, ds, p)
  <2>1. ~p.match.auto_select \/ Specificity(p, ds) = -1
    BY <1>6, <1>12, Zenon DEF Competes
  <2>2. ~(-1 >= 0)
    OBVIOUS
  <2>3. Considered(ch, c, c.game, p, ds) = seen
    BY <1>12, <2>1, <2>2, Zenon DEF Considered, seen
  <2>4. Rivals(c, ds, k + 1) = R
    BY <1>2, <1>12 DEF Rivals
  <2> QED
    BY <1>9, <1>12, <2>3, <2>4, Zenon DEF Ranking, p
<1> QED
  BY <1>10, <1>11, <1>12
(* What the design asks of the choice made of the whole list.                *)
Verdict(c, ds, chosen) ==
    LET rivals == Rivals(c, ds, Len(c.profiles))
        defaults == {p \in Seen(c, Len(c.profiles)) : p.id = FallbackId(c, c.game)}
    IN  \/ \E p : /\ chosen = {p}
                  /\ \/ p \in rivals /\ \A other \in rivals \ {p} : Preferred(p, other)
                     \/ rivals = {} /\ p \in defaults
        \/ /\ chosen = {}
           /\ \/ \E p, q \in rivals :
                    /\ p # q /\ ~Preferred(p, q) /\ ~Preferred(q, p)
                    /\ \A other \in rivals : ~Preferred(other, p)
              \/ rivals = {} /\ \A p \in defaults : p.game # c.game

LEMMA RankingDecides ==
    ASSUME NEW c, IsConfig(c), NEW ds, NEW ch, Ranking(ch, c, ds, Len(c.profiles))
    PROVE  /\ Decided(ch) = {} \/ \E n \in DOMAIN c.profiles : Decided(ch) = {c.profiles[n]}
           /\ Verdict(c, ds, IF \E p \in Decided(ch) : p.game = c.game THEN Decided(ch) ELSE {})
<1> DEFINE k == Len(c.profiles)
           R == Rivals(c, ds, k)
           D == {p \in Seen(c, k) : p.id = FallbackId(c, c.game)}
           chosen == IF \E p \in Decided(ch) : p.game = c.game THEN Decided(ch) ELSE {}
<1>1. k \in Nat /\ DOMAIN c.profiles = 1 .. k
  BY DEF IsConfig
<1>2. Seen(c, k) = {c.profiles[n] : n \in DOMAIN c.profiles}
  BY <1>1 DEF Seen
<1>3. Leads(ch, R) /\ ch.fallback = Fallbacks(c, k)
  BY Zenon DEF Ranking
<1>4. \A q \in R : /\ q \in Seen(c, k) /\ q.game = c.game /\ IsMatch(q.match)
                   /\ \E n \in DOMAIN c.profiles : q = c.profiles[n]
  BY <1>2 DEF Rivals, Competes, IsConfig
<1> HIDE DEF k
<1> HIDE DEF R
<1>5. /\ Len(ch.tied) \in Nat /\ (Len(ch.tied) = 0 <=> ch.tied = <<>>)
      /\ ch.tied = <<>> => R = {}
      /\ Len(ch.tied) >= 1 => ch.tied[1] \in R /\ \A o \in R : ~Preferred(o, ch.tied[1])
      /\ Len(ch.tied) = 1 => \A o \in R \ {ch.tied[1]} : Preferred(ch.tied[1], o)
      /\ Len(ch.tied) > 1 =>
           /\ ch.tied[2] \in R /\ ch.tied[1] # ch.tied[2]
           /\ ~Preferred(ch.tied[1], ch.tied[2]) /\ ~Preferred(ch.tied[2], ch.tied[1])
  BY <1>3, <1>4, LeadsDecides, Zenon
<1> DEFINE Goal(x) ==
             \/ \E p : /\ x = {p}
                       /\ \/ p \in R /\ \A other \in R \ {p} : Preferred(p, other)
                          \/ R = {} /\ p \in D
             \/ /\ x = {}
                /\ \/ \E p, q \in R :
                         /\ p # q /\ ~Preferred(p, q) /\ ~Preferred(q, p)
                         /\ \A other \in R : ~Preferred(other, p)
                   \/ R = {} /\ \A p \in D : p.game # c.game
<1>6. Verdict(c, ds, chosen) <=> Goal(chosen)
  BY Zenon DEF Verdict, R, k
<1>7. CASE Len(ch.tied) > 1
  <2>1. Decided(ch) = {}
    BY <1>7, Zenon DEF Decided
  <2>2. Len(ch.tied) >= 1
    BY <1>5, <1>7
  <2>3. Goal({})
    <3>1. /\ ch.tied[1] \in R /\ ch.tied[2] \in R /\ ch.tied[1] # ch.tied[2]
          /\ ~Preferred(ch.tied[1], ch.tied[2]) /\ ~Preferred(ch.tied[2], ch.tied[1])
          /\ \A other \in R : ~Preferred(other, ch.tied[1])
      BY <1>5, <1>7, <2>2, Zenon
    <3>2. \E p, q \in R : /\ p # q /\ ~Preferred(p, q) /\ ~Preferred(q, p)
                          /\ \A other \in R : ~Preferred(other, p)
      BY <3>1, Zenon
    <3> QED
      BY <3>2, Zenon
  <2>4. chosen = {}
    BY <2>1
  <2> HIDE DEF chosen, Goal
  <2>5. Verdict(c, ds, chosen)
    BY <1>6, <2>3, <2>4, Zenon
  <2> QED
    BY <2>1, <2>5 DEF chosen
<1>8. CASE Len(ch.tied) = 1
  <2>1. ~(Len(ch.tied) > 1) /\ Len(ch.tied) >= 1 /\ ch.tied # <<>>
    BY <1>5, <1>8
  <2>2. Decided(ch) = {ch.tied[1]}
    BY <2>1, Zenon DEF Decided
  <2>3. ch.tied[1] \in R
    BY <1>5, <2>1, Zenon
  <2>4. chosen = {ch.tied[1]}
    BY <1>4, <2>2, <2>3
  <2>5. Goal({ch.tied[1]})
    BY <1>5, <1>8, <2>3, Zenon
  <2> HIDE DEF chosen, Goal
  <2>6. Verdict(c, ds, chosen)
    BY <1>6, <2>4, <2>5, Zenon
  <2>7. \E n \in DOMAIN c.profiles : Decided(ch) = {c.profiles[n]}
    BY <1>4, <2>2, <2>3, Zenon
  <2> QED
    BY <2>6, <2>7 DEF chosen
<1>9. CASE Len(ch.tied) = 0
  <2>1. ~(Len(ch.tied) > 1) /\ ch.tied = <<>>
    BY <1>5, <1>9
  <2>2. Decided(ch) = Fallbacks(c, k)
    BY <1>3, <2>1, Zenon DEF Decided
  <2>3. R = {}
    BY <1>5, <2>1
  <2>4. \A f \in Fallbacks(c, k) : f.game = c.game /\ f \in D /\ Fallbacks(c, k) = {f}
                                   /\ \E n \in DOMAIN c.profiles : f = c.profiles[n]
    BY <1>2 DEF Fallbacks, IsConfig
  <2>5. Fallbacks(c, k) = {} => \A p \in D : p.game # c.game
    BY DEF Fallbacks
  <2>6. chosen = Fallbacks(c, k)
    BY <2>2, <2>4
  <2>7. Goal(Fallbacks(c, k))
    <3>1. CASE Fallbacks(c, k) = {}
      BY <2>3, <2>5, <3>1, Zenon
    <3>2. ASSUME NEW f \in Fallbacks(c, k) PROVE Goal(Fallbacks(c, k))
      BY <2>3, <2>4, <3>2, Zenon
    <3> QED
      BY <3>1, <3>2
  <2> HIDE DEF chosen, Goal
  <2>8. Verdict(c, ds, chosen)
    BY <1>6, <2>6, <2>7, Zenon
  <2>9. Decided(ch) = {} \/ \E n \in DOMAIN c.profiles : Decided(ch) = {c.profiles[n]}
    BY <2>2, <2>4
  <2> QED
    BY <2>8, <2>9 DEF chosen
<1> QED
  <2>1. Len(ch.tied) > 1 \/ Len(ch.tied) = 1 \/ Len(ch.tied) = 0
    <3>1. Len(ch.tied) \in Nat
      BY <1>5, Zenon
    <3>2. \A n \in Nat : n > 1 \/ n = 1 \/ n = 0
      OBVIOUS
    <3> QED
      BY <3>1, <3>2, Zenon
  <2> QED
    BY <1>7, <1>8, <1>9, <2>1
-----------------------------------------------------------------------------
(* The launch.  ChoiceIsUnambiguous speaks of the end of the loop only, and  *)
(* NoFeatureIsDropped of the game that runs: the invariant says what holds   *)
(* on the way there, one conjunct per stage.                                 *)
Working == {"validate", "arguments", "modules", "scan", "plan", "running"}

(* The configuration is what the parser made of the document. *)
DocumentRead ==
    /\ \E w \in Worlds : document = w.document
    /\ \/ stage \in {"config", "refused"} /\ config = <<>> /\ profile = {}
       \/ stage # "config" /\ RootIsValid(document) /\ config = ParsedConfig(document)

(* What each stage has, and has not yet, decided. *)
Shape ==
    /\ stage \in Stages
    /\ stage \in {"config", "resolve", "choose", "diagnosing"} => profile = {}
    /\ stage \in Working => \E p : profile = {p} /\ p.game = config.game
    /\ controller = {} \/ IsOne(controller)
    /\ guarded \in BOOLEAN
    /\ plan # {} => stage \in {"plan", "running"}

(* The profile is one of the configuration. *)
FromConfig ==
    profile = {} \/ \E n \in DOMAIN config.profiles : profile = {config.profiles[n]}

Loop ==
    /\ stage \in {"config", "resolve"} => choice = NoChoice /\ at = 1
    /\ stage = "choose" =>
          /\ at \in 1 .. Len(config.profiles) + 1
          /\ Ranking(choice, config, displays, at - 1)

Chosen ==
    (stage \notin {"config", "diagnosing", "resolve", "choose"} /\ config # <<>>
        /\ config.profile = "auto") => Verdict(config, displays, profile)

ChoiceInv == DocumentRead /\ FromConfig /\ Loop /\ Chosen

LEMMA ConfigRead ==
    ASSUME DocumentRead, stage \notin {"config", "refused"} \/ config # <<>>
    PROVE  /\ RootIsValid(document) /\ config = ParsedConfig(document)
           /\ IsConfig(config)
           /\ DOMAIN config.profiles = DOMAIN document.profiles.value
           /\ \A n \in DOMAIN config.profiles :
                 /\ ProfileIsValid(document.profiles.value[n].node.value)
                 /\ config.profiles[n] = ParsedProfile(document.profiles.value[n].id,
                                                       document.profiles.value[n].node.value)
<1>1. RootIsValid(document) /\ config = ParsedConfig(document)
  BY Zenon DEF DocumentRead
<1>2. PICK w \in Worlds : document = w.document
  BY Zenon DEF DocumentRead
<1>3. /\ IsList(document.profiles.value)
      /\ \A m, n \in DOMAIN document.profiles.value :
            document.profiles.value[m].id = document.profiles.value[n].id => m = n
  BY <1>1, <1>2, WorldsAssumption, Zenon
<1> QED
  BY <1>1, <1>3, ParsedIsConfig

LEMMA ChoiceInitInv == Init => ChoiceInv
<1> SUFFICES ASSUME Init PROVE ChoiceInv
  OBVIOUS
<1> QED
  BY Zenon DEF Init, ChoiceInv, DocumentRead, FromConfig, Loop, Chosen

LEMMA ReadConfigChoice == ChoiceInv /\ ReadConfig => ChoiceInv'
<1> SUFFICES ASSUME ChoiceInv, ReadConfig PROVE ChoiceInv'
  OBVIOUS
<1>1. /\ stage = "config" /\ config = <<>> /\ profile = {} /\ choice = NoChoice /\ at = 1
      /\ \E w \in Worlds : document = w.document
  BY DEF ChoiceInv, DocumentRead, Loop, ReadConfig
<1>2. document' = document /\ displays' = displays /\ choice' = choice /\ at' = at
      /\ profile' = profile
  BY DEF ReadConfig, Refuse, world
<1>3. \/ /\ RootIsValid(document) /\ config' = ParsedConfig(document)
         /\ stage' \in {"resolve", "diagnosing"}
      \/ stage' = "refused" /\ config' = config
  BY DEF ReadConfig, Refuse
<1>4. DocumentRead'
  BY <1>1, <1>2, <1>3 DEF DocumentRead
<1>5. FromConfig' /\ Loop' /\ Chosen'
  BY <1>1, <1>2, <1>3 DEF FromConfig, Loop, Chosen
<1> QED
  BY <1>4, <1>5 DEF ChoiceInv

LEMMA SelectsChoice ==
    ASSUME ChoiceInv, stage \in {"resolve", "choose"}, NEW chosen,
           chosen = {} \/ \E n \in DOMAIN config.profiles : chosen = {config.profiles[n]},
           Selects(chosen), profile = {}, UNCHANGED world,
           config.profile = "auto" =>
              Verdict(config, displays,
                      IF \E p \in chosen : p.game = config.game THEN chosen ELSE {})
    PROVE  ChoiceInv'
<1>1. UNCHANGED <<document, displays, config, at, choice>>
  BY DEF Selects, Refuse, world
<1>2. /\ stage' \in {"validate", "refused"}
      /\ profile' = IF \E p \in chosen : p.game = config.game THEN chosen ELSE {}
  BY DEF Selects, Refuse
<1>3. DocumentRead'
  BY <1>1, <1>2 DEF ChoiceInv, DocumentRead
<1>4. FromConfig'
  BY <1>1, <1>2 DEF FromConfig
<1>5. Loop'
  BY <1>2 DEF Loop
<1>6. Chosen'
  BY <1>1, <1>2, Zenon DEF Chosen
<1> QED
  BY <1>3, <1>4, <1>5, <1>6 DEF ChoiceInv

LEMMA FoundProfile ==
    ASSUME NEW c, IsConfig(c), NEW id, HasProfile(c, id)
    PROVE  \E n \in DOMAIN c.profiles : FindProfile(c, id) = c.profiles[n]
<1>1. PICK n \in DOMAIN c.profiles : c.profiles[n].id = id
  BY DEF HasProfile
<1>2. \A m \in 1 .. n - 1 : m \in DOMAIN c.profiles /\ m # n
  BY DEF IsConfig
<1>3. \A m \in 1 .. n - 1 : c.profiles[m].id # id
  BY <1>1, <1>2, Zenon DEF IsConfig
<1> DEFINE First1(x) == c.profiles[x].id = id /\ \A m \in 1 .. x - 1 : c.profiles[m].id # id
<1>4. \E x \in DOMAIN c.profiles : First1(x)
  BY <1>1, <1>3
<1>5. (CHOOSE x \in DOMAIN c.profiles : First1(x)) \in DOMAIN c.profiles
  BY <1>4
<1> QED
  BY <1>5, Zenon DEF FindProfile

LEMMA ResolveChoice == ChoiceInv /\ Shape /\ ResolveLaunch => ChoiceInv'
<1> SUFFICES ASSUME ChoiceInv, Shape, ResolveLaunch PROVE ChoiceInv'
  OBVIOUS
<1>1. stage = "resolve" /\ profile = {} /\ UNCHANGED world
  <2>1. stage = "resolve" /\ UNCHANGED <<world, scanVars>>
    BY Zenon DEF ResolveLaunch
  <2> QED
    BY <2>1 DEF Shape
<1>2. /\ RootIsValid(document) /\ config = ParsedConfig(document) /\ IsConfig(config)
  BY <1>1, ConfigRead DEF ChoiceInv
<1>3. CASE config.profile = "auto"
  <2>1. stage' = "choose" /\ UNCHANGED <<document, displays, config, at, choice, profile>>
    BY <1>1, <1>3 DEF ResolveLaunch, world
  <2>2. choice = NoChoice /\ at = 1 /\ at - 1 = 0 /\ at \in 1 .. Len(config.profiles) + 1
    BY <1>1, <1>2 DEF ChoiceInv, Loop, IsConfig
  <2>3. Ranking(choice, config, displays, at - 1)
    BY <2>2, EmptyRanking, Zenon
  <2>4. Loop' /\ Chosen'
    BY <2>1, <2>2, <2>3 DEF Loop, Chosen
  <2>5. DocumentRead' /\ FromConfig'
    BY <1>1, <1>2, <2>1 DEF ChoiceInv, DocumentRead, FromConfig
  <2> QED
    BY <2>4, <2>5 DEF ChoiceInv
<1>4. CASE config.profile # "auto"
  <2>1. PICK id : Selects(Named(id))
    BY <1>4, Zenon DEF ResolveLaunch
  <2>2. PICK chosen : chosen = Named(id)
    OBVIOUS
  <2>3. chosen = {} \/ \E n \in DOMAIN config.profiles : chosen = {config.profiles[n]}
    <3>1. CASE HasProfile(config, id)
      <4>1. PICK n \in DOMAIN config.profiles : FindProfile(config, id) = config.profiles[n]
        BY <1>2, <3>1, FoundProfile
      <4>2. Named(id) = {} \/ Named(id) = {FindProfile(config, id)}
        BY Zenon DEF Named
      <4> QED
        BY <2>2, <4>1, <4>2, Zenon
    <3>2. CASE ~HasProfile(config, id)
      BY <2>2, <3>2 DEF Named
    <3> QED
      BY <3>1, <3>2
  <2>4. Selects(chosen)
    BY <2>1, <2>2, Zenon
  <2> QED
    BY <1>1, <1>4, <2>3, <2>4, SelectsChoice
<1> QED
  BY <1>3, <1>4

LEMMA ConsiderChoice == ChoiceInv /\ Consider => ChoiceInv'
<1> SUFFICES ASSUME ChoiceInv, Consider PROVE ChoiceInv'
  OBVIOUS
<1>1. /\ stage = "choose" /\ at <= Len(config.profiles) /\ at' = at + 1
      /\ choice' = Considered(choice, config, config.game, config.profiles[at], displays)
      /\ UNCHANGED <<document, displays, stage, config, profile>>
  BY DEF Consider, world
<1>2. IsConfig(config) /\ at \in 1 .. Len(config.profiles) + 1
      /\ Ranking(choice, config, displays, at - 1)
  BY <1>1, ConfigRead DEF ChoiceInv, Loop
<1>3. PICK k \in Nat : k = at - 1 /\ k + 1 = at /\ k + 1 <= Len(config.profiles)
  BY <1>1, <1>2 DEF IsConfig
<1>4. Ranking(choice', config, displays, at)
  BY <1>1, <1>2, <1>3, ConsideredRanking
<1>5. at' \in 1 .. Len(config.profiles) + 1 /\ at' - 1 = at
  <2>1. Len(config.profiles) \in Nat
    BY <1>2 DEF IsConfig
  <2>2. at \in Nat /\ at >= 1 /\ at <= Len(config.profiles) /\ at' = at + 1
    BY <1>1, <1>2, <1>3
  <2> QED
    BY <2>1, <2>2
<1>6. Loop'
  BY <1>1, <1>4, <1>5, Zenon DEF Loop
<1>7. DocumentRead' /\ FromConfig' /\ Chosen'
  BY <1>1 DEF ChoiceInv, DocumentRead, FromConfig, Chosen
<1> QED
  BY <1>6, <1>7 DEF ChoiceInv

LEMMA DecideChoice == ChoiceInv /\ Shape /\ Decide => ChoiceInv'
<1> SUFFICES ASSUME ChoiceInv, Shape, Decide PROVE ChoiceInv'
  OBVIOUS
<1>1. /\ stage = "choose" /\ at > Len(config.profiles) /\ profile = {}
      /\ Selects(Decided(choice)) /\ UNCHANGED world
  BY DEF Decide, Shape
<1>2. IsConfig(config) /\ at \in 1 .. Len(config.profiles) + 1
      /\ Ranking(choice, config, displays, at - 1)
  BY <1>1, ConfigRead DEF ChoiceInv, Loop
<1>3. at - 1 = Len(config.profiles)
  BY <1>1, <1>2 DEF IsConfig
<1>4. PICK chosen : chosen = Decided(choice)
  OBVIOUS
<1>5. /\ chosen = {} \/ \E n \in DOMAIN config.profiles : chosen = {config.profiles[n]}
      /\ Verdict(config, displays, IF \E p \in chosen : p.game = config.game THEN chosen ELSE {})
  <2>1. Ranking(choice, config, displays, Len(config.profiles))
    BY <1>2, <1>3, Zenon
  <2>2. /\ Decided(choice) = {} \/ \E n \in DOMAIN config.profiles : Decided(choice) = {config.profiles[n]}
        /\ Verdict(config, displays,
                   IF \E p \in Decided(choice) : p.game = config.game THEN Decided(choice) ELSE {})
    BY <1>2, <2>1, RankingDecides
  <2> QED
    BY <1>4, <2>2, Zenon
<1>6. Selects(chosen)
  BY <1>1, <1>4, Zenon
<1> QED
  BY <1>1, <1>5, <1>6, SelectsChoice

(* The later steps leave the choice alone. *)
LEMMA LaterChoice ==
    ASSUME ChoiceInv, UNCHANGED <<document, displays, config, at, choice, profile>>,
           \/ stage' = stage
           \/ stage \in Working /\ stage' \in Working \cup {"refused"}
    PROVE  ChoiceInv'
<1>1. DocumentRead'
  BY DEF ChoiceInv, DocumentRead, Working
<1>2. FromConfig'
  BY DEF ChoiceInv, FromConfig
<1>3. Loop'
  BY DEF ChoiceInv, Loop, Working
<1>4. Chosen'
  BY DEF ChoiceInv, Chosen, Working
<1> QED
  BY <1>1, <1>2, <1>3, <1>4 DEF ChoiceInv
(* What a feature of the profile has become, stage by stage: a promise of    *)
(* the adapter, arguments, a patch, the controller.                          *)
Promised ==
    stage \in Working \ {"validate"} =>
        Required(Profile) \subseteq Capabilities(Profile) /\ guarded = IsProtected(Profile)

Argued ==
    stage \in Working \ {"validate", "arguments"} =>
        /\ Expressible(Profile)
        /\ arguments = RenderArguments(Profile) \o Passthrough(Profile)

Does(op, value) == \E o \in plan : o.op = op /\ o.value = value

Carried ==
    plan # {} =>
    IF Game = "genshin"
    THEN /\ Does("redirectFps", Profile.fps)
         /\ \A scale \in Profile.dpi_scale : Does("dpi", scale)
         /\ Profile.mobile_ui => Does("detour", 0)
    ELSE Does("writeFps", Profile.fps)

Steered ==
    stage = "running" =>
    /\ plan # {}
    /\ Profile.power_save \/ Profile.hotkeys =>
          \E c \in controller : /\ c.power_save = Profile.power_save
                                /\ c.hotkeys = Profile.hotkeys
                                /\ c.power_save_fps = Profile.power_save_fps

FeatureInv == Shape /\ Promised /\ Argued /\ Carried /\ Steered

LEMMA FeatureInitInv == Init => FeatureInv
  BY DEF Init, FeatureInv, Shape, Stages, Working, Promised, Argued, Carried, Steered

(* A step that only moves on, to a stage that promises no more.              *)
LEMMA MovedOn ==
    ASSUME FeatureInv, UNCHANGED <<config, profile, arguments, guarded, plan, controller>>,
           \/ stage' = stage
           \/ stage' = "refused" /\ plan = {}
           \/ stage = "config" /\ stage' \in {"resolve", "diagnosing"}
           \/ stage = "resolve" /\ stage' = "choose"
           \/ stage = "modules" /\ stage' = "scan"
           \/ stage = "scan" /\ stage' = "plan"
    PROVE  FeatureInv'
<1>1. Profile' = Profile /\ Game' = Game
  BY DEF Profile, Game
<1>2. Shape'
  BY DEF FeatureInv, Shape, Stages, Working
<1>3. Promised' /\ Argued'
  BY <1>1 DEF FeatureInv, Promised, Argued, Working
<1>4. Carried' /\ Steered'
  BY <1>1 DEF FeatureInv, Carried, Steered, Does
<1> QED
  BY <1>2, <1>3, <1>4 DEF FeatureInv

(* Before there is a plan nothing is carried or steered. *)
LEMMA Unplanned ==
    ASSUME plan' = {}, stage' # "running"
    PROVE  Carried' /\ Steered'
  BY DEF Carried, Steered

LEMMA ReadConfigFeatures == ChoiceInv /\ FeatureInv /\ ReadConfig => FeatureInv'
<1> SUFFICES ASSUME ChoiceInv, FeatureInv, ReadConfig PROVE FeatureInv'
  OBVIOUS
<1>1. /\ stage = "config" /\ plan = {} /\ stage' \in {"resolve", "diagnosing", "refused"}
      /\ UNCHANGED <<profile, arguments, guarded, plan, controller>> /\ profile = {}
  BY DEF FeatureInv, Shape, ReadConfig, Refuse
<1>2. Shape'
  BY <1>1 DEF FeatureInv, Shape, Stages, Working
<1>3. Promised' /\ Argued' /\ Carried' /\ Steered'
  BY <1>1 DEF Promised, Argued, Carried, Steered, Working
<1> QED
  BY <1>2, <1>3 DEF FeatureInv

LEMMA SelectsFeatures ==
    ASSUME FeatureInv, stage \in {"resolve", "choose"}, NEW chosen,
           chosen = {} \/ \E n \in DOMAIN config.profiles : chosen = {config.profiles[n]},
           Selects(chosen)
    PROVE  FeatureInv'
<1>1. /\ plan = {} /\ profile = {} /\ UNCHANGED <<config, arguments, guarded, plan, controller>>
      /\ stage' \in {"validate", "refused"}
  BY DEF FeatureInv, Shape, Selects, Refuse
<1>2. CASE stage' = "refused"
  <2>1. profile' = profile
    BY <1>2 DEF Selects, Refuse
  <2> QED
    BY <1>1, <1>2, <2>1, MovedOn
<1>3. CASE stage' = "validate"
  <2>1. profile' = chosen /\ \E p \in chosen : p.game = config.game
    BY <1>3 DEF Selects, Refuse
  <2>2. \E p : profile' = {p} /\ p.game = config'.game
    BY <1>1, <2>1
  <2>3. Shape'
    BY <1>1, <1>3, <2>2 DEF FeatureInv, Shape, Stages, Working
  <2>4. Promised' /\ Argued'
    BY <1>3 DEF Promised, Argued
  <2>5. Carried' /\ Steered'
    BY <1>1, <1>3, Unplanned
  <2> QED
    BY <2>3, <2>4, <2>5 DEF FeatureInv
<1> QED
  BY <1>1, <1>2, <1>3

LEMMA ResolveFeatures == ChoiceInv /\ FeatureInv /\ ResolveLaunch => FeatureInv'
<1> SUFFICES ASSUME ChoiceInv, FeatureInv, ResolveLaunch PROVE FeatureInv'
  OBVIOUS
<1>1. stage = "resolve"
  BY Zenon DEF ResolveLaunch
<1>2. CASE config.profile = "auto"
  BY <1>2, MovedOn DEF ResolveLaunch
<1>3. CASE config.profile # "auto"
  <2>1. PICK id : Selects(Named(id))
    BY <1>3, Zenon DEF ResolveLaunch
  <2>2. PICK chosen : chosen = Named(id)
    OBVIOUS
  <2>3. IsConfig(config)
    BY <1>1, ConfigRead DEF ChoiceInv
  <2>4. chosen = {} \/ \E n \in DOMAIN config.profiles : chosen = {config.profiles[n]}
    <3>1. \/ Named(id) = {}
          \/ HasProfile(config, id) /\ Named(id) = {FindProfile(config, id)}
      BY Zenon DEF Named
    <3> QED
      BY <2>2, <2>3, <3>1, FoundProfile, Zenon
  <2>5. Selects(chosen)
    BY <2>1, <2>2, Zenon
  <2> QED
    BY <1>1, <2>4, <2>5, SelectsFeatures
<1> QED
  BY <1>2, <1>3

LEMMA DecideFeatures == ChoiceInv /\ FeatureInv /\ Decide => FeatureInv'
<1> SUFFICES ASSUME ChoiceInv, FeatureInv, Decide PROVE FeatureInv'
  OBVIOUS
<1>1. stage = "choose" /\ at > Len(config.profiles) /\ Selects(Decided(choice))
  BY DEF Decide
<1>2. IsConfig(config) /\ at \in 1 .. Len(config.profiles) + 1
      /\ Ranking(choice, config, displays, at - 1)
  BY <1>1, ConfigRead DEF ChoiceInv, Loop
<1>3. at - 1 = Len(config.profiles)
  BY <1>1, <1>2 DEF IsConfig
<1>4. PICK chosen : chosen = Decided(choice)
  OBVIOUS
<1>5. chosen = {} \/ \E n \in DOMAIN config.profiles : chosen = {config.profiles[n]}
  <2>1. Ranking(choice, config, displays, Len(config.profiles))
    BY <1>2, <1>3, Zenon
  <2>2. Decided(choice) = {} \/ \E n \in DOMAIN config.profiles : Decided(choice) = {config.profiles[n]}
    BY <1>2, <2>1, RankingDecides
  <2> QED
    BY <1>4, <2>2, Zenon
<1>6. Selects(chosen)
  BY <1>1, <1>4, Zenon
<1> QED
  BY <1>1, <1>5, <1>6, SelectsFeatures

LEMMA ValidateFeatures == FeatureInv /\ Validate => FeatureInv'
<1> SUFFICES ASSUME FeatureInv, Validate PROVE FeatureInv'
  OBVIOUS
<1>1. stage = "validate" /\ plan = {}
  BY DEF FeatureInv, Shape, Validate
<1>2. CASE stage' = "refused"
  <2>1. UNCHANGED <<config, profile, arguments, guarded, plan, controller>>
    BY <1>2 DEF Validate, Refuse
  <2> QED
    BY <1>1, <1>2, <2>1, MovedOn
<1>3. CASE stage' # "refused"
  <2>1. /\ Required(Profile) \subseteq Capabilities(Profile)
        /\ stage' = "arguments" /\ guarded' = IsProtected(Profile)
        /\ UNCHANGED <<config, profile, arguments, plan, controller>>
    BY <1>3, Zenon DEF Validate, Refuse
  <2>2. Profile' = Profile
    BY <2>1 DEF Profile
  <2>3. Shape'
    <3>1. IsProtected(Profile) \in BOOLEAN
      BY DEF IsProtected, DrivesRender
    <3> QED
      BY <1>1, <2>1, <3>1 DEF FeatureInv, Shape, Stages, Working
  <2>4. Promised'
    BY <2>1, <2>2, Zenon DEF Promised
  <2>5. Argued'
    BY <2>1 DEF Argued
  <2>6. Carried' /\ Steered'
    BY <1>1, <2>1, Unplanned
  <2> QED
    BY <2>3, <2>4, <2>5, <2>6 DEF FeatureInv
<1> QED
  BY <1>2, <1>3

LEMMA LaunchPlanFeatures == FeatureInv /\ BuildLaunchPlan => FeatureInv'
<1> SUFFICES ASSUME FeatureInv, BuildLaunchPlan PROVE FeatureInv'
  OBVIOUS
<1>1. stage = "arguments" /\ plan = {}
  BY DEF FeatureInv, Shape, BuildLaunchPlan
<1>2. CASE stage' = "refused"
  <2>1. UNCHANGED <<config, profile, arguments, guarded, plan, controller>>
    BY <1>2 DEF BuildLaunchPlan, Refuse
  <2> QED
    BY <1>1, <1>2, <2>1, MovedOn
<1>3. CASE stage' # "refused"
  <2>1. /\ Expressible(Profile)
        /\ arguments' = RenderArguments(Profile) \o Passthrough(Profile)
        /\ stage' = "modules" /\ UNCHANGED <<config, profile, guarded, plan, controller>>
    BY <1>3, Zenon DEF BuildLaunchPlan, Refuse
  <2>2. Profile' = Profile
    BY <2>1 DEF Profile
  <2>3. Shape'
    BY <1>1, <2>1 DEF FeatureInv, Shape, Stages, Working
  <2>4. Promised'
    BY <1>1, <2>1, <2>2 DEF FeatureInv, Promised, Working
  <2>5. Argued'
    BY <2>1, <2>2, Zenon DEF Argued
  <2>6. Carried' /\ Steered'
    BY <1>1, <2>1, Unplanned
  <2> QED
    BY <2>3, <2>4, <2>5, <2>6 DEF FeatureInv
<1> QED
  BY <1>2, <1>3

LEMMA PatchPlanFeatures == FeatureInv /\ BuildPatchPlan => FeatureInv'
<1> SUFFICES ASSUME FeatureInv, BuildPatchPlan PROVE FeatureInv'
  OBVIOUS
<1>1. stage = "plan" /\ plan = {}
  BY DEF BuildPatchPlan
<1>2. CASE stage' = "refused"
  <2>1. UNCHANGED <<config, profile, arguments, guarded, plan, controller>>
    BY <1>1, <1>2 DEF BuildPatchPlan, Refuse
  <2> QED
    BY <1>1, <1>2, <2>1, MovedOn
<1>3. CASE stage' # "refused"
  <2>1. /\ UNCHANGED <<stage, config, profile, arguments, guarded, controller>>
        /\ plan' = IF Game = "genshin" THEN GenshinPlan(Profile) ELSE StarRailPlan(Profile)
    BY <1>3, Zenon DEF BuildPatchPlan, Refuse
  <2>2. Profile' = Profile /\ Game' = Game
    BY <2>1 DEF Profile, Game
  <2>3. Shape'
    BY <1>1, <2>1 DEF FeatureInv, Shape, Stages, Working
  <2>4. Promised' /\ Argued' /\ Steered'
    BY <1>1, <2>1, <2>2 DEF FeatureInv, Promised, Argued, Steered
  <2>5. Carried'
    <3>1. CASE Game = "genshin"
      <4>1. plan' = GenshinPlan(Profile)
        BY <2>1, <3>1
      <4> DEFINE Patch(op, address, value) ==
                   [op |-> op, address |-> address, value |-> value]
      <4> DEFINE newest == CHOOSE n \in FpsFound : \A m \in FpsFound : n <= m
                 a == Fields(FpsIds[newest])[1]
                 b == Fields("genshin.dpi")[1]
                 c == Fields("genshin.unhooktime")[2]
      <4>5. GenshinPlan(Profile) =
              {Patch("redirectFps", a, Profile.fps)}
              \cup {Patch("dpi", b, scale) : scale \in Profile.dpi_scale}
              \cup (IF ~Profile.mobile_ui THEN {} ELSE {Patch("detour", c, 0)})
        BY Zenon DEF GenshinPlan
      <4>6. \A op, address, value : /\ Patch(op, address, value).op = op
                                    /\ Patch(op, address, value).value = value
        OBVIOUS
      <4> HIDE DEF Patch, newest, a, b, c
      <4>2. \E o \in GenshinPlan(Profile) : o.op = "redirectFps" /\ o.value = Profile.fps
        BY <4>5, <4>6
      <4>3. \A scale \in Profile.dpi_scale :
               \E o \in GenshinPlan(Profile) : o.op = "dpi" /\ o.value = scale
        BY <4>5, <4>6
      <4>4. Profile.mobile_ui =>
               \E o \in GenshinPlan(Profile) : o.op = "detour" /\ o.value = 0
        BY <4>5, <4>6
      <4> QED
        BY <2>2, <3>1, <4>1, <4>2, <4>3, <4>4, Zenon DEF Carried, Does
    <3>2. CASE Game # "genshin"
      <4>1. plan' = StarRailPlan(Profile)
        BY <2>1, <3>2
      <4>2. \E o \in StarRailPlan(Profile) : o.op = "writeFps" /\ o.value = Profile.fps
        <5> DEFINE o == [op |-> "writeFps", address |-> Fields("starrail.fps")[1],
                         value |-> Profile.fps]
        <5>1. o \in StarRailPlan(Profile)
          BY Zenon DEF StarRailPlan
        <5>2. o.op = "writeFps" /\ o.value = Profile.fps
          OBVIOUS
        <5> HIDE DEF o
        <5> QED
          BY <5>1, <5>2
      <4> QED
        BY <2>2, <3>2, <4>1, <4>2, Zenon DEF Carried, Does
    <3> QED
      BY <3>1, <3>2
  <2> QED
    BY <2>3, <2>4, <2>5 DEF FeatureInv
<1> QED
  BY <1>2, <1>3

LEMMA StartRuntimeFeatures == FeatureInv /\ StartRuntime => FeatureInv'
<1> SUFFICES ASSUME FeatureInv, StartRuntime PROVE FeatureInv'
  OBVIOUS
<1>1. /\ stage = "plan" /\ plan # {} /\ stage' = "running"
      /\ UNCHANGED <<config, profile, arguments, guarded, plan>>
  BY DEF StartRuntime
<1>2. Profile' = Profile /\ Game' = Game
  BY <1>1 DEF Profile, Game
<1> DEFINE started == [power_save |-> Profile.power_save, hotkeys |-> Profile.hotkeys,
                       profile_fps |-> Profile.fps, power_save_fps |-> Profile.power_save_fps]
<1>3. /\ controller' = {} \/ IsOne(controller')
      /\ Profile.power_save \/ Profile.hotkeys => controller' = {started}
  BY Zenon DEF StartRuntime, IsOne
<1>4. /\ started.power_save = Profile.power_save /\ started.hotkeys = Profile.hotkeys
      /\ started.power_save_fps = Profile.power_save_fps
  OBVIOUS
<1> HIDE DEF started
<1>5. Shape'
  BY <1>1, <1>3 DEF FeatureInv, Shape, Stages, Working
<1>6. Promised' /\ Argued'
  BY <1>1, <1>2 DEF FeatureInv, Promised, Argued, Working
<1>7. Carried'
  BY <1>1, <1>2 DEF FeatureInv, Carried, Does
<1>8. Steered'
  <2>1. Profile.power_save \/ Profile.hotkeys =>
          \E c \in controller' : /\ c.power_save = Profile.power_save
                                 /\ c.hotkeys = Profile.hotkeys
                                 /\ c.power_save_fps = Profile.power_save_fps
    BY <1>3, <1>4, Zenon
  <2> QED
    BY <1>1, <1>2, <2>1, Zenon DEF Steered
<1> QED
  BY <1>5, <1>6, <1>7, <1>8 DEF FeatureInv
LEMMA FeatureNextInv ==
    ChoiceInv /\ FeatureInv /\ [Next]_vars => ChoiceInv' /\ FeatureInv'
<1> SUFFICES ASSUME ChoiceInv, FeatureInv, [Next]_vars PROVE ChoiceInv' /\ FeatureInv'
  OBVIOUS
<1>1. CASE ReadConfig
  BY <1>1, ReadConfigChoice, ReadConfigFeatures
<1>2. CASE ResolveLaunch
  BY <1>2, ResolveChoice, ResolveFeatures, Zenon DEF FeatureInv
<1>3. CASE Consider
  <2>1. UNCHANGED <<config, profile, arguments, guarded, plan, controller, stage>>
    BY <1>3 DEF Consider
  <2> QED
    BY <1>3, <2>1, ConsiderChoice, MovedOn
<1>4. CASE Decide
  BY <1>4, DecideChoice, DecideFeatures, Zenon DEF FeatureInv
<1>5. CASE Validate
  <2>1. /\ stage \in Working /\ stage' \in Working \cup {"refused"}
        /\ UNCHANGED <<document, displays, config, at, choice, profile>>
    BY <1>5 DEF Validate, Refuse, world, Working
  <2> QED
    BY <1>5, <2>1, ValidateFeatures, LaterChoice
<1>6. CASE BuildLaunchPlan
  <2>1. /\ stage \in Working /\ stage' \in Working \cup {"refused"}
        /\ UNCHANGED <<document, displays, config, at, choice, profile>>
    BY <1>6 DEF BuildLaunchPlan, Refuse, world, Working
  <2> QED
    BY <1>6, <2>1, LaunchPlanFeatures, LaterChoice
<1>7. CASE SnapshotModules
  <2>1. /\ stage = "modules" /\ stage' \in {"scan", "refused"}
        /\ UNCHANGED <<document, displays, config, at, choice, profile>>
        /\ UNCHANGED <<config, profile, arguments, guarded, plan, controller>>
    BY <1>7, Zenon DEF SnapshotModules, Refuse, world
  <2>2. plan = {}
    BY <2>1 DEF FeatureInv, Shape
  <2>3. stage \in Working /\ stage' \in Working \cup {"refused"}
    BY <2>1 DEF Working
  <2> QED
    BY <2>1, <2>2, <2>3, MovedOn, LaterChoice
<1>8. CASE Scans
  <2>1. /\ stage' = stage /\ UNCHANGED <<document, displays, config, at, choice, profile>>
        /\ UNCHANGED <<config, profile, arguments, guarded, plan, controller>>
    BY <1>8 DEF Scans, launchVars, world
  <2> QED
    BY <2>1, MovedOn, LaterChoice
<1>9. CASE ScanReturns
  <2>1. /\ stage = "scan" /\ stage' \in {"plan", "refused"}
        /\ UNCHANGED <<document, displays, config, at, choice, profile>>
        /\ UNCHANGED <<config, profile, arguments, guarded, plan, controller>>
    BY <1>9 DEF ScanReturns, Refuse, world
  <2>2. plan = {}
    BY <2>1 DEF FeatureInv, Shape
  <2>3. stage \in Working /\ stage' \in Working \cup {"refused"}
    BY <2>1 DEF Working
  <2> QED
    BY <2>1, <2>2, <2>3, MovedOn, LaterChoice
<1>10. CASE BuildPatchPlan
  <2>1. /\ stage \in Working /\ stage' \in Working \cup {"refused"}
        /\ UNCHANGED <<document, displays, config, at, choice, profile>>
    BY <1>10 DEF BuildPatchPlan, Refuse, world, Working
  <2> QED
    BY <1>10, <2>1, PatchPlanFeatures, LaterChoice
<1>11. CASE StartRuntime
  <2>1. /\ stage \in Working /\ stage' \in Working \cup {"refused"}
        /\ UNCHANGED <<document, displays, config, at, choice, profile>>
    BY <1>11 DEF StartRuntime, world, Working
  <2> QED
    BY <1>11, <2>1, StartRuntimeFeatures, LaterChoice
<1>12. CASE UNCHANGED vars
  <2>1. /\ stage' = stage /\ UNCHANGED <<document, displays, config, at, choice, profile>>
        /\ UNCHANGED <<config, profile, arguments, guarded, plan, controller>>
    BY <1>12 DEF vars, launchVars, world
  <2> QED
    BY <2>1, MovedOn, LaterChoice
<1> QED
  BY <1>1, <1>2, <1>3, <1>4, <1>5, <1>6, <1>7, <1>8, <1>9, <1>10, <1>11, <1>12 DEF Next

LaunchSafe == LaunchInv /\ ChoiceInv /\ FeatureInv

LEMMA LaunchSafeAlways == Spec => []LaunchSafe
<1>1. Init => LaunchSafe
  BY LaunchInitInv, ChoiceInitInv, FeatureInitInv DEF LaunchSafe
<1>2. LaunchSafe /\ [Next]_vars => LaunchSafe'
  BY LaunchNextInv, FeatureNextInv DEF LaunchSafe
<1> QED
  BY <1>1, <1>2, PTL DEF Spec

(* Every variable of the launch and of its scan has its type, whatever the   *)
(* document, the displays, the build and the install.                        *)
THEOREM LaunchTypeCorrect == Spec => []LaunchTypeOK
<1>1. LaunchSafe => LaunchTypeOK
  <2> SUFFICES ASSUME LaunchSafe PROVE LaunchTypeOK
    OBVIOUS
  <2>1. \A set : Optional(set) => Cardinality(set) <= 1
    BY OptionalSize
  <2>2. Optional(profile) /\ Optional(controller)
    <3>1. profile = {} \/ IsOne(profile)
      BY DEF LaunchSafe, ChoiceInv, FromConfig, IsOne
    <3> QED
      BY <3>1 DEF LaunchSafe, FeatureInv, Shape, Optional
  <2>3. Cardinality(profile) <= 1 /\ Cardinality(controller) <= 1
    BY <2>1, <2>2
  <2>4. /\ stage \in Stages
        /\ stage \in {"config", "resolve", "choose", "diagnosing"} => profile = {}
        /\ stage \in {"validate", "arguments", "modules", "scan", "plan", "running"} =>
              \E p \in profile : p.game = config.game
        /\ plan # {} => stage \in {"plan", "running"}
        /\ guarded \in BOOLEAN
    BY DEF LaunchSafe, FeatureInv, Shape, Working
  <2>5. /\ scan \in ScanStates
        /\ sig \in 1 .. Len(signatures) + 1 /\ snap \in 1 .. Len(snapshots) + 1
        /\ Len(resolved) = sig - 1 /\ ReadsStayInside
    BY DEF LaunchSafe, LaunchInv, ScanInv, Types
  <2>6. scan = "sweep" => hits \subseteq First .. End - 1
    <3> SUFFICES ASSUME scan = "sweep" PROVE hits \subseteq First .. End - 1
      OBVIOUS
    <3>1. Types /\ Compiled /\ Sweeping
      BY DEF LaunchSafe, LaunchInv, ScanInv
    <3>2. InRegion /\ AllCompile(signatures)
      BY <3>1 DEF Sweeping, Compiled
    <3>3. First \in Nat /\ End \in Int
      BY <3>1, <3>2, Window
    <3> QED
      BY <3>1, <3>3 DEF Sweeping
  <2> QED
    BY <2>3, <2>4, <2>5, <2>6 DEF LaunchTypeOK
<1> QED
  BY <1>1, LaunchSafeAlways, PTL

(* Whatever profiles the document holds and displays are attached, the       *)
(* automatic choice is the one the tiers of the design give.                 *)
THEOREM ChoiceIsUnambiguousTheorem == Spec => []ChoiceIsUnambiguous
<1>1. ChoiceInv => ChoiceIsUnambiguous
  <2> SUFFICES ASSUME ChoiceInv,
                      stage \notin {"config", "diagnosing", "resolve", "choose"},
                      config # <<>>, config.profile = "auto"
               PROVE  IF profile # {}
                      THEN \/ /\ Profile \in Eligible
                              /\ \A other \in Eligible \ {Profile} : Preferred(Profile, other)
                           \/ Eligible = {} /\ Profile \in Defaults
                      ELSE \/ \E p, q \in Eligible :
                                 /\ p # q /\ ~Preferred(p, q) /\ ~Preferred(q, p)
                                 /\ \A other \in Eligible : ~Preferred(other, p)
                           \/ /\ Eligible = {}
                              /\ \A p \in Defaults : p.game # config.game
    BY DEF ChoiceIsUnambiguous
  <2>1. IsConfig(config) /\ Verdict(config, displays, profile)
    BY ConfigRead DEF ChoiceInv, Chosen
  <2>2. Seen(config, Len(config.profiles)) = {config.profiles[n] : n \in DOMAIN config.profiles}
    BY <2>1 DEF Seen, IsConfig
  <2> DEFINE rivals == Rivals(config, displays, Len(config.profiles))
             defaults == {p \in Seen(config, Len(config.profiles)) :
                             p.id = FallbackId(config, config.game)}
  <2>3. Eligible = rivals
    BY <2>2 DEF Eligible, Rivals, Competes
  <2>4. Defaults = defaults
    BY <2>2 DEF Defaults
  <2>5. \/ \E p : /\ profile = {p}
                  /\ \/ p \in rivals /\ \A other \in rivals \ {p} : Preferred(p, other)
                     \/ rivals = {} /\ p \in defaults
        \/ /\ profile = {}
           /\ \/ \E p, q \in rivals :
                    /\ p # q /\ ~Preferred(p, q) /\ ~Preferred(q, p)
                    /\ \A other \in rivals : ~Preferred(other, p)
              \/ rivals = {} /\ \A p \in defaults : p.game # config.game
    BY <2>1, Zenon DEF Verdict
  <2>6. \A p : profile = {p} => Profile = p
    BY DEF Profile
  <2> HIDE DEF rivals, defaults
  <2> QED
    BY <2>3, <2>4, <2>5, <2>6
<1> QED
  BY <1>1, LaunchSafeAlways, PTL DEF LaunchSafe
-----------------------------------------------------------------------------
(* The argument list.                                                        *)

LEMMA Concatenated ==
    ASSUME NEW S, NEW s \in Seq(S), NEW T, NEW t \in Seq(T)
    PROVE  /\ Len(s \o t) = Len(s) + Len(t) /\ Len(s) \in Nat /\ Len(t) \in Nat
           /\ \A i \in 1 .. Len(s) : (s \o t)[i] = s[i]
           /\ \A i \in 1 .. Len(t) : (s \o t)[Len(s) + i] = t[i]
           /\ DOMAIN (s \o t) = 1 .. Len(s) + Len(t)
           /\ s \o t \in Seq(S \cup T)
<1>1. s \in Seq(S \cup T) /\ t \in Seq(S \cup T)
  OBVIOUS
<1> QED
  BY <1>1

RenderedSize(p) ==
    IF p.resolution = {} THEN <<>>
    ELSE LET size == CHOOSE s \in p.resolution : TRUE
         IN  << <<"-screen-width", size[1]>>, <<"-screen-height", size[2]>> >>

RenderedMode(p) ==
    IF p.fullscreen = {} THEN <<>>
    ELSE << <<"-screen-fullscreen", IF p.fullscreen = {"windowed"} THEN 0 ELSE 1>> >>

(* The size and the mode come first, what the profile passes through last.   *)
Renders(p, list) ==
    /\ Len(list) \in Nat /\ DOMAIN list = 1 .. Len(list)
    /\ \A size : p.resolution = {size} =>
          \E i, j \in DOMAIN list : /\ list[i] = <<"-screen-width", size[1]>>
                                    /\ list[j] = <<"-screen-height", size[2]>>
    /\ p.fullscreen # {} =>
          \E i \in DOMAIN list :
             list[i] = <<"-screen-fullscreen", IF p.fullscreen = {"windowed"} THEN 0 ELSE 1>>
    /\ \E n \in 0 .. Len(list) :
          /\ n + Len(p.arguments) = Len(list)
          /\ \A k \in DOMAIN p.arguments : list[n + k] = <<p.arguments[k], 0>>

LEMMA ArgumentList ==
    ASSUME NEW p, IsList(p.arguments), NEW list,
           list = RenderArguments(p) \o Passthrough(p)
    PROVE  Renders(p, list)
<1> DEFINE a == RenderedSize(p)
           b == RenderedMode(p)
           r == RenderArguments(p)
           t == Passthrough(p)
<1>1. r = a \o b
  BY Zenon DEF RenderArguments, RenderedSize, RenderedMode
<1>2. /\ \E S : a \in Seq(S)
      /\ \A size : p.resolution = {size} =>
            /\ Len(a) = 2
            /\ a[1] = <<"-screen-width", size[1]>> /\ a[2] = <<"-screen-height", size[2]>>
  <2>1. CASE p.resolution = {}
    BY <2>1 DEF RenderedSize
  <2>2. CASE p.resolution # {}
    <3> DEFINE chosen == CHOOSE s \in p.resolution : TRUE
               x == <<"-screen-width", chosen[1]>>
               y == <<"-screen-height", chosen[2]>>
    <3>1. a = <<x, y>>
      BY <2>2, Zenon DEF RenderedSize
    <3>2. \A size : p.resolution = {size} => chosen = size
      OBVIOUS
    <3>3. \A size : p.resolution = {size} =>
             x = <<"-screen-width", size[1]>> /\ y = <<"-screen-height", size[2]>>
      BY <3>2, Zenon
    <3> HIDE DEF x, y, a
    <3>4. a \in Seq({x, y}) /\ Len(a) = 2 /\ a[1] = x /\ a[2] = y
      BY <3>1
    <3> QED
      BY <3>3, <3>4, Zenon DEF a
  <2> QED
    BY <2>1, <2>2
<1>3. /\ \E S : b \in Seq(S)
      /\ p.fullscreen # {} =>
            /\ Len(b) = 1
            /\ b[1] = <<"-screen-fullscreen", IF p.fullscreen = {"windowed"} THEN 0 ELSE 1>>
  <2>1. CASE p.fullscreen = {}
    BY <2>1 DEF RenderedMode
  <2>2. CASE p.fullscreen # {}
    <3> DEFINE x == <<"-screen-fullscreen", IF p.fullscreen = {"windowed"} THEN 0 ELSE 1>>
    <3>1. b = <<x>>
      BY <2>2, Zenon DEF RenderedMode
    <3> HIDE DEF x, b
    <3>2. b \in Seq({x}) /\ Len(b) = 1 /\ b[1] = x
      BY <3>1
    <3> QED
      BY <3>2, Zenon DEF x, b
  <2> QED
    BY <2>1, <2>2
<1>4. /\ Len(p.arguments) \in Nat /\ DOMAIN p.arguments = 1 .. Len(p.arguments)
      /\ \E S : t \in Seq(S)
      /\ Len(t) = Len(p.arguments)
      /\ \A k \in 1 .. Len(p.arguments) : t[k] = <<p.arguments[k], 0>>
  <2>1. Len(p.arguments) \in Nat /\ DOMAIN p.arguments = 1 .. Len(p.arguments)
    BY DEF IsList
  <2>2. t = [n \in 1 .. Len(p.arguments) |-> <<p.arguments[n], 0>>]
    BY <2>1 DEF Passthrough
  <2> DEFINE T == {t[n] : n \in 1 .. Len(p.arguments)}
  <2> HIDE DEF t
  <2>3. t \in [1 .. Len(p.arguments) -> T]
    BY <2>2
  <2> HIDE DEF T
  <2>4. t \in Seq(T)
    BY <2>1, <2>3, SeqDef
  <2>5. Len(t) = Len(p.arguments)
    BY <2>1, <2>3, <2>4
  <2> QED
    BY <2>1, <2>2, <2>4, <2>5
<1> HIDE DEF a, b, r, t
<1>5. PICK A, B, T : a \in Seq(A) /\ b \in Seq(B) /\ t \in Seq(T)
  BY <1>2, <1>3, <1>4, Zenon
<1>6. /\ Len(r) = Len(a) + Len(b) /\ Len(a) \in Nat /\ Len(b) \in Nat
      /\ \A i \in 1 .. Len(a) : r[i] = a[i]
      /\ \A i \in 1 .. Len(b) : r[Len(a) + i] = b[i]
      /\ r \in Seq(A \cup B)
  BY <1>1, <1>5, Concatenated
<1>7. /\ Len(list) = Len(r) + Len(t) /\ Len(r) \in Nat /\ Len(t) \in Nat
      /\ \A i \in 1 .. Len(r) : list[i] = r[i]
      /\ \A i \in 1 .. Len(t) : list[Len(r) + i] = t[i]
      /\ DOMAIN list = 1 .. Len(r) + Len(t)
  <2>1. list = r \o t
    BY Zenon DEF r, t
  <2>2. /\ Len(r \o t) = Len(r) + Len(t) /\ Len(r) \in Nat /\ Len(t) \in Nat
        /\ \A i \in 1 .. Len(r) : (r \o t)[i] = r[i]
        /\ \A i \in 1 .. Len(t) : (r \o t)[Len(r) + i] = t[i]
        /\ DOMAIN (r \o t) = 1 .. Len(r) + Len(t)
    <3>1. PICK R : t \in Seq(T) /\ r \in Seq(R)
      BY <1>5, <1>6, Zenon
    <3>2. /\ Len(r \o t) = Len(r) + Len(t) /\ Len(r) \in Nat /\ Len(t) \in Nat
          /\ DOMAIN (r \o t) = 1 .. Len(r) + Len(t)
      BY <3>1, Concatenated
    <3>3. /\ \A i \in 1 .. Len(r) : (r \o t)[i] = r[i]
          /\ \A i \in 1 .. Len(t) : (r \o t)[Len(r) + i] = t[i]
      BY <3>1, Concatenated
    <3> QED
      BY <3>2, <3>3, Zenon
  <2> QED
    BY <2>1, <2>2, Zenon
<1>8. ASSUME NEW size, p.resolution = {size}
      PROVE  \E i, j \in DOMAIN list : /\ list[i] = <<"-screen-width", size[1]>>
                                       /\ list[j] = <<"-screen-height", size[2]>>
  <2>1. /\ Len(a) = 2 /\ a[1] = <<"-screen-width", size[1]>>
        /\ a[2] = <<"-screen-height", size[2]>>
    BY <1>2, <1>8, Zenon
  <2>2. /\ {1, 2} \subseteq 1 .. Len(a) /\ {1, 2} \subseteq 1 .. Len(r)
        /\ {1, 2} \subseteq DOMAIN list
    BY <1>6, <1>7, <2>1
  <2>3. list[1] = a[1] /\ list[2] = a[2]
    BY <1>6, <1>7, <2>2
  <2> QED
    BY <2>1, <2>2, <2>3, Zenon
<1>9. ASSUME p.fullscreen # {}
      PROVE  \E i \in DOMAIN list :
                list[i] = <<"-screen-fullscreen",
                            IF p.fullscreen = {"windowed"} THEN 0 ELSE 1>>
  <2>1. /\ Len(b) = 1
        /\ b[1] = <<"-screen-fullscreen", IF p.fullscreen = {"windowed"} THEN 0 ELSE 1>>
    BY <1>3, <1>9, Zenon
  <2>2. Len(a) + 1 \in 1 .. Len(r) /\ Len(a) + 1 \in DOMAIN list /\ 1 \in 1 .. Len(b)
    BY <1>6, <1>7, <2>1
  <2>3. list[Len(a) + 1] = b[1]
    BY <1>6, <1>7, <2>2
  <2> QED
    BY <2>1, <2>2, <2>3, Zenon
<1>10. /\ Len(r) \in 0 .. Len(list) /\ Len(r) + Len(p.arguments) = Len(list)
       /\ \A k \in DOMAIN p.arguments : list[Len(r) + k] = <<p.arguments[k], 0>>
  <2>1. Len(t) = Len(p.arguments) /\ Len(p.arguments) \in Nat
        /\ DOMAIN p.arguments = 1 .. Len(p.arguments)
        /\ \A k \in 1 .. Len(p.arguments) : t[k] = <<p.arguments[k], 0>>
    BY <1>4, Zenon
  <2>2. Len(list) = Len(r) + Len(t) /\ Len(r) \in Nat
        /\ \A i \in 1 .. Len(t) : list[Len(r) + i] = t[i]
    BY <1>7, Zenon
  <2>3. Len(r) \in 0 .. Len(list) /\ Len(r) + Len(p.arguments) = Len(list)
    BY <2>1, <2>2
  <2>4. \A k \in DOMAIN p.arguments : list[Len(r) + k] = <<p.arguments[k], 0>>
    BY <2>1, <2>2, Zenon
  <2> QED
    BY <2>3, <2>4
<1>11. Len(list) \in Nat /\ DOMAIN list = 1 .. Len(list)
  BY <1>7
<1> QED
  BY <1>8, <1>9, <1>10, <1>11, Zenon DEF Renders
-----------------------------------------------------------------------------
(* What the table asks for is in the profile, which an adapter accepted.     *)

LEMMA AskedIsParsed ==
    ASSUME NEW id, NEW body, NEW p, p = ParsedProfile(id, body)
    PROVE  /\ p.resolution = Opt(body, "resolution") /\ p.fullscreen = Opt(body, "fullscreen")
           /\ p.monitor = Opt(body, "monitor") /\ p.dpi_scale = Opt(body, "dpi_scale")
           /\ \A value \in Opt(body, "persistence") : p.persistence = value
           /\ Opt(body, "persistence") = {} => p.persistence = "session"
           /\ \A value \in Opt(body, "fps") : p.fps = value
           /\ \A value \in Opt(body, "mobile_ui") : p.mobile_ui = value
           /\ \A value \in Opt(body, "power_save") : p.power_save = value
           /\ \A value \in Opt(body, "power_save_fps") : p.power_save_fps = value
           /\ \A value \in Opt(body, "hotkeys") : p.hotkeys = value
           /\ \A value \in Opt(body, "args") : p.arguments = value
           /\ Opt(body, "args") = {} => p.arguments = <<>>
<1>1. \A key, default : /\ \A value \in Opt(body, key) : Or(body, key, default) = value
                        /\ Opt(body, key) = {} => Or(body, key, default) = default
  BY DEF Opt, Or
<1>2. /\ p.resolution = Opt(body, "resolution") /\ p.fullscreen = Opt(body, "fullscreen")
      /\ p.monitor = Opt(body, "monitor") /\ p.dpi_scale = Opt(body, "dpi_scale")
      /\ p.persistence = Or(body, "persistence", "session")
      /\ p.fps = Or(body, "fps", 120)
      /\ p.mobile_ui = Or(body, "mobile_ui", FALSE)
      /\ p.power_save = Or(body, "power_save", FALSE)
      /\ p.power_save_fps = Or(body, "power_save_fps", 30)
      /\ p.hotkeys = Or(body, "hotkeys", FALSE)
      /\ p.arguments = Or(body, "args", <<>>)
  BY DEF ParsedProfile
<1>3. /\ \A value \in Opt(body, "persistence") : p.persistence = value
      /\ Opt(body, "persistence") = {} => p.persistence = "session"
  BY <1>1, <1>2
<1>4. \A value \in Opt(body, "fps") : p.fps = value
  BY <1>1, <1>2
<1>5. /\ \A value \in Opt(body, "mobile_ui") : p.mobile_ui = value
      /\ \A value \in Opt(body, "power_save") : p.power_save = value
      /\ \A value \in Opt(body, "hotkeys") : p.hotkeys = value
  <2>1. \A value \in Opt(body, "mobile_ui") : Or(body, "mobile_ui", FALSE) = value
    BY Zenon DEF Opt, Or
  <2>2. \A value \in Opt(body, "power_save") : Or(body, "power_save", FALSE) = value
    BY Zenon DEF Opt, Or
  <2>3. \A value \in Opt(body, "hotkeys") : Or(body, "hotkeys", FALSE) = value
    BY Zenon DEF Opt, Or
  <2> QED
    BY <1>2, <2>1, <2>2, <2>3, Zenon
<1>6. \A value \in Opt(body, "power_save_fps") : p.power_save_fps = value
  BY <1>1, <1>2
<1>7. /\ \A value \in Opt(body, "args") : p.arguments = value
      /\ Opt(body, "args") = {} => p.arguments = <<>>
  BY <1>1, <1>2
<1> QED
  BY <1>2, <1>3, <1>4, <1>5, <1>6, <1>7

(* What no adapter reports as supported is not asked for. *)
LEMMA PromisedFeatures ==
    ASSUME NEW p, Required(p) \subseteq Capabilities(p)
    PROVE  /\ p.monitor = {}
           /\ p.game # "genshin" => p.dpi_scale = {} /\ ~p.mobile_ui
<1>1. /\ p.monitor # {} => "MonitorSelection" \in Required(p)
      /\ p.dpi_scale # {} => "CustomDpi" \in Required(p)
      /\ p.mobile_ui => "MobileUi" \in Required(p)
  BY DEF Required
<1>2. /\ "MonitorSelection" \notin CommonCapabilities(p)
      /\ "CustomDpi" \notin CommonCapabilities(p) /\ "MobileUi" \notin CommonCapabilities(p)
  BY DEF CommonCapabilities
<1>3. "MonitorSelection" \notin GenshinCapabilities(p)
  BY <1>2 DEF GenshinCapabilities
<1>4. p.game # "genshin" => Capabilities(p) = CommonCapabilities(p)
  BY DEF Capabilities, StarRailCapabilities
<1>5. Capabilities(p) = GenshinCapabilities(p) \/ Capabilities(p) = CommonCapabilities(p)
  BY DEF Capabilities, StarRailCapabilities
<1> QED
  BY <1>1, <1>2, <1>3, <1>4, <1>5, Zenon

LEMMA RunningFeatures == LaunchSafe => NoFeatureIsDropped
<1> SUFFICES ASSUME LaunchSafe, stage = "running" PROVE NoFeatureIsDropped
  BY DEF NoFeatureIsDropped
<1> DEFINE entries == document.profiles.value
<1>1. /\ DocumentRead /\ FromConfig /\ Shape /\ Promised /\ Argued /\ Carried /\ Steered
      /\ stage \in Working \ {"validate", "arguments"} /\ profile # {}
  BY DEF LaunchSafe, ChoiceInv, FeatureInv, Shape, Working
<1>2. PICK n \in DOMAIN config.profiles : profile = {config.profiles[n]}
  BY <1>1 DEF FromConfig
<1>3. PICK p : p = config.profiles[n]
  OBVIOUS
<1>4. Profile = p
  BY <1>2, <1>3 DEF Profile
<1>5. PICK body : body = entries[n].node.value
  OBVIOUS
<1>6. /\ RootIsValid(document) /\ IsConfig(config) /\ n \in DOMAIN entries
      /\ DOMAIN config.profiles = DOMAIN entries
      /\ \A m \in DOMAIN config.profiles :
            config.profiles[m] = ParsedProfile(entries[m].id, entries[m].node.value)
      /\ p = ParsedProfile(entries[n].id, body) /\ ProfileIsValid(body)
  <2>1. stage \notin {"config", "refused"}
    OBVIOUS
  <2> QED
    BY <1>1, <1>3, <1>5, <2>1, ConfigRead
<1>7. Body = body
  <2>1. \A m \in DOMAIN entries : config.profiles[m].id = entries[m].id
    <3>1. \A id, b : ParsedProfile(id, b).id = id
      BY DEF ParsedProfile
    <3> QED
      BY <1>6, <3>1
  <2>2. \A m \in DOMAIN entries : entries[m].id = p.id => m = n
    BY <1>3, <1>6, <2>1 DEF IsConfig
  <2>3. entries[n].id = p.id
    BY <1>3, <1>6, <2>1
  <2>4. (CHOOSE m \in DOMAIN entries : entries[m].id = p.id) = n
    BY <1>6, <2>2, <2>3
  <2> QED
    BY <1>4, <1>5, <2>4 DEF Body
<1>8. PICK w \in Worlds : document = w.document
  BY <1>1 DEF DocumentRead
<1>9. \A tokens \in Opt(body, "args") : IsList(tokens)
  BY <1>5, <1>6, <1>8, WorldsAssumption, Zenon
<1> HIDE DEF entries
<1> DEFINE Ask(key) == Opt(body, key)
<1>10. /\ p.resolution = Ask("resolution") /\ p.fullscreen = Ask("fullscreen")
       /\ p.monitor = Ask("monitor") /\ p.dpi_scale = Ask("dpi_scale")
       /\ \A value \in Ask("persistence") : p.persistence = value
       /\ Ask("persistence") = {} => p.persistence = "session"
       /\ \A value \in Ask("fps") : p.fps = value
       /\ \A value \in Ask("mobile_ui") : p.mobile_ui = value
       /\ \A value \in Ask("power_save") : p.power_save = value
       /\ \A value \in Ask("power_save_fps") : p.power_save_fps = value
       /\ \A value \in Ask("hotkeys") : p.hotkeys = value
       /\ \A value \in Ask("args") : p.arguments = value
       /\ Ask("args") = {} => p.arguments = <<>>
  <2>1. PICK id : p = ParsedProfile(id, body)
    BY <1>6, Zenon
  <2> QED
    BY <2>1, AskedIsParsed
<1>11. /\ \A key : Ask(key) = {} \/ IsOne(Ask(key))
       /\ Ask("persistence") \subseteq {"session", "persistent"}
       /\ Ask("fullscreen") \subseteq {"exclusive", "borderless", "windowed"}
  <2>1. \A key : Opt(body, key) = {} \/ \E v : Opt(body, key) = {v}
    BY DEF Opt
  <2>2. Accepts(body, ProfileTypes, ProfileRanges)
    BY <1>6 DEF ProfileIsValid
  <2>3. /\ {"persistence", "fullscreen"} \subseteq DOMAIN ProfileRanges
        /\ ProfileRanges["persistence"] = {"session", "persistent"}
        /\ ProfileRanges["fullscreen"] = {"exclusive", "borderless", "windowed"}
    BY DEF ProfileRanges
  <2>4. \A key \in {"persistence", "fullscreen"} : Opt(body, key) \subseteq ProfileRanges[key]
    BY <2>2, <2>3 DEF Accepts, Opt
  <2> QED
    BY <2>1, <2>3, <2>4 DEF IsOne
<1>12. /\ Required(p) \subseteq Capabilities(p) /\ guarded = IsProtected(p)
       /\ Expressible(p) /\ arguments = RenderArguments(p) \o Passthrough(p)
  BY <1>1, <1>4 DEF Promised, Argued
<1>13. /\ p.monitor = {}
       /\ p.game # "genshin" => p.dpi_scale = {} /\ ~p.mobile_ui
  BY <1>12, PromisedFeatures
<1>14. IsList(p.arguments)
  <2>1. CASE Ask("args") = {}
    <3>1. IsList(<<>>)
      BY DEF IsList
    <3> QED
      BY <1>10, <2>1, <3>1, Zenon
  <2>2. ASSUME NEW tokens \in Ask("args") PROVE IsList(p.arguments)
    BY <1>9, <1>10, Zenon
  <2> QED
    BY <2>1, <2>2
<1>15. /\ Len(arguments) \in Nat /\ DOMAIN arguments = 1 .. Len(arguments)
       /\ \A size : p.resolution = {size} =>
             \E i, j \in DOMAIN arguments : /\ arguments[i] = <<"-screen-width", size[1]>>
                                            /\ arguments[j] = <<"-screen-height", size[2]>>
       /\ p.fullscreen # {} =>
             \E i \in DOMAIN arguments :
                arguments[i] = <<"-screen-fullscreen",
                                 IF p.fullscreen = {"windowed"} THEN 0 ELSE 1>>
       /\ \E k \in 0 .. Len(arguments) :
             /\ k + Len(p.arguments) = Len(arguments)
             /\ \A i \in DOMAIN p.arguments : arguments[k + i] = <<p.arguments[i], 0>>
  <2>1. PICK list : list = arguments
    OBVIOUS
  <2>2. list = RenderArguments(p) \o Passthrough(p)
    BY <1>12, <2>1, Zenon
  <2>3. Renders(p, list)
    BY <1>14, <2>2, ArgumentList
  <2>4. Renders(p, arguments)
    BY <2>1, <2>3, Zenon
  <2> QED
    BY <2>4, Zenon DEF Renders
<1>16. \A key, value : value \in Ask(key) => Ask(key) = {value}
  BY <1>11 DEF IsOne
<1> HIDE DEF Ask
<1>21. ASSUME NEW size \in Ask("resolution")
       PROVE  /\ <<"-screen-width", size[1]>> \in Passed
              /\ <<"-screen-height", size[2]>> \in Passed
              /\ Ask("persistence") # {"persistent"} => guarded
  <2>1. p.resolution = {size}
    BY <1>10, <1>16, Zenon
  <2>2. /\ <<"-screen-width", size[1]>> \in Passed
        /\ <<"-screen-height", size[2]>> \in Passed
    <3>1. PICK i, j \in DOMAIN arguments : /\ arguments[i] = <<"-screen-width", size[1]>>
                                           /\ arguments[j] = <<"-screen-height", size[2]>>
      BY <1>15, <2>1, Zenon
    <3>2. arguments[i] \in Passed /\ arguments[j] \in Passed
      BY DEF Passed
    <3> QED
      BY <3>1, <3>2, Zenon
  <2>3. ASSUME Ask("persistence") # {"persistent"} PROVE guarded
    <3>1. p.persistence = "session"
      BY <1>10, <1>11, <1>16, <2>3
    <3>2. IsProtected(p)
      BY <2>1, <3>1 DEF IsProtected, DrivesRender
    <3> QED
      BY <1>12, <3>2, Zenon
  <2> QED
    BY <2>2, <2>3
<1>22. ASSUME NEW mode \in Ask("fullscreen")
       PROVE  \E f \in {0, 1} : /\ <<"-screen-fullscreen", f>> \in Passed
                                /\ mode = (IF f = 0 THEN "windowed" ELSE "exclusive")
  <2>1. p.fullscreen = {mode} /\ mode \in {"exclusive", "borderless", "windowed"}
    BY <1>10, <1>11, <1>16
  <2>2. mode \in {"exclusive", "windowed"}
    BY <1>12, <2>1 DEF Expressible
  <2> DEFINE f == IF p.fullscreen = {"windowed"} THEN 0 ELSE 1
  <2>3. f \in {0, 1} /\ mode = (IF f = 0 THEN "windowed" ELSE "exclusive")
    BY <2>1, <2>2
  <2>4. <<"-screen-fullscreen", f>> \in Passed
    <3>0. p.fullscreen # {}
      BY <2>1
    <3>1. PICK i \in DOMAIN arguments : arguments[i] = <<"-screen-fullscreen", f>>
      BY <1>15, <3>0, Zenon
    <3>2. arguments[i] \in Passed
      BY DEF Passed
    <3> QED
      BY <3>1, <3>2, Zenon
  <2> HIDE DEF f
  <2> QED
    BY <2>3, <2>4
<1>23. ASSUME NEW tokens \in Ask("args")
       PROVE  \E k \in 0 .. Len(arguments) :
                 /\ k + Len(tokens) = Len(arguments)
                 /\ \A i \in DOMAIN tokens : arguments[k + i][1] = tokens[i]
  <2>1. p.arguments = tokens
    BY <1>10, Zenon
  <2>2. PICK k \in 0 .. Len(arguments) :
           /\ k + Len(tokens) = Len(arguments)
           /\ \A i \in DOMAIN tokens : arguments[k + i] = <<tokens[i], 0>>
    BY <1>15, <2>1, Zenon
  <2>3. \A i \in DOMAIN tokens : arguments[k + i][1] = tokens[i]
    BY <2>2
  <2> QED
    BY <2>2, <2>3
<1>24. /\ plan # {} /\ Game = p.game
       /\ Game = "genshin" => /\ Does("redirectFps", p.fps)
                              /\ \A scale \in p.dpi_scale : Does("dpi", scale)
                              /\ p.mobile_ui => Does("detour", 0)
       /\ Game # "genshin" => Does("writeFps", p.fps)
  <2>1. plan # {} /\ Game = p.game
    BY <1>1, <1>4 DEF Steered, Game
  <2> QED
    BY <1>1, <1>4, <2>1, Zenon DEF Carried
<1>25. \A op, value : Does(op, value) => value \in Patched(op)
  BY DEF Does, Patched
<1>26. Ask("fps") \subseteq Patched("redirectFps") \cup Patched("writeFps")
  BY <1>10, <1>24, <1>25, Zenon
<1>27. Ask("dpi_scale") \subseteq Patched("dpi")
  BY <1>10, <1>13, <1>24, <1>25, Zenon
<1>28. Ask("mobile_ui") = {TRUE} => Patched("detour") # {}
  <2> SUFFICES ASSUME Ask("mobile_ui") = {TRUE} PROVE Patched("detour") # {}
    OBVIOUS
  <2>1. TRUE \in Ask("mobile_ui")
    OBVIOUS
  <2>2. p.mobile_ui = TRUE
    BY <1>10, <2>1, Zenon
  <2>3. 0 \in Patched("detour")
    BY <1>13, <1>24, <1>25, <2>2, Zenon
  <2> QED
    BY <2>3
<1>29. Ask("power_save") = {TRUE} =>
          \E c \in controller : c.power_save /\ Ask("power_save_fps") \subseteq {c.power_save_fps}
  <2> SUFFICES ASSUME Ask("power_save") = {TRUE}
               PROVE  \E c \in controller :
                         c.power_save /\ Ask("power_save_fps") \subseteq {c.power_save_fps}
    OBVIOUS
  <2>1. TRUE \in Ask("power_save")
    OBVIOUS
  <2>2. p.power_save = TRUE
    BY <1>10, <2>1, Zenon
  <2>3. PICK c \in controller : /\ c.power_save = p.power_save
                                /\ c.power_save_fps = p.power_save_fps
    BY <1>1, <1>4, <2>2, Zenon DEF Steered
  <2>4. Ask("power_save_fps") \subseteq {c.power_save_fps}
    BY <1>10, <2>3, Zenon
  <2> QED
    BY <2>2, <2>3, <2>4, Zenon
<1>30. Ask("hotkeys") = {TRUE} => \E c \in controller : c.hotkeys
  <2> SUFFICES ASSUME Ask("hotkeys") = {TRUE} PROVE \E c \in controller : c.hotkeys
    OBVIOUS
  <2>1. TRUE \in Ask("hotkeys")
    OBVIOUS
  <2>2. p.hotkeys = TRUE
    BY <1>10, <2>1, Zenon
  <2>3. PICK c \in controller : c.hotkeys = p.hotkeys
    BY <1>1, <1>4, <2>2, Zenon DEF Steered
  <2> QED
    BY <2>2, <2>3, Zenon
<1>31. \A key : Asked(key) = Ask(key)
  BY <1>7, Zenon DEF Asked, Ask
<1>32. Ask("monitor") = {}
  BY <1>10, <1>13, Zenon
<1> QED
  BY <1>21, <1>22, <1>23, <1>26, <1>27, <1>28, <1>29, <1>30, <1>31, <1>32, Zenon
     DEF NoFeatureIsDropped

(* Once the game runs nothing the profile's table asks for was ignored,      *)
(* whatever it asks for, of whichever game, on whichever build.              *)
THEOREM NoFeatureIsDroppedTheorem == Spec => []NoFeatureIsDropped
  BY LaunchSafeAlways, RunningFeatures, PTL
=============================================================================
