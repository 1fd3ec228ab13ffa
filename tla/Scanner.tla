------------------------------ MODULE Scanner ------------------------------
(* The signature scan (scan/compiled_pattern.cpp, scan/pattern_scanner.cpp,  *)
(* scan/signature.cpp, scan/module_snapshot.cpp and the resolver loop of     *)
(* game/adapter.cpp): every signature of a game is swept for in the copied   *)
(* sections of its modules, and the first match yields the addresses that    *)
(* are patched.  A step is one chunk compared, one candidate tested or one   *)
(* byte of the tail, as in for_each_byte_hit.                                *)
(*                                                                           *)
(* Offsets start at 0, as in the code; byte o of a section is bytes[o + 1].  *)
EXTENDS Integers, Sequences, FiniteSets, FiniteSetsExt

CONSTANTS
    Base,           \* values of a byte: 256 in the code
    FieldWidth,     \* bytes of a displacement: 4 in the code
    Chunk,          \* bytes compared at once: 16 in the code
    MaxSection,     \* kMaxSectionBytes
    Wild, Bad       \* tokens of a pattern: "??", and what is not hex

Byte == 0 .. Base - 1

ASSUME ScannerAssumption ==
    /\ Base \in Nat \ {0} /\ FieldWidth \in Nat \ {0} /\ Chunk \in Nat \ {0}
    /\ MaxSection \in Nat
    /\ Wild \notin Byte /\ Bad \notin Byte /\ Wild # Bad

VARIABLES
    scan,           \* program counter
    signatures,     \* what is scanned for: a game's table
    snapshots,      \* where: the copied modules, each a function of sections
    sig, snap,      \* the signature and the snapshot under way
    cursor,         \* i of for_each_byte_hit
    hits,           \* candidates of the last chunk still to be tested: mask
    found,          \* the offset of the match
    resolved,       \* the ResolvedSignatures so far
    overrun         \* history: a byte past the end of a copy was read

scanVars == <<scan, signatures, snapshots, sig, snap, cursor, hits, found,
              resolved, overrun>>

SectionNames == {".text", "il2cpp"}
Strategies == {"Direct", "FieldDisp", "RipRelative", "RawInt32At"}

SignatureRecords == [id : STRING, section : SectionNames,
                     pattern : Seq(Byte \cup {Wild, Bad}),
                     resolvers : Seq([strategy : Strategies, disp : Nat, skip : Nat])]

(* A section in memory, as its header describes it, and a copied one.        *)
MemorySections == [virtual : Nat, raw : Nat, address : Nat, memory : Seq(Byte)]
Copies == [remote : Nat, bytes : Seq(Byte)]

ScanStates == {"idle", "compile", "section", "sweep", "match", "done", "refused"}

-----------------------------------------------------------------------------
(* Patterns.                                                                 *)

(* A pattern's runs of fixed bytes. *)
Runs(p) ==
    {r \in [start : 0 .. Len(p) - 1, length : 1 .. Len(p)] :
        /\ r.start + r.length <= Len(p)
        /\ \A k \in r.start + 1 .. r.start + r.length : p[k] # Wild}

(* compile_pattern: every token is a byte or a wildcard, and one is a byte. *)
Compiles(p) ==
    /\ \A k \in 1 .. Len(p) : p[k] # Bad
    /\ Runs(p) # {}

(* The first of the longest runs. *)
Anchor(p) ==
    CHOOSE r \in Runs(p) :
        \A s \in Runs(p) : \/ s.length < r.length
                           \/ s.length = r.length /\ r.start <= s.start

(* make_signature, for a whole table. *)
AllCompile(table) ==
    \A n \in 1 .. Len(table) : Compiles(table[n].pattern) /\ table[n].resolvers # <<>>

(* The byte at an offset.  Past the end it is anything: overrun has it read. *)
At(bytes, o) == IF o < Len(bytes) THEN bytes[o + 1] ELSE 0

MaskedEquals(p, bytes, pos, from, to) ==
    \A k \in from + 1 .. to : p[k] = Wild \/ At(bytes, pos + k - 1) = p[k]

IsMatchAt(p, bytes, pos) ==
    LET a == Anchor(p)
        suffix == a.start + a.length
    IN  /\ \A k \in a.start + 1 .. suffix : At(bytes, pos + k - 1) = p[k]
        /\ MaskedEquals(p, bytes, pos, 0, a.start)
        /\ MaskedEquals(p, bytes, pos, suffix, Len(p))

-----------------------------------------------------------------------------
(* Snapshots.  A module in memory maps the names of its sections to their    *)
(* sizes, their address and what can be read of them.                        *)

SizeOf(section) == IF section.virtual = 0 THEN section.raw ELSE section.virtual

(* snapshot_module leaves out a section that is absent, empty or too large,  *)
(* and fails when one of the others cannot be read.                          *)
Copied(module, names) ==
    {n \in names \cap DOMAIN module : SizeOf(module[n]) \in 1 .. MaxSection}

CanSnapshot(module, names) ==
    \A n \in Copied(module, names) : SizeOf(module[n]) <= Len(module[n].memory)

Snapshot(module, names) ==
    [n \in Copied(module, names) |->
        [remote |-> module[n].address,
         bytes |-> SubSeq(module[n].memory, 1, SizeOf(module[n]))]]

-----------------------------------------------------------------------------
(* Resolvers.                                                                *)

(* A field, little-endian; Signed is its value as an int32_t.                *)
Unsigned(bytes, field) ==
    MapThenSumSet(LAMBDA k : At(bytes, field + k) * Base ^ k, 0 .. FieldWidth - 1)

Signed(bytes, field) ==
    LET u == Unsigned(bytes, field)
    IN  IF 2 * u >= Base ^ FieldWidth THEN u - Base ^ FieldWidth ELSE u

FieldFits(section, field) == field + FieldWidth <= Len(section.bytes)

(* The field a resolver reads at a match: none when it would not fit.        *)
FieldsRead(spec, section, pos) ==
    {f \in {pos + spec.disp} : /\ spec.strategy \in {"RipRelative", "RawInt32At"}
                              /\ FieldFits(section, f)}

(* resolve_match: the set of what it returns, {} for nullopt.                *)
Resolve(spec, section, pos) ==
    LET address == section.remote + pos
        fields == FieldsRead(spec, section, pos)
    IN  IF spec.strategy = "Direct" THEN {address}
        ELSE IF spec.strategy = "FieldDisp" THEN {address + spec.disp}
        ELSE IF spec.strategy = "RawInt32At"
        THEN {Unsigned(section.bytes, f) : f \in fields}
        ELSE {address + spec.disp + spec.skip + Signed(section.bytes, f) : f \in fields}
             \cap Nat

(* One signature's entry once it has a match. *)
Resolution(signature, section, pos) ==
    LET values == [r \in 1 .. Len(signature.resolvers) |->
                      Resolve(signature.resolvers[r], section, pos)]
    IN  [id |-> signature.id,
         resolved |-> \A r \in DOMAIN values : values[r] # {},
         fields |-> [r \in DOMAIN values |->
                        IF values[r] = {} THEN 0 ELSE CHOOSE v \in values[r] : TRUE]]

Unresolved(signature) ==
    [id |-> signature.id, resolved |-> FALSE,
     fields |-> [r \in 1 .. Len(signature.resolvers) |-> 0]]

(* find_resolved: the first resolved entry with this id. *)
IsResolved(entries, id) == \E n \in 1 .. Len(entries) :
    entries[n].resolved /\ entries[n].id = id

FindResolved(entries, id) ==
    entries[CHOOSE n \in 1 .. Len(entries) :
        /\ entries[n].resolved /\ entries[n].id = id
        /\ \A m \in 1 .. n - 1 : ~(entries[m].resolved /\ entries[m].id = id)]

-----------------------------------------------------------------------------
(* The scan.                                                                 *)

Signature == signatures[sig]
Pattern == Signature.pattern
Hosts(n) == Signature.section \in DOMAIN snapshots[n]
Section == snapshots[snap][Signature.section]
Region == Section.bytes

(* The candidates: where the anchor's first byte may be found. *)
First == Anchor(Pattern).start
(* Mutant: one candidate too many. *)
EndTooFar == Len(Region) - Len(Pattern) + First + 2

End == Len(Region) - Len(Pattern) + First + 1
IsHit(o) == At(Region, o) = Pattern[First + 1]

ScanInit ==
    /\ scan = "idle" /\ signatures = <<>> /\ snapshots = <<>>
    /\ sig = 1 /\ snap = 1 /\ cursor = 0 /\ hits = {} /\ found = 0
    /\ resolved = <<>> /\ overrun = FALSE

BeginScan(table, copies) ==
    /\ scan = "idle" /\ scan' = "compile"
    /\ signatures' = table /\ snapshots' = copies
    /\ UNCHANGED <<sig, snap, cursor, hits, found, resolved, overrun>>

Reads(end) == overrun' = (overrun \/ end > Len(Region))

(* The adapters' resolve_signatures: all are compiled before any is scanned. *)
Compile ==
    /\ scan = "compile"
    /\ scan' = IF AllCompile(signatures) THEN "section" ELSE "refused"
    /\ UNCHANGED <<signatures, snapshots, sig, snap, cursor, hits, found,
                   resolved, overrun>>

AddEntry(entry) ==
    /\ resolved' = Append(resolved, entry)
    /\ sig' = sig + 1 /\ snap' = 1 /\ scan' = "section"
    /\ UNCHANGED <<signatures, snapshots, cursor, hits, found>>

(* resolve_all_signatures on to the next snapshot: it lacks the section, the *)
(* pattern does not fit (scan_first), or the sweep begins.                   *)
EnterSection ==
    /\ scan = "section" /\ sig <= Len(signatures) /\ snap <= Len(snapshots)
    /\ IF Hosts(snap) /\ Len(Pattern) <= Len(Region)
       THEN scan' = "sweep" /\ cursor' = First /\ UNCHANGED snap
       ELSE snap' = snap + 1 /\ UNCHANGED <<scan, cursor>>
    /\ UNCHANGED <<signatures, snapshots, sig, hits, found, resolved, overrun>>

NoMatch ==
    /\ scan = "section" /\ sig <= Len(signatures) /\ snap > Len(snapshots)
    /\ AddEntry(Unresolved(Signature)) /\ UNCHANGED overrun

CompareChunk ==
    /\ scan = "sweep" /\ hits = {} /\ cursor + Chunk <= End
    /\ hits' = {o \in cursor .. cursor + Chunk - 1 : IsHit(o)}
    /\ cursor' = cursor + Chunk
    /\ Reads(cursor + Chunk)
    /\ UNCHANGED <<scan, signatures, snapshots, sig, snap, found, resolved>>

(* The candidate's callback in scan_first. *)
Test(o) ==
    LET pos == o - First
    IN  /\ Reads(pos + Len(Pattern))
        /\ IF IsMatchAt(Pattern, Region, pos)
           THEN scan' = "match" /\ found' = pos
           ELSE UNCHANGED <<scan, found>>

(* Mutant: the other hits of the chunk are dropped with the one tested. *)
TestOneHit ==
    /\ scan = "sweep" /\ hits # {}
    /\ \E o \in hits : (\A other \in hits : o <= other) /\ Test(o)
    /\ hits' = {}
    /\ UNCHANGED <<signatures, snapshots, sig, snap, cursor, resolved>>

TestHit ==
    /\ scan = "sweep" /\ hits # {}
    /\ \E o \in hits :
          /\ \A other \in hits : o <= other
          /\ Test(o)
          /\ hits' = IF scan' = "match" THEN {} ELSE hits \ {o}
    /\ UNCHANGED <<signatures, snapshots, sig, snap, cursor, resolved>>

TailByte ==
    /\ scan = "sweep" /\ hits = {} /\ cursor < End /\ cursor + Chunk > End
    /\ IF IsHit(cursor) THEN Test(cursor)
       ELSE Reads(cursor + 1) /\ UNCHANGED <<scan, found>>
    /\ cursor' = cursor + 1
    /\ UNCHANGED <<signatures, snapshots, sig, snap, hits, resolved>>

SweepEnds ==
    /\ scan = "sweep" /\ hits = {} /\ cursor >= End
    /\ scan' = "section" /\ snap' = snap + 1
    /\ UNCHANGED <<signatures, snapshots, sig, cursor, hits, found, resolved,
                   overrun>>

(* The first snapshot with a match wins, whether its fields resolve or not. *)
ResolveMatch ==
    /\ scan = "match"
    /\ AddEntry(Resolution(Signature, Section, found))
    /\ LET fields == UNION {FieldsRead(spec, Section, found) :
                               spec \in Range(Signature.resolvers)}
       IN  overrun' = (overrun \/ \E f \in fields : ~FieldFits(Section, f))

ScanEnds ==
    /\ scan = "section" /\ sig > Len(signatures)
    /\ scan' = "done"
    /\ UNCHANGED <<signatures, snapshots, sig, snap, cursor, hits, found,
                   resolved, overrun>>

ScanNext ==
    \/ Compile \/ EnterSection \/ NoMatch \/ CompareChunk \/ TestHit
    \/ TailByte \/ SweepEnds \/ ResolveMatch \/ ScanEnds

-----------------------------------------------------------------------------
(* Properties.                                                               *)

(* A pattern is found where it first occurs: whatever the length of the      *)
(* chunks, where the anchor lies and how the section ends, each entry is     *)
(* that of the least offset at which every fixed byte agrees, in the first   *)
(* module that has one, and a signature without an entry occurs nowhere      *)
(* (scan_first and resolve_all_signatures).                                  *)
OccursAt(p, bytes, pos) ==
    /\ pos + Len(p) <= Len(bytes)
    /\ \A k \in 1 .. Len(p) : p[k] = Wild \/ bytes[pos + k] = p[k]

Occurrences(signature, n) ==
    IF signature.section \in DOMAIN snapshots[n]
    THEN LET bytes == snapshots[n][signature.section].bytes
         IN  {pos \in 0 .. Len(bytes) : OccursAt(signature.pattern, bytes, pos)}
    ELSE {}

IsEntryOf(entry, signature) ==
    IF \A n \in 1 .. Len(snapshots) : Occurrences(signature, n) = {}
    THEN entry = Unresolved(signature)
    ELSE \E n \in 1 .. Len(snapshots) :
            /\ \A m \in 1 .. n - 1 : Occurrences(signature, m) = {}
            /\ \E pos \in Occurrences(signature, n) :
                  /\ \A other \in Occurrences(signature, n) : pos <= other
                  /\ entry = Resolution(signature, snapshots[n][signature.section], pos)

FirstMatchWins ==
    \A n \in 1 .. Len(resolved) : IsEntryOf(resolved[n], signatures[n])

(* No byte past the end of a copied section is ever read: not by a chunk, by *)
(* the test of a candidate near the end or by a resolver.                    *)
ReadsStayInside == ~overrun
=============================================================================
