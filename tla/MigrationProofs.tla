--------------------------- MODULE MigrationProofs ---------------------------
(***************************************************************************)
(* What no interruption of the migration can lose, for any number of        *)
(* launchers, documents and journals, wherever each of them stops.          *)
(*                                                                         *)
(* The invariant is shown as one shows it of threads that share memory.     *)
(* LocalInv(p) is what launcher p may rely on where it is: which files its  *)
(* local variables agree with. Undisturbed(q) is what a step of anybody     *)
(* else leaves launcher q; it keeps LocalInv(q) (LocalInvIsStable). So for  *)
(* each action three things remain: what the actor knows afterwards, that   *)
(* the others are undisturbed, and what the files say (FilesInv).           *)
(***************************************************************************)
EXTENDS Migration, TLAPS

-----------------------------------------------------------------------------
(* What a launcher knows.                                                    *)

(* Only the holder of the lease is in these places. *)
Holding ==
    {"begin", "archive", "prepare", "complete", "copy", "inspect", "verify", "remove", "clean",
     "clear", "journal", "shelve", "dropJournal", "spare", "dropSpare", "session"}

LeaseOf(p) ==
    /\ pc[p] \in Holding => lease = p
    /\ lease = p => pc[p] \in Holding \cup {"keepOld", "rewrite"}

(* complete_config_migration; the conversion in main is outside of it. *)
Completing(p) ==
    \/ pc[p] \in {"complete", "copy", "inspect", "verify", "remove"}
    \/ pc[p] \in {"keepOld", "rewrite"} /\ lease = p

Notes(p) ==
    /\ pc[p] \in {"archive", "prepare"} \/ Completing(p) => mem[p].bytes \in Docs
    /\ pc[p] = "prepare" \/ (Completing(p) /\ pc[p] # "complete") => Backed(mem[p].bytes)
    /\ Completing(p) \/ pc[p] = "clean" => record # NoFile
    /\ pc[p] = "copy" => record.stage = "prepared" /\ record.imported
    /\ pc[p] \in {"inspect", "keepOld", "rewrite", "verify", "remove"} => local # NoFile
    /\ pc[p] = "dropSpare" => <<"backup", mem[p].bytes>> \in archive
    /\ pc[p] = "rewrite" => mem[p].text \in OldDocs /\ firstOld = mem[p].text

(* What is so unless the user edits a file under a launcher. *)
Settled(p) ==
    ~meddled =>
        /\ pc[p] \in {"archive", "prepare"} \/ Completing(p) => source = mem[p].bytes
        /\ pc[p] \in {"default", "publish", "clean"} => source = NoFile
        /\ pc[p] = "publish" => local \in {NoFile, Default}
        /\ pc[p] = "copy" => local = NoFile
        /\ pc[p] = "rewrite" => local \in {mem[p].text, Norm(mem[p].text)}

(* The journal in AppData: checked, then passed on, then gone for good. *)
JournalOf(p) ==
    /\ pc[p] \in {"archive", "prepare", "clean", "clear", "journal"} \/ Completing(p)
           => oldJournal # BadJournal
    /\ pc[p] \in {"shelve", "dropJournal"} => oldJournal \in Journals /\ journal = oldJournal
    /\ pc[p] \in {"spare", "dropSpare", "read", "launch", "session"} => oldJournal = NoFile
    /\ pc[p] \in {"keepOld", "rewrite"} /\ lease # p => oldJournal = NoFile

LocalInv(p) == LeaseOf(p) /\ Notes(p) /\ Settled(p) /\ JournalOf(p)

-----------------------------------------------------------------------------
(* What the files say.                                                       *)

Roots == ~root => source = NoFile /\ spare = {} /\ oldJournal = NoFile

Originals == OriginalIsKept /\ (source # NoFile => source = original)

Owed == JournalIsPassedOn /\ {oldJournal, journal} \cap Journals \subseteq owed

Resumable ==
    /\ edits = 0 => ~meddled
    /\ record # NoFile => record.target = Norm(record.source)
    /\ record # NoFile /\ edits = 0 /\ record.stage = "cleaned" => source = NoFile
    /\ ResumeIsAccepted

FilesInv == MigrationTypeOK /\ Roots /\ Originals /\ Owed /\ Resumable /\ SettingsInEffect

MigrationInv == FilesInv /\ \A p \in Launchers : LocalInv(p)

-----------------------------------------------------------------------------
(* Documents.                                                                *)

LEMMA FileFacts ==
    /\ NoFile \notin Docs /\ NoFile \notin Journals /\ NoFile \notin Launchers
    /\ NoFile \notin Records
    /\ NoFile # BadJournal /\ BadJournal \notin Journals
    /\ OldDocs \subseteq Docs /\ Default \in Docs /\ Default \notin OldDocs
    /\ Norm(Default) = Default
BY MigrationAssumption DEF Norm

(* A conversion has nothing left to convert. *)
LEMMA NormFacts ==
    ASSUME NEW d \in Docs
    PROVE  /\ Norm(d) \in Docs /\ Norm(d) \notin OldDocs /\ Norm(d) # NoFile
           /\ Norm(Norm(d)) = Norm(d)
BY MigrationAssumption DEF Norm

-----------------------------------------------------------------------------
(* What a step leaves a launcher q that does not make it.                    *)
Undisturbed(q) ==
    /\ pc'[q] = pc[q] /\ mem'[q] = mem[q] /\ (lease' = q <=> lease = q)
    /\ archive \subseteq archive'
    /\ firstOld # NoFile => firstOld' = firstOld
    /\ local # NoFile => local' # NoFile
    /\ oldJournal' \in {oldJournal, NoFile}
    /\ lease = q => UNCHANGED <<record, journal, oldJournal>>
    /\ ~meddled' /\ pc[q] \notin {"idle", "session"} =>
          /\ ~meddled
          /\ source' \in {source, NoFile} /\ (lease = q => source' = source)
          /\ pc[q] = "publish" => local' \in {local, Default}
          /\ pc[q] = "copy" => local' = local
          /\ pc[q] = "rewrite" => local' \in {local, Norm(mem[q].text)}

LEMMA LocalInvIsStable ==
    ASSUME NEW q \in Launchers, LocalInv(q), Undisturbed(q)
    PROVE  LocalInv(q)'
<1>1. /\ pc'[q] = pc[q] /\ mem'[q] = mem[q] /\ (lease' = q <=> lease = q)
      /\ Completing(q)' <=> Completing(q)
  BY DEF Undisturbed, Completing
<1>2. Completing(q) \/ pc[q] \in {"archive", "prepare", "clean", "shelve", "dropJournal"} => lease = q
  BY DEF LocalInv, LeaseOf, Holding, Completing
<1>3. LeaseOf(q)'
  BY <1>1 DEF LocalInv, LeaseOf
<1>4. Notes(q)'
  <2>1. archive \subseteq archive' /\ (local # NoFile => local' # NoFile)
        /\ (firstOld # NoFile => firstOld' = firstOld)
        /\ (lease = q => record' = record)
    BY DEF Undisturbed
  <2>2. \A d : Backed(d) => Backed(d)'
    BY <2>1 DEF Backed
  <2> QED
    BY <1>1, <1>2, <2>1, <2>2, FileFacts DEF LocalInv, Notes, Completing
<1>5. Settled(q)'
  BY <1>1, <1>2 DEF LocalInv, Settled, Undisturbed, Completing
<1>6. JournalOf(q)'
  BY <1>1, <1>2, FileFacts DEF LocalInv, JournalOf, Undisturbed
<1> QED
  BY <1>3, <1>4, <1>5, <1>6 DEF LocalInv

-----------------------------------------------------------------------------
(* A launcher moves itself alone, and takes the lease only when it is free.  *)
Acts(p) ==
    /\ pc' \in [Launchers -> PCs]
    /\ mem' \in [Launchers -> [had : BOOLEAN, bytes : Docs \cup {NoFile},
                               text : OldDocs \cup {NoFile}]]
    /\ lease' \in Launchers \cup {NoFile}
    /\ \A q \in Launchers \ {p} :
          pc'[q] = pc[q] /\ mem'[q] = mem[q] /\ (lease' = q <=> lease = q)

LEMMA ActsAlone ==
    ASSUME MigrationInv, NEW p \in Launchers, Main(p) \/ Migrate(p) \/ Stops(p)
    PROVE  Acts(p)
<1>1. /\ pc \in [Launchers -> PCs]
      /\ mem \in [Launchers -> [had : BOOLEAN, bytes : Docs \cup {NoFile},
                                text : OldDocs \cup {NoFile}]]
      /\ lease \in Launchers \cup {NoFile} /\ NoFile \notin Launchers
      /\ pc[p] \in {"begin", "clear", "spare"} => lease = p
      /\ source \in Docs \cup {NoFile} /\ Docs \subseteq Docs \cup {NoFile}
  BY FileFacts DEF MigrationInv, FilesInv, MigrationTypeOK, LocalInv, LeaseOf, Holding
<1> USE <1>1 DEF Acts, Go, GiveUp, Return, PCs
<1>2. CASE Main(p)
  <2>1. CASE CheckLocal(p)
    BY <2>1 DEF CheckLocal, NoMem
  <2>2. CASE CheckLegacy(p) \/ WriteDefault(p) \/ PublishDefault(p)
    BY <2>2 DEF CheckLegacy, WriteDefault, PublishDefault
  <2>3. CASE ReadConfig(p) \/ EndSession(p)
    BY <2>3 DEF ReadConfig, EndSession
  <2>4. CASE Launch(p)
    BY <2>4 DEF Launch
  <2> QED
    BY <1>2, <2>1, <2>2, <2>3, <2>4 DEF Main
<1>3. CASE Migrate(p)
  <2>1. CASE Acquire(p)
    BY <2>1 DEF Acquire
  <2>2. CASE Begin(p)
    <3>1. mem' = [mem EXCEPT ![p].bytes = source]
      BY <2>2 DEF Begin
    <3>2. /\ \E to \in {"clear", "read", "journal", "complete", "archive", "idle"} :
                pc' = [pc EXCEPT ![p] = to]
          /\ lease' \in {lease, NoFile}
      BY <2>2 DEF Begin
    <3>3. lease = p
      BY <2>2 DEF Begin
    <3> QED
      BY <3>1, <3>2, <3>3
  <2>3. CASE Archive(p) \/ Prepare(p) \/ CopyConfig(p)
    BY <2>3 DEF Archive, Prepare, CopyConfig
  <2>4. CASE Complete(p)
    BY <2>4 DEF Complete
  <2>5. CASE Inspect(p)
    BY <2>5 DEF Inspect
  <2>6. CASE KeepOld(p)
    BY <2>6 DEF KeepOld
  <2>7. CASE Rewrite(p) \/ Verify(p)
    BY <2>7 DEF Rewrite, Verify
  <2>8. CASE RemoveSource(p) \/ SaveCleaned(p) \/ ClearRecord(p)
    BY <2>8 DEF RemoveSource, SaveCleaned, ClearRecord
  <2>9. CASE ImportJournal(p) \/ ShelveJournal(p) \/ DropJournal(p)
    BY <2>9 DEF ImportJournal, ShelveJournal, DropJournal
  <2>10. CASE \E d \in Docs : ArchiveSpare(p, d)
    BY <2>10 DEF ArchiveSpare
  <2>11. CASE DropSpare(p) \/ Finish(p)
    BY <2>11 DEF DropSpare, Finish
  <2> QED
    BY <1>3, <2>1, <2>2, <2>3, <2>4, <2>5, <2>6, <2>7, <2>8, <2>9, <2>10, <2>11 DEF Migrate
<1>4. CASE Stops(p)
  BY <1>4 DEF Stops
<1> QED
  BY <1>2, <1>3, <1>4

(* A step of the lease's holder that leaves the configuration alone, and any  *)
(* step that leaves all files alone, disturbs nobody.                        *)
LEMMA HolderDisturbsNobody ==
    ASSUME NEW p \in Launchers, Acts(p),
           lease = p \/ UNCHANGED <<record, journal, oldJournal, source>>,
           archive \subseteq archive', oldJournal' \in {oldJournal, NoFile},
           source' \in {source, NoFile}, UNCHANGED <<local, firstOld, meddled>>
    PROVE  \A q \in Launchers \ {p} : Undisturbed(q)
BY DEF Acts, Undisturbed

(* So a step is dealt with by what its actor knows afterwards, and the files. *)
LEMMA OthersKeepTheirs ==
    ASSUME MigrationInv, NEW p \in Launchers,
           \A q \in Launchers \ {p} : Undisturbed(q), LocalInv(p)', FilesInv'
    PROVE  MigrationInv'
BY LocalInvIsStable DEF MigrationInv

-----------------------------------------------------------------------------
(* Steps that change no file.                                                *)

LEMMA FilesKept ==
    ASSUME FilesInv, NEW p \in Launchers, Acts(p), stops' \in 0 .. MaxStops,
           UNCHANGED <<legacy, portable, playing, edits, history>>
    PROVE  FilesInv'
<1> USE DEF legacy, portable, history
<1>1. MigrationTypeOK'
  BY DEF FilesInv, MigrationTypeOK, Acts
<1>2. Roots' /\ Originals' /\ Owed'
  BY DEF FilesInv, Roots, Originals, OriginalIsKept, Owed, JournalIsPassedOn
<1>3. SettingsInEffect'
  BY DEF FilesInv, SettingsInEffect, Effective
<1>4. Resumable'
  BY DEF FilesInv, Resumable, ResumeIsAccepted, Backed, LocalIsOurs
<1> QED
  BY <1>1, <1>2, <1>3, <1>4 DEF FilesInv

LEMMA QuietStep ==
    ASSUME MigrationInv, NEW p \in Launchers, Acts(p), stops' \in 0 .. MaxStops,
           UNCHANGED <<legacy, portable, playing, edits, history>>, LocalInv(p)'
    PROVE  MigrationInv'
<1>1. FilesInv'
  BY FilesKept DEF MigrationInv
<1>2. \A q \in Launchers \ {p} : Undisturbed(q)
  BY HolderDisturbsNobody DEF legacy, portable, history
<1> QED
  BY <1>1, <1>2, OthersKeepTheirs

LEMMA StopsType ==
    ASSUME MigrationInv, UNCHANGED bounds
    PROVE  stops' \in 0 .. MaxStops /\ edits' = edits
BY DEF MigrationInv, FilesInv, MigrationTypeOK, bounds

(* Nothing is asked of a launcher that is not under way. *)
LEMMA NothingKnown ==
    ASSUME NEW p \in Launchers, pc'[p] \in {"idle", "legacy", "lease"}, lease' # p
    PROVE  LocalInv(p)'
BY DEF LocalInv, LeaseOf, Notes, Settled, JournalOf, Completing, Holding

LEMMA LeavesThePlace ==
    ASSUME MigrationInv, NEW p \in Launchers, NEW from, NEW to, Go(p, from, to)
    PROVE  pc[p] = from /\ pc'[p] = to
BY DEF Go, MigrationInv, FilesInv, MigrationTypeOK

LEMMA GivesUp ==
    ASSUME MigrationInv, NEW p \in Launchers, NEW from, GiveUp(p, from)
    PROVE  pc[p] = from /\ pc'[p] = "idle" /\ lease' # p /\ LocalInv(p)'
<1>1. pc[p] = from /\ pc'[p] = "idle"
  BY LeavesThePlace DEF GiveUp
<1>2. lease' # p
  BY FileFacts DEF GiveUp
<1> QED
  BY <1>1, <1>2, NothingKnown

LEMMA MainQuietSteps ==
    ASSUME MigrationInv, NEW p \in Launchers,
           CheckLocal(p) \/ CheckLegacy(p) \/ WriteDefault(p) \/ ReadConfig(p) \/ EndSession(p)
    PROVE  MigrationInv'
<1>1. UNCHANGED <<legacy, portable, playing, bounds, history>>
  BY DEF CheckLocal, CheckLegacy, WriteDefault, ReadConfig, EndSession
<1>2. Acts(p) /\ stops' \in 0 .. MaxStops /\ edits' = edits
  BY <1>1, ActsAlone, StopsType DEF Main
<1>3. LocalInv(p) /\ LeaseOf(p)
  BY DEF MigrationInv, LocalInv
<1>4. LocalInv(p)'
  <2>1. CASE CheckLocal(p)
    <3>1. pc[p] = "idle" /\ pc'[p] = "legacy" /\ lease' = lease
      BY <2>1, LeavesThePlace DEF CheckLocal
    <3>2. lease # p
      BY <1>3, <3>1 DEF LeaseOf, Holding
    <3> QED
      BY <3>1, <3>2, NothingKnown
  <2>2. CASE CheckLegacy(p)
    <3>1. pc[p] = "legacy" /\ pc'[p] \in {"idle", "lease", "default"} /\ lease' = lease
          /\ (pc'[p] = "default" => source' = NoFile)
      BY <1>1, <2>2, LeavesThePlace DEF CheckLegacy, legacy
    <3>2. lease # p
      BY <1>3, <3>1 DEF LeaseOf, Holding
    <3>3. CASE pc'[p] = "default"
      BY <3>1, <3>2, <3>3
      DEF LocalInv, LeaseOf, Notes, Settled, JournalOf, Completing, Holding
    <3> QED
      BY <3>1, <3>2, <3>3, NothingKnown
  <2>3. CASE WriteDefault(p)
    <3>1. pc[p] = "default" /\ pc'[p] \in {"idle", "publish"} /\ lease' = lease
          /\ (pc'[p] = "publish" => local = NoFile)
          /\ UNCHANGED <<local, source, meddled>>
      BY <1>1, <2>3, LeavesThePlace DEF WriteDefault, legacy, portable, history
    <3>2. lease # p
      BY <1>3, <3>1 DEF LeaseOf, Holding
    <3>3. CASE pc'[p] = "publish"
      BY <1>3, <3>1, <3>2, <3>3
      DEF LocalInv, LeaseOf, Notes, Settled, JournalOf, Completing, Holding
    <3> QED
      BY <3>1, <3>2, <3>3, NothingKnown
  <2>4. CASE ReadConfig(p)
    <3>1. pc[p] = "read" /\ pc'[p] \in {"idle", "keepOld", "launch"} /\ lease' = lease
          /\ (pc'[p] = "keepOld" => local # NoFile)
          /\ UNCHANGED <<local, oldJournal, meddled>>
      BY <1>1, <2>4, LeavesThePlace, FileFacts DEF ReadConfig, legacy, portable, history
    <3>2. lease # p
      BY <1>3, <3>1 DEF LeaseOf, Holding
    <3>3. oldJournal = NoFile
      BY <1>3, <3>1 DEF LocalInv, JournalOf
    <3>4. CASE pc'[p] \in {"keepOld", "launch"}
      BY <3>1, <3>2, <3>3, <3>4
      DEF LocalInv, LeaseOf, Notes, Settled, JournalOf, Completing, Holding
    <3> QED
      BY <3>1, <3>2, <3>4, NothingKnown
  <2>5. CASE EndSession(p)
    BY <2>5, GivesUp DEF EndSession
  <2> QED
    BY <2>1, <2>2, <2>3, <2>4, <2>5
<1> QED
  BY <1>1, <1>2, <1>4, QuietStep

LEMMA StopsStep ==
    ASSUME MigrationInv, NEW p \in Launchers, Stops(p)
    PROVE  MigrationInv'
<1>1. UNCHANGED <<legacy, portable, playing, edits, history>>
  BY DEF Stops
<1>2. stops' \in 0 .. MaxStops
  BY MigrationAssumption DEF Stops, MigrationInv, FilesInv, MigrationTypeOK
<1>3. LocalInv(p)'
  <2>1. PICK from : from = pc[p]
    OBVIOUS
  <2> QED
    BY <2>1, GivesUp DEF Stops
<1> QED
  BY <1>1, <1>2, <1>3, ActsAlone, QuietStep

LEMMA AcquireStep ==
    ASSUME MigrationInv, NEW p \in Launchers, Acquire(p)
    PROVE  MigrationInv'
<1>1. UNCHANGED <<legacy, portable, playing, bounds, history>>
  BY DEF Acquire
<1>2. Acts(p) /\ stops' \in 0 .. MaxStops /\ edits' = edits
  BY <1>1, ActsAlone, StopsType DEF Migrate
<1>3. pc[p] = "lease" /\ pc'[p] \in {"idle", "begin"}
      /\ lease' = IF pc'[p] = "begin" THEN p ELSE lease
  BY LeavesThePlace DEF Acquire
<1>4. lease # p
  BY <1>3 DEF MigrationInv, LocalInv, LeaseOf, Holding
<1>5. LocalInv(p)'
  <2>1. CASE pc'[p] = "begin"
    BY <1>3, <2>1 DEF LocalInv, LeaseOf, Notes, Settled, JournalOf, Completing, Holding
  <2>2. CASE pc'[p] = "idle"
    BY <1>3, <1>4, <2>2, NothingKnown
  <2> QED
    BY <1>3, <2>1, <2>2
<1> QED
  BY <1>1, <1>2, <1>5, QuietStep

(* Whatever Begin decides on, the journals have passed preflight_journals or  *)
(* there is no folder of version 1.                                           *)
LEMMA BeginStep ==
    ASSUME MigrationInv, NEW p \in Launchers, Begin(p)
    PROVE  MigrationInv'
<1>1. UNCHANGED <<legacy, portable, playing, bounds, history>>
  BY DEF Begin
<1>2. Acts(p) /\ stops' \in 0 .. MaxStops /\ edits' = edits
  BY <1>1, ActsAlone, StopsType DEF Migrate
<1>3. pc[p] = "begin" /\ lease = p /\ mem'[p].bytes = source
  BY LeavesThePlace DEF Begin, Go, GiveUp, Return, MigrationInv, FilesInv, MigrationTypeOK, LocalInv, LeaseOf, Holding
<1>4. Roots /\ (JournalsSafe => oldJournal # BadJournal) /\ NoFile # BadJournal
      /\ source \in Docs \cup {NoFile}
  BY FileFacts DEF MigrationInv, FilesInv, MigrationTypeOK, JournalsSafe, Safe
<1>5. UNCHANGED <<local, source, oldJournal, journal, record, archive, firstOld, meddled>>
  BY <1>1 DEF legacy, portable, history
<1>6. LocalInv(p)'
  <2> USE DEF LocalInv, LeaseOf, Notes, Settled, JournalOf, Completing, Holding
  <2>1. CASE Go(p, "begin", "clear") /\ UNCHANGED lease /\ (root => source = NoFile /\ JournalsSafe)
    <3>1. pc'[p] = "clear" /\ lease' = p /\ oldJournal' # BadJournal
      BY <1>3, <1>4, <1>5, <2>1, LeavesThePlace DEF Roots
    <3> QED
      BY <3>1
  <2>2. CASE ~root /\ Return(p, "begin")
    <3>1. pc'[p] = "read" /\ lease' = NoFile /\ NoFile # p /\ oldJournal' = NoFile
      BY <1>4, <1>5, <2>2, LeavesThePlace, FileFacts DEF Return, Roots
    <3> QED
      BY <3>1
  <2>3. CASE JournalsSafe /\ Go(p, "begin", "journal") /\ UNCHANGED lease
    <3>1. pc'[p] = "journal" /\ lease' = p /\ oldJournal' # BadJournal
      BY <1>3, <1>4, <1>5, <2>3, LeavesThePlace
    <3> QED
      BY <3>1
  <2>4. CASE /\ JournalsSafe /\ source # NoFile /\ UNCHANGED lease
             /\ Go(p, "begin", IF record # NoFile THEN "complete" ELSE "archive")
    <3>1. pc'[p] = (IF record # NoFile THEN "complete" ELSE "archive") /\ lease' = p
          /\ oldJournal' # BadJournal
      BY <1>3, <1>4, <1>5, <2>4, LeavesThePlace
    <3>2. mem'[p].bytes \in Docs /\ source' = mem'[p].bytes
      BY <1>3, <1>4, <1>5, <2>4
    <3>3. CASE record' # NoFile
      BY <1>5, <3>1, <3>2, <3>3
    <3>4. CASE record' = NoFile
      BY <1>5, <3>1, <3>2, <3>4
    <3> QED
      BY <3>3, <3>4
  <2>5. CASE GiveUp(p, "begin")
    BY <2>5, GivesUp
  <2> QED
    BY <2>1, <2>2, <2>3, <2>4, <2>5 DEF Begin
<1> QED
  BY <1>1, <1>2, <1>6, QuietStep

LEMMA CompleteStep ==
    ASSUME MigrationInv, NEW p \in Launchers, Complete(p)
    PROVE  MigrationInv'
<1>1. UNCHANGED <<legacy, portable, playing, mem, bounds, history>>
  BY DEF Complete
<1>2. Acts(p) /\ stops' \in 0 .. MaxStops /\ edits' = edits
  BY <1>1, ActsAlone, StopsType DEF Migrate
<1>3. pc[p] = "complete" /\ lease = p /\ LocalInv(p)
  BY DEF Complete, MigrationInv, LocalInv, LeaseOf, Holding
<1>4. LocalInv(p)'
  <2>1. CASE GiveUp(p, "complete")
    BY <2>1, GivesUp
  <2>2. CASE ~GiveUp(p, "complete")
    <3>1. /\ Backed(mem[p].bytes) /\ lease' = lease
          /\ \/ pc'[p] = "copy" /\ local = NoFile /\ record.stage = "prepared" /\ record.imported
             \/ pc'[p] = "inspect" /\ local # NoFile
      BY <2>2, LeavesThePlace DEF Complete
    <3> QED
      BY <1>1, <1>3, <3>1
      DEF LocalInv, LeaseOf, Notes, Settled, JournalOf, Completing, Holding, Backed,
          legacy, portable, history
  <2> QED
    BY <2>1, <2>2
<1> QED
  BY <1>1, <1>2, <1>4, QuietStep

LEMMA InspectStep ==
    ASSUME MigrationInv, NEW p \in Launchers, Inspect(p)
    PROVE  MigrationInv'
<1>1. UNCHANGED <<legacy, portable, playing, mem, bounds, history>>
  BY DEF Inspect
<1>2. Acts(p) /\ stops' \in 0 .. MaxStops /\ edits' = edits
  BY <1>1, ActsAlone, StopsType DEF Migrate
<1>3. pc[p] = "inspect" /\ lease = p /\ LocalInv(p)
  BY DEF Inspect, MigrationInv, LocalInv, LeaseOf, Holding
<1>4. LocalInv(p)'
  <2>1. CASE GiveUp(p, "inspect")
    BY <2>1, GivesUp
  <2>2. CASE ~GiveUp(p, "inspect")
    <3>1. pc'[p] \in {"keepOld", "verify"} /\ lease' = lease
      BY <2>2, LeavesThePlace DEF Inspect
    <3> QED
      BY <1>1, <1>3, <3>1
      DEF LocalInv, LeaseOf, Notes, Settled, JournalOf, Completing, Holding, Backed,
          legacy, portable, history
  <2> QED
    BY <2>1, <2>2
<1> QED
  BY <1>1, <1>2, <1>4, QuietStep

-----------------------------------------------------------------------------
(* The configuration of version 1, file by file.                             *)

LEMMA ArchiveGrows ==
    ASSUME FilesInv, NEW p \in Launchers, Acts(p),
           archive \subseteq archive', archive' \subseteq Archives,
           UNCHANGED <<legacy, local, journal, record, firstOld, playing, bounds, history>>
    PROVE  FilesInv'
<1> USE DEF legacy, bounds, history
<1>1. MigrationTypeOK'
  BY DEF FilesInv, MigrationTypeOK, Acts
<1>2. Roots' /\ Originals' /\ Owed'
  BY DEF FilesInv, Roots, Originals, OriginalIsKept, Owed, JournalIsPassedOn
<1>3. SettingsInEffect'
  BY DEF FilesInv, SettingsInEffect, Effective
<1>4. Resumable'
  BY DEF FilesInv, Resumable, ResumeIsAccepted, Backed, LocalIsOurs
<1> QED
  BY <1>1, <1>2, <1>3, <1>4 DEF FilesInv

LEMMA ArchiveStep ==
    ASSUME MigrationInv, NEW p \in Launchers, Archive(p)
    PROVE  MigrationInv'
<1>1. /\ archive' = archive \cup {<<"config", mem[p].bytes>>}
      /\ UNCHANGED <<legacy, local, journal, record, firstOld, playing, mem, bounds, history>>
  BY DEF Archive
<1>2. Acts(p) /\ FilesInv /\ LocalInv(p)
  BY ActsAlone DEF Migrate, MigrationInv
<1>3. pc[p] = "archive" /\ lease = p /\ mem[p].bytes \in Docs
  BY <1>2 DEF Archive, Go, GiveUp, LocalInv, LeaseOf, Notes, Holding
<1>4. FilesInv'
  <2>1. archive' \subseteq Archives
    BY <1>1, <1>2, <1>3 DEF FilesInv, MigrationTypeOK, Archives
  <2> QED
    BY <1>1, <1>2, <2>1, ArchiveGrows
<1>5. LocalInv(p)'
  <2>1. CASE GiveUp(p, "archive")
    BY <2>1, GivesUp
  <2>2. CASE Go(p, "archive", "prepare") /\ UNCHANGED lease
    <3>1. pc'[p] = "prepare" /\ lease' = lease /\ Backed(mem[p].bytes)'
      BY <1>1, <2>2, LeavesThePlace DEF Backed
    <3> QED
      BY <1>1, <1>2, <1>3, <3>1
      DEF LocalInv, LeaseOf, Notes, Settled, JournalOf, Completing, Holding, legacy, history
  <2> QED
    BY <2>1, <2>2 DEF Archive
<1> QED
  BY <1>1, <1>2, <1>3, <1>4, <1>5, HolderDisturbsNobody, OthersKeepTheirs DEF legacy, history

(* A step that changes the record, and what the record then says. *)
LEMMA RecordChanges ==
    ASSUME FilesInv, NEW p \in Launchers, Acts(p), record' \in Records \cup {NoFile},
           UNCHANGED <<legacy, local, journal, archive, firstOld, playing, bounds, history>>,
           Resumable'
    PROVE  FilesInv'
<1> USE DEF legacy, bounds, history
<1>1. MigrationTypeOK'
  BY DEF FilesInv, MigrationTypeOK, Acts
<1>2. Roots' /\ Originals' /\ Owed'
  BY DEF FilesInv, Roots, Originals, OriginalIsKept, Owed, JournalIsPassedOn
<1>3. SettingsInEffect'
  BY DEF FilesInv, SettingsInEffect, Effective
<1> QED
  BY <1>1, <1>2, <1>3 DEF FilesInv

LEMMA PrepareStep ==
    ASSUME MigrationInv, NEW p \in Launchers, Prepare(p)
    PROVE  MigrationInv'
<1>1. UNCHANGED <<legacy, local, journal, archive, firstOld, playing, lease, mem, bounds, history>>
  BY DEF Prepare
<1>2. Acts(p) /\ FilesInv /\ LocalInv(p)
  BY ActsAlone DEF Migrate, MigrationInv
<1>3. pc[p] = "prepare" /\ pc'[p] = "complete" /\ lease = p
  BY <1>2, LeavesThePlace DEF Prepare, LocalInv, LeaseOf, Holding
<1>4. /\ mem[p].bytes \in Docs /\ Backed(mem[p].bytes)
      /\ ~meddled => source = mem[p].bytes
  BY <1>2, <1>3 DEF LocalInv, Notes, Settled
<1>5. /\ record' \in Records /\ record'.stage = "prepared"
      /\ record'.source = mem[p].bytes /\ record'.target = Norm(mem[p].bytes)
      /\ record'.imported <=> local = NoFile
  BY <1>4, NormFacts DEF Prepare, Records, Stages
<1>6. FilesInv'
  <2>1. Resumable'
    BY <1>1, <1>2, <1>4, <1>5, FileFacts
    DEF FilesInv, Resumable, ResumeIsAccepted, Backed, LocalIsOurs, legacy, bounds, history
  <2> QED
    BY <1>1, <1>2, <1>5, <2>1, RecordChanges
<1>7. LocalInv(p)'
  <2>1. record' # NoFile
    BY <1>5, FileFacts
  <2> QED
    BY <1>1, <1>2, <1>3, <2>1
    DEF LocalInv, LeaseOf, Notes, Settled, JournalOf, Completing, Holding, legacy, history
<1> QED
  BY <1>1, <1>2, <1>3, <1>6, <1>7, HolderDisturbsNobody, OthersKeepTheirs DEF legacy, history

(* A step that replaces the local configuration by what means the same, and   *)
(* is what the record expects.                                               *)
LEMMA LocalChanges ==
    ASSUME FilesInv, NEW p \in Launchers, Acts(p), local' \in Docs,
           UNCHANGED <<legacy, journal, record, archive, firstOld, playing, bounds, history>>,
           ~meddled => Norm(local') = Effective,
           record # NoFile /\ source # NoFile /\ edits = 0 /\ record.imported =>
               IF record.stage = "prepared" THEN local' \in {record.source, record.target}
               ELSE local' = record.target
    PROVE  FilesInv'
<1> USE DEF legacy, bounds, history
<1>1. MigrationTypeOK'
  BY DEF FilesInv, MigrationTypeOK, Acts
<1>2. Roots' /\ Originals' /\ Owed'
  BY DEF FilesInv, Roots, Originals, OriginalIsKept, Owed, JournalIsPassedOn
<1>3. local' # NoFile
  BY FileFacts
<1>4. SettingsInEffect'
  <2>1. Effective' = Norm(local')
    BY <1>3 DEF Effective, Norm
  <2> QED
    BY <2>1 DEF FilesInv, SettingsInEffect
<1>5. Resumable'
  BY <1>3 DEF FilesInv, Resumable, ResumeIsAccepted, Backed, LocalIsOurs, Norm
<1> QED
  BY <1>1, <1>2, <1>4, <1>5 DEF FilesInv

LEMMA CopyConfigStep ==
    ASSUME MigrationInv, NEW p \in Launchers, CopyConfig(p)
    PROVE  MigrationInv'
<1>1. /\ local' = mem[p].bytes
      /\ UNCHANGED <<legacy, journal, record, archive, firstOld, playing, lease, mem, bounds, history>>
  BY DEF CopyConfig
<1>2. Acts(p) /\ FilesInv /\ LocalInv(p)
  BY ActsAlone DEF Migrate, MigrationInv
<1>3. pc[p] = "copy" /\ pc'[p] = "inspect" /\ lease = p
  BY <1>2, LeavesThePlace DEF CopyConfig, LocalInv, LeaseOf, Holding
<1>4. /\ local' \in Docs /\ local' # NoFile /\ record.stage = "prepared"
      /\ record # NoFile
      /\ ~meddled => source = mem[p].bytes /\ local = NoFile
  BY <1>1, <1>2, <1>3, FileFacts DEF LocalInv, Notes, Settled, Completing
<1>5. FilesInv'
  <2>1. ~meddled => Norm(local') = Effective
    BY <1>1, <1>4 DEF Effective
  <2>2. record # NoFile /\ source # NoFile /\ edits = 0 => local' = record.source
    BY <1>1, <1>2, <1>4 DEF FilesInv, Resumable, ResumeIsAccepted
  <2> QED
    BY <1>1, <1>2, <1>4, <2>1, <2>2, LocalChanges
<1>6. LocalInv(p)'
  BY <1>1, <1>2, <1>3, <1>4
  DEF LocalInv, LeaseOf, Notes, Settled, JournalOf, Completing, Holding, Backed, legacy, history
<1>7. ASSUME NEW q \in Launchers \ {p} PROVE Undisturbed(q)
  <2>1. LocalInv(q) /\ lease # q
    BY <1>3 DEF MigrationInv
  <2>2. ~meddled => pc[q] \notin {"publish", "copy", "rewrite"}
    BY <1>4, <2>1, <1>1 DEF LocalInv, LeaseOf, Notes, Settled, Holding
  <2> QED
    BY <1>1, <1>2, <1>4, <2>1, <2>2 DEF Acts, Undisturbed, legacy, history
<1> QED
  BY <1>5, <1>6, <1>7, OthersKeepTheirs

LEMMA KeepOldStep ==
    ASSUME MigrationInv, NEW p \in Launchers, KeepOld(p)
    PROVE  MigrationInv'
<1>1. UNCHANGED <<legacy, local, journal, record, archive, playing, bounds, history>>
  BY DEF KeepOld
<1>2. /\ Acts(p) /\ FilesInv /\ LocalInv(p)
      /\ stops' \in 0 .. MaxStops /\ edits' = edits
  BY <1>1, ActsAlone, StopsType DEF Migrate, MigrationInv
<1>3. pc[p] = "keepOld" /\ local # NoFile
  BY <1>2 DEF KeepOld, Go, GiveUp, LocalInv, Notes
<1> USE DEF LocalInv, LeaseOf, Notes, Settled, JournalOf, Completing, Holding, Backed
<1>4. CASE /\ local \in OldDocs /\ firstOld \in {NoFile, local} /\ firstOld' = local
           /\ mem' = [mem EXCEPT ![p].text = local]
           /\ Go(p, "keepOld", "rewrite") /\ UNCHANGED lease
  <2>1. /\ pc'[p] = "rewrite" /\ lease' = lease
        /\ mem'[p].text = local /\ mem'[p].bytes = mem[p].bytes
    BY <1>2, <1>4, LeavesThePlace DEF FilesInv, MigrationTypeOK
  <2>2. FilesInv'
    <3>1. MigrationTypeOK'
      BY <1>1, <1>2, <1>4 DEF FilesInv, MigrationTypeOK, Acts, legacy, bounds, history
    <3>2. Roots' /\ Originals' /\ Owed' /\ SettingsInEffect' /\ Resumable'
      BY <1>1, <1>2
      DEF FilesInv, Roots, Originals, OriginalIsKept, Owed, JournalIsPassedOn, SettingsInEffect,
          Effective, Resumable, ResumeIsAccepted, LocalIsOurs, legacy, bounds, history
    <3> QED
      BY <3>1, <3>2 DEF FilesInv
  <2>3. LocalInv(p)'
    BY <1>1, <1>2, <1>3, <1>4, <2>1 DEF legacy, history
  <2>4. \A q \in Launchers \ {p} : Undisturbed(q)
    BY <1>1, <1>2, <1>4 DEF Acts, Undisturbed, legacy, history
  <2> QED
    BY <2>2, <2>3, <2>4, OthersKeepTheirs
<1>5. CASE GiveUp(p, "keepOld") /\ UNCHANGED <<firstOld, mem>>
  BY <1>1, <1>2, <1>5, GivesUp, QuietStep DEF portable
<1>6. CASE /\ Go(p, "keepOld", IF lease = p THEN "verify" ELSE "launch")
           /\ UNCHANGED <<firstOld, mem, lease>>
  <2>1. pc'[p] = IF lease = p THEN "verify" ELSE "launch"
    BY <1>6, LeavesThePlace
  <2>2. LocalInv(p)'
    <3>1. CASE lease = p
      BY <1>1, <1>2, <1>3, <1>6, <2>1, <3>1 DEF legacy, history
    <3>2. CASE lease # p
      BY <1>1, <1>2, <1>3, <1>6, <2>1, <3>2 DEF legacy, history
    <3> QED
      BY <3>1, <3>2
  <2> QED
    BY <1>1, <1>2, <1>6, <2>2, QuietStep DEF portable
<1> QED
  BY <1>4, <1>5, <1>6 DEF KeepOld

LEMMA RewriteStep ==
    ASSUME MigrationInv, NEW p \in Launchers, Rewrite(p)
    PROVE  MigrationInv'
<1> DEFINE text == mem[p].text
<1>1. /\ local' = Norm(text)
      /\ UNCHANGED <<legacy, journal, record, archive, firstOld, playing, lease, mem, bounds, history>>
  BY DEF Rewrite
<1>2. Acts(p) /\ FilesInv /\ LocalInv(p)
  BY ActsAlone DEF Migrate, MigrationInv
<1>3. pc[p] = "rewrite" /\ pc'[p] = IF lease = p THEN "verify" ELSE "launch"
  BY LeavesThePlace DEF Rewrite
<1>4. /\ text \in OldDocs /\ text \in Docs /\ firstOld = text /\ local # NoFile
      /\ ~meddled => local \in {text, Norm(text)}
  BY <1>2, <1>3, FileFacts DEF LocalInv, Notes, Settled
<1> HIDE DEF text
<1>5. /\ Norm(text) \in Docs /\ Norm(text) \notin OldDocs /\ Norm(text) # NoFile
      /\ Norm(Norm(text)) = Norm(text)
  BY <1>4, NormFacts
<1>6. FilesInv'
  <2>1. ~meddled => Norm(local') = Effective
    BY <1>1, <1>4, <1>5 DEF Effective
  <2>2. ASSUME record # NoFile, source # NoFile, edits = 0, record.imported
        PROVE  IF record.stage = "prepared" THEN local' \in {record.source, record.target}
               ELSE local' = record.target
    <3>1. /\ local \in {text, Norm(text)}
          /\ record.source = source /\ record.target = Norm(source) /\ source \in Docs
          /\ IF record.stage = "prepared" THEN local \in {source, Norm(source)}
             ELSE local = Norm(source)
      BY <1>2, <1>4, <2>2
      DEF FilesInv, MigrationTypeOK, Resumable, ResumeIsAccepted, LocalIsOurs
    <3>2. Norm(source) \notin OldDocs /\ Norm(Norm(source)) = Norm(source)
      BY <3>1, NormFacts
    <3> QED
      BY <1>1, <1>4, <1>5, <3>1, <3>2
  <2> QED
    BY <1>1, <1>2, <1>5, <2>1, <2>2, LocalChanges
<1>7. LocalInv(p)'
  <2>1. CASE lease = p
    BY <1>1, <1>2, <1>3, <1>4, <1>5, <2>1
    DEF LocalInv, LeaseOf, Notes, Settled, JournalOf, Completing, Holding, Backed, legacy, history
  <2>2. CASE lease # p
    BY <1>1, <1>2, <1>3, <1>4, <1>5, <2>2
    DEF LocalInv, LeaseOf, Notes, Settled, JournalOf, Completing, Holding, legacy, history
  <2> QED
    BY <2>1, <2>2
<1>8. ASSUME NEW q \in Launchers \ {p} PROVE Undisturbed(q)
  <2>1. LocalInv(q)
    BY DEF MigrationInv
  <2>2. pc[q] = "rewrite" => local' = Norm(mem[q].text)
    BY <1>1, <1>4, <2>1 DEF LocalInv, Notes
  <2>3. ~meddled /\ pc[q] = "publish" => local' = Default
    BY <1>1, <1>4, <1>5, <2>1, FileFacts DEF LocalInv, Settled
  <2>4. ~meddled => pc[q] # "copy"
    BY <1>4, <2>1 DEF LocalInv, Settled
  <2> QED
    BY <1>1, <1>2, <1>5, <2>2, <2>3, <2>4 DEF Acts, Undisturbed, legacy, history
<1> QED
  BY <1>6, <1>7, <1>8, OthersKeepTheirs

(* The holder's steps on the record and on the source, once the local         *)
(* configuration is what it should be.                                       *)
LEMMA VerifyStep ==
    ASSUME MigrationInv, NEW p \in Launchers, Verify(p)
    PROVE  MigrationInv'
<1>1. UNCHANGED <<legacy, local, journal, archive, firstOld, playing, mem, bounds, history>>
  BY DEF Verify
<1>2. Acts(p) /\ FilesInv /\ LocalInv(p)
  BY ActsAlone DEF Migrate, MigrationInv
<1>3. pc[p] = "verify" /\ lease = p /\ record \in Records /\ local # NoFile
  BY <1>2 DEF Verify, LocalInv, LeaseOf, Notes, Completing, Holding, FilesInv, MigrationTypeOK
<1>4. CASE GiveUp(p, "verify") /\ UNCHANGED record
  <2>1. UNCHANGED portable /\ stops' \in 0 .. MaxStops /\ edits' = edits
    BY <1>1, <1>4, StopsType DEF portable
  <2> QED
    BY <1>1, <1>2, <1>4, <2>1, GivesUp, QuietStep
<1>5. CASE /\ record.imported => local = record.target
           /\ Go(p, "verify", "remove")
           /\ record' = [record EXCEPT !.stage = "verified"]
           /\ UNCHANGED lease
  <2>1. pc'[p] = "remove" /\ lease' = p
    BY <1>3, <1>5, LeavesThePlace
  <2>2. /\ record' \in Records /\ record' # NoFile /\ record # NoFile
        /\ record'.stage = "verified" /\ record'.source = record.source
        /\ record'.target = record.target /\ record'.imported = record.imported
    BY <1>3, <1>5, FileFacts DEF Records, Stages
  <2>3. Resumable'
    BY <1>1, <1>2, <1>3, <1>5, <2>2
    DEF FilesInv, Resumable, ResumeIsAccepted, Backed, legacy, bounds, history, Norm
  <2>4. FilesInv'
    BY <1>1, <1>2, <2>2, <2>3, RecordChanges
  <2>5. LocalInv(p)'
    BY <1>1, <1>2, <1>3, <2>1, <2>2
    DEF LocalInv, LeaseOf, Notes, Settled, JournalOf, Completing, Holding, Backed, legacy, history
  <2> QED
    BY <1>1, <1>2, <1>3, <2>4, <2>5, HolderDisturbsNobody, OthersKeepTheirs DEF legacy, history
<1> QED
  BY <1>4, <1>5 DEF Verify

LEMMA RemoveSourceStep ==
    ASSUME MigrationInv, NEW p \in Launchers, RemoveSource(p)
    PROVE  MigrationInv'
<1>1. UNCHANGED <<root, spare, oldJournal, portable, playing, mem, bounds, history>>
  BY DEF RemoveSource
<1>2. Acts(p) /\ FilesInv /\ LocalInv(p)
  BY ActsAlone DEF Migrate, MigrationInv
<1>3. pc[p] = "remove" /\ lease = p /\ local # NoFile /\ Backed(mem[p].bytes)
      /\ record # NoFile
  BY <1>2 DEF RemoveSource, Go, GiveUp, LocalInv, LeaseOf, Notes, Completing, Holding
<1>4. CASE GiveUp(p, "remove") /\ UNCHANGED source
  <2>1. UNCHANGED legacy /\ stops' \in 0 .. MaxStops /\ edits' = edits
    BY <1>1, <1>4, StopsType DEF legacy
  <2> QED
    BY <1>1, <1>2, <1>4, <2>1, GivesUp, QuietStep
<1>5. CASE /\ source = mem[p].bytes /\ source' = NoFile
           /\ Go(p, "remove", "clean") /\ UNCHANGED lease
  <2>1. pc'[p] = "clean" /\ lease' = p
    BY <1>3, <1>5, LeavesThePlace
  <2>2. MigrationTypeOK'
    BY <1>1, <1>2, <1>5 DEF FilesInv, MigrationTypeOK, Acts, portable, bounds, history
  <2>3. Originals'
    BY <1>1, <1>2, <1>3, <1>5
    DEF FilesInv, Originals, OriginalIsKept, Backed, portable, history
  <2>4. Roots' /\ Owed'
    BY <1>1, <1>2, <1>5 DEF FilesInv, Roots, Owed, JournalIsPassedOn, portable, history
  <2>5. SettingsInEffect'
    BY <1>1, <1>2, <1>3, <1>5 DEF FilesInv, SettingsInEffect, Effective, portable, history
  <2>6. Resumable'
    BY <1>1, <1>2, <1>5 DEF FilesInv, Resumable, ResumeIsAccepted, Norm, portable, bounds, history
  <2>7. FilesInv'
    BY <2>2, <2>3, <2>4, <2>5, <2>6 DEF FilesInv
  <2>8. LocalInv(p)'
    BY <1>1, <1>2, <1>3, <1>5, <2>1
    DEF LocalInv, LeaseOf, Notes, Settled, JournalOf, Completing, Holding, portable, history
  <2> QED
    BY <1>1, <1>2, <1>3, <1>5, <2>7, <2>8, HolderDisturbsNobody, OthersKeepTheirs
    DEF portable, history
<1> QED
  BY <1>4, <1>5 DEF RemoveSource

LEMMA SaveCleanedStep ==
    ASSUME MigrationInv, NEW p \in Launchers, SaveCleaned(p)
    PROVE  MigrationInv'
<1>1. UNCHANGED <<legacy, local, journal, archive, firstOld, playing, lease, mem, bounds, history>>
  BY DEF SaveCleaned
<1>2. Acts(p) /\ FilesInv /\ LocalInv(p)
  BY ActsAlone DEF Migrate, MigrationInv
<1>3. pc[p] = "clean" /\ pc'[p] = "clear" /\ lease = p /\ record \in Records
      /\ (~meddled => source = NoFile)
  BY <1>2, LeavesThePlace
  DEF SaveCleaned, LocalInv, LeaseOf, Notes, Settled, Holding, FilesInv, MigrationTypeOK
<1>4. /\ record' \in Records /\ record # NoFile /\ record'.stage = "cleaned"
      /\ record'.source = record.source /\ record'.target = record.target
  BY <1>3, FileFacts DEF SaveCleaned, Records, Stages
<1>5. Resumable'
  BY <1>1, <1>2, <1>3, <1>4
  DEF FilesInv, Resumable, ResumeIsAccepted, Norm, legacy, bounds, history
<1>6. FilesInv'
  BY <1>1, <1>2, <1>4, <1>5, RecordChanges
<1>7. LocalInv(p)'
  BY <1>1, <1>2, <1>3
  DEF LocalInv, LeaseOf, Notes, Settled, JournalOf, Completing, Holding, legacy, history
<1> QED
  BY <1>1, <1>2, <1>3, <1>6, <1>7, HolderDisturbsNobody, OthersKeepTheirs DEF legacy, history

LEMMA ClearRecordStep ==
    ASSUME MigrationInv, NEW p \in Launchers, ClearRecord(p)
    PROVE  MigrationInv'
<1>1. /\ record' = NoFile
      /\ UNCHANGED <<legacy, local, journal, archive, firstOld, playing, mem, bounds, history>>
  BY DEF ClearRecord
<1>2. Acts(p) /\ FilesInv /\ LocalInv(p)
  BY ActsAlone DEF Migrate, MigrationInv
<1>3. pc[p] = "clear" /\ lease = p /\ oldJournal # BadJournal /\ Roots
  BY <1>2 DEF ClearRecord, Go, Return, LocalInv, LeaseOf, JournalOf, Holding, FilesInv
<1>4. FilesInv'
  <2>1. Resumable'
    BY <1>1, <1>2 DEF FilesInv, Resumable, ResumeIsAccepted, legacy, bounds, history
  <2> QED
    BY <1>1, <1>2, <2>1, RecordChanges
<1> USE DEF LocalInv, LeaseOf, Notes, Settled, JournalOf, Completing, Holding
<1>5. LocalInv(p)'
  <2>1. CASE root
    <3>1. pc'[p] = "journal" /\ lease' = p
      BY <1>3, <2>1, LeavesThePlace DEF ClearRecord
    <3> QED
      BY <1>1, <1>3, <3>1 DEF legacy
  <2>2. CASE ~root
    <3>1. pc'[p] = "read" /\ lease' = NoFile /\ NoFile # p /\ oldJournal = NoFile
      BY <1>3, <2>2, LeavesThePlace, FileFacts DEF ClearRecord, Return, Roots
    <3> QED
      BY <1>1, <3>1 DEF legacy
  <2> QED
    BY <2>1, <2>2
<1> QED
  BY <1>1, <1>2, <1>3, <1>4, <1>5, HolderDisturbsNobody, OthersKeepTheirs DEF legacy, history

-----------------------------------------------------------------------------
(* The journal and the old backups.                                          *)

LEMMA ImportJournalStep ==
    ASSUME MigrationInv, NEW p \in Launchers, ImportJournal(p)
    PROVE  MigrationInv'
<1>1. UNCHANGED <<legacy, local, record, archive, firstOld, playing, mem, bounds, history>>
  BY DEF ImportJournal
<1>2. Acts(p) /\ FilesInv /\ LocalInv(p) /\ stops' \in 0 .. MaxStops /\ edits' = edits
  BY <1>1, ActsAlone, StopsType DEF Migrate, MigrationInv
<1>3. /\ pc[p] = "journal" /\ lease = p
      /\ oldJournal \in Journals \cup {NoFile}
  BY <1>2
  DEF ImportJournal, Go, GiveUp, LocalInv, LeaseOf, JournalOf, Holding, FilesInv, MigrationTypeOK
<1> USE DEF LocalInv, LeaseOf, Notes, Settled, JournalOf, Completing, Holding
<1>4. CASE /\ oldJournal = NoFile /\ Go(p, "journal", "spare")
           /\ UNCHANGED <<journal, lease>>
  <2>1. pc'[p] = "spare" /\ lease' = p /\ oldJournal' = NoFile
    BY <1>1, <1>3, <1>4, LeavesThePlace DEF legacy
  <2>2. LocalInv(p)'
    BY <2>1
  <2> QED
    BY <1>1, <1>2, <1>4, <2>2, QuietStep DEF portable
<1>5. CASE /\ oldJournal # NoFile /\ journal \in {NoFile, oldJournal}
           /\ Go(p, "journal", "shelve") /\ journal' = oldJournal /\ UNCHANGED lease
  <2>1. pc'[p] = "shelve" /\ lease' = p /\ oldJournal \in Journals
    BY <1>3, <1>5, LeavesThePlace
  <2>2. FilesInv'
    <3>1. MigrationTypeOK'
      BY <1>1, <1>2, <1>5, <2>1 DEF FilesInv, MigrationTypeOK, Acts, legacy, bounds, history
    <3>2. Owed'
      BY <1>1, <1>2, <1>5, FileFacts DEF FilesInv, MigrationTypeOK, Owed, JournalIsPassedOn, legacy, history
    <3>3. Roots' /\ Originals' /\ SettingsInEffect' /\ Resumable'
      BY <1>1, <1>2
      DEF FilesInv, Roots, Originals, OriginalIsKept, SettingsInEffect, Effective, Resumable,
          ResumeIsAccepted, Backed, LocalIsOurs, legacy, bounds, history
    <3> QED
      BY <3>1, <3>2, <3>3 DEF FilesInv
  <2>3. LocalInv(p)'
    BY <1>1, <1>5, <2>1 DEF legacy
  <2> QED
    BY <1>1, <1>2, <1>3, <2>2, <2>3, HolderDisturbsNobody, OthersKeepTheirs DEF legacy, history
<1>6. CASE GiveUp(p, "journal") /\ UNCHANGED journal
  <2>1. UNCHANGED portable
    BY <1>1, <1>6 DEF portable
  <2> QED
    BY <1>1, <1>2, <1>6, <2>1, GivesUp, QuietStep
<1> QED
  BY <1>4, <1>5, <1>6 DEF ImportJournal

LEMMA ShelveJournalStep ==
    ASSUME MigrationInv, NEW p \in Launchers, ShelveJournal(p)
    PROVE  MigrationInv'
<1>1. /\ archive' = archive \cup {<<"session", oldJournal>>}
      /\ UNCHANGED <<legacy, local, journal, record, firstOld, playing, lease, mem, bounds, history>>
  BY DEF ShelveJournal
<1>2. Acts(p) /\ FilesInv /\ LocalInv(p)
  BY ActsAlone DEF Migrate, MigrationInv
<1>3. /\ pc[p] = "shelve" /\ pc'[p] = "dropJournal" /\ lease = p
      /\ oldJournal \in Journals /\ journal = oldJournal
  BY <1>2, LeavesThePlace DEF ShelveJournal, LocalInv, LeaseOf, JournalOf, Holding
<1>4. FilesInv'
  <2>1. archive' \subseteq Archives
    BY <1>1, <1>2, <1>3 DEF FilesInv, MigrationTypeOK, Archives
  <2> QED
    BY <1>1, <1>2, <2>1, ArchiveGrows
<1>5. LocalInv(p)'
  BY <1>1, <1>3
  DEF LocalInv, LeaseOf, Notes, Settled, JournalOf, Completing, Holding, legacy
<1> QED
  BY <1>1, <1>2, <1>3, <1>4, <1>5, HolderDisturbsNobody, OthersKeepTheirs DEF legacy, history

LEMMA DropJournalStep ==
    ASSUME MigrationInv, NEW p \in Launchers, DropJournal(p)
    PROVE  MigrationInv'
<1>1. /\ oldJournal' = NoFile
      /\ UNCHANGED <<root, source, spare, portable, playing, lease, mem, bounds, history>>
  BY DEF DropJournal
<1>2. Acts(p) /\ FilesInv /\ LocalInv(p)
  BY ActsAlone DEF Migrate, MigrationInv
<1>3. pc[p] = "dropJournal" /\ pc'[p] = "spare" /\ lease = p /\ journal = oldJournal
  BY <1>2, LeavesThePlace DEF DropJournal, LocalInv, LeaseOf, JournalOf, Holding
<1>4. FilesInv'
  <2>1. MigrationTypeOK'
    BY <1>1, <1>2 DEF FilesInv, MigrationTypeOK, Acts, portable, bounds, history
  <2>2. Owed'
    BY <1>1, <1>2, <1>3, FileFacts
    DEF FilesInv, MigrationTypeOK, Owed, JournalIsPassedOn, portable, history
  <2>3. Roots' /\ Originals' /\ SettingsInEffect' /\ Resumable'
    BY <1>1, <1>2
    DEF FilesInv, Roots, Originals, OriginalIsKept, SettingsInEffect, Effective, Resumable,
        ResumeIsAccepted, Backed, LocalIsOurs, Norm, portable, bounds, history
  <2> QED
    BY <2>1, <2>2, <2>3 DEF FilesInv
<1>5. LocalInv(p)'
  BY <1>1, <1>3
  DEF LocalInv, LeaseOf, Notes, Settled, JournalOf, Completing, Holding
<1> QED
  BY <1>1, <1>2, <1>3, <1>4, <1>5, HolderDisturbsNobody, OthersKeepTheirs DEF portable, history

LEMMA ArchiveSpareStep ==
    ASSUME MigrationInv, NEW p \in Launchers, NEW d \in Docs, ArchiveSpare(p, d)
    PROVE  MigrationInv'
<1>1. /\ archive' = archive \cup {<<"backup", d>>}
      /\ UNCHANGED <<legacy, local, journal, record, firstOld, playing, lease, bounds, history>>
  BY DEF ArchiveSpare
<1>2. Acts(p) /\ FilesInv /\ LocalInv(p)
  BY ActsAlone DEF Migrate, MigrationInv
<1>3. /\ pc[p] = "spare" /\ pc'[p] = "dropSpare" /\ lease = p /\ oldJournal = NoFile
      /\ mem'[p].bytes = d
  BY <1>2, LeavesThePlace
  DEF ArchiveSpare, LocalInv, LeaseOf, JournalOf, Holding, FilesInv, MigrationTypeOK
<1>4. FilesInv'
  <2>1. archive' \subseteq Archives
    BY <1>1, <1>2 DEF FilesInv, MigrationTypeOK, Archives
  <2> QED
    BY <1>1, <1>2, <2>1, ArchiveGrows
<1>5. LocalInv(p)'
  BY <1>1, <1>3
  DEF LocalInv, LeaseOf, Notes, Settled, JournalOf, Completing, Holding, legacy
<1> QED
  BY <1>1, <1>2, <1>3, <1>4, <1>5, HolderDisturbsNobody, OthersKeepTheirs DEF legacy, history

LEMMA DropSpareStep ==
    ASSUME MigrationInv, NEW p \in Launchers, DropSpare(p)
    PROVE  MigrationInv'
<1>1. /\ spare' = spare \ {mem[p].bytes}
      /\ UNCHANGED <<root, source, oldJournal, portable, playing, lease, mem, bounds, history>>
  BY DEF DropSpare
<1>2. Acts(p) /\ FilesInv /\ LocalInv(p)
  BY ActsAlone DEF Migrate, MigrationInv
<1>3. /\ pc[p] = "dropSpare" /\ pc'[p] = "spare" /\ lease = p /\ oldJournal = NoFile
      /\ <<"backup", mem[p].bytes>> \in archive
  BY <1>2, LeavesThePlace DEF DropSpare, LocalInv, LeaseOf, Notes, JournalOf, Holding
<1>4. FilesInv'
  <2>1. MigrationTypeOK'
    BY <1>1, <1>2 DEF FilesInv, MigrationTypeOK, Acts, portable, bounds, history
  <2>2. Originals'
    BY <1>1, <1>2, <1>3 DEF FilesInv, Originals, OriginalIsKept, portable, history
  <2>3. Roots' /\ Owed' /\ SettingsInEffect' /\ Resumable'
    BY <1>1, <1>2
    DEF FilesInv, Roots, Owed, JournalIsPassedOn, SettingsInEffect, Effective, Resumable,
        ResumeIsAccepted, Backed, LocalIsOurs, Norm, portable, bounds, history
  <2> QED
    BY <2>1, <2>2, <2>3 DEF FilesInv
<1>5. LocalInv(p)'
  BY <1>1, <1>3
  DEF LocalInv, LeaseOf, Notes, Settled, JournalOf, Completing, Holding
<1> QED
  BY <1>1, <1>2, <1>3, <1>4, <1>5, HolderDisturbsNobody, OthersKeepTheirs DEF portable, history

LEMMA FinishStep ==
    ASSUME MigrationInv, NEW p \in Launchers, Finish(p)
    PROVE  MigrationInv'
<1>1. /\ spare = {} /\ root' = (Keep \/ source # NoFile \/ oldJournal # NoFile)
      /\ lease' = NoFile
      /\ UNCHANGED <<source, spare, oldJournal, portable, playing, mem, bounds, history>>
  BY DEF Finish, Return
<1>2. Acts(p) /\ FilesInv /\ LocalInv(p)
  BY ActsAlone DEF Migrate, MigrationInv
<1>3. pc[p] = "spare" /\ pc'[p] = "read" /\ lease = p /\ oldJournal = NoFile
  BY <1>2, LeavesThePlace DEF Finish, Return, LocalInv, LeaseOf, JournalOf, Holding
<1>4. FilesInv'
  <2>1. root' \in BOOLEAN
    BY <1>1, MigrationAssumption
  <2>2. MigrationTypeOK'
    BY <1>1, <1>2, <2>1 DEF FilesInv, MigrationTypeOK, Acts, portable, bounds, history
  <2>3. Roots'
    BY <1>1 DEF Roots
  <2>4. Originals' /\ Owed' /\ SettingsInEffect' /\ Resumable'
    BY <1>1, <1>2
    DEF FilesInv, Originals, OriginalIsKept, Owed, JournalIsPassedOn, SettingsInEffect, Effective,
        Resumable, ResumeIsAccepted, Backed, LocalIsOurs, Norm, portable, bounds, history
  <2> QED
    BY <2>2, <2>3, <2>4 DEF FilesInv
<1>5. LocalInv(p)'
  BY <1>1, <1>3, FileFacts
  DEF LocalInv, LeaseOf, Notes, Settled, JournalOf, Completing, Holding
<1> QED
  BY <1>1, <1>2, <1>3, <1>4, <1>5, HolderDisturbsNobody, OthersKeepTheirs DEF portable, history

-----------------------------------------------------------------------------
(* main: the default configuration and the session.                          *)

LEMMA PublishDefaultStep ==
    ASSUME MigrationInv, NEW p \in Launchers, PublishDefault(p)
    PROVE  MigrationInv'
<1>1. /\ local' = Default /\ wanted' = IF wanted = NoFile THEN Default ELSE wanted
      /\ UNCHANGED <<legacy, journal, record, archive, firstOld, playing, lease, mem, bounds,
                     original, strays, owed, recovered, meddled>>
  BY DEF PublishDefault
<1>2. Acts(p) /\ FilesInv /\ LocalInv(p)
  BY ActsAlone DEF Main, MigrationInv
<1>3. /\ pc[p] = "publish" /\ pc'[p] = "idle" /\ lease' # p
      /\ ~meddled => source = NoFile /\ local \in {NoFile, Default}
  BY <1>1, <1>2, LeavesThePlace DEF PublishDefault, LocalInv, LeaseOf, Settled, Holding
<1>4. FilesInv'
  <2>1. MigrationTypeOK'
    BY <1>1, <1>2, FileFacts DEF FilesInv, MigrationTypeOK, Acts, legacy, bounds
  <2>2. Roots' /\ Originals' /\ Owed'
    BY <1>1, <1>2
    DEF FilesInv, Roots, Originals, OriginalIsKept, Owed, JournalIsPassedOn, legacy
  <2>3. SettingsInEffect'
    BY <1>1, <1>2, <1>3, FileFacts DEF FilesInv, SettingsInEffect, Effective, Norm, legacy
  <2>4. Resumable'
    BY <1>1, <1>2, <1>3 DEF FilesInv, Resumable, ResumeIsAccepted, Norm, legacy, bounds
  <2> QED
    BY <2>1, <2>2, <2>3, <2>4 DEF FilesInv
<1>5. LocalInv(p)'
  BY <1>3, NothingKnown
<1>6. ASSUME NEW q \in Launchers \ {p} PROVE Undisturbed(q)
  <2>1. LocalInv(q)
    BY DEF MigrationInv
  <2>2. ~meddled => pc[q] # "copy"
    BY <1>2, <1>3, <2>1, FileFacts DEF LocalInv, Notes, Settled, Completing
  <2>3. ~meddled /\ pc[q] = "rewrite" => local' = local
    BY <1>1, <1>3, <2>1 DEF LocalInv, Notes
  <2> QED
    BY <1>1, <1>2, <2>2, <2>3, FileFacts DEF Acts, Undisturbed, legacy
<1> QED
  BY <1>4, <1>5, <1>6, OthersKeepTheirs

LEMMA LaunchStep ==
    ASSUME MigrationInv, NEW p \in Launchers, Launch(p)
    PROVE  MigrationInv'
<1>1. UNCHANGED <<legacy, local, record, archive, firstOld, playing, mem, bounds,
                  original, strays, owed, wanted, meddled>>
  BY DEF Launch
<1>2. Acts(p) /\ FilesInv /\ LocalInv(p) /\ stops' \in 0 .. MaxStops /\ edits' = edits
  BY <1>1, ActsAlone, StopsType DEF Main, MigrationInv
<1>3. pc[p] = "launch" /\ oldJournal = NoFile /\ lease # p
  BY <1>2 DEF Launch, Go, LocalInv, LeaseOf, JournalOf, Holding
<1>4. CASE /\ lease = NoFile /\ Safe(journal)
           /\ Go(p, "launch", "session") /\ lease' = p /\ journal' = NoFile
           /\ recovered' = recovered \cup ({journal} \ {NoFile})
  <2>1. pc'[p] = "session" /\ oldJournal' = NoFile
    BY <1>1, <1>3, <1>4, LeavesThePlace DEF legacy
  <2>2. FilesInv'
    <3>1. journal \in Journals \cup {NoFile} /\ ({journal} \ {NoFile}) \subseteq owed
      BY <1>2, <1>4, FileFacts DEF FilesInv, MigrationTypeOK, Owed, Safe
    <3>2. MigrationTypeOK'
      BY <1>1, <1>2, <1>4, <3>1 DEF FilesInv, MigrationTypeOK, Acts, legacy, bounds
    <3>3. Owed'
      BY <1>1, <1>2, <1>3, <1>4, <3>1, FileFacts
      DEF FilesInv, MigrationTypeOK, Owed, JournalIsPassedOn, legacy
    <3>4. Roots' /\ Originals' /\ SettingsInEffect' /\ Resumable'
      BY <1>1, <1>2
      DEF FilesInv, Roots, Originals, OriginalIsKept, SettingsInEffect, Effective, Resumable,
          ResumeIsAccepted, Backed, LocalIsOurs, Norm, legacy, bounds
    <3> QED
      BY <3>2, <3>3, <3>4 DEF FilesInv
  <2>3. LocalInv(p)'
    BY <1>4, <2>1 DEF LocalInv, LeaseOf, Notes, Settled, JournalOf, Completing, Holding
  <2>4. \A q \in Launchers \ {p} : Undisturbed(q)
    BY <1>1, <1>2, <1>4, FileFacts DEF Acts, Undisturbed, legacy
  <2> QED
    BY <2>2, <2>3, <2>4, OthersKeepTheirs
<1>5. CASE Go(p, "launch", "idle") /\ UNCHANGED <<lease, journal, recovered>>
  <2>1. LocalInv(p)'
    BY <1>3, <1>5, LeavesThePlace, NothingKnown
  <2>2. UNCHANGED <<legacy, portable, playing, edits, history>>
    BY <1>1, <1>2, <1>5 DEF portable, history
  <2> QED
    BY <1>2, <2>1, <2>2, QuietStep
<1> QED
  BY <1>4, <1>5 DEF Launch

-----------------------------------------------------------------------------
(* The user and the games. An edit under way settles nothing any more.       *)

LEMMA AllKeepTheirs ==
    ASSUME MigrationInv, FilesInv', \A q \in Launchers : Undisturbed(q)
    PROVE  MigrationInv'
BY LocalInvIsStable DEF MigrationInv

LEMMA EditLocalStep ==
    ASSUME MigrationInv, NEW d \in Docs, EditLocal(d)
    PROVE  MigrationInv'
<1>1. /\ edits < MaxEdits /\ edits' = edits + 1 /\ local' = d /\ wanted' = Norm(d)
      /\ UNCHANGED <<legacy, journal, record, archive, firstOld, playing, lease, pc, mem, stops,
                     original, strays, owed, recovered>>
  BY DEF EditLocal
<1>2. FilesInv /\ edits \in 0 .. MaxEdits /\ MaxEdits \in Nat
  BY MigrationAssumption DEF MigrationInv, FilesInv, MigrationTypeOK
<1>3. /\ meddled \in BOOLEAN /\ meddled' \in BOOLEAN
      /\ ~meddled' => ~meddled /\ \A q \in Launchers : pc[q] \in {"idle", "session"}
  BY <1>2, Zenon DEF EditLocal, Underway, FilesInv, MigrationTypeOK
<1>4. edits' \in 0 .. MaxEdits /\ edits' # 0
  BY <1>1, <1>2
<1>5. Norm(d) \in Docs /\ d # NoFile
  BY NormFacts, FileFacts
<1>6. FilesInv'
  <2>1. MigrationTypeOK'
    BY <1>1, <1>2, <1>3, <1>4, <1>5 DEF FilesInv, MigrationTypeOK, legacy
  <2>2. Roots' /\ Originals' /\ Owed'
    BY <1>1, <1>2
    DEF FilesInv, Roots, Originals, OriginalIsKept, Owed, JournalIsPassedOn, legacy
  <2>3. SettingsInEffect'
    BY <1>1, <1>5 DEF SettingsInEffect, Effective, Norm
  <2>4. Resumable'
    BY <1>1, <1>2, <1>4 DEF FilesInv, Resumable, ResumeIsAccepted, Norm
  <2> QED
    BY <2>1, <2>2, <2>3, <2>4 DEF FilesInv
<1>7. \A q \in Launchers : Undisturbed(q)
  BY <1>1, <1>3, <1>5 DEF Undisturbed, legacy
<1> QED
  BY <1>6, <1>7, AllKeepTheirs

LEMMA EditSourceStep ==
    ASSUME MigrationInv, NEW d \in Docs, EditSource(d)
    PROVE  MigrationInv'
<1>1. /\ edits < MaxEdits /\ edits' = edits + 1 /\ root' = TRUE /\ source' = d /\ original' = d
      /\ wanted' = IF local = NoFile THEN Norm(d) ELSE wanted
      /\ UNCHANGED <<spare, oldJournal, portable, playing, lease, pc, mem, stops,
                     strays, owed, recovered>>
  BY DEF EditSource
<1>2. FilesInv /\ edits \in 0 .. MaxEdits /\ MaxEdits \in Nat
  BY MigrationAssumption DEF MigrationInv, FilesInv, MigrationTypeOK
<1>3. /\ meddled \in BOOLEAN /\ meddled' \in BOOLEAN
      /\ ~meddled' => ~meddled /\ \A q \in Launchers : pc[q] \in {"idle", "session"}
  BY <1>2, Zenon DEF EditSource, Underway, FilesInv, MigrationTypeOK
<1>4. edits' \in 0 .. MaxEdits /\ edits' # 0
  BY <1>1, <1>2
<1>5. Norm(d) \in Docs /\ d # NoFile
  BY NormFacts, FileFacts
<1>6. FilesInv'
  <2>1. MigrationTypeOK'
    BY <1>1, <1>2, <1>3, <1>4, <1>5 DEF FilesInv, MigrationTypeOK, portable
  <2>2. Roots' /\ Originals' /\ Owed'
    BY <1>1, <1>2
    DEF FilesInv, Roots, Originals, OriginalIsKept, Owed, JournalIsPassedOn, portable
  <2>3. SettingsInEffect'
    BY <1>1, <1>2, <1>3, <1>5 DEF FilesInv, SettingsInEffect, Effective, Norm, portable
  <2>4. Resumable'
    BY <1>1, <1>2, <1>4 DEF FilesInv, Resumable, ResumeIsAccepted, Norm, portable
  <2> QED
    BY <2>1, <2>2, <2>3, <2>4 DEF FilesInv
<1>7. \A q \in Launchers : Undisturbed(q)
  BY <1>1, <1>3 DEF Undisturbed, portable
<1> QED
  BY <1>6, <1>7, AllKeepTheirs

LEMMA GameEndsStep ==
    ASSUME MigrationInv, playing' \subseteq playing,
           UNCHANGED <<legacy, portable, lease, pc, mem, bounds, history>>
    PROVE  MigrationInv'
<1>1. FilesInv'
  <2>1. MigrationTypeOK'
    BY DEF MigrationInv, FilesInv, MigrationTypeOK, legacy, portable, bounds, history
  <2>2. Roots' /\ Originals' /\ Owed' /\ SettingsInEffect' /\ Resumable'
    BY DEF MigrationInv, FilesInv, Roots, Originals, OriginalIsKept, Owed, JournalIsPassedOn,
           SettingsInEffect, Effective, Resumable, ResumeIsAccepted, Backed, LocalIsOurs, Norm,
           legacy, portable, bounds, history
  <2> QED
    BY <2>1, <2>2 DEF FilesInv
<1>2. \A q \in Launchers : Undisturbed(q)
  BY DEF Undisturbed, legacy, portable, history
<1> QED
  BY <1>1, <1>2, AllKeepTheirs

-----------------------------------------------------------------------------
LEMMA MigrationInvInit == MigrationInit => MigrationInv
<1> SUFFICES ASSUME MigrationInit PROVE MigrationInv
  OBVIOUS
<1>1. MigrationTypeOK
  <2>1. wanted \in Docs \cup {NoFile}
    BY NormFacts, FileFacts DEF MigrationInit, Effective
  <2>2. mem \in [Launchers -> [had : BOOLEAN, bytes : Docs \cup {NoFile},
                              text : OldDocs \cup {NoFile}]]
        /\ pc \in [Launchers -> PCs]
    BY DEF MigrationInit, NoMem, PCs
  <2>3. spare \subseteq Docs /\ strays \subseteq Docs
    BY FileFacts DEF MigrationInit
  <2>4. stops \in 0 .. MaxStops /\ edits \in 0 .. MaxEdits
    BY MigrationAssumption DEF MigrationInit
  <2>5. owed \subseteq Journals /\ recovered \subseteq owed
    BY DEF MigrationInit
  <2> QED
    BY <2>1, <2>2, <2>3, <2>4, <2>5 DEF MigrationInit, MigrationTypeOK
<1>2. Roots /\ Originals /\ SettingsInEffect
  BY DEF MigrationInit, Roots, Originals, OriginalIsKept, SettingsInEffect
<1>3. Owed
  BY DEF MigrationInit, Owed, JournalIsPassedOn
<1>4. Resumable
  BY DEF MigrationInit, Resumable, ResumeIsAccepted
<1>5. ASSUME NEW p \in Launchers PROVE LocalInv(p)
  <2>1. pc[p] = "idle" /\ lease # p
    BY FileFacts DEF MigrationInit
  <2> QED
    BY <2>1 DEF LocalInv, LeaseOf, Notes, Settled, JournalOf, Completing, Holding
<1> QED
  BY <1>1, <1>2, <1>3, <1>4, <1>5 DEF MigrationInv, FilesInv

LEMMA MigrationInvStep == MigrationInv /\ [MigrationNext]_migrationVars => MigrationInv'
<1> SUFFICES ASSUME MigrationInv, [MigrationNext]_migrationVars
             PROVE  MigrationInv'
  OBVIOUS
<1>1. CASE \E p \in Launchers : Main(p)
  BY <1>1, MainQuietSteps, PublishDefaultStep, LaunchStep DEF Main
<1>2. CASE \E p \in Launchers : Migrate(p)
  <2>1. PICK p \in Launchers : Migrate(p)
    BY <1>2
  <2>2. CASE Acquire(p) \/ Begin(p) \/ Archive(p) \/ Prepare(p) \/ Complete(p) \/ CopyConfig(p)
    BY <2>2, AcquireStep, BeginStep, ArchiveStep, PrepareStep, CompleteStep, CopyConfigStep
  <2>3. CASE Inspect(p) \/ KeepOld(p) \/ Rewrite(p) \/ Verify(p) \/ RemoveSource(p)
    BY <2>3, InspectStep, KeepOldStep, RewriteStep, VerifyStep, RemoveSourceStep
  <2>4. CASE SaveCleaned(p) \/ ClearRecord(p) \/ ImportJournal(p) \/ ShelveJournal(p)
    BY <2>4, SaveCleanedStep, ClearRecordStep, ImportJournalStep, ShelveJournalStep
  <2>5. CASE DropJournal(p) \/ (\E d \in Docs : ArchiveSpare(p, d)) \/ DropSpare(p) \/ Finish(p)
    BY <2>5, DropJournalStep, ArchiveSpareStep, DropSpareStep, FinishStep
  <2> QED
    BY <2>1, <2>2, <2>3, <2>4, <2>5 DEF Migrate
<1>3. CASE \E p \in Launchers : Stops(p)
  BY <1>3, StopsStep
<1>4. CASE \E d \in Docs : EditLocal(d) \/ EditSource(d)
  BY <1>4, EditLocalStep, EditSourceStep
<1>5. CASE \E j \in Journals : GameEnds(j)
  BY <1>5, GameEndsStep DEF GameEnds
<1>6. CASE UNCHANGED migrationVars
  BY <1>6, GameEndsStep DEF migrationVars
<1> QED
  BY <1>1, <1>2, <1>3, <1>4, <1>5, <1>6 DEF MigrationNext

LEMMA MigrationInvariance == MigrationSpec => []MigrationInv
BY MigrationInvInit, MigrationInvStep, PTL DEF MigrationSpec

-----------------------------------------------------------------------------
(* Who writes config.toml beside the program. *)
LEMMA WritersOfLocal ==
    ASSUME [MigrationNext]_migrationVars, local' # local
    PROVE  \/ \E p \in Launchers : PublishDefault(p) \/ CopyConfig(p) \/ Rewrite(p)
           \/ \E d \in Docs : EditLocal(d)
<1> USE DEF legacy, portable
<1>1. ASSUME NEW p \in Launchers, Main(p) PROVE PublishDefault(p)
  BY <1>1
  DEF Main, CheckLocal, CheckLegacy, WriteDefault, ReadConfig, Launch, EndSession
<1>2. ASSUME NEW p \in Launchers, Migrate(p) PROVE CopyConfig(p) \/ Rewrite(p)
  <2>1. ~Acquire(p) /\ ~Begin(p) /\ ~Archive(p) /\ ~Prepare(p) /\ ~Complete(p) /\ ~Inspect(p)
    BY DEF Acquire, Begin, Archive, Prepare, Complete, Inspect
  <2>2. ~KeepOld(p) /\ ~Verify(p) /\ ~RemoveSource(p) /\ ~SaveCleaned(p) /\ ~ClearRecord(p)
    BY DEF KeepOld, Verify, RemoveSource, SaveCleaned, ClearRecord
  <2>3. ~ImportJournal(p) /\ ~ShelveJournal(p) /\ ~DropJournal(p) /\ ~DropSpare(p) /\ ~Finish(p)
        /\ ~\E d \in Docs : ArchiveSpare(p, d)
    BY DEF ImportJournal, ShelveJournal, DropJournal, DropSpare, Finish, ArchiveSpare
  <2> QED
    BY <1>2, <2>1, <2>2, <2>3 DEF Migrate
<1>3. /\ ~\E p \in Launchers : Stops(p)
      /\ ~\E d \in Docs : EditSource(d)
      /\ ~\E j \in Journals : GameEnds(j)
      /\ ~UNCHANGED migrationVars
  BY DEF Stops, EditSource, GameEnds, migrationVars
<1> QED
  BY <1>1, <1>2, <1>3 DEF MigrationNext

(* The files and what the launchers remember of them stay well typed: there   *)
(* is a record wherever the migration changes one, and a document wherever it *)
(* writes one.                                                                *)
THEOREM MigrationTypeCorrect == MigrationSpec => []MigrationTypeOK
<1>1. MigrationInv => MigrationTypeOK
  BY DEF MigrationInv, FilesInv
<1> QED
  BY <1>1, MigrationInvariance, PTL

(* However many launchers run main and migrate_legacy_data and wherever each  *)
(* of them stops, the configuration that was in effect stays in effect.       *)
THEOREM SettingsStayInEffect == MigrationSpec => []SettingsInEffect
<1>1. MigrationInv => SettingsInEffect
  BY DEF MigrationInv, FilesInv
<1> QED
  BY <1>1, MigrationInvariance, PTL

(* remove_file_if_unchanged and the removal of the backups come after         *)
(* archive_exact, in every interleaving and after every resumption.           *)
THEOREM OriginalStaysKept == MigrationSpec => []OriginalIsKept
<1>1. MigrationInv => OriginalIsKept
  BY DEF MigrationInv, FilesInv, Originals
<1> QED
  BY <1>1, MigrationInvariance, PTL

(* migrate_journal hands every recovery record over, and none comes back      *)
(* after it has been used.                                                    *)
THEOREM JournalsArePassedOn == MigrationSpec => []JournalIsPassedOn
<1>1. MigrationInv => JournalIsPassedOn
  BY DEF MigrationInv, FilesInv, Owed
<1> QED
  BY <1>1, MigrationInvariance, PTL

(* complete_config_migration accepts what an earlier run left, at whichever   *)
(* step that run stopped.                                                     *)
THEOREM ResumptionIsAccepted == MigrationSpec => []ResumeIsAccepted
<1>1. MigrationInv => ResumeIsAccepted
  BY DEF MigrationInv, FilesInv, Resumable
<1> QED
  BY <1>1, MigrationInvariance, PTL

(* preserve_schema1_backup holds the text of every schema-1 file that is      *)
(* replaced, whichever launcher replaces it.                                  *)
THEOREM ConversionsAreReversible == MigrationSpec => ConversionIsReversible
<1>1. MigrationInv /\ [MigrationNext]_migrationVars =>
          [local' # local /\ local \in OldDocs /\ edits' = edits /\ ~meddled
               => firstOld = local]_migrationVars
  <2> SUFFICES ASSUME MigrationInv, [MigrationNext]_migrationVars,
                      local' # local, local \in OldDocs, edits' = edits, ~meddled
               PROVE  firstOld = local
    OBVIOUS
  <2>1. \A p \in Launchers : LocalInv(p)
    BY DEF MigrationInv
  <2>2. CASE \E p \in Launchers : PublishDefault(p) \/ CopyConfig(p)
    BY <2>1, <2>2, FileFacts DEF PublishDefault, CopyConfig, Go, LocalInv, Settled
  <2>3. CASE \E p \in Launchers : Rewrite(p)
    <3>1. PICK p \in Launchers : Rewrite(p)
      BY <2>3
    <3>2. /\ mem[p].text \in OldDocs /\ firstOld = mem[p].text
          /\ local \in {mem[p].text, Norm(mem[p].text)}
      BY <2>1, <3>1 DEF Rewrite, Go, LocalInv, Notes, Settled
    <3>3. Norm(mem[p].text) \notin OldDocs
      BY <3>2, NormFacts, FileFacts
    <3> QED
      BY <3>2, <3>3
  <2>4. CASE \E d \in Docs : EditLocal(d)
    BY <2>4, MigrationAssumption DEF EditLocal, MigrationInv, FilesInv, MigrationTypeOK
  <2> QED
    BY <2>2, <2>3, <2>4, WritersOfLocal
<1> QED
  BY <1>1, MigrationInvariance, PTL DEF MigrationSpec, ConversionIsReversible
=============================================================================
