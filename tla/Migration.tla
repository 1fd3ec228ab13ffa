------------------------------ MODULE Migration ------------------------------
(***************************************************************************)
(* The way a double click takes before a session: the first configuration,   *)
(* migrate_legacy_data from the AppData folder of version 1 into the folder   *)
(* of the program, and the conversion of a schema-1 file. Any step may be     *)
(* the last one of a launcher, several launchers run, and the user edits the  *)
(* files. A file holds one element of Docs or of Journals, equal hashes mean  *)
(* equal files, and a write is atomic (win32::write_file_atomic).             *)
(*                                                                           *)
(* src/src/app/portable_migration.cpp, src/src/app/main.cpp                   *)
(***************************************************************************)
EXTENDS Integers

CONSTANTS
    Launchers,  \* processes of the program
    Docs,       \* what a config.toml can hold
    OldDocs,    \* those of schema 1
    BadDocs,    \* those parse_config refuses
    Convert,    \* serialize_config of a schema-1 document
    Default,    \* default_config_toml
    Journals,   \* readable recovery records
    BadJournal, \* one that load_journal refuses
    NoFile,     \* the file does not exist; nobody holds the lease
    Keep,       \* the AppData folder holds a file the program does not know
    MaxStops,   \* bound: launchers that fail or die before the end
    MaxEdits    \* bound: edits by the user

Stages == {"prepared", "verified", "cleaned"}
Records == [stage : Stages, imported : BOOLEAN, source : Docs, target : Docs]

ASSUME MigrationAssumption ==
    /\ OldDocs \subseteq Docs /\ BadDocs \subseteq Docs \ OldDocs
    /\ Default \in Docs \ (OldDocs \cup BadDocs)
    /\ Convert \in [OldDocs -> Docs \ (OldDocs \cup BadDocs)]
    /\ NoFile \notin Docs \cup Journals \cup Launchers \cup Records \cup {BadJournal}
    /\ BadJournal \notin Journals
    /\ Keep \in BOOLEAN
    /\ MaxStops \in Nat /\ MaxEdits \in Nat

VARIABLES
    root,       \* the AppData folder exists
    source,     \* its config.toml
    spare,      \* what its config.toml.bak.* hold
    oldJournal, \* its active-session.json
    local,      \* config.toml beside the program
    journal,    \* data/state/active-session.json
    record,     \* data/state/portable-migration.toml
    archive,    \* data/backups, by prefix and content
    firstOld,   \* data/backups/config.schema1.toml
    playing,    \* journals whose game has not exited, as far as one can tell
    lease,      \* who holds the session lease
    pc, mem,    \* where each launcher is, and its local variables
    stops, edits,
    original,   \* history: what the AppData config.toml held last
    strays,     \* history: what the .bak files held
    owed,       \* history: the recovery records there were
    recovered,  \* history: those recovery has dealt with
    wanted,     \* history: what the user's configuration says, as schema 2
    meddled     \* history: the user edited a file under a running launcher

legacy == <<root, source, spare, oldJournal>>
portable == <<local, journal, record, archive, firstOld>>
bounds == <<stops, edits>>
history == <<original, strays, owed, recovered, wanted, meddled>>
migrationVars == <<legacy, portable, playing, lease, pc, mem, bounds, history>>

Archives == ({"config", "backup"} \X Docs) \cup ({"session"} \X Journals)

PCs == {"idle", "legacy", "default", "publish", "lease", "begin", "archive", "prepare",
        "complete", "copy", "inspect", "keepOld", "rewrite", "verify", "remove", "clean",
        "clear", "journal", "shelve", "dropJournal", "spare", "dropSpare", "read",
        "launch", "session"}

MigrationTypeOK ==
    /\ root \in BOOLEAN
    /\ source \in Docs \cup {NoFile}
    /\ spare \subseteq Docs
    /\ oldJournal \in Journals \cup {BadJournal, NoFile}
    /\ local \in Docs \cup {NoFile}
    /\ journal \in Journals \cup {BadJournal, NoFile}
    /\ record \in Records \cup {NoFile}
    /\ archive \subseteq Archives
    /\ firstOld \in OldDocs \cup {NoFile}
    /\ playing \subseteq Journals
    /\ lease \in Launchers \cup {NoFile}
    /\ pc \in [Launchers -> PCs]
    /\ mem \in [Launchers -> [had : BOOLEAN, bytes : Docs \cup {NoFile},
                           text : OldDocs \cup {NoFile}]]
    /\ stops \in 0 .. MaxStops /\ edits \in 0 .. MaxEdits
    /\ original \in Docs \cup {NoFile}
    /\ strays \subseteq Docs
    /\ owed \subseteq Journals /\ recovered \subseteq owed
    /\ wanted \in Docs \cup {NoFile}
    /\ meddled \in BOOLEAN

(* What a document means, as schema 2. *)
Norm(d) == IF d \in OldDocs THEN Convert[d] ELSE d

(* The configuration the user is to get: a local one wins. *)
Effective ==
    IF local # NoFile THEN Norm(local)
    ELSE IF source # NoFile THEN Norm(source) ELSE NoFile

NoMem == [had |-> FALSE, bytes |-> NoFile, text |-> NoFile]

MigrationInit ==
    /\ source \in Docs \cup {NoFile}
    /\ spare \in SUBSET OldDocs
    /\ oldJournal \in Journals \cup {BadJournal, NoFile}
    /\ root \in BOOLEAN
    /\ source # NoFile \/ spare # {} \/ oldJournal # NoFile \/ Keep => root
    /\ local \in Docs \cup {NoFile}
    /\ journal \in Journals \cup {BadJournal, NoFile}
    /\ record = NoFile /\ archive = {}
    /\ firstOld \in OldDocs \cup {NoFile}
    /\ playing \in SUBSET Journals
    /\ lease = NoFile
    /\ pc = [p \in Launchers |-> "idle"]
    /\ mem = [p \in Launchers |-> NoMem]
    /\ stops = 0 /\ edits = 0
    /\ original = source /\ strays = spare
    /\ owed = {oldJournal, journal} \cap Journals /\ recovered = {}
    /\ wanted = Effective
    /\ meddled = FALSE

-----------------------------------------------------------------------------
Go(p, from, to) == pc[p] = from /\ pc' = [pc EXCEPT ![p] = to]

(* The launcher gives up, at the latest when it returns it lets go of the lease. *)
GiveUp(p, from) ==
    /\ Go(p, from, "idle")
    /\ lease' = IF lease = p THEN NoFile ELSE lease

(* migrate_legacy_data returns: the lease goes, main carries on. *)
Return(p, from) == Go(p, from, "read") /\ lease' = NoFile

-----------------------------------------------------------------------------
(* main, before the migration. *)

CheckLocal(p) ==
    /\ Go(p, "idle", "legacy")
    /\ mem' = [mem EXCEPT ![p] = [NoMem EXCEPT !.had = local # NoFile]]
    /\ UNCHANGED <<legacy, portable, playing, lease, bounds, history>>

(* legacy_config_exists, then a local configuration must be readable. *)
CheckLegacy(p) ==
    /\ IF ~mem[p].had
       THEN Go(p, "legacy", IF source = NoFile THEN "default" ELSE "lease")
       ELSE Go(p, "legacy", IF local \in BadDocs THEN "idle" ELSE "lease")
    /\ UNCHANGED <<legacy, portable, playing, lease, mem, bounds, history>>

(* Mutant: write_default_config trusts what main found. *)
WriteDefaultBlindly(p) ==
    /\ Go(p, "default", "publish")
    /\ UNCHANGED <<legacy, portable, playing, lease, mem, bounds, history>>

(* write_default_config looks once more. *)
WriteDefault(p) ==
    /\ Go(p, "default", IF local # NoFile THEN "idle" ELSE "publish")
    /\ UNCHANGED <<legacy, portable, playing, lease, mem, bounds, history>>

PublishDefault(p) ==
    /\ Go(p, "publish", "idle")
    /\ local' = Default
    /\ wanted' = IF wanted = NoFile THEN Default ELSE wanted
    /\ UNCHANGED <<legacy, journal, record, archive, firstOld, playing, lease, mem, bounds,
                   original, strays, owed, recovered, meddled>>

-----------------------------------------------------------------------------
(* migrate_legacy_data *)

Acquire(p) ==
    /\ IF lease = NoFile
       THEN Go(p, "lease", "begin") /\ lease' = p
       ELSE Go(p, "lease", "idle") /\ UNCHANGED lease
    /\ UNCHANGED <<legacy, portable, playing, mem, bounds, history>>

(* preflight_journals *)
Safe(j) == j # BadJournal /\ j \notin playing
JournalsSafe ==
    /\ Safe(oldJournal) /\ Safe(journal)
    /\ oldJournal = journal \/ NoFile \in {oldJournal, journal}

(* What the record and the configuration in AppData ask for. *)
Begin(p) ==
    /\ LET due == record # NoFile
           cleaned == due /\ record.stage = "cleaned"
       IN \/ /\ root => source = NoFile /\ JournalsSafe
             /\ cleaned
             /\ Go(p, "begin", "clear") /\ UNCHANGED lease
          \/ /\ ~root /\ ~due
             /\ Return(p, "begin")
          \/ /\ root /\ JournalsSafe /\ source = NoFile /\ ~due
             /\ Go(p, "begin", "journal") /\ UNCHANGED lease
          \/ /\ root /\ JournalsSafe /\ source # NoFile
             /\ due => record.source = source
             /\ Go(p, "begin", IF due THEN "complete" ELSE "archive") /\ UNCHANGED lease
          \/ /\ \/ root /\ ~JournalsSafe
                \/ root /\ source # NoFile /\ due /\ record.source # source
                \/ (root => source = NoFile) /\ due /\ ~cleaned
             /\ GiveUp(p, "begin")
    /\ mem' = [mem EXCEPT ![p].bytes = source]
    /\ UNCHANGED <<legacy, portable, playing, bounds, history>>

(* archive_exact comes before the document is even parsed. *)
Archive(p) ==
    /\ archive' = archive \cup {<<"config", mem[p].bytes>>}
    /\ IF mem[p].bytes \in BadDocs
       THEN GiveUp(p, "archive")
       ELSE Go(p, "archive", "prepare") /\ UNCHANGED lease
    /\ UNCHANGED <<legacy, local, journal, record, firstOld, playing, mem, bounds, history>>

(* Mutant: the hash of the document before its conversion is expected. *)
PrepareUnconverted(p) ==
    /\ Go(p, "prepare", "complete")
    /\ record' = [stage |-> "prepared", imported |-> local = NoFile,
                  source |-> mem[p].bytes, target |-> mem[p].bytes]
    /\ UNCHANGED <<legacy, local, journal, archive, firstOld, playing, lease, mem, bounds, history>>

Prepare(p) ==
    /\ Go(p, "prepare", "complete")
    /\ record' = [stage |-> "prepared", imported |-> local = NoFile,
                  source |-> mem[p].bytes, target |-> Norm(mem[p].bytes)]
    /\ UNCHANGED <<legacy, local, journal, archive, firstOld, playing, lease, mem, bounds, history>>

(* complete_config_migration: the checks of a first run and of a resumed one. *)
Backed(d) == <<"config", d>> \in archive
LocalIsOurs == local \in {NoFile, record.source, record.target}

Complete(p) ==
    /\ pc[p] = "complete"
    /\ LET ours == record.stage = "prepared" /\ record.imported
       IN IF /\ Backed(mem[p].bytes)
             /\ ours => LocalIsOurs
             /\ local = NoFile => ours
          THEN /\ Go(p, "complete", IF local = NoFile THEN "copy" ELSE "inspect")
               /\ UNCHANGED lease
          ELSE GiveUp(p, "complete")
    /\ UNCHANGED <<legacy, portable, playing, mem, bounds, history>>

CopyConfig(p) ==
    /\ Go(p, "copy", "inspect")
    /\ local' = mem[p].bytes
    /\ UNCHANGED <<legacy, journal, record, archive, firstOld, playing, lease, mem, bounds, history>>

Inspect(p) ==
    /\ pc[p] = "inspect"
    /\ IF local \in BadDocs
       THEN GiveUp(p, "inspect")
       ELSE /\ Go(p, "inspect",
                  IF record.imported /\ local \in OldDocs THEN "keepOld" ELSE "verify")
            /\ UNCHANGED lease
    /\ UNCHANGED <<legacy, portable, playing, mem, bounds, history>>

(* Save LocalVerified, if the local configuration is what it should be. *)
Verify(p) ==
    /\ pc[p] = "verify"
    /\ \/ /\ record.imported /\ local # record.target
          /\ GiveUp(p, "verify")
          /\ UNCHANGED record
       \/ /\ record.imported => local = record.target
          /\ Go(p, "verify", "remove")
          /\ record' = [record EXCEPT !.stage = "verified"]
          /\ UNCHANGED lease
    /\ UNCHANGED <<legacy, local, journal, archive, firstOld, playing, mem, bounds, history>>

(* Mutant: the source goes without another look at it. *)
RemoveSourceBlindly(p) ==
    /\ Go(p, "remove", "clean")
    /\ source' = NoFile
    /\ UNCHANGED <<root, spare, oldJournal, portable, playing, lease, mem, bounds, history>>

(* remove_file_if_unchanged holds the file open against writers. *)
RemoveSource(p) ==
    /\ IF source = mem[p].bytes
       THEN Go(p, "remove", "clean") /\ source' = NoFile /\ UNCHANGED lease
       ELSE GiveUp(p, "remove") /\ UNCHANGED source
    /\ UNCHANGED <<root, spare, oldJournal, portable, playing, mem, bounds, history>>

SaveCleaned(p) ==
    /\ Go(p, "clean", "clear")
    /\ record' = [record EXCEPT !.stage = "cleaned"]
    /\ UNCHANGED <<legacy, local, journal, archive, firstOld, playing, lease, mem, bounds, history>>

ClearRecord(p) ==
    /\ IF root
       THEN Go(p, "clear", "journal") /\ UNCHANGED lease
       ELSE Return(p, "clear")
    /\ record' = NoFile
    /\ UNCHANGED <<legacy, local, journal, archive, firstOld, playing, mem, bounds, history>>

-----------------------------------------------------------------------------
(* migrate_journal, and the backups version 1 left. *)

ImportJournal(p) ==
    /\ \/ /\ oldJournal = NoFile
          /\ Go(p, "journal", "spare")
          /\ UNCHANGED <<journal, lease>>
       \/ /\ oldJournal # NoFile /\ journal \in {NoFile, oldJournal}
          /\ Go(p, "journal", "shelve")
          /\ journal' = oldJournal
          /\ UNCHANGED lease
       \/ /\ oldJournal # NoFile /\ journal \notin {NoFile, oldJournal}
          /\ GiveUp(p, "journal")
          /\ UNCHANGED journal
    /\ UNCHANGED <<legacy, local, record, archive, firstOld, playing, mem, bounds, history>>

ShelveJournal(p) ==
    /\ Go(p, "shelve", "dropJournal")
    /\ archive' = archive \cup {<<"session", oldJournal>>}
    /\ UNCHANGED <<legacy, local, journal, record, firstOld, playing, lease, mem, bounds, history>>

(* Mutant: the journal in AppData stays behind. *)
LeaveJournal(p) ==
    /\ Go(p, "dropJournal", "spare")
    /\ UNCHANGED <<legacy, portable, playing, lease, mem, bounds, history>>

DropJournal(p) ==
    /\ Go(p, "dropJournal", "spare")
    /\ oldJournal' = NoFile
    /\ UNCHANGED <<root, source, spare, portable, playing, lease, mem, bounds, history>>

ArchiveSpare(p, d) ==
    /\ d \in spare
    /\ Go(p, "spare", "dropSpare")
    /\ archive' = archive \cup {<<"backup", d>>}
    /\ mem' = [mem EXCEPT ![p].bytes = d]
    /\ UNCHANGED <<legacy, local, journal, record, firstOld, playing, lease, bounds, history>>

DropSpare(p) ==
    /\ Go(p, "dropSpare", "spare")
    /\ spare' = spare \ {mem[p].bytes}
    /\ UNCHANGED <<root, source, oldJournal, portable, playing, lease, mem, bounds, history>>

(* remove_if_empty, and the migration has been done. *)
Finish(p) ==
    /\ spare = {}
    /\ Return(p, "spare")
    /\ root' = (Keep \/ source # NoFile \/ oldJournal # NoFile)
    /\ UNCHANGED <<source, spare, oldJournal, portable, playing, mem, bounds, history>>

-----------------------------------------------------------------------------
(* main, after the migration. *)

ReadConfig(p) ==
    /\ Go(p, "read", IF local \in BadDocs \cup {NoFile} THEN "idle"
                     ELSE IF local \in OldDocs THEN "keepOld" ELSE "launch")
    /\ UNCHANGED <<legacy, portable, playing, lease, mem, bounds, history>>

(* Mutant: whatever schema-1 backup there is will do. *)
KeepAnyOld(p) ==
    /\ local \in OldDocs
    /\ firstOld' = IF firstOld = NoFile THEN local ELSE firstOld
    /\ mem' = [mem EXCEPT ![p].text = local]
    /\ Go(p, "keepOld", "rewrite") /\ UNCHANGED lease
    /\ UNCHANGED <<legacy, local, journal, record, archive, playing, bounds, history>>

(* Mutant: a document of any schema is converted. *)
KeepEverything(p) ==
    /\ firstOld' = local
    /\ mem' = [mem EXCEPT ![p].text = local]
    /\ Go(p, "keepOld", "rewrite") /\ UNCHANGED lease
    /\ UNCHANGED <<legacy, local, journal, record, archive, playing, bounds, history>>

(* migrate_config_file reads again; preserve_schema1_backup keeps one file. *)
KeepOld(p) ==
    /\ \/ /\ local \in OldDocs /\ firstOld \in {NoFile, local}
          /\ firstOld' = local
          /\ mem' = [mem EXCEPT ![p].text = local]
          /\ Go(p, "keepOld", "rewrite") /\ UNCHANGED lease
       \/ /\ local \in BadDocs \/ (local \in OldDocs /\ firstOld \notin {NoFile, local})
          /\ GiveUp(p, "keepOld")
          /\ UNCHANGED <<firstOld, mem>>
       \/ /\ local \notin OldDocs \cup BadDocs
          /\ Go(p, "keepOld", IF lease = p THEN "verify" ELSE "launch")
          /\ UNCHANGED <<firstOld, mem, lease>>
    /\ UNCHANGED <<legacy, local, journal, record, archive, playing, bounds, history>>

Rewrite(p) ==
    /\ Go(p, "rewrite", IF lease = p THEN "verify" ELSE "launch")
    /\ local' = Norm(mem[p].text)
    /\ UNCHANGED <<legacy, journal, record, archive, firstOld, playing, lease, mem, bounds, history>>

(* The elevated child takes the lease and recovers; Session has the detail. *)
Launch(p) ==
    /\ IF lease = NoFile /\ Safe(journal)
       THEN /\ Go(p, "launch", "session")
            /\ lease' = p
            /\ journal' = NoFile
            /\ recovered' = recovered \cup ({journal} \ {NoFile})
       ELSE Go(p, "launch", "idle") /\ UNCHANGED <<lease, journal, recovered>>
    /\ UNCHANGED <<legacy, local, record, archive, firstOld, playing, mem, bounds,
                   original, strays, owed, wanted, meddled>>

EndSession(p) ==
    /\ GiveUp(p, "session")
    /\ UNCHANGED <<legacy, portable, playing, mem, bounds, history>>

-----------------------------------------------------------------------------
(* A call fails, or the launcher dies: what is on disk stays as it is, and    *)
(* the kernel frees the lease.                                               *)
Stops(p) ==
    /\ stops < MaxStops /\ stops' = stops + 1
    /\ pc[p] # "idle" /\ GiveUp(p, pc[p])
    /\ UNCHANGED <<legacy, portable, playing, mem, edits, history>>

Underway == \E p \in Launchers : pc[p] \notin {"idle", "session"}

EditLocal(d) ==
    /\ edits < MaxEdits /\ edits' = edits + 1
    /\ local' = d
    /\ wanted' = Norm(d)
    /\ meddled' = (meddled \/ Underway)
    /\ UNCHANGED <<legacy, journal, record, archive, firstOld, playing, lease, pc, mem, stops,
                   original, strays, owed, recovered>>

EditSource(d) ==
    /\ edits < MaxEdits /\ edits' = edits + 1
    /\ root' = TRUE /\ source' = d
    /\ original' = d
    /\ wanted' = IF local = NoFile THEN Norm(d) ELSE wanted
    /\ meddled' = (meddled \/ Underway)
    /\ UNCHANGED <<spare, oldJournal, portable, playing, lease, pc, mem, stops,
                   strays, owed, recovered>>

GameEnds(j) ==
    /\ j \in playing
    /\ playing' = playing \ {j}
    /\ UNCHANGED <<legacy, portable, lease, pc, mem, bounds, history>>

-----------------------------------------------------------------------------
Migrate(p) ==
    \/ Acquire(p) \/ Begin(p) \/ Archive(p) \/ Prepare(p) \/ Complete(p) \/ CopyConfig(p)
    \/ Inspect(p) \/ KeepOld(p) \/ Rewrite(p) \/ Verify(p) \/ RemoveSource(p)
    \/ SaveCleaned(p) \/ ClearRecord(p) \/ ImportJournal(p) \/ ShelveJournal(p)
    \/ DropJournal(p) \/ (\E d \in Docs : ArchiveSpare(p, d)) \/ DropSpare(p) \/ Finish(p)

Main(p) ==
    \/ CheckLocal(p) \/ CheckLegacy(p) \/ WriteDefault(p) \/ PublishDefault(p)
    \/ ReadConfig(p) \/ Launch(p) \/ EndSession(p)

MigrationNext ==
    \/ \E p \in Launchers : Main(p) \/ Migrate(p) \/ Stops(p)
    \/ \E d \in Docs : EditLocal(d) \/ EditSource(d)
    \/ \E j \in Journals : GameEnds(j)

MigrationSpec == MigrationInit /\ [][MigrationNext]_migrationVars

-----------------------------------------------------------------------------
(* Whatever is interrupted, and whoever runs beside it, what the user's       *)
(* configuration says stays in effect: a local file wins, the one in AppData  *)
(* is taken over, and a default replaces neither. Edits made under a running  *)
(* launcher are excepted.                                                    *)
SettingsInEffect == ~meddled => Effective = wanted

(* No configuration of version 1 is removed before it is archived, whatever   *)
(* the user edits meanwhile.                                                 *)
OriginalIsKept ==
    /\ original # NoFile => source = original \/ <<"config", original>> \in archive
    /\ \A d \in strays : d \in spare \/ <<"backup", d>> \in archive

(* A recovery record is never lost, and once recovery has used it no copy is  *)
(* left that a later run would recover from again.                           *)
JournalIsPassedOn ==
    \A j \in owed : (j \in recovered) <=> (j \notin {oldJournal, journal})

(* An interrupted migration whose source is still there passes every check   *)
(* the next run makes of the record, unless the user has edited a file.      *)
ResumeIsAccepted ==
    record # NoFile /\ source # NoFile /\ edits = 0 =>
        /\ record.source = source /\ Backed(source)
        /\ record.imported =>
               CASE record.stage = "prepared" -> LocalIsOurs
                 [] OTHER -> local = record.target
        /\ ~record.imported => local # NoFile

(* The program replaces a schema-1 file only when it has kept its text.       *)
ConversionIsReversible ==
    [][local' # local /\ local \in OldDocs /\ edits' = edits /\ ~meddled
           => firstOld = local]_migrationVars

(* CHANGELOG.md: an interrupted migration keeps the source file and a record  *)
(* to continue from.                                                         *)
InterruptedIsResumable ==
    record # NoFile /\ (\A p \in Launchers : pc[p] = "idle") =>
        source # NoFile \/ record.stage = "cleaned"
=============================================================================
