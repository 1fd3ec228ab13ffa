----------------------------- MODULE MCMigration -----------------------------
(* Migration for TLC: two schema-1 documents, one converted to what is also   *)
(* a document of its own; the starts are the folders a user can have.         *)
EXTENDS Migration, TLC

CONSTANTS p1, p2, o1, o2, n1, n2, bad, def, j1, j2

MCLaunchers == {p1, p2}
MCDocs == {o1, o2, n1, n2, bad, def}
MCOldDocs == {o1, o2}
MCBadDocs == {bad}
MCConvert == o1 :> n1 @@ o2 :> n2
MCJournals == {j1, j2}

SymmetricLaunchers == Permutations(MCLaunchers)

(* The files of the configuration and those of recovery meet only in root and *)
(* in the order of the steps: either vary the former, or the latter.         *)
MCInit ==
    /\ MigrationInit
    /\ root => source # NoFile \/ oldJournal # NoFile \/ spare # {}
    /\ source \in {NoFile, o1, n1, bad}
    /\ \/ /\ oldJournal = NoFile /\ journal = NoFile /\ playing = {}
          /\ firstOld \in {NoFile, o2} /\ spare = {}
       \/ /\ source \in {NoFile, o1} /\ local \in {NoFile, n2}
          /\ oldJournal # j2 /\ playing \subseteq {j1}
          /\ firstOld = NoFile /\ spare \in {{}, {o2}}

MCSpec == MCInit /\ [][MigrationNext]_migrationVars
=============================================================================
