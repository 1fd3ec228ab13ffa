------------------------------- MODULE UndoLog -------------------------------
(***************************************************************************)
(* What a session promises about the settings it borrows, without saying    *)
(* how: before anything may change them a record of them exists, that       *)
(* record is never replaced while it is owed, and it is dropped only when   *)
(* the settings agree with it again.                                        *)
(***************************************************************************)
EXTENDS SettingsStore

CONSTANT NoLog              \* no session is owed anything

VARIABLES store, log

logVars == <<store, log>>

LogTypeOK ==
    /\ store \in Contents
    /\ log \in Snapshots \cup {NoLog}

LogInit ==
    /\ store \in Contents
    /\ log = NoLog

(* A session opens: it records the store as it is, or nothing at all when   *)
(* it asks for no protection.                                               *)
Open ==
    /\ log = NoLog
    /\ log' \in {Snapshot(store), NoSnapshot}
    /\ UNCHANGED store

(* The game, the guard or a restore changes settings under the record. *)
Change ==
    /\ log # NoLog
    /\ store' \in Contents
    /\ UNCHANGED log

(* The record is dropped once the store agrees with it. *)
Close ==
    /\ log # NoLog
    /\ Agrees(log, store)
    /\ log' = NoLog
    /\ UNCHANGED store

LogNext == Open \/ Change \/ Close

LogSpec == LogInit /\ [][LogNext]_logVars
=============================================================================
