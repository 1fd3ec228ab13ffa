------------------------------ MODULE Elevation ------------------------------
(* One launch across the elevation boundary (app/elevated_session.cpp,       *)
(* platform/win32/elevation.cpp): the parent, a normal process, asks the     *)
(* user for consent, hands the digest of the configuration to the child over *)
(* a pipe and waits for its end; the child, elevated, checks the             *)
(* configuration, runs the session (Session) and reports.  The child's       *)
(* notifications are those of Notification, which this module composes with. *)
(*                                                                           *)
(* A message is sent and received as a whole: its length and its text go     *)
(* through the same transfers, which fail alike.  Either process can end     *)
(* between any two steps.                                                    *)
EXTENDS Notification

CONSTANTS
    Configs,        \* contents of config.toml
    Launchable,     \* those that parse, have schema 2 and the action launch
    Details,        \* sizes of an error's text: "fits" the pipe's buffer,
                    \* "fills" more than it, or is "over" kMaximumMessageBytes
    Failures,       \* which of FailureKinds can happen ...
    MaxFailures,    \* ... and how many of them: a bound for TLC
    MaxEdits        \* edits of the configuration: a bound for TLC

FailureKinds == {"prepare", "runas", "parentIo", "slow", "terminate", "wait",
                 "childIo", "crash"}

NoConfig == "none"

ASSUME ElevationAssumption ==
    /\ Launchable \subseteq Configs /\ NoConfig \notin Configs
    /\ Details \subseteq {"fits", "fills", "over"} /\ Details # {}
    /\ Failures \subseteq FailureKinds
    /\ MaxFailures \in Nat /\ MaxEdits \in Nat

VARIABLES
    config,         \* what config.toml holds
    edits, failures,
    parent, child,  \* program counters
    confirmed,      \* the configuration application_main read
    digest,         \* the configuration whose hash the parent sends
    ready,          \* child_session_ready
    childError,     \* child_error is set
    outcome,        \* what launch_elevated_session returns
    pipe,           \* the parent's end: "none", "open" or "gone"
    linked,         \* the child's end: "no", "yes" or "closed"
    toParent,       \* messages in the pipe
    toChild,
    account,        \* the Windows account the child runs under
    loaded,         \* the configuration the child read
    session,        \* what became of the session
    code,           \* the child's exit code
    detail,         \* the size of the text, should the child report an error
    slipped         \* history: an edit fell between two reads of the file

parentVars == <<parent, confirmed, digest, ready, childError, outcome>>
childVars == <<child, loaded, session, code>>
pipeVars == <<pipe, linked, toParent, toChild>>
fileVars == <<config, edits, slipped>>
givenVars == <<account, detail>>
elevationVars == <<parentVars, childVars, pipeVars, fileVars, failures, givenVars>>
vars == <<elevationVars, noteVars>>

ParentStates == {"prepare", "consent", "connect", "identify", "hello", "approve",
                 "ack", "abort", "await", "result", "unwind", "done", "dead"}
ChildStates == {"none", "starting", "greet", "approval", "verify", "reload",
                "confirm", "resolve", "preflight", "notifying", "playing",
                "ending", "settling", "report", "reject", "closing", "leaving",
                "exiting", "gone"}
Outcomes == {"none", "ok", "cancelled", "failed", "unconfirmed", "waitFailed"}

(* The program counters at which the child's session is under way.           *)
InSession == {"resolve", "preflight", "notifying", "playing"}
Over == {"done", "dead"}

Kinds == {"HELLO", "CONFIG", "READY", "RESULT_0", "RESULT_1"}

(* Every variable holds a value of its type, and no message is sent twice. *)
ElevatedTypeOK ==
    /\ NoteTypeOK
    /\ config \in Configs /\ confirmed \in Configs
    /\ {digest, loaded} \subseteq Configs \cup {NoConfig}
    /\ child \in InSession => loaded # NoConfig
    /\ parent \in ParentStates /\ child \in ChildStates /\ outcome \in Outcomes
    /\ {ready, childError, slipped} \subseteq BOOLEAN
    /\ pipe \in {"none", "open", "gone"} /\ linked \in {"no", "yes", "closed"}
    /\ \A q \in {toParent, toChild} :
          \A i, j \in 1 .. Len(q) : q[i] \in Kinds /\ (q[i] = q[j] => i = j)
    /\ account \in {"same", "other"} /\ code \in 0 .. 1 /\ detail \in Details
    /\ session \in {"none", "running", "restored", "failed"}
    /\ edits \in 0 .. MaxEdits /\ failures \in 0 .. MaxFailures

Init ==
    /\ config \in Launchable /\ confirmed = config
    /\ edits = 0 /\ failures = 0 /\ slipped = FALSE
    /\ parent = "prepare" /\ child = "none" /\ outcome = "none"
    /\ digest = NoConfig /\ loaded = NoConfig
    /\ ready = FALSE /\ childError = FALSE
    /\ pipe = "none" /\ linked = "no" /\ toParent = <<>> /\ toChild = <<>>
    /\ account = "same" /\ session = "none" /\ code = 0 /\ detail \in Details
    /\ NoteInit

Failure(kind) ==
    /\ kind \in Failures /\ failures < MaxFailures
    /\ failures' = failures + 1

-----------------------------------------------------------------------------
(* The user, at the file and at the consent prompt.                          *)

Edit ==
    /\ edits < MaxEdits /\ edits' = edits + 1
    /\ config' \in Configs \ {config}
    /\ slipped' = (slipped \/ parent = "prepare" \/ child = "reload")
    /\ UNCHANGED <<parentVars, childVars, pipeVars, failures, givenVars, noteVars>>

-----------------------------------------------------------------------------
(* The parent.                                                               *)

GoesTo(pc) == parent' = pc /\ UNCHANGED <<confirmed, digest, ready, childError, outcome>>

Returns(result) ==
    /\ parent' = "unwind" /\ outcome' = result
    /\ UNCHANGED <<confirmed, digest, ready, childError>>

ParentOnly == UNCHANGED <<childVars, fileVars, givenVars, noteVars>>

(* launch_elevated_session up to the prompt: the file is read again for its  *)
(* hash, the account is looked up and the pipe created.                      *)
Prepare ==
    /\ parent = "prepare"
    /\ \/ /\ parent' = "consent" /\ digest' = config /\ pipe' = "open"
          /\ UNCHANGED <<confirmed, ready, childError, outcome, failures>>
       \/ Failure("prepare") /\ Returns("failed") /\ UNCHANGED pipe
    /\ UNCHANGED <<linked, toParent, toChild>> /\ ParentOnly

(* ShellExecuteExW("runas") comes back when the user has answered. *)
Consent ==
    /\ parent = "consent"
    /\ \/ /\ child' = "starting" /\ account' \in {"same", "other"}
          /\ GoesTo("connect") /\ UNCHANGED failures
       \/ /\ \/ Returns("cancelled") /\ UNCHANGED failures
             \/ Failure("runas") /\ Returns("failed")
          /\ UNCHANGED <<child, account>>
    /\ UNCHANGED <<loaded, session, code, detail, pipeVars, fileVars, noteVars>>

(* A transfer or a check that fails ends the handshake. *)
HandshakeFails == GoesTo("abort") /\ UNCHANGED pipeVars

(* PipeServer::connect, with its time limit. *)
Connect ==
    /\ parent = "connect"
    /\ \/ linked # "no" /\ GoesTo("identify") /\ UNCHANGED <<pipeVars, failures>>
       \/ linked = "closed" /\ HandshakeFails /\ UNCHANGED failures
       \/ linked = "no" /\ child = "gone" /\ HandshakeFails /\ UNCHANGED failures
       \/ linked = "no" /\ Failure("slow") /\ HandshakeFails
       \/ Failure("parentIo") /\ HandshakeFails
    /\ ParentOnly

(* The client's process and its account. *)
Identify ==
    /\ parent = "identify"
    /\ IF account = "same" /\ child # "gone" THEN GoesTo("hello") /\ UNCHANGED pipeVars
                                             ELSE HandshakeFails
    /\ UNCHANGED failures /\ ParentOnly

(* receive_message: the next message, or the child's end is closed and       *)
(* nothing is left, or the time is up, or the transfer fails.                *)
Received(kind) ==
    /\ toParent # <<>> /\ Head(toParent) = kind
    /\ toParent' = Tail(toParent)
    /\ UNCHANGED <<pipe, linked, toChild, failures>>

ReceiveFails ==
    \/ toParent = <<>> /\ linked = "closed" /\ UNCHANGED failures
    \/ toParent = <<>> /\ Failure("slow")
    \/ Failure("parentIo")

ReadHello ==
    /\ parent = "hello"
    /\ \/ Received("HELLO") /\ GoesTo("approve")
       \/ ReceiveFails /\ HandshakeFails
    /\ ParentOnly

SendConfig ==
    /\ parent = "approve"
    /\ \/ /\ linked = "yes" /\ toChild' = Append(toChild, "CONFIG")
          /\ GoesTo("ack") /\ UNCHANGED <<pipe, linked, toParent, failures>>
       \/ linked = "closed" /\ HandshakeFails /\ UNCHANGED failures
       \/ Failure("parentIo") /\ HandshakeFails
    /\ ParentOnly

(* The child's answer: it takes over, or it reports why it does not. *)
ReadAck ==
    /\ parent = "ack"
    /\ \/ Received("READY") /\ parent' = "await" /\ ready' = TRUE
          /\ UNCHANGED <<confirmed, digest, childError, outcome>>
       \/ Received("RESULT_1") /\ parent' = "await" /\ childError' = TRUE
          /\ UNCHANGED <<confirmed, digest, ready, outcome>>
       \/ ReceiveFails /\ HandshakeFails
    /\ ParentOnly

Unlinked == IF linked = "yes" THEN "closed" ELSE linked

(* A mutant: a child that could not be terminated is not mentioned. *)
AbortUnconfirmed ==
    /\ parent = "abort"
    /\ \/ /\ child' = "gone" /\ linked' = Unlinked /\ ProcessEnds(TRUE)
          /\ Returns("failed") /\ UNCHANGED failures
       \/ /\ Failure("terminate") /\ Returns("failed")
          /\ UNCHANGED <<child, linked, noteVars>>
    /\ UNCHANGED <<loaded, session, code, pipe, toParent, toChild, fileVars, givenVars>>

(* After a failed handshake the child is terminated, while the pipe is still *)
(* open; when that fails and the child is not seen to have exited, the error *)
(* says so.                                                                  *)
Abort ==
    /\ parent = "abort"
    /\ \/ /\ child' = "gone" /\ linked' = Unlinked /\ ProcessEnds(TRUE)
          /\ Returns("failed") /\ UNCHANGED failures
       \/ /\ Failure("terminate")
          /\ Returns(IF child = "gone" THEN "failed" ELSE "unconfirmed")
          /\ UNCHANGED <<child, linked, noteVars>>
    /\ UNCHANGED <<loaded, session, code, pipe, toParent, toChild, fileVars, givenVars>>

(* A mutant: the parent goes on to the result at once. *)
AwaitNothing ==
    /\ parent = "await"
    /\ \/ GoesTo("result") /\ UNCHANGED failures
       \/ Failure("wait") /\ Returns("waitFailed")
    /\ UNCHANGED pipeVars /\ ParentOnly

(* WaitForSingleObject(child, INFINITE) and the exit code. *)
Await ==
    /\ parent = "await"
    /\ \/ child = "gone" /\ GoesTo("result") /\ UNCHANGED failures
       \/ Failure("wait") /\ Returns("waitFailed")
    /\ UNCHANGED pipeVars /\ ParentOnly

(* The result is read once the child has exited. *)
ReadResult ==
    /\ parent = "result"
    /\ \/ (childError \/ ~ready) /\ Returns("failed") /\ UNCHANGED <<pipeVars, failures>>
       \/ /\ ~childError /\ ready
          /\ \/ Received("RESULT_0") /\ Returns(IF code = 0 THEN "ok" ELSE "failed")
             \/ Received("RESULT_1") /\ Returns("failed")
             \/ ReceiveFails /\ Returns("failed") /\ UNCHANGED pipeVars
    /\ ParentOnly

PipeGoes == pipe' = "gone" /\ toParent' = <<>> /\ toChild' = <<>> /\ UNCHANGED linked

(* A mutant: the pipe stays open until the parent's process ends. *)
UnwindKeepsPipe ==
    /\ parent = "unwind"
    /\ GoesTo("done") /\ UNCHANGED <<pipeVars, failures>> /\ ParentOnly

(* ~PipeServer: the pipe goes with what is still in it. *)
Unwind ==
    /\ parent = "unwind"
    /\ GoesTo("done") /\ PipeGoes
    /\ UNCHANGED failures /\ ParentOnly

(* The parent is killed; a prompt still open goes with it. *)
ParentDies ==
    /\ parent \notin Over /\ Failure("crash")
    /\ GoesTo("dead") /\ PipeGoes
    /\ ParentOnly

ParentStep ==
    \/ Prepare \/ Consent \/ Connect \/ Identify \/ ReadHello \/ SendConfig
    \/ ReadAck \/ Abort \/ Await \/ ReadResult \/ Unwind

-----------------------------------------------------------------------------
(* The child.  Its pipe calls have no time limit.                            *)

ChildOnly == UNCHANGED <<parentVars, fileVars, givenVars>>

ChildGoesTo(pc) == child' = pc /\ UNCHANGED <<loaded, session, code>>

(* An early return without a report: the pipe is closed, the exit code is 1. *)
GivesUp ==
    /\ child' = "closing" /\ code' = 1
    /\ UNCHANGED <<loaded, session, pipeVars, noteVars>>

(* send_message: fails when the parent's end is gone. *)
Sends(kind) ==
    /\ pipe = "open" /\ toParent' = Append(toParent, kind)
    /\ UNCHANGED <<pipe, linked, toChild, failures, noteVars>>

PipeFails ==
    \/ pipe = "gone" /\ UNCHANGED failures
    \/ Failure("childIo")

(* The arguments are checked and the pipe is opened. *)
OpenPipe ==
    /\ child = "starting"
    /\ \/ /\ pipe = "open" /\ linked' = "yes" /\ ChildGoesTo("greet")
          /\ UNCHANGED <<pipe, toParent, toChild, failures, noteVars>>
       \/ PipeFails /\ GivesUp
    /\ ChildOnly

(* The server's process and account are checked before the greeting. *)
Greet ==
    /\ child = "greet"
    /\ \/ account = "same" /\ Sends("HELLO") /\ ChildGoesTo("approval")
       \/ account = "other" /\ GivesUp /\ UNCHANGED failures
       \/ PipeFails /\ GivesUp
    /\ ChildOnly

ReadApproval ==
    /\ child = "approval"
    /\ \/ /\ toChild # <<>> /\ toChild' = Tail(toChild) /\ ChildGoesTo("verify")
          /\ UNCHANGED <<pipe, linked, toParent, failures, noteVars>>
       \/ PipeFails /\ GivesUp
    /\ ChildOnly

ChildContinues(pc) == ChildGoesTo(pc) /\ UNCHANGED <<pipeVars, noteVars>>

(* A mutant: the digest is received and not compared. *)
VerifyNothing ==
    /\ child = "verify"
    /\ \/ ChildContinues("reload") /\ UNCHANGED failures
       \/ Failure("childIo") /\ ChildContinues("reject")
    /\ ChildOnly

(* A mutant: the bytes that were hashed are not parsed. *)
VerifyOnly ==
    /\ child = "verify"
    /\ \/ ChildContinues(IF config = digest THEN "confirm" ELSE "reject")
          /\ UNCHANGED failures
       \/ Failure("childIo") /\ ChildContinues("reject")
    /\ ChildOnly

(* The file must still hash to the digest ... *)
VerifyDigest ==
    /\ child = "verify"
    /\ \/ ChildContinues(IF config = digest THEN "reload" ELSE "reject")
          /\ UNCHANGED failures
       \/ Failure("childIo") /\ ChildContinues("reject")
    /\ ChildOnly

(* ... and is read once more to be parsed. *)
ReloadConfig ==
    /\ child = "reload"
    /\ \/ /\ child' = IF config \in Launchable THEN "confirm" ELSE "reject"
          /\ loaded' = config /\ UNCHANGED failures
       \/ Failure("childIo") /\ child' = "reject" /\ UNCHANGED loaded
    /\ UNCHANGED <<session, code, pipeVars, noteVars>> /\ ChildOnly

SendReady ==
    /\ child = "confirm"
    /\ \/ Sends("READY") /\ ChildGoesTo("resolve")
       \/ PipeFails /\ GivesUp
    /\ ChildOnly

(* run_session_without_ui: resolve_launch, then the lease and the recovery   *)
(* of run_resolved_launch, then the notification of on_preflight_pass.       *)
Resolve ==
    /\ child = "resolve"
    /\ \E pc \in {"preflight", "reject"} : ChildContinues(pc)
    /\ UNCHANGED failures /\ ChildOnly

Preflight ==
    /\ child = "preflight"
    /\ \/ ChildGoesTo("notifying") /\ BeginNotify
       \/ ChildGoesTo("reject") /\ UNCHANGED noteVars
    /\ UNCHANGED <<pipeVars, failures>> /\ ChildOnly

StartSession ==
    /\ child = "notifying" /\ caller = "idle"
    /\ child' = "playing" /\ session' = "running"
    /\ UNCHANGED <<loaded, code, pipeVars, failures, noteVars>> /\ ChildOnly

(* run_after_preflight returns: the game has ended and the settings are      *)
(* restored, or something failed.                                            *)
EndSession ==
    /\ child = "playing"
    /\ \/ session' = "restored" /\ child' = "ending" /\ BeginNotify
       \/ session' = "failed" /\ child' = "reject" /\ UNCHANGED noteVars
    /\ UNCHANGED <<loaded, code, pipeVars, failures>> /\ ChildOnly

Drain ==
    /\ child = "ending" /\ caller = "idle"
    /\ ChildGoesTo("settling") /\ BeginDrain
    /\ UNCHANGED <<pipeVars, failures>> /\ ChildOnly

Drained ==
    /\ child = "settling" /\ caller = "idle"
    /\ ChildContinues("report") /\ UNCHANGED failures /\ ChildOnly

SendSuccess ==
    /\ child = "report"
    /\ \/ Sends("RESULT_0") /\ ChildGoesTo("closing")
       \/ PipeFails /\ GivesUp
    /\ ChildOnly

(* send_child_result(1): best effort.  A text that is too long is not sent,  *)
(* and one that fills the buffer waits for the parent to read it.            *)
SendRejection ==
    /\ child = "reject"
    /\ child' = "closing" /\ code' = 1
    /\ \/ /\ \/ detail = "fits"
             \/ detail = "fills" /\ parent \in {"ack", "result"}
          /\ Sends("RESULT_1")
       \/ detail = "over" /\ UNCHANGED <<pipeVars, failures, noteVars>>
       \/ PipeFails /\ UNCHANGED <<pipeVars, noteVars>>
    /\ UNCHANGED <<loaded, session>> /\ ChildOnly

(* The pipe is closed; what was written stays to be read. *)
ClosePipe ==
    /\ child = "closing"
    /\ linked' = Unlinked
    /\ ChildGoesTo("leaving")
    /\ UNCHANGED <<pipe, toParent, toChild, failures, noteVars>> /\ ChildOnly

(* The destructor of the static service, then the end of the process. *)
LeaveMain ==
    /\ child = "leaving"
    /\ ChildGoesTo("exiting") /\ BeginShutdown
    /\ UNCHANGED <<pipeVars, failures>> /\ ChildOnly

Exit ==
    /\ child = "exiting" /\ caller = "idle"
    /\ ChildGoesTo("gone") /\ ProcessEnds(FALSE)
    /\ UNCHANGED <<pipeVars, failures>> /\ ChildOnly

(* The child is killed, or crashes. *)
ChildDies ==
    /\ child \notin {"none", "gone"} /\ Failure("crash")
    /\ child' = "gone" /\ code' = 1
    /\ linked' = Unlinked /\ ProcessEnds(TRUE)
    /\ UNCHANGED <<loaded, session, pipe, toParent, toChild>> /\ ChildOnly

ChildStep ==
    \/ OpenPipe \/ Greet \/ ReadApproval \/ VerifyDigest \/ ReloadConfig
    \/ SendReady \/ Resolve \/ Preflight \/ StartSession \/ EndSession
    \/ Drain \/ Drained \/ SendSuccess \/ SendRejection \/ ClosePipe
    \/ LeaveMain \/ Exit

Notify == NoteStep /\ UNCHANGED elevationVars

Next == Edit \/ ParentStep \/ ParentDies \/ ChildStep \/ ChildDies \/ Notify

Spec == Init /\ [][Next]_vars

(* The scheduler lets both processes and the worker go on, and games end;    *)
(* the user need not answer the prompt, and nothing makes a call fail.       *)
Fairness ==
    /\ WF_vars(ParentStep /\ parent # "consent" /\ UNCHANGED failures)
    /\ WF_vars(ChildStep /\ UNCHANGED failures)
    /\ WF_vars(CallerStep /\ UNCHANGED <<elevationVars, noteFaults>>)
    /\ WF_vars(WorkerStep /\ UNCHANGED <<elevationVars, noteFaults>>)
    /\ WF_vars(Tick /\ UNCHANGED elevationVars)

FairSpec == Spec /\ Fairness

-----------------------------------------------------------------------------
(* What the parent returns is what became of the session: it reports success *)
(* only of one that was restored and whose process has ended, and when no    *)
(* call failed it reports every such session as a success, whatever the      *)
(* notifications did (elevated_session.cpp, notification.hpp).               *)
OutcomeAgrees ==
    /\ outcome = "ok" => session = "restored" /\ child = "gone"
    /\ (parent = "done" /\ session = "restored" /\ failures = 0) => outcome = "ok"

(* A launch reported as failed or cancelled, without the words that the      *)
(* child could not be confirmed to have exited, leaves no child that runs or *)
(* could still begin a session (relaunch_elevated_and_wait).                 *)
FailureLeavesNoChild ==
    outcome \in {"failed", "cancelled"} => child \in {"none", "gone"}

(* The session runs the configuration the parent had read and checked,       *)
(* however the file is edited between that and the session, but for an edit  *)
(* between two reads in one of the processes.                                *)
ConfirmedConfigRuns ==
    /\ (child \in InSession /\ ~slipped) => loaded = confirmed
    /\ child \in InSession => loaded \in Launchable

(* While the child lives, a notification it shows will be taken away; when   *)
(* it has ended of itself, none is left unless the worker was late or could  *)
(* not be told (drain, the destructor of the service).                       *)
NoIconLeftBehind ==
    /\ child # "gone" => IconHasItsEnd
    /\ (child = "gone" /\ icon) => excused

(* Neither process waits for the other for ever: once the child has been     *)
(* started the parent returns and the child exits, unless a notification     *)
(* hangs.                                                                    *)
BothEnd ==
    /\ (parent = "connect") ~> (parent \in Over \/ HeldUp)
    /\ (child = "starting") ~> (child = "gone" \/ HeldUp)
=============================================================================
