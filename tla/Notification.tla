---------------------------- MODULE Notification ----------------------------
(* The transient notification (platform/win32/notification.cpp): a service   *)
(* that is called by one thread at a time (operation_mutex_) and a worker    *)
(* thread that owns a hidden window, the icon in the notification area and   *)
(* the timer that takes the icon away again.                                 *)
(*                                                                           *)
(* The service's operations are offered to the module that composes it with  *)
(* its caller: BeginNotify, BeginDrain and BeginShutdown enter an operation, *)
(* and the call has returned when `caller` is "idle" again.  Time passes in  *)
(* ticks of a second; ShutdownWait is a quarter of a second, rounded up.     *)
(* The caller makes no call after a drain but the destructor's, as           *)
(* run_session_without_ui does, so an abandoned worker has no successor.     *)
EXTENDS Integers, Sequences

CONSTANTS
    Transient,      \* how long a notification is shown
    DrainTimeout,   \* how long drain() waits for the worker to stop
    ShutdownWait,   \* how long shutdown_immediate() does
    NoteFaults,     \* which of NoteFaultKinds can happen ...
    MaxNoteFaults,  \* ... and how many of them: a bound for TLC
    MaxLag          \* ticks the worker may be late, in all: a bound for TLC

NoteFaultKinds == {"startup", "shell", "timer", "post", "pump", "hang"}

ASSUME TimesAssumption ==
    /\ Transient \in Nat \ {0} /\ ShutdownWait \in Nat \ {0}
    /\ DrainTimeout \in Nat /\ Transient < DrainTimeout
    /\ MaxNoteFaults \in Nat /\ MaxLag \in Nat
    /\ NoteFaults \subseteq NoteFaultKinds

VARIABLES
    caller,     \* where the calling thread is in the service
    wait,       \* ticks left of the caller's wait for the worker to stop
    owned,      \* worker_state_ is set
    worker,     \* the worker thread; "hung" has stopped making progress
    running,    \* running_: window_ may be used
    window,     \* the hidden window exists
    queue,      \* messages posted to it
    icon,       \* icon_added_, and the icon is in the notification area
    timer,      \* ticks until WM_TIMER, or Off
    draining,   \* draining_
    noteFaults, \* failures so far
    lag,        \* ticks the worker has been late so far
    age,        \* history: ticks since the last notification was shown
    excused     \* history: the worker was late or a message could not be posted

noteVars == <<caller, wait, owned, worker, running, window, queue, icon,
              timer, draining, noteFaults, lag, age, excused>>

Off == -1

CallerStates == {"idle", "starting", "sending", "draining", "stopping"}
WorkerStates == {"none", "starting", "pumping", "leaving", "hung"}

NoteTypeOK ==
    /\ caller \in CallerStates /\ worker \in WorkerStates
    /\ wait \in 0 .. DrainTimeout \cup 0 .. ShutdownWait
    /\ timer \in {Off} \cup 0 .. Transient /\ age \in 0 .. Transient
    /\ queue \in UNION {[1 .. n -> {"drain", "shutdown"}] : n \in 0 .. 2}
    /\ {owned, running, window, icon, draining, excused} \subseteq BOOLEAN
    /\ noteFaults \in 0 .. MaxNoteFaults /\ lag \in 0 .. MaxLag

NoteInit ==
    /\ caller = "idle" /\ wait = 0 /\ owned = FALSE
    /\ worker = "none" /\ running = FALSE /\ window = FALSE /\ queue = <<>>
    /\ icon = FALSE /\ timer = Off /\ draining = FALSE
    /\ noteFaults = 0 /\ lag = 0 /\ age = 0 /\ excused = FALSE

NoteFault(kind) ==
    /\ kind \in NoteFaults /\ noteFaults < MaxNoteFaults
    /\ noteFaults' = noteFaults + 1

-----------------------------------------------------------------------------
(* The caller.  An operation that meets no worker returns at once.           *)

(* ensure_worker: a worker that runs is used; one that stopped is joined and *)
(* replaced by a new one.                                                    *)
BeginNotify ==
    /\ caller = "idle"
    /\ owned' = TRUE
    /\ IF owned /\ running
       THEN caller' = "sending" /\ UNCHANGED <<worker, draining>>
       ELSE caller' = "starting" /\ worker' = "starting" /\ draining' = FALSE
    /\ UNCHANGED <<wait, running, window, queue, icon, timer, noteFaults,
                   lag, age, excused>>

(* wait_ready returned. *)
WorkerReady ==
    /\ caller = "starting" /\ worker \in {"pumping", "leaving", "none"}
    /\ IF running THEN caller' = "sending" /\ UNCHANGED owned
                  ELSE caller' = "idle" /\ owned' = FALSE
    /\ UNCHANGED <<wait, worker, running, window, queue, icon, timer, draining,
                   noteFaults, lag, age, excused>>

(* SendMessageW to a window that is gone returns without a result. *)
SendFails ==
    /\ caller = "sending" /\ ~window
    /\ caller' = "idle"
    /\ UNCHANGED <<wait, owned, worker, running, window, queue, icon, timer,
                   draining, noteFaults, lag, age, excused>>

(* PostMessageW: to a window that is gone, or with a full queue, it fails.   *)
Post(message, sent) ==
    IF sent
    THEN /\ window
         /\ queue' = Append(queue, message)
         /\ UNCHANGED <<noteFaults, excused>>
    ELSE /\ IF window THEN NoteFault("post") ELSE UNCHANGED noteFaults
         /\ excused' = TRUE
         /\ UNCHANGED queue

BeginDrain ==
    /\ caller = "idle"
    /\ UNCHANGED <<worker, running, window, icon, timer, draining, lag, age>>
    /\ IF owned /\ running
       THEN \E sent \in BOOLEAN :
               /\ Post("drain", sent)
               /\ owned' = sent
               /\ caller' = IF sent THEN "draining" ELSE "idle"
               /\ wait' = IF sent THEN DrainTimeout ELSE 0
       ELSE owned' = FALSE /\ UNCHANGED <<caller, wait, queue, noteFaults, excused>>

(* wait_stopped and what follows it: the worker stopped and is joined, or    *)
(* the time is up and it is told to stop and let go (abandon_worker).        *)
DrainReturns ==
    /\ caller = "draining"
    /\ caller' = "idle" /\ owned' = FALSE /\ wait' = 0
    /\ \/ ~running /\ UNCHANGED <<queue, noteFaults, excused>>
       \/ /\ running /\ wait = 0
          /\ \E sent \in BOOLEAN : Post("shutdown", sent)
    /\ UNCHANGED <<worker, running, window, icon, timer, draining, lag, age>>

BeginShutdown ==
    /\ caller = "idle"
    /\ UNCHANGED <<worker, running, window, icon, timer, draining, lag, age>>
    /\ IF owned /\ running
       THEN /\ \E sent \in BOOLEAN : Post("shutdown", sent)
            /\ caller' = "stopping" /\ wait' = ShutdownWait /\ UNCHANGED owned
       ELSE owned' = FALSE /\ UNCHANGED <<caller, wait, queue, noteFaults, excused>>

ShutdownReturns ==
    /\ caller = "stopping" /\ (~running \/ wait = 0)
    /\ caller' = "idle" /\ owned' = FALSE /\ wait' = 0
    /\ UNCHANGED <<worker, running, window, queue, icon, timer, draining,
                   noteFaults, lag, age, excused>>

CallerStep == WorkerReady \/ SendFails \/ DrainReturns \/ ShutdownReturns

-----------------------------------------------------------------------------
(* The worker.  A sent message is served before a posted one, and WM_TIMER   *)
(* when there is neither.                                                    *)

(* signal_worker_state: the class and the window were created, or not. *)
StartUp(ok) ==
    /\ worker = "starting"
    /\ IF ok THEN UNCHANGED noteFaults ELSE NoteFault("startup")
    /\ worker' = IF ok THEN "pumping" ELSE "none"
    /\ running' = ok /\ window' = ok
    /\ UNCHANGED <<caller, wait, owned, queue, icon, timer, draining, lag, age,
                   excused>>

(* A mutant: a notification that gets no timer stays. *)
HandleNotifyKeepsIcon ==
    /\ worker = "pumping" /\ window /\ caller = "sending"
    /\ caller' = "idle"
    /\ \/ icon' = TRUE /\ timer' = Transient /\ age' = 0 /\ UNCHANGED noteFaults
       \/ NoteFault("shell") /\ UNCHANGED <<icon, timer, age>>
       \/ NoteFault("timer") /\ icon' = TRUE /\ timer' = Off /\ age' = 0
    /\ UNCHANGED <<wait, owned, worker, running, window, queue, draining, lag,
                   excused>>

(* handle_notify: the icon is added or modified and its timer starts anew; a *)
(* notification the shell refuses leaves the earlier one and its timer; one  *)
(* that gets no timer is taken away at once.                                 *)
HandleNotify ==
    /\ worker = "pumping" /\ window /\ caller = "sending"
    /\ caller' = "idle"
    /\ \/ icon' = TRUE /\ timer' = Transient /\ age' = 0 /\ UNCHANGED noteFaults
       \/ NoteFault("shell") /\ UNCHANGED <<icon, timer, age>>
       \/ NoteFault("timer") /\ icon' = FALSE /\ timer' = Off /\ age' = 0
    /\ UNCHANGED <<wait, owned, worker, running, window, queue, draining, lag,
                   excused>>

(* request_stop: the window goes at once, and what was posted to it.         *)
RequestStop == worker' = "leaving" /\ window' = FALSE /\ queue' = <<>>

RemoveIcon == icon' = FALSE /\ timer' = Off

(* A mutant: a drain does not wait for a notification that is shown. *)
HandlePostedAtOnce ==
    /\ worker = "pumping" /\ caller # "sending" /\ queue # <<>>
    /\ RequestStop
    /\ draining' = (Head(queue) = "drain")
    /\ UNCHANGED <<icon, timer, caller, wait, owned, running, noteFaults, lag,
                   age, excused>>

HandlePosted ==
    /\ worker = "pumping" /\ caller # "sending" /\ queue # <<>>
    /\ IF Head(queue) = "drain"
       THEN /\ draining' = TRUE
            /\ UNCHANGED <<icon, timer>>
            /\ IF icon THEN queue' = Tail(queue) /\ UNCHANGED <<worker, window>>
                       ELSE RequestStop
       ELSE RemoveIcon /\ RequestStop /\ UNCHANGED draining
    /\ UNCHANGED <<caller, wait, owned, running, noteFaults, lag, age, excused>>

HandleTimer ==
    /\ worker = "pumping" /\ caller # "sending" /\ queue = <<>> /\ timer = 0
    /\ RemoveIcon
    /\ IF draining THEN RequestStop ELSE UNCHANGED <<worker, window, queue>>
    /\ UNCHANGED <<caller, wait, owned, running, draining, noteFaults, lag, age,
                   excused>>

(* GetMessageW fails and the loop ends. *)
PumpFails ==
    /\ worker = "pumping" /\ NoteFault("pump")
    /\ worker' = "leaving"
    /\ UNCHANGED <<caller, wait, owned, running, window, queue, icon, timer,
                   draining, lag, age, excused>>

(* The end of run(): the icon, the window, and word to those who wait. *)
Leave ==
    /\ worker = "leaving"
    /\ RemoveIcon
    /\ worker' = "none" /\ window' = FALSE /\ running' = FALSE /\ queue' = <<>>
    /\ UNCHANGED <<caller, wait, owned, draining, noteFaults, lag, age, excused>>

(* A call into the shell or the window manager does not come back. *)
Hang ==
    /\ worker \in {"starting", "pumping"} /\ NoteFault("hang")
    /\ worker' = "hung" /\ excused' = TRUE
    /\ UNCHANGED <<caller, wait, owned, running, window, queue, icon, timer,
                   draining, lag, age>>

WorkerStep ==
    \/ \E ok \in BOOLEAN : StartUp(ok)
    \/ HandleNotify \/ HandlePosted \/ HandleTimer \/ Leave

-----------------------------------------------------------------------------
(* Time.  The worker is prompt but for MaxLag ticks.                         *)

WorkerBusy ==
    \/ worker \in {"starting", "leaving"}
    \/ worker = "pumping" /\ (caller = "sending" \/ queue # <<>> \/ timer = 0)

Tick ==
    /\ timer > 0 \/ wait > 0
    /\ wait' = IF wait > 0 THEN wait - 1 ELSE wait
    /\ timer' = IF timer > 0 THEN timer - 1 ELSE timer
    /\ age' = IF icon /\ age < Transient THEN age + 1 ELSE age
    /\ IF WorkerBusy
       THEN lag < MaxLag /\ lag' = lag + 1 /\ excused' = TRUE
       ELSE UNCHANGED <<lag, excused>>
    /\ UNCHANGED <<caller, owned, worker, running, window, queue, icon,
                   draining, noteFaults>>

NoteStep == CallerStep \/ WorkerStep \/ PumpFails \/ Hang \/ Tick

(* The process ends, of itself or by force: its threads and windows go, the  *)
(* icon may stay behind.                                                     *)
ProcessEnds(byForce) ==
    /\ caller' = "idle" /\ wait' = 0 /\ owned' = FALSE
    /\ worker' = "none" /\ running' = FALSE /\ window' = FALSE /\ queue' = <<>>
    /\ timer' = Off /\ excused' = (excused \/ byForce)
    /\ UNCHANGED <<icon, draining, noteFaults, lag, age>>

(* A caller that a hung worker holds up: notify() waits without a limit.     *)
HeldUp == worker = "hung" /\ caller \in {"starting", "sending"}

-----------------------------------------------------------------------------
(* A notification that is shown is in the hands of something that will take  *)
(* it away: a running timer, or a worker on its way out.                     *)
IconHasItsEnd == icon => timer # Off \/ worker = "leaving"

(* A notification stays for its time, also when it replaced an earlier one   *)
(* or a drain is waiting for it, unless its worker is told to stop at once   *)
(* or fails (docs/architecture.md: about six seconds).                       *)
ShownForItsTime ==
    [][icon /\ ~icon' =>
         \/ age = Transient
         \/ worker = "leaving" /\ noteFaults > 0
         \/ queue # <<>> /\ Head(queue) = "shutdown"
         \/ noteFaults' > noteFaults]_noteVars
=============================================================================
