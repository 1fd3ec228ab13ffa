--------------------------- MODULE ElevationProofs ---------------------------
(* The launch across the elevation boundary: what the parent reports, and    *)
(* which configuration runs.  The notifications change nothing of it.        *)
EXTENDS Elevation, SequenceTheorems, TLAPS

-----------------------------------------------------------------------------
(* What the steps that set flags or end a process do to the rest.            *)

LEMMA ReadAckEffect ==
    ASSUME ReadAck
    PROVE  /\ parent = "ack" /\ parent' \in {"await", "abort"}
           /\ UNCHANGED <<confirmed, digest, outcome>> /\ ParentOnly
<1>1. parent = "ack" /\ ParentOnly
  BY Zenon DEF ReadAck
<1>2. \/ parent' = "await" /\ UNCHANGED <<confirmed, digest, outcome>>
      \/ GoesTo("abort")
  BY Zenon DEF ReadAck, HandshakeFails
<1> QED
  BY <1>1, <1>2, Zenon DEF GoesTo

LEMMA AbortEffect ==
    ASSUME Abort
    PROVE  /\ parent = "abort" /\ parent' = "unwind"
           /\ UNCHANGED <<confirmed, digest, ready, childError>>
           /\ UNCHANGED <<loaded, session, code, pipe, toParent, toChild, fileVars, givenVars>>
           /\ \/ child' = "gone" /\ outcome' = "failed" /\ linked' = Unlinked
              \/ /\ child' = child /\ linked' = linked /\ failures' = failures + 1
                 /\ outcome' = (IF child = "gone" THEN "failed" ELSE "unconfirmed")
  BY Zenon DEF Abort, Returns, Failure

LEMMA ReadResultEffect ==
    ASSUME ReadResult
    PROVE  /\ parent = "result" /\ parent' = "unwind"
           /\ outcome' \in {"ok", "failed"}
           /\ UNCHANGED <<confirmed, digest>> /\ ParentOnly
<1>1. parent = "result" /\ ParentOnly
  BY Zenon DEF ReadResult
<1>2. Returns("failed") \/ Returns(IF code = 0 THEN "ok" ELSE "failed")
  BY Zenon DEF ReadResult
<1> QED
  BY <1>1, <1>2 DEF Returns

(* A step of the child is one of a child that runs, and only of the child. *)
LEMMA ChildStepEffect ==
    ASSUME ChildStep \/ ChildDies
    PROVE  child \notin {"none", "gone"} /\ ChildOnly
<1>1. CASE ChildDies
  BY <1>1, Zenon DEF ChildDies
<1>2. CASE ChildStep
  <2>1. CASE OpenPipe
    BY <2>1 DEF OpenPipe
  <2>2. CASE Greet
    BY <2>2 DEF Greet
  <2>3. CASE ReadApproval
    BY <2>3 DEF ReadApproval
  <2>4. CASE VerifyDigest
    BY <2>4 DEF VerifyDigest
  <2>5. CASE ReloadConfig
    BY <2>5 DEF ReloadConfig
  <2>6. CASE SendReady
    BY <2>6 DEF SendReady
  <2>7. CASE Resolve
    BY <2>7 DEF Resolve
  <2>8. CASE Preflight
    BY <2>8 DEF Preflight
  <2>9. CASE StartSession
    BY <2>9 DEF StartSession
  <2>10. CASE EndSession
    BY <2>10 DEF EndSession
  <2>11. CASE Drain
    BY <2>11 DEF Drain
  <2>12. CASE Drained
    BY <2>12 DEF Drained
  <2>13. CASE SendSuccess
    BY <2>13 DEF SendSuccess
  <2>14. CASE SendRejection
    BY <2>14 DEF SendRejection
  <2>15. CASE ClosePipe
    BY <2>15 DEF ClosePipe
  <2>16. CASE LeaveMain
    BY <2>16 DEF LeaveMain
  <2>17. CASE Exit
    BY <2>17 DEF Exit
  <2> QED
    BY <1>2, <2>1, <2>2, <2>3, <2>4, <2>5, <2>6, <2>7, <2>8, <2>9, <2>10, <2>11, <2>12,
       <2>13, <2>14, <2>15, <2>16, <2>17 DEF ChildStep
<1> QED
  BY <1>1, <1>2

-----------------------------------------------------------------------------
(* A reported failure leaves no child.  The outcome is set last, no child    *)
(* exists before the consent, and the result is read once it has exited.     *)
Reported ==
    /\ parent \notin {"unwind", "done", "dead"} => outcome = "none"
    /\ parent \in {"prepare", "consent"} => child = "none"
    /\ parent = "result" => child = "gone"
    /\ FailureLeavesNoChild

LEMMA ReportedInit == Init => Reported
  BY DEF Init, Reported, FailureLeavesNoChild

LEMMA ReportedStep == Reported /\ [Next]_vars => Reported'
<1> SUFFICES ASSUME Reported, [Next]_vars PROVE Reported'
  OBVIOUS
<1> USE DEF Reported, FailureLeavesNoChild
<1>1. CASE Edit
  BY <1>1 DEF Edit, parentVars, childVars
<1>2. CASE ParentDies
  BY <1>2 DEF ParentDies, Over, GoesTo, ParentOnly, childVars
<1>3. CASE ParentStep
  <2> USE DEF GoesTo, Returns, HandshakeFails, ParentOnly, childVars
  <2>1. CASE Prepare
    BY <2>1 DEF Prepare
  <2>2. CASE Consent
    BY <2>2 DEF Consent
  <2>3. CASE Connect
    BY <2>3 DEF Connect
  <2>4. CASE Identify
    BY <2>4 DEF Identify
  <2>5. CASE ReadHello
    BY <2>5 DEF ReadHello
  <2>6. CASE SendConfig
    BY <2>6 DEF SendConfig
  <2>7. CASE ReadAck
    BY <2>7, ReadAckEffect
  <2>8. CASE Abort
    BY <2>8, AbortEffect
  <2>9. CASE Await
    BY <2>9 DEF Await
  <2>10. CASE ReadResult
    BY <2>10, ReadResultEffect
  <2>11. CASE Unwind
    BY <2>11 DEF Unwind
  <2> QED
    BY <1>3, <2>1, <2>2, <2>3, <2>4, <2>5, <2>6, <2>7, <2>8, <2>9, <2>10, <2>11 DEF ParentStep
<1>4. CASE ChildStep \/ ChildDies
  <2>1. child \notin {"none", "gone"} /\ parent' = parent /\ outcome' = outcome
    BY <1>4, ChildStepEffect DEF ChildOnly, parentVars
  <2> QED
    BY <2>1
<1>5. CASE Notify
  BY <1>5 DEF Notify, elevationVars, parentVars, childVars
<1>6. CASE UNCHANGED vars
  BY <1>6 DEF vars, elevationVars, parentVars, childVars
<1> QED
  BY <1>1, <1>2, <1>3, <1>4, <1>5, <1>6 DEF Next

(* A launch reported as failed or cancelled leaves no child that runs,       *)
(* whatever was set, sent or terminated in which order, for every number of  *)
(* failures (relaunch_elevated_and_wait).                                    *)
THEOREM FailureLeavesNoChildTheorem == Spec => []FailureLeavesNoChild
<1>1. Reported => FailureLeavesNoChild
  BY DEF Reported
<1> QED
  BY <1>1, ReportedInit, ReportedStep, PTL DEF Spec

-----------------------------------------------------------------------------
(* The configuration that runs is the one that was confirmed.  The digest is *)
(* the confirmed one's while no edit slipped in, and a child past the check  *)
(* holds what it hashed.                                                     *)
Confirmed ==
    /\ slipped \in BOOLEAN
    /\ parent \in {"prepare", "consent"} => child = "none"
    /\ (parent = "prepare" /\ ~slipped) => config = confirmed
    /\ (parent \notin {"prepare", "unwind"} \cup Over \/ child # "none") =>
          (~slipped => digest = confirmed)
    /\ (child = "reload" /\ ~slipped) => config = digest
    /\ child \in {"confirm"} \cup InSession =>
          loaded \in Launchable /\ (~slipped => loaded = confirmed)

LEMMA ConfirmedInit == Init => Confirmed
  BY DEF Init, Confirmed, InSession, Over

LEMMA ConfirmedStep == Confirmed /\ [Next]_vars => Confirmed'
<1> SUFFICES ASSUME Confirmed, [Next]_vars PROVE Confirmed'
  OBVIOUS
<1> USE DEF Confirmed, InSession, Over
<1>1. CASE Edit
  <2>1. /\ UNCHANGED <<parent, confirmed, digest, child, loaded>>
        /\ slipped' \in BOOLEAN
        /\ ~slipped' => ~slipped /\ parent # "prepare" /\ child # "reload"
    BY <1>1 DEF Edit, parentVars, childVars
  <2> QED
    BY <2>1
<1>2. CASE ParentDies
  BY <1>2 DEF ParentDies, GoesTo, ParentOnly, childVars, fileVars
<1>3. CASE ParentStep
  <2> USE DEF GoesTo, Returns, HandshakeFails, ParentOnly, childVars, fileVars
  <2>1. CASE Prepare
    BY <2>1 DEF Prepare
  <2>2. CASE Consent
    BY <2>2 DEF Consent
  <2>3. CASE Connect
    BY <2>3 DEF Connect
  <2>4. CASE Identify
    BY <2>4 DEF Identify
  <2>5. CASE ReadHello
    BY <2>5 DEF ReadHello
  <2>6. CASE SendConfig
    BY <2>6 DEF SendConfig
  <2>7. CASE ReadAck
    BY <2>7, ReadAckEffect
  <2>8. CASE Abort
    <3>1. /\ parent = "abort" /\ parent' = "unwind" /\ UNCHANGED <<confirmed, digest>>
          /\ UNCHANGED <<loaded, fileVars>>
          /\ child' = "gone" \/ child' = child
      BY <2>8, AbortEffect
    <3> QED
      BY <3>1
  <2>9. CASE Await
    BY <2>9 DEF Await
  <2>10. CASE ReadResult
    BY <2>10, ReadResultEffect
  <2>11. CASE Unwind
    BY <2>11 DEF Unwind
  <2> QED
    BY <1>3, <2>1, <2>2, <2>3, <2>4, <2>5, <2>6, <2>7, <2>8, <2>9, <2>10, <2>11 DEF ParentStep
<1>4. CASE ChildStep
  <2> USE DEF ChildOnly, ChildGoesTo, ChildContinues, GivesUp, parentVars, fileVars
  <2>1. CASE OpenPipe \/ Greet \/ ReadApproval
    BY <2>1 DEF OpenPipe, Greet, ReadApproval
  <2>2. CASE VerifyDigest
    BY <2>2 DEF VerifyDigest
  <2>3. CASE ReloadConfig
    BY <2>3 DEF ReloadConfig
  <2>4. CASE SendReady \/ Resolve \/ Preflight \/ StartSession
    BY <2>4 DEF SendReady, Resolve, Preflight, StartSession
  <2>5. CASE EndSession
    BY <2>5 DEF EndSession
  <2>6. CASE Drain \/ Drained
    BY <2>6 DEF Drain, Drained
  <2>7. CASE SendSuccess
    BY <2>7 DEF SendSuccess
  <2>8. CASE SendRejection
    BY <2>8, Zenon DEF SendRejection
  <2>9. CASE ClosePipe \/ LeaveMain \/ Exit
    BY <2>9 DEF ClosePipe, LeaveMain, Exit
  <2> QED
    BY <1>4, <2>1, <2>2, <2>3, <2>4, <2>5, <2>6, <2>7, <2>8, <2>9 DEF ChildStep
<1>5. CASE ChildDies
  BY <1>5 DEF ChildDies, ChildOnly, parentVars, fileVars
<1>6. CASE Notify
  BY <1>6 DEF Notify, elevationVars, parentVars, childVars, fileVars
<1>7. CASE UNCHANGED vars
  BY <1>7 DEF vars, elevationVars, parentVars, childVars, fileVars
<1> QED
  BY <1>1, <1>2, <1>3, <1>4, <1>5, <1>6, <1>7 DEF Next

(* However often the file is edited, a session runs a configuration that can *)
(* be launched, and the confirmed one unless an edit fell between two reads  *)
(* in one of the processes (hash_config_file, run_elevated_child).           *)
THEOREM ConfirmedConfigRunsTheorem == Spec => []ConfirmedConfigRuns
<1>1. Confirmed => ConfirmedConfigRuns
  BY DEF Confirmed, ConfirmedConfigRuns, InSession
<1> QED
  BY <1>1, ConfirmedInit, ConfirmedStep, PTL DEF Spec

-----------------------------------------------------------------------------
(* What the parent returns agrees with the session.  One half: a success     *)
(* that was sent is one of a session that was restored.                      *)
Ended == {"closing", "leaving", "exiting", "gone"}
AfterSession == {"ending", "settling", "report"}

SuccessIsTrue ==
    /\ toParent \in Seq(Kinds)
    /\ child \in AfterSession => session = "restored"
    /\ (\E i \in 1 .. Len(toParent) : toParent[i] = "RESULT_0") =>
          child \in Ended /\ session = "restored"
    /\ outcome = "ok" => child = "gone" /\ session = "restored"

(* The other half: while no call has failed, the two processes go through    *)
(* the protocol in step, and a session that was restored is on its way to be *)
(* reported as such.                                                         *)
Alongside ==
    /\ linked = "yes" /\ toChild = <<>>
    /\ \/ parent = "ack" /\ toParent = <<"READY">>
       \/ parent = "await" /\ ready /\ toParent = <<>>

Reporting ==
    /\ code = 0 /\ ~childError
    /\ \/ parent = "ack" /\ toParent = <<"READY", "RESULT_0">>
       \/ parent \in {"await", "result"} /\ ready /\ toParent = <<"RESULT_0">>
       \/ parent \in {"unwind", "done"} /\ outcome = "ok"

InStep ==
    /\ parent # "dead" /\ child \in ChildStates
    /\ pipe = (IF parent = "prepare" THEN "none" ELSE IF parent = "done" THEN "gone" ELSE "open")
    /\ child \notin Ended => code = 0 /\ ~childError
    /\ child = "none" =>
          /\ linked = "no" /\ toParent = <<>> /\ toChild = <<>> /\ session = "none"
          /\ parent \in {"prepare", "consent", "unwind", "done"}
    /\ child = "starting" =>
          /\ linked = "no" /\ toParent = <<>> /\ toChild = <<>> /\ session = "none"
          /\ parent = "connect"
    /\ child = "greet" =>
          /\ linked = "yes" /\ toParent = <<>> /\ toChild = <<>> /\ session = "none"
          /\ parent \in {"connect", "identify", "hello", "abort"}
          /\ parent = "hello" => account = "same"
          /\ parent = "abort" => account # "same"
    /\ child = "approval" =>
          /\ linked = "yes" /\ session = "none" /\ account = "same"
          /\ \/ parent \in {"connect", "identify", "hello"} /\ toParent = <<"HELLO">> /\ toChild = <<>>
             \/ parent = "approve" /\ toParent = <<>> /\ toChild = <<>>
             \/ parent = "ack" /\ toParent = <<>> /\ toChild = <<"CONFIG">>
    /\ child \in {"verify", "reload", "confirm"} =>
          /\ linked = "yes" /\ toParent = <<>> /\ toChild = <<>> /\ session = "none"
          /\ parent = "ack"
    /\ child \in InSession \cup AfterSession => Alongside
    /\ child \in {"resolve", "preflight", "notifying"} => session = "none"
    /\ child \in {"playing", "reject"} => session # "restored"
    /\ child = "reject" =>
          Alongside \/ (/\ linked = "yes" /\ toParent = <<>> /\ toChild = <<>>
                        /\ parent = "ack")
    /\ (child \in Ended /\ session = "restored") => Reporting

Together == /\ {ready, childError} \subseteq BOOLEAN /\ failures \in Nat
            /\ failures = 0 => InStep

(* The pipe's queues. *)
LEMMA QueueEnds ==
    ASSUME NEW T, NEW q \in Seq(T), NEW x \in T
    PROVE  /\ Append(q, x) \in Seq(T)
           /\ \A i \in 1 .. Len(Append(q, x)) : Append(q, x)[i] = x \/ \E j \in 1 .. Len(q) : Append(q, x)[i] = q[j]
           /\ q # <<>> => /\ Tail(q) \in Seq(T)
                          /\ \A i \in 1 .. Len(Tail(q)) : \E j \in 1 .. Len(q) : Tail(q)[i] = q[j]
                          /\ \E j \in 1 .. Len(q) : Head(q) = q[j]
<1>1. /\ Append(q, x) \in Seq(T) /\ Len(Append(q, x)) = Len(q) + 1
      /\ Append(q, x)[Len(q) + 1] = x
      /\ \A i \in 1 .. Len(q) : Append(q, x)[i] = q[i]
  OBVIOUS
<1>2. ASSUME NEW i \in 1 .. Len(q) + 1
      PROVE  Append(q, x)[i] = x \/ \E j \in 1 .. Len(q) : Append(q, x)[i] = q[j]
  <2>1. i = Len(q) + 1 \/ i \in 1 .. Len(q)
    OBVIOUS
  <2> QED
    BY <1>1, <2>1
<1>3. ASSUME q # <<>>
      PROVE  /\ Tail(q) \in Seq(T)
             /\ \A i \in 1 .. Len(Tail(q)) : \E j \in 1 .. Len(q) : Tail(q)[i] = q[j]
             /\ \E j \in 1 .. Len(q) : Head(q) = q[j]
  <2>1. Tail(q) \in Seq(T) /\ Len(Tail(q)) = Len(q) - 1 /\ Len(q) \in Nat \ {0}
        /\ \A i \in 1 .. Len(Tail(q)) : Tail(q)[i] = q[i + 1]
        /\ Head(q) = q[1]
    BY <1>3
  <2>2. \A i \in 1 .. Len(Tail(q)) : i + 1 \in 1 .. Len(q)
    BY <2>1
  <2> QED
    BY <2>1, <2>2
<1> QED
  BY <1>1, <1>2, <1>3

LEMMA ShortQueues ==
    ASSUME NEW x, NEW y
    PROVE  /\ Append(<<>>, x) = <<x>> /\ Append(<<x>>, y) = <<x, y>>
           /\ <<x>> # <<>> /\ <<x, y>> # <<>>
           /\ Head(<<x>>) = x /\ Tail(<<x>>) = <<>>
           /\ Head(<<x, y>>) = x /\ Tail(<<x, y>>) = <<y>>
<1>1. Append(<<>>, x) = <<x>> /\ Append(<<x>>, y) = <<x, y>>
  <2> DEFINE T == {x, y}
  <2>1. <<>> \in Seq(T) /\ <<x>> \in Seq(T) /\ <<x, y>> \in Seq(T) /\ x \in T /\ y \in T
    OBVIOUS
  <2>2. Append(<<>>, x) = <<x>>
    <3>1. Append(<<>>, x) \in Seq(T) /\ Len(Append(<<>>, x)) = 1 /\ Append(<<>>, x)[1] = x
      BY <2>1
    <3> QED
      BY <2>1, <3>1, SeqEqual
  <2>3. Append(<<x>>, y) = <<x, y>>
    <3>1. /\ Append(<<x>>, y) \in Seq(T) /\ Len(Append(<<x>>, y)) = 2
          /\ Append(<<x>>, y)[1] = x /\ Append(<<x>>, y)[2] = y
      BY <2>1
    <3>2. /\ Len(<<x, y>>) = 2 /\ <<x, y>>[1] = x /\ <<x, y>>[2] = y
      OBVIOUS
    <3>3. \A i \in 1 .. 2 : Append(<<x>>, y)[i] = <<x, y>>[i]
      BY <3>1, <3>2
    <3> QED
      BY <2>1, <3>1, <3>2, <3>3, SeqEqual, Zenon
  <2> QED
    BY <2>2, <2>3
<1>2. <<x>> # <<>> /\ <<x, y>> # <<>>
  OBVIOUS
<1>3. Head(<<x>>) = x /\ Tail(<<x>>) = <<>> /\ Head(<<x, y>>) = x /\ Tail(<<x, y>>) = <<y>>
  OBVIOUS
<1> QED
  BY <1>1, <1>2, <1>3

-----------------------------------------------------------------------------
Told == \E i \in 1 .. Len(toParent) : toParent[i] = "RESULT_0"

LEMMA TellsNoMore ==
    ASSUME toParent \in Seq(Kinds),
           \/ toParent' = toParent
           \/ toParent' = <<>>
           \/ toParent # <<>> /\ toParent' = Tail(toParent)
           \/ \E kind \in Kinds \ {"RESULT_0"} : toParent' = Append(toParent, kind)
    PROVE  toParent' \in Seq(Kinds) /\ (Told' => Told)
<1>1. CASE toParent' = toParent
  BY <1>1 DEF Told
<1>2. CASE toParent' = <<>>
  BY <1>2 DEF Told
<1>3. CASE toParent # <<>> /\ toParent' = Tail(toParent)
  <2>1. "HELLO" \in Kinds
    BY DEF Kinds
  <2> QED
    BY <1>3, <2>1, QueueEnds DEF Told
<1>4. CASE \E kind \in Kinds \ {"RESULT_0"} : toParent' = Append(toParent, kind)
  <2>1. PICK kind \in Kinds \ {"RESULT_0"} : toParent' = Append(toParent, kind)
    BY <1>4
  <2>2. toParent' \in Seq(Kinds)
    BY <2>1
  <2>3. \A i \in 1 .. Len(toParent') :
           toParent'[i] = kind \/ \E j \in 1 .. Len(toParent) : toParent'[i] = toParent[j]
    BY <2>1, QueueEnds
  <2> QED
    BY <2>1, <2>2, <2>3 DEF Told
<1> QED
  BY <1>1, <1>2, <1>3, <1>4

(* What a step of the parent can do to the child, the queue and the outcome. *)
ParentEffect ==
    /\ \/ toParent' = toParent
       \/ toParent' = <<>>
       \/ toParent # <<>> /\ toParent' = Tail(toParent)
    /\ session' = session
    /\ child' \in {child, "gone"} \/ (parent = "consent" /\ child' = "starting")
    /\ \/ outcome' = outcome
       \/ outcome' # "ok"
       \/ parent = "result" /\ toParent # <<>> /\ Head(toParent) = "RESULT_0"

LEMMA ParentStepEffect == (ParentStep \/ ParentDies) => ParentEffect
<1> SUFFICES ASSUME ParentStep \/ ParentDies PROVE ParentEffect
  OBVIOUS
<1> USE DEF GoesTo, Returns, HandshakeFails, ParentOnly, childVars, pipeVars, ParentEffect
<1>1. CASE Prepare
  BY <1>1 DEF Prepare
<1>2. CASE Consent
  BY <1>2 DEF Consent
<1>3. CASE Connect
  BY <1>3 DEF Connect
<1>4. CASE Identify
  BY <1>4 DEF Identify
<1>5. CASE ReadHello
  BY <1>5 DEF ReadHello, Received
<1>6. CASE SendConfig
  BY <1>6 DEF SendConfig
<1>7. CASE ReadAck
  <2>1. toParent' = toParent \/ (toParent # <<>> /\ toParent' = Tail(toParent))
    BY <1>7, Zenon DEF ReadAck, Received
  <2> QED
    BY <1>7, <2>1, ReadAckEffect
<1>8. CASE Abort
  BY <1>8, AbortEffect
<1>9. CASE Await
  BY <1>9 DEF Await
<1>10. CASE ReadResult
  <2>1. /\ UNCHANGED <<child, session>>
        /\ parent = "result"
    BY <1>10, ReadResultEffect
  <2>2. \/ /\ toParent # <<>> /\ Head(toParent) = "RESULT_0" /\ toParent' = Tail(toParent)
        \/ /\ toParent' = toParent \/ (toParent # <<>> /\ toParent' = Tail(toParent))
           /\ outcome' = "failed"
    BY <1>10, Zenon DEF ReadResult, Received
  <2> QED
    BY <2>1, <2>2
<1>11. CASE Unwind
  BY <1>11 DEF Unwind, PipeGoes
<1>12. CASE ParentDies
  BY <1>12 DEF ParentDies, PipeGoes
<1> QED
  BY <1>1, <1>2, <1>3, <1>4, <1>5, <1>6, <1>7, <1>8, <1>9, <1>10, <1>11, <1>12 DEF ParentStep

LEMMA SuccessInit == Init => SuccessIsTrue
  BY DEF Init, SuccessIsTrue, AfterSession

LEMMA SuccessStep == Reported /\ SuccessIsTrue /\ [Next]_vars => SuccessIsTrue'
<1> SUFFICES ASSUME Reported, SuccessIsTrue, [Next]_vars PROVE SuccessIsTrue'
  OBVIOUS
<1> USE DEF Ended, AfterSession
<1>1. /\ toParent \in Seq(Kinds)
      /\ child \in AfterSession => session = "restored"
      /\ Told => child \in Ended /\ session = "restored"
      /\ outcome = "ok" => child = "gone" /\ session = "restored"
  BY Zenon DEF SuccessIsTrue, Told
<1>2. SUFFICES /\ toParent' \in Seq(Kinds)
               /\ child' \in AfterSession => session' = "restored"
               /\ Told' => child' \in Ended /\ session' = "restored"
               /\ outcome' = "ok" => child' = "gone" /\ session' = "restored"
  BY Zenon DEF SuccessIsTrue, Told
<1>3. CASE ParentStep \/ ParentDies
  <2>1. ParentEffect
    BY <1>3, ParentStepEffect
  <2>2. toParent' \in Seq(Kinds) /\ (Told' => Told)
    BY <1>1, <2>1, TellsNoMore DEF ParentEffect
  <2>3. (toParent # <<>> /\ Head(toParent) = "RESULT_0") => Told
    <3>1. "HELLO" \in Kinds
      BY DEF Kinds
    <3>2. toParent # <<>> => \E j \in 1 .. Len(toParent) : Head(toParent) = toParent[j]
      BY <1>1, <3>1, QueueEnds
    <3> QED
      BY <3>2 DEF Told
  <2> QED
    BY <1>1, <2>1, <2>2, <2>3 DEF ParentEffect, Reported
<1>4. CASE ChildStep
  <2> USE DEF ChildOnly, ChildGoesTo, ChildContinues, GivesUp, parentVars, pipeVars
  <2>1. child \notin {"none", "gone"} /\ outcome' = outcome
    BY <1>4, ChildStepEffect
  <2> DEFINE Quiet == toParent' = toParent
                      \/ \E kind \in Kinds \ {"RESULT_0"} : toParent' = Append(toParent, kind)
  <2>2. Quiet => toParent' \in Seq(Kinds) /\ (Told' => Told)
    BY <1>1, TellsNoMore
  <2>3. SUFFICES \/ /\ Quiet
                    /\ child' \in AfterSession => session' = "restored"
                    /\ child \in Ended => child' \in Ended /\ session' = session
                 \/ /\ child \in AfterSession /\ child' \in Ended /\ session' = session
                    /\ toParent' = Append(toParent, "RESULT_0")
    <3>1. CASE /\ child \in AfterSession /\ child' \in Ended /\ session' = session
               /\ toParent' = Append(toParent, "RESULT_0")
      <4>1. toParent' \in Seq(Kinds)
        BY <1>1, <3>1 DEF Kinds
      <4> QED
        BY <1>1, <2>1, <3>1, <4>1
    <3>2. CASE /\ Quiet
               /\ child' \in AfterSession => session' = "restored"
               /\ child \in Ended => child' \in Ended /\ session' = session
      BY <1>1, <2>1, <2>2, <3>2
    <3> QED
      BY <3>1, <3>2
  <2>4. CASE OpenPipe \/ ReadApproval \/ VerifyDigest \/ ReloadConfig \/ Resolve
    BY <2>4 DEF OpenPipe, ReadApproval, VerifyDigest, ReloadConfig, Resolve
  <2>5. CASE Greet \/ SendReady
    <3>1. "HELLO" \in Kinds \ {"RESULT_0"} /\ "READY" \in Kinds \ {"RESULT_0"}
      BY DEF Kinds
    <3>2. Quiet /\ child \notin Ended /\ child' \notin AfterSession
      BY <2>5, <3>1 DEF Greet, SendReady, Sends
    <3> QED
      BY <3>2
  <2>6. CASE Preflight \/ StartSession \/ EndSession
    BY <2>6 DEF Preflight, StartSession, EndSession
  <2>7. CASE Drain \/ Drained
    BY <1>1, <2>7 DEF Drain, Drained
  <2>8. CASE SendSuccess
    <3>1. CASE Sends("RESULT_0") /\ ChildGoesTo("closing")
      BY <2>8, <3>1 DEF SendSuccess, Sends
    <3>2. CASE GivesUp
      BY <2>8, <3>2 DEF SendSuccess
    <3> QED
      BY <2>8, <3>1, <3>2, Zenon DEF SendSuccess
  <2>9. CASE SendRejection
    <3>1. child = "reject" /\ child' = "closing"
      BY <2>9 DEF SendRejection
    <3>2. toParent' = toParent \/ toParent' = Append(toParent, "RESULT_1")
      BY <2>9, Zenon DEF SendRejection, Sends
    <3>3. "RESULT_1" \in Kinds \ {"RESULT_0"}
      BY DEF Kinds
    <3>4. Quiet
      BY <3>2, <3>3, Zenon
    <3> QED
      BY <3>1, <3>4
  <2>10. CASE ClosePipe \/ LeaveMain \/ Exit
    BY <2>10 DEF ClosePipe, LeaveMain, Exit
  <2> QED
    BY <1>4, <2>4, <2>5, <2>6, <2>7, <2>8, <2>9, <2>10 DEF ChildStep
<1>5. CASE ChildDies
  BY <1>1, <1>5 DEF ChildDies, ChildOnly, parentVars, Told
<1>6. CASE Edit \/ Notify \/ UNCHANGED vars
  BY <1>1, <1>6 DEF Edit, Notify, vars, elevationVars, parentVars, childVars, pipeVars, Told
<1> QED
  BY <1>3, <1>4, <1>5, <1>6 DEF Next

-----------------------------------------------------------------------------
LEMMA TogetherInit == Init => Together
<1> SUFFICES ASSUME Init PROVE Together
  OBVIOUS
<1>1. /\ parent = "prepare" /\ child = "none" /\ ready = FALSE /\ childError = FALSE
      /\ failures = 0 /\ pipe = "none" /\ linked = "no" /\ toParent = <<>> /\ toChild = <<>>
      /\ session = "none" /\ code = 0
  BY DEF Init
<1> QED
  BY <1>1 DEF Together, InStep, Ended, AfterSession, InSession, ChildStates

(* The queues of a launch without a failure. *)
LEMMA Queues ==
    /\ Append(<<>>, "HELLO") = <<"HELLO">> /\ Append(<<>>, "CONFIG") = <<"CONFIG">>
    /\ Append(<<>>, "READY") = <<"READY">> /\ Append(<<>>, "RESULT_0") = <<"RESULT_0">>
    /\ Append(<<"READY">>, "RESULT_0") = <<"READY", "RESULT_0">>
    /\ <<"HELLO">> # <<>> /\ Head(<<"HELLO">>) = "HELLO" /\ Tail(<<"HELLO">>) = <<>>
    /\ <<"CONFIG">> # <<>> /\ Head(<<"CONFIG">>) = "CONFIG" /\ Tail(<<"CONFIG">>) = <<>>
    /\ <<"READY">> # <<>> /\ Head(<<"READY">>) = "READY" /\ Tail(<<"READY">>) = <<>>
    /\ <<"RESULT_0">> # <<>> /\ Head(<<"RESULT_0">>) = "RESULT_0" /\ Tail(<<"RESULT_0">>) = <<>>
    /\ <<"READY", "RESULT_0">> # <<>> /\ Head(<<"READY", "RESULT_0">>) = "READY"
    /\ Tail(<<"READY", "RESULT_0">>) = <<"RESULT_0">>
  BY ShortQueues, Zenon

(* A step after which no call has failed is none of a call that fails. *)
LEMMA NothingFailed ==
    ASSUME failures \in Nat, failures' = 0
    PROVE  \A kind : ~Failure(kind)
  BY DEF Failure

LEMMA InStepParent ==
    ASSUME InStep, Reported, {ready, childError} \subseteq BOOLEAN,
           \A kind : ~Failure(kind), ParentStep \/ ParentDies
    PROVE  InStep' /\ failures' = failures
<1> USE DEF InStep, ChildStates, Alongside, Reporting, InSession, AfterSession, Ended, Reported,
            GoesTo, Returns, HandshakeFails, ParentOnly, childVars, pipeVars, givenVars
<1>1. CASE Prepare
  BY <1>1 DEF Prepare
<1>2. CASE Consent
  BY <1>2 DEF Consent
<1>3. CASE Connect
  BY <1>3 DEF Connect
<1>4. CASE Identify
  BY <1>4 DEF Identify
<1>5. CASE ReadHello
  <2>1. CASE Received("HELLO") /\ GoesTo("approve")
    BY <1>5, <2>1, Queues DEF ReadHello, Received
  <2>2. CASE ReceiveFails /\ GoesTo("abort") /\ UNCHANGED pipeVars
    BY <1>5, <2>2 DEF ReadHello, ReceiveFails
  <2> QED
    BY <1>5, <2>1, <2>2, Zenon DEF ReadHello
<1>6. CASE SendConfig
  BY <1>6, Queues DEF SendConfig
<1>7. CASE ReadAck
  <2>1. CASE /\ Received("READY") /\ parent' = "await" /\ ready' = TRUE
             /\ UNCHANGED <<childError, outcome>>
    BY <1>7, <2>1, Queues DEF ReadAck, Received
  <2>2. CASE /\ Received("RESULT_1") /\ parent' = "await" /\ childError' = TRUE
             /\ UNCHANGED <<ready, outcome>>
    BY <1>7, <2>2, Queues DEF ReadAck, Received
  <2>3. CASE ReceiveFails /\ GoesTo("abort") /\ UNCHANGED pipeVars
    BY <1>7, <2>3, Queues DEF ReadAck, ReceiveFails
  <2> QED
    BY <1>7, <2>1, <2>2, <2>3, Zenon DEF ReadAck
<1>8. CASE Abort
  <2>1. /\ parent = "abort" /\ parent' = "unwind" /\ child' = "gone"
        /\ UNCHANGED <<ready, childError, session, code, pipe, toParent, toChild, failures>>
    BY <1>8, Zenon DEF Abort
  <2>2. child \in Ended \cup {"greet"} /\ session # "restored"
    BY <2>1
  <2> QED
    BY <2>1, <2>2
<1>9. CASE Await
  BY <1>9 DEF Await
<1>10. CASE ReadResult
  BY <1>10, Queues DEF ReadResult, Received, ReceiveFails
<1>11. CASE Unwind
  BY <1>11 DEF Unwind, PipeGoes
<1>12. CASE ParentDies
  BY <1>12 DEF ParentDies
<1> QED
  BY <1>1, <1>2, <1>3, <1>4, <1>5, <1>6, <1>7, <1>8, <1>9, <1>10, <1>11, <1>12 DEF ParentStep

LEMMA InStepChild ==
    ASSUME InStep, {ready, childError} \subseteq BOOLEAN,
           \A kind : ~Failure(kind), ChildStep \/ ChildDies
    PROVE  InStep' /\ failures' = failures
<1> USE DEF InStep, ChildStates, Alongside, Reporting, InSession, AfterSession, Ended,
            ChildOnly, ChildGoesTo, ChildContinues, GivesUp, PipeFails, parentVars, pipeVars, givenVars
<1>1. CASE OpenPipe
  BY <1>1 DEF OpenPipe
<1>2. CASE Greet
  BY <1>2, Queues DEF Greet, Sends
<1>3. CASE ReadApproval
  BY <1>3, Queues DEF ReadApproval
<1>4. CASE VerifyDigest
  BY <1>4 DEF VerifyDigest
<1>5. CASE ReloadConfig
  BY <1>5 DEF ReloadConfig
<1>6. CASE SendReady
  BY <1>6, Queues DEF SendReady, Sends
<1>7. CASE Resolve
  BY <1>7 DEF Resolve
<1>8. CASE Preflight
  BY <1>8 DEF Preflight
<1>9. CASE StartSession
  BY <1>9 DEF StartSession
<1>10. CASE EndSession
  BY <1>10 DEF EndSession
<1>11. CASE Drain
  BY <1>11 DEF Drain
<1>12. CASE Drained
  BY <1>12 DEF Drained
<1>13. CASE SendSuccess
  BY <1>13, Queues DEF SendSuccess, Sends
<1>14. CASE SendRejection
  BY <1>14 DEF SendRejection, Sends
<1>15. CASE ClosePipe
  BY <1>15 DEF ClosePipe
<1>16. CASE LeaveMain
  BY <1>16 DEF LeaveMain
<1>17. CASE Exit
  BY <1>17 DEF Exit
<1>18. CASE ChildDies
  BY <1>18 DEF ChildDies
<1> QED
  BY <1>1, <1>2, <1>3, <1>4, <1>5, <1>6, <1>7, <1>8, <1>9, <1>10, <1>11, <1>12, <1>13,
     <1>14, <1>15, <1>16, <1>17, <1>18 DEF ChildStep

LEMMA TogetherStep == Reported /\ Together /\ [Next]_vars => Together'
<1> SUFFICES ASSUME Reported, Together, [Next]_vars PROVE Together'
  OBVIOUS
<1>1. {ready', childError'} \subseteq BOOLEAN /\ failures' \in Nat
  <2> USE DEF Together, GoesTo, Returns, HandshakeFails, ParentOnly, Failure
  <2>1. CASE ParentStep \/ ParentDies
    <3>1. failures' = failures \/ failures' = failures + 1
      BY <2>1 DEF ParentStep, Prepare, Consent, Connect, Identify, ReadHello, SendConfig,
                  ReadAck, Abort, Await, ReadResult, Unwind, ParentDies, Received, ReceiveFails
    <3>2. (ready' = ready \/ ready' = TRUE) /\ (childError' = childError \/ childError' = TRUE)
      BY <2>1, Zenon DEF ParentStep, Prepare, Consent, Connect, Identify, ReadHello, SendConfig,
                  ReadAck, Abort, Await, ReadResult, Unwind, ParentDies
    <3>3. ready \in BOOLEAN /\ childError \in BOOLEAN
      BY DEF Together
    <3>4. ready' \in BOOLEAN /\ childError' \in BOOLEAN
      BY <3>2, <3>3, Zenon
    <3>5. failures' \in Nat
      BY <3>1
    <3> QED
      BY <3>4, <3>5, Zenon
  <2>2. CASE ChildStep \/ ChildDies
    <3>1. failures' = failures \/ failures' = failures + 1
      BY <2>2 DEF ChildStep, ChildDies, OpenPipe, Greet, ReadApproval,
                  VerifyDigest, ReloadConfig, SendReady, Resolve, Preflight, StartSession,
                  EndSession, Drain, Drained, SendSuccess, SendRejection, ClosePipe,
                  LeaveMain, Exit, Sends, PipeFails
    <3>2. UNCHANGED <<ready, childError>>
      BY <2>2, ChildStepEffect DEF ChildOnly, parentVars
    <3> QED
      BY <3>1, <3>2
  <2>3. CASE Edit \/ Notify \/ UNCHANGED vars
    BY <2>3 DEF Edit, Notify, vars, elevationVars, parentVars
  <2> QED
    BY <2>1, <2>2, <2>3 DEF Next
<1>2. ASSUME failures' = 0 PROVE InStep'
  <2>1. \A kind : ~Failure(kind)
    BY <1>2, NothingFailed DEF Together
  <2>2. CASE ParentStep \/ ParentDies
    <3>1. failures' = failures
      BY <2>1, <2>2 DEF ParentStep, Prepare, Consent, Connect, Identify, ReadHello, SendConfig,
                  ReadAck, Abort, Await, ReadResult, Unwind, ParentDies, Received, ReceiveFails
    <3> QED
      BY <1>2, <2>1, <2>2, <3>1, InStepParent DEF Together
  <2>3. CASE ChildStep \/ ChildDies
    <3>1. failures' = failures
      BY <2>1, <2>3 DEF ChildStep, ChildDies, OpenPipe, Greet, ReadApproval,
                  VerifyDigest, ReloadConfig, SendReady, Resolve, Preflight, StartSession,
                  EndSession, Drain, Drained, SendSuccess, SendRejection, ClosePipe,
                  LeaveMain, Exit, Sends, PipeFails
    <3> QED
      BY <1>2, <2>1, <2>3, <3>1, InStepChild DEF Together
  <2>4. CASE Edit \/ Notify \/ UNCHANGED vars
    <3>1. UNCHANGED <<failures, parentVars, childVars, pipeVars, account>>
      BY <2>4, Zenon DEF Edit, Notify, vars, elevationVars, givenVars
    <3> QED
      BY <1>2, <3>1 DEF Together, InStep, Alongside, Reporting, parentVars, childVars, pipeVars
  <2> QED
    BY <2>2, <2>3, <2>4 DEF Next
<1> QED
  BY <1>1, <1>2 DEF Together

(* The parent reports success only of a session that was restored and whose  *)
(* process has ended; and when no call failed it reports every such session  *)
(* as a success, however the two processes, the edits of the file and the    *)
(* notifications interleave (relaunch_elevated_and_wait, read_child_result). *)
THEOREM OutcomeAgreesTheorem == Spec => []OutcomeAgrees
<1> DEFINE Inv == Reported /\ SuccessIsTrue /\ Together
<1>1. Init => Inv
  BY ReportedInit, SuccessInit, TogetherInit
<1>2. Inv /\ [Next]_vars => Inv'
  BY ReportedStep, SuccessStep, TogetherStep
<1>3. Inv => OutcomeAgrees
  <2> SUFFICES ASSUME Inv PROVE OutcomeAgrees
    OBVIOUS
  <2>1. outcome = "ok" => session = "restored" /\ child = "gone"
    BY DEF SuccessIsTrue
  <2>2. (parent = "done" /\ session = "restored" /\ failures = 0) => outcome = "ok"
    BY DEF Together, InStep, ChildStates, Alongside, Reporting, InSession, AfterSession, Ended
  <2> QED
    BY <2>1, <2>2 DEF OutcomeAgrees
<1> HIDE DEF Inv
<1> QED
  BY <1>1, <1>2, <1>3, PTL DEF Spec

-----------------------------------------------------------------------------
(* No icon is left behind.  While the worker is prompt, a drain waits longer *)
(* than the notification it waits for is shown, and the destructor has told  *)
(* the worker to stop before it waits: neither gives up on a running worker. *)
Before == {"none", "starting", "greet", "approval", "verify", "reload", "confirm",
           "resolve", "preflight"}

NoteTypes ==
    /\ timer \in {Off} \cup 0 .. Transient /\ wait \in Nat
    /\ worker \in WorkerStates /\ caller \in CallerStates
    /\ {owned, running, window, icon, draining, excused} \subseteq BOOLEAN

WorkerShape ==
    /\ worker = "pumping" => running /\ window
    /\ worker = "leaving" => running
    /\ worker \in {"none", "starting"} => ~running
    /\ worker = "starting" => caller = "starting" /\ owned
    /\ worker = "hung" => excused
    /\ ~running => queue = <<>>

(* Where the child is while its thread is in the service.                    *)
CallerPlace ==
    /\ child \in Before =>
          worker = "none" /\ caller = "idle" /\ wait = 0 /\ timer = Off /\ ~icon
    /\ caller \in {"starting", "sending"} => child \in {"notifying", "ending"}
    /\ caller = "draining" => child = "settling"
    /\ caller = "stopping" => child = "exiting"
    /\ (child \in {"notifying", "playing"} /\ running) => owned
    /\ (child = "exiting" /\ caller = "idle") => ~owned
    /\ child = "gone" => worker = "none" /\ caller = "idle" /\ wait = 0 /\ timer = Off

Icons ==
    /\ child # "gone" => (icon => running) /\ IconHasItsEnd
    /\ (child = "gone" /\ icon) => excused

Prompt ==
    /\ running => owned
    /\ (running /\ caller \notin {"draining", "stopping"}) => queue = <<>>
    /\ (running /\ caller = "draining") =>
          \/ worker = "leaving" /\ wait > 0
          \/ worker = "pumping" /\ queue = <<"drain">> /\ wait = DrainTimeout
          \/ worker = "pumping" /\ queue = <<>> /\ draining /\ icon /\ timer < wait
    /\ (running /\ caller = "stopping") =>
          /\ wait > 0
          /\ worker = "leaving" \/ (worker = "pumping" /\ queue = <<"shutdown">>)

Tidy == /\ NoteTypes /\ WorkerShape /\ CallerPlace /\ Icons
        /\ ~excused => Prompt

LEMMA TidyInit == Init => Tidy
<1> SUFFICES ASSUME Init PROVE Tidy
  OBVIOUS
<1>1. NoteInit /\ child = "none"
  BY DEF Init
<1> QED
  BY <1>1 DEF NoteInit, Tidy, NoteTypes, WorkerShape, CallerPlace, Icons, Prompt,
              IconHasItsEnd, Before, WorkerStates, CallerStates

(* A step of the child outside the service. *)
LEMMA QuietStep ==
    ASSUME Tidy, UNCHANGED noteVars, caller = "idle",
           child # "gone", child' \notin {"gone", "exiting", "notifying"},
           child' \in Before => child \in Before, child' = "playing" => child = "notifying"
    PROVE  Tidy'
  BY DEF noteVars, Tidy, NoteTypes, WorkerShape, CallerPlace, Icons, Prompt, IconHasItsEnd

LEMMA SameChildStep ==
    ASSUME Tidy, UNCHANGED noteVars, child' = child
    PROVE  Tidy'
  BY DEF noteVars, Tidy, NoteTypes, WorkerShape, CallerPlace, Icons, Prompt, IconHasItsEnd

LEMMA EndByForce ==
    ASSUME Tidy, ProcessEnds(TRUE), child' = "gone"
    PROVE  Tidy'
<1>1. excused' = TRUE
  BY DEF ProcessEnds
<1> QED
  BY <1>1 DEF ProcessEnds, Tidy, NoteTypes, WorkerShape, CallerPlace, Icons, WorkerStates,
              CallerStates, Before

LEMMA PostShape ==
    ASSUME NEW message, NEW sent \in BOOLEAN, Post(message, sent), excused \in BOOLEAN
    PROVE  /\ sent => window /\ queue' = Append(queue, message) /\ excused' = excused
           /\ ~sent => queue' = queue /\ excused' = TRUE
           /\ excused' \in BOOLEAN
  BY DEF Post

LEMMA NotifyBegins ==
    ASSUME Tidy, BeginNotify, child \in {"preflight", "playing"},
           child' \in {"notifying", "ending"}
    PROVE  Tidy'
<1> USE DEF Tidy, NoteTypes, WorkerShape, CallerPlace, Icons, Prompt, IconHasItsEnd, Before,
            WorkerStates, CallerStates
<1>1. CASE owned /\ running
  BY <1>1 DEF BeginNotify
<1>2. CASE ~(owned /\ running)
  <2>1. ~running
    BY <1>2
  <2> QED
    BY <1>2, <2>1 DEF BeginNotify
<1> QED
  BY <1>1, <1>2

LEMMA DrainBegins ==
    ASSUME Tidy, BeginDrain, child = "ending", child' = "settling"
    PROVE  Tidy'
<1> USE DEF Tidy, NoteTypes, WorkerShape, CallerPlace, Icons, Prompt, IconHasItsEnd, Before,
            WorkerStates, CallerStates
<1>1. CASE owned /\ running
  <2>1. PICK sent \in BOOLEAN :
           /\ Post("drain", sent)
           /\ owned' = sent
           /\ caller' = IF sent THEN "draining" ELSE "idle"
           /\ wait' = IF sent THEN DrainTimeout ELSE 0
    BY <1>1 DEF BeginDrain
  <2>2. UNCHANGED <<worker, running, window, icon, timer, draining>> /\ caller = "idle"
    BY DEF BeginDrain
  <2>3. CASE sent
    <3>1. queue' = Append(queue, "drain") /\ excused' = excused /\ window
      BY <2>1, <2>3, PostShape
    <3>2. ~excused => queue' = <<"drain">>
      BY <1>1, <2>2, <3>1, ShortQueues
    <3>3. DrainTimeout \in Nat \ {0}
      BY TimesAssumption
    <3> QED
      BY <1>1, <2>1, <2>2, <2>3, <3>1, <3>2, <3>3
  <2>4. CASE ~sent
    <3>1. queue' = queue /\ excused' = TRUE
      BY <2>1, <2>4, PostShape
    <3> QED
      BY <1>1, <2>1, <2>2, <2>4, <3>1
  <2> QED
    BY <2>3, <2>4
<1>2. CASE ~(owned /\ running)
  BY <1>2 DEF BeginDrain
<1> QED
  BY <1>1, <1>2

LEMMA ShutdownBegins ==
    ASSUME Tidy, BeginShutdown, child = "leaving", child' = "exiting"
    PROVE  Tidy'
<1> USE DEF Tidy, NoteTypes, WorkerShape, CallerPlace, Icons, Prompt, IconHasItsEnd, Before,
            WorkerStates, CallerStates
<1>1. CASE owned /\ running
  <2>1. PICK sent \in BOOLEAN : Post("shutdown", sent)
    BY <1>1 DEF BeginShutdown
  <2>2. /\ UNCHANGED <<worker, running, window, icon, timer, draining, owned>>
        /\ caller = "idle" /\ caller' = "stopping" /\ wait' = ShutdownWait
    BY <1>1 DEF BeginShutdown
  <2>3. ShutdownWait \in Nat \ {0}
    BY TimesAssumption
  <2>4. CASE sent
    <3>1. queue' = Append(queue, "shutdown") /\ excused' = excused /\ window
      BY <2>1, <2>4, PostShape
    <3>2. ~excused => queue' = <<"shutdown">>
      BY <1>1, <2>2, <3>1, ShortQueues
    <3> QED
      BY <1>1, <2>2, <2>3, <3>1, <3>2
  <2>5. CASE ~sent
    <3>1. queue' = queue /\ excused' = TRUE
      BY <2>1, <2>5, PostShape
    <3> QED
      BY <1>1, <2>2, <2>3, <3>1
  <2> QED
    BY <2>4, <2>5
<1>2. CASE ~(owned /\ running)
  BY <1>2 DEF BeginShutdown
<1> QED
  BY <1>1, <1>2

(* The child exits of itself: the icon is gone, or the worker was late. *)
LEMMA ExitTidy ==
    ASSUME Tidy, ProcessEnds(FALSE), child = "exiting", caller = "idle", child' = "gone"
    PROVE  Tidy'
<1>1. icon => excused
  BY DEF Tidy, NoteTypes, CallerPlace, Icons, Prompt
<1>2. excused' = excused /\ icon' = icon
  BY DEF ProcessEnds, Tidy, NoteTypes
<1>3. /\ wait' = 0 /\ timer' = Off /\ queue' = <<>> /\ worker' = "none" /\ caller' = "idle"
      /\ owned' = FALSE /\ running' = FALSE /\ window' = FALSE /\ draining' = draining
  BY DEF ProcessEnds
<1>4. NoteTypes'
  BY <1>2, <1>3 DEF Tidy, NoteTypes, WorkerStates, CallerStates
<1>5. WorkerShape'
  BY <1>3 DEF WorkerShape
<1>6. CallerPlace'
  BY <1>3 DEF CallerPlace, Before
<1>7. Icons'
  BY <1>1, <1>2 DEF Icons
<1>8. Prompt'
  BY <1>3 DEF Prompt
<1> QED
  BY <1>4, <1>5, <1>6, <1>7, <1>8 DEF Tidy

LEMMA ReadyTidy ==
    ASSUME Tidy, WorkerReady \/ SendFails, UNCHANGED child
    PROVE  Tidy'
<1> USE DEF Tidy, NoteTypes, WorkerShape, CallerPlace, Icons, Prompt, IconHasItsEnd, Before,
            WorkerStates, CallerStates
<1>1. CASE WorkerReady /\ running
  BY <1>1 DEF WorkerReady
<1>2. CASE WorkerReady /\ ~running
  BY <1>2 DEF WorkerReady
<1>3. CASE SendFails
  BY <1>3 DEF SendFails
<1> QED
  BY <1>1, <1>2, <1>3

(* A drain that gives up was up against a late worker. *)
LEMMA DrainReturnsTidy ==
    ASSUME Tidy, DrainReturns, UNCHANGED child
    PROVE  Tidy'
<1>0. \/ ~running /\ UNCHANGED <<queue, noteFaults, excused>>
      \/ running /\ wait = 0 /\ \E sent \in BOOLEAN : Post("shutdown", sent)
  BY DEF DrainReturns
<1> USE DEF Tidy, NoteTypes, WorkerShape, CallerPlace, Icons, Prompt, IconHasItsEnd, Before,
            WorkerStates, CallerStates
<1>1. CASE ~running /\ UNCHANGED <<queue, noteFaults, excused>>
  BY <1>1 DEF DrainReturns
<1>2. CASE running /\ wait = 0 /\ \E sent \in BOOLEAN : Post("shutdown", sent)
  <2>1. excused = TRUE
    <3>1. DrainTimeout > 0 /\ (timer # Off => ~(timer < 0))
      BY TimesAssumption DEF Off
    <3>2. child # "gone" /\ caller = "draining"
      BY DEF DrainReturns
    <3>3. worker = "pumping" /\ icon => timer # Off
      BY <3>2
    <3>4. ~Prompt
      BY <1>2, <3>1, <3>2, <3>3
    <3> HIDE DEF Prompt
    <3>5. excused \in BOOLEAN /\ (~excused => Prompt)
      OBVIOUS
    <3> QED
      BY <3>4, <3>5
  <2>2. excused' = TRUE
    BY <1>2, <2>1 DEF Post
  <2> QED
    BY <1>2, <2>2 DEF DrainReturns
<1> HIDE DEF Tidy
<1> QED
  BY <1>0, <1>1, <1>2

LEMMA ShutdownReturnsTidy ==
    ASSUME Tidy, ShutdownReturns, UNCHANGED child
    PROVE  Tidy'
<1>1. /\ caller = "stopping" /\ (~running \/ wait = 0)
      /\ caller' = "idle" /\ owned' = FALSE /\ wait' = 0
      /\ UNCHANGED <<worker, running, window, queue, icon, timer, draining, excused>>
  BY DEF ShutdownReturns
<1>2. ~running \/ ~Prompt
  BY <1>1 DEF Prompt
<1>3. NoteTypes'
  BY <1>1 DEF Tidy, NoteTypes, CallerStates
<1>4. WorkerShape' /\ CallerPlace'
  BY <1>1 DEF Tidy, WorkerShape, CallerPlace, Before
<1>5. Icons'
  BY <1>1 DEF Tidy, Icons, IconHasItsEnd
<1>6. ~excused' => Prompt'
  BY <1>1, <1>2 DEF Tidy, Prompt
<1> QED
  BY <1>3, <1>4, <1>5, <1>6 DEF Tidy

LEMMA StartUpTidy ==
    ASSUME Tidy, NEW ok \in BOOLEAN, StartUp(ok), UNCHANGED child
    PROVE  Tidy'
<1> USE DEF Tidy, NoteTypes, WorkerShape, CallerPlace, Icons, Prompt, IconHasItsEnd, Before,
            WorkerStates, CallerStates
<1>1. CASE ok
  BY <1>1 DEF StartUp
<1>2. CASE ~ok
  BY <1>2 DEF StartUp
<1> QED
  BY <1>1, <1>2

LEMMA HandleNotifyTidy ==
    ASSUME Tidy, HandleNotify, UNCHANGED child
    PROVE  Tidy'
<1> USE DEF Tidy, NoteTypes, WorkerShape, CallerPlace, Icons, Prompt, IconHasItsEnd, Before,
            WorkerStates, CallerStates
<1>1. Transient \in 0 .. Transient /\ Transient # Off
  BY TimesAssumption DEF Off
<1>2. CASE icon' = TRUE /\ timer' = Transient
  BY <1>1, <1>2 DEF HandleNotify
<1>3. CASE UNCHANGED <<icon, timer>>
  BY <1>3 DEF HandleNotify
<1>4. CASE icon' = FALSE /\ timer' = Off
  BY <1>4 DEF HandleNotify
<1> QED
  BY <1>2, <1>3, <1>4 DEF HandleNotify

(* A drain meets an icon whose timer ends before the wait does. *)
LEMMA HandlePostedTidy ==
    ASSUME Tidy, HandlePosted, UNCHANGED child
    PROVE  Tidy'
<1> USE DEF Tidy, NoteTypes, WorkerShape, CallerPlace, Icons, Prompt, IconHasItsEnd, Before,
            WorkerStates, CallerStates
<1>1. /\ worker = "pumping" /\ running /\ queue # <<>> /\ child # "gone" /\ child \notin Before
      /\ UNCHANGED <<caller, wait, owned, running, excused>>
  BY DEF HandlePosted
<1>2. DrainTimeout > 0 /\ \A t \in {Off} \cup 0 .. Transient : t < DrainTimeout
  BY TimesAssumption DEF Off
<1>3. CASE Head(queue) = "drain" /\ icon
  <2>1. draining' = TRUE /\ queue' = Tail(queue) /\ UNCHANGED <<icon, timer, worker, window>>
    BY <1>3 DEF HandlePosted
  <2>2. queue = <<"drain">> => queue' = <<>>
    BY <2>1, ShortQueues
  <2>3. queue # <<"shutdown">>
    BY <1>3, ShortQueues
  <2> QED
    BY <1>1, <1>2, <1>3, <2>1, <2>2, <2>3
<1>4. CASE Head(queue) = "drain" /\ ~icon
  <2>1. /\ draining' = TRUE /\ queue' = <<>> /\ UNCHANGED <<icon, timer>>
        /\ worker' = "leaving" /\ window' = FALSE
    BY <1>4 DEF HandlePosted, RequestStop
  <2>3. queue # <<"shutdown">>
    BY <1>4, ShortQueues
  <2> QED
    BY <1>1, <1>2, <1>4, <2>1, <2>3
<1>5. CASE Head(queue) # "drain"
  <2>1. /\ UNCHANGED draining /\ queue' = <<>> /\ icon' = FALSE /\ timer' = Off
        /\ worker' = "leaving" /\ window' = FALSE
    BY <1>5 DEF HandlePosted, RequestStop, RemoveIcon
  <2>3. queue # <<"drain">>
    BY <1>5, ShortQueues
  <2> QED
    BY <1>1, <2>1, <2>3
<1> QED
  BY <1>3, <1>4, <1>5

LEMMA HandleTimerTidy ==
    ASSUME Tidy, HandleTimer, UNCHANGED child
    PROVE  Tidy'
<1> USE DEF Tidy, NoteTypes, WorkerShape, CallerPlace, Icons, Prompt, IconHasItsEnd, Before,
            WorkerStates, CallerStates
<1>1. /\ worker = "pumping" /\ running /\ queue = <<>> /\ timer = 0 /\ child # "gone"
      /\ child \notin Before
      /\ UNCHANGED <<caller, wait, owned, running, excused, draining>>
      /\ icon' = FALSE /\ timer' = Off
  BY DEF HandleTimer, RemoveIcon, Off
<1>2. CASE draining
  <2>1. worker' = "leaving" /\ window' = FALSE /\ queue' = <<>>
    BY <1>2 DEF HandleTimer, RequestStop
  <2>2. ~excused => (caller = "draining" => wait > 0) /\ caller # "stopping"
    BY <1>1
  <2> QED
    BY <1>1, <1>2, <2>1, <2>2
<1>3. CASE ~draining
  <2>1. UNCHANGED <<worker, window, queue>>
    BY <1>3 DEF HandleTimer
  <2> QED
    BY <1>1, <1>3, <2>1
<1> QED
  BY <1>2, <1>3

LEMMA LeaveTidy ==
    ASSUME Tidy, Leave, UNCHANGED child
    PROVE  Tidy'
  BY DEF Leave, RemoveIcon, Tidy, NoteTypes, WorkerShape, CallerPlace, Icons, Prompt,
         IconHasItsEnd, Before, WorkerStates, CallerStates

LEMMA PumpFailsTidy ==
    ASSUME Tidy, PumpFails, UNCHANGED child
    PROVE  Tidy'
<1> USE DEF Tidy, NoteTypes, WorkerShape, CallerPlace, Icons, Prompt, IconHasItsEnd, Before,
            WorkerStates, CallerStates
<1>1. /\ worker = "pumping" /\ running /\ worker' = "leaving" /\ child # "gone"
      /\ UNCHANGED <<caller, wait, owned, running, window, queue, icon, timer, draining,
                     excused>>
  BY DEF PumpFails
<1>2. DrainTimeout > 0 /\ (icon /\ timer < wait => wait > 0)
  BY <1>1, TimesAssumption DEF Off
<1> QED
  BY <1>1, <1>2

LEMMA HangTidy ==
    ASSUME Tidy, Hang, UNCHANGED child
    PROVE  Tidy'
<1>1. excused' = TRUE
  BY DEF Hang
<1> QED
  BY <1>1 DEF Hang, Tidy, NoteTypes, WorkerShape, CallerPlace, Icons,
         IconHasItsEnd, Before, WorkerStates, CallerStates

(* A tick that finds the worker idle brings the timer nearer to its end as   *)
(* it does the wait.                                                         *)
LEMMA TickTidy ==
    ASSUME Tidy, Tick, UNCHANGED child
    PROVE  Tidy'
<1>1. /\ UNCHANGED <<caller, owned, worker, running, window, queue, icon, draining>>
      /\ timer > 0 \/ wait > 0
      /\ wait' = IF wait > 0 THEN wait - 1 ELSE wait
      /\ timer' = IF timer > 0 THEN timer - 1 ELSE timer
  BY DEF Tick
<1>2. Transient \in Nat /\ Off = -1
  BY TimesAssumption DEF Off
<1>3. timer' \in {Off} \cup 0 .. Transient /\ wait' \in Nat
  BY <1>1, <1>2 DEF Tidy, NoteTypes
<1>4. timer' = Off <=> timer = Off
  BY <1>1, <1>2 DEF Tidy, NoteTypes
<1>5. excused' \in BOOLEAN /\ (excused' = FALSE => excused = FALSE /\ ~WorkerBusy)
  BY DEF Tick, Tidy, NoteTypes
<1>6. NoteTypes'
  BY <1>1, <1>3, <1>5 DEF Tidy, NoteTypes
<1>7. worker = "hung" => excused' = TRUE
  BY <1>5 DEF Tidy, WorkerShape
<1>8. WorkerShape'
  BY <1>1, <1>7 DEF Tidy, WorkerShape
<1>9. CallerPlace'
  <2>1. child \notin Before /\ child # "gone"
    BY <1>1, <1>2 DEF Tidy, CallerPlace
  <2> QED
    BY <1>1, <2>1 DEF Tidy, CallerPlace
<1>10. Icons'
  <2>1. child # "gone"
    BY <1>1, <1>2 DEF Tidy, CallerPlace
  <2> QED
    BY <1>1, <1>4, <2>1 DEF Tidy, Icons, IconHasItsEnd
<1>11. ASSUME ~excused' PROVE Prompt'
  <2>1. Prompt /\ ~WorkerBusy
    BY <1>5, <1>11 DEF Tidy
  <2>2. ~(running /\ caller = "stopping")
    BY <2>1 DEF Prompt, WorkerBusy
  <2>3. ASSUME running, caller = "draining"
        PROVE  worker = "pumping" /\ queue = <<>> /\ draining /\ icon /\ timer' < wait'
    <3>1. worker = "pumping" /\ queue = <<>> /\ draining /\ icon /\ timer < wait /\ timer # 0
      BY <2>1, <2>3 DEF Prompt, WorkerBusy
    <3>2. timer # Off
      BY <1>1, <1>2, <3>1 DEF Tidy, Icons, IconHasItsEnd, CallerPlace
    <3>3. timer > 0 /\ timer \in Int /\ wait \in Nat
      BY <1>2, <3>1, <3>2 DEF Tidy, NoteTypes
    <3> QED
      BY <1>1, <3>1, <3>3
  <2> QED
    BY <1>1, <2>1, <2>2, <2>3 DEF Prompt
<1> QED
  BY <1>6, <1>8, <1>9, <1>10, <1>11 DEF Tidy

LEMMA NotifyTidy == Tidy /\ Notify => Tidy'
<1> SUFFICES ASSUME Tidy, Notify PROVE Tidy'
  OBVIOUS
<1>1. NoteStep /\ UNCHANGED child
  BY DEF Notify, elevationVars, childVars
<1> QED
  BY <1>1, ReadyTidy, DrainReturnsTidy, ShutdownReturnsTidy, StartUpTidy, HandleNotifyTidy,
     HandlePostedTidy, HandleTimerTidy, LeaveTidy, PumpFailsTidy, HangTidy, TickTidy
     DEF NoteStep, CallerStep, WorkerStep

LEMMA ParentTidy == Reported /\ Tidy /\ (ParentStep \/ ParentDies \/ Edit) => Tidy'
<1> SUFFICES ASSUME Reported, Tidy, ParentStep \/ ParentDies \/ Edit PROVE Tidy'
  OBVIOUS
<1>1. CASE UNCHANGED <<child, noteVars>>
  BY <1>1, SameChildStep
<1>2. CASE Consent
  <2>1. child = "none" /\ UNCHANGED noteVars /\ child' \in {"none", "starting"}
    BY <1>2 DEF Consent, Reported
  <2>2. caller = "idle" /\ child' \in Before /\ child \in Before
    BY <2>1 DEF Tidy, CallerPlace, Before
  <2>3. child' \notin {"gone", "exiting", "notifying", "playing"} /\ child # "gone"
    BY <2>1
  <2> QED
    BY <2>1, <2>2, <2>3, QuietStep
<1>3. CASE Abort
  <2> DEFINE Killed == child' = "gone" /\ ProcessEnds(TRUE)
  <2>1. CASE Killed
    BY <2>1, EndByForce
  <2>2. CASE UNCHANGED child /\ UNCHANGED noteVars
    BY <2>2, SameChildStep
  <2>3. Killed \/ (UNCHANGED child /\ UNCHANGED noteVars)
    BY <1>3, Zenon DEF Abort
  <2> HIDE DEF Killed
  <2> QED
    BY <2>1, <2>2, <2>3
<1>4. Consent \/ Abort \/ UNCHANGED <<child, noteVars>>
  BY DEF ParentStep, ParentDies, Edit, Prepare, Connect, Identify, ReadHello, SendConfig,
         ReadAck, Await, ReadResult, Unwind, ParentOnly, childVars
<1> QED
  BY <1>1, <1>2, <1>3, <1>4

(* The steps of the child that make no call of the service.                  *)
Apart == Resolve \/ OpenPipe \/ Greet \/ ReadApproval \/ VerifyDigest \/ ReloadConfig
         \/ SendReady \/ StartSession \/ Drained \/ SendSuccess \/ SendRejection \/ ClosePipe

LEMMA ApartTidy == Tidy /\ Apart => Tidy'
<1> SUFFICES ASSUME Tidy, Apart PROVE Tidy'
  OBVIOUS
<1>1. /\ UNCHANGED noteVars
      /\ child \notin {"none", "gone", "preflight", "playing", "ending", "leaving", "exiting"}
      /\ child \in {"notifying", "settling"} => caller = "idle"
      /\ child' \notin {"gone", "exiting", "notifying"}
      /\ child' \in Before => child \in Before
      /\ child' = "playing" => child = "notifying"
  BY DEF Apart, OpenPipe, Greet, ReadApproval, VerifyDigest, ReloadConfig, SendReady, Resolve,
         StartSession, Drained, SendSuccess, SendRejection, ClosePipe, GivesUp, Sends,
         PipeFails, ChildGoesTo, ChildContinues, Before
<1>2. caller = "idle"
  BY <1>1 DEF Tidy, NoteTypes, CallerPlace, CallerStates, Before
<1> QED
  BY <1>1, <1>2, QuietStep

LEMMA ChildTidy == Tidy /\ (ChildStep \/ ChildDies) => Tidy'
<1> SUFFICES ASSUME Tidy, ChildStep \/ ChildDies PROVE Tidy'
  OBVIOUS
<1>1. CASE Apart
  BY <1>1, ApartTidy
<1>2. CASE Preflight \/ EndSession
  <2>1. CASE BeginNotify
    <3>1. \/ child \in {"preflight", "playing"} /\ child' \in {"notifying", "ending"}
          \/ UNCHANGED noteVars
      BY <1>2 DEF Preflight, EndSession, ChildGoesTo
    <3>2. caller' # caller
      BY <2>1 DEF BeginNotify
    <3>3. ~UNCHANGED noteVars
      BY <3>2 DEF noteVars
    <3> QED
      BY <2>1, <3>1, <3>3, NotifyBegins
  <2>2. CASE ~BeginNotify
    <3>1. UNCHANGED noteVars /\ child \in {"preflight", "playing"} /\ child' = "reject"
      BY <1>2, <2>2 DEF Preflight, EndSession, ChildGoesTo
    <3>2. caller = "idle"
      BY <3>1 DEF Tidy, NoteTypes, CallerPlace, CallerStates, Before
    <3>3. child' \notin Before
      BY <3>1 DEF Before
    <3> QED
      BY <3>1, <3>2, <3>3, QuietStep
  <2> QED
    BY <2>1, <2>2
<1>3. CASE Drain
  BY <1>3, DrainBegins DEF Drain, ChildGoesTo
<1>4. CASE LeaveMain
  BY <1>4, ShutdownBegins DEF LeaveMain, ChildGoesTo
<1>5. CASE Exit
  BY <1>5, ExitTidy DEF Exit, ChildGoesTo
<1>6. CASE ChildDies
  BY <1>6, EndByForce DEF ChildDies
<1> QED
  BY <1>1, <1>2, <1>3, <1>4, <1>5, <1>6 DEF ChildStep, Apart

LEMMA TidyStep == Reported /\ Tidy /\ [Next]_vars => Tidy'
<1> SUFFICES ASSUME Reported, Tidy, [Next]_vars PROVE Tidy'
  OBVIOUS
<1>1. CASE UNCHANGED vars
  BY <1>1, SameChildStep DEF vars, elevationVars, childVars
<1>2. CASE Next
  BY <1>2, ParentTidy, ChildTidy, NotifyTidy DEF Next
<1> QED
  BY <1>1, <1>2

(* While the child lives, an icon has a timer or a worker on its way out;    *)
(* when the child has ended of itself, none is left unless the worker was    *)
(* late or could not be told, for every time a notification is shown and     *)
(* every longer drain (notification.cpp: drain, shutdown_immediate, run).    *)
THEOREM NoIconLeftBehindTheorem == Spec => []NoIconLeftBehind
<1> DEFINE Inv == Reported /\ Tidy
<1>1. Init => Inv
  BY ReportedInit, TidyInit
<1>2. Inv /\ [Next]_vars => Inv'
  BY ReportedStep, TidyStep
<1>3. Inv => NoIconLeftBehind
  BY DEF Tidy, Icons, NoIconLeftBehind
<1> HIDE DEF Inv
<1> QED
  BY <1>1, <1>2, <1>3, PTL DEF Spec

-----------------------------------------------------------------------------
(* A notification stays for its time.  A running timer and the time the icon *)
(* has been shown add up to that time; a worker that leaves an icon behind   *)
(* has failed; and no more than a drain and a shutdown are ever posted.      *)
QueueShape ==
    /\ queue \in {<<>>, <<"drain">>, <<"shutdown">>, <<"drain", "shutdown">>}
    /\ (caller \in {"starting", "sending"} \/ (caller = "idle" /\ owned)) => queue = <<>>
    /\ caller = "draining" => queue \in {<<>>, <<"drain">>}

Counted ==
    /\ noteFaults \in 0 .. MaxNoteFaults /\ lag \in 0 .. MaxLag
    /\ wait \in 0 .. DrainTimeout \cup 0 .. ShutdownWait

Timed ==
    /\ age \in 0 .. Transient
    /\ timer # Off => icon /\ timer + age = Transient
    /\ (worker = "leaving" /\ icon) => noteFaults > 0

Noted == QueueShape /\ Counted /\ Timed

LEMMA NotedInit == Init => Noted
<1> SUFFICES ASSUME Init PROVE Noted
  OBVIOUS
<1>1. NoteInit
  BY DEF Init
<1> QED
  BY <1>1, TimesAssumption DEF NoteInit, Noted, QueueShape, Counted, Timed

LEMMA PostedQueues ==
    /\ Append(<<>>, "drain") = <<"drain">> /\ Append(<<>>, "shutdown") = <<"shutdown">>
    /\ Append(<<"drain">>, "shutdown") = <<"drain", "shutdown">>
    /\ <<"drain">> # <<>> /\ <<"shutdown">> # <<>> /\ <<"drain", "shutdown">> # <<>>
    /\ Head(<<"drain">>) = "drain" /\ Tail(<<"drain">>) = <<>>
    /\ Head(<<"shutdown">>) = "shutdown" /\ Tail(<<"shutdown">>) = <<>>
    /\ Head(<<"drain", "shutdown">>) = "drain" /\ Tail(<<"drain", "shutdown">>) = <<"shutdown">>
  BY ShortQueues, Zenon

(* How a step meets the notifications. *)
NoteEffect ==
    \/ UNCHANGED noteVars
    \/ BeginNotify /\ child \in {"preflight", "playing"}
    \/ BeginDrain
    \/ BeginShutdown
    \/ \E byForce \in BOOLEAN : ProcessEnds(byForce)
    \/ NoteStep

LEMMA NextNoteEffect == [Next]_vars => NoteEffect
<1> SUFFICES ASSUME [Next]_vars PROVE NoteEffect
  OBVIOUS
<1>1. CASE Edit \/ ParentStep \/ ParentDies
  <2>1. CASE Abort
    BY <2>1, Zenon DEF Abort, NoteEffect, noteVars
  <2>2. CASE ~Abort
    BY <1>1, <2>2, Zenon DEF Edit, ParentStep, ParentDies, Prepare, Consent, Connect, Identify,
       ReadHello, SendConfig, ReadAck, Await, ReadResult, Unwind, ParentOnly, NoteEffect, noteVars
  <2> QED
    BY <2>1, <2>2
<1>2. CASE ChildStep \/ ChildDies
  <2>1. CASE Preflight \/ EndSession
    BY <2>1, Zenon DEF Preflight, EndSession, NoteEffect, noteVars
  <2>2. CASE Drain \/ LeaveMain \/ Exit \/ ChildDies
    BY <2>2, Zenon DEF Drain, LeaveMain, Exit, ChildDies, NoteEffect
  <2>3. CASE OpenPipe \/ Greet \/ ReadApproval \/ VerifyDigest \/ ReloadConfig \/ SendReady
             \/ Resolve \/ StartSession \/ Drained \/ SendSuccess \/ SendRejection \/ ClosePipe
    BY <2>3, Zenon DEF OpenPipe, Greet, ReadApproval, VerifyDigest, ReloadConfig, SendReady,
       Resolve, StartSession, Drained, SendSuccess, SendRejection, ClosePipe, GivesUp, Sends,
       ChildContinues, NoteEffect, noteVars
  <2> QED
    BY <1>2, <2>1, <2>2, <2>3 DEF ChildStep
<1>3. CASE Notify
  BY <1>3 DEF Notify, NoteEffect
<1>4. CASE UNCHANGED vars
  BY <1>4 DEF vars, NoteEffect
<1> QED
  BY <1>1, <1>2, <1>3, <1>4 DEF Next

(* A step that posts at most what the queue has room for. *)
LEMMA PostNoted ==
    ASSUME Tidy, Noted, NEW message \in {"drain", "shutdown"}, NEW sent \in BOOLEAN,
           Post(message, sent), queue = <<>> \/ (queue = <<"drain">> /\ message = "shutdown"),
           UNCHANGED <<worker, icon, timer, age, lag>>,
           caller' \in {"idle", "draining", "stopping"},
           caller' = "idle" => ~owned',
           caller' = "draining" => queue = <<>> /\ message = "drain",
           wait' \in 0 .. DrainTimeout \cup 0 .. ShutdownWait
    PROVE  Noted'
<1>1. queue' = queue \/ queue' = Append(queue, message)
  BY DEF Post
<1>2. QueueShape'
  BY <1>1, PostedQueues DEF Noted, QueueShape
<1>3. noteFaults' = noteFaults \/ (noteFaults < MaxNoteFaults /\ noteFaults' = noteFaults + 1)
  BY DEF Post, NoteFault
<1>4. noteFaults' \in 0 .. MaxNoteFaults /\ (noteFaults > 0 => noteFaults' > 0)
  BY <1>3, TimesAssumption DEF Noted, Counted
<1>5. Counted' /\ Timed'
  BY <1>4 DEF Noted, Counted, Timed
<1> QED
  BY <1>2, <1>5 DEF Noted

LEMMA BeginNoted ==
    ASSUME Tidy, Noted,
           \/ BeginNotify /\ child \in {"preflight", "playing"}
           \/ BeginDrain
           \/ BeginShutdown
    PROVE  Noted'
<1>1. CASE BeginNotify /\ child \in {"preflight", "playing"}
  <2>1. owned \/ ~running
    BY <1>1 DEF Tidy, CallerPlace, WorkerShape, Before
  <2>2. queue = <<>>
    BY <1>1, <2>1 DEF BeginNotify, Noted, QueueShape, Tidy, WorkerShape
  <2>3. /\ UNCHANGED <<wait, queue, icon, timer, noteFaults, lag, age>>
        /\ worker' = worker \/ worker' = "starting"
    BY <1>1 DEF BeginNotify
  <2> QED
    BY <2>2, <2>3 DEF Noted, QueueShape, Counted, Timed
<1>2. CASE BeginDrain
  <2>1. CASE owned /\ running
    <3>1. PICK sent \in BOOLEAN :
             /\ Post("drain", sent)
             /\ owned' = sent
             /\ caller' = IF sent THEN "draining" ELSE "idle"
             /\ wait' = IF sent THEN DrainTimeout ELSE 0
      BY <1>2, <2>1 DEF BeginDrain
    <3>2. UNCHANGED <<worker, icon, timer, age, lag>> /\ queue = <<>>
      BY <1>2, <2>1 DEF BeginDrain, Noted, QueueShape
    <3>3. wait' \in 0 .. DrainTimeout
      BY <3>1, TimesAssumption
    <3> QED
      BY <3>1, <3>2, <3>3, PostNoted
  <2>2. CASE ~(owned /\ running)
    <3>1. /\ UNCHANGED <<worker, icon, timer, age, lag, caller, wait, queue, noteFaults>>
          /\ caller = "idle" /\ owned' = FALSE
      BY <1>2, <2>2 DEF BeginDrain
    <3> QED
      BY <3>1 DEF Noted, QueueShape, Counted, Timed
  <2> QED
    BY <2>1, <2>2
<1>3. CASE BeginShutdown
  <2>1. CASE owned /\ running
    <3>1. PICK sent \in BOOLEAN : Post("shutdown", sent)
      BY <1>3, <2>1 DEF BeginShutdown
    <3>2. /\ UNCHANGED <<worker, icon, timer, age, lag>> /\ queue = <<>>
          /\ caller' = "stopping" /\ wait' = ShutdownWait
      BY <1>3, <2>1 DEF BeginShutdown, Noted, QueueShape
    <3>3. wait' \in 0 .. ShutdownWait
      BY <3>2, TimesAssumption
    <3> QED
      BY <3>1, <3>2, <3>3, PostNoted
  <2>2. CASE ~(owned /\ running)
    <3>1. /\ UNCHANGED <<worker, icon, timer, age, lag, caller, wait, queue, noteFaults>>
          /\ caller = "idle" /\ owned' = FALSE
      BY <1>3, <2>2 DEF BeginShutdown
    <3> QED
      BY <3>1 DEF Noted, QueueShape, Counted, Timed
  <2> QED
    BY <2>1, <2>2
<1> QED
  BY <1>1, <1>2, <1>3

LEMMA CallerNoted == Tidy /\ Noted /\ CallerStep => Noted'
<1> SUFFICES ASSUME Tidy, Noted, CallerStep PROVE Noted'
  OBVIOUS
<1>1. CASE WorkerReady \/ SendFails
  <2>1. /\ UNCHANGED <<wait, worker, queue, icon, timer, noteFaults, lag, age>>
        /\ caller \in {"starting", "sending"} /\ caller' \in {"sending", "idle"}
    BY <1>1 DEF WorkerReady, SendFails
  <2> QED
    BY <2>1 DEF Noted, QueueShape, Counted, Timed
<1>2. CASE DrainReturns
  <2>1. /\ caller = "draining" /\ caller' = "idle" /\ owned' = FALSE /\ wait' = 0
        /\ UNCHANGED <<worker, icon, timer, age, lag>>
    BY <1>2 DEF DrainReturns
  <2>2. CASE UNCHANGED <<queue, noteFaults>>
    BY <2>1, <2>2, TimesAssumption DEF Noted, QueueShape, Counted, Timed
  <2>3. CASE \E sent \in BOOLEAN : Post("shutdown", sent)
    <3>1. queue = <<>> \/ queue = <<"drain">>
      BY <2>1 DEF Noted, QueueShape
    <3>2. wait' \in 0 .. DrainTimeout
      BY <2>1, TimesAssumption
    <3> QED
      BY <2>1, <2>3, <3>1, <3>2, PostNoted
  <2> QED
    BY <1>2, <2>2, <2>3 DEF DrainReturns
<1>3. CASE ShutdownReturns
  <2>1. /\ caller' = "idle" /\ owned' = FALSE /\ wait' = 0
        /\ UNCHANGED <<worker, queue, icon, timer, noteFaults, lag, age>>
    BY <1>3 DEF ShutdownReturns
  <2> QED
    BY <2>1, TimesAssumption DEF Noted, QueueShape, Counted, Timed
<1> QED
  BY <1>1, <1>2, <1>3 DEF CallerStep

LEMMA WorkerNoted ==
    ASSUME Tidy, Noted, WorkerStep \/ PumpFails \/ Hang
    PROVE  Noted'
<1>0. /\ noteFaults \in Nat /\ MaxNoteFaults \in Nat /\ Transient \in Nat \ {0}
      /\ timer \in {Off} \cup 0 .. Transient /\ Off = -1 /\ icon \in BOOLEAN
  BY TimesAssumption DEF Noted, Counted, Tidy, NoteTypes, Off
<1>1. CASE \E ok \in BOOLEAN : StartUp(ok)
  <2>1. /\ UNCHANGED <<caller, wait, owned, queue, icon, timer, lag, age>>
        /\ worker' # "leaving"
        /\ noteFaults' = noteFaults \/ (noteFaults < MaxNoteFaults /\ noteFaults' = noteFaults + 1)
    BY <1>1 DEF StartUp, NoteFault
  <2> QED
    BY <1>0, <2>1 DEF Noted, QueueShape, Counted, Timed
<1>2. CASE HandleNotify
  <2>1. /\ worker = "pumping" /\ worker' = "pumping" /\ caller = "sending" /\ caller' = "idle"
        /\ UNCHANGED <<wait, owned, queue, lag>>
        /\ noteFaults' = noteFaults \/ (noteFaults < MaxNoteFaults /\ noteFaults' = noteFaults + 1)
    BY <1>2 DEF HandleNotify, NoteFault
  <2>2. \/ icon' = TRUE /\ timer' = Transient /\ age' = 0
        \/ UNCHANGED <<icon, timer, age>>
        \/ icon' = FALSE /\ timer' = Off /\ age' = 0
    BY <1>2 DEF HandleNotify
  <2>3. Timed'
    BY <1>0, <2>1, <2>2 DEF Noted, Timed
  <2>4. QueueShape' /\ Counted'
    BY <1>0, <2>1 DEF Noted, QueueShape, Counted
  <2> QED
    BY <2>3, <2>4 DEF Noted
<1>3. CASE HandlePosted
  <2>1. /\ queue # <<>> /\ caller # "sending"
        /\ UNCHANGED <<caller, wait, owned, noteFaults, lag, age>>
        /\ \/ queue' = Tail(queue) /\ UNCHANGED <<icon, timer, worker>>
           \/ queue' = <<>> /\ UNCHANGED <<icon, timer>> /\ ~icon /\ worker' = "leaving"
           \/ queue' = <<>> /\ icon' = FALSE /\ timer' = Off
    BY <1>3 DEF HandlePosted, RequestStop, RemoveIcon
  <2>2. QueueShape'
    BY <2>1, PostedQueues DEF Noted, QueueShape
  <2>3. Counted' /\ Timed'
    BY <1>0, <2>1 DEF Noted, Counted, Timed
  <2> QED
    BY <2>2, <2>3 DEF Noted
<1>4. CASE HandleTimer \/ Leave
  <2>1. /\ UNCHANGED <<caller, wait, owned, noteFaults, lag, age>>
        /\ queue' = <<>> \/ queue' = queue
        /\ icon' = FALSE /\ timer' = Off
    BY <1>4 DEF HandleTimer, Leave, RequestStop, RemoveIcon
  <2> QED
    BY <1>0, <2>1 DEF Noted, QueueShape, Counted, Timed
<1>5. CASE PumpFails \/ Hang
  <2>1. /\ UNCHANGED <<caller, wait, owned, queue, icon, timer, lag, age>>
        /\ noteFaults < MaxNoteFaults /\ noteFaults' = noteFaults + 1
    BY <1>5 DEF PumpFails, Hang, NoteFault
  <2> QED
    BY <1>0, <2>1 DEF Noted, QueueShape, Counted, Timed
<1> QED
  BY <1>1, <1>2, <1>3, <1>4, <1>5 DEF WorkerStep

LEMMA TickNoted == Tidy /\ Noted /\ Tick => Noted'
<1> SUFFICES ASSUME Tidy, Noted, Tick PROVE Noted'
  OBVIOUS
<1>1. /\ UNCHANGED <<caller, owned, worker, queue, icon, noteFaults>>
      /\ wait' = IF wait > 0 THEN wait - 1 ELSE wait
      /\ timer' = IF timer > 0 THEN timer - 1 ELSE timer
      /\ age' = IF icon /\ age < Transient THEN age + 1 ELSE age
      /\ lag' = lag \/ (lag < MaxLag /\ lag' = lag + 1)
  BY DEF Tick
<1>2. /\ Transient \in Nat /\ MaxLag \in Nat /\ DrainTimeout \in Nat /\ ShutdownWait \in Nat
      /\ timer \in {Off} \cup 0 .. Transient /\ Off = -1 /\ icon \in BOOLEAN
  BY TimesAssumption DEF Tidy, NoteTypes, Off
<1>3. Timed'
  BY <1>1, <1>2 DEF Noted, Timed
<1>4. Counted'
  BY <1>1, <1>2 DEF Noted, Counted
<1>5. QueueShape'
  BY <1>1 DEF Noted, QueueShape
<1> QED
  BY <1>3, <1>4, <1>5 DEF Noted

LEMMA NotedStep == Tidy /\ Noted /\ [Next]_vars => Noted'
<1> SUFFICES ASSUME Tidy, Noted, NoteEffect PROVE Noted'
  BY NextNoteEffect
<1>1. CASE UNCHANGED noteVars
  BY <1>1 DEF noteVars, Noted, QueueShape, Counted, Timed
<1>2. CASE \E byForce \in BOOLEAN : ProcessEnds(byForce)
  <2>1. /\ caller' = "idle" /\ wait' = 0 /\ owned' = FALSE /\ worker' = "none" /\ queue' = <<>>
        /\ timer' = Off /\ UNCHANGED <<icon, noteFaults, lag, age>>
    BY <1>2 DEF ProcessEnds
  <2> QED
    BY <2>1, TimesAssumption DEF Noted, QueueShape, Counted, Timed
<1>3. CASE NoteStep
  BY <1>3, CallerNoted, WorkerNoted, TickNoted DEF NoteStep
<1> QED
  BY <1>1, <1>2, <1>3, BeginNoted DEF NoteEffect

(* An icon that goes has been there for its time, or its worker was told to  *)
(* stop or failed.                                                           *)
LEMMA IconGoes ==
    ASSUME Tidy, Noted, NoteEffect, icon, ~icon'
    PROVE  \/ age = Transient
           \/ worker = "leaving" /\ noteFaults > 0
           \/ queue # <<>> /\ Head(queue) = "shutdown"
           \/ noteFaults' > noteFaults
<1>1. \/ HandleNotify \/ HandlePosted \/ HandleTimer \/ Leave
  BY DEF NoteEffect, noteVars, BeginNotify, BeginDrain, BeginShutdown, ProcessEnds, NoteStep,
         CallerStep, WorkerReady, SendFails, DrainReturns, ShutdownReturns, WorkerStep, StartUp,
         PumpFails, Hang, Tick
<1>2. CASE HandleNotify
  <2>1. NoteFault("timer")
    BY <1>2, Zenon DEF HandleNotify
  <2>2. noteFaults \in Nat /\ noteFaults' = noteFaults + 1
    BY <2>1 DEF NoteFault, Noted, Counted
  <2> QED
    BY <2>2
<1>3. CASE HandlePosted
  <2>1. queue # <<>> /\ Head(queue) # "drain"
    BY <1>3 DEF HandlePosted
  <2>2. Head(queue) = "shutdown"
    BY <2>1, PostedQueues DEF Noted, QueueShape
  <2> QED
    BY <2>1, <2>2
<1>4. CASE HandleTimer
  BY <1>4, TimesAssumption DEF HandleTimer, Noted, Timed, Off
<1>5. CASE Leave
  BY <1>5 DEF Leave, Noted, Timed
<1> QED
  BY <1>1, <1>2, <1>3, <1>4, <1>5

(* Whatever replaces, drains or ends it, a notification stays for the time   *)
(* it is meant to be shown, unless its worker is told to stop at once or     *)
(* fails (handle_notify, handle_posted, run).                                *)
THEOREM ShownForItsTimeTheorem == Spec => ShownForItsTime
<1> DEFINE Inv == Reported /\ Tidy /\ Noted
<1>1. Init => Inv
  BY ReportedInit, TidyInit, NotedInit
<1>2. Inv /\ [Next]_vars => Inv'
  BY ReportedStep, TidyStep, NotedStep
<1>3. Inv /\ [Next]_vars =>
          [icon /\ ~icon' =>
               \/ age = Transient
               \/ worker = "leaving" /\ noteFaults > 0
               \/ queue # <<>> /\ Head(queue) = "shutdown"
               \/ noteFaults' > noteFaults]_noteVars
  BY NextNoteEffect, IconGoes
<1> HIDE DEF Inv
<1> QED
  BY <1>1, <1>2, <1>3, PTL DEF Spec, ShownForItsTime

-----------------------------------------------------------------------------
(* The types.  Of the values only the session's configuration needs an       *)
(* argument (Confirmed); of the pipe's two queues, that each message has its *)
(* own place in the protocol and is sent on the way out of it.               *)
Placed ==
    /\ config \in Configs /\ confirmed \in Configs
    /\ digest \in Configs \cup {NoConfig} /\ loaded \in Configs \cup {NoConfig}
    /\ parent \in ParentStates /\ child \in ChildStates /\ outcome \in Outcomes
    /\ pipe \in {"none", "open", "gone"} /\ linked \in {"no", "yes", "closed"}
    /\ account \in {"same", "other"} /\ code \in 0 .. 1 /\ detail \in Details
    /\ session \in {"none", "running", "restored", "failed"}
    /\ edits \in 0 .. MaxEdits /\ failures \in 0 .. MaxFailures

LEMMA PlacedInit == Init => Placed
  BY ElevationAssumption DEF Init, Placed, ParentStates, ChildStates, Outcomes

(* The failures are counted up to their bound. *)
FailsOnce ==
    \/ failures' = failures
    \/ failures < MaxFailures /\ failures' = failures + 1

LEMMA FailuresCounted ==
    ASSUME Placed, FailsOnce
    PROVE  failures' \in 0 .. MaxFailures
  BY ElevationAssumption DEF FailsOnce, Placed

LEMMA NextFailsOnce == [Next]_vars => FailsOnce
<1> SUFFICES ASSUME [Next]_vars PROVE FailsOnce
  OBVIOUS
<1> USE DEF FailsOnce, Failure
<1>1. CASE ParentStep \/ ParentDies
  BY <1>1 DEF ParentStep, Prepare, Consent, Connect, Identify, ReadHello, SendConfig,
              ReadAck, Abort, Await, ReadResult, Unwind, ParentDies, Received, ReceiveFails
<1>2. CASE ChildStep \/ ChildDies
  BY <1>2 DEF ChildStep, ChildDies, OpenPipe, Greet, ReadApproval,
              VerifyDigest, ReloadConfig, SendReady, Resolve, Preflight, StartSession,
              EndSession, Drain, Drained, SendSuccess, SendRejection, ClosePipe,
              LeaveMain, Exit, Sends, PipeFails
<1>3. CASE Edit \/ Notify \/ UNCHANGED vars
  BY <1>3 DEF Edit, Notify, vars, elevationVars
<1> QED
  BY <1>1, <1>2, <1>3 DEF Next

LEMMA ParentPlaced ==
    ASSUME Placed, ParentStep \/ ParentDies
    PROVE  /\ confirmed' = confirmed /\ digest' \in Configs \cup {NoConfig}
           /\ parent' \in ParentStates /\ child' \in ChildStates /\ outcome' \in Outcomes
           /\ pipe' \in {"none", "open", "gone"} /\ linked' \in {"no", "yes", "closed"}
           /\ account' \in {"same", "other"}
           /\ UNCHANGED <<config, edits, loaded, code, session, detail>>
<1> USE DEF Placed, ParentStates, ChildStates, Outcomes, GoesTo, Returns, HandshakeFails,
            ParentOnly, childVars, pipeVars, fileVars, givenVars
<1>1. CASE Prepare
  BY <1>1 DEF Prepare
<1>2. CASE Consent
  BY <1>2 DEF Consent
<1>3. CASE Connect
  BY <1>3 DEF Connect
<1>4. CASE Identify
  BY <1>4 DEF Identify
<1>5. CASE ReadHello
  BY <1>5 DEF ReadHello, Received
<1>6. CASE SendConfig
  BY <1>6 DEF SendConfig
<1>7. CASE ReadAck
  <2>1. UNCHANGED <<pipe, linked>>
    BY <1>7, Zenon DEF ReadAck, Received
  <2> QED
    BY <1>7, <2>1, ReadAckEffect
<1>8. CASE Abort
  BY <1>8, AbortEffect DEF Unlinked
<1>9. CASE Await
  BY <1>9 DEF Await
<1>10. CASE ReadResult
  <2>1. UNCHANGED <<pipe, linked>>
    BY <1>10, Zenon DEF ReadResult, Received
  <2> QED
    BY <1>10, <2>1, ReadResultEffect
<1>11. CASE Unwind
  BY <1>11 DEF Unwind, PipeGoes
<1>12. CASE ParentDies
  BY <1>12 DEF ParentDies, PipeGoes
<1> QED
  BY <1>1, <1>2, <1>3, <1>4, <1>5, <1>6, <1>7, <1>8, <1>9, <1>10, <1>11, <1>12 DEF ParentStep

LEMMA ChildPlaced ==
    ASSUME Placed, ChildStep \/ ChildDies
    PROVE  /\ child' \in ChildStates /\ loaded' \in Configs \cup {NoConfig}
           /\ code' \in 0 .. 1 /\ session' \in {"none", "running", "restored", "failed"}
           /\ pipe' = pipe /\ linked' \in {"no", "yes", "closed"}
<1> USE DEF Placed, ChildStates, ChildGoesTo, ChildContinues, GivesUp, pipeVars, Unlinked
<1>1. CASE OpenPipe
  BY <1>1 DEF OpenPipe
<1>2. CASE Greet
  BY <1>2 DEF Greet, Sends
<1>3. CASE ReadApproval
  BY <1>3 DEF ReadApproval
<1>4. CASE VerifyDigest \/ ReloadConfig
  BY <1>4 DEF VerifyDigest, ReloadConfig
<1>5. CASE SendReady
  BY <1>5 DEF SendReady, Sends
<1>6. CASE Resolve \/ Preflight \/ StartSession
  BY <1>6 DEF Resolve, Preflight, StartSession
<1>7. CASE EndSession
  BY <1>7 DEF EndSession
<1>8. CASE Drain \/ Drained
  BY <1>8 DEF Drain, Drained
<1>9. CASE SendSuccess
  BY <1>9 DEF SendSuccess, Sends
<1>10. CASE SendRejection
  <2>1. /\ child' = "closing" /\ code' = 1 /\ UNCHANGED <<loaded, session, pipe, linked>>
    BY <1>10, Zenon DEF SendRejection, Sends
  <2> QED
    BY <2>1
<1>11. CASE ClosePipe \/ LeaveMain \/ Exit
  BY <1>11 DEF ClosePipe, LeaveMain, Exit
<1>12. CASE ChildDies
  BY <1>12 DEF ChildDies
<1> QED
  BY <1>1, <1>2, <1>3, <1>4, <1>5, <1>6, <1>7, <1>8, <1>9, <1>10, <1>11, <1>12 DEF ChildStep

LEMMA PlacedStep == Placed /\ [Next]_vars => Placed'
<1> SUFFICES ASSUME Placed, [Next]_vars PROVE Placed'
  OBVIOUS
<1>1. failures' \in 0 .. MaxFailures
  BY NextFailsOnce, FailuresCounted
<1>2. CASE ParentStep \/ ParentDies
  BY <1>1, <1>2, ParentPlaced DEF Placed
<1>3. CASE ChildStep \/ ChildDies
  <2>1. UNCHANGED <<config, edits, confirmed, digest, parent, outcome, account, detail>>
    BY <1>3, ChildStepEffect DEF ChildOnly, parentVars, fileVars, givenVars
  <2> QED
    BY <1>1, <1>3, <2>1, ChildPlaced DEF Placed
<1>4. CASE Edit
  <2>1. config' \in Configs /\ edits' \in 0 .. MaxEdits
    BY <1>4, ElevationAssumption DEF Edit, Placed
  <2>2. UNCHANGED <<parentVars, childVars, pipeVars, givenVars>>
    BY <1>4 DEF Edit
  <2> QED
    BY <1>1, <2>1, <2>2 DEF Placed, parentVars, childVars, pipeVars, givenVars
<1>5. CASE Notify \/ UNCHANGED vars
  BY <1>5 DEF Notify, vars, elevationVars, parentVars, childVars, pipeVars, fileVars, givenVars,
              Placed
<1> QED
  BY <1>2, <1>3, <1>4, <1>5 DEF Next

(* A queue that holds no message twice.                                      *)
Holds(q, kind) == \E i \in 1 .. Len(q) : q[i] = kind
NoneTwice(q) == \A i, j \in 1 .. Len(q) : q[i] = q[j] => i = j

LEMMA QueueHolds ==
    ASSUME NEW T, NEW q \in Seq(T), NoneTwice(q)
    PROVE  /\ q # <<>> => NoneTwice(Tail(q)) /\ \A y : Holds(Tail(q), y) => Holds(q, y)
           /\ \A x \in T : ~Holds(q, x) =>
                 NoneTwice(Append(q, x)) /\ \A y : Holds(Append(q, x), y) => y = x \/ Holds(q, y)
<1>1. ASSUME q # <<>>
      PROVE  NoneTwice(Tail(q)) /\ \A y : Holds(Tail(q), y) => Holds(q, y)
  <2>1. /\ Len(Tail(q)) = Len(q) - 1 /\ Len(q) \in Nat \ {0}
        /\ \A i \in 1 .. Len(Tail(q)) : Tail(q)[i] = q[i + 1]
    BY <1>1
  <2>2. \A i \in 1 .. Len(Tail(q)) : i + 1 \in 1 .. Len(q)
    BY <2>1
  <2>3. NoneTwice(Tail(q))
    BY <2>1, <2>2 DEF NoneTwice
  <2>4. \A y : Holds(Tail(q), y) => Holds(q, y)
    BY <2>1, <2>2 DEF Holds
  <2> QED
    BY <2>3, <2>4
<1>2. ASSUME NEW x \in T, ~Holds(q, x)
      PROVE  NoneTwice(Append(q, x)) /\ \A y : Holds(Append(q, x), y) => y = x \/ Holds(q, y)
  <2>1. /\ Len(Append(q, x)) = Len(q) + 1 /\ Len(q) \in Nat
        /\ Append(q, x)[Len(q) + 1] = x
        /\ \A i \in 1 .. Len(q) : Append(q, x)[i] = q[i]
    OBVIOUS
  <2>2. \A i \in 1 .. Len(Append(q, x)) : i \in 1 .. Len(q) \/ i = Len(q) + 1
    BY <2>1
  <2>3. NoneTwice(Append(q, x))
    BY <1>2, <2>1, <2>2 DEF NoneTwice, Holds
  <2>4. \A y : Holds(Append(q, x), y) => y = x \/ Holds(q, y)
    BY <2>1, <2>2 DEF Holds
  <2> QED
    BY <2>3, <2>4
<1> QED
  BY <1>1, <1>2

Unapproved == {"prepare", "consent", "connect", "identify", "hello", "approve"}

Delivered(q) == q \in Seq(Kinds) /\ NoneTwice(q)

SentOnce ==
    /\ Delivered(toParent) /\ Delivered(toChild)
    /\ child \in {"none", "starting", "greet"} => ~Holds(toParent, "HELLO")
    /\ child \in Before \ {"resolve", "preflight"} => ~Holds(toParent, "READY")
    /\ child \notin Ended => ~Holds(toParent, "RESULT_0") /\ ~Holds(toParent, "RESULT_1")
    /\ parent \in Unapproved => toChild = <<>>

LEMMA EmptyDelivered == Delivered(<<>>) /\ \A kind : ~Holds(<<>>, kind)
  BY DEF Delivered, NoneTwice, Holds

LEMMA TailDelivered ==
    ASSUME NEW q, Delivered(q), q # <<>>
    PROVE  Delivered(Tail(q)) /\ \A y : Holds(Tail(q), y) => Holds(q, y)
<1>1. q \in Seq(Kinds) /\ NoneTwice(q)
  BY DEF Delivered
<1>2. Tail(q) \in Seq(Kinds)
  BY <1>1
<1> QED
  BY <1>1, <1>2, QueueHolds DEF Delivered

LEMMA AppendDelivered ==
    ASSUME NEW q, Delivered(q), NEW kind \in Kinds, ~Holds(q, kind)
    PROVE  /\ Delivered(Append(q, kind))
           /\ \A y : Holds(Append(q, kind), y) => y = kind \/ Holds(q, y)
<1>1. q \in Seq(Kinds) /\ NoneTwice(q)
  BY DEF Delivered
<1>2. Append(q, kind) \in Seq(Kinds)
  BY <1>1
<1> QED
  BY <1>1, <1>2, QueueHolds DEF Delivered

LEMMA SentInit == Init => SentOnce
  BY EmptyDelivered DEF Init, SentOnce

LEMMA ParentSends == SentOnce /\ Reported /\ (ParentStep \/ ParentDies) => SentOnce'
<1> SUFFICES ASSUME SentOnce, Reported, ParentStep \/ ParentDies PROVE SentOnce'
  OBVIOUS
<1>1. ParentEffect
  BY ParentStepEffect
<1>2. Delivered(toParent') /\ \A kind : Holds(toParent', kind) => Holds(toParent, kind)
  BY <1>1, EmptyDelivered, TailDelivered DEF ParentEffect, SentOnce
<1>3. /\ child' = child \/ child' = "gone" \/ (child = "none" /\ child' = "starting")
  BY <1>1 DEF ParentEffect, Reported
<1>4. \/ toChild' = toChild /\ (parent' \in Unapproved => parent \in Unapproved)
      \/ toChild' = <<>>
      \/ parent = "approve" /\ parent' = "ack" /\ toChild' = Append(toChild, "CONFIG")
  <2> USE DEF GoesTo, Returns, HandshakeFails, ParentOnly, pipeVars, Unapproved
  <2>1. CASE Prepare
    BY <2>1 DEF Prepare
  <2>2. CASE Consent
    BY <2>2 DEF Consent
  <2>3. CASE Connect
    BY <2>3 DEF Connect
  <2>4. CASE Identify
    BY <2>4 DEF Identify
  <2>5. CASE ReadHello
    BY <2>5 DEF ReadHello, Received
  <2>6. CASE SendConfig
    BY <2>6 DEF SendConfig
  <2>7. CASE ReadAck
    <3>1. toChild' = toChild
      BY <2>7, Zenon DEF ReadAck, Received
    <3> QED
      BY <2>7, <3>1, ReadAckEffect
  <2>8. CASE Abort
    BY <2>8, AbortEffect
  <2>9. CASE Await
    BY <2>9 DEF Await
  <2>10. CASE ReadResult
    <3>1. toChild' = toChild
      BY <2>10, Zenon DEF ReadResult, Received
    <3> QED
      BY <2>10, <3>1, ReadResultEffect
  <2>11. CASE Unwind
    BY <2>11 DEF Unwind, PipeGoes
  <2>12. CASE ParentDies
    BY <2>12 DEF ParentDies, PipeGoes
  <2> QED
    BY <2>1, <2>2, <2>3, <2>4, <2>5, <2>6, <2>7, <2>8, <2>9, <2>10, <2>11, <2>12 DEF ParentStep
<1>5. Delivered(toChild') /\ (parent' \in Unapproved => toChild' = <<>>)
  <2>1. CASE parent = "approve" /\ parent' = "ack" /\ toChild' = Append(toChild, "CONFIG")
    <3>1. toChild = <<>> /\ "CONFIG" \in Kinds
      BY <2>1 DEF SentOnce, Unapproved, Kinds
    <3> QED
      BY <2>1, <3>1, EmptyDelivered, AppendDelivered DEF Unapproved
  <2> QED
    BY <1>4, <2>1, EmptyDelivered DEF SentOnce
<1> QED
  BY <1>2, <1>3, <1>5 DEF SentOnce, Before, Ended

(* What a step of the child does to the queues, and where it comes from.     *)
LEMMA ChildSends ==
    ASSUME SentOnce, ChildStep \/ ChildDies
    PROVE  SentOnce'
<1> DEFINE Sent(kind) == toParent' = Append(toParent, kind)
           Moves == /\ child' \in {"none", "starting", "greet"} =>
                          child \in {"none", "starting", "greet"}
                    /\ child' \in Before \ {"resolve", "preflight"} =>
                          child \in Before \ {"resolve", "preflight"}
                    /\ child' \notin Ended => child \notin Ended
<1>1. parent' = parent
  BY ChildStepEffect DEF ChildOnly, parentVars
<1>2. /\ Moves
      /\ \/ toParent' = toParent
         \/ Sent("HELLO") /\ child = "greet" /\ child' \notin {"none", "starting", "greet"}
         \/ Sent("READY") /\ child = "confirm" /\ child' = "resolve"
         \/ (Sent("RESULT_0") \/ Sent("RESULT_1")) /\ child \notin Ended /\ child' \in Ended
      /\ toChild' = toChild \/ (toChild # <<>> /\ toChild' = Tail(toChild))
  <2> USE DEF ChildGoesTo, ChildContinues, GivesUp, pipeVars, Before, Ended, Sends
  <2>1. CASE OpenPipe
    BY <2>1 DEF OpenPipe
  <2>2. CASE Greet
    BY <2>2 DEF Greet
  <2>3. CASE ReadApproval
    BY <2>3 DEF ReadApproval
  <2>4. CASE VerifyDigest \/ ReloadConfig
    BY <2>4 DEF VerifyDigest, ReloadConfig
  <2>5. CASE SendReady
    BY <2>5 DEF SendReady
  <2>6. CASE Resolve \/ Preflight \/ StartSession
    BY <2>6 DEF Resolve, Preflight, StartSession
  <2>7. CASE EndSession
    BY <2>7 DEF EndSession
  <2>8. CASE Drain \/ Drained
    BY <2>8 DEF Drain, Drained
  <2>9. CASE SendSuccess
    BY <2>9 DEF SendSuccess
  <2>10. CASE SendRejection
    <3>1. /\ child = "reject" /\ child' = "closing" /\ toChild' = toChild
          /\ toParent' = toParent \/ toParent' = Append(toParent, "RESULT_1")
      BY <2>10, Zenon DEF SendRejection
    <3> QED
      BY <3>1
  <2>11. CASE ClosePipe \/ LeaveMain \/ Exit
    BY <2>11 DEF ClosePipe, LeaveMain, Exit
  <2>12. CASE ChildDies
    BY <2>12 DEF ChildDies
  <2> QED
    BY <2>1, <2>2, <2>3, <2>4, <2>5, <2>6, <2>7, <2>8, <2>9, <2>10, <2>11, <2>12 DEF ChildStep
<1>3. Delivered(toChild') /\ (parent' \in Unapproved => toChild' = <<>>)
  BY <1>1, <1>2, TailDelivered DEF SentOnce
<1>4. ASSUME toParent' = toParent PROVE SentOnce'
  BY <1>2, <1>3, <1>4 DEF SentOnce
<1>5. ASSUME NEW kind \in Kinds, Sent(kind), ~Holds(toParent, kind),
             kind = "HELLO" => child' \notin {"none", "starting", "greet"},
             kind = "READY" => child' \notin Before \ {"resolve", "preflight"},
             kind \in {"RESULT_0", "RESULT_1"} => child' \in Ended
      PROVE  SentOnce'
  <2>1. Delivered(toParent') /\ \A y : Holds(toParent', y) => y = kind \/ Holds(toParent, y)
    BY <1>5, AppendDelivered DEF SentOnce
  <2> HIDE DEF Sent
  <2> QED
    BY <1>2, <1>3, <1>5, <2>1 DEF SentOnce
<1>6. {"HELLO", "READY", "RESULT_0", "RESULT_1"} \subseteq Kinds
  BY DEF Kinds
<1>7. CASE Sent("HELLO") /\ child = "greet" /\ child' \notin {"none", "starting", "greet"}
  BY <1>5, <1>6, <1>7 DEF SentOnce
<1>8. CASE Sent("READY") /\ child = "confirm" /\ child' = "resolve"
  BY <1>5, <1>6, <1>8 DEF SentOnce, Before
<1>9. CASE (Sent("RESULT_0") \/ Sent("RESULT_1")) /\ child \notin Ended /\ child' \in Ended
  BY <1>5, <1>6, <1>9 DEF SentOnce
<1> HIDE DEF Sent, Moves
<1> QED
  BY <1>2, <1>4, <1>7, <1>8, <1>9

LEMMA SentStep == SentOnce /\ Reported /\ [Next]_vars => SentOnce'
<1> SUFFICES ASSUME SentOnce, Reported, [Next]_vars PROVE SentOnce'
  OBVIOUS
<1>1. CASE Edit \/ Notify \/ UNCHANGED vars
  <2>1. UNCHANGED <<parent, child, toParent, toChild>>
    BY <1>1 DEF Edit, Notify, vars, elevationVars, parentVars, childVars, pipeVars
  <2> QED
    BY <2>1 DEF SentOnce
<1> QED
  BY <1>1, ParentSends, ChildSends DEF Next

(* Every variable keeps its type, and no message is sent twice, whatever     *)
(* fails on either side and however the notifications go on.                 *)
THEOREM ElevatedTypeCorrect == Spec => []ElevatedTypeOK
<1> DEFINE Inv == Reported /\ Confirmed /\ Together /\ Tidy /\ Noted /\ Placed /\ SentOnce
<1>1. Init => Inv
  BY ReportedInit, ConfirmedInit, TogetherInit, TidyInit, NotedInit, PlacedInit, SentInit
<1>2. Inv /\ [Next]_vars => Inv'
  BY ReportedStep, ConfirmedStep, TogetherStep, TidyStep, NotedStep, PlacedStep, SentStep
<1>3. Inv => ElevatedTypeOK
  <2> SUFFICES ASSUME Inv PROVE ElevatedTypeOK
    OBVIOUS
  <2>1. NoteTypeOK
    <3>1. queue \in UNION {[1 .. n -> {"drain", "shutdown"}] : n \in 0 .. 2}
      <4> DEFINE Q(n) == [1 .. n -> {"drain", "shutdown"}]
      <4>1. <<>> \in Q(0) /\ <<"drain">> \in Q(1) /\ <<"shutdown">> \in Q(1)
            /\ <<"drain", "shutdown">> \in Q(2)
        OBVIOUS
      <4> HIDE DEF Q
      <4>2. \E n \in 0 .. 2 : queue \in Q(n)
        <5>1. queue \in {<<>>, <<"drain">>, <<"shutdown">>, <<"drain", "shutdown">>}
          BY DEF Noted, QueueShape
        <5>2. 0 \in 0 .. 2 /\ 1 \in 0 .. 2 /\ 2 \in 0 .. 2
          OBVIOUS
        <5> QED
          BY <4>1, <5>1, <5>2, Zenon
      <4>3. queue \in UNION {Q(n) : n \in 0 .. 2}
        BY <4>2
      <4> QED
        BY <4>3 DEF Q
    <3> QED
      BY <3>1, Zenon DEF NoteTypeOK, Tidy, NoteTypes, Noted, Counted, Timed
  <2>2. child \in InSession => loaded # NoConfig
    BY ElevationAssumption DEF Confirmed
  <2>3. {ready, childError, slipped} \subseteq BOOLEAN
    BY DEF Together, Confirmed
  <2>4. \A q \in {toParent, toChild} :
           \A i, j \in 1 .. Len(q) : q[i] \in Kinds /\ (q[i] = q[j] => i = j)
    <3> SUFFICES ASSUME NEW q \in {toParent, toChild}
                 PROVE  \A i, j \in 1 .. Len(q) : q[i] \in Kinds /\ (q[i] = q[j] => i = j)
      OBVIOUS
    <3>1. q \in Seq(Kinds) /\ NoneTwice(q)
      BY DEF SentOnce, Delivered
    <3> QED
      BY <3>1 DEF NoneTwice
  <2>5. {digest, loaded} \subseteq Configs \cup {NoConfig}
    BY DEF Placed
  <2> QED
    BY <2>1, <2>2, <2>3, <2>4, <2>5, Zenon DEF ElevatedTypeOK, Placed
<1> HIDE DEF Inv
<1> QED
  BY <1>1, <1>2, <1>3, PTL DEF Spec
=============================================================================
