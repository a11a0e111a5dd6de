-------------------------- MODULE ProtobufNetProofs --------------------------
(***************************************************************************)
(* Proofs about ProtobufNet for every value of its constants: a call is    *)
(* never without a bound, what the user is told of its end is so, nothing  *)
(* late passes for an answer, and the responses keep StreamPromise.        *)
(***************************************************************************)
EXTENDS ProtobufNet, ConduitServerProofs, InfoCodecProofs

(* Where the handler is, and how far the server method.                    *)
HandlerInv ==
  /\ handler \in {"absent", "arrived", "linked"} => main = "created"
  /\ handler = "serving" => main # "created"
  /\ handler = "ok" => main = "done"
  /\ client = "calling" \/ Uploading => handler = "absent"

(* The server's deadline is the client's or a later one, by no more than   *)
(* a call may stay, and the timer of a call that is served ends it, but    *)
(* never before the call's time is up.                                     *)
Timed ==
  \/ timer # Null /\ timer <= now + LongestStay
  \/ contextDeadline # Null /\ contextDeadline < now

ClockInv ==
  /\ handler = "absent" => contextDeadline = Null
  /\ handler # "absent" => (contextDeadline = Null <=> patience = Null)
  /\ contextDeadline # Null => /\ patience # Null /\ patience <= contextDeadline
                               /\ contextDeadline <= now + LongestStay
  /\ deadline = IF main = "created" THEN Null ELSE contextDeadline
  /\ handler \in {"absent", "arrived"} => timer = Null
  /\ timer # Null => (IF patience = Null THEN LongestStay ELSE patience) <= timer
  /\ Linked => Timed

(* Why a token may be cancelled.                                           *)
CancelInv ==
  /\ cancelled \/ contextCancelled => TimeUp \/ Gone
  /\ handler = "absent" => ~cancelled /\ ~contextCancelled

(* A response that the client has taken was written, and if it speaks of a *)
(* cancellation it was not the user's, who cancelled later if at all.      *)
TakenInv ==
  client = "handling" =>
    /\ IF Downloading THEN got < written ELSE handler = "ok"
    /\ Handled = "OperationCanceledException" => TimeUp

(* How many of the server's responses are on the wire.                     *)
WireInv ==
  /\ ~Downloading => written = 0
  /\ main \in {"yielded", "last"} => Len(out) = written + 1
  /\ Downloading /\ main \notin {"yielded", "last", "dropped"} => Len(out) = written
  /\ client = "over" <=> outcome # "none"

NetInv == /\ IInv /\ NetTypeOK /\ HandlerInv /\ ClockInv /\ CancelInv /\ TakenInv
          /\ WireInv /\ OutcomeJustified

-----------------------------------------------------------------------------

(* The transport's steps are steps of the server, or none.                 *)
LEMMA NetServerSteps ==
  ASSUME NetTypeOK, [NetNext]_netSpecVars
  PROVE  [Next]_vars
<1>1. CASE TimePasses \/ TimerFires \/ ContextCancels
  BY <1>1 DEF TimePasses, TimerFires, ContextCancels, Next, Environment
<1>2. CASE Caller
  BY <1>2 DEF Caller, Unsupported, Send, Take, Receive, Result, StreamEnds, Fails
<1>3. CASE User
  BY <1>3 DEF User, Ask, Leave, UserCancels
<1>4. CASE Arrive \/ NetOver \/ UNCHANGED netSpecVars
  BY <1>4 DEF Arrive, NetOver, netSpecVars
<1>5. CASE Link
  <2>1. RequestCancellation \/ UNCHANGED vars
    BY <1>5 DEF Link
  <2>2. QED
    BY <2>1 DEF Next, Environment
<1>6. CASE Invoke
  BY <1>6 DEF Invoke, NetTypeOK, Next
<1>7. CASE SendResponse \/ SendFails
  BY <1>7 DEF SendResponse, SendFails, Next
<1>8. CASE HandlerEnds
  BY <1>8 DEF HandlerEnds
<1>9. CASE Serve
  BY <1>9 DEF Serve, Next, Application, Server
<1>10. QED
  BY <1>1, <1>2, <1>3, <1>4, <1>5, <1>6, <1>7, <1>8, <1>9 DEF NetNext, Handler

(* What a call of the server method leaves alone, the responses there are  *)
(* among it, and how many it adds.                                         *)
LEMMA ServeSteps ==
  ASSUME IInv, Serve
  PROVE  /\ UNCHANGED <<netVars, callVars, envVars>>
         /\ handler = "serving" /\ main \notin {"created", "yielded", "last"} \cup Finished
         /\ main' \notin {"created", "dropped"}
         /\ Len(out) \in Nat /\ Len(out') \in Nat
         /\ Len(out') \in {Len(out), Len(out) + 1}
         /\ \A i \in DOMAIN out : out'[i] = out[i]
         /\ Downloading => Len(out') = Len(out) + IF main' \in {"yielded", "last"} THEN 1 ELSE 0
<1>1. UNCHANGED <<netVars, callVars, envVars>> /\ handler = "serving"
  BY DEF Serve, AppYield, AppEnd, AppReturn, AppThrow, ServerMethod, TestAlt, TestCancel,
         TestDeadline, Return
<1>2. out \in Seq(NetResponse) /\ Len(out) \in Nat
  BY DEF IInv, TypeOK
<1>3. \A r \in NetResponse : /\ Len(Append(out, r)) = Len(out) + 1
                             /\ \A i \in DOMAIN out : Append(out, r)[i] = out[i]
  BY <1>2, AppendFacts
<1>4. /\ \A c \in Verdicts : ControlResponse(c) \in NetResponse
      /\ PayloadResponse(Len(arrivals)) \in NetResponse
      /\ alt \in Verdicts /\ "Cancelled" \in Verdicts /\ "Timeout" \in Verdicts
  BY ResponseType DEF Verdicts, ControlCode, IInv, TypeOK
<1>5. CASE AppYield \/ AppEnd \/ AppReturn \/ AppThrow
  BY <1>1, <1>2, <1>5 DEF AppYield, AppEnd, AppReturn, AppThrow, Finished
<1>6. CASE TestAlt \/ TestCancel \/ TestDeadline
  <2>1. /\ main \in Testing
        /\ \/ out' = out /\ main' \in Testing
           \/ /\ \E r \in NetResponse : out' = Append(out, r)
              /\ main' \in {"yielded", "last"}
    BY <1>4, <1>6 DEF TestAlt, TestCancel, TestDeadline, YieldLast, Testing
  <2>2. QED
    BY <1>1, <1>2, <1>3, <2>1 DEF Testing, Finished
<1>7. CASE Return
  <2>1. main = "returning" /\ main' = "done" /\ ~Downloading /\ Len(out) = 0 /\ Len(out') = 1
    BY <1>7 DEF Return, IInv, StreamInv, SingleInv
  <2>2. QED
    BY <1>1, <1>2, <2>1 DEF Finished
<1>8. QED
  BY <1>5, <1>6, <1>7 DEF Serve, ServerMethod

(* A response the user gets tells it what is so.                           *)
LEMMA ResponsesTell ==
  ASSUME IInv, NEW i \in DOMAIN out, main = "done" \/ Downloading
  PROVE  \/ HandleResponse(out[i].Control) = "ok"
         \/ HandleResponse(out[i].Control) = "TimeoutException" /\ Expired
         \/ HandleResponse(out[i].Control) = "OperationCanceledException" /\ cancelled
<1>1. \/ out[i].Control \in {"None", "GetAppInfo"}
      \/ out[i].Control \in {"Timeout", "Cancelled"} /\ Justified(out[i].Control)
  BY DEF IInv, StreamInv, SingleInv, PayloadResponse
<1>2. QED
  BY <1>1, ResultOfResponse DEF Justified

-----------------------------------------------------------------------------
(* The invariant, step by step.                                            *)

(* The deadlines and the timer are numbers, if they are.                   *)
LEMMA NumberFacts ==
  ASSUME NetInv
  PROVE  /\ now \in Nat /\ now <= MaxTime /\ MaxTime \in Nat
         /\ LongestStay \in Nat /\ LongestCall \in Nat
         /\ patience # Null => patience \in Nat /\ patience <= LongestCall
         /\ contextDeadline # Null => contextDeadline \in Nat
         /\ timer # Null => timer \in Nat
<1>1. /\ now \in 0 .. MaxTime /\ patience \in {Null} \cup 0 .. LongestCall
      /\ contextDeadline \in {Null} \cup 0 .. (MaxTime + LongestCall)
      /\ timer \in {Null} \cup 0 .. (MaxTime + LongestStay)
  BY DEF NetInv, IInv, TypeOK, NetTypeOK, Deadlines
<1>2. QED
  BY <1>1, BoundsAssumption, NetAssumption, LongestCallAssumption

(* A response that is at hand is there.                                    *)
LEMMA TakenResponse ==
  ASSUME NetInv, IF Downloading THEN got < written ELSE handler = "ok"
  PROVE  /\ got + 1 \in DOMAIN out
         /\ main = "done" \/ Downloading
         /\ Downloading => got + 1 \in 0 .. written
<1>1. /\ got \in 0 .. written /\ written \in 0 .. Len(out)
      /\ Len(out) \in Nat /\ DOMAIN out = 1 .. Len(out)
  BY DEF NetInv, NetTypeOK, IInv, TypeOK
<1>2. CASE Downloading
  BY <1>1, <1>2
<1>3. CASE ~Downloading
  <2>1. main = "done" /\ written = 0
    BY <1>3 DEF NetInv, HandlerInv, WireInv
  <2>2. Len(out) = 1
    BY <1>3, <2>1, SingleResponse DEF NetInv
  <2>3. QED
    BY <1>1, <1>3, <2>1, <2>2
<1>4. QED
  BY <1>2, <1>3

(* A time that is up stays up.                                             *)
LEMMA TimeUpKept ==
  ASSUME NetInv, patience' = patience, now' \in Nat, now <= now', TimeUp
  PROVE  TimeUp'
<1>1. now \in Nat /\ LongestStay \in Nat /\ (patience # Null => patience \in Nat)
  BY NumberFacts
<1>2. CASE patience = Null
  BY <1>1, <1>2 DEF TimeUp
<1>3. CASE patience # Null
  BY <1>1, <1>3 DEF TimeUp
<1>4. QED
  BY <1>2, <1>3

(* What was so of the response at hand remains so.                         *)
LEMMA TakenKept ==
  ASSUME NetInv, UNCHANGED <<method, patience, client, got>>,
         now' \in Nat, now <= now', written' \in Nat, written <= written',
         handler = "ok" => handler' = "ok",
         \A i \in DOMAIN out : out'[i] = out[i]
  PROVE  TakenInv'
<1> SUFFICES ASSUME client = "handling"
             PROVE  /\ IF Downloading THEN got < written' ELSE handler' = "ok"
                    /\ Handled' = "OperationCanceledException" => TimeUp'
  BY DEF TakenInv, Downloading
<1>1. /\ IF Downloading THEN got < written ELSE handler = "ok"
      /\ Handled = "OperationCanceledException" => TimeUp
  BY DEF NetInv, TakenInv
<1>2. got \in Nat /\ written \in Nat
  BY DEF NetInv, NetTypeOK, IInv, TypeOK
<1>3. Handled' = Handled
  <2>1. out'[got + 1] = out[got + 1]
    BY <1>1, TakenResponse
  <2>2. QED
    BY <2>1 DEF Handled
<1>4. TimeUp => TimeUp'
  BY TimeUpKept
<1>5. QED
  BY <1>1, <1>2, <1>3, <1>4

(* A step of the user's side that leaves the call on its way.              *)
LEMMA UserSideStep ==
  ASSUME NetInv, UNCHANGED <<vars, wireVars, patience, appInfo>>,
         client # "over",
         \/ client' \in {"waiting", "handling", "holding"} /\ outcome' = outcome
            /\ (client = "calling" => handler = "absent")
         \/ client' = "over" /\ outcome' \in Outcomes \ {"none"},
         got' \in 0 .. written,
         userCancelled' \in BOOLEAN, userCancelled => userCancelled',
         DOMAIN info' = {"name", "version"},
         TakenInv',
         outcome' = "TimeoutException" => Expired,
         outcome' = "OperationCanceledException" => TimeUp
  PROVE  NetInv'
<1>1. IInv'
  BY InvariantInductive DEF NetInv
<1>2. /\ UNCHANGED <<method, main, out, deadline, now, cancelled>>
      /\ UNCHANGED <<contextDeadline, contextCancelled, timer, handler, written, patience>>
  BY DEF vars, callVars, envVars, mainVars, wireVars
<1>3. NetTypeOK'
  BY <1>2 DEF NetInv, NetTypeOK, Outcomes, Deadlines
<1>4. HandlerInv' /\ ClockInv'
  BY <1>2 DEF NetInv, HandlerInv, ClockInv, Timed, Linked, Uploading
<1>5. CancelInv'
  <2>1. Gone => Gone'
    BY DEF Gone
  <2>2. TimeUp => TimeUp'
    BY <1>2 DEF TimeUp
  <2>3. QED
    BY <1>2, <2>1, <2>2 DEF NetInv, CancelInv
<1>6. WireInv'
  BY <1>2 DEF NetInv, WireInv, Downloading
<1>7. OutcomeJustified'
  <2>0. /\ now \in Nat
        /\ patience # Null => patience \in Nat
        /\ contextDeadline # Null => contextDeadline \in Nat
    BY NumberFacts
  <2>1. CASE outcome' = "TimeoutException"
    <3>1. deadline # Null /\ deadline < now /\ main # "created"
      BY <2>1 DEF Expired, NetInv, ClockInv
    <3>2. contextDeadline # Null /\ contextDeadline < now
      BY <3>1 DEF NetInv, ClockInv
    <3>3. patience # Null /\ patience < now
      BY <3>2, <2>0 DEF NetInv, ClockInv
    <3>4. QED
      BY <1>2, <2>1, <3>3 DEF OutcomeJustified
  <2>2. CASE outcome' # "TimeoutException"
    BY <1>2, <2>2 DEF OutcomeJustified, TimeUp
  <2>3. QED
    BY <2>1, <2>2
<1>8. QED
  BY <1>1, <1>3, <1>4, <1>5, <1>6, <1>7 DEF NetInv

(* What HandleResponse makes of the response at hand is so.                *)
LEMMA HandledTells ==
  ASSUME NetInv, client = "handling"
  PROVE  /\ \/ Handled = "ok"
            \/ Handled = "TimeoutException" /\ Expired
            \/ Handled = "OperationCanceledException" /\ TimeUp
         /\ Downloading => got + 1 \in 0 .. written
<1>1. /\ IF Downloading THEN got < written ELSE handler = "ok"
      /\ Handled = "OperationCanceledException" => TimeUp
  BY DEF NetInv, TakenInv
<1>2. /\ got + 1 \in DOMAIN out /\ (main = "done" \/ Downloading)
      /\ Downloading => got + 1 \in 0 .. written
  BY <1>1, TakenResponse
<1>3. QED
  BY <1>1, <1>2, ResponsesTell DEF Handled, NetInv

(* Every step of the client and the user keeps the invariant.              *)
LEMMA UserSideSteps ==
  ASSUME NetInv, Caller \/ User
  PROVE  NetInv'
<1>0. /\ got \in 0 .. written /\ userCancelled \in BOOLEAN /\ written \in Nat
      /\ DOMAIN info = {"name", "version"} /\ written <= Len(out)
      /\ DOMAIN NoInfo = {"name", "version"}
      /\ (client # "over" => outcome = "none")
  BY DEF NetInv, NetTypeOK, IInv, TypeOK, NoInfo, WireInv
<1>a. client' # "handling" => TakenInv'
  BY DEF TakenInv
<1>1. CASE Unsupported \/ Send
  BY <1>0, <1>1, <1>a, UserSideStep DEF Unsupported, Send, NetInv, HandlerInv, wireVars, Outcomes
<1>2. CASE Take
  <2>1. /\ client = "waiting" /\ client' = "handling" /\ ~userCancelled
        /\ IF Downloading THEN got < written ELSE handler = "ok"
        /\ UNCHANGED <<vars, wireVars, patience, userCancelled, got, outcome, appInfo, info>>
    BY <1>2 DEF Take
  <2>2. got + 1 \in DOMAIN out /\ (main = "done" \/ Downloading)
    BY <2>1, TakenResponse
  <2>3. Handled = "OperationCanceledException" => cancelled
    BY <2>2, ResponsesTell DEF Handled, NetInv
  <2>4. cancelled => TimeUp
    BY <2>1 DEF NetInv, CancelInv, Gone
  <2>5. UNCHANGED <<method, out, now, handler, written>>
    BY <2>1 DEF vars, callVars, envVars, mainVars, wireVars
  <2>6. TakenInv'
    BY <2>1, <2>3, <2>4, <2>5 DEF TakenInv, Handled, TimeUp, Downloading
  <2>7. QED
    BY <1>0, <2>1, <2>6, UserSideStep
<1>3. CASE Receive
  <2>1. client = "handling" /\ Downloading
        /\ UNCHANGED <<vars, wireVars, patience, userCancelled, appInfo, info>>
    BY <1>3 DEF Receive
  <2>2. /\ \/ Handled = "ok"
           \/ Handled = "TimeoutException" /\ Expired
           \/ Handled = "OperationCanceledException" /\ TimeUp
        /\ got + 1 \in 0 .. written
    BY <2>1, HandledTells
  <2>3. \/ got' = got + 1 /\ client' = "holding" /\ outcome' = outcome
        \/ got' = got /\ client' = "over" /\ outcome' = "TimeoutException" /\ Expired
        \/ got' = got /\ client' = "over" /\ outcome' = "OperationCanceledException" /\ TimeUp
    BY <1>3, <2>2 DEF Receive
  <2>4. QED
    BY <1>0, <1>a, <2>1, <2>2, <2>3, UserSideStep DEF Outcomes
<1>4. CASE Result
  <2>1. /\ client = "handling" /\ client' = "over"
        /\ UNCHANGED <<vars, wireVars, patience, userCancelled, got, appInfo>>
    BY <1>4 DEF Result
  <2>2. \/ Handled = "ok"
        \/ Handled = "TimeoutException" /\ Expired
        \/ Handled = "OperationCanceledException" /\ TimeUp
    BY <2>1, HandledTells
  <2>3. DOMAIN Told = {"name", "version"}
    BY <1>0 DEF Told, ParseFrom
  <2>4. DOMAIN info' = {"name", "version"}
    BY <1>0, <1>4, <2>3 DEF Result
  <2>5. \/ outcome' \in {"ok", "ArgumentException"}
        \/ outcome' = "TimeoutException" /\ Expired
        \/ outcome' = "OperationCanceledException" /\ TimeUp
    BY <1>4, <2>2 DEF Result
  <2>6. QED
    BY <1>0, <1>a, <2>1, <2>4, <2>5, UserSideStep DEF Outcomes
<1>5. CASE StreamEnds \/ Fails \/ Ask \/ Leave
  BY <1>0, <1>5, <1>a, UserSideStep DEF StreamEnds, Fails, Ask, Leave, Outcomes
<1>6. CASE UserCancels
  <2>1. userCancelled' \in BOOLEAN /\ (userCancelled => userCancelled')
    BY <1>6, Zenon DEF UserCancels
  <2>2. /\ client \in {"waiting", "handling", "holding"}
        /\ UNCHANGED <<vars, wireVars, patience, got, client, outcome, appInfo, info>>
    BY <1>6 DEF UserCancels
  <2>3. UNCHANGED <<method, out, now, handler, written>>
    BY <2>2 DEF vars, callVars, envVars, mainVars, wireVars
  <2>4. TakenInv'
    BY <2>2, <2>3 DEF NetInv, TakenInv, Handled, TimeUp, Downloading
  <2>5. QED
    BY <1>0, <2>1, <2>2, <2>4, UserSideStep
<1>7. QED
  BY <1>1, <1>2, <1>3, <1>4, <1>5, <1>6 DEF Caller, User

(* What the user was told of a timeout or a cancellation stays so.         *)
LEMMA JustifiedKept ==
  ASSUME NetInv, UNCHANGED <<patience, outcome>>, now' \in Nat, now <= now'
  PROVE  OutcomeJustified'
<1>1. /\ now \in Nat /\ LongestStay \in Nat
      /\ patience # Null => patience \in Nat
  BY NumberFacts
<1>2. patience # Null /\ patience < now => patience' # Null /\ patience' < now'
  BY <1>1
<1>3. TimeUp => TimeUp'
  BY TimeUpKept
<1>4. QED
  BY <1>2, <1>3 DEF NetInv, OutcomeJustified

(* The call arrives, with a deadline that is not before the client's own.  *)
LEMMA ArriveStep ==
  ASSUME NetInv, Arrive
  PROVE  NetInv'
<1>1. /\ handler = "absent" /\ handler' = "arrived" /\ client # "calling" /\ ~Uploading
      /\ contextDeadline' = CalculateDeadline(patience, now)
      /\ UNCHANGED <<vars, contextCancelled, timer, written, userVars>>
  BY DEF Arrive
<1>2. /\ UNCHANGED <<method, control, main, out, deadline, now, cancelled, contextCancelled, timer, written>>
      /\ UNCHANGED <<patience, userCancelled, got, client, outcome, appInfo, info>>
  BY <1>1 DEF vars, callVars, envVars, mainVars, userVars
<1>3. /\ now \in Nat /\ now <= MaxTime /\ MaxTime \in Nat
      /\ LongestCall \in Nat /\ LongestStay \in Nat /\ LongestCall <= LongestStay
      /\ patience # Null => patience \in Nat /\ patience <= LongestCall
  BY NumberFacts, NetAssumption
<1>4. /\ patience = Null => contextDeadline' = Null
      /\ patience # Null => contextDeadline' = now + patience
      /\ contextDeadline' \in Deadlines
  BY <1>1, <1>3 DEF CalculateDeadline, Deadlines
<1>5. IInv'
  BY <1>1, InvariantInductive DEF NetInv
<1>6. NetTypeOK'
  BY <1>1, <1>2, <1>4 DEF NetInv, NetTypeOK, Stages
<1>7. HandlerInv' /\ CancelInv' /\ WireInv'
  BY <1>1, <1>2 DEF NetInv, HandlerInv, CancelInv, WireInv, Uploading, Downloading
<1>8. ClockInv'
  <2>1. main = "created" /\ deadline = Null /\ timer = Null
    BY <1>1 DEF NetInv, HandlerInv, ClockInv
  <2>2. contextDeadline' # Null => /\ patience' # Null /\ patience' <= contextDeadline'
                                   /\ contextDeadline' <= now' + LongestStay
    BY <1>2, <1>3, <1>4
  <2>3. contextDeadline' = Null <=> patience' = Null
    BY <1>2, <1>3, <1>4, NullAssumption
  <2>4. QED
    BY <1>1, <1>2, <2>1, <2>2, <2>3 DEF ClockInv, Linked
<1>9. OutcomeJustified' /\ TakenInv'
  <2>1. written \in Nat /\ written <= written
    BY DEF NetInv, NetTypeOK, IInv, TypeOK
  <2>2. QED
    BY <1>1, <1>2, <1>3, <2>1, TakenKept, JustifiedKept
<1>10. QED
  BY <1>5, <1>6, <1>7, <1>8, <1>9 DEF NetInv

(* The duration found is one hour at most, -1 or less only when the        *)
(* deadline is over, and never so short that the call is ended too early.  *)
LEMMA DurationFacts ==
  ASSUME NetInv, handler = "arrived"
  PROVE  /\ GetMaxCallDuration \in Int /\ GetMaxCallDuration <= LongestStay
         /\ GetMaxCallDuration < 0 => contextDeadline # Null /\ contextDeadline < now
         /\ (IF patience = Null THEN LongestStay ELSE patience) <= now + GetMaxCallDuration
<1>1. /\ now \in Nat /\ LongestStay \in Nat
      /\ contextDeadline # Null => contextDeadline \in Nat
      /\ patience # Null => patience \in Nat
  BY NumberFacts
<1>2. /\ contextDeadline = Null <=> patience = Null
      /\ contextDeadline # Null => /\ patience <= contextDeadline
                                  /\ contextDeadline <= now + LongestStay
  BY DEF NetInv, ClockInv
<1>3. CASE contextDeadline = Null
  BY <1>1, <1>2, <1>3 DEF GetMaxCallDuration
<1>4. CASE contextDeadline # Null
  <2>1. GetMaxCallDuration = contextDeadline - now
    BY <1>1, <1>2, <1>4 DEF GetMaxCallDuration
  <2>2. QED
    BY <1>1, <1>2, <1>4, <2>1
<1>5. QED
  BY <1>3, <1>4

(* The timer is set to the remaining time, or to the hour, or not at all.  *)
LEMMA LinkStep ==
  ASSUME NetInv, Link
  PROVE  NetInv'
<1> DEFINE duration == GetMaxCallDuration
<1>1. /\ duration \in Int /\ duration <= LongestStay
      /\ duration < 0 => contextDeadline # Null /\ contextDeadline < now
      /\ (IF patience = Null THEN LongestStay ELSE patience) <= now + duration
  BY DurationFacts DEF Link
<1>2. /\ now \in Nat /\ now <= MaxTime /\ MaxTime \in Nat /\ LongestStay \in Nat
      /\ contextDeadline # Null => contextDeadline \in Nat
  BY NumberFacts
<1>3. /\ handler = "arrived"
      /\ \/ duration < -1 /\ handler' = "failed" /\ UNCHANGED <<timer, vars>>
         \/ /\ duration >= -1 /\ handler' = "linked"
            /\ timer' = IF duration = -1 THEN Null ELSE now + duration
            /\ \/ (contextCancelled \/ duration = 0) /\ RequestCancellation
               \/ ~(contextCancelled \/ duration = 0) /\ UNCHANGED vars
      /\ UNCHANGED <<contextDeadline, contextCancelled, written, userVars>>
  BY <1>1 DEF Link
<1> HIDE DEF duration
<1>4. /\ UNCHANGED <<method, control, main, out, deadline, now, contextCancelled, written, contextDeadline>>
      /\ UNCHANGED <<patience, userCancelled, got, client, outcome, appInfo, info>>
      /\ cancelled' = cancelled \/ contextCancelled \/ duration = 0
  BY <1>3 DEF vars, callVars, envVars, mainVars, userVars, RequestCancellation
<1>5. IInv'
  <2>1. [Next]_vars
    BY <1>3 DEF Next, Environment
  <2>2. QED
    BY <2>1, InvariantInductive DEF NetInv
<1>6. main = "created" /\ timer = Null /\ deadline = Null
  BY <1>3 DEF NetInv, HandlerInv, ClockInv
<1>7. timer' \in {Null} \cup 0 .. (MaxTime + LongestStay)
  BY <1>1, <1>2, <1>3, <1>6
<1>8. NetTypeOK'
  BY <1>3, <1>4, <1>7 DEF NetInv, NetTypeOK, Stages
<1>9. HandlerInv' /\ WireInv'
  BY <1>3, <1>4, <1>6 DEF NetInv, HandlerInv, WireInv, Uploading, Downloading
<1>10. ClockInv'
  <2>1. handler' = "linked" => Timed'
    BY <1>1, <1>2, <1>3, <1>4, NullAssumption DEF Timed
  <2>2. timer' # Null => (IF patience = Null THEN LongestStay ELSE patience) <= timer'
    BY <1>1, <1>3, <1>6
  <2>3. QED
    BY <1>3, <1>4, <1>6, <2>1, <2>2 DEF NetInv, ClockInv, Linked
<1>11. CancelInv'
  <2>1. (TimeUp => TimeUp') /\ (Gone => Gone')
    BY <1>4 DEF TimeUp, Gone
  <2>2. duration = 0 => TimeUp'
    BY <1>1, <1>2, <1>4 DEF TimeUp
  <2>3. cancelled' => TimeUp' \/ Gone'
    BY <1>3, <1>4, <2>1, <2>2 DEF NetInv, CancelInv, vars, envVars
  <2>4. QED
    BY <1>3, <1>4, <2>1, <2>3 DEF NetInv, CancelInv
<1>12. OutcomeJustified' /\ TakenInv'
  <2>1. written \in Nat /\ written <= written
    BY DEF NetInv, NetTypeOK, IInv, TypeOK
  <2>2. QED
    BY <1>2, <1>3, <1>4, <2>1, TakenKept, JustifiedKept
<1>13. QED
  BY <1>5, <1>8, <1>9, <1>10, <1>11, <1>12 DEF NetInv

(* The ConduitServer is started, with the deadline that came along.        *)
LEMMA InvokeStep ==
  ASSUME NetInv, Invoke
  PROVE  NetInv'
<1>1. /\ handler = "linked" /\ handler' = "serving" /\ main' = "awaiting"
      /\ deadline' = contextDeadline
      /\ UNCHANGED <<method, now, cancelled, out>>
      /\ UNCHANGED <<contextDeadline, contextCancelled, timer, written>>
      /\ UNCHANGED <<patience, userCancelled, got, client, outcome, appInfo, info>>
  BY DEF Invoke, Start, callVars, userVars
<1>2. IInv'
  <2>1. [Next]_vars
    BY DEF Invoke, Next, NetInv, NetTypeOK
  <2>2. QED
    BY <2>1, InvariantInductive DEF NetInv
<1>3. main = "created" /\ Timed /\ ~Uploading /\ client # "calling"
  BY <1>1 DEF NetInv, HandlerInv, ClockInv, Linked
<1>4. NetTypeOK'
  BY <1>1 DEF NetInv, NetTypeOK, Stages
<1>5. HandlerInv' /\ CancelInv'
  BY <1>1, <1>3 DEF NetInv, HandlerInv, CancelInv, TimeUp, Gone, Uploading
<1>6. ClockInv'
  BY <1>1, <1>3 DEF NetInv, ClockInv, Linked, Timed
<1>7. WireInv'
  BY <1>1, <1>3 DEF NetInv, WireInv, Downloading
<1>8. OutcomeJustified' /\ TakenInv'
  BY <1>1 DEF NetInv, OutcomeJustified, TakenInv, Handled, TimeUp, Downloading
<1>9. QED
  BY <1>2, <1>4, <1>5, <1>6, <1>7, <1>8 DEF NetInv

(* The timer or gRPC cancels the token of the ConduitServer.               *)
LEMMA CancellationStep ==
  ASSUME NetInv, TimerFires \/ ContextCancels
  PROVE  NetInv'
<1>1. IInv'
  <2>1. [Next]_vars
    BY DEF TimerFires, ContextCancels, Next, Environment
  <2>2. QED
    BY <2>1, InvariantInductive DEF NetInv
<1>2. /\ UNCHANGED <<method, main, out, deadline, now>>
      /\ UNCHANGED <<contextDeadline, timer, handler, written>>
      /\ UNCHANGED <<patience, userCancelled, got, client, outcome, appInfo, info>>
      /\ handler # "absent"
  BY DEF TimerFires, ContextCancels, RequestCancellation, TimerDue, Linked, vars, callVars,
         envVars, mainVars, netVars, wireVars, userVars
<1>3. contextCancelled' \in BOOLEAN
  <2>1. CASE TimerFires
    BY <2>1 DEF TimerFires, netVars, wireVars, NetInv, NetTypeOK
  <2>2. CASE ContextCancels
    BY <2>2, Zenon DEF ContextCancels
  <2>3. QED
    BY <2>1, <2>2
<1>4. TimeUp \/ Gone
  <2>1. /\ now \in Nat /\ LongestStay \in Nat
        /\ patience # Null => patience \in Nat
        /\ timer # Null => timer \in Nat
        /\ contextDeadline # Null => contextDeadline \in Nat
    BY NumberFacts
  <2>2. CASE timer # Null /\ now >= timer
    BY <2>1, <2>2 DEF NetInv, ClockInv, TimeUp
  <2>3. CASE contextDeadline # Null /\ now >= contextDeadline
    BY <2>1, <2>3 DEF NetInv, ClockInv, TimeUp
  <2>4. QED
    BY <2>2, <2>3 DEF TimerFires, TimerDue, ContextCancels
<1>5. NetTypeOK'
  BY <1>2, <1>3 DEF NetInv, NetTypeOK
<1>6. /\ HandlerInv' /\ ClockInv' /\ WireInv'
      /\ OutcomeJustified' /\ TakenInv'
  BY <1>2 DEF NetInv, HandlerInv, ClockInv, Timed, Linked, WireInv, OutcomeJustified, TakenInv,
              Handled, TimeUp, Uploading, Downloading
<1>7. CancelInv'
  BY <1>2, <1>4 DEF CancelInv, TimeUp, Gone
<1>8. QED
  BY <1>1, <1>5, <1>6, <1>7 DEF NetInv

(* A step of the ConduitServer or of its application.                      *)
LEMMA ServeStep ==
  ASSUME NetInv, Serve
  PROVE  NetInv'
<1>1. /\ UNCHANGED <<netVars, callVars, envVars>>
      /\ handler = "serving" /\ main \notin {"created", "yielded", "last"} \cup Finished
      /\ main' \notin {"created", "dropped"}
      /\ Len(out) \in Nat /\ Len(out') \in Nat
      /\ Len(out') \in {Len(out), Len(out) + 1}
      /\ \A i \in DOMAIN out : out'[i] = out[i]
      /\ Downloading => Len(out') = Len(out) + IF main' \in {"yielded", "last"} THEN 1 ELSE 0
  BY ServeSteps DEF NetInv
<1>2. IInv'
  <2>1. [Next]_vars
    BY DEF Serve, Next, Application, Server
  <2>2. QED
    BY <2>1, InvariantInductive DEF NetInv
<1>3. /\ UNCHANGED <<method, control, deadline, now, cancelled>>
      /\ UNCHANGED <<contextDeadline, contextCancelled, timer, handler, written>>
      /\ UNCHANGED <<patience, userCancelled, got, client, outcome, appInfo, info>>
  BY <1>1 DEF netVars, wireVars, userVars, callVars, envVars
<1>4. written \in Nat /\ written <= Len(out')
  BY <1>1 DEF NetInv, NetTypeOK
<1>5. NetTypeOK'
  BY <1>1, <1>3, <1>4 DEF NetInv, NetTypeOK
<1>6. HandlerInv' /\ ClockInv' /\ CancelInv' /\ OutcomeJustified'
  BY <1>1, <1>3 DEF NetInv, HandlerInv, ClockInv, Timed, Linked, CancelInv, TimeUp, Gone,
                    OutcomeJustified, Uploading
<1>7. WireInv'
  <2>1. CASE Downloading
    BY <1>1, <1>3, <2>1 DEF NetInv, WireInv, Downloading, Finished
  <2>2. CASE ~Downloading
    BY <1>2, <1>3, <2>2 DEF NetInv, WireInv, Downloading, IInv, SingleInv
  <2>3. QED
    BY <2>1, <2>2
<1>8. TakenInv'
  <2>1. now' \in Nat /\ now <= now' /\ written' \in Nat /\ written <= written'
    BY <1>3, <1>4, NumberFacts
  <2>2. QED
    BY <1>1, <1>3, <2>1, TakenKept
<1>9. QED
  BY <1>2, <1>5, <1>6, <1>7, <1>8 DEF NetInv

(* A response is written, or the handler comes to its end.                 *)
LEMMA SendingStep ==
  ASSUME NetInv, SendResponse \/ SendFails \/ HandlerEnds
  PROVE  NetInv'
<1>1. IInv'
  <2>1. [Next]_vars
    BY DEF SendResponse, SendFails, HandlerEnds, Next
  <2>2. QED
    BY <2>1, InvariantInductive DEF NetInv
<1>2. /\ UNCHANGED <<method, out, deadline, now, cancelled>>
      /\ UNCHANGED <<contextDeadline, contextCancelled, timer>>
      /\ UNCHANGED <<patience, userCancelled, got, client, outcome, appInfo, info>>
      /\ handler = "serving" /\ main # "created" /\ main' # "created"
  BY DEF SendResponse, SendFails, HandlerEnds, MoveNext, Drop, vars, callVars, envVars,
         mainVars, userVars, NetInv, HandlerInv
<1>3. /\ Len(out) \in Nat /\ got \in 0 .. written /\ written \in 0 .. Len(out)
      /\ main \in {"yielded", "last"} => Downloading
  BY DEF NetInv, NetTypeOK, IInv, TypeOK, SingleInv
<1>a. now' \in Nat /\ now <= now' /\ (\A i \in DOMAIN out : out'[i] = out[i])
  BY <1>2, NumberFacts
<1>4. CASE SendResponse
  <2>1. /\ handler' = "serving" /\ written' = Len(out)
        /\ main \in {"yielded", "last"} /\ main' \in {"awaiting", "done"}
    BY <1>2, <1>4 DEF SendResponse, MoveNext
  <2>2. NetTypeOK'
    BY <1>2, <1>3, <2>1 DEF NetInv, NetTypeOK, Stages
  <2>3. HandlerInv' /\ ClockInv' /\ CancelInv' /\ OutcomeJustified'
    BY <1>2, <2>1 DEF NetInv, HandlerInv, ClockInv, Timed, Linked, CancelInv, TimeUp, Gone,
                      OutcomeJustified, Uploading
  <2>4. WireInv'
    BY <1>2, <1>3, <2>1 DEF NetInv, WireInv, Downloading
  <2>5. written' \in Nat /\ written <= written'
    BY <1>3, <2>1
  <2>6. TakenInv'
    BY <1>2, <1>a, <2>5, TakenKept
  <2>7. QED
    BY <1>1, <2>2, <2>3, <2>4, <2>6 DEF NetInv
<1>5. CASE SendFails \/ HandlerEnds
  <2>1. /\ written' = written
        /\ \/ handler' = "failed" /\ main' \in {main, "dropped"}
           \/ handler' = "ok" /\ main = "done" /\ main' = main
    BY <1>2, <1>5 DEF SendFails, HandlerEnds, Drop, vars, mainVars
  <2>2. NetTypeOK'
    BY <1>2, <2>1 DEF NetInv, NetTypeOK, Stages
  <2>3. HandlerInv' /\ ClockInv' /\ CancelInv' /\ OutcomeJustified'
    BY <1>2, <2>1 DEF NetInv, HandlerInv, ClockInv, Timed, Linked, CancelInv, TimeUp, Gone,
                      OutcomeJustified, Uploading
  <2>4. WireInv'
    BY <1>2, <1>3, <2>1 DEF NetInv, WireInv, Downloading
  <2>5. written' \in Nat /\ written <= written'
    BY <1>3, <2>1
  <2>6. TakenInv'
    BY <1>2, <1>a, <2>5, TakenKept
  <2>7. QED
    BY <1>1, <2>2, <2>3, <2>4, <2>6 DEF NetInv
<1>6. QED
  BY <1>4, <1>5

(* Time passes: what was over stays over.                                  *)
LEMMA TimeStep ==
  ASSUME NetInv, TimePasses
  PROVE  NetInv'
<1>1. IInv'
  <2>1. [Next]_vars
    BY DEF TimePasses, Next, Environment
  <2>2. QED
    BY <2>1, InvariantInductive DEF NetInv
<1>2. /\ now' = now + 1
      /\ UNCHANGED <<method, control, deadline, cancelled, main, out>>
      /\ UNCHANGED <<contextDeadline, contextCancelled, timer, handler, written>>
      /\ UNCHANGED <<patience, userCancelled, got, client, outcome, appInfo, info>>
  BY DEF TimePasses, Tick, callVars, mainVars, netVars, wireVars, userVars
<1>3. /\ now \in Nat /\ LongestStay \in Nat
      /\ contextDeadline # Null => contextDeadline \in Nat
      /\ timer # Null => timer \in Nat
  BY NumberFacts
<1>4. NetTypeOK' /\ HandlerInv' /\ WireInv'
  BY <1>2 DEF NetInv, NetTypeOK, HandlerInv, WireInv, Uploading, Downloading
<1>5. Timed => Timed'
  <2>1. timer # Null /\ timer <= now + LongestStay => timer' # Null /\ timer' <= now' + LongestStay'
    BY <1>2, <1>3
  <2>2. contextDeadline # Null /\ contextDeadline < now
          => contextDeadline' # Null /\ contextDeadline' < now'
    BY <1>2, <1>3
  <2>3. QED
    BY <2>1, <2>2 DEF Timed
<1>6. (TimeUp => TimeUp') /\ (Gone => Gone')
  <2>1. patience' = patience /\ now' \in Nat /\ now <= now'
    BY <1>2, <1>3
  <2>2. TimeUp => TimeUp'
    BY <2>1, TimeUpKept
  <2>3. Gone => Gone'
    BY <1>2 DEF Gone
  <2>4. QED
    BY <2>2, <2>3
<1>7. ClockInv'
  <2>1. contextDeadline # Null /\ contextDeadline <= now + LongestStay
          => contextDeadline' <= now' + LongestStay
    BY <1>2, <1>3
  <2>2. QED
    BY <1>2, <1>5, <2>1 DEF NetInv, ClockInv, Linked
<1>8. CancelInv'
  BY <1>2, <1>6 DEF NetInv, CancelInv
<1>9. OutcomeJustified' /\ TakenInv'
  <2>1. now' \in Nat /\ now <= now' /\ written' \in Nat /\ written <= written'
    BY <1>2, <1>3 DEF NetInv, NetTypeOK, IInv, TypeOK
  <2>2. QED
    BY <1>2, <2>1, TakenKept, JustifiedKept
<1>10. QED
  BY <1>1, <1>4, <1>7, <1>8, <1>9 DEF NetInv

(* Every step of the call keeps the invariant.                             *)
LEMMA NetInductive == NetInv /\ [NetNext]_netSpecVars => NetInv'
<1> SUFFICES ASSUME NetInv, [NetNext]_netSpecVars PROVE NetInv'
  OBVIOUS
<1>1. CASE UNCHANGED netSpecVars
  <2>1. /\ UNCHANGED vars /\ UNCHANGED <<method, control, deadline, now, cancelled, main, out>>
        /\ UNCHANGED <<contextDeadline, contextCancelled, timer, handler, written>>
        /\ UNCHANGED <<patience, userCancelled, got, client, outcome, appInfo, info>>
    BY <1>1 DEF netSpecVars, vars, callVars, envVars, mainVars, netVars, wireVars, userVars
  <2>2. IInv'
    BY <2>1, InvariantInductive DEF NetInv
  <2>3. QED
    BY <2>1, <2>2 DEF NetInv, NetTypeOK, HandlerInv, ClockInv, Timed, Linked, CancelInv, TakenInv,
                      Handled, TimeUp, Gone, WireInv, OutcomeJustified, Uploading, Downloading
<1>2. CASE NetOver
  BY <1>1, <1>2 DEF NetOver
<1>3. QED
  BY <1>1, <1>2, UserSideSteps, ArriveStep, LinkStep, InvokeStep, CancellationStep, ServeStep,
     SendingStep, TimeStep DEF NetNext, Handler

(* The invariant holds when the call is made.                              *)
LEMMA NetInvInit == NetInit => NetInv
<1> SUFFICES ASSUME NetInit PROVE NetInv
  OBVIOUS
<1>1. IInv
  BY InvariantInit DEF NetInit
<1>2. userCancelled \in BOOLEAN /\ contextCancelled \in BOOLEAN /\ ~cancelled /\ ~contextCancelled
  BY Zenon DEF NetInit, Init
<1>3. out = <<>> /\ now = 0 /\ main = "created" /\ deadline = Null
  BY DEF NetInit, Init
<1>4. NetTypeOK
  BY <1>2, <1>3 DEF NetInit, NetTypeOK, Deadlines, Stages, Outcomes, NoInfo
<1>5. HandlerInv /\ ClockInv /\ CancelInv
  BY <1>2, <1>3 DEF NetInit, HandlerInv, ClockInv, CancelInv, Linked
<1>6. WireInv /\ TakenInv /\ OutcomeJustified
  BY <1>3 DEF NetInit, WireInv, TakenInv, OutcomeJustified
<1>7. QED
  BY <1>1, <1>4, <1>5, <1>6 DEF NetInv

(* The invariant holds throughout every call.                              *)
THEOREM NetInvHolds == NetSpec => []NetInv
BY NetInvInit, NetInductive, PTL DEF NetSpec

(* Every variable keeps to its domain; nothing is received that was not    *)
(* written, nor written that was not yielded.                              *)
THEOREM NetTypeCorrect == NetSpec => []NetTypeOK
<1>1. NetInv => NetTypeOK
  BY DEF NetInv
<1>2. QED
  BY <1>1, NetInvHolds, PTL

(* No call is served without a bound, whatever deadline it came with and   *)
(* however late it came.                                                   *)
THEOREM AlwaysBoundedHolds == NetSpec => []AlwaysBounded
<1>1. NetInv => AlwaysBounded
  BY DEF NetInv, ClockInv, Linked, Timed, AlwaysBounded
<1>2. QED
  BY <1>1, NetInvHolds, PTL

(* A user is told of a timeout only after its own deadline, and of a       *)
(* cancellation only when the time of its call is up: the timer is never   *)
(* early, and who cancels does not hear of it as the server's doing.       *)
THEOREM OutcomeJustifiedHolds == NetSpec => []OutcomeJustified
<1>1. NetInv => OutcomeJustified
  BY DEF NetInv
<1>2. QED
  BY <1>1, NetInvHolds, PTL

(* A theorem about the server carried over to the transport: a response    *)
(* that the application gives after the deadline that came with the call,  *)
(* or after the timer or gRPC cancelled it, is not passed on as data.      *)
THEOREM NetLateNeverDelivered == NetSpec => []LateNeverDelivered
<1>1. NetInit => Init
  BY DEF NetInit
<1>2. NetInv /\ [NetNext]_netSpecVars => [Next]_vars
  BY NetServerSteps DEF NetInv
<1>3. NetSpec => Spec
  BY <1>1, <1>2, NetInvHolds, PTL DEF NetSpec, Spec
<1>4. QED
  BY <1>3, LateNeverDeliveredHolds, PTL

-----------------------------------------------------------------------------
(* GetAppInfo.                                                             *)

(* What GetAppInfo has returned, or thrown, is what ParseFrom made of the  *)
(* application's own description.                                          *)
InfoInv ==
  /\ Asking => method = "UnaryRequest" /\ appInfo \in AppInfos
  /\ Asking /\ outcome \in {"ok", "ArgumentException"} => info = Told

(* What a step does to the AppInfos and to the outcome: nothing, or a      *)
(* failure, or it is told.  A GetAppInfo is no stream.                     *)
LEMMA TellingSteps ==
  ASSUME NetInv, InfoInv, [NetNext]_netSpecVars
  PROVE  /\ UNCHANGED <<method, control, appInfo>>
         /\ \/ UNCHANGED <<outcome, info>>
            \/ outcome' \notin {"ok", "ArgumentException"}
            \/ ~Asking
            \/ info' = Told
<1>1. UNCHANGED <<method, control>>
  <2>1. [Next]_vars
    BY NetServerSteps DEF NetInv
  <2>2. CASE Environment \/ (\E d \in Deadlines : Start(d)) \/ MoveNext \/ Drop \/ Requests
    BY <2>2 DEF Environment, Tick, RequestCancellation, Start, MoveNext, Drop, Requests,
                CallerYields, CallerEnds, callVars
  <2>3. CASE Application
    BY <2>3 DEF Application, AppYield, AppEnd, AppReturn, AppThrow, AppPull, callVars
  <2>4. CASE Server
    BY <2>4 DEF Server, ServerMethod, ServerPump, TestAlt, TestCancel, TestDeadline, Return,
                PumpTestCancel, PumpTestDeadline, callVars
  <2> QED
    BY <2>1, <2>2, <2>3, <2>4 DEF Next, Over, vars, callVars
<1>2. CASE UNCHANGED userVars
  BY <1>1, <1>2 DEF userVars
<1>3. CASE User
  BY <1>1, <1>3 DEF User, Ask, Leave, UserCancels
<1>4. Asking => ~Downloading
  BY DEF InfoInv, Downloading
<1>5. CASE Caller
  <2>1. CASE Result
    BY <1>1, <2>1 DEF Result, Handled, HandleResponse
  <2>2. CASE Receive \/ StreamEnds
    BY <1>1, <1>4, <2>2 DEF Receive, StreamEnds
  <2>3. CASE Unsupported \/ Send \/ Take \/ Fails
    BY <1>1, <2>3 DEF Unsupported, Send, Take, Fails
  <2> QED
    BY <1>5, <2>1, <2>2, <2>3 DEF Caller
<1>6. CASE Handler
  BY <1>2, <1>6 DEF Handler, Link, Invoke, SendResponse, SendFails, HandlerEnds
<1>7. QED
  BY <1>2, <1>3, <1>5, <1>6 DEF NetNext, TimePasses, Arrive, TimerFires, ContextCancels, Serve,
                                NetOver, netSpecVars, netVars

(* An application that can be described in text at all is described to the *)
(* user of GetAppInfo as it is.                                            *)
THEOREM InfoSurvivesHolds == NetSpec => []InfoSurvives
<1>1. NetInit => InfoInv
  BY DEF NetInit, Init, InfoInv, Asking
<1>2. NetInv /\ InfoInv /\ [NetNext]_netSpecVars => InfoInv'
  <2> SUFFICES ASSUME NetInv, InfoInv, [NetNext]_netSpecVars PROVE InfoInv'
    OBVIOUS
  <2>1. Asking' = Asking /\ Told' = Told
    BY TellingSteps DEF Asking, Told
  <2> QED
    BY <2>1, TellingSteps DEF InfoInv
<1>3. InfoInv => InfoSurvives
  <2> SUFFICES ASSUME InfoInv, Asking, outcome \in {"ok", "ArgumentException"},
                      WellFormed(appInfo)
               PROVE  info = appInfo
    BY DEF InfoSurvives
  <2>1. appInfo \in [name : Seq(Tokens), version : Seq(Numbers)] /\ info = Told
    BY AppInfosAssumption DEF InfoInv
  <2>2. /\ ValidInput(appInfo.name) /\ ValidVersion(appInfo.version)
        /\ \A k \in DOMAIN appInfo.name : appInfo.name[k] # "lone"
    BY Zenon DEF WellFormed
  <2> QED
    BY <2>1, <2>2, PrintedInfoRead, Zenon DEF Told
<1>4. QED
  BY <1>1, <1>2, <1>3, NetInvHolds, PTL DEF NetSpec

-----------------------------------------------------------------------------
(* The refinement of StreamPromise.                                        *)

(* The stream responses reach the user as StreamPromise says: in order,    *)
(* once each, and complete if the user is told so.                         *)
THEOREM NetKeepsResponses == NetSpec => ResponsesPromise
<1>1. NetInit => Responses!Init
  BY DEF NetInit, Init, Responses!Init
<1>2. ASSUME NetInv, NetInv', [NetNext]_netSpecVars
      PROVE  [Responses!Next]_(Responses!ends)
  <2>1. /\ Len(out) \in Nat /\ got \in Nat /\ written \in Nat
        /\ got <= written /\ written <= Len(out)
        /\ client # "over" => outcome = "none"
        /\ outcome' \in Outcomes
    BY <1>2 DEF NetInv, NetTypeOK, WireInv, IInv, TypeOK
  <2>2. CASE Caller \/ User
    <3>1. UNCHANGED <<handler, out, method>>
      BY <2>2 DEF Caller, Unsupported, Send, Take, Receive, Result, StreamEnds, Fails, User, Ask,
                  Leave, UserCancels, wireVars, vars, callVars, mainVars
    <3>2. CASE UNCHANGED <<got, outcome>>
      BY <3>1, <3>2 DEF Responses!ends
    <3>3. CASE got' = got + 1 /\ got < written /\ outcome = "none" /\ outcome' = outcome
      <4>1. got < Len(out)
        BY <2>1, <3>3
      <4>2. Responses!Consume
        BY <3>1, <3>3, <4>1 DEF Responses!Consume
      <4>3. QED
        BY <4>2 DEF Responses!Next
    <3>4. CASE outcome = "none" /\ got' = got /\ outcome' = "ok"
               /\ (~Downloading \/ (handler = "ok" /\ got = written))
      <4>1. ~Downloading \/ (handler = "ok" /\ got = Len(out))
        BY <1>2, <3>4 DEF NetInv, HandlerInv, WireInv
      <4>2. QED
        BY <3>1, <3>4, <4>1 DEF Responses!Next, Responses!SeeEnd
    <3>5. CASE outcome = "none" /\ got' = got /\ outcome' \notin {"none", "ok"}
      BY <3>1, <3>5 DEF Responses!Next, Responses!SeeBreak
    <3>6. CASE Receive
      <4>1. outcome = "none" /\ got < written
        BY <1>2, <2>1, <3>6 DEF Receive, NetInv, TakenInv
      <4>2. CASE Handled = "ok"
        <5>1. got' = got + 1 /\ outcome' = outcome
          BY <3>6, <4>2 DEF Receive
        <5>2. QED
          BY <3>3, <4>1, <5>1
      <4>3. CASE Handled # "ok"
        <5>1. got' = got /\ outcome' = Handled
          BY <3>6, <4>3 DEF Receive
        <5>2. Handled # "none"
          BY DEF Handled, HandleResponse
        <5>3. QED
          BY <3>5, <4>1, <4>3, <5>1, <5>2
      <4>4. QED
        BY <4>2, <4>3
    <3>7. CASE Result
      <4>1. ~Downloading /\ outcome = "none" /\ got' = got
            /\ outcome' \in {"ok", "ArgumentException", Handled}
        BY <2>1, <3>7 DEF Result
      <4>2. Handled # "none"
        BY DEF Handled, HandleResponse
      <4>3. outcome' # "none"
        BY <4>1, <4>2
      <4>4. CASE outcome' = "ok"
        BY <3>4, <4>1, <4>4
      <4>5. CASE outcome' # "ok"
        BY <3>5, <4>1, <4>3, <4>5
      <4>6. QED
        BY <4>4, <4>5
    <3>8. CASE StreamEnds
      BY <2>1, <3>4, <3>8 DEF StreamEnds
    <3>9. CASE Unsupported \/ Send \/ Take \/ Fails \/ Ask \/ Leave \/ UserCancels
      BY <2>1, <3>2, <3>5, <3>9 DEF Unsupported, Send, Take, Fails, Ask, Leave, UserCancels
    <3>10. QED
      BY <2>2, <3>6, <3>7, <3>8, <3>9 DEF Caller, User
  <2>3. CASE Serve
    <3>1. /\ UNCHANGED <<netVars, callVars, envVars>> /\ handler = "serving"
          /\ Len(out') \in {Len(out), Len(out) + 1}
      BY <1>2, <2>3, ServeSteps DEF NetInv
    <3>2. UNCHANGED <<handler, got, outcome, method>>
      BY <3>1 DEF netVars, wireVars, userVars, callVars
    <3>3. CASE Len(out') = Len(out) + 1
      BY <3>1, <3>2, <3>3 DEF Responses!Next, Responses!Produce
    <3>4. CASE Len(out') = Len(out)
      BY <3>2, <3>4 DEF Responses!ends, Downloading
    <3>5. QED
      BY <3>1, <3>3, <3>4
  <2>4. CASE SendFails \/ HandlerEnds
    <3>1. UNCHANGED <<out, got, outcome, method>> /\ handler = "serving"
          /\ handler' \in {"ok", "failed"}
      BY <2>4 DEF SendFails, HandlerEnds, Drop, vars, callVars, mainVars, userVars
    <3>2. QED
      BY <3>1 DEF Responses!Next, Responses!Complete, Responses!Break
  <2>5. CASE Link
    <3>1. UNCHANGED <<out, got, outcome, method>> /\ handler = "arrived"
          /\ handler' \in {"failed", "linked"}
      BY <2>5 DEF Link, RequestCancellation, vars, callVars, mainVars, userVars
    <3>2. QED
      BY <3>1 DEF Responses!Next, Responses!Break, Responses!ends, Downloading
  <2>6. CASE SendResponse \/ Invoke \/ Arrive
    <3>1. /\ UNCHANGED <<out, got, outcome, method>>
          /\ handler \in {"absent", "arrived", "linked", "serving"}
          /\ handler' \in {"arrived", "linked", "serving"}
      BY <2>6 DEF SendResponse, MoveNext, Invoke, Start, Arrive, vars, callVars, mainVars, userVars
    <3>2. QED
      BY <3>1 DEF Responses!ends, Downloading
  <2>7. CASE TimePasses \/ TimerFires \/ ContextCancels \/ NetOver \/ UNCHANGED netSpecVars
    <3>1. UNCHANGED <<out, got, outcome, method, handler>>
      BY <2>7 DEF TimePasses, Tick, TimerFires, ContextCancels, RequestCancellation, NetOver,
                  netSpecVars, netVars, vars, callVars, mainVars, wireVars, userVars
    <3>2. QED
      BY <3>1 DEF Responses!ends, Downloading
  <2>8. QED
    BY <1>2, <2>2, <2>3, <2>4, <2>5, <2>6, <2>7 DEF NetNext, Handler
<1>3. QED
  BY <1>1, <1>2, NetInvHolds, PTL DEF NetSpec, ResponsesPromise, Responses!Spec

=============================================================================
