-------------------------- MODULE ConduitCallProofs --------------------------
(***************************************************************************)
(* Proofs about ConduitCall for every value of its constants: a call is a  *)
(* call of ConduitServer, so that everything proved of the server holds of *)
(* it, and it keeps what CallPromise promises.                             *)
(***************************************************************************)
EXTENDS ConduitCall, ConduitServerProofs

(* How far the client is with the responses of the server.                 *)
ClientInv ==
  /\ pc \in {"idle", "adding"} => main = "created" /\ received = <<>>
  /\ pc \in {"calling", "holding"} => main # "created"
  /\ pc # "over" => outcome = "none"
  /\ main = "created" => deadline = Null
  /\ pc = "holding" => Downloading /\ main \in {"yielded", "last"} /\ Len(received) = Len(out)
                       /\ Len(received) > 0
  /\ pc = "calling" /\ Downloading =>
       Len(out) = Len(received) + IF main \in {"yielded", "last"} THEN 1 ELSE 0
  /\ pc = "calling" /\ ~Downloading => received = <<>>
  /\ pc = "over" => main \in Finished \cup {"created"}

CallInv == IInv /\ CallTypeOK /\ DeadlineWithinRange /\ ClientInv

-----------------------------------------------------------------------------

(* Whatever is set, the duration stored is null or in the documented range.*)
LEMMA SanitisedInRange == \A v \in Settings : SanitiseMaxCallDuration(v) \in Durations
BY NullAssumption, LongestCallAssumption DEF Settings, Durations, SanitiseMaxCallDuration

(* The actions of the server that the client shares.                       *)
LEMMA ServerSteps ==
  ASSUME CallTypeOK, [CallNext]_callSpecVars
  PROVE  [Next]_vars
<1>1. CASE \E v \in Settings : SetMaxCallDuration(v)
  BY <1>1 DEF SetMaxCallDuration
<1>2. CASE User
  BY <1>2 DEF User, UserCancel, UserAsksNext, UserAbandons, Next, Environment
<1>3. CASE Begin
  BY <1>3 DEF Begin, Next, Deadlines
<1>4. CASE AddDuration
  <2>1. CASE duration = Null
    BY <1>4, <2>1 DEF AddDuration
  <2>2. CASE duration # Null
    <3>1. CalculateDeadline(duration, startedAt) \in Deadlines
      BY <2>2, LongestCallAssumption, BoundsAssumption
         DEF CallTypeOK, Durations, CalculateDeadline, Deadlines
    <3>2. Start(CalculateDeadline(duration, startedAt))
      BY <1>4, <2>2 DEF AddDuration
    <3>3. QED
      BY <3>1, <3>2 DEF Next
  <2>3. QED
    BY <2>1, <2>2
<1>5. CASE Receive \/ StreamEnds \/ SingleResult \/ Rethrow \/ CallOver
           \/ UNCHANGED callSpecVars
  BY <1>5 DEF Receive, StreamEnds, SingleResult, Rethrow, CallOver, callSpecVars, Next
<1>6. CASE Elsewhere
  BY <1>6 DEF Elsewhere, Next, Environment
<1> QED
  BY <1>1, <1>2, <1>3, <1>4, <1>5, <1>6 DEF CallNext, Client

(* What a step on the server's side does to the places the client watches. *)
LEMMA ElsewhereSteps ==
  ASSUME IInv, Elsewhere
  PROVE  /\ UNCHANGED <<clientVars, callVars, deadline>>
         /\ main \in Finished \cup {"created", "yielded", "last"} => UNCHANGED <<main, out>>
         /\ main' = "created" => main = "created"
         /\ Downloading =>
              Len(out') - (IF main' \in {"yielded", "last"} THEN 1 ELSE 0)
              = Len(out) - IF main \in {"yielded", "last"} THEN 1 ELSE 0
<1>1. UNCHANGED <<clientVars, callVars, deadline>>
  BY DEF Elsewhere, Tick, Application, AppYield, AppEnd, AppReturn, AppThrow, AppPull,
         Server, ServerMethod, TestAlt, TestCancel, TestDeadline, Return,
         ServerPump, PumpTestCancel, PumpTestDeadline, Requests, CallerYields,
         CallerEnds, envVars
<1>2. CASE Tick \/ AppPull \/ ServerPump \/ Requests
  BY <1>1, <1>2 DEF Tick, AppPull, ServerPump, PumpTestCancel, PumpTestDeadline,
         Requests, CallerYields, CallerEnds, mainVars
<1>3. CASE AppYield \/ AppEnd \/ AppReturn \/ AppThrow
  BY <1>1, <1>3 DEF AppYield, AppEnd, AppReturn, AppThrow, Finished
<1>4. CASE ServerMethod
  <2>1. /\ main \in {"testAlt", "testCancel", "testDeadline", "returning"}
        /\ main' # "created"
    BY <1>4 DEF ServerMethod, TestAlt, TestCancel, TestDeadline, Return, YieldLast
  <2>2. ASSUME Downloading
        PROVE  \/ main' \notin {"yielded", "last"} /\ out' = out
               \/ main' \in {"yielded", "last"} /\ \E r \in NetResponse : out' = Append(out, r)
    <3>1. main # "returning"
      BY <2>2 DEF IInv, StreamInv
    <3>2. \A c \in Verdicts : ControlResponse(c) \in NetResponse
      BY ResponseType DEF Verdicts, ControlCode
    <3>3. PayloadResponse(Len(arrivals)) \in NetResponse
      BY ResponseType DEF IInv, TypeOK
    <3>4. alt \in Verdicts
      BY DEF IInv, TypeOK
    <3>5. CASE TestAlt
      BY <3>2, <3>4, <3>5 DEF TestAlt, YieldLast
    <3>6. CASE TestCancel
      BY <3>2, <3>6 DEF TestCancel, YieldLast, Verdicts
    <3>7. CASE TestDeadline
      BY <3>2, <3>3, <3>7 DEF TestDeadline, YieldLast, Verdicts
    <3>8. QED
      BY <1>4, <3>1, <3>5, <3>6, <3>7 DEF ServerMethod, Return
  <2>3. ASSUME Downloading, main' \in {"yielded", "last"}, NEW r \in NetResponse,
               out' = Append(out, r)
        PROVE  Len(out') = Len(out) + 1 /\ Len(out) \in Nat
    BY <2>3, AppendFacts DEF IInv, TypeOK
  <2>4. ASSUME Downloading
        PROVE  Len(out') - (IF main' \in {"yielded", "last"} THEN 1 ELSE 0) = Len(out)
    <3>1. Len(out) \in Nat
      BY DEF IInv, TypeOK
    <3>2. QED
      BY <2>2, <2>3, <2>4, <3>1
  <2>5. QED
    BY <1>1, <2>1, <2>4 DEF IInv, TypeOK, Finished
<1>5. QED
  BY <1>2, <1>3, <1>4 DEF Elsewhere, Application, Server

(* The last response of a stream, as the client finds it.                  *)
LEMMA LastOfStream ==
  ASSUME IInv, Downloading, main \in {"yielded", "last"}
  PROVE  /\ Len(out) \in Nat /\ Len(out) > 0 /\ Len(arrivals) = Len(out)
         /\ \/ /\ out[Len(out)].Control = "None"
               /\ out[Len(out)].Payload = Len(out)
               /\ ~Late(arrivals[Len(arrivals)])
            \/ /\ out[Len(out)].Control \in {"Timeout", "Cancelled"}
               /\ Justified(out[Len(out)].Control)
<1>1. /\ Len(out) \in Nat /\ Len(out) > 0 /\ Len(arrivals) = Len(out)
      /\ Len(out) \in DOMAIN out
  BY DEF IInv, StreamInv, TypeOK, Testing
<1>2. QED
  BY <1>1 DEF IInv, StreamInv, PayloadResponse

(* The client's step on receiving a response of a stream: it either takes  *)
(* the payload or ends the call with the exception that the code names.    *)
LEMMA ReceiveSteps ==
  ASSUME IInv, ClientInv, Receive
  PROVE  /\ pc = "calling" /\ outcome = "none" /\ Downloading
         /\ main \in {"yielded", "last"}
         /\ UNCHANGED <<callVars, envVars, out, arrivals, duration, startedAt, userCancelled>>
         /\ \/ /\ received' = Append(received, Len(out)) /\ outcome' = "none"
               /\ pc' = "holding" /\ main' = main
               /\ ~Late(arrivals[Len(arrivals)])
            \/ /\ received' = received /\ pc' = "over" /\ main' = "dropped"
               /\ \/ outcome' = "TimeoutException" /\ Expired
                  \/ outcome' = "OperationCanceledException" /\ cancelled
<1>1. pc = "calling" /\ main \in {"yielded", "last"} /\ outcome = "none"
  BY DEF Receive, ClientInv
<1>2. Downloading
  BY <1>1 DEF IInv, SingleInv
<1>3. UNCHANGED <<callVars, envVars, out, arrivals, duration, startedAt, userCancelled>>
  BY DEF Receive, Drop, vars, mainVars
<1>4. CASE /\ out[Len(out)].Control = "None"
           /\ out[Len(out)].Payload = Len(out)
           /\ ~Late(arrivals[Len(arrivals)])
  BY <1>1, <1>2, <1>3, <1>4, ResultOfResponse DEF Receive, vars, mainVars
<1>5. CASE /\ out[Len(out)].Control \in {"Timeout", "Cancelled"}
           /\ Justified(out[Len(out)].Control)
  BY <1>1, <1>2, <1>3, <1>5, ResultOfResponse DEF Receive, Drop, Justified
<1>6. QED
  BY <1>1, <1>2, <1>4, <1>5, LastOfStream

(* The client's own variables and places, step by step.                    *)
LEMMA CallInductive == CallInv /\ [CallNext]_callSpecVars => CallInv'
<1> SUFFICES ASSUME CallInv, [CallNext]_callSpecVars PROVE CallInv'
  OBVIOUS
<1> USE DEF CallInv
<1>0. IInv'
  BY ServerSteps, InvariantInductive
<1>1. ASSUME NEW v \in Settings, SetMaxCallDuration(v) PROVE CallInv'
  <2>1. SanitiseMaxCallDuration(v) \in Durations
    BY SanitisedInRange
  <2>2. QED
    BY <1>0, <1>1, <2>1 DEF SetMaxCallDuration, CallTypeOK, DeadlineWithinRange, ClientInv,
                  vars, callVars, envVars, mainVars, Downloading
<1>2. CASE Begin
  <2>1. CASE control = "GetAppInfo" \/ duration = Null
    BY <1>0, <1>2, <2>1 DEF Begin, Start, CallTypeOK, DeadlineWithinRange, ClientInv,
                  callVars, Downloading, IInv, TypeOK, NotStarted
  <2>2. CASE ~(control = "GetAppInfo" \/ duration = Null)
    BY <1>0, <1>2, <2>2 DEF Begin, CallTypeOK, DeadlineWithinRange, ClientInv,
                  vars, callVars, envVars, mainVars, Downloading, IInv, TypeOK
  <2>3. QED
    BY <2>1, <2>2
<1>3. CASE AddDuration
  <2>1. CASE duration = Null
    BY <1>0, <1>3, <2>1 DEF AddDuration, CallTypeOK, DeadlineWithinRange, ClientInv,
                  vars, callVars, envVars, mainVars, Downloading, Outcomes
  <2>2. CASE duration # Null
    <3>1. /\ pc = "adding" /\ pc' = "calling" /\ main = "created" /\ main' = "awaiting"
          /\ deadline' = startedAt + duration
          /\ UNCHANGED <<callVars, out, arrivals, outcome, duration, startedAt,
                         userCancelled, received>>
      BY <1>3, <2>2 DEF AddDuration, Start, CalculateDeadline
    <3>2. duration \in 0 .. LongestCall /\ startedAt \in Nat
      BY <2>2, BoundsAssumption DEF CallTypeOK, Durations
    <3>3. out = <<>> /\ received = <<>>
      BY <3>1 DEF IInv, NotStarted, ClientInv
    <3>4. CallTypeOK'
      BY <3>1 DEF CallTypeOK
    <3>5. DeadlineWithinRange'
      BY <3>1, <3>2, LongestCallAssumption DEF DeadlineWithinRange
    <3>6. ClientInv'
      BY <3>1, <3>3 DEF ClientInv, Downloading, callVars
    <3>7. QED
      BY <1>0, <3>4, <3>5, <3>6
  <2>3. QED
    BY <2>1, <2>2
<1>4. CASE UserCancel
  <2>1. /\ UNCHANGED <<callVars, deadline, now, mainVars, duration, pc, startedAt, received, outcome>>
        /\ userCancelled' = TRUE
    BY <1>4 DEF UserCancel, RequestCancellation, vars, envVars
  <2>2. userCancelled' \in BOOLEAN
    BY <2>1, Zenon
  <2>3. QED
    BY <1>0, <2>1, <2>2 DEF CallTypeOK, DeadlineWithinRange, ClientInv, callVars, mainVars,
                  Downloading
<1>5. CASE UserAsksNext \/ UserAbandons
  BY <1>0, <1>5 DEF UserAsksNext, UserAbandons, MoveNext, Drop, CallTypeOK, Outcomes,
                  DeadlineWithinRange, ClientInv, callVars, envVars, Downloading, Finished
<1>6. CASE Receive
  <2>1. /\ pc = "calling" /\ outcome = "none" /\ Downloading
        /\ main \in {"yielded", "last"}
        /\ UNCHANGED <<callVars, envVars, out, arrivals, duration, startedAt, userCancelled>>
    BY <1>6, ReceiveSteps
  <2>2. Len(out) = Len(received) + 1 /\ Len(out) \in Nat /\ Len(received) \in Nat
    BY <2>1 DEF ClientInv, CallTypeOK, IInv, TypeOK
  <2>3. CASE /\ received' = Append(received, Len(out)) /\ outcome' = "none"
             /\ pc' = "holding" /\ main' = main
    <3>1. received' \in Seq(Nat) /\ Len(received') = Len(received) + 1
      BY <2>2, <2>3, AppendFacts DEF CallTypeOK
    <3>2. CallTypeOK'
      BY <2>1, <2>3, <3>1 DEF CallTypeOK, Outcomes
    <3>3. ClientInv'
      BY <2>1, <2>2, <2>3, <3>1 DEF ClientInv, Downloading, callVars, envVars
    <3>4. QED
      BY <1>0, <2>1, <3>2, <3>3 DEF DeadlineWithinRange, envVars
  <2>4. CASE /\ received' = received /\ pc' = "over" /\ main' = "dropped"
             /\ outcome' \in {"TimeoutException", "OperationCanceledException"}
    BY <1>0, <2>1, <2>4 DEF CallTypeOK, Outcomes, DeadlineWithinRange, ClientInv, Finished,
                  callVars, envVars, Downloading
  <2>5. QED
    BY <1>6, <2>3, <2>4, ReceiveSteps
<1>7. CASE StreamEnds \/ Rethrow
  BY <1>0, <1>7 DEF StreamEnds, Rethrow, CallTypeOK, Outcomes, DeadlineWithinRange, ClientInv,
                  vars, callVars, envVars, mainVars, Downloading, Finished
<1>8. CASE SingleResult
  <2>1. /\ pc = "calling" /\ pc' = "over" /\ ~Downloading /\ main = "done"
        /\ UNCHANGED <<vars, duration, startedAt, userCancelled>>
    BY <1>8 DEF SingleResult
  <2>2. outcome' \in Outcomes /\ received' \in Seq(Nat)
    <3>1. /\ Len(out) = 1
          /\ \/ HandleResponse(out[1].Control) = "ok" /\ out[1].Payload = 1
             \/ HandleResponse(out[1].Control) \in
                  {"TimeoutException", "OperationCanceledException"}
      BY <2>1, SingleResponse, ResultOfResponse
    <3>2. \/ outcome' = "ok" /\ received' = <<1>>
          \/ /\ outcome' \in {"TimeoutException", "OperationCanceledException"}
             /\ received' = received
      BY <1>8, <3>1 DEF SingleResult
    <3>3. <<1>> \in Seq(Nat)
      OBVIOUS
    <3>4. QED
      BY <3>2, <3>3 DEF Outcomes, CallTypeOK
  <2>3. QED
    BY <1>0, <2>1, <2>2 DEF CallTypeOK, DeadlineWithinRange, ClientInv, Finished,
                  vars, callVars, envVars, mainVars, Downloading
<1>9. CASE Elsewhere
  <2>1. /\ UNCHANGED <<clientVars, callVars, deadline>>
        /\ main \in Finished \cup {"created", "yielded", "last"} => UNCHANGED <<main, out>>
        /\ main' = "created" => main = "created"
        /\ Downloading =>
              Len(out') - (IF main' \in {"yielded", "last"} THEN 1 ELSE 0)
              = Len(out) - IF main \in {"yielded", "last"} THEN 1 ELSE 0
    BY <1>9, ElsewhereSteps
  <2>2. Len(out) \in Nat /\ Len(out') \in Nat /\ Len(received) \in Nat
    BY <1>0 DEF IInv, TypeOK, CallTypeOK
  <2>3. CallTypeOK' /\ DeadlineWithinRange'
    BY <2>1 DEF CallTypeOK, DeadlineWithinRange, clientVars
  <2>4. ClientInv'
    BY <2>1, <2>2 DEF ClientInv, clientVars, Downloading, callVars, Finished
  <2>5. QED
    BY <1>0, <2>3, <2>4
<1>10. CASE CallOver \/ UNCHANGED callSpecVars
  BY <1>0, <1>10 DEF CallOver, callSpecVars, clientVars, CallTypeOK, DeadlineWithinRange,
                  ClientInv, vars, callVars, envVars, mainVars, Downloading
<1> QED
  BY <1>1, <1>2, <1>3, <1>4, <1>5, <1>6, <1>7, <1>8, <1>9, <1>10
     DEF CallNext, User, Client

-----------------------------------------------------------------------------
(* The theorems.                                                           *)

(* A call that has not begun satisfies the invariant.                      *)
LEMMA CallInvInit == CallInit => CallInv
<1> SUFFICES ASSUME CallInit PROVE CallInv
  OBVIOUS
<1>1. IInv
  BY InvariantInit DEF CallInit
<1>2. userCancelled \in BOOLEAN
  BY Zenon DEF CallInit
<1>3. CallTypeOK
  BY <1>2, SanitisedInRange, BoundsAssumption DEF CallInit, CallTypeOK, Outcomes
<1>4. DeadlineWithinRange /\ ClientInv
  BY DEF CallInit, Init, DeadlineWithinRange, ClientInv
<1>5. QED
  BY <1>1, <1>3, <1>4 DEF CallInv

(* The invariant holds throughout every call.                              *)
THEOREM CallInvHolds == CallSpec => []CallInv
BY CallInvInit, CallInductive, PTL DEF CallSpec

(* The client's variables keep to their domains.                           *)
THEOREM CallTypeCorrect == CallSpec => []CallTypeOK
<1>1. CallInv => CallTypeOK
  BY DEF CallInv
<1>2. QED
  BY <1>1, CallInvHolds, PTL

(* No call gets a deadline outside the documented range, whatever is set   *)
(* while the deadline is being computed.                                   *)
THEOREM DeadlineWithinRangeHolds == CallSpec => []DeadlineWithinRange
<1>1. CallInv => DeadlineWithinRange
  BY DEF CallInv
<1>2. QED
  BY <1>1, CallInvHolds, PTL

(* Once the user has an outcome nothing of the call is left on the server. *)
THEOREM NoOrphanedStreamHolds == CallSpec => []NoOrphanedStream
<1>1. CallInv => NoOrphanedStream
  BY DEF CallInv, CallTypeOK, ClientInv, NoOrphanedStream
<1>2. QED
  BY <1>1, CallInvHolds, PTL

(* The client's steps are made of the server's, so that a theorem about    *)
(* ConduitServer holds of the calls of a ConduitClient.                    *)
LEMMA CallIsServerCall == CallSpec => Spec
<1>1. CallInit => Init
  BY DEF CallInit
<1>2. CallInv /\ [CallNext]_callSpecVars => [Next]_vars
  BY ServerSteps DEF CallInv
<1>3. QED
  BY <1>1, <1>2, CallInvHolds, PTL DEF CallSpec, Spec

(* So a user of the client, too, is never handed a late answer as data.    *)
THEOREM ClientLateNeverDelivered == CallSpec => []LateNeverDelivered
BY CallIsServerCall, LateNeverDeliveredHolds, PTL

-----------------------------------------------------------------------------
(* The refinement of CallPromise.                                          *)

(* A step that only lets time pass, or the token be cancelled, or that the *)
(* promise does not see.                                                   *)
LEMMA QuietStep ==
  ASSUME UNCHANGED <<callVars, arrivals, received, outcome>>,
         Expired => Expired', cancelled => cancelled'
  PROVE  Promise!Cut
BY DEF Promise!Cut, callVars, Downloading

(* An answer of the application is the promise's Answer.                   *)
LEMMA AnswerStep ==
  ASSUME CallInv, CallInv', UNCHANGED <<callVars, envVars, clientVars>>, main = "awaiting",
         arrivals' = Append(arrivals, Arrival)
  PROVE  Promise!Answer
<1>1. Arrival \in Arrivals
  BY DEF Arrival, Arrivals, Verdict, Verdicts, CallInv, IInv, TypeOK
<1>2. /\ Len(arrivals') = Len(arrivals) + 1 /\ Len(arrivals) \in Nat
      /\ arrivals'[Len(arrivals')] = Arrival
  BY <1>1, AppendFacts DEF CallInv, IInv, TypeOK
<1>3. Arrival.verdict # "None" <=> (Expired \/ cancelled)
  BY DEF Arrival, Verdict, Expired, DeadlineExceeded, CallInv, IInv, TypeOK
<1>4. pc = "calling" /\ outcome = "none"
  BY DEF CallInv, ClientInv, CallTypeOK, Finished
<1>5. Len(arrivals) = Len(received)
  <2>1. CASE Downloading
    BY <1>4, <2>1 DEF CallInv, ClientInv, IInv, StreamInv, TypeOK, CallTypeOK, Testing
  <2>2. CASE ~Downloading
    BY <1>4, <2>2 DEF CallInv, ClientInv, IInv, SingleInv
  <2>3. QED
    BY <2>1, <2>2
<1>6. arrivals' # <<>>
  BY <1>2
<1>7. (arrivals' # <<>> /\ arrivals'[Len(arrivals')].verdict # "None") = (Expired \/ cancelled)
  BY <1>2, <1>3, <1>6 DEF CallInv, IInv, TypeOK, Expired
<1>8. Expired' = Expired /\ cancelled' = cancelled /\ Downloading' = Downloading
      /\ received' = received /\ outcome' = outcome
  BY DEF Expired, Downloading, callVars, envVars, clientVars
<1>9. QED
  BY <1>2, <1>4, <1>5, <1>7, <1>8 DEF Promise!Answer

(* A step of the client that hands a payload or an outcome to the user.    *)
LEMMA ReceiveIsPromised ==
  ASSUME CallInv, Receive
  PROVE  Promise!Deliver \/ \E r \in Outcomes \ {"none", "ok"} : Promise!Fail(r)
<1>1. /\ pc = "calling" /\ outcome = "none" /\ Downloading
      /\ main \in {"yielded", "last"}
      /\ UNCHANGED <<callVars, envVars, out, arrivals, duration, startedAt, userCancelled>>
  BY ReceiveSteps DEF CallInv
<1>2. /\ Len(arrivals) = Len(out) /\ Len(out) = Len(received) + 1
      /\ Len(arrivals) \in Nat /\ Len(received) \in Nat
  BY <1>1, LastOfStream DEF CallInv, ClientInv, CallTypeOK
<1>3. Expired' = Expired /\ cancelled' = cancelled /\ Downloading' = Downloading
      /\ arrivals' = arrivals
  BY <1>1 DEF Expired, Downloading, callVars, envVars
<1>4. CASE /\ received' = Append(received, Len(out)) /\ outcome' = "none"
           /\ ~Late(arrivals[Len(arrivals)])
  <2>1. arrivals[Len(arrivals)].verdict = "None"
    BY <1>4 DEF Late
  <2>2. Promise!Deliver
    BY <1>1, <1>2, <1>3, <1>4, <2>1 DEF Promise!Deliver
  <2>3. QED
    BY <2>2
<1>5. CASE received' = received /\ outcome' = "TimeoutException" /\ Expired
  <2>1. Promise!Fail("TimeoutException")
    BY <1>1, <1>3, <1>5 DEF Promise!Fail
  <2>2. QED
    BY <2>1 DEF Outcomes
<1>6. CASE received' = received /\ outcome' = "OperationCanceledException" /\ cancelled
  <2>1. Promise!Fail("OperationCanceledException")
    BY <1>1, <1>3, <1>6 DEF Promise!Fail
  <2>2. QED
    BY <2>1 DEF Outcomes
<1>7. QED
  BY <1>4, <1>5, <1>6, ReceiveSteps DEF CallInv

(* The single result is delivered, or replaced by a verdict that is true.  *)
LEMMA SingleIsPromised ==
  ASSUME CallInv, SingleResult
  PROVE  Promise!Deliver \/ \E r \in Outcomes \ {"none", "ok"} : Promise!Fail(r)
<1>1. /\ pc = "calling" /\ outcome = "none" /\ ~Downloading /\ main = "done"
      /\ UNCHANGED vars /\ received = <<>>
  BY DEF SingleResult, CallInv, ClientInv
<1>2. Expired' = Expired /\ cancelled' = cancelled /\ Downloading' = Downloading
      /\ arrivals' = arrivals
  BY <1>1 DEF vars, callVars, envVars, mainVars, Expired, Downloading
<1>3. Len(out) = 1 /\ Len(arrivals) = 1
  BY <1>1, SingleResponse DEF CallInv
<1>4. CASE out[1].Control \in {"None", "GetAppInfo"} /\ out[1].Payload = 1
  <2>1. outcome' = "ok" /\ received' = <<1>>
    BY <1>3, <1>4, ResultOfResponse DEF SingleResult
  <2>2. Len(received) = 0 /\ <<1>> = Append(received, Len(received) + 1)
    BY <1>1
  <2>3. Promise!Deliver
    BY <1>1, <1>2, <1>3, <2>1, <2>2 DEF Promise!Deliver
  <2>4. QED
    BY <2>3
<1>5. CASE out[1].Control = "Timeout" /\ Expired
  <2>1. outcome' = "TimeoutException" /\ received' = received
    BY <1>3, <1>5, ResultOfResponse DEF SingleResult
  <2>2. Promise!Fail("TimeoutException")
    BY <1>1, <1>2, <1>5, <2>1 DEF Promise!Fail
  <2>3. QED
    BY <2>2 DEF Outcomes
<1>6. CASE out[1].Control = "Cancelled" /\ cancelled
  <2>1. outcome' = "OperationCanceledException" /\ received' = received
    BY <1>3, <1>6, ResultOfResponse DEF SingleResult
  <2>2. Promise!Fail("OperationCanceledException")
    BY <1>1, <1>2, <1>6, <2>1 DEF Promise!Fail
  <2>3. QED
    BY <2>2 DEF Outcomes
<1>7. QED
  BY <1>1, <1>4, <1>5, <1>6, SingleResponse DEF CallInv, Justified

(* The steps that end the call for the user in another way.                *)
LEMMA EndIsPromised ==
  ASSUME CallInv, StreamEnds \/ Rethrow \/ UserAbandons
  PROVE  Promise!Complete \/ \E r \in Outcomes \ {"none", "ok"} : Promise!Fail(r)
<1>1. outcome = "none" /\ Expired' = Expired /\ cancelled' = cancelled
      /\ Downloading' = Downloading /\ arrivals' = arrivals /\ received' = received
  BY DEF StreamEnds, Rethrow, UserAbandons, Drop, CallInv, ClientInv, vars, callVars,
         envVars, mainVars, Expired, Downloading
<1>2. CASE StreamEnds
  <2>1. Len(received) = Len(arrivals)
    BY <1>2 DEF StreamEnds, CallInv, ClientInv, IInv, StreamInv, TypeOK, CallTypeOK, Testing
  <2>2. QED
    BY <1>1, <1>2, <2>1 DEF StreamEnds, Promise!Complete
<1>3. CASE Rethrow
  <2>1. pc = "calling" /\ main = "threw" /\ outcome' = "AppException"
    BY <1>3 DEF Rethrow
  <2>2. Len(received) = Len(arrivals)
    <3>1. CASE Downloading
      BY <2>1, <3>1 DEF CallInv, ClientInv, IInv, StreamInv, TypeOK, CallTypeOK, Testing
    <3>2. CASE ~Downloading
      BY <2>1, <3>2 DEF CallInv, ClientInv, IInv, SingleInv
    <3>3. QED
      BY <3>1, <3>2
  <2>3. Promise!Fail("AppException")
    BY <1>1, <2>1, <2>2 DEF Promise!Fail
  <2>4. QED
    BY <2>3 DEF Outcomes
<1>4. CASE UserAbandons
  <2>1. received # <<>> /\ outcome' = "abandoned"
    BY <1>4 DEF UserAbandons, CallInv, ClientInv, CallTypeOK
  <2>2. Promise!Fail("abandoned")
    BY <1>1, <2>1 DEF Promise!Fail
  <2>3. QED
    BY <2>2 DEF Outcomes
<1>5. QED
  BY <1>2, <1>3, <1>4

(* The call that ends before it begins: MaxCallDuration was reset while    *)
(* its deadline was being computed.                                        *)
LEMMA ResetIsPromised ==
  ASSUME CallInv, AddDuration, duration = Null
  PROVE  \E r \in Outcomes \ {"none", "ok"} : Promise!Fail(r)
<1>1. /\ outcome = "none" /\ outcome' = "InvalidOperationException"
      /\ UNCHANGED <<vars, received>> /\ Len(arrivals) = 0
  BY DEF AddDuration, CallInv, ClientInv, IInv, NotStarted
<1>2. Expired' = Expired /\ cancelled' = cancelled
      /\ Downloading' = Downloading /\ arrivals' = arrivals
  BY <1>1 DEF vars, callVars, envVars, mainVars, Expired, Downloading
<1>3. Promise!Fail("InvalidOperationException")
  BY <1>1, <1>2 DEF Promise!Fail
<1>4. QED
  BY <1>3 DEF Outcomes

(* A call of a ConduitClient keeps what CallPromise promises.              *)
THEOREM CallKeepsPromise == CallSpec => PromiseSpec
<1>1. CallInit => Promise!Init
  BY DEF CallInit, Init, Promise!Init, Expired, Downloading
<1>2. ASSUME CallInv, CallInv', [CallNext]_callSpecVars PROVE [Promise!Next]_(Promise!vars)
  <2>0. [Next]_vars
    BY <1>2, ServerSteps DEF CallInv
  <2>1. main # "created" => (Expired => Expired') /\ (cancelled => cancelled')
    BY <2>0, <1>2, JustifiedStable DEF CallInv, IInv, Justified
  <2>2. ASSUME UNCHANGED <<callVars, deadline, arrivals, received, outcome>> PROVE Promise!Cut
    <3>1. (Expired => Expired') /\ (cancelled => cancelled')
      <4>1. CASE main # "created"
        BY <2>1, <4>1
      <4>2. CASE main = "created"
        <5>1. ~Expired
          BY <4>2, <1>2 DEF CallInv, ClientInv, Expired
        <5>2. cancelled => cancelled'
          BY <2>0 DEF Next, Environment, Tick, RequestCancellation, Start, MoveNext, Drop,
             Application, AppYield, AppEnd, AppReturn, AppThrow, AppPull,
             Server, ServerMethod, TestAlt, TestCancel, TestDeadline, Return,
             ServerPump, PumpTestCancel, PumpTestDeadline,
             Requests, CallerYields, CallerEnds, Over, vars, envVars
        <5>3. QED
          BY <5>1, <5>2
      <4>3. QED
        BY <4>1, <4>2
    <3>2. QED
      BY <2>2, <3>1, QuietStep
  <2>3. CASE (\E v \in Settings : SetMaxCallDuration(v)) \/ UserCancel \/ UserAsksNext
             \/ CallOver \/ UNCHANGED callSpecVars
    <3>1. UNCHANGED <<callVars, deadline, arrivals, received, outcome>>
      BY <2>3 DEF SetMaxCallDuration, UserCancel, RequestCancellation, UserAsksNext,
           MoveNext, CallOver, callSpecVars, clientVars, vars, envVars, mainVars
    <3>2. QED
      BY <2>2, <3>1 DEF Promise!Next
  <2>4. CASE Begin \/ (AddDuration /\ duration # Null)
    <3>1. /\ UNCHANGED <<callVars, cancelled, arrivals, received, outcome>>
          /\ main = "created"
      BY <2>4, <1>2 DEF Begin, AddDuration, Start, vars, envVars, mainVars, CallInv, ClientInv
    <3>2. ~Expired
      BY <3>1, <1>2 DEF CallInv, ClientInv, Expired
    <3>3. QED
      BY <3>1, <3>2, QuietStep DEF Promise!Next
  <2>5. CASE AddDuration /\ duration = Null
    BY <1>2, <2>5, ResetIsPromised DEF Promise!Next, Promise!Outcomes, Outcomes
  <2>6. CASE Receive
    BY <1>2, <2>6, ReceiveIsPromised DEF Promise!Next, Promise!Outcomes, Outcomes
  <2>7. CASE SingleResult
    BY <1>2, <2>7, SingleIsPromised DEF Promise!Next, Promise!Outcomes, Outcomes
  <2>8. CASE StreamEnds \/ Rethrow \/ UserAbandons
    BY <1>2, <2>8, EndIsPromised DEF Promise!Next, Promise!Outcomes, Outcomes
  <2>9. CASE Elsewhere /\ (AppYield \/ AppReturn)
    <3>1. /\ UNCHANGED <<callVars, envVars, clientVars>> /\ main = "awaiting"
          /\ arrivals' = Append(arrivals, Arrival)
      BY <2>9 DEF Elsewhere, AppYield, AppReturn
    <3>2. QED
      BY <1>2, <3>1, AnswerStep DEF Promise!Next
  <2>10. CASE Elsewhere /\ ~(AppYield \/ AppReturn)
    <3>1. UNCHANGED <<callVars, deadline, arrivals, received, outcome>>
      BY <2>10 DEF Elsewhere, Tick, Application, AppEnd, AppThrow, AppPull,
         Server, ServerMethod, TestAlt, TestCancel, TestDeadline, Return,
         ServerPump, PumpTestCancel, PumpTestDeadline, Requests, CallerYields,
         CallerEnds, envVars, mainVars, clientVars
    <3>2. QED
      BY <2>2, <3>1 DEF Promise!Next
  <2>11. QED
    BY <1>2, <2>3, <2>4, <2>5, <2>6, <2>7, <2>8, <2>9, <2>10 DEF CallNext, User, Client
<1>3. QED
  BY <1>1, <1>2, CallInvHolds, PTL DEF CallSpec, PromiseSpec, Promise!Spec

-----------------------------------------------------------------------------

(* How far the finding on ConduitClient.cs:94 goes: every call that is not *)
(* GetAppInfo has a deadline if MaxCallDuration was not null when the call *)
(* was made, also when it is set from another thread at that time.         *)
OtherCallsHaveDeadline ==
  main # "created" /\ duration # Null /\ control # "GetAppInfo" => deadline # Null

(* No call but GetAppInfo goes without the deadline MaxCallDuration asks.  *)
THEOREM OtherCallsHaveDeadlineHolds == CallSpec => []OtherCallsHaveDeadline
<1>1. CallInit => OtherCallsHaveDeadline
  BY DEF CallInit, Init, OtherCallsHaveDeadline
<1>2. ASSUME CallInv, OtherCallsHaveDeadline, [CallNext]_callSpecVars
      PROVE  OtherCallsHaveDeadline'
  <2> USE <1>2 DEF OtherCallsHaveDeadline
  <2>1. CASE \E v \in Settings : SetMaxCallDuration(v)
    BY <2>1 DEF SetMaxCallDuration, CallInv, ClientInv, vars, callVars, envVars, mainVars
  <2>2. CASE Begin
    BY <2>2 DEF Begin, Start, vars, callVars, envVars, mainVars, CallInv, ClientInv
  <2>3. CASE AddDuration
    <3>1. CASE duration = Null
      BY <2>3, <3>1 DEF AddDuration
    <3>2. CASE duration # Null
      <4>1. CalculateDeadline(duration, startedAt) \in Int
        BY <3>2, LongestCallAssumption, BoundsAssumption
           DEF CallInv, CallTypeOK, Durations, CalculateDeadline
      <4>2. deadline' = CalculateDeadline(duration, startedAt)
        BY <2>3, <3>2 DEF AddDuration, Start
      <4> QED
        BY <4>1, <4>2, NullAssumption
    <3> QED
      BY <3>1, <3>2
  <2>4. CASE User \/ Receive \/ StreamEnds \/ SingleResult \/ Rethrow \/ CallOver
             \/ UNCHANGED callSpecVars
    <3>1. UNCHANGED <<duration, callVars, deadline>> /\ (main' # "created" => main # "created")
      BY <2>4 DEF User, UserCancel, RequestCancellation, UserAsksNext, MoveNext, UserAbandons,
                  Drop, Receive, StreamEnds, SingleResult, Rethrow, CallOver, callSpecVars,
                  clientVars, vars, envVars, mainVars
    <3> QED
      BY <3>1 DEF callVars
  <2>5. CASE Elsewhere
    <3>1. UNCHANGED <<duration, control, deadline>> /\ (main' # "created" => main # "created")
      BY <2>5, ElsewhereSteps DEF CallInv, clientVars, callVars
    <3> QED
      BY <3>1
  <2>6. QED
    BY <2>1, <2>2, <2>3, <2>4, <2>5 DEF CallNext, Client
<1>3. QED
  BY <1>1, <1>2, CallInvHolds, PTL DEF CallSpec

=============================================================================
