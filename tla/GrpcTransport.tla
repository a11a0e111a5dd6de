--------------------------- MODULE GrpcTransport ---------------------------
(***************************************************************************)
(* One call of GrpcConduitClient over a gRPC channel to GrpcService, which *)
(* hands it to the INetConduit behind it.                                  *)
(*                                                                         *)
(* Three threads of control meet in a call: the method of the client with  *)
(* its response loop, the push task that forwards the caller's requests,   *)
(* and the handler of the service.  Between them is the gRPC library,      *)
(* modelled from how both sides use it: messages of a direction arrive in  *)
(* order, the status comes after the last response, the half-close after   *)
(* the last request; a call that the client ends early fails its pending   *)
(* and its later operations at once and the service learns of it in time.  *)
(*                                                                         *)
(* Messages are counted, not named.  The one request of UnaryRequest and   *)
(* ServerStream travels with the call and the one response of UnaryRequest *)
(* and ClientStream with the status.                                       *)
(***************************************************************************)
EXTENDS Conduits

CONSTANT MaxItems   (* bound: how many items either stream carries         *)

ASSUME MaxItemsAssumption == MaxItems \in Nat

VARIABLES
  method,           (* the method called                                   *)
  hasDeadline,      (* deadlineUtc.HasValue                                *)
  cancelled,        (* the caller's token                                  *)
  disposed,         (* _disposed of the client                             *)
  client,           (* where the method of the client is                   *)
  outcome,          (* how it ended for its caller                         *)
  got,              (* how many responses it has yielded                   *)
  push,             (* where the push task is                              *)
  taken,            (* how many requests the push task took from the caller*)
  wire,             (* the call as the client's gRPC library sees it       *)
  sent,             (* how many requests were written                      *)
  halfClosed,       (* CompleteAsync reached the wire                      *)
  handler,          (* where the handler of the service is                 *)
  reader,           (* what its request stream has told it                 *)
  fed,              (* how many requests it has read                       *)
  down,             (* how many responses it has written                   *)
  status,           (* the status it has sent                              *)
  serverCancelled   (* the token of its ServerCallContext                  *)

terms    == <<method, hasDeadline>>
callSide == <<client, outcome, got>>
pushSide == <<push, taken, sent, halfClosed>>
service  == <<handler, reader, fed, down, status, serverCancelled>>
vars == <<terms, cancelled, disposed, callSide, pushSide, wire, service>>

Uploading   == {"ClientStream", "DuplexStream"}
Downloading == {"ServerStream", "DuplexStream"}

(* The call is open, over with a status, or was ended early: by the token, *)
(* by the deadline, by Dispose of the call or the channel, by the network. *)
Aborted == {"cancelled", "expired", "disposed", "lost"}
Wire == {"none", "open", "finished"} \cup Aborted

ClientPlaces == {"created", "waiting", "testToken", "holding", "awaitPush", "over"}
Outcomes == {"none", "ended", "answered", "threw", "dropped"}
HandlerPlaces == {"none", "running", "returned", "threw"}
PushPlaces == {"none", "queued", "pulling", "ended", "faulted", "cancelled"}

Init ==
  /\ method \in Methods /\ hasDeadline \in BOOLEAN
  /\ cancelled = FALSE /\ disposed = FALSE
  /\ client = "created" /\ outcome = "none" /\ got = 0
  /\ push = "none" /\ taken = 0 /\ sent = 0 /\ halfClosed = FALSE
  /\ wire = "none"
  /\ handler = "none" /\ reader = "open" /\ fed = 0
  /\ down = 0 /\ status = "none" /\ serverCancelled = FALSE

-----------------------------------------------------------------------------
(* The surroundings of the call.                                           *)

(* Mutant: ClientStream does not pass its token to the call.               *)
TokenPassedButToClientStream == Methods \ {"ClientStream"}

(* The methods that pass the caller's token to the call.                   *)
TokenPassed == Methods

(* Only a call that is open can be ended early.                            *)
AbortAs(w, cause) == IF w = "open" THEN cause ELSE w

CallerCancels ==
  /\ ~cancelled
  /\ cancelled' = TRUE
  /\ wire' = IF method \in TokenPassed THEN AbortAs(wire, "cancelled") ELSE wire
  /\ UNCHANGED <<terms, disposed, callSide, pushSide, service>>

ClientDeadline ==
  /\ hasDeadline /\ wire = "open"
  /\ wire' = "expired"
  /\ UNCHANGED <<terms, cancelled, disposed, callSide, pushSide, service>>

ConnectionLost ==
  /\ wire = "open"
  /\ wire' = "lost"
  /\ UNCHANGED <<terms, cancelled, disposed, callSide, pushSide, service>>

(* GrpcConduitClient.DisposeAsync: a second one returns at once.           *)
DisposeAsync ==
  /\ ~disposed
  /\ disposed' = TRUE
  /\ wire' = AbortAs(wire, "disposed")
  /\ UNCHANGED <<terms, cancelled, callSide, pushSide, service>>

-----------------------------------------------------------------------------
(* The method of the client.                                               *)

(* Mutant: the call is not declared with using.                            *)
LeftOpen(w) == w

(* What leaving the method does to the call: the two methods with a push   *)
(* task dispose of it, the others do not.                                  *)
Left(w) == IF method \in Uploading THEN AbortAs(w, "disposed") ELSE w

Leave(how) == client' = "over" /\ outcome' = how /\ UNCHANGED got

(* UnaryRequest and ClientStream are called, or a stream is first asked    *)
(* for a response.                                                         *)
Call ==
  /\ client = "created"
  /\ \/ /\ disposed
        /\ Leave("threw")
        /\ UNCHANGED <<push, wire>>
     \/ /\ ~disposed
        /\ wire' \in IF cancelled /\ method \in TokenPassed THEN {"cancelled"}
                     ELSE IF hasDeadline THEN {"open", "expired"} ELSE {"open"}
        /\ push' = IF method \in Uploading THEN "queued" ELSE "none"
        /\ client' = IF method = "ClientStream" THEN "awaitPush" ELSE "waiting"
        /\ UNCHANGED <<outcome, got>>
  /\ UNCHANGED <<terms, cancelled, disposed, taken, sent, halfClosed, service>>

(* MoveNext returns true.                                                  *)
ReceiveMessage ==
  /\ client = "waiting" /\ method \in Downloading
  /\ wire = "open" /\ got < down
  /\ client' = "testToken"
  /\ UNCHANGED <<terms, cancelled, disposed, outcome, got, pushSide, wire, service>>

(* Mutant: the push task is not awaited.                                   *)
LeaveLoopAtOnce(w) == Leave("ended") /\ wire' = Left(w)

(* The code after the loop of ServerStream and of DuplexStream.            *)
LeaveLoop(w) ==
  IF method = "DuplexStream"
  THEN client' = "awaitPush" /\ wire' = w /\ UNCHANGED <<outcome, got>>
  ELSE Leave("ended") /\ wire' = Left(w)

(* !cancellation.IsCancellationRequested, and the response is yielded; or  *)
(* the loop ends, without an exception and without this response.          *)
TestToken ==
  /\ client = "testToken"
  /\ \/ /\ cancelled
        /\ LeaveLoop(wire)
     \/ /\ ~cancelled
        /\ client' = "holding" /\ got' = got + 1
        /\ UNCHANGED <<outcome, wire>>
  /\ UNCHANGED <<terms, cancelled, disposed, pushSide, service>>

CallerAsksNext ==
  /\ client = "holding"
  /\ client' = "waiting"
  /\ UNCHANGED <<terms, cancelled, disposed, outcome, got, pushSide, wire, service>>

(* The caller leaves its await foreach early: the iterator is disposed of. *)
CallerAbandons ==
  /\ client = "holding"
  /\ Leave("dropped")
  /\ wire' = Left(wire)
  /\ UNCHANGED <<terms, cancelled, disposed, pushSide, service>>

(* MoveNext returns false: there is no more, and the status is OK.         *)
EndOfResponses ==
  /\ client = "waiting" /\ method \in Downloading
  /\ wire = "open" /\ got = down /\ status = "OK"
  /\ LeaveLoop("finished")
  /\ UNCHANGED <<terms, cancelled, disposed, pushSide, service>>

(* The await of the single response.                                       *)
Answer ==
  /\ client = "waiting" /\ method \notin Downloading
  /\ wire = "open" /\ status = "OK"
  /\ Leave("answered")
  /\ wire' = "finished"
  /\ UNCHANGED <<terms, cancelled, disposed, pushSide, service>>

(* MoveNext, or the await of the single response, throws: the call was     *)
(* ended early, or has come to a status that is not OK.                    *)
Fail ==
  /\ client = "waiting"
  /\ \/ wire \in Aborted /\ wire' = wire
     \/ wire = "open" /\ got = down /\ status = "failed" /\ wire' = "finished"
  /\ Leave("threw")
  /\ UNCHANGED <<terms, cancelled, disposed, pushSide, service>>

(* await pushTask: goes on when the task has ended, throws what it threw.  *)
PushAwaited ==
  /\ client = "awaitPush"
  /\ \/ /\ push = "ended"
        /\ IF method = "ClientStream"
           THEN client' = "waiting" /\ UNCHANGED <<outcome, got, wire>>
           ELSE Leave("ended") /\ wire' = Left(wire)
     \/ /\ push \in {"faulted", "cancelled"}
        /\ Leave("threw")
        /\ wire' = Left(wire)
  /\ UNCHANGED <<terms, cancelled, disposed, pushSide, service>>

-----------------------------------------------------------------------------
(* The push task.                                                          *)

(* Task.Run does not start a task whose token is cancelled.                *)
StartPush ==
  /\ push = "queued"
  /\ push' = IF cancelled THEN "cancelled" ELSE "pulling"
  /\ UNCHANGED <<terms, cancelled, disposed, callSide, taken, sent, halfClosed, wire, service>>

(* The caller yields a request and it is written.  WriteAsync fails on a   *)
(* call that is over; on one for which the service has sent its status but *)
(* the client has not read it, it may or may not.                          *)
PushNext ==
  /\ push = "pulling"
  /\ wire = "open" => taken < MaxItems
  /\ taken' = taken + 1
  /\ \/ wire = "open" /\ sent' = sent + 1 /\ UNCHANGED push
     \/ (wire # "open" \/ status # "none") /\ push' = "faulted" /\ UNCHANGED sent
  /\ UNCHANGED <<terms, cancelled, disposed, callSide, halfClosed, wire, service>>

(* Mutant: CompleteAsync in a finally block.                               *)
CallerThrowsCompleting ==
  /\ push = "pulling"
  /\ push' = "faulted"
  /\ halfClosed' = (wire = "open")
  /\ UNCHANGED <<terms, cancelled, disposed, callSide, taken, sent, wire, service>>

(* The caller's requests throw.                                            *)
CallerThrows ==
  /\ push = "pulling"
  /\ push' = "faulted"
  /\ UNCHANGED <<terms, cancelled, disposed, callSide, taken, sent, halfClosed, wire, service>>

(* The caller's requests end and CompleteAsync is called, which throws     *)
(* only if the call was disposed of.                                       *)
CallerEnds ==
  /\ push = "pulling"
  /\ push' = IF wire = "disposed" THEN "faulted" ELSE "ended"
  /\ halfClosed' = (wire = "open")
  /\ UNCHANGED <<terms, cancelled, disposed, callSide, taken, sent, wire, service>>

-----------------------------------------------------------------------------
(* The service and the INetConduit it calls, of which nothing is assumed.  *)

Accept ==
  /\ handler = "none" /\ wire = "open"
  /\ handler' = "running"
  /\ UNCHANGED <<terms, cancelled, disposed, callSide, pushSide, wire, reader,
                 fed, down, status, serverCancelled>>

LearnAbort ==
  /\ handler = "running" /\ wire \in Aborted /\ ~serverCancelled
  /\ serverCancelled' = TRUE
  /\ UNCHANGED <<terms, cancelled, disposed, callSide, pushSide, wire, handler, reader,
                 fed, down, status>>

(* The service has a timer of its own for the deadline.                    *)
ServerDeadline ==
  /\ handler = "running" /\ hasDeadline /\ ~serverCancelled
  /\ serverCancelled' = TRUE /\ status' = "failed"
  /\ UNCHANGED <<terms, cancelled, disposed, callSide, pushSide, wire, handler, reader,
                 fed, down>>

(* Mutant: the loop of ToAsyncEnumerable ends when its token is cancelled. *)
ConduitReadsUntilCancelled ==
  /\ handler = "running" /\ method \in Uploading /\ reader = "open"
  /\ \/ ~serverCancelled /\ fed < sent /\ fed' = fed + 1 /\ UNCHANGED reader
     \/ /\ serverCancelled \/ (fed = sent /\ halfClosed)
        /\ reader' = "ended" /\ UNCHANGED fed
  /\ UNCHANGED <<terms, cancelled, disposed, callSide, pushSide, wire, handler,
                 down, status, serverCancelled>>

(* ToAsyncEnumerable: MoveNext gives a request, or the half-close, or it   *)
(* throws because its token is cancelled.                                  *)
ConduitReads ==
  /\ handler = "running" /\ method \in Uploading /\ reader = "open"
  /\ \/ ~serverCancelled /\ fed < sent /\ fed' = fed + 1 /\ UNCHANGED reader
     \/ ~serverCancelled /\ fed = sent /\ halfClosed /\ reader' = "ended" /\ UNCHANGED fed
     \/ serverCancelled /\ reader' = "faulted" /\ UNCHANGED fed
  /\ UNCHANGED <<terms, cancelled, disposed, callSide, pushSide, wire, handler,
                 down, status, serverCancelled>>

(* The handler returns or throws; the library sends the status for it.     *)
Stop(how, answer) ==
  /\ handler' = how
  /\ status' = IF status = "none" THEN answer ELSE status

(* A response is written; WriteAsync throws when the request is cancelled. *)
ConduitYields ==
  /\ handler = "running" /\ method \in Downloading
  /\ \/ /\ ~serverCancelled /\ down < MaxItems
        /\ down' = down + 1
        /\ UNCHANGED <<handler, status>>
     \/ /\ serverCancelled
        /\ Stop("threw", "failed")
        /\ UNCHANGED down
  /\ UNCHANGED <<terms, cancelled, disposed, callSide, pushSide, wire, reader, fed,
                 serverCancelled>>

(* Mutant: exceptions of the conduit are caught and lost.                  *)
ConduitThrowsUnheard ==
  /\ handler = "running"
  /\ Stop("threw", "OK")
  /\ UNCHANGED <<terms, cancelled, disposed, callSide, pushSide, wire, reader, fed, down,
                 serverCancelled>>

ConduitThrows ==
  /\ handler = "running"
  /\ Stop("threw", "failed")
  /\ UNCHANGED <<terms, cancelled, disposed, callSide, pushSide, wire, reader, fed, down,
                 serverCancelled>>

(* The conduit's responses end, or it returns its single response.         *)
ConduitEnds ==
  /\ handler = "running"
  /\ Stop("returned", "OK")
  /\ UNCHANGED <<terms, cancelled, disposed, callSide, pushSide, wire, reader, fed, down,
                 serverCancelled>>

-----------------------------------------------------------------------------

ClientMethod ==
  \/ ReceiveMessage \/ TestToken \/ EndOfResponses
  \/ Answer \/ Fail \/ PushAwaited

Caller == Call \/ CallerCancels \/ CallerAsksNext \/ CallerAbandons

Requester == PushNext \/ CallerThrows \/ CallerEnds

Library == ClientDeadline \/ ConnectionLost \/ Accept \/ LearnAbort \/ ServerDeadline

Conduit == ConduitReads \/ ConduitYields \/ ConduitThrows \/ ConduitEnds

(* Everything is over, as far as this call is concerned.                   *)
Over ==
  /\ client = "over" /\ handler # "running" /\ push \notin {"queued", "pulling"}
  /\ UNCHANGED vars

Next ==
  \/ ClientMethod \/ Caller \/ DisposeAsync
  \/ StartPush \/ Requester
  \/ Library \/ Conduit
  \/ Over

Spec == Init /\ [][Next]_vars

(* What the runtime and the library guarantee.                             *)
RuntimeFairness ==
  /\ WF_vars(ClientMethod) /\ WF_vars(StartPush)
  /\ WF_vars(LearnAbort)

(* A caller that goes on: it asks for the next response and its requests   *)
(* go on, end or throw.                                                    *)
CallerFairness == WF_vars(CallerAsksNext) /\ WF_vars(Requester)

(* A conduit that stops in the end when its token is cancelled, as         *)
(* ConduitServer does (CutLeadsToEnd).                                     *)
ConduitFairness == WF_vars(serverCancelled /\ (ConduitYields \/ ConduitThrows \/ ConduitEnds))

FairSpec == Spec /\ RuntimeFairness /\ CallerFairness /\ ConduitFairness

-----------------------------------------------------------------------------
(* Properties.                                                             *)

Places ==
  /\ method \in Methods /\ hasDeadline \in BOOLEAN
  /\ cancelled \in BOOLEAN /\ disposed \in BOOLEAN
  /\ client \in ClientPlaces /\ outcome \in Outcomes
  /\ push \in PushPlaces /\ halfClosed \in BOOLEAN
  /\ wire \in Wire
  /\ handler \in HandlerPlaces /\ reader \in {"open", "ended", "faulted"}
  /\ status \in {"none", "OK", "failed"} /\ serverCancelled \in BOOLEAN
  /\ (outcome = "none") = (client # "over")

Counters ==
  /\ taken \in Nat /\ sent \in Nat /\ fed \in Nat /\ got \in Nat /\ down \in Nat
  /\ fed <= sent /\ sent <= taken /\ taken <= sent + 1
  /\ got <= down

(* Every variable keeps to its domain, and the counters of the two ends of *)
(* a direction fit together.                                               *)
TypeOK == Places /\ Counters

Phase(open, ended, x) == IF x \in open THEN "open" ELSE IF x \in ended THEN "ended" ELSE "broken"

(* The two directions: from the caller's requests to the conduit's reader, *)
(* and from the conduit's responses to the caller's loop.                  *)
Requests == INSTANCE StreamPromise WITH
  produced <- taken, source <- Phase({"none", "queued", "pulling"}, {"ended"}, push),
  consumed <- fed,   sink   <- Phase({"open"}, {"ended"}, reader),
  excused  <- FALSE

Responses == INSTANCE StreamPromise WITH
  produced <- down, source <- Phase({"none", "running"}, {"returned"}, handler),
  consumed <- got,  sink   <- Phase({"none"}, {"ended", "answered"}, outcome),
  excused  <- cancelled

(* The conduit gets the caller's requests in order and sees them end only  *)
(* if the caller ended them, whatever the client, the token, the deadline  *)
(* and the network do.                                                     *)
RequestsKept == Requests!Spec

(* The caller gets the conduit's responses in order, and the call ends     *)
(* normally only if the conduit's did, after all of them; a caller that    *)
(* has cancelled may be told anything.                                     *)
ResponsesKept == Responses!Spec

(* A call that takes requests ends normally only if they have all been     *)
(* sent, also for a caller that cancelled.                                 *)
NormalEndAfterRequests ==
  method \in Uploading /\ outcome \in {"ended", "answered"} =>
    push = "ended" /\ sent = taken

(* The test of src/DataFac.Conduits.UnitTests/FakeServerStreamTests.cs:87  *)
(* expects an exception from a stream that is cancelled half way: a call   *)
(* ends normally only if the conduit's responses have ended and the caller *)
(* has got them.                                                           *)
NormalEndMeansAll ==
  outcome \in {"ended", "answered"} => handler = "returned" /\ got = down

(* A caller that cancels is not kept waiting.                              *)
CancelEnds == cancelled /\ client \notin {"created", "over"} ~> client = "over"

(* The conduit of a call with requests does not go on for a caller that    *)
(* has left, whichever way it left.                                        *)
ConduitNotForgotten ==
  client = "over" /\ method \in Uploading /\ handler = "running" ~> handler # "running"

=============================================================================
