------------------------ MODULE GrpcTransportProofs ------------------------
(***************************************************************************)
(* Proofs of the safety properties of GrpcTransport for every bound on its *)
(* streams: what holds of the two directions of a call, and that each of   *)
(* them keeps StreamPromise.                                               *)
(***************************************************************************)
EXTENDS GrpcTransport, TLAPS

(* The push task: nothing it took is unsent unless writing it failed, and  *)
(* the half-close is a proof that it ended.                                *)
PushInv ==
  /\ push # "faulted" => sent = taken
  /\ halfClosed => push = "ended"
  /\ reader = "ended" => halfClosed /\ fed = sent

(* The service: its status tells how the handler stopped.                  *)
StatusInv ==
  /\ status = "OK" => handler = "returned"
  /\ handler = "none" => reader = "open" /\ fed = 0 /\ down = 0 /\ status = "none"
  /\ method \notin Downloading => down = 0 /\ got = 0

(* The method of the client: what must have been true to get where it is.  *)
ClientInv ==
  /\ client = "created" => push = "none"
  /\ client \in {"testToken", "holding"} => method \in Downloading
  /\ client = "testToken" => got < down
  /\ client = "awaitPush" => method \in Uploading
  /\ client = "awaitPush" /\ method = "DuplexStream" =>
       cancelled \/ (handler = "returned" /\ got = down)
  /\ client = "waiting" /\ method = "ClientStream" => push = "ended"
  /\ outcome = "answered" => method \notin Downloading
  /\ outcome = "ended" => method \in Downloading
  /\ method \in Uploading /\ outcome \in {"ended", "answered"} => push = "ended"

IInv == TypeOK /\ PushInv /\ StatusInv /\ ClientInv

-----------------------------------------------------------------------------

(* Nothing has happened in an initial state.                               *)
LEMMA InitInvariant == Init => IInv
<1> SUFFICES ASSUME Init PROVE IInv
  OBVIOUS
<1> USE DEF Init
<1>1. Places
  BY DEF Places, ClientPlaces, Outcomes, HandlerPlaces, PushPlaces, Wire
<1>2. Counters
  BY DEF Counters
<1>3. PushInv /\ StatusInv /\ ClientInv
  BY DEF PushInv, StatusInv, ClientInv
<1>4. QED
  BY <1>1, <1>2, <1>3 DEF IInv, TypeOK

(* Every step keeps the places in their domains.                           *)
LEMMA PlacesKept == Places /\ [Next]_vars => Places'
<1> SUFFICES ASSUME Places, [Next]_vars PROVE Places'
  OBVIOUS
<1> USE DEF Places, ClientPlaces, Outcomes, HandlerPlaces, PushPlaces, Wire, Aborted,
        AbortAs, terms, callSide, pushSide, service
<1>1. CASE ReceiveMessage
  BY <1>1 DEF ReceiveMessage
<1>2. CASE TestToken
  BY <1>2 DEF TestToken, LeaveLoop, Leave, Left
<1>3. CASE EndOfResponses
  BY <1>3 DEF EndOfResponses, LeaveLoop, Leave, Left
<1>4. CASE Answer
  BY <1>4 DEF Answer, Leave
<1>5. CASE Fail
  BY <1>5 DEF Fail, Leave
<1>6. CASE PushAwaited
  BY <1>6 DEF PushAwaited, Leave, Left
<1>7. CASE Call
  BY <1>7 DEF Call, Leave
<1>8. CASE CallerCancels \/ DisposeAsync
  BY <1>8 DEF CallerCancels, DisposeAsync
<1>9. CASE CallerAsksNext
  BY <1>9 DEF CallerAsksNext
<1>10. CASE CallerAbandons
  BY <1>10 DEF CallerAbandons, Leave, Left
<1>11. CASE StartPush
  BY <1>11 DEF StartPush
<1>12. CASE PushNext
  BY <1>12 DEF PushNext
<1>13. CASE CallerThrows
  BY <1>13 DEF CallerThrows
<1>14. CASE CallerEnds
  BY <1>14 DEF CallerEnds
<1>15. CASE ClientDeadline \/ ConnectionLost
  BY <1>15 DEF ClientDeadline, ConnectionLost
<1>16. CASE Accept \/ LearnAbort \/ ServerDeadline
  BY <1>16 DEF Accept, LearnAbort, ServerDeadline
<1>17. CASE ConduitReads
  BY <1>17 DEF ConduitReads
<1>18. CASE ConduitYields
  BY <1>18 DEF ConduitYields, Stop
<1>19. CASE ConduitThrows \/ ConduitEnds
  BY <1>19 DEF ConduitThrows, ConduitEnds, Stop
<1>20. CASE UNCHANGED vars
  BY <1>20 DEF vars
<1>21. QED
  BY <1>1, <1>2, <1>3, <1>4, <1>5, <1>6, <1>7, <1>8, <1>9, <1>10,
     <1>11, <1>12, <1>13, <1>14, <1>15, <1>16, <1>17, <1>18, <1>19, <1>20
     DEF Next, ClientMethod, Caller, Requester, Library, Conduit, Over

(* Every step keeps what relates the two ends of the call.                 *)
LEMMA RelationsKept ==
  IInv /\ [Next]_vars => Counters' /\ PushInv' /\ StatusInv' /\ ClientInv'
<1> DEFINE Relations == Counters /\ PushInv /\ StatusInv /\ ClientInv
<1> SUFFICES ASSUME Places, Relations, [Next]_vars PROVE Relations'
  BY DEF IInv, TypeOK
<1> USE DEF Counters, PushInv, StatusInv, ClientInv, Uploading, Downloading,
        terms, callSide, pushSide, service
<1>1. CASE ReceiveMessage
  BY <1>1 DEF ReceiveMessage
<1>2. CASE TestToken
  BY <1>2 DEF TestToken, LeaveLoop, Leave, Left
<1>3. CASE EndOfResponses
  BY <1>3 DEF EndOfResponses, LeaveLoop, Leave, Left
<1>4. CASE Answer
  BY <1>4 DEF Answer, Leave
<1>5. CASE Fail
  BY <1>5 DEF Fail, Leave
<1>6. CASE PushAwaited
  BY <1>6 DEF PushAwaited, Leave, Left
<1>7. CASE Call
  BY <1>7 DEF Call, Leave
<1>8. CASE CallerCancels \/ DisposeAsync
  BY <1>8 DEF CallerCancels, DisposeAsync
<1>9. CASE CallerAsksNext
  BY <1>9 DEF CallerAsksNext
<1>10. CASE CallerAbandons
  BY <1>10 DEF CallerAbandons, Leave, Left
<1>11. CASE StartPush
  BY <1>11 DEF StartPush
<1>12. CASE PushNext
  BY <1>12 DEF PushNext
<1>13. CASE CallerThrows
  BY <1>13 DEF CallerThrows
<1>14. CASE CallerEnds
  BY <1>14 DEF CallerEnds
<1>15. CASE ClientDeadline \/ ConnectionLost
  BY <1>15 DEF ClientDeadline, ConnectionLost
<1>16. CASE Accept \/ LearnAbort \/ ServerDeadline
  BY <1>16 DEF Accept, LearnAbort, ServerDeadline
<1>17. CASE ConduitReads
  BY <1>17 DEF ConduitReads
<1>18. CASE ConduitYields
  BY <1>18 DEF ConduitYields, Stop
<1>19. CASE ConduitThrows \/ ConduitEnds
  BY <1>19 DEF ConduitThrows, ConduitEnds, Stop
<1>20. CASE UNCHANGED vars
  BY <1>20 DEF vars
<1>21. QED
  BY <1>1, <1>2, <1>3, <1>4, <1>5, <1>6, <1>7, <1>8, <1>9, <1>10,
     <1>11, <1>12, <1>13, <1>14, <1>15, <1>16, <1>17, <1>18, <1>19, <1>20
     DEF Next, ClientMethod, Caller, Requester, Library, Conduit, Over

(* Every step keeps the invariant.                                         *)
LEMMA NextInvariant == IInv /\ [Next]_vars => IInv'
BY PlacesKept, RelationsKept DEF IInv, TypeOK

(* The invariant holds in every state of a call.                           *)
THEOREM TransportInvariant == Spec => []IInv
<1>1. Init => IInv
  BY InitInvariant
<1>2. IInv /\ [Next]_vars => IInv'
  BY NextInvariant
<1>3. QED
  BY <1>1, <1>2, PTL DEF Spec

(* Every variable keeps to its domain.                                     *)
THEOREM TransportTypes == Spec => []TypeOK
<1>1. IInv => TypeOK
  BY DEF IInv
<1>2. QED
  BY <1>1, TransportInvariant, PTL

(* A call that takes requests ends normally only after all were sent.      *)
THEOREM NormalEndComesLast == Spec => []NormalEndAfterRequests
<1>1. IInv => NormalEndAfterRequests
  BY DEF IInv, ClientInv, PushInv, NormalEndAfterRequests
<1>2. QED
  BY <1>1, TransportInvariant, PTL

-----------------------------------------------------------------------------

(* The requests of a call reach the conduit as StreamPromise says.         *)
THEOREM TransportKeepsRequests == Spec => RequestsKept
<1>1. Init => Requests!Init
  BY DEF Init, Requests!Init, Phase
<1>2. ASSUME IInv, [Next]_vars PROVE [Requests!Next]_(Requests!ends)
  <2> USE <1>2 DEF IInv, TypeOK, Counters, PushInv, terms, callSide, pushSide, service, Phase,
        Requests!Next, Requests!ends, Requests!Produce, Requests!Complete,
        Requests!Break, Requests!Consume, Requests!SeeEnd, Requests!SeeBreak
  <2>1. CASE Call
    BY <2>1 DEF Call, ClientInv
  <2>2. CASE StartPush
    BY <2>2 DEF StartPush
  <2>3. CASE PushNext
    BY <2>3 DEF PushNext
  <2>4. CASE CallerThrows \/ CallerEnds
    BY <2>4 DEF CallerThrows, CallerEnds
  <2>5. CASE ConduitReads
    BY <2>5 DEF ConduitReads
  <2>6. CASE UNCHANGED <<pushSide, reader, fed>>
    BY <2>6
  <2>7. ClientMethod \/ DisposeAsync \/ Over \/ UNCHANGED vars => UNCHANGED <<pushSide, reader, fed>>
    BY DEF ClientMethod, ReceiveMessage, TestToken, EndOfResponses, Answer, Fail,
           PushAwaited, DisposeAsync, Over, vars
  <2>8. CallerCancels \/ CallerAsksNext \/ CallerAbandons => UNCHANGED <<pushSide, reader, fed>>
    BY DEF CallerCancels, CallerAsksNext, CallerAbandons
  <2>9. Library => UNCHANGED <<pushSide, reader, fed>>
    BY DEF Library, ClientDeadline, ConnectionLost, Accept, LearnAbort, ServerDeadline
  <2>10. ConduitYields \/ ConduitThrows \/ ConduitEnds => UNCHANGED <<pushSide, reader, fed>>
    BY DEF ConduitYields, ConduitThrows, ConduitEnds
  <2>11. QED
    BY <2>1, <2>2, <2>3, <2>4, <2>5, <2>6, <2>7, <2>8, <2>9, <2>10
       DEF Next, Caller, Requester, Conduit
<1>3. QED
  BY <1>1, <1>2, TransportInvariant, PTL DEF Spec, RequestsKept, Requests!Spec

(* The responses of the conduit reach the caller as StreamPromise says, as *)
(* long as the caller has not cancelled.                                   *)
THEOREM TransportKeepsResponses == Spec => ResponsesKept
<1>1. Init => Responses!Init
  BY DEF Init, Responses!Init, Phase
<1>2. ASSUME IInv, [Next]_vars PROVE [Responses!Next]_(Responses!ends)
  <2> USE <1>2 DEF IInv, TypeOK, Places, Counters, Outcomes, StatusInv, ClientInv, terms, callSide, pushSide, service,
        Uploading, Downloading, Methods, Phase, Leave, Stop,
        Responses!Next, Responses!ends, Responses!Produce, Responses!Complete,
        Responses!Break, Responses!Consume, Responses!SeeEnd, Responses!SeeBreak
  <2>1. CASE ReceiveMessage \/ CallerAsksNext
    BY <2>1 DEF ReceiveMessage, CallerAsksNext
  <2>2. CASE TestToken
    BY <2>2 DEF TestToken, LeaveLoop
  <2>3. CASE EndOfResponses
    BY <2>3 DEF EndOfResponses, LeaveLoop
  <2>4. CASE Answer
    BY <2>4 DEF Answer
  <2>5. CASE Fail \/ CallerAbandons
    BY <2>5 DEF Fail, CallerAbandons
  <2>6. CASE PushAwaited
    BY <2>6 DEF PushAwaited
  <2>7. CASE Call
    BY <2>7 DEF Call
  <2>8. CASE Accept
    BY <2>8 DEF Accept
  <2>9. CASE ConduitYields
    BY <2>9 DEF ConduitYields
  <2>10. CASE ConduitThrows \/ ConduitEnds
    BY <2>10 DEF ConduitThrows, ConduitEnds
  <2>11. CASE UNCHANGED <<callSide, handler, down>>
    BY <2>11
  <2>12. CallerCancels \/ DisposeAsync \/ Over \/ UNCHANGED vars => UNCHANGED <<callSide, handler, down>>
    BY DEF CallerCancels, DisposeAsync, Over, vars
  <2>13. StartPush \/ Requester \/ ConduitReads => UNCHANGED <<callSide, handler, down>>
    BY DEF StartPush, Requester, PushNext, CallerThrows, CallerEnds, ConduitReads
  <2>14. ClientDeadline \/ ConnectionLost \/ LearnAbort \/ ServerDeadline =>
           UNCHANGED <<callSide, handler, down>>
    BY DEF ClientDeadline, ConnectionLost, LearnAbort, ServerDeadline
  <2>15. QED
    BY <2>1, <2>2, <2>3, <2>4, <2>5, <2>6, <2>7, <2>8, <2>9, <2>10, <2>11, <2>12,
       <2>13, <2>14 DEF Next, ClientMethod, Caller, Library, Conduit
<1>3. QED
  BY <1>1, <1>2, TransportInvariant, PTL DEF Spec, ResponsesKept, Responses!Spec

-----------------------------------------------------------------------------

(* How far the finding on GrpcConduitClient.cs:61 goes: a single response  *)
(* is always that of a conduit that has returned, and a stream that ends   *)
(* normally is the whole stream for a caller that has not cancelled.       *)
NormalEndIsTrue ==
  outcome = "answered" \/ (outcome = "ended" /\ ~cancelled) =>
    handler = "returned" /\ got = down

(* A caller that has not cancelled gets the whole stream or an exception.  *)
THEOREM NormalEndIsTrueHolds == Spec => []NormalEndIsTrue
<1>1. Init => NormalEndIsTrue
  BY DEF Init, NormalEndIsTrue
<1>2. ASSUME IInv, NormalEndIsTrue, [Next]_vars PROVE NormalEndIsTrue'
  <2> USE <1>2 DEF IInv, TypeOK, Places, Counters, StatusInv, ClientInv, NormalEndIsTrue,
                   terms, callSide, pushSide, service, Leave, Stop
  <2>1. CASE TestToken
    <3>1. /\ outcome = "none" /\ UNCHANGED cancelled
          /\ outcome' \in {"none", "ended"} /\ (cancelled \/ outcome' = "none")
      BY <2>1 DEF TestToken, LeaveLoop
    <3> QED
      BY <3>1
  <2>2. CASE EndOfResponses
    BY <2>2 DEF EndOfResponses, LeaveLoop
  <2>3. CASE Answer
    BY <2>3 DEF Answer
  <2>4. CASE PushAwaited
    BY <2>4 DEF PushAwaited, Uploading
  <2>5. CASE ReceiveMessage \/ Fail \/ Call
    BY <2>5 DEF ReceiveMessage, Fail, Call
  <2>6. CASE CallerCancels \/ CallerAsksNext \/ CallerAbandons
    BY <2>6 DEF CallerCancels, CallerAsksNext, CallerAbandons
  <2>7. CASE Conduit
    BY <2>7 DEF Conduit, ConduitReads, ConduitYields, ConduitThrows, ConduitEnds
  <2>8. CASE Accept
    BY <2>8 DEF Accept
  <2>9. CASE UNCHANGED <<cancelled, outcome, handler, got, down>>
    BY <2>9
  <2>10. DisposeAsync \/ StartPush \/ Requester \/ Over \/ UNCHANGED vars =>
           UNCHANGED <<cancelled, outcome, handler, got, down>>
    BY DEF DisposeAsync, StartPush, Requester, PushNext, CallerThrows, CallerEnds, Over, vars
  <2>11. ClientDeadline \/ ConnectionLost \/ LearnAbort \/ ServerDeadline =>
           UNCHANGED <<cancelled, outcome, handler, got, down>>
    BY DEF ClientDeadline, ConnectionLost, LearnAbort, ServerDeadline
  <2>12. QED
    BY <2>1, <2>2, <2>3, <2>4, <2>5, <2>6, <2>7, <2>8, <2>9, <2>10, <2>11
       DEF Next, ClientMethod, Caller, Library
<1>3. QED
  BY <1>1, <1>2, TransportInvariant, PTL DEF Spec

=============================================================================
