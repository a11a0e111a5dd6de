---------------------------- MODULE ConduitServer ----------------------------
(***************************************************************************)
(* One call of ConduitServer, the server side of the conduit protocol.     *)
(*                                                                         *)
(* The server stands between three parties that run independently:         *)
(*   - the caller, which starts the call, pulls the responses one by one   *)
(*     and may walk away, and which supplies the stream of requests;       *)
(*   - the application (an IAppConduit), which answers, and which pulls    *)
(*     the requests through the server's ToAppRequests iterator, possibly  *)
(*     on a thread of its own;                                             *)
(*   - the clock and the owner of the cancellation token.                  *)
(* "main" is the program counter of the server method, "pump" that of its  *)
(* ToAppRequests iterator.  Each test of altResponse, of the token and of  *)
(* the clock is a step of its own: the other parties may act between them. *)
(*                                                                         *)
(* Calls share no state of the server, so one call is the whole component. *)
(***************************************************************************)
EXTENDS Conduits

CONSTANTS
  MaxTime,   (* bound: the clock runs from 0 to MaxTime                    *)
  Pace       (* bound: items a stream may carry per unit of time           *)

ASSUME BoundsAssumption == MaxTime \in Nat /\ Pace \in Nat

VARIABLES
  method,     (* the INetConduit method called                             *)
  control,    (* request.Control                                           *)
  deadline,   (* deadlineUtc, Null when the call has none                  *)
  now,        (* _timeProvider.GetUtcNow()                                 *)
  cancelled,  (* cancellation.IsCancellationRequested                      *)
  main,       (* where the server method is                                *)
  app,        (* the application's method: idle, running, ended, threw     *)
  pump,       (* where ToAppRequests is                                    *)
  alt,        (* altResponse: the control code it holds, None when null    *)
  fed,        (* requests handed to the application                        *)
  out,        (* responses handed to the caller                            *)
  arrivals,   (* history: per application response, altResponse and the    *)
              (* verdict that stood when it reached the server             *)
  requests    (* history: per request taken from the caller, likewise      *)

callVars == <<method, control>>
envVars  == <<deadline, now, cancelled>>
pumpVars == <<pump, alt, fed, requests>>
mainVars == <<main, app, out, arrivals>>
vars == <<callVars, envVars, pumpVars, mainVars>>

Downloading == method \in {"ServerStream", "DuplexStream"}
Uploading   == method \in {"ClientStream", "DuplexStream"}

Finished == {"done", "threw", "dropped"}

MainStates == {"created", "awaiting", "testAlt", "testCancel", "testDeadline",
               "yielded", "last", "returning"} \cup Finished

PumpStates == {"idle", "pulling", "testCancel", "testDeadline",
               "ended", "cut", "faulted"}

(* The verdict that a full check would give at this instant.               *)
Verdict ==
  IF cancelled THEN "Cancelled"
  ELSE IF DeadlineExceeded(deadline, now) THEN "Timeout"
  ELSE "None"

Arrival == [alt |-> alt, verdict |-> Verdict]

Init ==
  /\ method \in Methods
  /\ control \in IF method = "UnaryRequest" THEN {"None", "GetAppInfo"}
                                            ELSE {"None"}
  /\ deadline = Null /\ now = 0 /\ cancelled = FALSE
  /\ main = "created" /\ app = "idle" /\ out = <<>> /\ arrivals = <<>>
  /\ pump = "idle" /\ alt = "None" /\ fed = <<>> /\ requests = <<>>

-----------------------------------------------------------------------------
(* The clock and the token.                                                *)

Tick ==
  /\ now < MaxTime
  /\ now' = now + 1
  /\ UNCHANGED <<callVars, deadline, cancelled, pumpVars, mainVars>>

(* The last instant is kept free of cancellations: every cut leaves the    *)
(* streams room for one more item before the model's horizon.              *)
RequestCancellation ==
  /\ ~cancelled
  /\ now < MaxTime
  /\ cancelled' = TRUE
  /\ UNCHANGED <<callVars, deadline, now, pumpVars, mainVars>>

-----------------------------------------------------------------------------
(* The caller.                                                             *)

(* The call, or the first MoveNextAsync on the stream it returned: runs to *)
(* the first await, the application's method.                              *)
Start(d) ==
  /\ main = "created"
  /\ deadline' = d
  /\ main' = "awaiting"
  /\ app' = "running"
  /\ UNCHANGED <<callVars, now, cancelled, pumpVars, out, arrivals>>

(* The caller asks for the next response: the iterator resumes after its   *)
(* yield return, into the next round of the loop or into yield break.      *)
MoveNext ==
  /\ \/ main = "yielded" /\ main' = "awaiting"
     \/ main = "last" /\ main' = "done"
  /\ UNCHANGED <<callVars, envVars, pumpVars, app, out, arrivals>>

(* The caller disposes the response stream instead of draining it.         *)
Drop ==
  /\ main \in {"yielded", "last"}
  /\ main' = "dropped"
  /\ UNCHANGED <<callVars, envVars, pumpVars, app, out, arrivals>>

-----------------------------------------------------------------------------
(* The application's answers.                                              *)

(* The application yields one more response of a stream.  It needs time to *)
(* do so: at most Pace items per unit of time.                             *)
AppYield ==
  /\ Downloading
  /\ main = "awaiting"
  /\ Len(arrivals) < Pace * (now + 1)
  /\ arrivals' = Append(arrivals, Arrival)
  /\ main' = IF method = "DuplexStream" THEN "testAlt" ELSE "testCancel"
  /\ UNCHANGED <<callVars, envVars, pumpVars, app, out>>

(* The application's response stream ends: so does the server's.           *)
AppEnd ==
  /\ Downloading
  /\ main = "awaiting"
  /\ app' = "ended"
  /\ main' = "done"
  /\ UNCHANGED <<callVars, envVars, pumpVars, out, arrivals>>

(* The single response of UnaryRequest, GetAppInfo or ClientStream.        *)
AppReturn ==
  /\ ~Downloading
  /\ main = "awaiting"
  /\ arrivals' = Append(arrivals, Arrival)
  /\ app' = "ended"
  /\ main' = "returning"
  /\ UNCHANGED <<callVars, envVars, pumpVars, out>>

(* The application throws; the server has no handler of its own.           *)
AppThrow ==
  /\ main = "awaiting"
  /\ app' = "threw"
  /\ main' = "threw"
  /\ UNCHANGED <<callVars, envVars, pumpVars, out, arrivals>>

-----------------------------------------------------------------------------
(* The server method.                                                      *)

(* Mutant: yield break without the control response.                       *)
BreakSilently(c) ==
  /\ c # "None"
  /\ main' = "last"
  /\ UNCHANGED out

YieldLast(c) ==
  /\ out' = Append(out, ControlResponse(c))
  /\ main' = "last"

(* Mutant: the loop goes on after it yielded the alternative response.     *)
TestAltWithoutBreak ==
  /\ main = "testAlt"
  /\ IF alt # "None"
     THEN out' = Append(out, ControlResponse(alt)) /\ main' = "yielded"
     ELSE main' = "testCancel" /\ UNCHANGED out
  /\ UNCHANGED <<callVars, envVars, pumpVars, app, arrivals>>

(* DuplexStream only: were the requests cut short?                         *)
TestAlt ==
  /\ main = "testAlt"
  /\ IF alt # "None"
     THEN YieldLast(alt)
     ELSE main' = "testCancel" /\ UNCHANGED out
  /\ UNCHANGED <<callVars, envVars, pumpVars, app, arrivals>>

(* Mutant: the loop does not look at the token.                            *)
TestCancelNever ==
  /\ main = "testCancel"
  /\ main' = "testDeadline"
  /\ UNCHANGED <<callVars, envVars, pumpVars, app, out, arrivals>>

TestCancel ==
  /\ main = "testCancel"
  /\ IF cancelled
     THEN YieldLast("Cancelled")
     ELSE main' = "testDeadline" /\ UNCHANGED out
  /\ UNCHANGED <<callVars, envVars, pumpVars, app, arrivals>>

(* Mutant: the loop does not look at the clock.                            *)
TestDeadlineNever ==
  /\ main = "testDeadline"
  /\ out' = Append(out, PayloadResponse(Len(arrivals)))
  /\ main' = "yielded"
  /\ UNCHANGED <<callVars, envVars, pumpVars, app, arrivals>>

(* Past both tests the response goes to the caller.                        *)
TestDeadline ==
  /\ main = "testDeadline"
  /\ IF DeadlineExceeded(deadline, now)
     THEN YieldLast("Timeout")
     ELSE /\ out' = Append(out, PayloadResponse(Len(arrivals)))
          /\ main' = "yielded"
  /\ UNCHANGED <<callVars, envVars, pumpVars, app, arrivals>>

(* Mutant: ClientStream does not look at altResponse.                      *)
ReturnPayload ==
  /\ main = "returning"
  /\ out' = <<[Control |-> control, Payload |-> 1]>>
  /\ main' = "done"
  /\ UNCHANGED <<callVars, envVars, pumpVars, app, arrivals>>

(* UnaryRequest answers with the control code it was asked with, whatever  *)
(* the token and the deadline say; ClientStream looks at altResponse once. *)
Return ==
  /\ main = "returning"
  /\ out' = <<IF alt # "None" THEN ControlResponse(alt)
                              ELSE [Control |-> control, Payload |-> 1]>>
  /\ main' = "done"
  /\ UNCHANGED <<callVars, envVars, pumpVars, app, arrivals>>

-----------------------------------------------------------------------------
(* ToAppRequests, the iterator through which the application reads the     *)
(* caller's requests.  It may still be under way when the application has  *)
(* already answered, and even when the call is over.                       *)

AppPull ==
  /\ Uploading
  /\ app # "idle"
  /\ pump = "idle"
  /\ pump' = "pulling"
  /\ UNCHANGED <<callVars, envVars, alt, fed, requests, mainVars>>

(* The caller's stream delivers one more request, ends, or fails.          *)
CallerYields ==
  /\ pump = "pulling"
  /\ Len(requests) < Pace * (now + 1)
  /\ requests' = Append(requests, Verdict)
  /\ pump' = "testCancel"
  /\ UNCHANGED <<callVars, envVars, alt, fed, mainVars>>

CallerEnds ==
  /\ pump = "pulling"
  /\ pump' \in {"ended", "faulted"}
  /\ UNCHANGED <<callVars, envVars, alt, fed, requests, mainVars>>

(* Mutants: altResponse is not set; a cancellation is given the code of an *)
(* invalid operation; the iterator goes on after setting it.               *)
CutSilently(c) ==
  /\ c # "None"
  /\ pump' = "cut"
  /\ UNCHANGED <<alt, fed>>

CutAsInvalidOp(c) ==
  /\ alt' = IF c = "Cancelled" THEN "InvalidOp" ELSE c
  /\ pump' = "cut"
  /\ UNCHANGED fed

CutWithoutBreak(c) ==
  /\ alt' = c
  /\ pump' = "idle"
  /\ UNCHANGED fed

(* altResponse is set and the stream ends: the application cannot tell the *)
(* end of a cut stream from the end the caller meant.                      *)
CutRequests(c) ==
  /\ alt' = c
  /\ pump' = "cut"
  /\ UNCHANGED fed

PumpTestCancel ==
  /\ pump = "testCancel"
  /\ IF cancelled
     THEN CutRequests("Cancelled")
     ELSE pump' = "testDeadline" /\ UNCHANGED <<alt, fed>>
  /\ UNCHANGED <<callVars, envVars, requests, mainVars>>

(* Mutant: the iterator does not look at the clock.                        *)
PumpTestDeadlineNever ==
  /\ pump = "testDeadline"
  /\ fed' = Append(fed, Len(requests))
  /\ pump' = "idle"
  /\ UNCHANGED <<callVars, envVars, alt, requests, mainVars>>

PumpTestDeadline ==
  /\ pump = "testDeadline"
  /\ IF DeadlineExceeded(deadline, now)
     THEN CutRequests("Timeout")
     ELSE /\ fed' = Append(fed, Len(requests))
          /\ pump' = "idle"
          /\ UNCHANGED alt
  /\ UNCHANGED <<callVars, envVars, requests, mainVars>>

-----------------------------------------------------------------------------

Environment == Tick \/ RequestCancellation

Application == AppYield \/ AppEnd \/ AppReturn \/ AppThrow \/ AppPull

ServerMethod == TestAlt \/ TestCancel \/ TestDeadline \/ Return

ServerPump == PumpTestCancel \/ PumpTestDeadline

Server == ServerMethod \/ ServerPump

Requests == CallerYields \/ CallerEnds

(* A finished call stays as it is; every other state has a successor.      *)
Over == main \in Finished /\ UNCHANGED vars

Deadlines == {Null} \cup 0 .. (MaxTime + LongestCall)

Next ==
  \/ Environment
  \/ \E d \in Deadlines : Start(d)
  \/ MoveNext
  \/ Drop
  \/ Application
  \/ Server
  \/ Requests
  \/ Over

Spec == Init /\ [][Next]_vars

-----------------------------------------------------------------------------
(* Fairness.  The runtime resumes every continuation of the server and the *)
(* clock runs.  The application is assumed to cooperate: it goes on        *)
(* answering a stream, goes on reading requests, and answers a client      *)
(* stream once the requests are over.  It is never assumed to end a stream *)
(* of its own accord.  The caller drains the responses and goes on sending *)
(* requests, but need not end them either.                                 *)

RequestsOver == pump \in {"ended", "cut", "faulted"}

Fairness ==
  /\ WF_vars(Tick)
  /\ WF_vars(ServerMethod)
  /\ WF_vars(ServerPump)
  /\ WF_vars(MoveNext)
  /\ WF_vars(AppYield)
  /\ WF_vars(AppPull)
  /\ WF_vars(CallerYields)
  /\ WF_vars((Uploading => RequestsOver) /\ AppReturn)

FairSpec == Spec /\ Fairness

-----------------------------------------------------------------------------
(* Properties.                                                             *)

Arrivals == [alt : Verdicts, verdict : Verdicts]

(* Every variable keeps to its domain; in particular altResponse and the   *)
(* control codes of the responses are codes the protocol knows.            *)
TypeOK ==
  /\ method \in Methods
  /\ control \in {"None", "GetAppInfo"}
  /\ deadline \in Deadlines
  /\ now \in 0 .. MaxTime
  /\ cancelled \in BOOLEAN
  /\ main \in MainStates
  /\ app \in {"idle", "running", "ended", "threw"}
  /\ pump \in PumpStates
  /\ alt \in Verdicts
  /\ fed \in Seq(Nat)
  /\ out \in Seq(NetResponse)
  /\ arrivals \in Seq(Arrivals)
  /\ requests \in Seq(Verdicts)

Expired == deadline # Null /\ deadline < now

(* An answer that reached the server after the token was cancelled, after  *)
(* the deadline, or after the requests had been cut short.                 *)
Late(a) == a.alt # "None" \/ a.verdict # "None"

(* ServerStream and DuplexStream: an application response that reaches the *)
(* server late is never passed on as data, whatever happens between the    *)
(* two or three tests of the loop.                                         *)
LateNeverDelivered ==
  Downloading =>
    \A i \in DOMAIN out : Late(arrivals[i]) => out[i].Control # "None"

(* A caller is told Timeout only when its deadline is over, and Cancelled  *)
(* only when its token was cancelled, also when the verdict comes from     *)
(* altResponse, which another thread set earlier.                          *)
VerdictJustified ==
  \A i \in DOMAIN out :
    /\ out[i].Control = "Timeout"   => Expired
    /\ out[i].Control = "Cancelled" => cancelled

(* The caller gets the responses of the application once each and in their *)
(* order, and a verdict is the last thing a stream says.                   *)
InOrder ==
  \A i \in DOMAIN out :
    IF out[i].Control \in {"Timeout", "Cancelled"}
    THEN i = Len(out) /\ main \in {"last"} \cup Finished
    ELSE out[i].Payload = i

(* The server stops at once: after the first answer that came late it      *)
(* never waits for another one, and after the first request that came late *)
(* it never takes another one from the caller.                             *)
CutIsPrompt ==
  /\ Downloading =>
       \A i \in DOMAIN arrivals :
         arrivals[i].verdict # "None" => i = Len(arrivals)
  /\ \A i \in DOMAIN requests : requests[i] # "None" => i = Len(requests)

(* The application sees the caller's requests once each and in order, and  *)
(* never one that was already late when it arrived.                        *)
RequestsInOrder ==
  /\ Len(fed) <= Len(requests)
  /\ \A i \in DOMAIN fed : fed[i] = i /\ requests[i] = "None"

(* No request is lost silently: the application misses a request that the  *)
(* caller has handed over only while it is being tested, or when           *)
(* altResponse records the cut; and then it misses just that one.          *)
LossIsRecorded ==
  LET missing == Len(requests) - Len(fed)
  IN  /\ missing = 0 <=> pump \in {"idle", "pulling", "ended", "faulted"}
      /\ missing <= 1
      /\ alt # "None" <=> pump = "cut"

(* An application that answers after its requests were cut short has its   *)
(* answer replaced by the verdict of the cut, so that it cannot pass off a *)
(* partial upload as a complete one.                                       *)
CutAnswersReplaced ==
  \A i \in DOMAIN out :
    arrivals[i].alt # "None" => out[i] = ControlResponse(arrivals[i].alt)

(* A stream that comes to its normal end has told the caller everything:   *)
(* every answer of the application was delivered, and none was late.       *)
CompleteMeansAll ==
  main = "done" /\ Downloading /\ (\A i \in DOMAIN out : out[i].Control = "None")
    => Len(out) = Len(arrivals) /\ \A i \in DOMAIN arrivals : ~Late(arrivals[i])

(* The comment in DuplexStream: when the client stream did not complete,   *)
(* the caller gets the alternative response.  So a response stream never   *)
(* comes to a normal end once the requests have been cut short.            *)
CutNeverEndsNormally ==
  [][main = "awaiting" /\ main' = "done" => alt = "None"]_vars

(* A streaming call that is cancelled or whose deadline is over comes to   *)
(* its end, even when the application would go on answering forever.       *)
CutLeadsToEnd ==
  main # "created" /\ method # "UnaryRequest" /\ (cancelled \/ Expired)
    ~> main \in Finished

=============================================================================
