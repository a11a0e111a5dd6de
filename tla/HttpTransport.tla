---------------------------- MODULE HttpTransport ----------------------------
(***************************************************************************)
(* One call through the HTTP transport: a ConduitClient over a             *)
(* HttpConduitClient, and the endpoint of MapConduitEndpoints over a       *)
(* ConduitServer.                                                          *)
(*                                                                         *)
(* Only UnaryRequest travels, and without its control code, its token and  *)
(* any use of its deadline: the server sees a plain request, that of       *)
(* GetAppInfo as an empty one.  The HttpClient retries (the standard       *)
(* resilience handler of ServiceDefaults, external): the server may get    *)
(* the request several times, and late, and is never told that the client  *)
(* has given up.                                                           *)
(***************************************************************************)
EXTENDS Conduits, InfoCodec

CONSTANTS
  MaxAttempts,   (* how often the HttpClient tries: 4 by default           *)
  Texts          (* what an application may answer to an empty request     *)

ASSUME HttpAssumption == MaxAttempts \in Nat \ {0}

ASSUME TextsAssumption == Texts \subseteq Seq(Tokens)

Attempts == 1 .. MaxAttempts

VARIABLES
  method,      (* the INetConduit method called                            *)
  control,     (* request.Control                                          *)
  says,        (* what the server's application answers to the request     *)
  call,        (* where the call is on the client's side                   *)
  attempt,     (* which attempt the HttpClient waits for                   *)
  execution,   (* per attempt, how far the application is with it          *)
  outcome,     (* how the call ended for its user                          *)
  payload,     (* the payload that came back                               *)
  info         (* what GetAppInfo made of it                               *)

requestVars == <<method, control, says>>
resultVars  == <<outcome, payload, info>>
httpVars    == <<requestVars, call, attempt, execution, resultVars>>

Asking == control = "GetAppInfo"

(* The results of the weather service, a forecast and others.              *)
Forecast == <<"forecast">>
Results  == {Forecast, <<"error">>, <<"batch">>}

HttpInit ==
  /\ method \in Methods
  /\ control \in IF method = "UnaryRequest" THEN {"None", "GetAppInfo"}
                                            ELSE {"None"}
  /\ says \in IF Asking THEN Texts ELSE Results
  /\ call = "idle" /\ attempt = 0
  /\ execution = [i \in Attempts |-> "none"]
  /\ outcome = "none" /\ payload = <<>> /\ info = NoInfo

-----------------------------------------------------------------------------

Ends(o) ==
  /\ call' = "over"
  /\ outcome' = o

(* The three streams answer InvalidOp without a request.                   *)
Begin ==
  /\ call = "idle"
  /\ IF method = "UnaryRequest"
     THEN call' = "waiting" /\ attempt' = 1 /\ UNCHANGED outcome
     ELSE Ends(HandleResponse("InvalidOp")) /\ UNCHANGED attempt
  /\ UNCHANGED <<requestVars, execution, payload, info>>

(* A request reaches the endpoint, maybe after its client gave it up.      *)
Arrive(i) ==
  /\ i <= attempt
  /\ execution[i] = "none"
  /\ execution' = [execution EXCEPT ![i] = "running"]
  /\ UNCHANGED <<requestVars, call, attempt, resultVars>>

(* The endpoint: ConduitServer.UnaryRequest, with no token.                *)
Execute(i) ==
  /\ execution[i] = "running"
  /\ \E end \in {"answered", "threw"} :
       execution' = [execution EXCEPT ![i] = end]
  /\ UNCHANGED <<requestVars, call, attempt, resultVars>>

(* The response to the attempt waited for.  Its control code is None, so   *)
(* that HandleResponse lets it through; GetAppInfo takes it for the text   *)
(* of an AppInfo.                                                          *)
Response ==
  /\ call = "waiting" /\ execution[attempt] = "answered"
  /\ payload' = says
  /\ IF Asking
     THEN /\ info' = ParseFrom(ThroughPayload(says))
          /\ Ends(IF info' = NoInfo THEN "ArgumentException" ELSE "ok")
     ELSE Ends("ok") /\ UNCHANGED info
  /\ UNCHANGED <<requestVars, attempt, execution>>

Retry(o) ==
  /\ IF attempt < MaxAttempts
     THEN attempt' = attempt + 1 /\ UNCHANGED <<call, outcome>>
     ELSE Ends(o) /\ UNCHANGED attempt
  /\ UNCHANGED <<requestVars, execution, payload, info>>

(* Mutant: whatever comes with a status of 500 is read as a response of    *)
(* no fields.                                                              *)
ServerErrorTrusted ==
  /\ call = "waiting" /\ execution[attempt] = "threw"
  /\ Ends("ok")
  /\ UNCHANGED <<requestVars, attempt, execution, payload, info>>

(* The application threw: status 500.  The status is not looked at, but    *)
(* the body of the last attempt is not JSON.                               *)
ServerError ==
  /\ call = "waiting" /\ execution[attempt] = "threw"
  /\ Retry("JsonException")

(* No connection, or the attempt takes too long.                           *)
AttemptFails ==
  /\ call = "waiting"
  /\ Retry("HttpRequestException")

(* All attempts together take too long.                                    *)
GiveUp ==
  /\ call = "waiting"
  /\ Ends("TimeoutRejectedException")
  /\ UNCHANGED <<requestVars, attempt, execution, payload, info>>

(* UnaryRequest does not pass its token on; GetAppInfo does.               *)
Cancel ==
  /\ call = "waiting" /\ Asking
  /\ Ends("OperationCanceledException")
  /\ UNCHANGED <<requestVars, attempt, execution, payload, info>>

HttpOver == call = "over" /\ UNCHANGED httpVars

Transport ==
  \/ \E i \in Attempts : Arrive(i) \/ Execute(i)
  \/ Response
  \/ ServerError
  \/ AttemptFails
  \/ GiveUp
  \/ Cancel

-----------------------------------------------------------------------------
(* Properties.                                                             *)

(* A call succeeds only with an answer of the application to the very      *)
(* attempt that was waited for: neither an error status nor a failure of   *)
(* an attempt is ever taken for one.                                       *)
SuccessIsAnswered ==
  outcome = "ok" => /\ method = "UnaryRequest"
                    /\ execution[attempt] = "answered"
                    /\ payload = says

(* ParseFrom reads from any text what it means: whatever an application    *)
(* answers to the empty request that GetAppInfo has become, in whatever    *)
(* order, with whatever repetitions, unknown keys and bad values.          *)
ParseFaithful ==
  Asking /\ outcome \in {"ok", "ArgumentException"} =>
    info = Meaning(ThroughPayload(says))

=============================================================================
