----------------------------- MODULE ConduitCall -----------------------------
(***************************************************************************)
(* One call made through a ConduitClient, composed with the ConduitServer  *)
(* that serves it; the two are connected directly, as the tests of the     *)
(* repository connect them (the INetConduit of the client is the server).  *)
(*                                                                         *)
(* The client is shared: any thread may set MaxCallDuration while a call   *)
(* is computing its deadline from it.  The user pulls the results of a     *)
(* stream, may cancel the token it passed, and may walk away.              *)
(***************************************************************************)
EXTENDS ConduitServer

VARIABLES
  duration,       (* _maxCallDuration                                      *)
  pc,             (* where the client method is                            *)
  startedAt,      (* the instant read in calculateDeadline                 *)
  userCancelled,  (* the user has cancelled the token it passed            *)
  received,       (* the payloads the user has got                         *)
  outcome         (* how the call ended for the user                       *)

clientVars == <<duration, pc, startedAt, userCancelled, received, outcome>>
callSpecVars == <<vars, clientVars>>

Durations == {Null} \cup 0 .. LongestCall

(* What a caller may pass as maxCallDuration: out of range values too.     *)
Settings == {Null} \cup -1 .. (LongestCall + 1)

(* Mutant: only ServerStream passes the token on.                          *)
TokenPassedToServerStream == method = "ServerStream"

(* GetAppInfo and the response streams are given the user's token; the     *)
(* other two methods call the server without one.                          *)
TokenPassed == Downloading \/ control = "GetAppInfo"

CallInit ==
  /\ Init
  /\ duration \in {SanitiseMaxCallDuration(v) : v \in Settings}
  /\ pc = "idle" /\ startedAt = 0 /\ userCancelled = FALSE
  /\ received = <<>> /\ outcome = "none"

-----------------------------------------------------------------------------

(* The property may be set at any time; once the call has its deadline it  *)
(* no longer matters to it.                                                *)
SetMaxCallDuration(v) ==
  /\ pc \in {"idle", "adding"}
  /\ duration' = SanitiseMaxCallDuration(v)
  /\ UNCHANGED <<vars, pc, startedAt, userCancelled, received, outcome>>

(* The call up to the clock reading in calculateDeadline.  GetAppInfo does *)
(* not compute a deadline; without a duration there is none either.        *)
Begin ==
  /\ pc = "idle"
  /\ startedAt' = now
  /\ IF control = "GetAppInfo" \/ duration = Null
     THEN Start(Null) /\ pc' = "calling"
     ELSE pc' = "adding" /\ UNCHANGED vars
  /\ UNCHANGED <<duration, userCancelled, received, outcome>>

(* _maxCallDuration is read a second time, for its Value: if it was reset  *)
(* to null in between, Value throws.                                       *)
AddDuration ==
  /\ pc = "adding"
  /\ IF duration = Null
     THEN /\ outcome' = "InvalidOperationException"
          /\ pc' = "over"
          /\ UNCHANGED vars
     ELSE /\ Start(CalculateDeadline(duration, startedAt))
          /\ pc' = "calling"
          /\ UNCHANGED outcome
  /\ UNCHANGED <<duration, startedAt, userCancelled, received>>

UserCancel ==
  /\ ~userCancelled
  /\ now < MaxTime
  /\ userCancelled' = TRUE
  /\ IF TokenPassed THEN RequestCancellation ELSE UNCHANGED vars
  /\ UNCHANGED <<duration, pc, startedAt, received, outcome>>

-----------------------------------------------------------------------------
(* The client's side of a response stream.                                 *)

(* Mutant: the exception leaves the server's stream undisposed.            *)
ReceiveWithoutDispose ==
  /\ pc = "calling"
  /\ main \in {"yielded", "last"}
  /\ LET response == out[Len(out)]
         result == HandleResponse(response.Control)
     IN  IF result = "ok"
         THEN /\ received' = Append(received, response.Payload)
              /\ pc' = "holding"
              /\ UNCHANGED <<vars, outcome>>
         ELSE /\ outcome' = result
              /\ pc' = "over"
              /\ UNCHANGED <<vars, received>>
  /\ UNCHANGED <<duration, startedAt, userCancelled>>

(* A response arrives: HandleResponse lets it through to the user, or      *)
(* throws, and the await foreach disposes the server's stream.             *)
Receive ==
  /\ pc = "calling"
  /\ main \in {"yielded", "last"}
  /\ LET response == out[Len(out)]
         result == HandleResponse(response.Control)
     IN  IF result = "ok"
         THEN /\ received' = Append(received, response.Payload)
              /\ pc' = "holding"
              /\ UNCHANGED <<vars, outcome>>
         ELSE /\ outcome' = result
              /\ pc' = "over"
              /\ Drop
              /\ UNCHANGED received
  /\ UNCHANGED <<duration, startedAt, userCancelled>>

UserAsksNext ==
  /\ pc = "holding"
  /\ pc' = "calling"
  /\ MoveNext
  /\ UNCHANGED <<duration, startedAt, userCancelled, received, outcome>>

UserAbandons ==
  /\ pc = "holding"
  /\ pc' = "over"
  /\ outcome' = "abandoned"
  /\ Drop
  /\ UNCHANGED <<duration, startedAt, userCancelled, received>>

StreamEnds ==
  /\ pc = "calling"
  /\ Downloading
  /\ main = "done"
  /\ pc' = "over"
  /\ outcome' = "ok"
  /\ UNCHANGED <<vars, duration, startedAt, userCancelled, received>>

(* The single response of UnaryRequest, GetAppInfo or ClientStream.        *)
SingleResult ==
  /\ pc = "calling"
  /\ ~Downloading
  /\ main = "done"
  /\ pc' = "over"
  /\ LET response == out[Len(out)]
         result == HandleResponse(response.Control)
     IN  IF result = "ok"
         THEN outcome' = "ok" /\ received' = <<response.Payload>>
         ELSE outcome' = result /\ UNCHANGED received
  /\ UNCHANGED <<vars, duration, startedAt, userCancelled>>

(* An exception of the application passes through server and client.       *)
Rethrow ==
  /\ pc = "calling"
  /\ main = "threw"
  /\ pc' = "over"
  /\ outcome' = "AppException"
  /\ UNCHANGED <<vars, duration, startedAt, userCancelled, received>>

-----------------------------------------------------------------------------

User == UserCancel \/ UserAsksNext \/ UserAbandons

Client == Begin \/ AddDuration \/ Receive \/ StreamEnds \/ SingleResult \/ Rethrow

(* The steps of the server's side that the client has no part in.          *)
Elsewhere ==
  /\ Tick \/ Application \/ Server \/ Requests
  /\ UNCHANGED clientVars

CallOver == pc = "over" /\ UNCHANGED callSpecVars

CallNext ==
  \/ \E v \in Settings : SetMaxCallDuration(v)
  \/ User
  \/ Client
  \/ Elsewhere
  \/ CallOver

CallSpec == CallInit /\ [][CallNext]_callSpecVars

(* Fairness as in ConduitServer, where the user asks for the next result   *)
(* instead of the caller, and the client runs.                             *)
CallFairness ==
  /\ WF_callSpecVars(Client)
  /\ WF_callSpecVars(UserAsksNext)
  /\ WF_callSpecVars(Tick /\ UNCHANGED clientVars)
  /\ WF_callSpecVars(ServerMethod /\ UNCHANGED clientVars)
  /\ WF_callSpecVars(AppYield /\ UNCHANGED clientVars)

FairCallSpec == CallSpec /\ CallFairness

-----------------------------------------------------------------------------
(* Properties.                                                             *)

Outcomes == {"none", "ok", "TimeoutException", "OperationCanceledException",
             "InvalidOperationException", "AppException", "abandoned"}

(* The client's variables keep to their domains; the duration that is      *)
(* stored is always null or within the documented range.                   *)
CallTypeOK ==
  /\ duration \in Durations
  /\ pc \in {"idle", "adding", "calling", "holding", "over"}
  /\ startedAt \in 0 .. MaxTime
  /\ userCancelled \in BOOLEAN
  /\ received \in Seq(Nat)
  /\ outcome \in Outcomes

(* A deadline lies between the start of its call and the longest duration  *)
(* the client admits, whatever was set and whenever it was set.            *)
DeadlineWithinRange ==
  deadline # Null => deadline \in startedAt .. (startedAt + LongestCall)

(* A call that is over for its user is over on the server too: no response *)
(* stream is left suspended, holding the application's resources.          *)
NoOrphanedStream ==
  outcome # "none" => main \in Finished \cup {"created"}

(* The doc of MaxCallDuration: if not null, this is used to calculate a    *)
(* deadline for each call.                                                 *)
EveryCallHasDeadline ==
  main # "created" /\ duration # Null => deadline # Null

(* The call keeps what CallPromise promises: its user gets the answers in  *)
(* order and none that was late, and an outcome that is true.              *)
Promise == INSTANCE CallPromise WITH
  streaming <- Downloading,
  answered  <- Len(arrivals),
  late      <- arrivals # <<>> /\ arrivals[Len(arrivals)].verdict # "None",
  delivered <- received,
  tooLate   <- Expired,
  cancelled <- cancelled,
  outcome   <- outcome

PromiseSpec == Promise!Spec

(* A user that cancels a response stream, or whose deadline is over, and   *)
(* who goes on asking for results, is told how the call ended, even by an  *)
(* application that never ends its stream.                                 *)
CutReachesUser ==
  Downloading /\ (userCancelled \/ Expired) ~> outcome # "none"

=============================================================================
