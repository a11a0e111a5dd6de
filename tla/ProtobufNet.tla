----------------------------- MODULE ProtobufNet -----------------------------
(***************************************************************************)
(* One call through the protobuf-net transport: a ConduitClient over a     *)
(* ProtobufGrpcClient, and a ProtobufNetServer over a ConduitServer.       *)
(*                                                                         *)
(* The server side has a clock of its own making: GetMaxCallDuration turns *)
(* the deadline that came with the call, or its absence, into a timer that *)
(* cancels the token given to the ConduitServer, which is given the        *)
(* deadline as well.  gRPC itself is external: it carries the deadline as  *)
(* a remaining time, so that the server's deadline is the later one, keeps *)
(* the responses in order, and tells either side of the other's end.       *)
(*                                                                         *)
(* The clock is the one of ConduitServer; a unit of it is a millisecond.   *)
(***************************************************************************)
EXTENDS ConduitServer, InfoCodec

CONSTANTS
  LongestStay,   (* how long a call may stay without a deadline: one hour  *)
  Window,        (* bound: responses in flight (the flow control of HTTP/2)*)
  AppInfos       (* what the application may say it is                     *)

ASSUME NetAssumption ==
  /\ LongestStay \in Nat /\ LongestCall <= LongestStay
  /\ Window \in Nat \ {0}

ASSUME AppInfosAssumption ==
  AppInfos \subseteq [name : Seq(Tokens), version : Seq(Numbers)]

VARIABLES
  patience,         (* how far off the client's deadline is when it calls  *)
  userCancelled,    (* the user has cancelled the token it passed          *)
  contextDeadline,  (* context.Deadline                                    *)
  contextCancelled, (* context.CancellationToken                           *)
  timer,            (* when deadlineCts fires, Null when it never will     *)
  handler,          (* where the method of ProtobufNetServer is            *)
  written,          (* responses written to the wire                       *)
  got,              (* stream responses the client has passed to its user  *)
  client,           (* where the client is                                 *)
  outcome,          (* how the call ended for the user                     *)
  appInfo,          (* the application's AppInfo                           *)
  info              (* the AppInfo the user got                            *)

wireVars == <<contextDeadline, contextCancelled, timer, handler, written>>
userVars == <<patience, userCancelled, got, client, outcome, appInfo, info>>
netVars  == <<wireVars, userVars>>
netSpecVars == <<vars, netVars>>

Asking == control = "GetAppInfo"

(* The streams are given the user's token, and so is GetAppInfo.           *)
TokenPassed == Downloading \/ Asking

(* A deadline is measured from the call, at time 0 of the model.           *)
NetInit ==
  /\ Init
  /\ patience \in {Null} \cup 0 .. LongestCall
  /\ Asking => patience = Null
  /\ appInfo \in IF Asking THEN AppInfos ELSE {NoInfo}
  /\ info = NoInfo
  /\ userCancelled = FALSE /\ contextCancelled = FALSE
  /\ contextDeadline = Null /\ timer = Null
  /\ handler = "absent" /\ written = 0
  /\ client = "calling" /\ got = 0 /\ outcome = "none"

-----------------------------------------------------------------------------
(* The way there.                                                          *)

(* ClientStream and DuplexStream throw.                                    *)
Unsupported ==
  /\ client = "calling" /\ Uploading
  /\ client' = "over" /\ outcome' = "NotImplementedException"
  /\ UNCHANGED <<vars, wireVars, patience, userCancelled, got, appInfo, info>>

Send ==
  /\ client = "calling" /\ ~Uploading
  /\ client' = "waiting"
  /\ UNCHANGED <<vars, wireVars, patience, userCancelled, got, outcome, appInfo, info>>

(* A call that its client has given up by now may arrive all the same.     *)
Arrive ==
  /\ handler = "absent" /\ client # "calling" /\ ~Uploading
  /\ handler' = "arrived"
  /\ contextDeadline' = CalculateDeadline(patience, now)
  /\ UNCHANGED <<vars, contextCancelled, timer, written, userVars>>

(* Mutants: without a deadline there is no timer; the hour is no cap; the  *)
(* server keeps a unit of the time to itself.                              *)
MaxCallDurationInfinite ==
  IF contextDeadline = Null THEN -1 ELSE contextDeadline - now

MaxCallDurationUncapped ==
  IF contextDeadline = Null THEN LongestStay + 1 ELSE contextDeadline - now

MaxCallDurationReserving ==
  LET duration == (IF contextDeadline = Null THEN now + LongestStay
                                             ELSE contextDeadline) - now - 1
  IN  IF duration > LongestStay THEN LongestStay ELSE duration

GetMaxCallDuration ==
  LET duration == (IF contextDeadline = Null THEN now + LongestStay
                                             ELSE contextDeadline) - now
  IN  IF duration > LongestStay THEN LongestStay ELSE duration

(* The two token sources.  A negative number of milliseconds is refused,   *)
(* with an exception, but for -1, which stands for no timer; a token       *)
(* linked to a cancelled one, or timed to 0, is cancelled from the start.  *)
Link ==
  /\ handler = "arrived"
  /\ LET duration == GetMaxCallDuration
     IN  IF duration < -1
         THEN handler' = "failed" /\ UNCHANGED <<timer, vars>>
         ELSE /\ handler' = "linked"
              /\ timer' = IF duration = -1 THEN Null ELSE now + duration
              /\ IF contextCancelled \/ duration = 0 THEN RequestCancellation
                                                     ELSE UNCHANGED vars
  /\ UNCHANGED <<contextDeadline, contextCancelled, written, userVars>>

Invoke ==
  /\ handler = "linked"
  /\ handler' = "serving"
  /\ Start(contextDeadline)
  /\ UNCHANGED <<contextDeadline, contextCancelled, timer, written, userVars>>

-----------------------------------------------------------------------------
(* Cancellation on the server's side.                                      *)

Linked == handler \in {"linked", "serving"}

TimerDue == Linked /\ ~cancelled /\ timer # Null /\ now >= timer

TimerFires ==
  /\ TimerDue
  /\ RequestCancellation
  /\ UNCHANGED netVars

(* For gRPC a call is over on the client's side when it has ended there or *)
(* when the user has cancelled it.                                         *)
Gone == client = "over" \/ userCancelled

(* gRPC tells the server that the client has gone, or that the deadline is *)
(* over.                                                                   *)
ContextCancels ==
  /\ ~contextCancelled
  /\ now < MaxTime
  /\ handler = "arrived" \/ Linked
  /\ Gone \/ (contextDeadline # Null /\ now >= contextDeadline)
  /\ contextCancelled' = TRUE
  /\ IF Linked /\ ~cancelled THEN RequestCancellation ELSE UNCHANGED vars
  /\ UNCHANGED <<contextDeadline, timer, handler, written, userVars>>

-----------------------------------------------------------------------------
(* The server's responses.                                                 *)

Serve ==
  /\ handler = "serving"
  /\ ServerMethod \/ AppYield \/ AppEnd \/ AppReturn \/ AppThrow
  /\ UNCHANGED netVars

(* yield return of ServerStream: the response is written, and then the     *)
(* ConduitServer is asked for the next one.                                *)
SendResponse ==
  /\ handler = "serving"
  /\ written - got < Window
  /\ MoveNext
  /\ written' = Len(out)
  /\ UNCHANGED <<contextDeadline, contextCancelled, timer, handler, userVars>>

(* A response can no longer be written: the stream is disposed of.         *)
SendFails ==
  /\ handler = "serving" /\ contextCancelled
  /\ Drop
  /\ handler' = "failed"
  /\ UNCHANGED <<contextDeadline, contextCancelled, timer, written, userVars>>

HandlerEnds ==
  /\ handler = "serving"
  /\ \/ main = "done" /\ handler' = "ok"
     \/ main = "threw" /\ handler' = "failed"
  /\ UNCHANGED <<vars, contextDeadline, contextCancelled, timer, written, userVars>>

-----------------------------------------------------------------------------
(* The client.                                                             *)

(* A response reaches the client, which goes on with it later: the user may*)
(* cancel in between.  gRPC hands over no response of a call that has been *)
(* cancelled, and a single response only when the handler came to its end. *)
Take ==
  /\ client = "waiting" /\ ~userCancelled
  /\ IF Downloading THEN got < written ELSE handler = "ok"
  /\ client' = "handling"
  /\ UNCHANGED <<vars, wireVars, patience, userCancelled, got, outcome, appInfo, info>>

(* What HandleResponse makes of the response that was taken.               *)
Handled == HandleResponse(out[got + 1].Control)

(* Mutant: the exception is taken for the end of the stream.               *)
ReceiveQuietly ==
  /\ client = "handling" /\ Downloading
  /\ IF Handled = "ok"
     THEN got' = got + 1 /\ client' = "holding" /\ UNCHANGED outcome
     ELSE client' = "over" /\ outcome' = "ok" /\ UNCHANGED got
  /\ UNCHANGED <<vars, wireVars, patience, userCancelled, appInfo, info>>

(* A response of a stream: HandleResponse lets it through or throws, which *)
(* disposes of the gRPC call.                                              *)
Receive ==
  /\ client = "handling" /\ Downloading
  /\ IF Handled = "ok"
     THEN got' = got + 1 /\ client' = "holding" /\ UNCHANGED outcome
     ELSE client' = "over" /\ outcome' = Handled /\ UNCHANGED got
  /\ UNCHANGED <<vars, wireVars, patience, userCancelled, appInfo, info>>

(* What GetAppInfo makes of the payload.                                   *)
Told == ParseFrom(ThroughPayload(ToText(appInfo)))

(* The single response of UnaryRequest or GetAppInfo.                      *)
Result ==
  /\ client = "handling" /\ ~Downloading
  /\ client' = "over"
  /\ IF Asking /\ Handled = "ok"
     THEN /\ info' = Told
          /\ outcome' = IF Told = NoInfo THEN "ArgumentException" ELSE "ok"
     ELSE outcome' = Handled /\ UNCHANGED info
  /\ UNCHANGED <<vars, wireVars, patience, userCancelled, got, appInfo>>

Ask ==
  /\ client = "holding"
  /\ client' = "waiting"
  /\ UNCHANGED <<vars, wireVars, patience, userCancelled, got, outcome, appInfo, info>>

StreamEnds ==
  /\ client = "waiting" /\ Downloading /\ handler = "ok" /\ got = written
  /\ client' = "over" /\ outcome' = "ok"
  /\ UNCHANGED <<vars, wireVars, patience, userCancelled, got, appInfo, info>>

(* The user leaves the loop over the responses.  The last instant is kept  *)
(* free of whatever makes gRPC cancel the server's context.                *)
Leave ==
  /\ client = "holding" /\ now < MaxTime
  /\ client' = "over" /\ outcome' = "abandoned"
  /\ UNCHANGED <<vars, wireVars, patience, userCancelled, got, appInfo, info>>

(* gRPC ends the call with an exception that no one translates: the token, *)
(* the deadline on the client's side, the failure of the handler, or, at   *)
(* any time, a loss of the connection.                                     *)
Fails ==
  /\ client = "waiting"
  /\ now < MaxTime \/ handler = "failed" \/ userCancelled
  /\ client' = "over" /\ outcome' = "RpcException"
  /\ UNCHANGED <<vars, wireVars, patience, userCancelled, got, appInfo, info>>

(* The user cancels the token while the client waits, handles a response or*)
(* has given one to the user; what comes of it shows when it waits again.  *)
UserCancels ==
  /\ ~userCancelled /\ TokenPassed
  /\ client \in {"waiting", "handling", "holding"} /\ now < MaxTime
  /\ userCancelled' = TRUE
  /\ UNCHANGED <<vars, wireVars, patience, got, client, outcome, appInfo, info>>

-----------------------------------------------------------------------------

(* Bounds: a call comes early enough for its timer to run out within the   *)
(* clock's range, and what is due before the last instant happens before.  *)
TimePasses ==
  /\ client # "calling"
  /\ handler \in {"absent", "arrived"} => now + LongestStay + 1 < MaxTime
  /\ now + 1 = MaxTime /\ Linked =>
       ~TimerDue /\ (Gone => contextCancelled)
  /\ Tick
  /\ UNCHANGED netVars

NetOver ==
  /\ client = "over"
  /\ handler \in {"ok", "failed"} \/ Uploading
  /\ UNCHANGED netSpecVars

Caller ==
  Unsupported \/ Send \/ Take \/ Receive \/ Result \/ StreamEnds \/ Fails

Handler == Link \/ Invoke \/ SendResponse \/ SendFails \/ HandlerEnds

User == Ask \/ Leave \/ UserCancels

NetNext ==
  \/ TimePasses
  \/ Caller
  \/ User
  \/ Arrive
  \/ TimerFires
  \/ ContextCancels
  \/ Handler
  \/ Serve
  \/ NetOver

NetSpec == NetInit /\ [][NetNext]_netSpecVars

(* The runtime resumes every continuation, the clock and the timer run,    *)
(* gRPC tells the server that its client has gone, and delivers what was   *)
(* sent.  The application goes on answering but need never end a stream,   *)
(* and the user goes on asking unless it leaves.                           *)
NetFairness ==
  /\ WF_netSpecVars(TimePasses)
  /\ WF_netSpecVars(TimerFires)
  /\ WF_netSpecVars(ContextCancels /\ Gone)
  /\ WF_netSpecVars(Link)
  /\ WF_netSpecVars(Invoke)
  /\ WF_netSpecVars(SendResponse)
  /\ WF_netSpecVars(SendFails)
  /\ WF_netSpecVars(HandlerEnds)
  /\ WF_netSpecVars(handler = "serving" /\ ServerMethod /\ UNCHANGED netVars)
  /\ WF_netSpecVars(handler = "serving" /\ AppYield /\ UNCHANGED netVars)
  /\ WF_netSpecVars(Take)
  /\ WF_netSpecVars(Receive)
  /\ WF_netSpecVars(Ask)

FairNetSpec == NetSpec /\ NetFairness

-----------------------------------------------------------------------------
(* Properties.                                                             *)

Stages == {"absent", "arrived", "linked", "serving", "ok", "failed"}

Outcomes == {"none", "ok", "abandoned", "RpcException", "ArgumentException",
             "NotImplementedException", "TimeoutException",
             "OperationCanceledException"}

(* Every variable keeps to its domain; the user never has more responses   *)
(* than were written, nor were more written than the server yielded.       *)
NetTypeOK ==
  /\ patience \in {Null} \cup 0 .. LongestCall
  /\ userCancelled \in BOOLEAN /\ contextCancelled \in BOOLEAN
  /\ contextDeadline \in Deadlines
  /\ timer \in {Null} \cup 0 .. (MaxTime + LongestStay)
  /\ handler \in Stages
  /\ got \in 0 .. written /\ written \in 0 .. Len(out)
  /\ client \in {"calling", "waiting", "handling", "holding", "over"}
  /\ outcome \in Outcomes
  /\ appInfo \in AppInfos \cup {NoInfo}
  /\ DOMAIN info = {"name", "version"}

(* A call is never left without a bound: either the timer will fire within *)
(* the longest stay, or the deadline given to the ConduitServer is over    *)
(* already, also in the one case where the timer is infinite.              *)
AlwaysBounded ==
  handler = "serving" =>
    \/ timer # Null /\ timer <= now + LongestStay
    \/ contextDeadline # Null /\ contextDeadline < now

(* The call has been under way as long as its client meant it to be, or,   *)
(* if its client set no limit, as long as a call may stay on the server.   *)
TimeUp == now >= IF patience = Null THEN LongestStay ELSE patience

(* The deadline is enforced twice, by the timer and by the clock test of   *)
(* ConduitServer, and each tells the user something else.  Either way what *)
(* the user is told is so: TimeoutException only when the client's own     *)
(* deadline is over, OperationCanceledException only when the time of the  *)
(* call is up, be it that deadline or, without one, the longest stay.  No  *)
(* timer cancels too early, and no cancellation by the user comes back as  *)
(* one by the server.                                                      *)
OutcomeJustified ==
  /\ outcome = "TimeoutException" => patience # Null /\ patience < now
  /\ outcome = "OperationCanceledException" => TimeUp

(* Stream responses come as StreamPromise promises it: the client     *)
(* gets each of them once and in order, and takes the stream for complete  *)
(* only when it has them all and the handler came to a normal end.         *)
Responses == INSTANCE StreamPromise WITH
  produced <- Len(out),
  source   <- CASE handler = "ok" -> "ended" [] handler = "failed" -> "broken"
                [] OTHER -> "open",
  consumed <- got,
  sink     <- CASE outcome = "none" -> "open" [] outcome = "ok" -> "ended"
                [] OTHER -> "broken",
  excused  <- ~Downloading

ResponsesPromise == Responses!Spec

(* GetAppInfo brings what the application is to the user unharmed, if the  *)
(* application's name and version can be said at all.                      *)
WellFormed(i) ==
  ValidInput(i.name) /\ ValidVersion(i.version)
  /\ \A k \in DOMAIN i.name : i.name[k] # "lone"

InfoSurvives ==
  outcome \in {"ok", "ArgumentException"} /\ Asking /\ WellFormed(appInfo) =>
    info = appInfo

(* The code's enumeration: Timeout is "deadline exceeded", Cancelled is    *)
(* "operation cancelled".  So a user is told of a cancellation only when   *)
(* it has cancelled.                                                       *)
CancelledMeansCancelled ==
  outcome = "OperationCanceledException" => userCancelled

(* No stream stays on the server forever: even if the application would go *)
(* on for ever and the call has no deadline, the hour ends it.             *)
StayBounded ==
  handler = "serving" /\ Downloading ~> handler \in {"ok", "failed"}

=============================================================================
