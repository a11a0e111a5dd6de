------------------------------ MODULE Conduits ------------------------------
(***************************************************************************)
(* Vocabulary shared by the modules of the conduit protocol: control       *)
(* codes, responses, deadlines, and the two pure functions of the client   *)
(* (SanitiseMaxCallDuration and HandleResponse).                           *)
(*                                                                         *)
(* Payloads are opaque to the protocol.  A payload is a number: item i of  *)
(* a stream carries i, and NoPayload stands for the encoded text that a    *)
(* control response carries instead of user data.                          *)
(***************************************************************************)
EXTENDS Integers, Sequences

CONSTANTS
  Null,          (* no value of a nullable DateTime or TimeSpan            *)
  LongestCall    (* the cap on MaxCallDuration: 300 seconds in the code    *)

ASSUME NullAssumption == Null \notin Int
ASSUME LongestCallAssumption == LongestCall \in Nat

-----------------------------------------------------------------------------

ControlCode == {"None", "GetAppInfo", "Timeout", "Cancelled",
                "InvalidData", "InvalidOp", "Exception"}

(* The verdicts a streaming call is cut short with; "None" is no verdict.  *)
Verdicts == {"None", "Timeout", "Cancelled"}

NoPayload == 0

NetResponse == [Control : ControlCode, Payload : Nat]

(* new NetResponse(payload): a user response, control code None.           *)
PayloadResponse(p) == [Control |-> "None", Payload |-> p]

(* new NetResponse(code, "...".EncodeMsg()): a control response.           *)
ControlResponse(c) == [Control |-> c, Payload |-> NoPayload]

(* The methods of INetConduit.  GetAppInfo travels as a UnaryRequest whose *)
(* control code says so.                                                   *)
Methods == {"UnaryRequest", "ServerStream", "ClientStream", "DuplexStream"}

-----------------------------------------------------------------------------

(* Mutant: not strictly after.                                             *)
DeadlineReached(deadline, now) == deadline # Null /\ now >= deadline

(* deadlineUtc.HasValue && GetUtcNow() > deadlineUtc.Value: strictly after.*)
DeadlineExceeded(deadline, now) == deadline # Null /\ now > deadline

(* Mutant: only one end of the range is enforced.                         *)
SanitiseBelowOnly(value) ==
  IF value # Null /\ value < 0 THEN 0 ELSE value

(* ConduitClient: null stays null, anything else is clamped to 0..5 min.   *)
SanitiseMaxCallDuration(value) ==
  IF value = Null          THEN Null
  ELSE IF value < 0        THEN 0
  ELSE IF value > LongestCall THEN LongestCall
  ELSE value

(* ConduitClient: the absolute deadline of a call that starts now.         *)
CalculateDeadline(duration, now) ==
  IF duration = Null THEN Null ELSE now + duration

(* Mutant: a timeout is let through as if it carried data.                 *)
HandleTimeoutAsData(c) ==
  CASE c \in {"None", "GetAppInfo", "Timeout"} -> "ok"
    [] c = "Cancelled"   -> "OperationCanceledException"
    [] OTHER             -> "Exception"

(* ConduitClient: what a response with control code c becomes for the user *)
(* of the client: "ok" lets it through, anything else names the exception. *)
HandleResponse(c) ==
  CASE c \in {"None", "GetAppInfo"} -> "ok"
    [] c = "Timeout"     -> "TimeoutException"
    [] c = "Cancelled"   -> "OperationCanceledException"
    [] c = "InvalidOp"   -> "InvalidOperationException"
    [] c = "InvalidData" -> "InvalidDataException"
    [] OTHER             -> "Exception"

=============================================================================
