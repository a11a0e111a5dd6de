---------------------------- MODULE CallPromise ----------------------------
(***************************************************************************)
(* What one call through a ConduitClient promises to its user, with no     *)
(* mention of control codes, wire responses or the tests the server makes. *)
(*                                                                         *)
(* The application gives answers one at a time and the user gets a prefix  *)
(* of them.  The call ends with one outcome, and nothing comes after it:   *)
(* "ok" means that every answer was delivered, a TimeoutException that the *)
(* deadline is over, an OperationCanceledException that the call was       *)
(* cancelled.  An answer of a stream that came late is never delivered.    *)
(***************************************************************************)
EXTENDS Naturals, Sequences

VARIABLES
  streaming,   (* the call streams its answers                             *)
  answered,    (* the number of answers the application has given          *)
  late,        (* the latest answer came after the deadline or the cancel  *)
  delivered,   (* the answers the user has got                             *)
  tooLate,     (* the deadline is over                                     *)
  cancelled,   (* the call was cancelled                                   *)
  outcome      (* none until the call is over for the user                 *)

vars == <<streaming, answered, late, delivered, tooLate, cancelled, outcome>>

Outcomes == {"none", "ok", "TimeoutException", "OperationCanceledException",
             "InvalidOperationException", "AppException", "abandoned"}

Init ==
  /\ streaming \in BOOLEAN
  /\ answered = 0 /\ late = FALSE /\ delivered = <<>>
  /\ tooLate = FALSE /\ cancelled = FALSE /\ outcome = "none"

(* The deadline passes, or somebody cancels the call.                      *)
Cut ==
  /\ tooLate => tooLate'
  /\ cancelled => cancelled'
  /\ UNCHANGED <<streaming, answered, late, delivered, outcome>>

(* The application is not asked for an answer while the user has yet to    *)
(* get the previous one: nothing is buffered.                              *)
Answer ==
  /\ outcome = "none"
  /\ answered = Len(delivered)
  /\ answered' = answered + 1
  /\ late' = (tooLate \/ cancelled)
  /\ UNCHANGED <<streaming, delivered, tooLate, cancelled, outcome>>

Deliver ==
  /\ outcome = "none"
  /\ Len(delivered) < answered
  /\ streaming => ~late
  /\ delivered' = Append(delivered, Len(delivered) + 1)
  /\ outcome' \in IF streaming THEN {"none"} ELSE {"ok"}
  /\ UNCHANGED <<streaming, answered, late, tooLate, cancelled>>

(* A stream ends normally only when the user has got everything.           *)
Complete ==
  /\ outcome = "none"
  /\ streaming
  /\ Len(delivered) = answered
  /\ outcome' = "ok"
  /\ UNCHANGED <<streaming, answered, late, delivered, tooLate, cancelled>>

(* The call ends early, for a reason that is true.                         *)
Fail(reason) ==
  /\ outcome = "none"
  /\ reason = "TimeoutException" => tooLate
  /\ reason = "OperationCanceledException" => cancelled
  /\ reason = "InvalidOperationException" => answered = 0
  /\ reason = "AppException" => Len(delivered) = answered
  /\ reason = "abandoned" => delivered # <<>>
  /\ outcome' = reason
  /\ UNCHANGED <<streaming, answered, late, delivered, tooLate, cancelled>>

Next ==
  \/ Cut \/ Answer \/ Deliver \/ Complete
  \/ \E reason \in Outcomes \ {"none", "ok"} : Fail(reason)

Spec == Init /\ [][Next]_vars

=============================================================================
