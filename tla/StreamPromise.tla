--------------------------- MODULE StreamPromise ---------------------------
(***************************************************************************)
(* What a transport promises about one direction of a call: the sink gets  *)
(* what the source produced, in order, each item once, and is told that    *)
(* the stream is complete only when the source completed it and nothing is *)
(* missing.  Any time it may be told that the stream broke instead.        *)
(*                                                                         *)
(* While excused is TRUE the end of the stream tells the sink nothing.     *)
(***************************************************************************)
EXTENDS Naturals

VARIABLES
  produced,   (* how many items the source has produced                    *)
  source,     (* whether it will produce more                              *)
  consumed,   (* how many items the sink has got                           *)
  sink,       (* what the sink has been told                               *)
  excused     (* the sink has no right to a verdict                        *)

ends == <<produced, source, consumed, sink>>

Phases == {"open", "ended", "broken"}

Init ==
  /\ produced = 0 /\ source = "open"
  /\ consumed = 0 /\ sink = "open"

Produce ==
  /\ source = "open"
  /\ produced' = produced + 1
  /\ UNCHANGED <<source, consumed, sink>>

Complete ==
  /\ source = "open"
  /\ source' = "ended"
  /\ UNCHANGED <<produced, consumed, sink>>

(* The item at which a source breaks may be lost.                          *)
Break ==
  /\ source = "open"
  /\ source' = "broken"
  /\ produced' \in {produced, produced + 1}
  /\ UNCHANGED <<consumed, sink>>

Consume ==
  /\ sink = "open"
  /\ consumed < produced
  /\ consumed' = consumed + 1
  /\ UNCHANGED <<produced, source, sink>>

SeeEnd ==
  /\ sink = "open"
  /\ excused \/ (source = "ended" /\ consumed = produced)
  /\ sink' = "ended"
  /\ UNCHANGED <<produced, source, consumed>>

SeeBreak ==
  /\ sink = "open"
  /\ sink' = "broken"
  /\ UNCHANGED <<produced, source, consumed>>

Next == Produce \/ Complete \/ Break \/ Consume \/ SeeEnd \/ SeeBreak

Spec == Init /\ [][Next]_ends

=============================================================================
