--------------------------- MODULE MailboxPromise ---------------------------
(***************************************************************************)
(* What the chat hub promises to those who call it, however many call at   *)
(* once: each call takes effect in one instant between the call and its    *)
(* reply, on one mailbox per address that holds one message per id.        *)
(*                                                                         *)
(* A message is named by its id and told from others with that id by its   *)
(* sender.                                                                 *)
(***************************************************************************)

CONSTANTS
  Addresses,   (* the targets of messages                                  *)
  Ids,         (* the message ids, chosen by the senders                   *)
  Sources,     (* the senders                                              *)
  Nobody,      (* the sender of no message                                 *)
  Tasks        (* the calls that may be under way at the same time         *)

VARIABLES
  undelivered,   (* per address and id, the sender of the message          *)
  query,         (* per task, the query it serves                          *)
  reply          (* per task, the reply it has for its caller              *)

vars == <<undelivered, query, reply>>

Boxes == [Ids -> Sources \cup {Nobody}]

NoMail == [i \in Ids |-> Nobody]

Queries ==
       [type : {"GetMessagesQuery"}, target : Addresses]
  \cup [type : {"AckMessageCmd"}, target : Addresses, id : Ids]
  \cup [type : {"SendMessageCmd"}, target : Addresses, id : Ids, source : Sources]

NoQuery == [type |-> "none"]

Replies == [type : {"BoolReply"}, result : BOOLEAN]
      \cup [type : {"GetMessagesReply"}, envelopes : Boxes]

NoReply == [type |-> "none"]

BoolReply(b) == [type |-> "BoolReply", result |-> b]

GetMessagesReply(m) == [type |-> "GetMessagesReply", envelopes |-> m]

Init ==
  /\ undelivered = [a \in Addresses |-> NoMail]
  /\ query = [t \in Tasks |-> NoQuery]
  /\ reply = [t \in Tasks |-> NoReply]

Call(t, q) ==
  /\ query[t] = NoQuery
  /\ query' = [query EXCEPT ![t] = q]
  /\ UNCHANGED <<undelivered, reply>>

(* A message is accepted unless one with its id is waiting; the first      *)
(* acknowledgement takes it away; GetAll shows what is waiting.            *)
Effect(t) ==
  /\ query[t] # NoQuery
  /\ reply[t] = NoReply
  /\ LET q   == query[t]
         box == undelivered[q.target]
     IN  \/ /\ q.type = "GetMessagesQuery"
            /\ reply' = [reply EXCEPT ![t] = GetMessagesReply(box)]
            /\ UNCHANGED undelivered
         \/ /\ q.type = "SendMessageCmd"
            /\ reply' = [reply EXCEPT ![t] = BoolReply(box[q.id] = Nobody)]
            /\ undelivered' = IF box[q.id] = Nobody
                              THEN [undelivered EXCEPT ![q.target][q.id] = q.source]
                              ELSE undelivered
         \/ /\ q.type = "AckMessageCmd"
            /\ reply' = [reply EXCEPT ![t] = BoolReply(box[q.id] # Nobody)]
            /\ undelivered' = [undelivered EXCEPT ![q.target][q.id] = Nobody]
  /\ UNCHANGED query

Return(t) ==
  /\ reply[t] # NoReply
  /\ query' = [query EXCEPT ![t] = NoQuery]
  /\ reply' = [reply EXCEPT ![t] = NoReply]
  /\ UNCHANGED undelivered

Next ==
  \E t \in Tasks :
    \/ \E q \in Queries : Call(t, q)
    \/ Effect(t)
    \/ Return(t)

Spec == Init /\ [][Next]_vars

=============================================================================
