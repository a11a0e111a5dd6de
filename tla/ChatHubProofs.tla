--------------------------- MODULE ChatHubProofs ---------------------------
(***************************************************************************)
(* Proofs about the chat hub, for any number of addresses, messages,       *)
(* senders and concurrent calls: it conserves messages, and it implements  *)
(* MailboxPromise, that is, its calls are linearizable.                    *)
(***************************************************************************)
EXTENDS ChatHub, TLAPS

NoMail == Promise!NoMail

(* A mailbox is registered at the address it was made for.                 *)
Owned ==
  \A a \in Addresses : messages[a] # Nobody => \E t \in Tasks : messages[a] = <<a, t>>

(* A mailbox that is not registered holds nothing.                         *)
Fresh ==
  \A a \in Addresses, t \in Tasks : messages[a] # <<a, t>> => contents[<<a, t>>] = NoMail

(* A task makes a mailbox only for a message, and exchanges only what it   *)
(* has found worth exchanging.                                             *)
Poised ==
  \A t \in Tasks :
    /\ place[t] = "register" => query[t].type = "SendMessageCmd"
    /\ place[t] = "exchange" =>
         \/ query[t].type = "SendMessageCmd" /\ prior[t][query[t].id] = Nobody
         \/ query[t].type = "AckMessageCmd" /\ prior[t][query[t].id] # Nobody

IInv == TypeOK /\ Owned /\ Fresh /\ Poised /\ Conservation

-----------------------------------------------------------------------------
(* Vocabulary.                                                             *)

(* A query that is not "none" has a type, a target and, unless it gets all *)
(* messages, an id.                                                        *)
LEMMA QueryType ==
  ASSUME NEW q \in Promise!Queries
  PROVE  /\ q.target \in Addresses
         /\ q.type \in {"GetMessagesQuery", "AckMessageCmd", "SendMessageCmd"}
         /\ q.type # "GetMessagesQuery" => q.id \in Ids
         /\ q.type = "SendMessageCmd" => q.source \in Sources
         /\ q # Promise!NoQuery
BY DEF Promise!Queries, Promise!NoQuery

(* The replies of the hub are replies.                                     *)
LEMMA ReplyType ==
  /\ \A b \in BOOLEAN : /\ Promise!BoolReply(b) \in Promise!Replies
                        /\ Promise!BoolReply(b) # Promise!NoReply
  /\ \A m \in Promise!Boxes : /\ Promise!GetMessagesReply(m) \in Promise!Replies
                              /\ Promise!GetMessagesReply(m) # Promise!NoReply
  /\ Promise!NoMail \in Promise!Boxes
BY DEF Promise!BoolReply, Promise!GetMessagesReply, Promise!Replies, Promise!NoReply,
       Promise!NoMail, Promise!Boxes

-----------------------------------------------------------------------------
(* Type correctness.                                                       *)

(* A task that is not idle has a query.                                    *)
LEMMA BusyQuery ==
  ASSUME TypeOK, NEW t \in Tasks, place[t] # "idle"
  PROVE  query[t] \in Promise!Queries
BY DEF TypeOK, TaskOK

LEMMA AnswerType ==
  ASSUME TypeOK, NEW t \in Tasks, NEW r \in Promise!Replies,
         r # Promise!NoReply, place[t] # "idle", Answer(t, r),
         UNCHANGED <<messages, query>>
  PROVE  /\ place' \in [Tasks -> Places]
         /\ mailbox' \in [Tasks -> Mailboxes \cup {Nobody}]
         /\ prior' \in [Tasks -> Promise!Boxes]
         /\ reply' \in [Tasks -> Promise!Replies \cup {Promise!NoReply}]
         /\ \A u \in Tasks : TaskOK(u)'
<1>1. /\ place' \in [Tasks -> Places]
      /\ mailbox' \in [Tasks -> Mailboxes \cup {Nobody}]
      /\ prior' \in [Tasks -> Promise!Boxes]
      /\ reply' \in [Tasks -> Promise!Replies \cup {Promise!NoReply}]
  BY ReplyType DEF TypeOK, Answer, Goto, Places
<1>2. TaskOK(t)'
  BY DEF TypeOK, TaskOK, Answer, Goto
<1>3. ASSUME NEW u \in Tasks, u # t PROVE TaskOK(u)'
  BY <1>3 DEF TypeOK, TaskOK, Answer, Goto
<1>4. QED
  BY <1>1, <1>2, <1>3

(* The three ways on from a dictionary that was just read.                 *)
LEMMA ExamineCases ==
  ASSUME TypeOK, NEW t \in Tasks, place[t] \in {"read", "exchange"}, Examine(t)
  PROVE  LET q   == query[t]
             box == contents[mailbox[t]]
         IN  /\ mailbox[t] \in Mailboxes
             /\ box \in Promise!Boxes
             /\ \/ /\ q.type = "GetMessagesQuery"
                   /\ Answer(t, Promise!GetMessagesReply(box))
                \/ /\ \/ q.type = "SendMessageCmd" /\ box[q.id] # Nobody
                      \/ q.type = "AckMessageCmd" /\ box[q.id] = Nobody
                   /\ Answer(t, Promise!BoolReply(FALSE))
                \/ /\ \/ q.type = "SendMessageCmd" /\ box[q.id] = Nobody
                      \/ q.type = "AckMessageCmd" /\ box[q.id] # Nobody
                   /\ prior' = [prior EXCEPT ![t] = box]
                   /\ place' = [place EXCEPT ![t] = "exchange"]
                   /\ UNCHANGED <<mailbox, reply>>
BY DEF Examine, Goto, TypeOK, TaskOK

LEMMA ExamineType ==
  ASSUME TypeOK, NEW t \in Tasks, place[t] \in {"read", "exchange"}, Examine(t),
         UNCHANGED <<messages, contents, query, accepted>>
  PROVE  TypeOK'
<1> DEFINE box == contents[mailbox[t]]
<1>1. box \in Promise!Boxes
  BY ExamineCases
<1>2. CASE Answer(t, Promise!GetMessagesReply(box)) \/ Answer(t, Promise!BoolReply(FALSE))
  <2> DEFINE G == Promise!GetMessagesReply(box)
             F == Promise!BoolReply(FALSE)
  <2>1. G \in Promise!Replies /\ G # Promise!NoReply /\ F \in Promise!Replies /\ F # Promise!NoReply
    BY <1>1, ReplyType
  <2>2. PICK r \in Promise!Replies : r # Promise!NoReply /\ Answer(t, r)
    BY <1>2, <2>1
  <2>3. QED
    BY <2>2, AnswerType DEF TypeOK
<1>3. CASE /\ prior' = [prior EXCEPT ![t] = box]
           /\ place' = [place EXCEPT ![t] = "exchange"]
           /\ UNCHANGED <<mailbox, reply>>
  <2>1. prior' \in [Tasks -> Promise!Boxes] /\ place' \in [Tasks -> Places]
    BY <1>1, <1>3 DEF TypeOK, Places
  <2>2. ASSUME NEW u \in Tasks PROVE TaskOK(u)'
    BY <1>3 DEF TypeOK, TaskOK
  <2>3. QED
    BY <1>3, <2>1, <2>2 DEF TypeOK
<1>4. QED
  BY <1>2, <1>3, ExamineCases

LEMMA ReplaceType ==
  ASSUME TypeOK, NEW t \in Tasks, place[t] = "exchange", Replace(t),
         query[t].type \in {"SendMessageCmd", "AckMessageCmd"},
         UNCHANGED <<messages, query>>
  PROVE  TypeOK'
<1> DEFINE q == query[t]
           send == q.type = "SendMessageCmd"
           new == [prior[t] EXCEPT ![q.id] = IF send THEN q.source ELSE Nobody]
<1>1. q \in Promise!Queries /\ q.target \in Addresses /\ q.id \in Ids
  BY BusyQuery, QueryType
<1>2. new \in Promise!Boxes
  <2>1. (IF send THEN q.source ELSE Nobody) \in Sources \cup {Nobody}
    BY <1>1, QueryType
  <2>2. QED
    BY <1>1, <2>1 DEF TypeOK, Promise!Boxes
<1>3. contents' \in [Mailboxes -> Promise!Boxes]
  BY <1>2 DEF Replace, TypeOK
<1>4. accepted' \in [Addresses -> [Ids -> Int]]
  <2> DEFINE old == accepted[q.target]
             n == IF send THEN old[q.id] + 1 ELSE old[q.id] - 1
  <2>1. accepted' = [accepted EXCEPT ![q.target] = [old EXCEPT ![q.id] = n]]
    BY DEF Replace
  <2>2. old \in [Ids -> Int]
    BY <1>1 DEF TypeOK
  <2>3. n \in Int
    BY <1>1, <2>2
  <2>4. [old EXCEPT ![q.id] = n] \in [Ids -> Int]
    BY <2>2, <2>3
  <2>5. QED
    BY <2>1, <2>4, <1>1 DEF TypeOK
<1>5. Answer(t, Promise!BoolReply(TRUE))
  BY DEF Replace
<1>6. Promise!BoolReply(TRUE) \in Promise!Replies /\ Promise!BoolReply(TRUE) # Promise!NoReply
  BY ReplyType
<1>7. PICK r \in Promise!Replies : r # Promise!NoReply /\ Answer(t, r)
  BY <1>5, <1>6
<1>8. QED
  BY <1>3, <1>4, <1>7, AnswerType DEF TypeOK

LEMMA TypeInit ==
  ASSUME Init
  PROVE  TypeOK
BY ReplyType DEF Init, TypeOK, TaskOK, Places

LEMMA TypeInductive ==
  ASSUME TypeOK, Poised, [Next]_vars
  PROVE  TypeOK'
<1>1. CASE UNCHANGED vars
  BY <1>1 DEF TypeOK, TaskOK, vars, taskVars
<1>2. ASSUME NEW t \in Tasks, NEW q \in Promise!Queries, Call(t, q)
      PROVE  TypeOK'
  <2>1. q # Promise!NoQuery
    BY QueryType
  <2>2. ASSUME NEW u \in Tasks PROVE TaskOK(u)'
    BY <1>2, <2>1 DEF TypeOK, TaskOK, Call, Goto
  <2>3. /\ place' \in [Tasks -> Places]
        /\ query' \in [Tasks -> Promise!Queries \cup {Promise!NoQuery}]
    BY <1>2 DEF TypeOK, Call, Goto, Places
  <2>4. QED
    BY <1>2, <2>2, <2>3 DEF TypeOK, Call
<1>3. ASSUME NEW t \in Tasks, LookUp(t)
      PROVE  TypeOK'
  <2>1. query[t] \in Promise!Queries /\ query[t].target \in Addresses /\ place[t] = "lookUp"
    BY <1>3, BusyQuery, QueryType DEF LookUp
  <2> DEFINE found == messages[query[t].target]
             E == Promise!GetMessagesReply(Promise!NoMail)
             F == Promise!BoolReply(FALSE)
  <2>2. CASE /\ found # Nobody
             /\ mailbox' = [mailbox EXCEPT ![t] = found]
             /\ place' = [place EXCEPT ![t] = "read"]
             /\ UNCHANGED <<messages, contents, query, prior, reply, accepted>>
    <3>1. place' \in [Tasks -> Places] /\ mailbox' \in [Tasks -> Mailboxes \cup {Nobody}]
      BY <2>1, <2>2 DEF TypeOK, Places
    <3>2. ASSUME NEW u \in Tasks PROVE TaskOK(u)'
      BY <2>1, <2>2 DEF TypeOK, TaskOK
    <3>3. QED
      BY <2>2, <3>1, <3>2 DEF TypeOK
  <2>3. CASE /\ place' = [place EXCEPT ![t] = "register"]
             /\ UNCHANGED <<messages, contents, query, mailbox, prior, reply, accepted>>
    <3>1. place' \in [Tasks -> Places]
      BY <2>3 DEF TypeOK, Places
    <3>2. ASSUME NEW u \in Tasks PROVE TaskOK(u)'
      BY <2>1, <2>3 DEF TypeOK, TaskOK
    <3>3. QED
      BY <2>3, <3>1, <3>2 DEF TypeOK
  <2>4. CASE /\ Answer(t, F) \/ Answer(t, E)
             /\ UNCHANGED <<messages, contents, query, accepted>>
    <3>1. /\ E \in Promise!Replies /\ E # Promise!NoReply
          /\ F \in Promise!Replies /\ F # Promise!NoReply
      BY ReplyType
    <3>2. PICK r \in Promise!Replies : r # Promise!NoReply /\ Answer(t, r)
      BY <2>4, <3>1
    <3>3. QED
      BY <2>1, <2>4, <3>2, AnswerType DEF TypeOK
  <2>5. QED
    BY <1>3, <2>2, <2>3, <2>4 DEF LookUp, Goto
<1>4. ASSUME NEW t \in Tasks, Register(t)
      PROVE  TypeOK'
  <2> DEFINE a == query[t].target
             m == IF messages[a] = Nobody THEN <<a, t>> ELSE messages[a]
  <2>1. a \in Addresses /\ place[t] = "register"
    BY <1>4, BusyQuery, QueryType DEF Register
  <2>2. m \in Mailboxes /\ m # Nobody
    BY <2>1, NobodyAssumption DEF TypeOK, Mailboxes
  <2>3. messages' = [messages EXCEPT ![a] = m] /\ mailbox' = [mailbox EXCEPT ![t] = m]
    BY <1>4, <2>1 DEF Register, TypeOK
  <2>4. /\ messages' \in [Addresses -> Mailboxes \cup {Nobody}]
        /\ mailbox' \in [Tasks -> Mailboxes \cup {Nobody}]
    BY <2>2, <2>3 DEF TypeOK
  <2>5. place' = [place EXCEPT ![t] = "read"] /\ place' \in [Tasks -> Places]
    BY <1>4 DEF Register, Goto, TypeOK, Places
  <2>6. ASSUME NEW u \in Tasks PROVE TaskOK(u)'
    <3>1. /\ place[u] \in {"read", "exchange"} =>
               mailbox[u] # Nobody /\ mailbox[u] = messages[query[u].target]
          /\ place[u] \in {"read", "exchange"} => query[u].target \in Addresses
      BY BusyQuery, QueryType DEF TypeOK, TaskOK
    <3>2. u # t /\ place'[u] \in {"read", "exchange"} =>
            mailbox'[u] # Nobody /\ mailbox'[u] = messages'[query[u].target]
      BY <2>1, <2>3, <2>5, <3>1 DEF TypeOK
    <3>3. u = t => mailbox'[u] # Nobody /\ mailbox'[u] = messages'[query[u].target]
      BY <2>1, <2>2, <2>3 DEF TypeOK
    <3>4. QED
      BY <1>4, <2>1, <2>5, <3>2, <3>3 DEF TypeOK, TaskOK, Register
  <2>7. QED
    BY <1>4, <2>4, <2>5, <2>6 DEF TypeOK, Register
<1>5. ASSUME NEW t \in Tasks, Read(t)
      PROVE  TypeOK'
  BY <1>5, ExamineType DEF Read
<1>6. ASSUME NEW t \in Tasks, Exchange(t)
      PROVE  TypeOK'
  <2>1. CASE Replace(t)
    <3>1. query[t].type \in {"SendMessageCmd", "AckMessageCmd"}
      BY <1>6 DEF Exchange, Poised
    <3>2. QED
      BY <1>6, <2>1, <3>1, ReplaceType DEF Exchange
  <2>2. CASE Examine(t) /\ UNCHANGED <<contents, accepted>>
    BY <1>6, <2>2, ExamineType DEF Exchange
  <2>3. QED
    BY <1>6, <2>1, <2>2 DEF Exchange
<1>7. ASSUME NEW t \in Tasks, Return(t)
      PROVE  TypeOK'
  <2>1. ASSUME NEW u \in Tasks PROVE TaskOK(u)'
    BY <1>7 DEF TypeOK, TaskOK, Return, Goto
  <2>2. /\ place' \in [Tasks -> Places]
        /\ query' \in [Tasks -> Promise!Queries \cup {Promise!NoQuery}]
        /\ reply' \in [Tasks -> Promise!Replies \cup {Promise!NoReply}]
    BY <1>7 DEF TypeOK, Return, Goto, Places
  <2>3. QED
    BY <1>7, <2>1, <2>2 DEF TypeOK, Return
<1>8. QED
  BY <1>1, <1>2, <1>3, <1>4, <1>5, <1>6, <1>7 DEF Next, Step

-----------------------------------------------------------------------------
(* What waits at each address, before and after a step.                    *)

LEMMA UndeliveredType ==
  ASSUME TypeOK
  PROVE  Undelivered \in [Addresses -> Promise!Boxes]
<1>1. ASSUME NEW a \in Addresses, messages[a] # Nobody
      PROVE  contents[messages[a]] \in Promise!Boxes
  BY <1>1 DEF TypeOK
<1>2. QED
  BY <1>1 DEF Undelivered, Promise!Boxes

(* Registering a mailbox puts nothing in it.                               *)
LEMMA RegisterKeeps ==
  ASSUME TypeOK, Fresh, NEW t \in Tasks, Register(t)
  PROVE  Undelivered' = Undelivered
<1> DEFINE a == query[t].target
           m == IF messages[a] = Nobody THEN <<a, t>> ELSE messages[a]
<1>1. a \in Addresses
  BY BusyQuery, QueryType DEF Register
<1>2. messages' = [messages EXCEPT ![a] = m] /\ contents' = contents
  BY DEF Register
<1>3. messages[a] = Nobody => <<a, t>> # Nobody /\ contents[<<a, t>>] = [i \in Ids |-> Nobody]
  BY <1>1, NobodyAssumption DEF Fresh, NoMail, Promise!NoMail
<1>4. ASSUME NEW b \in Addresses PROVE Undelivered'[b] = Undelivered[b]
  BY <1>1, <1>2, <1>3 DEF Undelivered, TypeOK
<1>5. QED
  BY <1>4 DEF Undelivered

(* A task that replaces a dictionary replaces what waits at its target,    *)
(* which is what it has read, and nothing else.                            *)
LEMMA ReplaceEffect ==
  ASSUME TypeOK, Owned, NEW t \in Tasks, place[t] = "exchange",
         contents[mailbox[t]] = prior[t], Replace(t), UNCHANGED messages
  PROVE  LET q == query[t]
             v == IF q.type = "SendMessageCmd" THEN q.source ELSE Nobody
         IN  /\ Undelivered[q.target] = prior[t]
             /\ Undelivered' = [Undelivered EXCEPT ![q.target] = [prior[t] EXCEPT ![q.id] = v]]
<1> DEFINE q == query[t]
           v == IF q.type = "SendMessageCmd" THEN q.source ELSE Nobody
           new == [prior[t] EXCEPT ![q.id] = v]
<1>1. q.target \in Addresses
  BY BusyQuery, QueryType
<1>2. mailbox[t] = messages[q.target] /\ mailbox[t] # Nobody /\ mailbox[t] \in Mailboxes
  BY DEF TypeOK, TaskOK
<1>3. contents' = [contents EXCEPT ![mailbox[t]] = new]
  BY DEF Replace
<1>4. Undelivered[q.target] = prior[t]
  BY <1>1, <1>2 DEF Undelivered
<1>5. ASSUME NEW b \in Addresses, b # q.target, messages[b] # Nobody
      PROVE  messages[b] # mailbox[t]
  BY <1>1, <1>2, <1>5 DEF Owned
<1>6. ASSUME NEW b \in Addresses
      PROVE  Undelivered'[b] = IF b = q.target THEN new ELSE Undelivered[b]
  BY <1>1, <1>2, <1>3, <1>5 DEF Undelivered, TypeOK
<1>7. QED
  BY <1>1, <1>4, <1>6 DEF Undelivered

-----------------------------------------------------------------------------
(* The rest of the invariant.                                              *)

LEMMA OwnedInductive ==
  ASSUME TypeOK, Owned, [Next]_vars
  PROVE  Owned'
<1>1. CASE UNCHANGED messages
  BY <1>1 DEF Owned
<1>2. ASSUME NEW t \in Tasks, Register(t) PROVE Owned'
  BY <1>2 DEF Owned, Register, TypeOK
<1>3. QED
  BY <1>1, <1>2 DEF Next, Step, vars, Call, LookUp, Read, Exchange, Return

LEMMA FreshInductive ==
  ASSUME TypeOK, Owned, Fresh, [Next]_vars
  PROVE  Fresh'
<1>1. CASE UNCHANGED <<messages, contents>>
  BY <1>1 DEF Fresh, NoMail, Promise!NoMail
<1>2. ASSUME NEW t \in Tasks, Register(t) PROVE Fresh'
  <2>1. ASSUME NEW a \in Addresses, NEW u \in Tasks, messages'[a] # <<a, u>>
        PROVE  messages[a] # <<a, u>>
    <3>1. messages[a] # Nobody => messages'[a] = messages[a]
      BY <1>2 DEF Register, TypeOK
    <3>2. <<a, u>> # Nobody
      BY NobodyAssumption
    <3>3. QED
      BY <2>1, <3>1, <3>2
  <2>2. contents' = contents
    BY <1>2 DEF Register
  <2>3. QED
    BY <2>1, <2>2 DEF Fresh, NoMail, Promise!NoMail
<1>3. ASSUME NEW t \in Tasks, place[t] = "exchange", Replace(t), UNCHANGED messages
      PROVE  Fresh'
  <2> DEFINE a == query[t].target
  <2>1. /\ a \in Addresses
        /\ mailbox[t] = messages[a]
    BY <1>3, BusyQuery, QueryType DEF TypeOK, TaskOK
  <2>2. ASSUME NEW b \in Addresses, NEW u \in Tasks, messages[b] # <<b, u>>
        PROVE  contents'[<<b, u>>] = contents[<<b, u>>] \/ mailbox[t] = <<b, u>>
    BY <1>3 DEF Replace, TypeOK, Mailboxes
  <2>3. ASSUME NEW b \in Addresses, NEW u \in Tasks, mailbox[t] = <<b, u>>
        PROVE  messages[b] = <<b, u>>
    <3>1. messages[a] # Nobody
      BY <2>1, <2>3, NobodyAssumption
    <3>2. PICK w \in Tasks : messages[a] = <<a, w>>
      BY <2>1, <3>1 DEF Owned
    <3>3. <<a, w>> = <<b, u>>
      BY <2>1, <2>3, <3>2
    <3>4. a = b
      BY <3>3
    <3>5. QED
      BY <2>1, <2>3, <3>4
  <2>4. QED
    BY <1>3, <2>2, <2>3 DEF Fresh, NoMail, Promise!NoMail
<1>4. QED
  BY <1>1, <1>2, <1>3 DEF Next, Step, vars, Call, LookUp, Read, Exchange, Return

LEMMA PoisedInductive ==
  ASSUME TypeOK, Poised, [Next]_vars
  PROVE  Poised'
<1>1. CASE UNCHANGED vars
  BY <1>1 DEF Poised, vars, taskVars
<1>2. ASSUME NEW t \in Tasks, NEW q \in Promise!Queries, Call(t, q) PROVE Poised'
  BY <1>2 DEF Poised, TypeOK, Call, Goto
<1>3. ASSUME NEW t \in Tasks, LookUp(t) PROVE Poised'
  BY <1>3 DEF Poised, TypeOK, LookUp, Goto, Answer
<1>4. ASSUME NEW t \in Tasks, Register(t) PROVE Poised'
  BY <1>4 DEF Poised, TypeOK, Register, Goto
<1>5. ASSUME NEW t \in Tasks, place[t] \in {"read", "exchange"}, Examine(t), UNCHANGED query
      PROVE  Poised'
  <2>1. CASE /\ \/ query[t].type = "SendMessageCmd" /\ contents[mailbox[t]][query[t].id] = Nobody
                \/ query[t].type = "AckMessageCmd" /\ contents[mailbox[t]][query[t].id] # Nobody
             /\ prior' = [prior EXCEPT ![t] = contents[mailbox[t]]]
             /\ place' = [place EXCEPT ![t] = "exchange"]
    BY <1>5, <2>1 DEF Poised, TypeOK
  <2>2. CASE /\ place' = [place EXCEPT ![t] = "replied"]
             /\ prior' = [prior EXCEPT ![t] = Promise!NoMail]
    BY <1>5, <2>2 DEF Poised, TypeOK
  <2>3. QED
    BY <1>5, <2>1, <2>2, ExamineCases DEF Answer, Goto
<1>6. ASSUME NEW t \in Tasks, Replace(t), UNCHANGED query PROVE Poised'
  BY <1>6 DEF Poised, TypeOK, Replace, Answer, Goto
<1>7. ASSUME NEW t \in Tasks, Return(t) PROVE Poised'
  BY <1>7 DEF Poised, TypeOK, Return, Goto
<1>8. QED
  BY <1>1, <1>2, <1>3, <1>4, <1>5, <1>6, <1>7 DEF Next, Step, Read, Exchange

(* Only a successful exchange changes what waits and what is counted.      *)
LEMMA ConservationInductive ==
  ASSUME TypeOK, Owned, Fresh, Poised, Conservation, [Next]_vars
  PROVE  Conservation'
<1>1. CASE UNCHANGED <<Undelivered, accepted>>
  BY <1>1 DEF Conservation
<1>2. ASSUME NEW t \in Tasks, place[t] = "exchange", contents[mailbox[t]] = prior[t],
             Replace(t), UNCHANGED <<messages, query>>
      PROVE  Conservation'
  <2> DEFINE q == query[t]
             send == q.type = "SendMessageCmd"
             v == IF send THEN q.source ELSE Nobody
             old == accepted[q.target]
             n == IF send THEN old[q.id] + 1 ELSE old[q.id] - 1
  <2>1. q.target \in Addresses /\ q.id \in Ids /\ (send => q.source \in Sources)
    BY <1>2, BusyQuery, QueryType DEF Poised
  <2>2. /\ Undelivered[q.target] = prior[t]
        /\ Undelivered' = [Undelivered EXCEPT ![q.target] = [prior[t] EXCEPT ![q.id] = v]]
    BY <1>2, ReplaceEffect
  <2>3. accepted' = [accepted EXCEPT ![q.target] = [old EXCEPT ![q.id] = n]]
    BY <1>2 DEF Replace
  <2>4. old \in [Ids -> Int] /\ prior[t] \in [Ids -> Sources \cup {Nobody}]
    BY <2>1 DEF TypeOK, Promise!Boxes
  <2>5. Undelivered'[q.target] = [prior[t] EXCEPT ![q.id] = v]
    BY <2>1, <2>2, UndeliveredType
  <2>6. accepted'[q.target] = [old EXCEPT ![q.id] = n]
    BY <2>1, <2>3 DEF TypeOK
  <2>7. ASSUME NEW a \in Addresses, a # q.target
        PROVE  Undelivered'[a] = Undelivered[a] /\ accepted'[a] = accepted[a]
    BY <2>2, <2>3, <2>7, UndeliveredType DEF TypeOK
  <2>8. ASSUME NEW i \in Ids, i # q.id
        PROVE  /\ Undelivered'[q.target][i] = Undelivered[q.target][i]
               /\ accepted'[q.target][i] = accepted[q.target][i]
    BY <2>2, <2>4, <2>5, <2>6, <2>8
  <2>9. Undelivered'[q.target][q.id] = v /\ accepted'[q.target][q.id] = n
    BY <2>1, <2>4, <2>5, <2>6
  <2>10. old[q.id] = IF Undelivered[q.target][q.id] # Nobody THEN 1 ELSE 0
    BY <2>1 DEF Conservation
  <2>11. n = IF v # Nobody THEN 1 ELSE 0
    <3>1. CASE send
      BY <1>2, <2>1, <2>2, <2>10, <3>1, NobodyAssumption DEF Poised
    <3>2. CASE ~send
      BY <1>2, <2>1, <2>2, <2>10, <3>2 DEF Poised
    <3>3. QED
      BY <3>1, <3>2
  <2>12. QED
    BY <2>7, <2>8, <2>9, <2>11 DEF Conservation
<1>3. ASSUME NEW t \in Tasks, Register(t) PROVE Conservation'
  BY <1>1, <1>3, RegisterKeeps DEF Register
<1>4. CASE UNCHANGED <<messages, contents, accepted>>
  BY <1>1, <1>4 DEF Undelivered
<1>5. QED
  BY <1>2, <1>3, <1>4 DEF Next, Step, vars, Call, LookUp, Read, Exchange, Return

(* The invariant holds at first and is kept by every step.                 *)
LEMMA InvariantInit ==
  ASSUME Init
  PROVE  IInv
<1>1. TypeOK
  BY TypeInit
<1>2. Owned /\ Fresh /\ Poised
  BY DEF Init, Owned, Fresh, Poised, NoMail, Mailboxes
<1>3. Conservation
  BY DEF Init, Conservation, Undelivered
<1>4. QED
  BY <1>1, <1>2, <1>3 DEF IInv

(* In every state of the hub, what is registered, waiting and counted fits *)
(* together, and every task has what it needs for its next step.           *)
THEOREM InvariantHolds == Spec => []IInv
<1>1. IInv /\ [Next]_vars => IInv'
  BY TypeInductive, OwnedInductive, FreshInductive, PoisedInductive,
     ConservationInductive DEF IInv
<1>2. QED
  BY <1>1, InvariantInit, PTL DEF Spec

(* Every variable keeps to its domain, and every task to its stages.       *)
THEOREM TypeCorrect == Spec => []TypeOK
BY InvariantHolds, PTL DEF IInv

(* However many calls race for a mailbox, a message waits exactly when it  *)
(* was accepted once more often than acknowledged: the compare-and-        *)
(* exchange loops lose no message and acknowledge none twice.              *)
THEOREM ConservationHolds == Spec => []Conservation
BY InvariantHolds, PTL DEF IInv

-----------------------------------------------------------------------------
(* Refinement.                                                             *)

(* A reply that changes nothing is given in one instant.                   *)
LEMMA AnswerEffect ==
  ASSUME TypeOK, NEW t \in Tasks, place[t] \notin {"idle", "replied"},
         UNCHANGED <<Undelivered, query>>,
         LET q   == query[t]
             box == Undelivered[q.target]
         IN  \/ /\ q.type = "GetMessagesQuery"
                /\ reply' = [reply EXCEPT ![t] = Promise!GetMessagesReply(box)]
             \/ /\ \/ q.type = "SendMessageCmd" /\ box[q.id] # Nobody
                   \/ q.type = "AckMessageCmd" /\ box[q.id] = Nobody
                /\ reply' = [reply EXCEPT ![t] = Promise!BoolReply(FALSE)]
  PROVE  Promise!Effect(t)
<1> DEFINE q == query[t]
           box == Undelivered[q.target]
<1>1. query[t] # Promise!NoQuery /\ reply[t] = Promise!NoReply
  BY DEF TypeOK, TaskOK
<1>2. q \in Promise!Queries /\ q.target \in Addresses
  BY BusyQuery, QueryType
<1>3. box \in Promise!Boxes
  BY <1>2, UndeliveredType
<1>4. CASE /\ q.type = "GetMessagesQuery"
           /\ reply' = [reply EXCEPT ![t] = Promise!GetMessagesReply(box)]
  BY <1>1, <1>4 DEF Promise!Effect
<1>5. CASE /\ q.type = "SendMessageCmd" /\ box[q.id] # Nobody
           /\ reply' = [reply EXCEPT ![t] = Promise!BoolReply(FALSE)]
  <2>1. (box[q.id] = Nobody) = FALSE
    BY <1>5
  <2>2. QED
    BY <1>1, <1>5, <2>1 DEF Promise!Effect
<1>6. CASE /\ q.type = "AckMessageCmd" /\ box[q.id] = Nobody
           /\ reply' = [reply EXCEPT ![t] = Promise!BoolReply(FALSE)]
  <2>1. (box[q.id] # Nobody) = FALSE
    BY <1>6
  <2>2. [box EXCEPT ![q.id] = Nobody] = box
    BY <1>3, <1>6 DEF Promise!Boxes
  <2>3. [Undelivered EXCEPT ![q.target] = [box EXCEPT ![q.id] = Nobody]] = Undelivered
    BY <1>2, <2>2, UndeliveredType
  <2>4. QED
    BY <1>1, <1>6, <2>1, <2>3 DEF Promise!Effect
<1>7. QED
  BY <1>4, <1>5, <1>6

(* What a task finds in the mailbox it works on is what waits.             *)
LEMMA ExamineRefines ==
  ASSUME TypeOK, NEW t \in Tasks, place[t] \in {"read", "exchange"}, Examine(t),
         UNCHANGED <<messages, contents, query, accepted>>
  PROVE  Promise!Effect(t) \/ UNCHANGED Promise!vars
<1> DEFINE box == contents[mailbox[t]]
<1>1. Undelivered' = Undelivered
  BY DEF Undelivered
<1>2. Undelivered[query[t].target] = box
  BY BusyQuery, QueryType DEF Undelivered, TypeOK, TaskOK
<1>3. CASE /\ query[t].type = "GetMessagesQuery"
           /\ Answer(t, Promise!GetMessagesReply(box))
  BY <1>1, <1>2, <1>3, AnswerEffect DEF Answer
<1>4. CASE /\ \/ query[t].type = "SendMessageCmd" /\ box[query[t].id] # Nobody
              \/ query[t].type = "AckMessageCmd" /\ box[query[t].id] = Nobody
           /\ Answer(t, Promise!BoolReply(FALSE))
  BY <1>1, <1>2, <1>4, AnswerEffect DEF Answer
<1>5. CASE UNCHANGED reply
  BY <1>1, <1>5 DEF Promise!vars
<1>6. QED
  BY <1>3, <1>4, <1>5, ExamineCases

(* A successful exchange is the instant at which a message is accepted or  *)
(* acknowledged.                                                           *)
LEMMA ReplaceRefines ==
  ASSUME TypeOK, Owned, Poised, NEW t \in Tasks, place[t] = "exchange",
         contents[mailbox[t]] = prior[t], Replace(t), UNCHANGED <<messages, query>>
  PROVE  Promise!Effect(t)
<1> DEFINE q == query[t]
           box == Undelivered[q.target]
           v == IF q.type = "SendMessageCmd" THEN q.source ELSE Nobody
<1>1. query[t] # Promise!NoQuery /\ reply[t] = Promise!NoReply
  BY DEF TypeOK, TaskOK
<1>2. /\ box = prior[t]
      /\ Undelivered' = [Undelivered EXCEPT ![q.target] = [box EXCEPT ![q.id] = v]]
  BY ReplaceEffect
<1>3. reply' = [reply EXCEPT ![t] = Promise!BoolReply(TRUE)]
  BY DEF Replace, Answer
<1>4. CASE q.type = "SendMessageCmd"
  <2>1. box[q.id] = Nobody
    BY <1>2, <1>4 DEF Poised
  <2>2. (box[q.id] = Nobody) = TRUE
    BY <2>1
  <2>3. Undelivered' = [Undelivered EXCEPT ![q.target][q.id] = q.source]
    BY <1>2, <1>4
  <2>4. QED
    BY <1>1, <1>3, <1>4, <2>1, <2>2, <2>3 DEF Promise!Effect
<1>5. CASE q.type = "AckMessageCmd"
  <2>1. box[q.id] # Nobody
    BY <1>2, <1>5 DEF Poised
  <2>2. (box[q.id] # Nobody) = TRUE
    BY <2>1
  <2>3. Undelivered' = [Undelivered EXCEPT ![q.target][q.id] = Nobody]
    BY <1>2, <1>5
  <2>4. QED
    BY <1>1, <1>3, <1>5, <2>2, <2>3 DEF Promise!Effect
<1>6. QED
  BY <1>4, <1>5 DEF Poised

LEMMA StepRefines ==
  ASSUME IInv, [Next]_vars
  PROVE  [Promise!Next]_Promise!vars
<1> USE DEF IInv
<1>1. CASE UNCHANGED vars
  BY <1>1 DEF vars, taskVars, Undelivered, Promise!vars
<1>2. ASSUME NEW t \in Tasks, NEW q \in Promise!Queries, Call(t, q)
      PROVE  Promise!Next
  <2>1. Promise!Call(t, q)
    BY <1>2 DEF Call, Promise!Call, TypeOK, TaskOK, Undelivered
  <2>2. QED
    BY <2>1 DEF Promise!Next
<1>3. ASSUME NEW t \in Tasks, LookUp(t)
      PROVE  Promise!Effect(t) \/ UNCHANGED Promise!vars
  <2>1. query[t] \in Promise!Queries /\ query[t].target \in Addresses /\ place[t] = "lookUp"
    BY <1>3, BusyQuery, QueryType DEF LookUp
  <2>2. Undelivered' = Undelivered /\ query' = query
    BY <1>3 DEF LookUp, Undelivered
  <2>3. CASE UNCHANGED reply
    BY <2>2, <2>3 DEF Promise!vars
  <2>4. CASE /\ messages[query[t].target] = Nobody
             /\ query[t].type # "SendMessageCmd"
             /\ reply' = [reply EXCEPT ![t] = IF query[t].type = "AckMessageCmd"
                            THEN Promise!BoolReply(FALSE)
                            ELSE Promise!GetMessagesReply(Promise!NoMail)]
    <3>1. Undelivered[query[t].target] = Promise!NoMail
      BY <2>1, <2>4 DEF Undelivered, Promise!NoMail
    <3>2. query[t].type = "AckMessageCmd" => Promise!NoMail[query[t].id] = Nobody
      BY <2>1, QueryType DEF Promise!NoMail
    <3>3. query[t].type \in {"AckMessageCmd", "GetMessagesQuery"}
      BY <2>1, <2>4, QueryType
    <3>4. QED
      BY <2>1, <2>2, <2>4, <3>1, <3>2, <3>3, AnswerEffect
  <2>5. QED
    BY <1>3, <2>3, <2>4 DEF LookUp, Answer
<1>4. ASSUME NEW t \in Tasks, Register(t)
      PROVE  UNCHANGED Promise!vars
  BY <1>4, RegisterKeeps DEF Register, Promise!vars
<1>5. ASSUME NEW t \in Tasks, Read(t)
      PROVE  Promise!Effect(t) \/ UNCHANGED Promise!vars
  BY <1>5, ExamineRefines DEF Read
<1>6. ASSUME NEW t \in Tasks, Exchange(t)
      PROVE  Promise!Effect(t) \/ UNCHANGED Promise!vars
  BY <1>6, ExamineRefines, ReplaceRefines DEF Exchange
<1>7. ASSUME NEW t \in Tasks, Return(t)
      PROVE  Promise!Return(t)
  BY <1>7 DEF Return, Promise!Return, TypeOK, TaskOK, Undelivered
<1>8. QED
  BY <1>1, <1>2, <1>3, <1>4, <1>5, <1>6, <1>7 DEF Next, Step, Promise!Next

(* The calls of the hub are linearizable: whatever their number and        *)
(* however they interleave, every reply is one of a hub that serves one    *)
(* call at a time.                                                         *)
THEOREM HubIsLinearizable == Spec => MailboxSpec
<1>1. Init => Promise!Init
  BY DEF Init, Promise!Init, Undelivered, Promise!NoMail
<1>2. IInv /\ [Next]_vars => [Promise!Next]_Promise!vars
  BY StepRefines
<1>3. QED
  BY <1>1, <1>2, InvariantHolds, PTL DEF Spec, MailboxSpec, Promise!Spec

-----------------------------------------------------------------------------

(* No lock, and none is missed: an exchange that would have succeeded is   *)
(* spoilt only by another task that replaces the same mailbox's dictionary *)
(* and is told TRUE.  So a task that has to look again has been overtaken  *)
(* by one that is done, for the same address, and tasks that work for      *)
(* different addresses never delay each other.                             *)
DelayMeansSuccess ==
  [][\A t \in Tasks :
       place[t] = "exchange" /\ contents[mailbox[t]] = prior[t]
         /\ place'[t] = "exchange" /\ contents'[mailbox[t]] # prior[t]
       => \E u \in Tasks \ {t} :
            /\ place[u] = "exchange" /\ place'[u] = "replied"
            /\ query[u].target = query[t].target
            /\ reply'[u] = Promise!BoolReply(TRUE)]_vars

(* The loops of TryAdd and TryRemove are lock-free: what makes one of them *)
(* go round again is the success of another.                               *)
THEOREM DelayMeansSuccessHolds == Spec => DelayMeansSuccess
<1> DEFINE Spoilt(t) == place[t] = "exchange" /\ contents[mailbox[t]] = prior[t]
                          /\ place'[t] = "exchange" /\ contents'[mailbox[t]] # prior[t]
           Overtook(u, t) == /\ place[u] = "exchange" /\ place'[u] = "replied"
                             /\ query[u].target = query[t].target
                             /\ reply'[u] = Promise!BoolReply(TRUE)
           Delay == \A t \in Tasks : Spoilt(t) => \E u \in Tasks \ {t} : Overtook(u, t)
<1>1. ASSUME IInv, [Next]_vars PROVE [Delay]_vars
  <2> SUFFICES ASSUME NEW t \in Tasks, Spoilt(t)
               PROVE  \E u \in Tasks \ {t} : Overtook(u, t)
    OBVIOUS
  <2>1. contents' # contents
    OBVIOUS
  <2>2. PICK u \in Tasks : Exchange(u) /\ Replace(u)
    BY <1>1, <2>1 DEF Next, Step, Call, LookUp, Register, Read, Exchange, Return, vars
  <2>3. /\ place[u] = "exchange" /\ place' = [place EXCEPT ![u] = "replied"]
        /\ reply' = [reply EXCEPT ![u] = Promise!BoolReply(TRUE)]
        /\ \E box : contents' = [contents EXCEPT ![mailbox[u]] = box]
    BY <2>2 DEF Exchange, Replace, Answer, Goto
  <2>4. place'[u] = "replied" /\ reply'[u] = Promise!BoolReply(TRUE) /\ u # t
    BY <1>1, <2>3 DEF IInv, TypeOK
  <2>5. /\ mailbox[u] = messages[query[u].target] /\ mailbox[u] # Nobody
        /\ mailbox[t] = messages[query[t].target] /\ mailbox[t] # Nobody
        /\ query[u].target \in Addresses /\ query[t].target \in Addresses
    BY <1>1, <2>3, BusyQuery, QueryType DEF IInv, TypeOK, TaskOK
  <2>6. mailbox[u] = mailbox[t]
    BY <1>1, <2>3, <2>5 DEF IInv, TypeOK
  <2>7. query[u].target = query[t].target
    <3>1. PICK v \in Tasks : mailbox[u] = <<query[u].target, v>>
      BY <1>1, <2>5 DEF IInv, Owned
    <3>2. PICK w \in Tasks : mailbox[t] = <<query[t].target, w>>
      BY <1>1, <2>5 DEF IInv, Owned
    <3>3. <<query[u].target, v>> = <<query[t].target, w>>
      BY <2>6, <3>1, <3>2
    <3>4. QED
      BY <3>3
  <2> QED
    BY <2>3, <2>4, <2>7
<1>2. QED
  BY <1>1, InvariantHolds, PTL DEF Spec, DelayMeansSuccess

=============================================================================
