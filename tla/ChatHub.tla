------------------------------ MODULE ChatHub ------------------------------
(***************************************************************************)
(* The chat hub: an application served through conduits, whose state many  *)
(* calls change at the same time without a lock.  The hub is a concurrent  *)
(* dictionary of mailboxes; a mailbox is an immutable dictionary that is   *)
(* replaced by compare-and-exchange.                                       *)
(*                                                                         *)
(* A task is a call under way in the server.  Whether its reply reaches    *)
(* the caller makes no difference to the hub: a caller that was cancelled, *)
(* or whose connection broke, leaves its task running, and may call again  *)
(* with the same message at once, which is then served by another task.    *)
(***************************************************************************)
EXTENDS Integers

CONSTANTS Addresses, Ids, Sources, Nobody, Tasks

ASSUME NobodyAssumption == Nobody \notin Sources \cup (Addresses \X Tasks)

VARIABLES
  messages,   (* _messages: per address, its Mailbox, Nobody if none       *)
  contents,   (* per Mailbox, its _undelivered                             *)
  query,      (* per task, the query it serves                             *)
  place,      (* per task, where it is                                     *)
  mailbox,    (* per task, the mailbox it works on                         *)
  prior,      (* per task, the dictionary it read and means to replace     *)
  reply,      (* per task, the reply it has for its caller                 *)
  accepted    (* history: per address and id, how many more messages were  *)
              (* accepted than acknowledged                                *)

(* What waits at each address: nothing where there is no mailbox yet.      *)
Undelivered ==
  [a \in Addresses |-> IF messages[a] = Nobody THEN [i \in Ids |-> Nobody]
                                               ELSE contents[messages[a]]]

(* The promise the hub is to keep, and the vocabulary it is stated in.     *)
Promise == INSTANCE MailboxPromise WITH undelivered <- Undelivered

taskVars == <<query, place, mailbox, prior, reply>>
vars == <<messages, contents, taskVars, accepted>>

(* Mailbox objects: the one that a task's factory makes for an address.    *)
Mailboxes == Addresses \X Tasks

Places == {"idle", "lookUp", "register", "read", "exchange", "replied"}

Init ==
  /\ messages = [a \in Addresses |-> Nobody]
  /\ contents = [m \in Mailboxes |-> Promise!NoMail]
  /\ query = [t \in Tasks |-> Promise!NoQuery]
  /\ place = [t \in Tasks |-> "idle"]
  /\ mailbox = [t \in Tasks |-> Nobody]
  /\ prior = [t \in Tasks |-> Promise!NoMail]
  /\ reply = [t \in Tasks |-> Promise!NoReply]
  /\ accepted = [a \in Addresses |-> [i \in Ids |-> 0]]

-----------------------------------------------------------------------------

Goto(t, p) == place' = [place EXCEPT ![t] = p]

(* The task has its reply, and forgets what it worked with.                *)
Answer(t, r) ==
  /\ Goto(t, "replied")
  /\ reply' = [reply EXCEPT ![t] = r]
  /\ mailbox' = [mailbox EXCEPT ![t] = Nobody]
  /\ prior' = [prior EXCEPT ![t] = Promise!NoMail]

(* UnaryRequest of ChatHubServer hands the query to the hub.               *)
Call(t, q) ==
  /\ place[t] = "idle"
  /\ Goto(t, "lookUp")
  /\ query' = [query EXCEPT ![t] = q]
  /\ UNCHANGED <<messages, contents, mailbox, prior, reply, accepted>>

(* TryGetValue of the address.  Without a mailbox there is nothing to get  *)
(* or to remove; SendMessage, in GetOrAdd, makes one.                      *)
LookUp(t) ==
  /\ place[t] = "lookUp"
  /\ LET found == messages[query[t].target]
         type  == query[t].type
     IN  \/ /\ found # Nobody
            /\ mailbox' = [mailbox EXCEPT ![t] = found]
            /\ Goto(t, "read")
            /\ UNCHANGED <<prior, reply>>
         \/ /\ found = Nobody
            /\ type = "SendMessageCmd"
            /\ Goto(t, "register")
            /\ UNCHANGED <<mailbox, prior, reply>>
         \/ /\ found = Nobody
            /\ type # "SendMessageCmd"
            /\ Answer(t, IF type = "AckMessageCmd"
                         THEN Promise!BoolReply(FALSE)
                         ELSE Promise!GetMessagesReply(Promise!NoMail))
  /\ UNCHANGED <<messages, contents, query, accepted>>

(* Mutant: the new mailbox is stored with the indexer, whoever was first.  *)
RegisterAnyway(t) ==
  /\ place[t] = "register"
  /\ LET a   == query[t].target
         new == <<a, t>>
     IN  /\ messages' = [messages EXCEPT ![a] = new]
         /\ contents' = [contents EXCEPT ![new] = Promise!NoMail]
         /\ mailbox' = [mailbox EXCEPT ![t] = new]
  /\ Goto(t, "read")
  /\ UNCHANGED <<query, prior, reply, accepted>>

(* The rest of GetOrAdd: the task's new mailbox is added, unless another   *)
(* task was first; either way the task gets the mailbox that is there.     *)
Register(t) ==
  /\ place[t] = "register"
  /\ LET a == query[t].target
     IN  /\ messages' = [messages EXCEPT ![a] = IF @ = Nobody THEN <<a, t>> ELSE @]
         /\ mailbox' = [mailbox EXCEPT ![t] = messages'[a]]
  /\ Goto(t, "read")
  /\ UNCHANGED <<contents, query, prior, reply, accepted>>

(* Mutant: SetItem instead of TryAdd: a message replaces the one before.   *)
ExamineOverwriting(t) ==
  LET q   == query[t]
      box == contents[mailbox[t]]
  IN  \/ /\ q.type = "GetMessagesQuery"
         /\ Answer(t, Promise!GetMessagesReply(box))
      \/ /\ q.type = "AckMessageCmd" /\ box[q.id] = Nobody
         /\ Answer(t, Promise!BoolReply(FALSE))
      \/ /\ q.type = "AckMessageCmd" => box[q.id] # Nobody
         /\ q.type # "GetMessagesQuery"
         /\ prior' = [prior EXCEPT ![t] = box]
         /\ Goto(t, "exchange")
         /\ UNCHANGED <<mailbox, reply>>

(* What a task does with the dictionary it has just read: TryAdd gives up  *)
(* when the id is there, TryRemove when it is not; otherwise they go on to *)
(* replace what they read.                                                 *)
Examine(t) ==
  LET q   == query[t]
      box == contents[mailbox[t]]
  IN  \/ /\ q.type = "GetMessagesQuery"
         /\ Answer(t, Promise!GetMessagesReply(box))
      \/ /\ \/ q.type = "SendMessageCmd" /\ box[q.id] # Nobody
            \/ q.type = "AckMessageCmd" /\ box[q.id] = Nobody
         /\ Answer(t, Promise!BoolReply(FALSE))
      \/ /\ \/ q.type = "SendMessageCmd" /\ box[q.id] = Nobody
            \/ q.type = "AckMessageCmd" /\ box[q.id] # Nobody
         /\ prior' = [prior EXCEPT ![t] = box]
         /\ Goto(t, "exchange")
         /\ UNCHANGED <<mailbox, reply>>

Read(t) ==
  /\ place[t] = "read"
  /\ Examine(t)
  /\ UNCHANGED <<messages, contents, query, accepted>>

(* The dictionary replaced by one with the message added or removed.       *)
Replace(t) ==
  LET q    == query[t]
      send == q.type = "SendMessageCmd"
  IN  /\ contents' = [contents EXCEPT ![mailbox[t]] =
                        [prior[t] EXCEPT ![q.id] = IF send THEN q.source ELSE Nobody]]
      /\ accepted' = [accepted EXCEPT ![q.target][q.id] = IF send THEN @ + 1 ELSE @ - 1]
      /\ Answer(t, Promise!BoolReply(TRUE))

(* Mutants: the dictionary is assigned without comparing; a task whose     *)
(* exchange fails tries again with what it read before.                    *)
ExchangeBlindly(t) ==
  /\ place[t] = "exchange"
  /\ Replace(t)
  /\ UNCHANGED <<messages, query>>

ExchangeWithStalePrior(t) ==
  /\ place[t] = "exchange"
  /\ contents[mailbox[t]] = prior[t]
  /\ Replace(t)
  /\ UNCHANGED <<messages, query>>

(* CompareExchange: when another task has replaced the dictionary since,   *)
(* the task looks at the one that it finds.                                *)
Exchange(t) ==
  /\ place[t] = "exchange"
  /\ \/ contents[mailbox[t]] = prior[t] /\ Replace(t)
     \/ /\ contents[mailbox[t]] # prior[t]
        /\ Examine(t)
        /\ UNCHANGED <<contents, accepted>>
  /\ UNCHANGED <<messages, query>>

(* The reply is on its way to the caller, or lost: the task is over.       *)
Return(t) ==
  /\ place[t] = "replied"
  /\ Goto(t, "idle")
  /\ query' = [query EXCEPT ![t] = Promise!NoQuery]
  /\ reply' = [reply EXCEPT ![t] = Promise!NoReply]
  /\ UNCHANGED <<messages, contents, mailbox, prior, accepted>>

-----------------------------------------------------------------------------

Step(t) == LookUp(t) \/ Register(t) \/ Read(t) \/ Exchange(t) \/ Return(t)

Next ==
  \E t \in Tasks :
    \/ \E q \in Promise!Queries : Call(t, q)
    \/ Step(t)

Spec == Init /\ [][Next]_vars

(* The runtime runs every task that can go on.  Nobody need ever call.     *)
FairSpec == Spec /\ \A t \in Tasks : WF_vars(Step(t))

-----------------------------------------------------------------------------
(* Properties.                                                             *)

(* A task has a query while it is under way, a reply when it is done, and  *)
(* the mailbox of its address when it works on it.                         *)
TaskOK(t) ==
  /\ place[t] = "idle" <=> query[t] = Promise!NoQuery
  /\ place[t] = "replied" <=> reply[t] # Promise!NoReply
  /\ place[t] \in {"read", "exchange"} =>
       mailbox[t] # Nobody /\ mailbox[t] = messages[query[t].target]

(* Every variable keeps to its domain, and every task to its stages.       *)
TypeOK ==
  /\ messages \in [Addresses -> Mailboxes \cup {Nobody}]
  /\ contents \in [Mailboxes -> Promise!Boxes]
  /\ query \in [Tasks -> Promise!Queries \cup {Promise!NoQuery}]
  /\ place \in [Tasks -> Places]
  /\ mailbox \in [Tasks -> Mailboxes \cup {Nobody}]
  /\ prior \in [Tasks -> Promise!Boxes]
  /\ reply \in [Tasks -> Promise!Replies \cup {Promise!NoReply}]
  /\ accepted \in [Addresses -> [Ids -> Int]]
  /\ \A t \in Tasks : TaskOK(t)

(* No message is lost and none is taken twice, whatever is sent and        *)
(* acknowledged at the same time: a message waits for its receiver exactly *)
(* when it was accepted once more often than it was acknowledged, and two  *)
(* acknowledgements of one acceptance are never both told TRUE.            *)
Conservation ==
  \A a \in Addresses, i \in Ids :
    accepted[a][i] = IF Undelivered[a][i] # Nobody THEN 1 ELSE 0

(* Every reply is one that a hub would have given that serves one call at  *)
(* a time: the calls are linearizable.                                     *)
MailboxSpec == Promise!Spec

(* No lock: whatever the tasks are up to, one of them gets its reply, so   *)
(* that retries of the exchange cannot hold all of them up forever.        *)
SomeTaskReplies ==
  (\E t \in Tasks : place[t] \notin {"idle", "replied"})
    ~> \E t \in Tasks : place[t] = "replied"

=============================================================================
