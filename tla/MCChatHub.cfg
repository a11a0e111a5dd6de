\* One mailbox, two messages, one sender, three calls at once.
CONSTANTS
  Nobody = Nobody
  Addresses = {bela}
  Ids = {m1, m2}
  Sources = {bob}
  Tasks = {t1, t2, t3}
SPECIFICATION FairSpec
INVARIANTS
  TypeOK
  Conservation
PROPERTIES
  MailboxSpec
  SomeTaskReplies
