CONSTANTS
  c1 = c1
  c2 = c2
  c3 = c3
  Clients <- MCClients
  Messages = {"a", "b"}
  NoLine = "none"
  Torn = "torn"
  MaxPosts = 3
SPECIFICATION FairSpec
INVARIANTS
  TypeOK
  BufferExclusive
  NeverTorn
  NeverStuck
PROPERTIES
  OneSlotMailbox
  EventuallyPrinted
CHECK_DEADLOCK FALSE
