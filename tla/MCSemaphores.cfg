CONSTANTS
  Clients = {"c1", "c2"}
  Server = "server"
  Messages = {"a"}
  NoLine = "none"
  SEMAEM = 2
  MaxPosts = 4
  MenuServers = {"s1", "s2"}
  MenuClients = {"u1", "u2"}
SPECIFICATION MCSpec
INVARIANTS
  MailboxUntilUndo
  UndoRestores
  SemaphoresCounted
  AbortsAfterRemoval
PROPERTIES
  AbortsExplained
  NobodyWaitsForRemoved
  MenusArePools
CHECK_DEADLOCK FALSE
