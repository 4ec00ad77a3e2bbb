CONSTANTS
  Pipes = {0, 1}
  Writes = 3
  Openings = 3
  Block = 2
  Kills = 4
  PipeSize = 2
  Senders = {"s1", "s2", "s3"}
  Receivers = {"r1", "r2"}
  Lengths = {0, 1, 2}
  Priorities = {1, 2}
  MAX_MSG = 2
  Old = "old"
  Servers = {"v1", "v2"}
  Clients = {"c1", "c2"}
  Posts = 3
  Lockers = {"l1", "l2", "l3"}
  Refusals = 2
  Peers = {"p1", "p2", "p3"}
  Benches = {1, 2}
  Tests <- MCTests
SPECIFICATION Spec
INVARIANTS
  InOrder
  FailuresExplained
  Exclusive
PROPERTY EverythingSettles
CHECK_DEADLOCK FALSE
