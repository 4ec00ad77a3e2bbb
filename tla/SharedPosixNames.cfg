\* Two servers, one after the other or at once, and two clients that come while they come and go.
CONSTANTS
  Servers = {"s1", "s2"}
  Clients = {"c1", "c2"}
  None = "none"
SPECIFICATION Spec
INVARIANT ExclusiveUnlessMixed
PROPERTY AbortsExplained
CHECK_DEADLOCK FALSE
