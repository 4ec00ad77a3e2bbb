\* shared_sysv.c by itself, with the range the kernel gives its sums.
CONSTANTS
  Clients = {"c1", "c2"}
  Server = "server"
  Messages = {"a"}
  NoLine = "none"
  SEMAEM = 32767
  MaxPosts = 2
SPECIFICATION Spec
PROPERTY EmptyMeansEmpty
CHECK_DEADLOCK FALSE
