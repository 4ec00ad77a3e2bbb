--------------------------- MODULE MCSharedPosix ----------------------------
(* Three clients, two different lines, and enough posts for the buffer to go *)
(* from each client to the server and back.                                  *)
EXTENDS SharedPosix

CONSTANTS c1, c2, c3

MCClients == {c1, c2, c3}
=============================================================================
