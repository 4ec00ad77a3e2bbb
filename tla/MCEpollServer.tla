---------------------------- MODULE MCEpollServer ----------------------------
(* Three peers and two descriptors, so that accept fails for want of one and *)
(* a descriptor is used again; batches of two for three sockets.             *)
EXTENDS EpollServer
=============================================================================
