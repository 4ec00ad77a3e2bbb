--------------------------- MODULE ConnectionServer --------------------------
(***************************************************************************)
(* lecture_examples/L6/ip_server.c: a server that forks a child for each   *)
(* connection, which greets the peer and exits; the handler of SIGCHLD     *)
(* reaps the children.  A child is known by its peer.                      *)
(***************************************************************************)
EXTENDS CourseProgram, TLC

CONSTANT Peers

Programs == {"ip_server"}
Actors == Peers \cup {"server", "handler"}
Over == {"ended"}

Init ==
  /\ program \in Programs
  /\ at = [p \in Peers |-> "none"] @@ [server |-> "accept", handler |-> "idle"]
  /\ os = [backlog |-> <<>>,   \* connections to accept
           gone |-> {},        \* peers that have hung up
           sigchld |-> FALSE]  \* SIGCHLD is pending: once, however many children ended
  /\ local = [new_fd |-> "none"]
  /\ sent = [p \in Peers |-> <<>>] /\ got = [p \in Peers |-> <<>>]

\* A peer connects; it may hang up at any time.
Connect(p) ==
  /\ sent[p] = <<>> /\ sent' = [sent EXCEPT ![p] = <<"connect">>]
  /\ os' = [os EXCEPT !.backlog = Append(@, p)] /\ UNCHANGED <<program, at, local, got>>

HangUp(p) ==
  /\ sent[p] # <<>> /\ p \notin os.gone
  /\ os' = [os EXCEPT !.gone = @ \cup {p}] /\ UNCHANGED <<program, at, local, sent, got>>

----------------------------------------------------------------------------
(* The main loop, which stands still while its handler runs                *)

accept ==
  /\ Go("server", "accept", "fork") /\ os.backlog # <<>>
  /\ local' = [local EXCEPT !.new_fd = Head(os.backlog)]
  /\ os' = [os EXCEPT !.backlog = Tail(@)] /\ UNCHANGED <<program, sent, got>>

\* fork returns 0 in the child; -1, when it fails, counts as the parent.
fork ==
  /\ at.server = "fork" /\ UNCHANGED <<program, os, local, sent>>
  /\ \/ at' = [at EXCEPT !.server = "close", ![local.new_fd] = "send"] /\ UNCHANGED got
     \/ at' = [at EXCEPT !.server = "close"] /\ got' = [got EXCEPT ![local.new_fd] = <<"closed">>]

close ==
  /\ Go("server", "close", "accept") /\ local' = [local EXCEPT !.new_fd = "none"]
  /\ UNCHANGED <<program, os, sent, got>>

server == at.handler = "idle" /\ (accept \/ fork \/ close)

----------------------------------------------------------------------------
(* A child                                                                 *)

Ends(p, from) ==
  /\ Go(p, from, "zombie") /\ os' = [os EXCEPT !.sigchld = TRUE] /\ UNCHANGED <<program, local, sent>>

\* The greeting, for which a peer that has gone may kill the child (SIGPIPE).
child(p) ==
  \/ /\ Go(p, "send", "exit") /\ p \notin os.gone /\ got' = [got EXCEPT ![p] = <<"Hello, world!">>]
     /\ UNCHANGED <<program, os, local, sent>>
  \/ p \in os.gone /\ Ends(p, "send") /\ UNCHANGED got
  \/ Ends(p, "exit") /\ UNCHANGED got

----------------------------------------------------------------------------
(* sigchld_handler: SIGCHLD is blocked while it runs                       *)

Deliver ==
  /\ Go("handler", "idle", "wait") /\ os.sigchld /\ os' = [os EXCEPT !.sigchld = FALSE]
  /\ UNCHANGED <<program, local, sent, got>>

Zombies == {p \in Peers : at[p] = "zombie"}

\* Mutant: one waitpid for each signal.
waitpidOnce ==
  /\ at.handler = "wait" /\ UNCHANGED <<program, os, local, sent, got>>
  /\ \/ Zombies = {} /\ at' = [at EXCEPT !.handler = "idle"]
     \/ \E p \in Zombies : at' = [at EXCEPT ![p] = "reaped", !.handler = "idle"]

\* waitpid in a loop, until it finds nobody.
waitpid ==
  /\ at.handler = "wait" /\ UNCHANGED <<program, os, local, sent, got>>
  /\ \/ Zombies = {} /\ at' = [at EXCEPT !.handler = "idle"]
     \/ \E p \in Zombies : at' = [at EXCEPT ![p] = "reaped"]

sigchld_handler == Deliver \/ waitpid

----------------------------------------------------------------------------
Step(p) ==
  \/ p = "server" /\ server
  \/ p = "handler" /\ sigchld_handler
  \/ p \in Peers /\ child(p)

Next == (\E p \in Peers : Connect(p) \/ HangUp(p)) \/ \E p \in Actors : Step(p)

----------------------------------------------------------------------------
(* Properties                                                              *)

\* Every child is reaped, though their signals merge; every peer that stays has been
\* greeted, or its connection closed for want of a process.
Settled ==
  /\ Zombies = {}
  /\ \A p \in Peers : sent[p] # <<>> => got[p] # <<>> \/ p \in os.gone
=============================================================================
