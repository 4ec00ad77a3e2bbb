----------------------------- MODULE EpollServer -----------------------------
(***************************************************************************)
(* lecture_examples/code_l11/code_l11/epoll-example.c: one thread, an      *)
(* edge-triggered epoll set, a listening socket and its connections.  What *)
(* the peers send is a number of bytes.                                    *)
(*                                                                         *)
(* The kernel's part is as on Linux: an item of the set gets ready when    *)
(* something happens to its socket, or when it is added and something has  *)
(* happened; epoll_wait reports a ready item once, with what it finds on   *)
(* the socket then.  accept takes the lowest free descriptor; close takes  *)
(* the item out of the set and frees the descriptor for the next accept.   *)
(***************************************************************************)
EXTENDS Integers, SequencesExt

CONSTANTS
  MaxPeers,    \* bound on the connections, numbered in the order the peers connect
  FDs,         \* the descriptors a process may have for connections
  MAXEVENTS,   \* the events one epoll_wait may report: 64
  BufSize,     \* the bytes one read may return: 512
  MaxBytes     \* bound on what the peers send

ASSUME EpollAssumption ==
  /\ FDs \subseteq Nat \ {0} /\ MAXEVENTS \in Nat \ {0}
  /\ BufSize \in Nat \ {0} /\ MaxBytes \in Nat /\ MaxPeers \in Nat

Peers == 1..MaxPeers
Listener == 0        \* the item of the listening socket
sfd == 0             \* and its descriptor

VARIABLES
  conn,      \* each peer's connection: at is "away", "queue", "accepted", "open", "closed";
             \* fd; bytes sent, unread and printed; end is "no", "eof", "reset"; cut says
             \* that a write to stdout took less than it was given
  queue,     \* the peers accept has not yet returned
  ready,     \* the items epoll will look at
  events,    \* what is left of the last batch: fd, error, and about, the item (history)
  pc,        \* "wait", "event", "accept", "add", "read", "write", "aborted"
  count,     \* the bytes read returned, until they are written
  missed     \* history: the last accept failed with connections waiting

vars == <<conn, queue, ready, events, pc, count, missed>>

Init ==
  /\ conn = [p \in Peers |-> [at |-> "away", fd |-> sfd, sent |-> 0, unread |-> 0,
                              printed |-> 0, end |-> "no", cut |-> FALSE]]
  /\ queue = <<>> /\ ready = {} /\ events = <<>> /\ pc = "wait"
  /\ count = 0 /\ missed = FALSE

Readable(c) == c.unread > 0 \/ c.end # "no"

\* What poll finds on an item's socket.
Reportable == {x \in ready : IF x = Listener THEN queue # <<>> ELSE Readable(conn[x])}

Free == {f \in FDs : \A p \in Peers : conn[p].at \in {"accepted", "open"} => conn[p].fd # f}

----------------------------------------------------------------------------
(* The peers, and the edges they cause                                     *)

Server == UNCHANGED <<events, pc, count, missed>>

Edge(p) == ready' = IF conn[p].at = "open" THEN ready \cup {p} ELSE ready

Connect(p) ==
  /\ conn[p].at = "away" /\ \A q \in 1 .. p - 1 : conn[q].at # "away"
  /\ conn' = [conn EXCEPT ![p].at = "queue"]
  /\ queue' = Append(queue, p) /\ ready' = ready \cup {Listener} /\ Server

Connected(p) == conn[p].at \in {"queue", "accepted", "open"} /\ conn[p].end = "no"

Send(p) ==
  /\ Connected(p) /\ MapThenSumSet(LAMBDA q : conn[q].sent, Peers) < MaxBytes
  /\ conn' = [conn EXCEPT ![p].sent = @ + 1, ![p].unread = @ + 1]
  /\ Edge(p) /\ UNCHANGED queue /\ Server

\* The peer closes its end, or resets the connection.
HangUp(p) ==
  /\ Connected(p) /\ \E how \in {"eof", "reset"} : conn' = [conn EXCEPT ![p].end = how]
  /\ Edge(p) /\ UNCHANGED queue /\ Server

----------------------------------------------------------------------------
(* The server                                                              *)

epoll_wait ==
  /\ pc = "wait" /\ Reportable # {}
  /\ \E S \in SUBSET Reportable :
       /\ Cardinality(S) = Min({Cardinality(Reportable), MAXEVENTS})
       /\ ready' = Reportable \ S
       /\ \E order \in SetToSeqs(S) :
            events' = [n \in DOMAIN order |->
              IF order[n] = Listener THEN [fd |-> sfd, error |-> FALSE, about |-> Listener]
              ELSE [fd |-> conn[order[n]].fd, error |-> conn[order[n]].end = "reset", about |-> order[n]]]
  /\ pc' = "event" /\ UNCHANGED <<conn, queue, count, missed>>

event == Head(events)

\* The next turn of the loop over the batch.
Continue == events' = Tail(events) /\ pc' = IF Len(events) = 1 THEN "wait" ELSE "event"

\* Whose connection a descriptor is.
Owns(p, fd) == conn[p].at = "open" /\ conn[p].fd = fd

Close(fd) ==
  /\ conn' = [p \in Peers |-> IF Owns(p, fd) THEN [conn[p] EXCEPT !.at = "closed"] ELSE conn[p]]
  /\ ready' = {x \in ready : x = Listener \/ ~Owns(x, fd)}

\* EPOLLERR or EPOLLHUP.
CloseOnError ==
  /\ pc = "event" /\ event.error /\ Close(event.fd) /\ Continue
  /\ UNCHANGED <<queue, count, missed>>

Dispatch ==
  /\ pc = "event" /\ ~event.error /\ pc' = (IF event.fd = sfd THEN "accept" ELSE "read")
  /\ UNCHANGED <<conn, queue, ready, events, count, missed>>

Accept ==
  /\ pc = "accept" /\ queue # <<>> /\ Free # {}
  /\ queue' = Tail(queue)
  /\ conn' = [conn EXCEPT ![Head(queue)].at = "accepted", ![Head(queue)].fd = Min(Free)]
  /\ pc' = "add" /\ UNCHANGED <<ready, events, count, missed>>

\* EAGAIN.
AcceptedAll ==
  /\ pc = "accept" /\ queue = <<>> /\ missed' = FALSE /\ Continue
  /\ UNCHANGED <<conn, queue, ready, count>>

\* EMFILE when no descriptor is free, or ENFILE or ENOMEM at any time.
AcceptFails ==
  /\ pc = "accept" /\ queue # <<>> /\ missed' = TRUE /\ Continue
  /\ UNCHANGED <<conn, queue, ready, count>>

\* Mutant: only one connection is accepted for an event.
AddAndContinue ==
  /\ pc = "add" /\ Continue
  /\ \E p \in Peers :
       /\ conn[p].at = "accepted" /\ conn' = [conn EXCEPT ![p].at = "open"]
       /\ ready' = IF Readable(conn[p]) THEN ready \cup {p} ELSE ready
  /\ UNCHANGED <<queue, count, missed>>

\* make_socket_non_blocking and EPOLL_CTL_ADD.
Add ==
  /\ pc = "add" /\ pc' = "accept"
  /\ \E p \in Peers :
       /\ conn[p].at = "accepted" /\ conn' = [conn EXCEPT ![p].at = "open"]
       /\ ready' = IF Readable(conn[p]) THEN ready \cup {p} ELSE ready
  /\ UNCHANGED <<queue, events, count, missed>>

Read ==
  /\ pc = "read" /\ pc' = "write"
  /\ \E p \in Peers :
       /\ Owns(p, event.fd) /\ conn[p].unread > 0
       /\ count' = Min({conn[p].unread, BufSize})
       /\ conn' = [conn EXCEPT ![p].unread = @ - count']
  /\ UNCHANGED <<queue, ready, events, missed>>

\* EAGAIN.
ReadAll ==
  /\ pc = "read" /\ Continue
  /\ \E p \in Peers : Owns(p, event.fd) /\ ~Readable(conn[p])
  /\ UNCHANGED <<conn, queue, ready, count, missed>>

\* Mutant: the connection is closed inside the loop, which goes on.
ReadEndStays ==
  /\ pc = "read" /\ Close(event.fd)
  /\ \E p \in Peers : Owns(p, event.fd) /\ conn[p].unread = 0 /\ conn[p].end # "no"
  /\ UNCHANGED <<queue, events, pc, count, missed>>

\* Mutant: a count of zero is taken for EAGAIN.
ReadEndIgnored ==
  /\ pc = "read" /\ Continue
  /\ \E p \in Peers : Owns(p, event.fd) /\ conn[p].unread = 0 /\ conn[p].end # "no"
  /\ UNCHANGED <<conn, queue, ready, count, missed>>

\* A count of zero, or an error other than EAGAIN.
ReadEnd ==
  /\ pc = "read" /\ Close(event.fd) /\ Continue
  /\ \E p \in Peers : Owns(p, event.fd) /\ conn[p].unread = 0 /\ conn[p].end # "no"
  /\ UNCHANGED <<queue, count, missed>>

\* write may take only part of buf, and nobody looks how much.
Written(n) ==
  conn' = [p \in Peers |-> IF Owns(p, event.fd)
                           THEN [conn[p] EXCEPT !.printed = @ + n, !.cut = @ \/ n < count] ELSE conn[p]]

\* Mutant: one read for an event, as a level-triggered set would allow.
WriteAndContinue ==
  /\ pc = "write" /\ Continue
  /\ \E n \in 1..count : Written(n)
  /\ count' = 0 /\ UNCHANGED <<queue, ready, missed>>

Write ==
  /\ pc = "write" /\ pc' = "read"
  /\ \E n \in 1..count : Written(n)
  /\ count' = 0 /\ UNCHANGED <<queue, ready, events, missed>>

\* abort() when fcntl, epoll_ctl or write fails; the kernel closes everything.
Abort ==
  /\ pc \in {"add", "write"} /\ pc' = "aborted"
  /\ conn' = [p \in Peers |-> IF conn[p].at = "away" THEN conn[p] ELSE [conn[p] EXCEPT !.at = "closed"]]
  /\ queue' = <<>> /\ ready' = {} /\ UNCHANGED <<events, count, missed>>

main ==
  \/ epoll_wait \/ CloseOnError \/ Dispatch \/ Accept \/ AcceptedAll \/ AcceptFails \/ Add
  \/ Read \/ ReadAll \/ ReadEnd \/ Write \/ Abort

Next == main \/ (pc # "aborted" /\ \E p \in Peers : Connect(p) \/ Send(p) \/ HangUp(p))

\* The server is scheduled; peers owe nothing.
Spec == Init /\ [][Next]_vars /\ WF_vars(main)

----------------------------------------------------------------------------
(* Properties                                                              *)

\* Whenever the server is back in epoll_wait, whatever waits for it on a socket will be
\* reported, although an edge is reported once: the loops over accept and read end only
\* when there is nothing left, and Add looks for what came before it.  The exception
\* are connections left behind by a failed accept.
NothingForgotten ==
  pc = "wait" =>
    /\ \A p \in Peers : conn[p].at = "open" /\ Readable(conn[p]) => p \in ready
    /\ queue # <<>> => Listener \in ready \/ missed

\* A batch never speaks of a descriptor that has been closed, and perhaps given to
\* another connection by an accept of the same batch, since it was collected.
EventsFresh ==
  \A n \in DOMAIN events :
    events[n].about # Listener => Owns(events[n].about, events[n].fd) \/ pc = "aborted"

\* What a peer sends is printed, unless it resets the connection, stdout fails or takes
\* less than it is given, or accept fails while the peer is waiting.
EventuallyPrinted ==
  \A p \in Peers : \A n \in 1..MaxBytes :
    conn[p].sent >= n ~>
      \/ conn[p].printed >= n
      \/ conn[p].end = "reset" \/ conn[p].cut \/ pc = "aborted"
      \/ conn[p].at = "queue" /\ missed

\* The server gives the descriptor of every connection back that its peer has ended.
EventuallyClosed ==
  \A p \in Peers :
    conn[p].at = "open" /\ conn[p].end # "no" ~> conn[p].at = "closed"
=============================================================================
