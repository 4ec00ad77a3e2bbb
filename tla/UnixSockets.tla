----------------------------- MODULE UnixSockets -----------------------------
(***************************************************************************)
(* lecture_examples/L6/userver.c and uclient.c: clients that copy what     *)
(* their user types into a socket, and servers that take one connection    *)
(* after the other and copy it to stdout.  A server that starts removes    *)
(* the socket of the one before, which keeps its connections.              *)
(***************************************************************************)
EXTENDS CourseProgram, SequencesExt

CONSTANTS
  Servers, Clients,   \* each runs once
  Posts,              \* so much is typed
  PipeSize            \* so much of it fits into a socket

Programs == {"userver"}
Actors == Servers \cup Clients
Over == {"ended", "aborted", "killed"}

Init ==
  /\ program \in Programs
  /\ at = [p \in Actors |-> "start"]
  /\ os = [path |-> "none",                          \* whose socket ./sample-socket is
           backlog |-> [s \in Servers |-> <<>>],     \* connections to accept
           taken |-> [c \in Clients |-> 0]]          \* how much of a connection was read
  /\ local = [conn |-> [p \in Actors |-> "none"],    \* the peer of each
              typed |-> [c \in Clients |-> 0]]       \* what a client has read and not written
  /\ sent = [c \in Clients |-> <<>>]    \* what was written into each connection
  /\ got = [s \in Servers |-> <<>>]     \* what each server has printed

Steps == UNCHANGED <<program, os, local, sent, got>>

----------------------------------------------------------------------------
(* userver.c                                                               *)

unlink(s) ==
  /\ Go(s, "start", "bind") /\ os' = [os EXCEPT !.path = "none"] /\ UNCHANGED <<program, local, sent, got>>

bind(s) ==
  IF os.path = "none"
  THEN Go(s, "bind", "listen") /\ os' = [os EXCEPT !.path = s] /\ UNCHANGED <<program, local, sent, got>>
  ELSE Go(s, "bind", "aborted") /\ Steps

listen(s) == Go(s, "listen", "accept") /\ Steps

accept(s) ==
  /\ Go(s, "accept", "copy") /\ os.backlog[s] # <<>>
  /\ local' = [local EXCEPT !.conn[s] = Head(os.backlog[s])]
  /\ os' = [os EXCEPT !.backlog[s] = Tail(@)] /\ UNCHANGED <<program, sent, got>>

Unread(c) == SubSeq(sent[c], os.taken[c] + 1, Len(sent[c]))

\* copydata: what is there is printed; the end of the connection ends it.
copydata(s) ==
  LET c == local.conn[s]
  IN  /\ at[s] = "copy" /\ UNCHANGED <<program, sent>>
      /\ \/ /\ Unread(c) # <<>> /\ got' = [got EXCEPT ![s] = @ \o Unread(c)]
            /\ os' = [os EXCEPT !.taken[c] = Len(sent[c])] /\ UNCHANGED <<at, local>>
         \/ /\ Unread(c) = <<>> /\ at[c] \in Over /\ Go(s, "copy", "accept")
            /\ local' = [local EXCEPT !.conn[s] = "none"] /\ UNCHANGED <<os, got>>

server(s) == unlink(s) \/ bind(s) \/ listen(s) \/ accept(s) \/ copydata(s)

----------------------------------------------------------------------------
(* uclient.c                                                               *)

\* connect needs a socket that listens; a server that has ended listens no more.
connect(c) ==
  /\ at[c] = "start" /\ UNCHANGED <<program, sent, got>>
  /\ IF os.path # "none" /\ at[os.path] \in {"accept", "copy"}
     THEN /\ at' = [at EXCEPT ![c] = "read"] /\ os' = [os EXCEPT !.backlog[os.path] = Append(@, c)]
          /\ local' = [local EXCEPT !.conn[c] = os.path]
     ELSE at' = [at EXCEPT ![c] = "aborted"] /\ UNCHANGED <<os, local>>

\* The user types, or ends the input.
Type(c) ==
  \/ /\ Go(c, "read", "write") /\ FoldFunction(LAMBDA m, n : m + n, 0, local.typed) < Posts
     /\ local' = [local EXCEPT !.typed[c] = @ + 1] /\ UNCHANGED <<program, os, sent, got>>
  \/ Go(c, "read", "ended") /\ Steps

\* write waits while the socket is full; without a server it kills (SIGPIPE).
write(c) ==
  \/ /\ Go(c, "write", "read") /\ at[local.conn[c]] \notin Over /\ Len(Unread(c)) < PipeSize
     /\ sent' = [sent EXCEPT ![c] = Append(@, <<c, local.typed[c]>>)] /\ UNCHANGED <<program, os, local, got>>
  \/ Go(c, "write", "killed") /\ at[local.conn[c]] \in Over /\ Steps

client(c) == connect(c) \/ Type(c) \/ write(c)

----------------------------------------------------------------------------
Kill(p) == at[p] \notin Over \cup {"start"} /\ Go(p, at[p], "killed") /\ Steps

Step(p) == IF p \in Servers THEN server(p) ELSE write(p)

Next ==
  \/ \E s \in Servers : server(s)
  \/ \E c \in Clients : client(c)
  \/ \E p \in Actors : Kill(p)

----------------------------------------------------------------------------
(* Properties                                                              *)

\* Where the printed text of the connection of got[s][i] begins.
First(s, i) == Min({j \in DOMAIN got[s] : got[s][j][1] = got[s][i][1]})

\* A server prints its connections one after the other, each from its start and in order,
\* and goes on to the next only after the end of one; no connection has two servers.
InOrder ==
  \A s \in Servers : \A i \in DOMAIN got[s] :
    LET c == got[s][i][1]
        n == i - First(s, i) + 1
    IN  /\ local.conn[c] = s /\ n \in DOMAIN sent[c] /\ got[s][i] = sent[c][n]
        /\ i < Len(got[s]) /\ got[s][i + 1][1] # c => at[c] \in Over /\ Len(sent[c]) = n

\* A server that runs has printed all there is of the connection it has, and lets the
\* others wait only for this one's user.
Settled ==
  \A s \in Servers : at[s] \notin Over =>
    \/ at[s] = "accept" /\ os.backlog[s] = <<>>
    \/ at[s] = "copy" /\ at[local.conn[s]] = "read" /\ Unread(local.conn[s]) = <<>>

\* bind fails only where another server has come between it and its unlink.
AbortsExplained ==
  \A s \in Servers : at[s] = "aborted" =>
    \E t \in Servers \ {s} : at[t] \in {"listen", "accept", "copy", "killed"}
=============================================================================
