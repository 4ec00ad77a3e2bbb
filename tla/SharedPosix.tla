----------------------------- MODULE SharedPosix ----------------------------
(***************************************************************************)
(* lecture_examples/code_l7/code_l7/shared_posix.c, and shared_posix_hax.c *)
(* whose loops are the same: a server and its clients share one buffer, a  *)
(* semaphore that is 1 while the buffer is empty and one that is 1 while   *)
(* it holds a message.  The semaphores exist and have their first values:  *)
(* how their names come and go is not part of this module.                 *)
(*                                                                         *)
(* The server may be interrupted (SIGINT: sigdelete calls exit) or killed  *)
(* anywhere, a client killed anywhere.  A wait and its return are one      *)
(* step: sem_wait decrements when it lets the process through.             *)
(***************************************************************************)
EXTENDS Naturals, Sequences

CONSTANTS
  Clients,    \* client processes
  Messages,   \* the lines a user may type
  NoLine,     \* the zero bytes of a fresh shared memory segment
  Torn,       \* a line whose writer was killed while fgets stored it
  MaxPosts    \* bound on the messages posted

ASSUME SharedPosixAssumption ==
  /\ NoLine \notin Messages /\ Torn \notin Messages /\ NoLine # Torn
  /\ MaxPosts \in Nat

Lines == Messages \cup {NoLine, Torn}

VARIABLES
  sem_empty, sem_full,   \* the values of the two semaphores
  buffer,                \* shmem->buffer
  server,                \* "wait", "print", "post", "dead"
  client,                \* for each client "menu", "wait", "enter", "post", "gone", "killed"
  posted, printed        \* history: the messages announced by sem_full, those printed

vars == <<sem_empty, sem_full, buffer, server, client, posted, printed>>

\* Mutant: sem_open gives sem_empty the value 2.
InitTwo ==
  /\ sem_empty = 2 /\ sem_full = 0 /\ buffer = NoLine
  /\ server = "wait" /\ client = [c \in Clients |-> "menu"]
  /\ posted = <<>> /\ printed = <<>>

Init ==
  /\ sem_empty = 1 /\ sem_full = 0 /\ buffer = NoLine
  /\ server = "wait" /\ client = [c \in Clients |-> "menu"]
  /\ posted = <<>> /\ printed = <<>>

----------------------------------------------------------------------------
(* The server's loop                                                       *)

\* Mutant: the server does not wait.
ServerWaitNot ==
  /\ server = "wait"
  /\ sem_full' = sem_full - 1 /\ server' = "print"
  /\ UNCHANGED <<sem_empty, buffer, client, posted, printed>>

ServerWait ==
  /\ server = "wait" /\ sem_full > 0
  /\ sem_full' = sem_full - 1 /\ server' = "print"
  /\ UNCHANGED <<sem_empty, buffer, client, posted, printed>>

ServerPrint ==
  /\ server = "print"
  /\ printed' = Append(printed, buffer) /\ server' = "post"
  /\ UNCHANGED <<sem_empty, sem_full, buffer, client, posted>>

ServerPost ==
  /\ server = "post"
  /\ sem_empty' = sem_empty + 1 /\ server' = "wait"
  /\ UNCHANGED <<sem_full, buffer, client, posted, printed>>

\* SIGINT, whose handler exits, or a kill.
ServerStop ==
  /\ server # "dead" /\ server' = "dead"
  /\ UNCHANGED <<sem_empty, sem_full, buffer, client, posted, printed>>

----------------------------------------------------------------------------
(* A client's menu and clientwrite                                         *)

\* '1' at the menu; any other line shows the menu again.
Choose(c) ==
  /\ client[c] = "menu" /\ Len(posted) < MaxPosts
  /\ client' = [client EXCEPT ![c] = "wait"]
  /\ UNCHANGED <<sem_empty, sem_full, buffer, server, posted, printed>>

\* '2' at the menu.
Leave(c) ==
  /\ client[c] = "menu"
  /\ client' = [client EXCEPT ![c] = "gone"]
  /\ UNCHANGED <<sem_empty, sem_full, buffer, server, posted, printed>>

ClientWait(c) ==
  /\ client[c] = "wait" /\ sem_empty > 0
  /\ sem_empty' = sem_empty - 1
  /\ client' = [client EXCEPT ![c] = "enter"]
  /\ UNCHANGED <<sem_full, buffer, server, posted, printed>>

\* Mutant: the end of stdin sends the client back to its menu at once.
EnterReturnsAtEof(c) ==
  /\ client[c] = "enter"
  /\ \/ /\ buffer' \in Messages
        /\ client' = [client EXCEPT ![c] = "post"]
     \/ /\ buffer' = buffer
        /\ client' = [client EXCEPT ![c] = "menu"]
  /\ UNCHANGED <<sem_empty, sem_full, server, posted, printed>>

\* fgets into the shared buffer; at the end of stdin it leaves the buffer as it is.
Enter(c) ==
  /\ client[c] = "enter"
  /\ buffer' \in Messages \cup {buffer}
  /\ client' = [client EXCEPT ![c] = "post"]
  /\ UNCHANGED <<sem_empty, sem_full, server, posted, printed>>

\* Mutant: clientwrite posts the semaphore it waited for.
ClientPostWrong(c) ==
  /\ client[c] = "post"
  /\ sem_empty' = sem_empty + 1 /\ posted' = Append(posted, buffer)
  /\ client' = [client EXCEPT ![c] = "menu"]
  /\ UNCHANGED <<sem_full, buffer, server, printed>>

ClientPost(c) ==
  /\ client[c] = "post"
  /\ sem_full' = sem_full + 1 /\ posted' = Append(posted, buffer)
  /\ client' = [client EXCEPT ![c] = "menu"]
  /\ UNCHANGED <<sem_empty, buffer, server, printed>>

\* A kill, which inside fgets may leave part of a line in the buffer.
Kill(c) ==
  /\ client[c] \notin {"gone", "killed"}
  /\ client' = [client EXCEPT ![c] = "killed"]
  /\ buffer' \in IF client[c] = "enter" THEN {buffer, Torn} ELSE {buffer}
  /\ UNCHANGED <<sem_empty, sem_full, server, posted, printed>>

Server == ServerWait \/ ServerPrint \/ ServerPost

Client(c) == Choose(c) \/ Leave(c) \/ ClientWait(c) \/ Enter(c) \/ ClientPost(c) \/ Kill(c)

Next == Server \/ ServerStop \/ \E c \in Clients : Client(c)

Spec == Init /\ [][Next]_vars

\* The server is scheduled as long as it runs; users owe nothing.
FairSpec == Spec /\ WF_vars(Server)

----------------------------------------------------------------------------
(* Properties                                                              *)

\* The types; a semaphore is never negative.
TypeOK ==
  /\ sem_empty \in Nat /\ sem_full \in Nat /\ buffer \in Lines
  /\ server \in {"wait", "print", "post", "dead"}
  /\ client \in [Clients -> {"menu", "wait", "enter", "post", "gone", "killed"}]
  /\ posted \in Seq(Lines) /\ printed \in Seq(Lines)

\* Who may touch the buffer: a client from its wait to its post, the server too.
Holds(c) == client[c] \in {"enter", "post"}
ServerHolds == server \in {"print", "post"}

\* The buffer belongs to one process at a time, wherever clients and the server are
\* stopped: the two semaphores never let two through (sem_wait and sem_post of the
\* loop and of clientwrite).
BufferExclusive ==
  /\ \A c, d \in Clients : Holds(c) /\ Holds(d) => c = d
  /\ ServerHolds => \A c \in Clients : ~Holds(c)

\* No message is lost, printed twice, or printed other than it was posted.
Mail == INSTANCE Mailbox WITH Messages <- Lines, up <- server # "dead"
OneSlotMailbox == Mail!Spec

\* A killed client's half line never leaves the buffer.
NeverTorn == \A n \in DOMAIN printed : printed[n] # Torn

\* Unless a client was killed or the server stopped, somebody still has the buffer or
\* may take it, so nobody waits for ever for a post that cannot come.
NeverStuck ==
  (\A c \in Clients : client[c] # "killed") /\ server # "dead" =>
    \/ sem_empty > 0 \/ sem_full > 0 \/ ServerHolds
    \/ \E c \in Clients : Holds(c)

\* A posted message is printed, unless the server stops first.
EventuallyPrinted == posted # printed ~> posted = printed \/ server = "dead"
=============================================================================
