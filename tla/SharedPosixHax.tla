--------------------------- MODULE SharedPosixHax ----------------------------
(***************************************************************************)
(* How servers and clients of lecture_examples/code_l7/shared_posix_hax.c  *)
(* come and go.  Its two semaphores are part of the shared memory segment, *)
(* and each server that starts sets their values (sem_init), whether or    *)
(* not the segment is in use.  What a line says is left out: the loops are *)
(* those of SharedPosix.                                                   *)
(*                                                                         *)
(* A segment is known by the server that created it.  A process that       *)
(* sleeps in sem_wait may sleep on when another server sets the value      *)
(* again: nothing here depends on its waking.                              *)
(***************************************************************************)
EXTENDS CourseProgram

CONSTANTS
  Servers, Clients,   \* each runs once
  Posts               \* so often a client's user chooses to send

Programs == {"shared_posix_hax"}
Actors == Servers \cup Clients
Over == {"ended", "aborted", "killed"}
Up(p) == at[p] \notin Over \cup {"start"}

Init ==
  /\ program \in Programs /\ at = [p \in Actors |-> "start"]
  /\ os = [named |-> "none",                          \* the segment the name leads to
           sized |-> [o \in Servers |-> FALSE],       \* whether a segment has pages
           empty |-> [o \in Servers |-> 0], full |-> [o \in Servers |-> 0],
           inits |-> [o \in Servers |-> 0],           \* history: how often they were initialised,
           wiped |-> [o \in Servers |-> FALSE],       \* and whether that wiped out a message
           sends |-> 0]
  /\ local = [segment |-> [p \in Actors |-> "none"]]
  /\ sent = [o \in Servers |-> 0] /\ got = [o \in Servers |-> 0]   \* messages, by segment

Map(p, o) == local' = [local EXCEPT !.segment[p] = o]
Segment(p) == local.segment[p]
Steps == UNCHANGED <<program, os, local, sent, got>>

\* To post full is to announce a message, to pass it is to take one.
Counted(messages, p, sem) == [messages EXCEPT ![Segment(p)] = IF sem = "full" THEN @ + 1 ELSE @]

sem_wait(p, sem) ==
  /\ os[sem][Segment(p)] > 0 /\ os' = [os EXCEPT ![sem][Segment(p)] = @ - 1]
  /\ got' = Counted(got, p, sem) /\ UNCHANGED <<program, local, sent>>

sem_post(p, sem) ==
  /\ os' = [os EXCEPT ![sem][Segment(p)] = @ + 1]
  /\ sent' = Counted(sent, p, sem) /\ UNCHANGED <<program, local, got>>

----------------------------------------------------------------------------
(* A server                                                                *)

\* shm_open with O_CREAT and without O_EXCL.
Create(s) ==
  /\ Go(s, "start", "ftruncate")
  /\ os' = IF os.named = "none" THEN [os EXCEPT !.named = s] ELSE os
  /\ Map(s, os'.named) /\ UNCHANGED <<program, sent, got>>

ftruncate(s) ==
  /\ Go(s, "ftruncate", "init empty") /\ os' = [os EXCEPT !.sized[Segment(s)] = TRUE]
  /\ UNCHANGED <<program, local, sent, got>>

sem_init(s) ==
  /\ \/ Go(s, "init empty", "init full") /\ os' = [os EXCEPT !.empty[Segment(s)] = 1, !.inits[Segment(s)] = @ + 1]
     \/ /\ Go(s, "init full", "arm")
        /\ os' = [os EXCEPT !.full[Segment(s)] = 0, !.wiped[Segment(s)] = @ \/ os.full[Segment(s)] > 0]
  /\ UNCHANGED <<program, local, sent, got>>

\* atexit and sigaction; then the loop.
loop(s) ==
  \/ Go(s, "arm", "wait") /\ Steps
  \/ Go(s, "wait", "print") /\ sem_wait(s, "full")
  \/ Go(s, "print", "post") /\ Steps
  \/ Go(s, "post", "wait") /\ sem_post(s, "empty")

\* SIGINT, once the handler is there.
sigdelete(s) == \E from \in {"wait", "print", "post"} : Go(s, from, "delete") /\ Steps

\* sem_destroy of glibc does nothing; the name must be there.
delete(s) ==
  /\ Go(s, "delete", IF os.named = "none" THEN "aborted" ELSE "ended")
  /\ os' = [os EXCEPT !.named = "none"] /\ UNCHANGED <<program, local, sent, got>>

server(s) == Create(s) \/ ftruncate(s) \/ sem_init(s) \/ loop(s) \/ delete(s)

----------------------------------------------------------------------------
(* A client                                                                *)

Find(c) ==
  /\ Go(c, "start", IF os.named = "none" THEN "aborted" ELSE "menu")
  /\ Map(c, os.named) /\ UNCHANGED <<program, os, sent, got>>

\* The user's choice.
Choose(c) ==
  \/ /\ Go(c, "menu", "wait") /\ os.sends < Posts /\ os' = [os EXCEPT !.sends = @ + 1]
     /\ UNCHANGED <<program, local, sent, got>>
  \/ Go(c, "menu", "ended") /\ Steps

\* A segment without pages gives a bus error.
clientwrite(c) ==
  \/ Go(c, "wait", "killed") /\ ~os.sized[Segment(c)] /\ Steps
  \/ Go(c, "wait", "enter") /\ sem_wait(c, "empty")
  \/ Go(c, "enter", "post") /\ Steps
  \/ Go(c, "post", "menu") /\ sem_post(c, "full")

client(c) == Find(c) \/ Choose(c) \/ clientwrite(c)

Kill(p) == Up(p) /\ Go(p, at[p], "killed") /\ Steps

----------------------------------------------------------------------------
Step(p) == p \in Servers /\ server(p)

Next ==
  \/ \E s \in Servers : server(s) \/ sigdelete(s)
  \/ \E c \in Clients : client(c)
  \/ \E p \in Actors : Kill(p)

----------------------------------------------------------------------------
(* Properties                                                              *)

Holds(p) == at[p] \in {"enter", "print", "post"}

\* A segment has one owner at a time, whoever is killed, and whoever came before its
\* semaphores had values, unless two servers have initialised it.
Exclusive ==
  \A p, q \in Actors :
    Holds(p) /\ Holds(q) /\ Segment(p) = Segment(q) /\ os.inits[Segment(p)] < 2 => p = q

\* Every message that was announced is taken, as long as a server of its segment runs,
\* unless two have initialised it, or its only server has wiped out a message: that of a
\* client which came between its two calls of sem_init.
Settled ==
  \A s \in Servers :
    Up(s) /\ Segment(s) # "none" /\ os.inits[Segment(s)] < 2 /\ ~os.wiped[Segment(s)]
      => got[Segment(s)] = sent[Segment(s)]

\* The assertion of a server's exit fails only after another has removed the name.
AbortsExplained ==
  \A s \in Servers : at[s] = "aborted" => \E t \in Servers \ {s} : at[t] = "ended"
=============================================================================
