---------------------------- MODULE MessageQueues ----------------------------
(***************************************************************************)
(* The two pairs of programs on message queues in lecture_examples/code_l7: *)
(* msend_posix.c with mreceive_posix.c, and msend_sysv.c with              *)
(* mreceive_sysv.c.  A sender sends the message of its command line; a     *)
(* receiver prints messages for ever, or (System V) until an empty one     *)
(* comes, on which it removes the queue, whoever else uses it.             *)
(*                                                                         *)
(* The text of a message is its sender.  A number stands for its length:   *)
(* System V: 0 empty, n fits when msize has been doubled n - 1 times;      *)
(* POSIX: 0 less than four characters, else 1 (and at most 124: mq_send    *)
(* refuses a longer one, and the sender's assertion fails).                *)
(***************************************************************************)
EXTENDS CourseProgram, SequencesExt

CONSTANTS
  Senders, Receivers,
  Lengths,      \* the lengths of messages
  Priorities,   \* prio, of the POSIX senders
  MAX_MSG,      \* so many messages fit into a queue
  Old           \* what a receiver's new mess holds

Programs == {"mq", "msg"}   \* POSIX and System V
Actors == Senders \cup Receivers
Over == {"ended", "aborted"}

Init ==
  /\ program \in Programs /\ at = [p \in Actors |-> "start"]
  /\ os = [queue |-> <<>>,                  \* the messages of the queue
           exists |-> FALSE, number |-> 0]  \* whether there is one, and which
  /\ local = [id |-> [p \in Actors |-> 0],  \* the queue each has opened
              msize |-> [r \in Receivers |-> 1], mtext |-> [r \in Receivers |-> Old]]
  /\ sent = IF program = "mq" THEN [queue |-> <<>>] ELSE [r \in Receivers |-> <<>>]
  /\ got = [r \in Receivers |-> <<>>]

Open(p) == os.exists /\ local.id[p] = os.number
OpenQueue(p, number) == local' = [local EXCEPT !.id[p] = number]

\* mq_open or msgget, with the flag that creates a queue where there is none.
Create(r) ==
  /\ Go(r, "start", "receive")
  /\ os' = IF os.exists THEN os ELSE [queue |-> <<>>, exists |-> TRUE, number |-> os.number + 1]
  /\ OpenQueue(r, os'.number) /\ UNCHANGED <<program, sent, got>>

\* mq_open or msgget without it: a POSIX sender gives up in silence, a System V one fails
\* its assertion.
Find(s) ==
  /\ Go(s, "start", IF os.exists THEN "send" ELSE IF program = "mq" THEN "ended" ELSE "aborted")
  /\ OpenQueue(s, IF os.exists THEN os.number ELSE 0) /\ UNCHANGED <<program, os, sent, got>>

----------------------------------------------------------------------------
(* msend_posix.c, mreceive_posix.c                                         *)

\* Where mq_send puts a message: before the first of a lower priority, or at the end.
Behind(m) ==
  Min({j \in 1 .. Len(os.queue) + 1 : j = Len(os.queue) + 1 \/ os.queue[j].prio < m.prio})

\* mq_send waits while the queue is full.
mq_send(s) ==
  /\ Go(s, "send", "ended") /\ Len(os.queue) < MAX_MSG
  /\ \E prio \in Priorities, length \in Lengths \cap {0, 1} :
       LET m == [text |-> s, length |-> length, prio |-> prio]
       IN  /\ os' = [os EXCEPT !.queue = InsertAt(@, Behind(m), m)]
           /\ sent' = [sent EXCEPT !.queue = Append(@, m)]
  /\ UNCHANGED <<program, local, got>>

\* The sender counts 4 bytes for the type, which takes 8: the receiver gets the text
\* without its last four characters, and where it had less, none: it prints the text
\* that mess still holds.
mq_receive(r) ==
  /\ Go(r, "receive", "receive") /\ os.queue # <<>>
  /\ LET m == Head(os.queue)
         text == IF m.length = 0 THEN local.mtext[r] ELSE m.text
     IN  /\ local' = [local EXCEPT !.mtext[r] = text]
         /\ got' = [got EXCEPT ![r] = Append(@, [message |-> m, text |-> text])]
  /\ os' = [os EXCEPT !.queue = Tail(@)] /\ UNCHANGED <<program, sent>>

----------------------------------------------------------------------------
(* msend_sysv.c, mreceive_sysv.c                                           *)

\* msgsnd waits while the queue is full; it fails when the queue has been removed.
msgsnd(s) ==
  \/ /\ Go(s, "send", "ended") /\ Open(s) /\ Len(os.queue) < MAX_MSG
     /\ \E r \in Receivers, length \in Lengths :
          LET m == [text |-> s, length |-> length, to |-> r]
          IN  os' = [os EXCEPT !.queue = Append(@, m)] /\ sent' = [sent EXCEPT ![r] = Append(@, m)]
     /\ UNCHANGED <<program, local, got>>
  \/ Go(s, "send", "aborted") /\ ~Open(s) /\ UNCHANGED <<program, os, local, sent, got>>

\* msgrcv takes the first message of this process: E2BIG leaves it there, for a bigger
\* mess.  It fails when the queue has been removed.
msgrcv(r) ==
  \/ /\ at[r] = "receive" /\ Open(r)
     /\ \E j \in DOMAIN os.queue :
          LET m == os.queue[j]
          IN  /\ m.to = r /\ \A i \in 1 .. j - 1 : os.queue[i].to # r
              /\ IF m.length > local.msize[r]
                 THEN /\ local' = [local EXCEPT !.msize[r] = @ + 1] /\ UNCHANGED <<at, os, got>>
                 ELSE /\ Go(r, "receive", IF m.length = 0 THEN "remove" ELSE "receive")
                      /\ os' = [os EXCEPT !.queue = RemoveAt(@, j)]
                      /\ got' = [got EXCEPT ![r] = Append(@, m)] /\ UNCHANGED local
     /\ UNCHANGED <<program, sent>>
  \/ Go(r, "receive", "aborted") /\ ~Open(r) /\ UNCHANGED <<program, os, local, sent, got>>

\* IPC_RMID, after the loop.
msgctl(r) ==
  /\ at[r] = "remove"
  /\ IF Open(r)
     THEN /\ Go(r, "remove", "ended") /\ os' = [os EXCEPT !.queue = <<>>, !.exists = FALSE]
     ELSE Go(r, "remove", "aborted") /\ UNCHANGED os
  /\ UNCHANGED <<program, local, sent, got>>

----------------------------------------------------------------------------
msend_posix(s) == Find(s) \/ mq_send(s)
mreceive_posix(r) == Create(r) \/ mq_receive(r)
msend_sysv(s) == Find(s) \/ msgsnd(s)
mreceive_sysv(r) == Create(r) \/ msgrcv(r) \/ msgctl(r)

Step(p) ==
  IF p \in Senders THEN (program = "mq" /\ msend_posix(p)) \/ (program = "msg" /\ msend_sysv(p))
  ELSE (program = "mq" /\ mreceive_posix(p)) \/ (program = "msg" /\ mreceive_sysv(p))

Next == \E p \in Actors : Step(p)

----------------------------------------------------------------------------
(* Properties                                                              *)

Removals == {r \in Receivers : program = "msg" /\ at[r] = "ended"}

\* System V: each receiver gets its own messages, in the order they were sent, and all up
\* to the last it has got, unless the queue was removed before it came.  POSIX: each
\* message goes to one receiver, once, and one receiver gets those of one priority in
\* the order they were sent; what it prints is a text it was sent, if not always this one.
InOrder ==
  IF program = "msg"
  THEN Removals = {} => \A r \in Receivers : IsPrefix(got[r], sent[r])
  ELSE /\ \A r, q \in Receivers : \A i \in DOMAIN got[r], j \in DOMAIN got[q] :
            got[r][i].message = got[q][j].message => r = q /\ i = j
       /\ \A r \in Receivers : \A j \in DOMAIN got[r] : \A i \in 1 .. j - 1 :
            LET first == got[r][i].message
                second == got[r][j].message
            IN  first.prio = second.prio =>
                  \E m, n \in DOMAIN sent.queue : m < n /\ sent.queue[m] = first /\ sent.queue[n] = second
       /\ \A r \in Receivers : \A j \in DOMAIN got[r] :
            got[r][j].text \in {Old} \cup {got[r][i].message.text : i \in 1 .. j}

\* Every message is received, unless (System V) its receiver is over; and no sender
\* waits, unless the queue is full of messages to such receivers.
Settled ==
  IF program = "mq" THEN os.queue = <<>> /\ \A s \in Senders : at[s] \in Over
  ELSE /\ \A j \in DOMAIN os.queue : at[os.queue[j].to] \in Over
       /\ \A s \in Senders : at[s] \in Over \/ (at[s] = "send" /\ Len(os.queue) = MAX_MSG)

\* An assertion fails in a sender that finds no queue, or loses it, and in a receiver
\* that loses it: to another receiver, which got an empty message.
AbortsExplained ==
  \A p \in Actors : at[p] = "aborted" =>
    /\ program = "msg"
    /\ \/ p \in Senders /\ local.id[p] = 0
       \/ \E r \in Removals \ {p} : local.id[r] = local.id[p] /\ Last(got[r]).length = 0
=============================================================================
