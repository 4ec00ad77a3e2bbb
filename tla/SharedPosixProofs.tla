------------------------- MODULE SharedPosixProofs --------------------------
(***************************************************************************)
(* For every set of clients and messages: the buffer of SharedPosix has    *)
(* one owner at a time, and the program implements the safety part of      *)
(* Mailbox.                                                                *)
(*                                                                         *)
(* The argument follows one token.  It is in sem_empty, or with a client,  *)
(* or in sem_full, or with the server; a kill destroys it and nothing ever *)
(* makes a second one.                                                     *)
(***************************************************************************)
EXTENDS SharedPosix, TLAPS

\* The token is in one semaphore at most.
OneToken ==
  /\ sem_empty \in {0, 1} /\ sem_full \in {0, 1}
  /\ sem_empty = 0 \/ sem_full = 0

\* While it is in a semaphore nobody holds it.
FreeToken == sem_empty = 1 \/ sem_full = 1 => ~ServerHolds /\ \A c \in Clients : ~Holds(c)

\* It is somewhere.
Alive == sem_empty = 1 \/ sem_full = 1 \/ ServerHolds \/ \E c \in Clients : Holds(c)

\* On its way to the server, it stands for the one message posted and not printed.
Unprinted == sem_full = 1 \/ server = "print" => posted = Append(printed, buffer)

\* On its way back and with a client, all that was posted is printed.
AllPrinted ==
  sem_empty = 1 \/ server = "post" \/ (\E c \in Clients : Holds(c)) => posted = printed

\* Nobody was killed while he filled the buffer, as that destroyed the token.
Whole == Alive => buffer # Torn

Inv == /\ TypeOK /\ OneToken /\ FreeToken /\ BufferExclusive
       /\ Unprinted /\ AllPrinted /\ Whole /\ NeverTorn /\ NeverStuck

\* The first state has the token in sem_empty.
LEMMA InvInit == Init => Inv
  BY SharedPosixAssumption
     DEF Init, Inv, TypeOK, OneToken, FreeToken, BufferExclusive, Unprinted, AllPrinted, Whole,
         Alive, NeverTorn, NeverStuck, Holds, ServerHolds, Lines

\* Each step moves the token, destroys it, or leaves it where it is.
LEMMA InvStep == Inv /\ [Next]_vars => Inv'
<1> SUFFICES ASSUME Inv, [Next]_vars PROVE Inv'
  OBVIOUS
<1> USE DEF Inv, TypeOK, OneToken, FreeToken, BufferExclusive, Unprinted, AllPrinted, Whole,
            Alive, NeverTorn, NeverStuck, Holds, ServerHolds
<1>1. CASE ServerWait
  BY <1>1 DEF ServerWait
<1>2. CASE ServerPrint
  BY <1>2 DEF ServerPrint
<1>3. CASE ServerPost
  BY <1>3 DEF ServerPost
<1>4. CASE ServerStop
  BY <1>4 DEF ServerStop
<1>5. ASSUME NEW c \in Clients, Choose(c) PROVE Inv'
  BY <1>5 DEF Choose
<1>6. ASSUME NEW c \in Clients, Leave(c) PROVE Inv'
  BY <1>6 DEF Leave
<1>7. ASSUME NEW c \in Clients, ClientWait(c) PROVE Inv'
  BY <1>7 DEF ClientWait
<1>8. ASSUME NEW c \in Clients, Enter(c) PROVE Inv'
  BY <1>8, SharedPosixAssumption DEF Enter, Lines
<1>9. ASSUME NEW c \in Clients, ClientPost(c) PROVE Inv'
  BY <1>9 DEF ClientPost
<1>10. ASSUME NEW c \in Clients, Kill(c) PROVE Inv'
  BY <1>10, SharedPosixAssumption DEF Kill, Lines
<1>11. CASE UNCHANGED vars
  BY <1>11 DEF vars
<1> QED BY <1>1, <1>2, <1>3, <1>4, <1>5, <1>6, <1>7, <1>8, <1>9, <1>10, <1>11
           DEF Next, Server, Client

----------------------------------------------------------------------------
(* Theorems                                                                *)

\* The token argument holds in every reachable state.
THEOREM Invariance == Spec => []Inv
  BY InvInit, InvStep, PTL DEF Spec

\* The semaphores never go below zero, and all variables keep their types.
THEOREM TypeCorrect == Spec => []TypeOK
<1>1. Inv => TypeOK
  BY DEF Inv
<1> QED BY <1>1, Invariance, PTL

\* However many clients there are and wherever they are killed, the shared buffer
\* has one owner at a time.
THEOREM Exclusion == Spec => []BufferExclusive
<1>1. Inv => BufferExclusive
  BY DEF Inv
<1> QED BY <1>1, Invariance, PTL

\* What a killed client left half written is never printed.
THEOREM NoTornLine == Spec => []NeverTorn
<1>1. Inv => NeverTorn
  BY DEF Inv
<1> QED BY <1>1, Invariance, PTL

\* Without kills and with a server, nobody waits for a post that cannot come.
THEOREM NoDeadWait == Spec => []NeverStuck
<1>1. Inv => NeverStuck
  BY DEF Inv
<1> QED BY <1>1, Invariance, PTL

\* The program implements the one-slot mailbox, as far as safety goes: the client's
\* sem_post posts, the server's printf prints, and nothing else changes the two lists.
THEOREM ImplementsMailbox == Spec => Mail!SafeSpec
<1>1. Init => Mail!Init
  BY DEF Init, Mail!Init
<1>2. Inv /\ [Next]_vars => [Mail!Next]_(Mail!vars)
  <2> SUFFICES ASSUME Inv, [Next]_vars PROVE [Mail!Next]_(Mail!vars)
    OBVIOUS
  <2> USE DEF Mail!vars
  <2>1. CASE ServerWait
    BY <2>1 DEF ServerWait
  <2>2. CASE ServerPrint
    <3>1. posted = Append(printed, buffer) /\ printed \in Seq(Lines) /\ buffer \in Lines
      BY <2>2 DEF ServerPrint, Inv, Unprinted, TypeOK
    <3>2. Len(printed) < Len(posted) /\ posted[Len(posted)] = buffer
      BY <3>1
    <3>3. Mail!PrintMessage
      BY <2>2, <3>2 DEF ServerPrint, Mail!PrintMessage
    <3> QED BY <3>3 DEF Mail!Next
  <2>3. CASE ServerPost
    BY <2>3 DEF ServerPost
  <2>4. CASE ServerStop
    BY <2>4 DEF ServerStop, Mail!Next, Mail!Stop
  <2>5. ASSUME NEW c \in Clients, Choose(c) \/ Leave(c) \/ ClientWait(c) \/ Enter(c) \/ Kill(c)
        PROVE  UNCHANGED <<posted, printed, server>>
    BY <2>5 DEF Choose, Leave, ClientWait, Enter, Kill
  <2>6. ASSUME NEW c \in Clients, ClientPost(c)
        PROVE  Mail!Post
    <3>1. posted = printed /\ buffer \in Lines
      BY <2>6 DEF ClientPost, Inv, AllPrinted, Holds, TypeOK
    <3> QED BY <2>6, <3>1 DEF ClientPost, Mail!Post
  <2>7. CASE UNCHANGED vars
    BY <2>7 DEF vars
  <2> QED BY <2>1, <2>2, <2>3, <2>4, <2>5, <2>6, <2>7 DEF Next, Server, Client, Mail!Next
<1> QED BY <1>1, <1>2, Invariance, PTL DEF Spec, Mail!SafeSpec
=============================================================================
