--------------------------- MODULE SharedPosixNames --------------------------
(***************************************************************************)
(* How the three names of lecture_examples/code_l7/code_l7/shared_posix.c  *)
(* come and go: two semaphores and a shared memory segment, created by the *)
(* first server that opens them, taken over by the next, unlinked by a     *)
(* server that exits, left behind by one that is killed.  A process that   *)
(* has opened an object keeps it when its name is unlinked.                *)
(*                                                                         *)
(* An object is known by the server that created it.  What a line says is  *)
(* left out: see SharedPosix for the mailbox once all have the same three. *)
(***************************************************************************)
EXTENDS Naturals, Sequences

CONSTANTS
  Servers,   \* server processes, each of which runs once
  Clients,   \* client processes, likewise
  None       \* no object

ASSUME SharedPosixNamesAssumption == Servers \cap Clients = {} /\ None \notin Servers

Procs == Servers \cup Clients

\* "posixshared.c" and "posixshared" among the semaphores, "posixshared" of shm_open;
\* in the order a server's delete unlinks them.
Names == <<"empty", "full", "shm">>
Sems == {"empty", "full"}
NameSet == Sems \cup {"shm"}

VARIABLES
  names,     \* the object each name leads to, or None
  sem,       \* the values of the semaphore objects
  has,       \* the objects each process has opened
  pc,        \* of a server: "empty", "full", "arm", "shm" (what it does next), "wait", "print",
             \* "post", "delete"; of a client: "shm", "empty", "full", "menu", "wait", "enter",
             \* "post"; "off" before its start; "exited", "killed", "aborted"
  deleted,   \* how many names a server's delete has unlinked
  mixed,     \* history: two processes have had one object in common, and not all three
  company    \* history: the servers that have not run alone

vars == <<names, sem, has, pc, deleted, mixed, company>>

Init ==
  /\ names = [n \in NameSet |-> None] /\ sem = [s \in Sems |-> [o \in Servers |-> 0]]
  /\ has = [p \in Procs |-> [n \in NameSet |-> None]]
  /\ pc = [p \in Procs |-> "off"] /\ deleted = [s \in Servers |-> 0]
  /\ mixed = FALSE /\ company = {}

Over == {"exited", "killed", "aborted"}
Up(s) == pc[s] \notin Over \cup {"off"}

From(p, at, to) == pc[p] = at /\ pc' = [pc EXCEPT ![p] = to]

Attached(h) == \A n \in NameSet : h[n] # None

Common(g, h) == {n \in NameSet : g[n] = h[n]}

\* p has the object o for the name n.
Opened(p, n, o) ==
  /\ has' = [has EXCEPT ![p][n] = o]
  /\ mixed' = (mixed \/ \E q \in Procs : /\ Attached(has'[p]) /\ Attached(has[q])
                                         /\ Common(has'[p], has[q]) \notin {{}, NameSet})

----------------------------------------------------------------------------
(* A server: its start                                                     *)

Start(s) ==
  /\ From(s, "off", "empty")
  /\ LET others == {t \in Servers \ {s} : Up(t)}
     IN  company' = company \cup others \cup (IF others = {} THEN {} ELSE {s})
  /\ UNCHANGED <<names, sem, has, deleted, mixed>>

\* O_CREAT without O_EXCL: the object the name leads to, or a new one.
OpenOrCreate(s, n) ==
  LET o == IF names[n] = None THEN s ELSE names[n]
  IN  names' = [names EXCEPT ![n] = o] /\ Opened(s, n, o)

\* Mutant: the value is set although the semaphore exists.
sem_open_sets(s, n, value) ==
  /\ OpenOrCreate(s, n) /\ sem' = [sem EXCEPT ![n][names'[n]] = value]
  /\ UNCHANGED <<deleted, company>>

\* sem_open(n, O_CREAT, 0777, value).
sem_open(s, n, value) ==
  /\ OpenOrCreate(s, n)
  /\ sem' = IF names[n] = None THEN [sem EXCEPT ![n][s] = value] ELSE sem
  /\ UNCHANGED <<deleted, company>>

OpenEmpty(s) == From(s, "empty", "full") /\ sem_open(s, "empty", 1)

OpenFull(s) == From(s, "full", "arm") /\ sem_open(s, "full", 0)

\* atexit and sigaction.
Arm(s) == From(s, "arm", "shm") /\ UNCHANGED <<names, sem, has, deleted, mixed, company>>

OpenShm(s) ==
  /\ From(s, "shm", "wait") /\ OpenOrCreate(s, "shm") /\ UNCHANGED <<sem, deleted, company>>

----------------------------------------------------------------------------
(* The two loops                                                           *)

sem_wait(p, n) ==
  /\ sem[n][has[p][n]] > 0 /\ sem' = [sem EXCEPT ![n][has[p][n]] = @ - 1]
  /\ UNCHANGED <<names, has, deleted, mixed, company>>

sem_post(p, n) ==
  /\ sem' = [sem EXCEPT ![n][has[p][n]] = @ + 1]
  /\ UNCHANGED <<names, has, deleted, mixed, company>>

Local == UNCHANGED <<names, sem, has, deleted, mixed, company>>

Serve(s) ==
  \/ From(s, "wait", "print") /\ sem_wait(s, "full")
  \/ From(s, "print", "post") /\ Local
  \/ From(s, "post", "wait") /\ sem_post(s, "empty")

Use(c) ==
  \/ From(c, "menu", "wait") /\ Local
  \/ From(c, "menu", "exited") /\ Local
  \/ From(c, "wait", "enter") /\ sem_wait(c, "empty")
  \/ From(c, "enter", "post") /\ Local
  \/ From(c, "post", "menu") /\ sem_post(c, "full")

----------------------------------------------------------------------------
(* A server: its end                                                       *)

\* SIGINT once the handler is there; before that it kills.
sigdelete(s) ==
  /\ pc[s] \in {"shm", "wait", "print", "post"} /\ pc' = [pc EXCEPT ![s] = "delete"]
  /\ Local

\* Mutant: atexit has registered delete twice.
deleteTwice(s) ==
  /\ pc[s] = "delete"
  /\ LET n == Names[deleted[s] + 1]
     IN  IF names[n] = None
         THEN /\ pc' = [pc EXCEPT ![s] = "aborted"] /\ UNCHANGED <<names, deleted>>
         ELSE /\ names' = [names EXCEPT ![n] = None]
              /\ deleted' = [deleted EXCEPT ![s] = IF @ = 2 THEN 0 ELSE @ + 1]
              /\ pc' = pc
  /\ UNCHANGED <<sem, has, mixed, company>>

\* One assertion of delete: the name was there, and is gone.
delete(s) ==
  /\ pc[s] = "delete"
  /\ LET n == Names[deleted[s] + 1]
     IN  IF names[n] = None
         THEN /\ pc' = [pc EXCEPT ![s] = "aborted"] /\ UNCHANGED <<names, deleted>>
         ELSE /\ names' = [names EXCEPT ![n] = None]
              /\ deleted' = [deleted EXCEPT ![s] = @ + 1]
              /\ pc' = IF deleted[s] = 2 THEN [pc EXCEPT ![s] = "exited"] ELSE pc
  /\ UNCHANGED <<sem, has, mixed, company>>

server(s) ==
  Start(s) \/ OpenEmpty(s) \/ OpenFull(s) \/ Arm(s) \/ OpenShm(s) \/ Serve(s) \/ sigdelete(s) \/ delete(s)

----------------------------------------------------------------------------
(* A client: its start                                                     *)

\* The object must be there: an assertion says so.
Find(c, n, at, to) ==
  /\ pc[c] = at
  /\ IF names[n] = None
     THEN pc' = [pc EXCEPT ![c] = "aborted"] /\ UNCHANGED <<has, mixed>>
     ELSE pc' = [pc EXCEPT ![c] = to] /\ Opened(c, n, names[n])
  /\ UNCHANGED <<names, sem, deleted, company>>

client(c) ==
  \/ From(c, "off", "shm") /\ Local
  \/ Find(c, "shm", "shm", "empty") \/ Find(c, "empty", "empty", "full") \/ Find(c, "full", "full", "menu")
  \/ Use(c)

Kill(p) == pc[p] \notin Over \cup {"off"} /\ pc' = [pc EXCEPT ![p] = "killed"] /\ Local

Next ==
  \/ \E s \in Servers : server(s)
  \/ \E c \in Clients : client(c)
  \/ \E p \in Procs : Kill(p)

Spec == Init /\ [][Next]_vars

----------------------------------------------------------------------------
(* Properties                                                              *)

Holds(p) == pc[p] \in {"enter", "print", "post"}

\* One owner at a time for each segment, whatever servers are started one after the
\* other or at once, taking over what killed ones left: sem_open sets a value only
\* when it creates.  Only processes that share some objects and not others break this,
\* and it takes a delete, finished or not, for them to come about.
ExclusiveUnlessMixed ==
  IF mixed THEN \E s \in Servers : deleted[s] > 0
  ELSE \A p, q \in Procs : Holds(p) /\ Holds(q) /\ has[p]["shm"] = has[q]["shm"] => p = q

\* An exit whose assertions fail had the company of another server, or was interrupted
\* before its shm_open; a client's start fails only when no server is in its loop, or
\* one that had company.
AbortsExplained ==
  [][\A p \in Procs : pc'[p] = "aborted" /\ pc[p] # "aborted" =>
       IF p \in Servers THEN p \in company \/ has[p]["shm"] = None
       ELSE \A s \in Servers : pc[s] \in {"wait", "print", "post"} => s \in company]_vars
=============================================================================
