---------------------------- MODULE MCSemaphores -----------------------------
(* The programs of code_l7 on semaphores other than shared_posix.c, one at a *)
(* time: `program` says which one runs, the others stay as they start.       *)
(* shared_sysv.c with two clients and a server, and a range of two messages  *)
(* for the kernel's sums, so that both ends of it are reached; the menus     *)
(* with two servers and two clients, so that two semaphores are in use and   *)
(* each runs out.                                                            *)
EXTENDS SharedSysv

CONSTANTS MenuServers, MenuClients

ASSUME MCSemaphoresAssumption ==
  /\ MenuServers \cap MenuClients = {} /\ NoLine \notin MenuServers
  /\ IsFiniteSet(MenuServers) /\ IsFiniteSet(MenuClients)

VARIABLES program,
  pFound, pSem, pId, pSemheld, pPc, pEnd,   \* sema_posix.c
  vFound, vSem, vId, vSemheld, vPc, vEnd    \* sema_sysv.c

pVars == <<pFound, pSem, pId, pSemheld, pPc, pEnd>>
vVars == <<vFound, vSem, vId, vSemheld, vPc, vEnd>>

Posix == INSTANCE SemaPosix WITH Servers <- MenuServers, Clients <- MenuClients, None <- NoLine,
  found <- pFound, sem <- pSem, id <- pId, semheld <- pSemheld, pc <- pPc, end <- pEnd

Sysv == INSTANCE SemaSysv WITH Servers <- MenuServers, Clients <- MenuClients, None <- NoLine,
  found <- vFound, sem <- vSem, id <- vId, semheld <- vSemheld, pc <- vPc, end <- vEnd

all == <<program, vars, pVars, vVars>>

Running(p) ==
  /\ program = p /\ program' = program
  /\ p # "shared_sysv" => UNCHANGED vars
  /\ p # "sema_posix" => UNCHANGED pVars
  /\ p # "sema_sysv" => UNCHANGED vVars

MCInit ==
  /\ program \in {"shared_sysv", "sema_posix", "sema_sysv"}
  /\ Init /\ Posix!Init /\ Sysv!Init

MCNext ==
  \/ Running("shared_sysv") /\ Next
  \/ Running("sema_posix") /\ Posix!Next
  \/ Running("sema_sysv") /\ Sysv!Next

\* The fairness of SharedSysv; the menus wait for their users.
MCSpec ==
  /\ MCInit /\ [][MCNext]_all
  /\ WF_all(Running("shared_sysv") /\ (ServerWait \/ ServerPrint \/ ServerPost))
  /\ \A p \in Procs : WF_all(Running("shared_sysv") /\ Abort(p))

\* Both menus: each semaphore is a pool, of two resources in sema_posix.c, of one in
\* sema_sysv.c, whoever removes it, exits or is killed (request, release, try).
MenusArePools == Posix!PosixPool /\ Sysv!SysvPool

\* sema_posix.c: a new semaphore takes a removal.
SemaphoresCounted == Posix!SemaphoresCounted

\* sema_sysv.c: assertions fail in clients whose server has removed the semaphore.
AbortsAfterRemoval == Sysv!AbortsAfterRemoval
=============================================================================
