------------------------------ MODULE RecordLock -----------------------------
(***************************************************************************)
(* lecture_examples/L5/lock.c: processes that lock one file for reading,   *)
(* let it go, lock it for writing, and end.  Each waits for its user while *)
(* it has a lock, and when the kernel has refused one.                     *)
(***************************************************************************)
EXTENDS CourseProgram

CONSTANTS
  Lockers,    \* the processes
  Refusals    \* so often the kernel refuses a lock (ENOLCK)

Programs == {"lock"}
Actors == Lockers
Over == {"ended", "killed"}

Init ==
  /\ program \in Programs /\ at = [p \in Lockers |-> "read lock"]
  /\ os = [lock |-> [p \in Lockers |-> "none"], refusals |-> 0]
  /\ local = [conflict |-> [p \in Lockers |-> FALSE]]   \* whether F_GETLK has found a lock
  /\ sent = <<>> /\ got = <<>>

Conflict(p, type) ==
  \E q \in Lockers \ {p} : os.lock[q] = "write" \/ (type = "write" /\ os.lock[q] = "read")

\* F_SETLKW waits for the lock; refused, getlock asks who has it.
setlkw(p, type, from, to) ==
  \/ /\ Go(p, from, to) /\ ~Conflict(p, type) /\ ~local.conflict[p]
     /\ os' = [os EXCEPT !.lock[p] = type] /\ UNCHANGED <<program, local, sent, got>>
  \/ /\ at[p] = from /\ os.refusals < Refusals /\ ~local.conflict[p]
     /\ os' = [os EXCEPT !.refusals = @ + 1]
     /\ local' = [local EXCEPT !.conflict[p] = Conflict(p, type)]
     /\ UNCHANGED <<program, at, sent, got>>

\* Mutant: a refusal ends the loop.
getlockOnce(p, type, from, to) ==
  \/ setlkw(p, type, from, to)
  \/ Go(p, from, to) /\ local.conflict[p] /\ local' = [local EXCEPT !.conflict[p] = FALSE]
     /\ UNCHANGED <<program, os, sent, got>>

\* The loop: with a conflict it waits for the user, and tries again.
getlock(p, type, from, to) ==
  \/ setlkw(p, type, from, to)
  \/ at[p] = from /\ local.conflict[p] /\ local' = [local EXCEPT !.conflict[p] = FALSE]
     /\ UNCHANGED <<program, at, os, sent, got>>

unlock(p, from, to) ==
  /\ Go(p, from, to) /\ os' = [os EXCEPT !.lock[p] = "none"] /\ UNCHANGED <<program, local, sent, got>>

main(p) ==
  \/ getlock(p, "read", "read lock", "reading")
  \/ unlock(p, "reading", "write lock")
  \/ getlock(p, "write", "write lock", "writing")
  \/ unlock(p, "writing", "ended")   \* as its file is closed

Kill(p) == at[p] \notin Over /\ unlock(p, at[p], "killed")

Step(p) == main(p)

Next == \E p \in Lockers : main(p) \/ Kill(p)

----------------------------------------------------------------------------
(* Properties                                                              *)

\* A process that says it has the write lock is alone with it, whatever the kernel refused.
Exclusive ==
  \A p, q \in Lockers : at[p] = "writing" /\ at[q] \in {"reading", "writing"} => p = q

\* No process waits for ever, as none holds a lock while it waits for another (which the
\* kernel would refuse with EDEADLK): all end.
Settled == \A p \in Lockers : at[p] \in Over
=============================================================================
