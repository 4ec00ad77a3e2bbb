----------------------------- MODULE ThreadTurns -----------------------------
(***************************************************************************)
(* lecture_examples/code_l9/code_l9/thread_cond_array.c: main hands the    *)
(* turn to one thread after the other, from the last created to the first, *)
(* through a mutex and a condition variable.  The thread whose turn it is  *)
(* stores the next random number where main said.  A random number is its  *)
(* place in the generator's sequence.                                      *)
(***************************************************************************)
EXTENDS ThreadMain

CONSTANT MaxSpurious   \* bound on a thread's wake-ups nobody asked for

Mama == -2       \* main as the owner of the mutex
Nobody == -3     \* thd_id after memset

Init ==
  /\ Created
  /\ mem = [mutex |-> Free, thd_id |-> Nobody, id |-> 0,
            global_seed |-> 0, array |-> [t \in Threads |-> 0], sum |-> 0]
  /\ local = [t \in Threads |-> 0]   \* wake-ups nobody asked for, so far

----------------------------------------------------------------------------
(* thread_routine                                                          *)

\* pthread_mutex_lock, or the second half of pthread_cond_wait.
Lock(t) ==
  /\ From(t, "start", "turn") \/ From(t, "woken", "turn")
  /\ mem.mutex = Free /\ mem' = [mem EXCEPT !.mutex = t] /\ UNCHANGED <<mama, local>>

\* pthread_cond_wait gives the mutex back and waits, in one step.
Wait(t) ==
  /\ mem.thd_id # t /\ From(t, "turn", "waiting")
  /\ mem' = [mem EXCEPT !.mutex = Free] /\ UNCHANGED <<mama, local>>

StoreNumber(t) ==
  /\ From(t, "turn", "unlock")
  /\ LET number == mem.global_seed + 1
     IN  mem' = [mem EXCEPT !.global_seed = number, !.array[mem.id] = number, !.sum = @ + number]
  /\ UNCHANGED <<mama, local>>

\* Mutant: after a wake-up the turn is not looked at again.
StoreOnceWoken(t) == (mem.thd_id = t \/ mem.thd_id # Nobody) /\ StoreNumber(t)

Store(t) == mem.thd_id = t /\ StoreNumber(t)

Unlock(t) ==
  /\ From(t, "unlock", "ended") /\ mem' = [mem EXCEPT !.mutex = Free] /\ UNCHANGED <<mama, local>>

\* POSIX lets pthread_cond_wait return without a broadcast.
Spurious(t) ==
  /\ local[t] < MaxSpurious /\ From(t, "waiting", "woken")
  /\ local' = [local EXCEPT ![t] = @ + 1] /\ UNCHANGED <<mama, mem>>

thread_routine(t) == Lock(t) \/ Wait(t) \/ Store(t) \/ Unlock(t)

----------------------------------------------------------------------------
(* main                                                                    *)

MamaAt(at, to) == mama.at = at /\ mama' = [mama EXCEPT !.at = to]

CreateAll ==
  /\ mama.at = "create" /\ From(mama.i, "none", "start")
  /\ mama' = IF mama.i = MAXTHREADS - 1 THEN [mama EXCEPT !.at = "lock"] ELSE [mama EXCEPT !.i = @ + 1]
  /\ UNCHANGED <<mem, local>>

MamaLock ==
  /\ MamaAt("lock", "assign") /\ mem.mutex = Free
  /\ mem' = [mem EXCEPT !.mutex = Mama] /\ UNCHANGED <<pc, local>>

Assign ==
  /\ MamaAt("assign", "broadcast")
  /\ mem' = [mem EXCEPT !.id = mama.i, !.thd_id = mama.i] /\ UNCHANGED <<pc, local>>

\* Mutant: pthread_cond_signal, which wakes one thread of its choice.
Signal ==
  /\ MamaAt("broadcast", "unlock") /\ UNCHANGED <<mem, local>>
  /\ LET waiting == {t \in Threads : pc[t] = "waiting"}
     IN  IF waiting = {} THEN pc' = pc ELSE \E t \in waiting : pc' = [pc EXCEPT ![t] = "woken"]

Broadcast ==
  /\ MamaAt("broadcast", "unlock") /\ UNCHANGED <<mem, local>>
  /\ pc' = [t \in Threads |-> IF pc[t] = "waiting" THEN "woken" ELSE pc[t]]

MamaUnlock ==
  /\ MamaAt("unlock", "join") /\ mem' = [mem EXCEPT !.mutex = Free] /\ UNCHANGED <<pc, local>>

\* pthread_join; then the thread created before it.
JoinTurn ==
  /\ mama.at = "join" /\ pc[mama.i] = "ended"
  /\ mama' = IF mama.i = 0 THEN [mama EXCEPT !.at = "over"] ELSE [at |-> "lock", i |-> mama.i - 1]
  /\ UNCHANGED <<pc, mem, local>>

main == CreateAll \/ MamaLock \/ Assign \/ Broadcast \/ MamaUnlock \/ JoinTurn

Next == main \/ \E t \in Threads : thread_routine(t) \/ Spurious(t)

----------------------------------------------------------------------------
(* Properties                                                              *)

\* Each thread stores at its own position, and only after those created later: the
\* array fills from its end with the numbers in the order they were drawn, whatever
\* the scheduler and the wake-ups do; main's sum is theirs, 1 + ... + MAXTHREADS (the
\* loop on thd_id, and the join before the next turn).
TurnsKept ==
  /\ \A t \in Threads :
       IF pc[t] \in {"unlock", "ended"} THEN mem.array[t] = MAXTHREADS - t ELSE mem.array[t] = 0
  /\ mama.at = "over" => 2 * mem.sum = MAXTHREADS * (MAXTHREADS + 1)
=============================================================================
