----------------------------- MODULE ThreadProofs -----------------------------
(* What the programs of MCThreads promise, for any number of threads:        *)
(* thread_cond_array.c keeps its turns, thread_array.c and                   *)
(* thread_array_nomutex.c count everybody, and the writers of                *)
(* thread_rwlock_array.c are alone and never seen half-way.                  *)
EXTENDS MCThreads, FiniteSets, FiniteSetTheorems, TLAPS

(* Main                                                                    *)

Mains == [at : {"create", "join", "over"}, i : Threads]

\* Main has joined the threads before the one it waits for.
Joined ==
  /\ mama.at = "join" => \A t \in Threads : t < mama.i => pc[t] = "ended"
  /\ mama.at = "over" => \A t \in Threads : pc[t] = "ended"

LEMMA ThreadsFinite ==
  /\ IsFiniteSet(Threads) /\ Cardinality(Threads) = MAXTHREADS /\ 0 \in Threads
  /\ \A S \in SUBSET Threads : IsFiniteSet(S) /\ Cardinality(S) \in Nat /\ Cardinality(S) <= MAXTHREADS
<1>1. IsFiniteSet(0 .. MAXTHREADS - 1) /\ Cardinality(0 .. MAXTHREADS - 1) = MAXTHREADS
  <2>1. 0 \in Int /\ MAXTHREADS - 1 \in Int /\ ~(0 > MAXTHREADS - 1) BY ThreadMainAssumption
  <2>2. (MAXTHREADS - 1) - 0 + 1 = MAXTHREADS BY ThreadMainAssumption
  <2> QED BY <2>1, <2>2, FS_Interval
<1>2. 0 \in Threads
  BY ThreadMainAssumption DEF Threads
<1>3. IsFiniteSet(Threads) /\ Cardinality(Threads) = MAXTHREADS
  BY <1>1 DEF Threads
<1> QED BY <1>2, <1>3, FS_Subset, FS_CardinalityType

LEMMA MainFirst == [at |-> "create", i |-> 0] \in Mains
BY ThreadsFinite DEF Mains

\* A step of a thread that has not ended.
LEMMA StillJoined ==
  ASSUME Joined, mama' = mama, \A t \in Threads : pc[t] = "ended" => pc'[t] = "ended"
  PROVE  Joined'
BY DEF Joined

\* Main creates the threads and waits for them, one after the other.
LEMMA MainSteps ==
  ASSUME mama \in Mains, Joined, MamaCreate \/ MamaJoin \/ UNCHANGED vars, NEW Places, pc \in [Threads -> Places]
  PROVE  /\ mama' \in Mains /\ Joined' /\ mem' = mem /\ local' = local
         /\ \A t \in Threads : pc'[t] = pc[t] \/ (pc[t] = "none" /\ pc'[t] = "start")
<1> USE ThreadMainAssumption DEF Threads
<1>1. mama.i \in Threads /\ mama.at \in {"create", "join", "over"}
  BY DEF Mains
<1>2. CASE MamaCreate
  <2>1. mama.at = "create" /\ pc[mama.i] = "none" /\ pc' = [pc EXCEPT ![mama.i] = "start"]
        /\ mem' = mem /\ local' = local
    BY <1>2 DEF MamaCreate, From
  <2>2. \A t \in Threads : pc'[t] = pc[t] \/ (pc[t] = "none" /\ pc'[t] = "start")
    BY <1>1, <2>1
  <2>3. \/ mama' = [at |-> "join", i |-> 0]
        \/ mama.i + 1 \in Threads /\ mama' = [mama EXCEPT !.i = mama.i + 1]
    BY <1>1, <1>2 DEF MamaCreate
  <2>4. mama' \in Mains /\ ((mama'.at = "join" /\ mama'.i = 0) \/ mama'.at = "create")
    BY <2>1, <2>3 DEF Mains
  <2>5. Joined' BY <2>4 DEF Joined
  <2> QED BY <2>1, <2>2, <2>4, <2>5
<1>3. CASE MamaJoin
  <2>1. mama.at = "join" /\ pc[mama.i] = "ended" /\ pc' = pc /\ mem' = mem /\ local' = local
    BY <1>3 DEF MamaJoin
  <2>2. \/ mama.i = MAXTHREADS - 1 /\ mama' = [mama EXCEPT !.at = "over"]
        \/ mama.i + 1 \in Threads /\ mama' = [mama EXCEPT !.i = mama.i + 1]
    BY <1>1, <1>3 DEF MamaJoin
  <2>3. mama' \in Mains /\ ((mama.i = MAXTHREADS - 1 /\ mama'.at = "over")
                           \/ (mama'.at = "join" /\ mama'.i = mama.i + 1))
    BY <2>1, <2>2 DEF Mains
  <2>4. \A t \in Threads : t < mama.i + 1 => pc[t] = "ended"
    <3>1. \A t \in Threads : t < mama.i + 1 => t < mama.i \/ t = mama.i BY <1>1
    <3> QED BY <2>1, <3>1 DEF Joined
  <2>5. Joined' BY <1>1, <2>1, <2>3, <2>4 DEF Joined
  <2> QED BY <2>1, <2>3, <2>5
<1>4. CASE UNCHANGED vars
  BY <1>4 DEF vars, Joined
<1> QED BY <1>2, <1>3, <1>4

LEMMA MainPlaces ==
  ASSUME MamaCreate \/ MamaJoin \/ UNCHANGED vars, NEW Places, pc \in [Threads -> Places], "start" \in Places
  PROVE  pc' \in [Threads -> Places]
BY DEF MamaCreate, MamaJoin, From, vars

----------------------------------------------------------------------------
(* thread_cond_array.c                                                     *)

\* The types of the variables.
TurnsPlaces == {"none", "start", "turn", "waiting", "woken", "unlock", "ended"}
TurnsAts == {"create", "lock", "assign", "broadcast", "unlock", "join", "over"}
TurnsMains == [at : TurnsAts, i : Turns!Threads]
TurnsMemory ==
  [mutex : Int, thd_id : Int, id : Turns!Threads, global_seed : Nat, array : [Turns!Threads -> Nat], sum : Nat]

TurnsTyped == pc \in [Turns!Threads -> TurnsPlaces] /\ mama \in TurnsMains /\ mem \in TurnsMemory

Done(t) == pc[t] \in {"unlock", "ended"}

\* Who is done, and whose turn it is, at each place of main.
TurnsGiven ==
  /\ mama.at = "create" => mem.thd_id = Turns!Nobody /\ \A t \in Turns!Threads : ~Done(t)
  /\ mama.at \in {"lock", "assign"} =>
       /\ mem.thd_id = Turns!Nobody \/ mem.thd_id > mama.i
       /\ \A t \in Turns!Threads : Done(t) <=> t > mama.i
  /\ mama.at \in {"broadcast", "unlock", "join"} =>
       /\ mem.thd_id = mama.i /\ mem.id = mama.i
       /\ \A t \in Turns!Threads \ {mama.i} : Done(t) <=> t > mama.i
  /\ mama.at = "over" => \A t \in Turns!Threads : Done(t)

\* So many numbers have been drawn ...
TurnsDrawn ==
  mem.global_seed =
    CASE mama.at = "create" -> 0
      [] mama.at \in {"lock", "assign"} -> MAXTHREADS - 1 - mama.i
      [] mama.at = "over" -> MAXTHREADS
      [] OTHER -> IF Done(mama.i) THEN MAXTHREADS - mama.i ELSE MAXTHREADS - 1 - mama.i

\* ... and are in the array, and in its sum.
TurnsStored ==
  /\ \A t \in Turns!Threads : mem.array[t] = IF Done(t) THEN MAXTHREADS - t ELSE 0
  /\ 2 * mem.sum = mem.global_seed * (mem.global_seed + 1)

TurnsInv == TurnsTyped /\ TurnsGiven /\ TurnsDrawn /\ TurnsStored

\* What the steps assign to the mutex, and to main's place, has the right type.
LEMMA TurnsMutexTyped ==
  ASSUME mem \in TurnsMemory, NEW owner \in Int
  PROVE  /\ [mem EXCEPT !.mutex = owner] \in TurnsMemory
         /\ \A f \in {"thd_id", "id", "global_seed", "array", "sum"} :
              [mem EXCEPT !.mutex = owner][f] = mem[f]
BY DEF TurnsMemory

LEMMA TurnsMainTyped ==
  ASSUME mama \in TurnsMains, NEW to \in TurnsAts
  PROVE  /\ [mama EXCEPT !.at = to] \in TurnsMains
         /\ [mama EXCEPT !.at = to].at = to /\ [mama EXCEPT !.at = to].i = mama.i
BY DEF TurnsMains

LEMMA TurnsArrayTyped ==
  ASSUME NEW array \in [Turns!Threads -> Nat], NEW t, NEW n \in Nat
  PROVE  [array EXCEPT ![t] = n] \in [Turns!Threads -> Nat]
OBVIOUS

LEMMA TurnsPlaceTyped ==
  ASSUME pc \in [Turns!Threads -> TurnsPlaces], NEW t \in Turns!Threads, NEW to \in TurnsPlaces
  PROVE  [pc EXCEPT ![t] = to] \in [Turns!Threads -> TurnsPlaces]
OBVIOUS

LEMMA TurnsTypedKept == TurnsTyped /\ [Turns!Next]_vars => TurnsTyped'
<1> USE ThreadMainAssumption DEF Turns!Threads
<1> SUFFICES ASSUME TurnsTyped, [Turns!Next]_vars PROVE TurnsTyped'
  OBVIOUS
<1>1. ASSUME NEW t \in Turns!Threads, NEW from, NEW to \in TurnsPlaces, Turns!From(t, from, to)
      PROVE  pc' \in [Turns!Threads -> TurnsPlaces]
  BY <1>1, TurnsPlaceTyped DEF Turns!From, TurnsTyped
<1>2. ASSUME NEW owner \in Int, mem' = [mem EXCEPT !.mutex = owner] PROVE mem' \in TurnsMemory
  BY <1>2, TurnsMutexTyped DEF TurnsTyped
<1>3. ASSUME NEW from, NEW to \in TurnsAts, Turns!MamaAt(from, to) PROVE mama' \in TurnsMains
  BY <1>3, TurnsMainTyped DEF Turns!MamaAt, TurnsTyped
<1>4. ASSUME NEW t \in Turns!Threads, Turns!Lock(t) \/ Turns!Wait(t) \/ Turns!Unlock(t) PROVE TurnsTyped'
  <2>1. pc' \in [Turns!Threads -> TurnsPlaces] BY <1>4, <1>1 DEF Turns!Lock, Turns!Wait, Turns!Unlock, TurnsPlaces
  <2>2. t \in Int /\ Turns!Free \in Int BY DEF Turns!Free
  <2>3. \/ mem' = [mem EXCEPT !.mutex = t]
        \/ mem' = [mem EXCEPT !.mutex = Turns!Free]
    BY <1>4 DEF Turns!Lock, Turns!Wait, Turns!Unlock
  <2>4. mem' \in TurnsMemory BY <1>2, <2>2, <2>3
  <2> QED BY <1>4, <2>1, <2>4 DEF Turns!Lock, Turns!Wait, Turns!Unlock, TurnsTyped
<1>5. ASSUME NEW t \in Turns!Threads, Turns!Store(t) PROVE TurnsTyped'
  <2>1. pc' \in [Turns!Threads -> TurnsPlaces] BY <1>5, <1>1 DEF Turns!Store, Turns!StoreNumber, TurnsPlaces
  <2>2. mem.array \in [Turns!Threads -> Nat] /\ mem.global_seed \in Nat /\ mem.sum \in Nat
    BY DEF TurnsTyped, TurnsMemory
  <2>3. mem.global_seed + 1 \in Nat /\ mem.sum + (mem.global_seed + 1) \in Nat
    BY <2>2
  <2>4. mem' = [mem EXCEPT !.global_seed = mem.global_seed + 1,
                           !.array = [mem.array EXCEPT ![mem.id] = mem.global_seed + 1],
                           !.sum = mem.sum + (mem.global_seed + 1)]
    BY <1>5 DEF Turns!Store, Turns!StoreNumber
  <2>5. [mem.array EXCEPT ![mem.id] = mem.global_seed + 1] \in [Turns!Threads -> Nat]
    BY <2>2, <2>3, TurnsArrayTyped
  <2>6. mem' \in TurnsMemory BY <2>3, <2>4, <2>5 DEF TurnsTyped, TurnsMemory
  <2> QED BY <1>5, <2>1, <2>6 DEF Turns!Store, Turns!StoreNumber, TurnsTyped
<1>6. ASSUME NEW t \in Turns!Threads, Turns!Spurious(t) PROVE TurnsTyped'
  BY <1>6, <1>1 DEF Turns!Spurious, TurnsPlaces, TurnsTyped
<1>7. CASE Turns!CreateAll
  <2>1. mama.i \in Turns!Threads BY DEF TurnsTyped, TurnsMains
  <2>2. pc' \in [Turns!Threads -> TurnsPlaces] BY <1>7, <1>1, <2>1 DEF Turns!CreateAll, TurnsPlaces
  <2>3. mama' = [mama EXCEPT !.at = "lock"]
        \/ (mama.i + 1 \in Turns!Threads /\ mama' = [mama EXCEPT !.i = mama.i + 1])
    BY <1>7, <2>1 DEF Turns!CreateAll
  <2>4. mama' \in TurnsMains BY <2>3 DEF TurnsTyped, TurnsMains, TurnsAts
  <2> QED BY <1>7, <2>2, <2>4 DEF Turns!CreateAll, TurnsTyped
<1>8. CASE Turns!MamaLock
  <2>1. Turns!Mama \in Int BY DEF Turns!Mama
  <2>2. mem' \in TurnsMemory BY <1>8, <1>2, <2>1 DEF Turns!MamaLock
  <2>3. mama' \in TurnsMains BY <1>8, <1>3 DEF Turns!MamaLock, TurnsAts
  <2> QED BY <1>8, <2>2, <2>3 DEF Turns!MamaLock, TurnsTyped
<1>9. CASE Turns!Assign
  <2>1. mama.i \in Turns!Threads /\ mama.i \in Int BY DEF TurnsTyped, TurnsMains
  <2>2. mem' = [mem EXCEPT !.id = mama.i, !.thd_id = mama.i] BY <1>9 DEF Turns!Assign
  <2>3. mem' \in TurnsMemory BY <2>1, <2>2 DEF TurnsTyped, TurnsMemory
  <2>4. mama' \in TurnsMains BY <1>9, <1>3 DEF Turns!Assign, TurnsAts
  <2> QED BY <1>9, <2>3, <2>4 DEF Turns!Assign, TurnsTyped
<1>10. CASE Turns!Broadcast
  <2>1. pc' \in [Turns!Threads -> TurnsPlaces] BY <1>10 DEF Turns!Broadcast, TurnsTyped, TurnsPlaces
  <2>2. mama' \in TurnsMains BY <1>10, <1>3 DEF Turns!Broadcast, TurnsAts
  <2> QED BY <1>10, <2>1, <2>2 DEF Turns!Broadcast, TurnsTyped
<1>11. CASE Turns!MamaUnlock
  <2>1. Turns!Free \in Int BY DEF Turns!Free
  <2>2. mem' \in TurnsMemory BY <1>11, <1>2, <2>1 DEF Turns!MamaUnlock
  <2>3. mama' \in TurnsMains BY <1>11, <1>3 DEF Turns!MamaUnlock, TurnsAts
  <2> QED BY <1>11, <2>2, <2>3 DEF Turns!MamaUnlock, TurnsTyped
<1>12. CASE Turns!JoinTurn
  <2>1. mama' \in TurnsMains BY <1>12 DEF Turns!JoinTurn, TurnsTyped, TurnsMains, TurnsAts
  <2> QED BY <1>12, <2>1 DEF Turns!JoinTurn, TurnsTyped
<1>13. CASE UNCHANGED vars
  BY <1>13 DEF vars, TurnsTyped
<1> QED
  BY <1>4, <1>5, <1>6, <1>7, <1>8, <1>9, <1>10, <1>11, <1>12, <1>13 DEF Turns!Next, Turns!main, Turns!thread_routine

LEMMA Gauss ==
  ASSUME NEW s \in Nat, NEW k \in Nat, 2 * s = k * (k + 1)
  PROVE  2 * (s + (k + 1)) = (k + 1) * ((k + 1) + 1)
<1>1. (k + 1) * ((k + 1) + 1) = k * (k + 1) + 2 * k + 2
  OBVIOUS
<1> QED BY <1>1

LEMMA TurnsInitially == Turns!Init => TurnsInv
<1> USE ThreadMainAssumption DEF Turns!Threads
<1> SUFFICES ASSUME Turns!Init PROVE TurnsInv
  OBVIOUS
<1>1. TurnsTyped
  BY DEF Turns!Init, Turns!Created, TurnsTyped, TurnsPlaces, TurnsAts, TurnsMains, TurnsMemory, Turns!Free,
         Turns!Nobody
<1>2. TurnsGiven /\ TurnsDrawn /\ TurnsStored
  BY DEF Turns!Init, Turns!Created, TurnsGiven, TurnsDrawn, TurnsStored, Done
<1> QED BY <1>1, <1>2 DEF TurnsInv

\* A step that leaves main and its memory alone, but for the mutex, and nobody done who
\* was not, keeps the invariant.
LEMMA TurnsAside ==
  ASSUME TurnsInv, TurnsTyped', mama' = mama, \A t \in Turns!Threads : Done(t)' <=> Done(t),
         \A f \in {"thd_id", "id", "global_seed", "array", "sum"} : mem'[f] = mem[f]
  PROVE  TurnsInv'
<1>1. /\ mem'.thd_id = mem.thd_id /\ mem'.id = mem.id /\ mem'.global_seed = mem.global_seed
      /\ mem'.array = mem.array /\ mem'.sum = mem.sum
  OBVIOUS
<1>2. mama.i \in Turns!Threads
  BY DEF TurnsInv, TurnsTyped, TurnsPlaces, TurnsAts, TurnsMains, TurnsMemory
<1>3. TurnsGiven'
  BY <1>1, <1>2 DEF TurnsInv, TurnsGiven
<1>4. TurnsDrawn'
  BY <1>1, <1>2 DEF TurnsInv, TurnsDrawn
<1>5. TurnsStored'
  BY <1>1 DEF TurnsInv, TurnsStored
<1> QED BY <1>3, <1>4, <1>5 DEF TurnsInv

\* A thread that stores takes the turn main has given it.
LEMMA TurnsStores ==
  ASSUME TurnsInv, NEW t \in Turns!Threads, Turns!Store(t) PROVE TurnsInv'
<1> USE ThreadMainAssumption DEF Turns!Threads
<1>1. /\ pc[t] = "turn" /\ pc' = [pc EXCEPT ![t] = "unlock"] /\ mama' = mama /\ mem.thd_id = t
      /\ mem' = [mem EXCEPT !.global_seed = mem.global_seed + 1, !.array[mem.id] = mem.global_seed + 1,
                            !.sum = mem.sum + (mem.global_seed + 1)]
  BY DEF Turns!Store, Turns!StoreNumber, Turns!From
<1>2. ~Done(t)
  BY <1>1 DEF Done
<1>3. mama.at \in {"broadcast", "unlock", "join"} /\ t = mama.i /\ mem.id = t
  BY <1>1, <1>2 DEF TurnsInv, TurnsTyped, TurnsPlaces, TurnsAts, TurnsMains, TurnsMemory, TurnsGiven, Turns!Nobody
<1>4. Done(t)' /\ \A u \in Turns!Threads \ {t} : Done(u)' <=> Done(u)
  BY <1>1 DEF TurnsInv, TurnsTyped, TurnsPlaces, TurnsAts, TurnsMains, TurnsMemory, Done
<1>5. mem.global_seed = MAXTHREADS - 1 - t
  BY <1>2, <1>3 DEF TurnsInv, TurnsDrawn
<1>6. TurnsTyped'
  BY TurnsTypedKept DEF TurnsInv, Turns!Next, Turns!thread_routine
<1>7. TurnsGiven'
  BY <1>1, <1>3, <1>4 DEF TurnsInv, TurnsGiven, TurnsTyped, TurnsPlaces, TurnsAts, TurnsMains, TurnsMemory
<1>8. mem'.global_seed = MAXTHREADS - t /\ mem'.sum = mem.sum + (mem.global_seed + 1)
      /\ mem'.global_seed = mem.global_seed + 1
  BY <1>1, <1>5 DEF TurnsInv, TurnsTyped, TurnsPlaces, TurnsAts, TurnsMains, TurnsMemory
<1>9. TurnsDrawn'
  BY <1>1, <1>3, <1>4, <1>8 DEF TurnsDrawn
<1>10. \A u \in Turns!Threads : mem'.array[u] = IF u = t THEN MAXTHREADS - t ELSE mem.array[u]
  BY <1>1, <1>3, <1>5 DEF TurnsInv, TurnsTyped, TurnsPlaces, TurnsAts, TurnsMains, TurnsMemory
<1>11. 2 * mem'.sum = mem'.global_seed * (mem'.global_seed + 1)
  <2>1. mem.sum \in Nat /\ mem.global_seed \in Nat
        /\ 2 * mem.sum = mem.global_seed * (mem.global_seed + 1)
    BY DEF TurnsInv, TurnsTyped, TurnsPlaces, TurnsAts, TurnsMains, TurnsMemory, TurnsStored
  <2>2. 2 * (mem.sum + (mem.global_seed + 1)) = (mem.global_seed + 1) * ((mem.global_seed + 1) + 1)
    BY <2>1, Gauss
  <2> QED BY <1>8, <2>2
<1>12. TurnsStored'
  BY <1>4, <1>10, <1>11 DEF TurnsInv, TurnsStored
<1> QED BY <1>6, <1>7, <1>9, <1>12 DEF TurnsInv

LEMMA TurnsPreserved == TurnsInv /\ [Turns!Next]_vars => TurnsInv'
<1> USE ThreadMainAssumption DEF Turns!Threads
<1> SUFFICES ASSUME TurnsInv, [Turns!Next]_vars PROVE TurnsInv'
  OBVIOUS
<1>1. ASSUME NEW t \in Turns!Threads, Turns!Lock(t) PROVE TurnsInv'
  <2>1. TurnsTyped' BY TurnsTypedKept DEF TurnsInv
  <2>2. \A u \in Turns!Threads : Done(u)' <=> Done(u)
    BY <1>1 DEF Turns!Lock, Turns!From, TurnsInv, TurnsTyped, TurnsPlaces, TurnsAts, TurnsMains, TurnsMemory, Done
  <2> QED BY <1>1, <2>1, <2>2, TurnsAside DEF Turns!Lock, TurnsInv, TurnsTyped, TurnsPlaces, TurnsAts,
                                              TurnsMains, TurnsMemory
<1>2. ASSUME NEW t \in Turns!Threads, Turns!Wait(t) PROVE TurnsInv'
  <2>1. TurnsTyped' BY TurnsTypedKept DEF TurnsInv
  <2>2. \A u \in Turns!Threads : Done(u)' <=> Done(u)
    BY <1>2 DEF Turns!Wait, Turns!From, TurnsInv, TurnsTyped, TurnsPlaces, TurnsAts, TurnsMains, TurnsMemory, Done
  <2> QED BY <1>2, <2>1, <2>2, TurnsAside DEF Turns!Wait, TurnsInv, TurnsTyped, TurnsPlaces, TurnsAts,
                                              TurnsMains, TurnsMemory
<1>3. ASSUME NEW t \in Turns!Threads, Turns!Store(t) PROVE TurnsInv'
  BY <1>3, TurnsStores
<1>4. ASSUME NEW t \in Turns!Threads, Turns!Unlock(t) PROVE TurnsInv'
  <2>1. TurnsTyped' BY TurnsTypedKept DEF TurnsInv
  <2>2. \A u \in Turns!Threads : Done(u)' <=> Done(u)
    BY <1>4 DEF Turns!Unlock, Turns!From, TurnsInv, TurnsTyped, TurnsPlaces, TurnsAts, TurnsMains, TurnsMemory, Done
  <2> QED BY <1>4, <2>1, <2>2, TurnsAside DEF Turns!Unlock, TurnsInv, TurnsTyped, TurnsPlaces, TurnsAts,
                                              TurnsMains, TurnsMemory
<1>5. ASSUME NEW t \in Turns!Threads, Turns!Spurious(t) PROVE TurnsInv'
  <2>1. TurnsTyped' BY TurnsTypedKept DEF TurnsInv
  <2>2. \A u \in Turns!Threads : Done(u)' <=> Done(u)
    BY <1>5 DEF Turns!Spurious, Turns!From, TurnsInv, TurnsTyped, TurnsPlaces, TurnsAts, TurnsMains, TurnsMemory, Done
  <2> QED BY <1>5, <2>1, <2>2, TurnsAside DEF Turns!Spurious
<1>6. CASE Turns!CreateAll
  <2>1. mama.at = "create" /\ pc[mama.i] = "none" /\ pc' = [pc EXCEPT ![mama.i] = "start"] /\ mem' = mem
    BY <1>6 DEF Turns!CreateAll, Turns!From
  <2>2. TurnsTyped' BY TurnsTypedKept DEF TurnsInv
  <2>3. \A u \in Turns!Threads : Done(u)' <=> Done(u)
    BY <2>1 DEF TurnsInv, TurnsTyped, TurnsPlaces, TurnsAts, TurnsMains, TurnsMemory, Done
  <2>4. \A u \in Turns!Threads : ~Done(u) /\ ~Done(u)'
    BY <2>1, <2>3 DEF TurnsInv, TurnsGiven
  <2>5. TurnsGiven' BY <1>6, <2>1, <2>4 DEF Turns!CreateAll, TurnsInv, TurnsGiven, TurnsTyped, TurnsPlaces,
                                            TurnsAts, TurnsMains, TurnsMemory
  <2>6. TurnsDrawn' BY <1>6, <2>1, <2>4 DEF Turns!CreateAll, TurnsInv, TurnsDrawn, TurnsTyped, TurnsPlaces,
                                            TurnsAts, TurnsMains, TurnsMemory
  <2>7. TurnsStored' BY <2>1, <2>3 DEF TurnsInv, TurnsStored
  <2> QED BY <2>2, <2>5, <2>6, <2>7 DEF TurnsInv
<1>7. CASE Turns!MamaLock
  <2>1. TurnsTyped' BY TurnsTypedKept DEF TurnsInv
  <2>2. mama.at = "lock" /\ mama'.at = "assign" /\ mama'.i = mama.i /\ pc' = pc
        /\ mem'.thd_id = mem.thd_id /\ mem'.global_seed = mem.global_seed /\ mem'.array = mem.array
        /\ mem'.sum = mem.sum
    BY <1>7 DEF Turns!MamaLock, Turns!MamaAt, TurnsInv, TurnsTyped, TurnsPlaces, TurnsAts, TurnsMains, TurnsMemory
  <2>3. TurnsGiven' BY <2>2 DEF TurnsInv, TurnsGiven, Done
  <2>4. TurnsDrawn' BY <2>2 DEF TurnsInv, TurnsDrawn
  <2>5. TurnsStored' BY <2>2 DEF TurnsInv, TurnsStored, Done
  <2> QED BY <2>1, <2>3, <2>4, <2>5 DEF TurnsInv
<1>8. CASE Turns!Assign
  <2>1. TurnsTyped' BY TurnsTypedKept DEF TurnsInv
  <2>2. mama.at = "assign" /\ mama'.at = "broadcast" /\ mama'.i = mama.i /\ pc' = pc
        /\ mem'.thd_id = mama.i /\ mem'.id = mama.i /\ mem'.global_seed = mem.global_seed
        /\ mem'.array = mem.array /\ mem'.sum = mem.sum
    BY <1>8 DEF Turns!Assign, Turns!MamaAt, TurnsInv, TurnsTyped, TurnsPlaces, TurnsAts, TurnsMains, TurnsMemory
  <2>3. mama.i \in Turns!Threads /\ ~Done(mama.i) BY <2>2 DEF TurnsInv, TurnsTyped, TurnsPlaces, TurnsAts,
                                                              TurnsMains, TurnsMemory, TurnsGiven
  <2>4. TurnsGiven' BY <2>2 DEF TurnsInv, TurnsGiven, Done
  <2>5. TurnsDrawn' BY <2>2, <2>3 DEF TurnsInv, TurnsDrawn, Done
  <2>6. TurnsStored' BY <2>2 DEF TurnsInv, TurnsStored, Done
  <2> QED BY <2>1, <2>4, <2>5, <2>6 DEF TurnsInv
<1>9. ASSUME Turns!Broadcast \/ Turns!MamaUnlock PROVE TurnsInv'
  <2>1. TurnsTyped' BY TurnsTypedKept DEF TurnsInv
  <2>2. mama.at \in {"broadcast", "unlock"} /\ mama'.at \in {"unlock", "join"} /\ mama'.i = mama.i
        /\ mem'.thd_id = mem.thd_id /\ mem'.id = mem.id /\ mem'.global_seed = mem.global_seed
        /\ mem'.array = mem.array /\ mem'.sum = mem.sum
    BY <1>9 DEF Turns!Broadcast, Turns!MamaUnlock, Turns!MamaAt, TurnsInv, TurnsTyped, TurnsPlaces, TurnsAts,
                TurnsMains, TurnsMemory
  <2>3. \A u \in Turns!Threads : Done(u)' <=> Done(u)
    BY <1>9 DEF Turns!Broadcast, Turns!MamaUnlock, Done
  <2>4. mama.i \in Turns!Threads BY DEF TurnsInv, TurnsTyped, TurnsPlaces, TurnsAts, TurnsMains, TurnsMemory
  <2>5. TurnsGiven' BY <2>2, <2>3 DEF TurnsInv, TurnsGiven
  <2>6. TurnsDrawn' BY <2>2, <2>3, <2>4 DEF TurnsInv, TurnsDrawn
  <2>7. TurnsStored' BY <2>2, <2>3 DEF TurnsInv, TurnsStored
  <2> QED BY <2>1, <2>5, <2>6, <2>7 DEF TurnsInv
<1>10. CASE Turns!JoinTurn
  <2>1. TurnsTyped' BY TurnsTypedKept DEF TurnsInv
  <2>2. mama.at = "join" /\ pc' = pc /\ mem' = mem /\ mama.i \in Turns!Threads /\ Done(mama.i)
    BY <1>10 DEF Turns!JoinTurn, TurnsInv, TurnsTyped, TurnsPlaces, TurnsAts, TurnsMains, TurnsMemory, Done
  <2>3. \A u \in Turns!Threads : Done(u)' <=> Done(u)
    BY <2>2 DEF Done
  <2>4. TurnsStored' BY <2>2, <2>3 DEF TurnsInv, TurnsStored
  <2>5. CASE mama.i = 0
    <3>1. mama'.at = "over" BY <1>10, <2>5 DEF Turns!JoinTurn, TurnsInv, TurnsTyped, TurnsPlaces, TurnsAts,
                                               TurnsMains, TurnsMemory
    <3>2. TurnsGiven' BY <3>1, <2>2, <2>3, <2>5 DEF TurnsInv, TurnsGiven
    <3>3. TurnsDrawn' BY <3>1, <2>2, <2>3, <2>5 DEF TurnsInv, TurnsDrawn
    <3> QED BY <2>1, <2>4, <3>2, <3>3 DEF TurnsInv
  <2>6. CASE mama.i # 0
    <3>1. mama'.at = "lock" /\ mama'.i = mama.i - 1 BY <1>10, <2>6 DEF Turns!JoinTurn
    <3>2. TurnsGiven' BY <3>1, <2>2, <2>3, <2>6 DEF TurnsInv, TurnsGiven, TurnsTyped, TurnsPlaces, TurnsAts,
                                                    TurnsMains, TurnsMemory
    <3>3. TurnsDrawn' BY <3>1, <2>2, <2>3, <2>6 DEF TurnsInv, TurnsDrawn, TurnsTyped, TurnsPlaces, TurnsAts,
                                                    TurnsMains, TurnsMemory
    <3> QED BY <2>1, <2>4, <3>2, <3>3 DEF TurnsInv
  <2> QED BY <2>5, <2>6
<1>11. CASE UNCHANGED vars
  <2>1. TurnsTyped' /\ \A u \in Turns!Threads : Done(u)' <=> Done(u)
    BY <1>11 DEF vars, TurnsInv, TurnsTyped, TurnsPlaces, TurnsAts, TurnsMains, TurnsMemory, Done
  <2> QED BY <1>11, <2>1, TurnsAside DEF vars
<1> QED
  BY <1>1, <1>2, <1>3, <1>4, <1>5, <1>6, <1>7, <1>8, <1>9, <1>10, <1>11
  DEF Turns!Next, Turns!main, Turns!thread_routine

LEMMA TurnsHold == TurnsInv => Turns!TurnsKept
BY DEF TurnsInv, TurnsStored, TurnsDrawn, Turns!TurnsKept, Done, Turns!Threads

----------------------------------------------------------------------------
(* thread_array.c                                                          *)

Inside == {"draw", "keep", "store", "add", "next", "unlock"}
FillPlaces == {"none", "start", "ended"} \cup Inside
FillMemory == [mutex : Int, global_seed : Nat, id : Nat, array : [Threads -> Nat], sum : Nat]
FillTyped ==
  pc \in [Threads -> FillPlaces] /\ mama \in Mains /\ mem \in FillMemory /\ local \in [Threads -> Nat]

\* Who has the mutex.
FillAlone == \A t \in Threads : pc[t] \in Inside <=> mem.mutex = t

\* id threads have passed.
Through == {t \in Threads : pc[t] \in {"unlock", "ended"}}
FillPassed == mem.id = Cardinality(Through)

\* The first n positions hold the first n numbers.
Filled(n) == \A e \in Threads : mem.array[e] = IF e < n THEN e + 1 ELSE 0
\* The first n numbers are in the sum.
Summed(n) == 2 * mem.sum = n * (n + 1)

\* How far the thread inside has come, if there is one.
FillStep ==
  /\ (\A t \in Threads : pc[t] \notin {"store", "add", "next"}) =>
       mem.global_seed = mem.id /\ Filled(mem.id) /\ Summed(mem.id)
  /\ \A t \in Threads :
       /\ pc[t] = "keep" => local[t] = mem.global_seed + 1
       /\ pc[t] \in {"store", "add", "next"} => mem.global_seed = mem.id + 1
       /\ pc[t] = "store" => local[t] = mem.id /\ Filled(mem.id) /\ Summed(mem.id)
       /\ pc[t] = "add" => Filled(mem.id + 1) /\ Summed(mem.id)
       /\ pc[t] = "next" => Filled(mem.id + 1) /\ Summed(mem.id + 1)

FillInv == FillTyped /\ Joined /\ FillAlone /\ FillPassed /\ FillStep

LEMMA FillNext == Fill!Next => MamaCreate \/ MamaJoin \/ \E t \in Threads : Fill!thread_routine(t)
BY DEF Fill!Next, Fill!main, Fill!MamaCreate, MamaCreate, Fill!MamaJoin, MamaJoin, Fill!From, From, Fill!Threads,
       Threads

LEMMA FillInitially == Fill!Init => FillInv
<1> SUFFICES ASSUME Fill!Init PROVE FillInv
  OBVIOUS
<1>1. /\ pc = [t \in Threads |-> "none"] /\ mama = [at |-> "create", i |-> 0] /\ local = [t \in Threads |-> 0]
      /\ mem = [mutex |-> -1, global_seed |-> 0, id |-> 0, array |-> [t \in Threads |-> 0], sum |-> 0]
  BY DEF Fill!Init, Fill!Created, Fill!Threads, Threads, Fill!Free
<1>2. FillTyped /\ Joined
  <2>1. mem \in FillMemory BY <1>1 DEF FillMemory
  <2> QED BY <1>1, <2>1, MainFirst DEF FillTyped, FillPlaces, Joined
<1>3. FillAlone
  <2>1. \A t \in Threads : t # -1 BY ThreadMainAssumption DEF Threads
  <2> QED BY <1>1, <2>1 DEF FillAlone, Inside
<1>4. FillPassed
  <2>1. Through = {} BY <1>1 DEF Through
  <2> QED BY <1>1, <2>1, FS_EmptySet DEF FillPassed
<1>5. FillStep
  <2>1. Filled(0) /\ Summed(0)
    <3>1. \A e \in Threads : ~(e < 0) BY ThreadMainAssumption DEF Threads
    <3> QED BY <1>1, <3>1 DEF Filled, Summed
  <2> QED BY <1>1, <2>1 DEF FillStep
<1> QED BY <1>2, <1>3, <1>4, <1>5 DEF FillInv

\* What the step of the one thread inside, from a place to another, keeps by itself.
LEMMA FillMoves ==
  ASSUME FillInv, NEW t \in Threads, NEW to \in Inside, pc[t] \in Inside \ {"unlock"},
         pc' = [pc EXCEPT ![t] = to], mama' = mama, mem'.mutex = mem.mutex
  PROVE  /\ pc' \in [Threads -> FillPlaces] /\ pc'[t] = to /\ mama' \in Mains /\ Joined' /\ FillAlone'
         /\ \A u \in Threads \ {t} : pc'[u] = pc[u] /\ pc[u] \notin Inside
         /\ Through' = IF to = "unlock" THEN Through \cup {t} ELSE Through
         /\ Cardinality(Through') = IF to = "unlock" THEN mem.id + 1 ELSE mem.id
<1>1. /\ pc' \in [Threads -> FillPlaces] /\ pc'[t] = to /\ mama' \in Mains
      /\ \A u \in Threads \ {t} : pc'[u] = pc[u]
  BY DEF FillInv, FillTyped, FillPlaces
<1>2. mem.mutex = t /\ \A u \in Threads \ {t} : pc[u] \notin Inside
  BY DEF FillInv, FillAlone
<1>3. Joined'
  BY <1>1, StillJoined DEF FillInv, Inside
<1>4. FillAlone'
  BY <1>1 DEF FillInv, FillAlone
<1>5. Through' = IF to = "unlock" THEN Through \cup {t} ELSE Through
  BY <1>1 DEF Through, Inside
<1>6. t \notin Through /\ IsFiniteSet(Through)
  BY ThreadsFinite DEF Through, Inside
<1>7. Cardinality(Through \cup {t}) = Cardinality(Through) + 1
  BY <1>6, FS_AddElement
<1> QED BY <1>1, <1>2, <1>3, <1>4, <1>5, <1>7 DEF FillInv, FillPassed

LEMMA FillPreserved == FillInv /\ [Fill!Next]_vars => FillInv'
<1> SUFFICES ASSUME FillInv, [Fill!Next]_vars PROVE FillInv'
  OBVIOUS
<1>0. /\ mem \in FillMemory /\ mem.mutex \in Int /\ mem.global_seed \in Nat /\ mem.id \in Nat /\ mem.sum \in Nat
      /\ mem.array \in [Threads -> Nat]
      /\ \A t \in Threads : local[t] \in Nat /\ pc[t] \in FillPlaces /\ t \in Nat /\ t # -1
  BY ThreadMainAssumption DEF FillInv, FillTyped, FillMemory, Threads
<1>1. ASSUME NEW t \in Threads, Fill!Lock(t) PROVE FillInv'
  <2>1. /\ pc[t] = "start" /\ pc' = [pc EXCEPT ![t] = "draw"] /\ mem.mutex = -1
        /\ mem' = [mem EXCEPT !.mutex = t] /\ UNCHANGED <<mama, local>>
    BY <1>1 DEF Fill!Lock, Fill!From, Fill!Free
  <2>2. /\ mem' \in FillMemory /\ mem'.mutex = t /\ mem'.global_seed = mem.global_seed /\ mem'.id = mem.id
        /\ mem'.sum = mem.sum /\ mem'.array = mem.array
    <3>1. t \in Int BY <1>0
    <3> QED BY <1>0, <2>1, <3>1 DEF FillMemory
  <2>3. pc' \in [Threads -> FillPlaces] /\ pc'[t] = "draw" /\ \A u \in Threads \ {t} : pc'[u] = pc[u]
    BY <2>1 DEF FillInv, FillTyped, FillPlaces, Inside
  <2>4. FillTyped' BY <2>1, <2>2, <2>3 DEF FillInv, FillTyped
  <2>5. Joined' BY <2>1, <2>3, StillJoined DEF FillInv
  <2>6. \A u \in Threads : pc[u] \notin Inside BY <1>0, <2>1 DEF FillInv, FillAlone
  <2>7. FillAlone' BY <2>2, <2>3, <2>6 DEF FillAlone, Inside
  <2>8. FillPassed'
    <3>1. Through' = Through BY <2>1, <2>3 DEF Through
    <3> QED BY <2>2, <3>1 DEF FillInv, FillPassed
  <2>9. FillStep'
    <3>1. \A u \in Threads : pc'[u] \notin Inside \ {"draw"} BY <2>3, <2>6
    <3>2. mem.global_seed = mem.id /\ Filled(mem.id) /\ Summed(mem.id) BY <2>6 DEF FillInv, FillStep, Inside
    <3>3. Filled(mem.id)' /\ Summed(mem.id)' BY <2>2, <3>2 DEF Filled, Summed
    <3> QED BY <2>2, <3>1, <3>2, <3>3 DEF FillStep, Inside
  <2> QED BY <2>4, <2>5, <2>7, <2>8, <2>9 DEF FillInv
<1>2. ASSUME NEW t \in Threads, Fill!Draw(t) PROVE FillInv'
  <2>1. /\ pc[t] = "draw" /\ pc' = [pc EXCEPT ![t] = "keep"] /\ local' = [local EXCEPT ![t] = mem.global_seed + 1]
        /\ UNCHANGED <<mama, mem>>
    BY <1>2 DEF Fill!Draw, Fill!From
  <2>2. /\ pc' \in [Threads -> FillPlaces] /\ pc'[t] = "keep" /\ mama' \in Mains /\ Joined' /\ FillAlone'
        /\ \A u \in Threads \ {t} : pc'[u] = pc[u] /\ pc[u] \notin Inside
        /\ Through' = Through
    BY <2>1, FillMoves DEF Inside
  <2>3. local' \in [Threads -> Nat] /\ local'[t] = mem.global_seed + 1
    <3>1. mem.global_seed + 1 \in Nat BY <1>0
    <3> QED BY <2>1, <3>1 DEF FillInv, FillTyped
  <2>4. FillTyped' BY <2>1, <2>2, <2>3 DEF FillInv, FillTyped
  <2>5. FillPassed' BY <2>1, <2>2 DEF FillInv, FillPassed
  <2>6. FillStep'
    <3>1. \A u \in Threads : pc'[u] \notin Inside \ {"keep"} /\ (pc'[u] = "keep" => u = t) BY <2>2 DEF Inside
    <3>2. mem.global_seed = mem.id /\ Filled(mem.id) /\ Summed(mem.id)
      BY <2>1, <2>2 DEF FillInv, FillStep, Inside
    <3>3. Filled(mem.id)' /\ Summed(mem.id)' BY <2>1, <3>2 DEF Filled, Summed
    <3> QED BY <2>1, <2>3, <3>1, <3>2, <3>3 DEF FillStep, Inside
  <2> QED BY <2>2, <2>4, <2>5, <2>6 DEF FillInv
<1>3. ASSUME NEW t \in Threads, Fill!Keep(t) PROVE FillInv'
  <2>1. /\ pc[t] = "keep" /\ pc' = [pc EXCEPT ![t] = "store"] /\ mem' = [mem EXCEPT !.global_seed = local[t]]
        /\ local' = [local EXCEPT ![t] = mem.id] /\ mama' = mama
    BY <1>3 DEF Fill!Keep, Fill!From
  <2>2. /\ mem' \in FillMemory /\ mem'.mutex = mem.mutex /\ mem'.global_seed = local[t] /\ mem'.id = mem.id
        /\ mem'.sum = mem.sum /\ mem'.array = mem.array
    BY <1>0, <2>1 DEF FillMemory
  <2>3. /\ pc' \in [Threads -> FillPlaces] /\ pc'[t] = "store" /\ mama' \in Mains /\ Joined' /\ FillAlone'
        /\ \A u \in Threads \ {t} : pc'[u] = pc[u] /\ pc[u] \notin Inside
        /\ Through' = Through
    BY <2>1, <2>2, FillMoves DEF Inside
  <2>4. local' \in [Threads -> Nat] /\ local'[t] = mem.id BY <1>0, <2>1 DEF FillInv, FillTyped
  <2>5. FillTyped' BY <2>2, <2>3, <2>4 DEF FillTyped
  <2>6. FillPassed' BY <2>2, <2>3 DEF FillInv, FillPassed
  <2>7. FillStep'
    <3>1. \A u \in Threads : pc'[u] \notin Inside \ {"store"} /\ (pc'[u] = "store" => u = t) BY <2>3 DEF Inside
    <3>2. mem.global_seed = mem.id /\ Filled(mem.id) /\ Summed(mem.id) /\ local[t] = mem.global_seed + 1
      BY <2>1, <2>3 DEF FillInv, FillStep, Inside
    <3>3. Filled(mem.id)' /\ Summed(mem.id)' BY <2>2, <3>2 DEF Filled, Summed
    <3> QED BY <2>2, <2>3, <2>4, <3>1, <3>2, <3>3 DEF FillStep, Inside
  <2> QED BY <2>3, <2>5, <2>6, <2>7 DEF FillInv
<1>4. ASSUME NEW t \in Threads, Fill!Store(t) PROVE FillInv'
  <2>1. /\ pc[t] = "store" /\ pc' = [pc EXCEPT ![t] = "add"]
        /\ mem' = [mem EXCEPT !.array[local[t]] = mem.global_seed] /\ UNCHANGED <<mama, local>>
    BY <1>4 DEF Fill!Store, Fill!From
  <2>2. mem.global_seed = mem.id + 1 /\ local[t] = mem.id /\ Filled(mem.id) /\ Summed(mem.id)
    BY <2>1 DEF FillInv, FillStep
  <2> DEFINE array == [mem.array EXCEPT ![mem.id] = mem.id + 1]
  <2>3. mem' = [mem EXCEPT !.array = array] BY <2>1, <2>2
  <2>4. array \in [Threads -> Nat] /\ \A e \in Threads : array[e] = IF e = mem.id THEN mem.id + 1 ELSE mem.array[e]
    <3>1. mem.id + 1 \in Nat BY <1>0
    <3> QED BY <1>0, <3>1
  <2> HIDE DEF array
  <2>5. /\ mem' \in FillMemory /\ mem'.mutex = mem.mutex /\ mem'.global_seed = mem.global_seed /\ mem'.id = mem.id
        /\ mem'.sum = mem.sum /\ mem'.array = array
    BY <1>0, <2>3, <2>4 DEF FillMemory
  <2>6. /\ pc' \in [Threads -> FillPlaces] /\ pc'[t] = "add" /\ mama' \in Mains /\ Joined' /\ FillAlone'
        /\ \A u \in Threads \ {t} : pc'[u] = pc[u] /\ pc[u] \notin Inside
        /\ Through' = Through
    BY <2>1, <2>5, FillMoves DEF Inside
  <2>7. FillTyped' BY <2>1, <2>5, <2>6 DEF FillInv, FillTyped
  <2>8. FillPassed' BY <2>5, <2>6 DEF FillInv, FillPassed
  <2>9. Filled(mem.id + 1)' /\ Summed(mem.id)'
    <3>1. Summed(mem.id)' BY <2>2, <2>5 DEF Summed
    <3>2. ASSUME NEW e \in Threads PROVE array[e] = IF e < mem.id + 1 THEN e + 1 ELSE 0
      <4>1. e < mem.id + 1 <=> e < mem.id \/ e = mem.id BY <1>0
      <4> QED BY <2>2, <2>4, <4>1 DEF Filled
    <3>3. \A e \in Threads : mem'.array[e] = IF e < mem'.id + 1 THEN e + 1 ELSE 0 BY <2>5, <3>2
    <3> QED BY <3>1, <3>3 DEF Filled
  <2>10. FillStep'
    <3>1. \A u \in Threads : pc'[u] \notin Inside \ {"add"} /\ (pc'[u] = "add" => u = t) BY <2>6 DEF Inside
    <3> QED BY <2>2, <2>5, <2>6, <2>9, <3>1 DEF FillStep, Inside
  <2> QED BY <2>6, <2>7, <2>8, <2>10 DEF FillInv
<1>5. ASSUME NEW t \in Threads, Fill!Add(t) PROVE FillInv'
  <2> DEFINE s == mem.sum + mem.global_seed
  <2>1. pc[t] = "add" /\ pc' = [pc EXCEPT ![t] = "next"] /\ mem' = [mem EXCEPT !.sum = s] /\ UNCHANGED <<mama, local>>
    BY <1>5 DEF Fill!Add, Fill!From
  <2>2. mem.global_seed = mem.id + 1 /\ Filled(mem.id + 1) /\ Summed(mem.id)
    BY <2>1 DEF FillInv, FillStep
  <2>3. s \in Nat /\ s = mem.sum + (mem.id + 1) BY <1>0, <2>2
  <2> HIDE DEF s
  <2>4. /\ mem' \in FillMemory /\ mem'.mutex = mem.mutex /\ mem'.global_seed = mem.global_seed /\ mem'.id = mem.id
        /\ mem'.sum = s /\ mem'.array = mem.array
    BY <1>0, <2>1, <2>3 DEF FillMemory
  <2>5. /\ pc' \in [Threads -> FillPlaces] /\ pc'[t] = "next" /\ mama' \in Mains /\ Joined' /\ FillAlone'
        /\ \A u \in Threads \ {t} : pc'[u] = pc[u] /\ pc[u] \notin Inside
        /\ Through' = Through
    BY <2>1, <2>4, FillMoves DEF Inside
  <2>6. FillTyped' BY <2>1, <2>4, <2>5 DEF FillInv, FillTyped
  <2>7. FillPassed' BY <2>4, <2>5 DEF FillInv, FillPassed
  <2>8. Filled(mem.id + 1)' BY <2>2, <2>4 DEF Filled
  <2>9. Summed(mem.id + 1)'
    <3>1. 2 * (mem.sum + (mem.id + 1)) = (mem.id + 1) * ((mem.id + 1) + 1) BY <1>0, <2>2, Gauss DEF Summed
    <3> QED BY <2>3, <2>4, <3>1 DEF Summed
  <2>10. FillStep'
    <3>1. \A u \in Threads : pc'[u] \notin Inside \ {"next"} /\ (pc'[u] = "next" => u = t) BY <2>5 DEF Inside
    <3> QED BY <2>2, <2>4, <2>5, <2>8, <2>9, <3>1 DEF FillStep, Inside
  <2> QED BY <2>5, <2>6, <2>7, <2>10 DEF FillInv
<1>6. ASSUME NEW t \in Threads, Fill!NextId(t) PROVE FillInv'
  <2> DEFINE n == mem.id + 1
  <2>1. pc[t] = "next" /\ pc' = [pc EXCEPT ![t] = "unlock"] /\ mem' = [mem EXCEPT !.id = n]
        /\ UNCHANGED <<mama, local>>
    BY <1>6 DEF Fill!NextId, Fill!From
  <2>2. mem.global_seed = n /\ Filled(n) /\ Summed(n)
    BY <2>1 DEF FillInv, FillStep
  <2>3. n \in Nat /\ n = mem.id + 1 BY <1>0
  <2> HIDE DEF n
  <2>4. /\ mem' \in FillMemory /\ mem'.mutex = mem.mutex /\ mem'.global_seed = mem.global_seed /\ mem'.id = n
        /\ mem'.sum = mem.sum /\ mem'.array = mem.array
    BY <1>0, <2>1, <2>3 DEF FillMemory
  <2>5. /\ pc' \in [Threads -> FillPlaces] /\ pc'[t] = "unlock" /\ mama' \in Mains /\ Joined' /\ FillAlone'
        /\ \A u \in Threads \ {t} : pc'[u] = pc[u] /\ pc[u] \notin Inside
        /\ Cardinality(Through') = n
    BY <2>1, <2>3, <2>4, FillMoves DEF Inside
  <2>6. FillTyped' BY <2>1, <2>4, <2>5 DEF FillInv, FillTyped
  <2>7. FillPassed' BY <2>4, <2>5 DEF FillPassed
  <2>8. FillStep'
    <3>1. \A u \in Threads : pc'[u] \notin Inside \ {"unlock"} BY <2>5 DEF Inside
    <3>2. mem'.global_seed = mem'.id /\ Filled(mem.id)' /\ Summed(mem.id)'
      BY <2>2, <2>4 DEF Filled, Summed
    <3> QED BY <3>1, <3>2 DEF FillStep, Inside
  <2> QED BY <2>5, <2>6, <2>7, <2>8 DEF FillInv
<1>7. ASSUME NEW t \in Threads, Fill!Unlock(t) PROVE FillInv'
  <2>1. pc[t] = "unlock" /\ pc' = [pc EXCEPT ![t] = "ended"] /\ mem' = [mem EXCEPT !.mutex = -1]
        /\ UNCHANGED <<mama, local>>
    BY <1>7 DEF Fill!Unlock, Fill!From, Fill!Free
  <2>2. /\ mem' \in FillMemory /\ mem'.mutex = -1 /\ mem'.global_seed = mem.global_seed /\ mem'.id = mem.id
        /\ mem'.sum = mem.sum /\ mem'.array = mem.array
    BY <1>0, <2>1 DEF FillMemory
  <2>3. pc' \in [Threads -> FillPlaces] /\ pc'[t] = "ended" /\ \A u \in Threads \ {t} : pc'[u] = pc[u]
    BY <2>1 DEF FillInv, FillTyped, FillPlaces, Inside
  <2>4. FillTyped' BY <2>1, <2>2, <2>3 DEF FillInv, FillTyped
  <2>5. Joined' BY <2>1, <2>3, StillJoined DEF FillInv
  <2>6. \A u \in Threads \ {t} : pc[u] \notin Inside BY <2>1 DEF FillInv, FillAlone, Inside
  <2>7. FillAlone' BY <1>0, <2>2, <2>3, <2>6 DEF FillAlone, Inside
  <2>8. FillPassed'
    <3>1. Through' = Through BY <2>1, <2>3 DEF Through
    <3> QED BY <2>2, <3>1 DEF FillInv, FillPassed
  <2>9. FillStep'
    <3>1. \A u \in Threads : pc'[u] \notin Inside BY <2>3, <2>6 DEF Inside
    <3>2. mem.global_seed = mem.id /\ Filled(mem.id) /\ Summed(mem.id)
      BY <2>1, <2>6 DEF FillInv, FillStep, Inside
    <3>3. Filled(mem.id)' /\ Summed(mem.id)' BY <2>2, <3>2 DEF Filled, Summed
    <3> QED BY <2>2, <3>1, <3>2, <3>3 DEF FillStep, Inside
  <2> QED BY <2>4, <2>5, <2>7, <2>8, <2>9 DEF FillInv
<1>8. CASE MamaCreate \/ MamaJoin \/ UNCHANGED vars
  <2>1. mama' \in Mains /\ Joined' /\ mem' = mem /\ local' = local
        /\ \A t \in Threads : pc'[t] = pc[t] \/ (pc[t] = "none" /\ pc'[t] = "start")
    BY <1>8, MainSteps DEF FillInv, FillTyped
  <2>2. pc' \in [Threads -> FillPlaces] BY <1>8, MainPlaces DEF FillInv, FillTyped, FillPlaces
  <2>3. FillTyped' BY <2>1, <2>2 DEF FillInv, FillTyped
  <2>4. FillAlone' BY <2>1 DEF FillInv, FillAlone, Inside
  <2>5. FillPassed'
    <3>1. Through' = Through BY <2>1 DEF Through
    <3> QED BY <2>1, <3>1 DEF FillInv, FillPassed
  <2>6. FillStep'
    <3>1. \A t \in Threads : pc'[t] \in Inside => pc'[t] = pc[t] BY <2>1 DEF Inside
    <3>2. \A t \in Threads : pc[t] \in Inside => pc'[t] = pc[t] BY <2>1 DEF Inside
    <3> QED BY <2>1, <3>1, <3>2 DEF FillInv, FillStep, Filled, Summed, Inside
  <2> QED BY <2>1, <2>3, <2>4, <2>5, <2>6 DEF FillInv
<1> QED BY <1>1, <1>2, <1>3, <1>4, <1>5, <1>6, <1>7, <1>8, FillNext DEF Fill!thread_routine

LEMMA FillHolds == FillInv => Fill!AllStored
<1> SUFFICES ASSUME FillInv, mama.at = "over"
             PROVE  mem.array = [t \in Threads |-> t + 1] /\ 2 * mem.sum = MAXTHREADS * (MAXTHREADS + 1)
  BY DEF Fill!AllStored, Fill!Threads, Threads
<1>1. \A t \in Threads : pc[t] = "ended" BY DEF FillInv, Joined
<1>2. Through = Threads BY <1>1 DEF Through
<1>3. mem.id = MAXTHREADS BY <1>2, ThreadsFinite DEF FillInv, FillPassed
<1>4. Filled(MAXTHREADS) /\ Summed(MAXTHREADS) BY <1>1, <1>3 DEF FillInv, FillStep
<1>5. \A e \in Threads : e < MAXTHREADS BY ThreadMainAssumption DEF Threads
<1>6. mem.array \in [Threads -> Nat] BY DEF FillInv, FillTyped, FillMemory
<1> QED BY <1>4, <1>5, <1>6 DEF Filled, Summed


----------------------------------------------------------------------------
(* thread_array_nomutex.c                                                  *)

SeedPlaces == {"none", "start", "read", "write", "unlock", "ended"}
SeedMemory == [locking : BOOLEAN, mutex : Int, global_seed : Nat]
SeedTyped ==
  pc \in [Threads -> SeedPlaces] /\ mama \in Mains /\ mem \in SeedMemory /\ local \in [Threads -> Nat]

\* The threads that have written.
Wrote == {t \in Threads : pc[t] \in {"unlock", "ended"}}

\* With the mutex, one thread at a time is at work.
SeedAlone ==
  mem.locking => \A t \in Threads : pc[t] \in {"read", "write", "unlock"} <=> mem.mutex = t

\* What was read counts no thread that has not written, and with the mutex all that have.
SeedCounted ==
  /\ mem.global_seed <= Cardinality(Wrote) /\ (Wrote # {} => mem.global_seed >= 1)
  /\ \A t \in Threads : pc[t] = "write" => local[t] <= Cardinality(Wrote)
  /\ mem.locking =>
       /\ mem.global_seed = Cardinality(Wrote)
       /\ \A t \in Threads : pc[t] = "write" => local[t] = mem.global_seed

SeedInv == SeedTyped /\ Joined /\ SeedAlone /\ SeedCounted

LEMMA SeedNext == Seed!Next => MamaCreate \/ MamaJoin \/ \E t \in Threads : Seed!thread_routine(t)
BY DEF Seed!Next, Seed!main, Seed!MamaCreate, MamaCreate, Seed!MamaJoin, MamaJoin, Seed!From, From, Seed!Threads,
       Threads

LEMMA SeedInitially == Seed!Init => SeedInv
<1> SUFFICES ASSUME Seed!Init PROVE SeedInv
  OBVIOUS
<1>1. pc = [t \in Threads |-> "none"] /\ mama = [at |-> "create", i |-> 0] /\ local = [t \in Threads |-> 0]
  BY DEF Seed!Init, Seed!Created, Seed!Threads, Threads
<1>2. PICK locking \in BOOLEAN : mem = [locking |-> locking, mutex |-> -1, global_seed |-> 0]
  BY DEF Seed!Init, Seed!Free
<1>3. mem \in SeedMemory
  BY <1>2 DEF SeedMemory
<1>4. SeedTyped /\ Joined
  BY <1>1, <1>3, MainFirst DEF SeedTyped, SeedPlaces, Joined
<1>5. Wrote = {} /\ Cardinality({}) = 0
  BY <1>1, FS_EmptySet DEF Wrote
<1>6. SeedAlone
  <2>1. \A t \in Threads : t # -1 BY ThreadMainAssumption DEF Threads
  <2> QED BY <1>1, <1>2, <2>1 DEF SeedAlone
<1>7. SeedCounted
  BY <1>1, <1>2, <1>5 DEF SeedCounted
<1> QED BY <1>4, <1>6, <1>7 DEF SeedInv

\* A step after which the same threads have written, and nobody is newly at "write".
LEMMA SeedAside ==
  ASSUME SeedInv, SeedTyped', mem'.locking = mem.locking, mem'.global_seed = mem.global_seed,
         \A t \in Threads : pc'[t] \in {"unlock", "ended"} <=> pc[t] \in {"unlock", "ended"},
         \A t \in Threads : pc'[t] = "write" => local'[t] = mem.global_seed
                            \/ (pc[t] = "write" /\ local'[t] = local[t])
  PROVE  SeedCounted'
<1>1. Wrote' = Wrote
  BY DEF Wrote
<1> QED BY <1>1 DEF SeedCounted, SeedInv

LEMMA SeedPreserved == SeedInv /\ [Seed!Next]_vars => SeedInv'
<1> SUFFICES ASSUME SeedInv, [Seed!Next]_vars PROVE SeedInv'
  OBVIOUS
<1>0. /\ \A t \in Threads : pc[t] \in SeedPlaces /\ local[t] \in Nat /\ t \in Int /\ t # -1
      /\ mem \in SeedMemory /\ mem.locking \in BOOLEAN /\ mem.mutex \in Int /\ mem.global_seed \in Nat
  BY ThreadMainAssumption DEF SeedInv, SeedTyped, SeedMemory, Threads
<1>1. ASSUME NEW t \in Threads, Seed!Lock(t) PROVE SeedInv'
  <2>1. /\ pc[t] = "start" /\ pc' = [pc EXCEPT ![t] = "read"] /\ (mem.locking => mem.mutex = -1)
        /\ mem' = [mem EXCEPT !.mutex = IF mem.locking THEN t ELSE mem.mutex] /\ UNCHANGED <<mama, local>>
    BY <1>1 DEF Seed!Lock, Seed!From, Seed!Free
  <2>2. PICK owner \in Int : mem' = [mem EXCEPT !.mutex = owner] /\ (mem.locking => owner = t)
    BY <1>0, <2>1
  <2>3. mem' \in SeedMemory /\ mem'.locking = mem.locking /\ mem'.global_seed = mem.global_seed /\ mem'.mutex = owner
    BY <1>0, <2>2 DEF SeedMemory
  <2>4. pc' \in [Threads -> SeedPlaces] /\ pc'[t] = "read" /\ \A u \in Threads \ {t} : pc'[u] = pc[u]
    BY <2>1 DEF SeedInv, SeedTyped, SeedPlaces
  <2>5. SeedTyped' BY <2>1, <2>3, <2>4 DEF SeedInv, SeedTyped
  <2>6. SeedAlone' BY <1>0, <2>1, <2>2, <2>3, <2>4 DEF SeedInv, SeedAlone
  <2>7. SeedCounted' BY <2>1, <2>3, <2>4, <2>5, SeedAside
  <2>8. Joined' BY <2>1, <2>4, StillJoined DEF SeedInv
  <2> QED BY <2>5, <2>6, <2>7, <2>8 DEF SeedInv
<1>2. ASSUME NEW t \in Threads, Seed!Read(t) PROVE SeedInv'
  <2>1. /\ pc[t] = "read" /\ pc' = [pc EXCEPT ![t] = "write"] /\ local' = [local EXCEPT ![t] = mem.global_seed]
        /\ UNCHANGED <<mama, mem>>
    BY <1>2 DEF Seed!Read, Seed!From
  <2>2. pc' \in [Threads -> SeedPlaces] /\ pc'[t] = "write" /\ \A u \in Threads \ {t} : pc'[u] = pc[u]
    BY <2>1 DEF SeedInv, SeedTyped, SeedPlaces
  <2>3. local' \in [Threads -> Nat] /\ local'[t] = mem.global_seed /\ \A u \in Threads \ {t} : local'[u] = local[u]
    BY <1>0, <2>1 DEF SeedInv, SeedTyped
  <2>4. SeedTyped' BY <2>1, <2>2, <2>3 DEF SeedInv, SeedTyped
  <2>5. SeedAlone' BY <2>1, <2>2 DEF SeedInv, SeedAlone
  <2>6. SeedCounted' BY <2>1, <2>2, <2>3, <2>4, SeedAside
  <2>7. Joined' BY <2>1, <2>2, StillJoined DEF SeedInv
  <2> QED BY <2>4, <2>5, <2>6, <2>7 DEF SeedInv
<1>3. ASSUME NEW t \in Threads, Seed!Write(t) PROVE SeedInv'
  <2> DEFINE n == local[t] + 1
  <2>1. /\ pc[t] = "write" /\ pc' = [pc EXCEPT ![t] = "unlock"] /\ local' = [local EXCEPT ![t] = n]
        /\ mem' = [mem EXCEPT !.global_seed = n] /\ mama' = mama
    BY <1>3 DEF Seed!Write, Seed!From
  <2>2. pc' \in [Threads -> SeedPlaces] /\ pc'[t] = "unlock" /\ \A u \in Threads \ {t} : pc'[u] = pc[u]
    BY <2>1 DEF SeedInv, SeedTyped, SeedPlaces
  <2>3. n \in Nat /\ n >= 1 /\ n = local[t] + 1 BY <1>0
  <2> HIDE DEF n
  <2>4. local' \in [Threads -> Nat] /\ \A u \in Threads \ {t} : local'[u] = local[u]
    BY <2>1, <2>3 DEF SeedInv, SeedTyped
  <2>5. mem' \in SeedMemory /\ mem'.locking = mem.locking /\ mem'.mutex = mem.mutex /\ mem'.global_seed = n
    BY <1>0, <2>1, <2>3 DEF SeedMemory
  <2>6. SeedTyped' BY <2>1, <2>2, <2>4, <2>5 DEF SeedInv, SeedTyped
  <2>7. SeedAlone' BY <2>1, <2>2, <2>5 DEF SeedInv, SeedAlone
  <2>8. IsFiniteSet(Wrote) /\ Cardinality(Wrote) \in Nat /\ t \notin Wrote
    BY <2>1, ThreadsFinite, FS_CardinalityType DEF Wrote
  <2>9. Wrote' = Wrote \cup {t} BY <2>2 DEF Wrote
  <2>10. Cardinality(Wrote)' = Cardinality(Wrote) + 1 BY <2>8, <2>9, FS_AddElement
  <2>11. local[t] <= Cardinality(Wrote) /\ (mem.locking => local[t] = Cardinality(Wrote))
    BY <2>1 DEF SeedInv, SeedCounted
  <2>12. ASSUME NEW u \in Threads, pc'[u] = "write"
         PROVE  local'[u] <= Cardinality(Wrote) /\ local'[u] \in Nat /\ ~mem.locking
    <3>1. u # t /\ pc[u] = "write" BY <2>2, <2>12
    <3>2. local'[u] = local[u] /\ local[u] <= Cardinality(Wrote) BY <2>4, <3>1 DEF SeedInv, SeedCounted
    <3>3. ~mem.locking BY <2>1, <3>1 DEF SeedInv, SeedAlone
    <3> QED BY <1>0, <3>2, <3>3
  <2>13. SeedCounted'
    <3>1. n <= Cardinality(Wrote)' BY <1>0, <2>3, <2>8, <2>10, <2>11
    <3>2. mem.locking => n = Cardinality(Wrote)' BY <2>3, <2>10, <2>11
    <3>3. \A u \in Threads : pc'[u] = "write" => local'[u] <= Cardinality(Wrote)' /\ ~mem.locking
      BY <2>8, <2>10, <2>12
    <3> QED BY <2>3, <2>5, <3>1, <3>2, <3>3 DEF SeedCounted
  <2>14. Joined' BY <2>1, <2>2, StillJoined DEF SeedInv
  <2> QED BY <2>6, <2>7, <2>13, <2>14 DEF SeedInv
<1>4. ASSUME NEW t \in Threads, Seed!Unlock(t) PROVE SeedInv'
  <2>1. /\ pc[t] = "unlock" /\ pc' = [pc EXCEPT ![t] = "ended"] /\ mem' = [mem EXCEPT !.mutex = -1]
        /\ UNCHANGED <<mama, local>>
    BY <1>4 DEF Seed!Unlock, Seed!From, Seed!Free
  <2>2. pc' \in [Threads -> SeedPlaces] /\ pc'[t] = "ended" /\ \A u \in Threads \ {t} : pc'[u] = pc[u]
    BY <2>1 DEF SeedInv, SeedTyped, SeedPlaces
  <2>3. mem' \in SeedMemory /\ mem'.locking = mem.locking /\ mem'.global_seed = mem.global_seed /\ mem'.mutex = -1
    BY <1>0, <2>1 DEF SeedMemory
  <2>4. SeedTyped' BY <2>1, <2>2, <2>3 DEF SeedInv, SeedTyped
  <2>5. SeedAlone' BY <1>0, <2>1, <2>2, <2>3 DEF SeedInv, SeedAlone
  <2>6. SeedCounted' BY <2>1, <2>2, <2>3, <2>4, SeedAside
  <2>7. Joined' BY <2>1, <2>2, StillJoined DEF SeedInv
  <2> QED BY <2>4, <2>5, <2>6, <2>7 DEF SeedInv
<1>5. CASE MamaCreate \/ MamaJoin \/ UNCHANGED vars
  <2>1. mama' \in Mains /\ Joined' /\ mem' = mem /\ local' = local
        /\ \A t \in Threads : pc'[t] = pc[t] \/ (pc[t] = "none" /\ pc'[t] = "start")
    BY <1>5, MainSteps DEF SeedInv, SeedTyped
  <2>2. pc' \in [Threads -> SeedPlaces] BY <1>5, MainPlaces DEF SeedInv, SeedTyped, SeedPlaces
  <2>3. SeedTyped' BY <2>1, <2>2 DEF SeedInv, SeedTyped
  <2>4. SeedAlone' BY <2>1 DEF SeedInv, SeedAlone
  <2>5. SeedCounted' BY <2>1, <2>3, SeedAside
  <2> QED BY <2>1, <2>3, <2>4, <2>5 DEF SeedInv
<1> QED BY <1>1, <1>2, <1>3, <1>4, <1>5, SeedNext DEF Seed!thread_routine

LEMMA SeedHolds == SeedInv => Seed!ThreadsCounted
<1> SUFFICES ASSUME SeedInv, mama.at = "over"
             PROVE  mem.global_seed \in IF mem.locking THEN {MAXTHREADS} ELSE 1 .. MAXTHREADS
  BY DEF Seed!ThreadsCounted
<1>1. Wrote = Threads BY DEF SeedInv, Joined, Wrote
<1>2. Cardinality(Wrote) = MAXTHREADS /\ Wrote # {} BY <1>1, ThreadsFinite
<1>3. mem.global_seed \in Nat BY DEF SeedInv, SeedTyped, SeedMemory
<1> QED BY <1>2, <1>3, ThreadMainAssumption DEF SeedInv, SeedCounted

----------------------------------------------------------------------------
(* Whichever program runs                                                  *)

Guarded ==
  /\ program = "turns" => TurnsInv
  /\ program = "array" => FillInv
  /\ program = "seed" => SeedInv

LEMMA GuardedInvariant == Spec => []Guarded
<1>1. Init => Guarded
  BY TurnsInitially, FillInitially, SeedInitially DEF Init, Guarded
<1>2. Guarded /\ [Next]_<<program, vars>> => Guarded'
  <2> SUFFICES ASSUME Guarded, [Next]_<<program, vars>> PROVE Guarded'
    OBVIOUS
  <2>1. program' = program
    BY DEF Next, Running
  <2>2. ASSUME program = "turns" PROVE TurnsInv'
    <3>1. [Turns!Next]_vars BY <2>2 DEF Next, Running
    <3> QED BY <2>2, <3>1, TurnsPreserved DEF Guarded
  <2>3. ASSUME program = "array" PROVE FillInv'
    <3>1. [Fill!Next]_vars BY <2>3 DEF Next, Running
    <3> QED BY <2>3, <3>1, FillPreserved DEF Guarded
  <2>4. ASSUME program = "seed" PROVE SeedInv'
    <3>1. [Seed!Next]_vars BY <2>4 DEF Next, Running
    <3> QED BY <2>4, <3>1, SeedPreserved DEF Guarded
  <2> QED BY <2>1, <2>2, <2>3, <2>4 DEF Guarded
<1> QED BY <1>1, <1>2, PTL DEF Spec

\* thread_cond_array.c: each thread stores at its own position, and only after those
\* created later, the numbers in the order they were drawn; main's sum is theirs.
THEOREM EachItsOwnTurn == Spec => []TurnsKept
<1>1. Guarded => TurnsKept
  BY TurnsHold DEF Guarded, TurnsKept
<1> QED BY GuardedInvariant, <1>1, PTL

\* thread_array.c: under the mutex, every number that is drawn is stored at the next
\* position and added once, whatever the scheduler does.
THEOREM EveryNumberStored == Spec => []AllStored
<1>1. Guarded => AllStored
  BY FillHolds DEF Guarded, AllStored
<1> QED BY GuardedInvariant, <1>1, PTL

\* thread_array_nomutex.c: under the mutex every thread is counted; without it some may
\* not be, but never too many, and never none.
THEOREM CountedWithinBounds == Spec => []ThreadsCounted
<1>1. Guarded => ThreadsCounted
  BY SeedHolds DEF Guarded, ThreadsCounted
<1> QED BY GuardedInvariant, <1>1, PTL

----------------------------------------------------------------------------
(* thread_rwlock_array.c: what the read-write lock protects, for any number  *)
(* of elements and rounds, although it does not protect the count of readers *)

\* The types of the variables.
Reading == {"join", "joining", "check", "print", "leave", "leaving", "rdunlock"}
Writing == {"enter", "write", "wrunlock"}
RwPlaces == {"none", "start", "rdlock", "wrlock", "ended"} \cup Reading \cup Writing
RwMains == [at : {"create", "join", "over", "aborted"}, i : Rw!Threads]
RwPrints == [array : [Rw!Threads -> Int], sum : Int]
RwLocals == [round : Int, i : Nat, loaded : Int, seen : RwPrints]
RwMemory == [rdlock : SUBSET Rw!Threads, wrlock : SUBSET Rw!Threads, readers : Int, writers : Int,
           array : [Rw!Threads -> Nat], sum : Nat]

RwTyped ==
  pc \in [Rw!Threads -> RwPlaces] /\ mama \in RwMains /\ mem \in RwMemory /\ local \in [Rw!Threads -> RwLocals]

\* Who holds the lock, and that a writer is alone with it.
RwLocked ==
  /\ \A t \in Rw!Threads : t \in mem.rdlock <=> pc[t] \in Reading
  /\ \A t \in Rw!Threads : t \in mem.wrlock <=> pc[t] \in Writing
  /\ \A t, u \in Rw!Threads : pc[t] \in Writing /\ pc[u] \in Reading \cup Writing => t = u

\* writers counts the writer between its increment and its decrement.
RwCounted == mem.writers = IF \E t \in Rw!Threads : pc[t] = "write" THEN 1 ELSE 0

\* n whole passes over the array have been made, and one that has come to element i: each
\* pass adds to the sum what it makes of each element.
RwTwice(i, n) == MAXTHREADS * (n * (n + 1)) + 2 * (i * (n + 1))
RwPass(i, n) ==
  /\ \A e \in Rw!Threads : mem.array[e] = IF e < i THEN n + 1 ELSE n
  /\ 2 * mem.sum = RwTwice(i, n)

\* Only a writer is in the middle of a pass.
RwPassed ==
  \E n \in Nat :
    /\ (\A t \in Rw!Threads : pc[t] # "write") => RwPass(0, n)
    /\ \A t \in Rw!Threads : pc[t] = "write" => local[t].i <= MAXTHREADS /\ RwPass(local[t].i, n)

\* What a print is when it is complete.
RwComplete(print) ==
  \E n \in Nat : print.array = [e \in Rw!Threads |-> n] /\ 2 * print.sum = MAXTHREADS * (n * (n + 1))

\* A print under way is what the array is now.
RwSeenBy(t) ==
  /\ pc[t] \in {"join", "joining", "check"} => local[t].seen.sum = Rw!Unseen /\ local[t].i = 0
  /\ pc[t] = "enter" => local[t].i = 0
  /\ pc[t] = "print" =>
       /\ local[t].seen.sum = Rw!Unseen
       /\ \A e \in Rw!Threads : e < local[t].i => local[t].seen.array[e] = mem.array[e]
  /\ local[t].seen.sum # Rw!Unseen => RwComplete(local[t].seen)

RwSeen == \A t \in Rw!Threads : RwSeenBy(t)

RwIInv == RwTyped /\ RwLocked /\ RwCounted /\ RwPassed /\ RwSeen /\ Rw!WritersCounted

LEMMA RwInitially == Rw!Init => RwIInv
<1> USE ThreadMainAssumption DEF Rw!Threads, Rw!Elements
<1> SUFFICES ASSUME Rw!Init PROVE RwIInv
  OBVIOUS
<1>1. Rw!Nothing \in RwPrints /\ Rw!Nothing.sum = Rw!Unseen
  BY DEF Rw!Nothing, RwPrints, Rw!Unseen
<1>2. pc = [t \in Rw!Threads |-> "none"] /\ mama = [at |-> "create", i |-> 0]
      /\ mem = [rdlock |-> {}, wrlock |-> {}, readers |-> 0, writers |-> 0,
                array |-> [e \in Rw!Threads |-> 0], sum |-> 0]
      /\ local = [t \in Rw!Threads |-> [round |-> 0, i |-> 0, loaded |-> 0, seen |-> Rw!Nothing]]
  BY DEF Rw!Init, Rw!Created
<1>3. RwTyped
  <2>1. pc \in [Rw!Threads -> RwPlaces] BY <1>2 DEF RwPlaces
  <2>2. mama \in RwMains BY <1>2 DEF RwMains
  <2>3. mem \in RwMemory BY <1>2 DEF RwMemory
  <2>4. local \in [Rw!Threads -> RwLocals] BY <1>1, <1>2 DEF RwLocals
  <2> QED BY <2>1, <2>2, <2>3, <2>4 DEF RwTyped
<1>4. RwLocked /\ RwCounted /\ Rw!WritersCounted
  BY <1>2 DEF RwLocked, RwCounted, Rw!WritersCounted, Reading, Writing
<1>5. RwPassed
  <2>1. RwPass(0, 0) BY <1>2 DEF RwPass, RwTwice
  <2> QED BY <1>2, <2>1 DEF RwPassed
<1>6. RwSeen
  BY <1>1, <1>2 DEF RwSeen, RwSeenBy
<1> QED BY <1>3, <1>4, <1>5, <1>6 DEF RwIInv

----------------------------------------------------------------------------
(* Types                                                                   *)

LEMMA RwPlaceTyped ==
  ASSUME pc \in [Rw!Threads -> RwPlaces], NEW t \in Rw!Threads, NEW from, NEW to \in RwPlaces, Rw!From(t, from, to)
  PROVE  pc' \in [Rw!Threads -> RwPlaces]
BY DEF Rw!From

LEMMA RwLocalTyped ==
  ASSUME local \in [Rw!Threads -> RwLocals], NEW t \in Rw!Threads, NEW l \in RwLocals,
         local' = [local EXCEPT ![t] = l]
  PROVE  local' \in [Rw!Threads -> RwLocals]
OBVIOUS

LEMMA RwRoundTyped ==
  ASSUME NEW l \in RwLocals, NEW k \in Int
  PROVE  [l EXCEPT !.round = k] \in RwLocals /\ [l EXCEPT !.round = k, !.loaded = 0] \in RwLocals
<1>1. [l EXCEPT !.round = k] \in RwLocals BY DEF RwLocals
<1>2. ASSUME NEW n \in Int PROVE [l EXCEPT !.round = k, !.loaded = n] \in RwLocals BY DEF RwLocals
<1>3. 0 \in Int
  OBVIOUS
<1>4. [l EXCEPT !.round = k, !.loaded = 0] \in RwLocals BY ONLY <1>2, <1>3
<1> QED BY <1>1, <1>4

LEMMA RwIndexTyped ==
  ASSUME NEW l \in RwLocals, NEW n \in Nat, NEW print \in RwPrints
  PROVE  [l EXCEPT !.i = n] \in RwLocals /\ [l EXCEPT !.seen = print, !.i = n] \in RwLocals
<1>1. [l EXCEPT !.i = n] \in RwLocals BY DEF RwLocals
<1>2. [l EXCEPT !.seen = print, !.i = n] \in RwLocals BY DEF RwLocals
<1> QED BY <1>1, <1>2

LEMMA RwArrayTyped ==
  ASSUME NEW array \in [Rw!Threads -> Nat], NEW e, NEW n \in Nat
  PROVE  [array EXCEPT ![e] = n] \in [Rw!Threads -> Nat]
OBVIOUS

LEMMA RwPrintTyped ==
  ASSUME NEW array \in [Rw!Threads -> Int], NEW e, NEW n \in Int
  PROVE  [array EXCEPT ![e] = n] \in [Rw!Threads -> Int]
OBVIOUS

LEMMA RwTypedKept == RwTyped /\ [Rw!Next]_vars => RwTyped'
<1> USE ThreadMainAssumption DEF Rw!Threads, Rw!Elements
<1> SUFFICES ASSUME RwTyped, [Rw!Next]_vars PROVE RwTyped'
  OBVIOUS
<1>1. /\ \A t \in Rw!Threads : local[t] \in RwLocals
      /\ mama.at \in {"create", "join", "over", "aborted"} /\ mama.i \in Rw!Threads
      /\ mem.readers \in Int /\ mem.writers \in Int /\ mem.sum \in Nat
      /\ mem.array \in [Rw!Threads -> Nat] /\ mem.rdlock \subseteq Rw!Threads /\ mem.wrlock \subseteq Rw!Threads
  BY DEF RwTyped, RwMains, RwMemory
<1>2. \A t \in Rw!Threads : local[t].i \in Nat /\ local[t].round \in Int /\ local[t].loaded \in Int
        /\ local[t].seen \in RwPrints
  BY <1>1 DEF RwLocals
<1>3. Rw!Nothing \in RwPrints
  BY DEF Rw!Nothing, RwPrints, Rw!Unseen
<1>4. [mama EXCEPT !.at = "aborted"] \in RwMains
  BY DEF RwTyped, RwMains
<1>5. ASSUME NEW t \in Rw!Threads, Rw!Choose(t) PROVE RwTyped'
  <2>1. pc' \in [Rw!Threads -> RwPlaces] BY <1>5, RwPlaceTyped DEF Rw!Choose, RwPlaces, Reading, Writing, RwTyped
  <2> QED BY <1>5, <2>1 DEF Rw!Choose, RwTyped
<1>6. ASSUME NEW t \in Rw!Threads, Rw!RdLock(t) PROVE RwTyped'
  <2>1. pc' \in [Rw!Threads -> RwPlaces] BY <1>6, RwPlaceTyped DEF Rw!RdLock, RwPlaces, Reading, RwTyped
  <2>2. mem' \in RwMemory BY <1>1, <1>6 DEF Rw!RdLock, RwTyped, RwMemory
  <2>3. local' = [local EXCEPT ![t] = [local[t] EXCEPT !.seen = Rw!Nothing, !.i = 0]] BY <1>6 DEF Rw!RdLock
  <2>4. [local[t] EXCEPT !.seen = Rw!Nothing, !.i = 0] \in RwLocals BY <1>1, <1>3 DEF RwLocals
  <2>5. local' \in [Rw!Threads -> RwLocals] BY <2>3, <2>4, RwLocalTyped DEF RwTyped
  <2> QED BY <1>6, <2>1, <2>2, <2>5 DEF Rw!RdLock, RwTyped
<1>7. ASSUME NEW t \in Rw!Threads, Rw!Load(t) PROVE RwTyped'
  <2>1. pc' \in [Rw!Threads -> RwPlaces] BY <1>7, RwPlaceTyped DEF Rw!Load, RwPlaces, Reading, RwTyped
  <2>2. local' = [local EXCEPT ![t] = [local[t] EXCEPT !.loaded = mem.readers]] BY <1>7 DEF Rw!Load
  <2>3. [local[t] EXCEPT !.loaded = mem.readers] \in RwLocals BY <1>1 DEF RwLocals
  <2>4. local' \in [Rw!Threads -> RwLocals] BY <2>2, <2>3, RwLocalTyped DEF RwTyped
  <2> QED BY <1>7, <2>1, <2>4 DEF Rw!Load, RwTyped
<1>8. ASSUME NEW t \in Rw!Threads, Rw!Joined(t) \/ Rw!Left(t) PROVE RwTyped'
  <2>1. pc' \in [Rw!Threads -> RwPlaces] BY <1>8, RwPlaceTyped DEF Rw!Joined, Rw!Left, RwPlaces, Reading, RwTyped
  <2>2. \E n \in Int : mem' = [mem EXCEPT !.readers = n] BY <1>2, <1>8 DEF Rw!Joined, Rw!Left
  <2>3. mem' \in RwMemory BY <2>2 DEF RwTyped, RwMemory
  <2> QED BY <1>8, <2>1, <2>3 DEF Rw!Joined, Rw!Left, RwTyped
<1>9. ASSUME NEW t \in Rw!Threads, Rw!Check(t) PROVE RwTyped'
  <2>1. pc' \in [Rw!Threads -> RwPlaces] BY <1>9, RwPlaceTyped DEF Rw!Check, RwPlaces, Reading, RwTyped
  <2>2. mama' \in RwMains BY <1>4, <1>9 DEF Rw!Check, Rw!Assert, RwTyped
  <2> QED BY <1>9, <2>1, <2>2 DEF Rw!Check, RwTyped
<1>10. ASSUME NEW t \in Rw!Threads, Rw!PrintElement(t) PROVE RwTyped'
  <2>1. pc' \in [Rw!Threads -> RwPlaces] BY <1>10, RwPlaceTyped DEF Rw!PrintElement, RwPlaces, Reading, RwTyped
  <2> DEFINE array == [local[t].seen.array EXCEPT ![local[t].i] = mem.array[local[t].i]]
             l == [local[t] EXCEPT !.seen = [local[t].seen EXCEPT !.array = array], !.i = local[t].i + 1]
  <2>2. local[t].seen.array \in [Rw!Threads -> Int] BY <1>2 DEF RwPrints
  <2>3. local[t].i \in Rw!Threads BY <1>10 DEF Rw!PrintElement
  <2>4. mem.array[local[t].i] \in Int BY <1>1, <2>3
  <2>5. array \in [Rw!Threads -> Int] BY <2>2, <2>4, RwPrintTyped
  <2>6. [local[t].seen EXCEPT !.array = array] \in RwPrints BY <1>2, <2>5 DEF RwPrints
  <2>7. local[t].i + 1 \in Nat BY <1>2
  <2>8. l \in RwLocals BY <1>1, <2>6, <2>7, RwIndexTyped
  <2>9. local' = [local EXCEPT ![t] = l] BY <1>10 DEF Rw!PrintElement
  <2>10. local' \in [Rw!Threads -> RwLocals] BY <2>8, <2>9, RwLocalTyped DEF RwTyped
  <2> QED BY <1>10, <2>1, <2>10 DEF Rw!PrintElement, RwTyped
<1>11. ASSUME NEW t \in Rw!Threads, Rw!PrintSum(t) PROVE RwTyped'
  <2>1. pc' \in [Rw!Threads -> RwPlaces] BY <1>11, RwPlaceTyped DEF Rw!PrintSum, RwPlaces, Reading, RwTyped
  <2> DEFINE l == [local[t] EXCEPT !.seen = [local[t].seen EXCEPT !.sum = mem.sum]]
  <2>2. [local[t].seen EXCEPT !.sum = mem.sum] \in RwPrints
    <3>1. PICK print \in RwPrints : print = local[t].seen BY <1>2
    <3>2. PICK n \in Int : n = mem.sum BY <1>1
    <3>3. [print EXCEPT !.sum = n] \in RwPrints BY ONLY print \in RwPrints, n \in Int DEF RwPrints
    <3> QED BY ONLY <3>1, <3>2, <3>3
  <2>3. l \in RwLocals BY <1>1, <2>2 DEF RwLocals
  <2>4. local' = [local EXCEPT ![t] = l] BY <1>11 DEF Rw!PrintSum
  <2>5. local' \in [Rw!Threads -> RwLocals] BY <2>3, <2>4, RwLocalTyped DEF RwTyped
  <2> QED BY <1>11, <2>1, <2>5 DEF Rw!PrintSum, RwTyped
<1>12. ASSUME NEW t \in Rw!Threads, Rw!RdUnlock(t) PROVE RwTyped'
  <2>1. pc' \in [Rw!Threads -> RwPlaces] BY <1>12, RwPlaceTyped DEF Rw!RdUnlock, RwPlaces, RwTyped
  <2>2. mem' \in RwMemory BY <1>1, <1>12 DEF Rw!RdUnlock, RwTyped, RwMemory
  <2>3. local' = [local EXCEPT ![t] = [local[t] EXCEPT !.round = local[t].round + 1, !.loaded = 0]]
    BY <1>12 DEF Rw!RdUnlock
  <2>4. [local[t] EXCEPT !.round = local[t].round + 1, !.loaded = 0] \in RwLocals
    <3>1. local[t].round + 1 \in Int BY <1>2
    <3> QED BY <1>1, <3>1, RwRoundTyped
  <2>5. local' \in [Rw!Threads -> RwLocals] BY <2>3, <2>4, RwLocalTyped DEF RwTyped
  <2> QED BY <1>12, <2>1, <2>2, <2>5 DEF Rw!RdUnlock, RwTyped
<1>13. ASSUME NEW t \in Rw!Threads, Rw!WrLock(t) PROVE RwTyped'
  <2>1. pc' \in [Rw!Threads -> RwPlaces] BY <1>13, RwPlaceTyped DEF Rw!WrLock, RwPlaces, Writing, RwTyped
  <2>2. mem' \in RwMemory BY <1>1, <1>13 DEF Rw!WrLock, RwTyped, RwMemory
  <2>3. local' = [local EXCEPT ![t] = [local[t] EXCEPT !.i = 0]] BY <1>13 DEF Rw!WrLock
  <2>4. [local[t] EXCEPT !.i = 0] \in RwLocals BY <1>1 DEF RwLocals
  <2>5. local' \in [Rw!Threads -> RwLocals] BY <2>3, <2>4, RwLocalTyped DEF RwTyped
  <2> QED BY <1>13, <2>1, <2>2, <2>5 DEF Rw!WrLock, RwTyped
<1>14. ASSUME NEW t \in Rw!Threads, Rw!Enter(t) \/ Rw!Exit(t) PROVE RwTyped'
  <2>1. pc' \in [Rw!Threads -> RwPlaces] BY <1>14, RwPlaceTyped DEF Rw!Enter, Rw!Exit, RwPlaces, Writing, RwTyped
  <2>2. \E n \in Int : mem' = [mem EXCEPT !.writers = n]
    <3>1. mem.writers + 1 \in Int /\ mem.writers - 1 \in Int BY <1>1
    <3>2. \/ mem' = [mem EXCEPT !.writers = mem.writers + 1]
          \/ mem' = [mem EXCEPT !.writers = mem.writers - 1]
      BY <1>14 DEF Rw!Enter, Rw!Exit
    <3> QED BY <3>1, <3>2
  <2>3. mem' \in RwMemory BY <2>2 DEF RwTyped, RwMemory
  <2>4. mama' \in RwMains BY <1>4, <1>14 DEF Rw!Enter, Rw!Exit, Rw!Assert, RwTyped
  <2> QED BY <1>14, <2>1, <2>3, <2>4 DEF Rw!Enter, Rw!Exit, RwTyped
<1>15. ASSUME NEW t \in Rw!Threads, Rw!WriteElement(t) PROVE RwTyped'
  <2>1. pc' \in [Rw!Threads -> RwPlaces] BY <1>15, RwPlaceTyped DEF Rw!WriteElement, RwPlaces, Writing, RwTyped
  <2> DEFINE n == mem.array[local[t].i]
             array == [mem.array EXCEPT ![local[t].i] = n + 1]
  <2>2. n \in Nat BY <1>1, <1>15 DEF Rw!WriteElement
  <2>3. array \in [Rw!Threads -> Nat]
    <3>1. n + 1 \in Nat BY <2>2
    <3> QED BY <1>1, <3>1, RwArrayTyped
  <2>4. mem' = [mem EXCEPT !.array = array, !.sum = mem.sum + n + 1] BY <1>15 DEF Rw!WriteElement
  <2> HIDE DEF n, array
  <2>5. mem.sum + n + 1 \in Nat BY <1>1, <2>2
  <2>6. mem' \in RwMemory BY <2>3, <2>4, <2>5 DEF RwTyped, RwMemory
  <2>7. local' = [local EXCEPT ![t] = [local[t] EXCEPT !.i = local[t].i + 1]] BY <1>15 DEF Rw!WriteElement
  <2>8. [local[t] EXCEPT !.i = local[t].i + 1] \in RwLocals
    <3>1. local[t].i + 1 \in Nat BY <1>2
    <3> QED BY <1>1, <1>2, <3>1, RwIndexTyped
  <2>9. local' \in [Rw!Threads -> RwLocals] BY <2>7, <2>8, RwLocalTyped DEF RwTyped
  <2> QED BY <1>15, <2>1, <2>6, <2>9 DEF Rw!WriteElement, RwTyped
<1>16. ASSUME NEW t \in Rw!Threads, Rw!WrUnlock(t) PROVE RwTyped'
  <2>1. pc' \in [Rw!Threads -> RwPlaces] BY <1>16, RwPlaceTyped DEF Rw!WrUnlock, RwPlaces, RwTyped
  <2>2. mem' \in RwMemory BY <1>1, <1>16 DEF Rw!WrUnlock, RwTyped, RwMemory
  <2>3. local' = [local EXCEPT ![t] = [local[t] EXCEPT !.round = local[t].round + 1]] BY <1>16 DEF Rw!WrUnlock
  <2>4. [local[t] EXCEPT !.round = local[t].round + 1] \in RwLocals
    <3>1. local[t].round + 1 \in Int BY <1>2
    <3> QED BY <1>1, <3>1, RwRoundTyped
  <2>5. local' \in [Rw!Threads -> RwLocals] BY <2>3, <2>4, RwLocalTyped DEF RwTyped
  <2> QED BY <1>16, <2>1, <2>2, <2>5 DEF Rw!WrUnlock, RwTyped
<1>17. CASE Rw!MamaCreate
  <2>1. pc' \in [Rw!Threads -> RwPlaces] BY <1>1, <1>17, RwPlaceTyped DEF Rw!MamaCreate, RwPlaces, RwTyped
  <2>2. \/ mama' = [at |-> "join", i |-> 0]
        \/ mama.i + 1 \in Rw!Threads /\ mama' = [mama EXCEPT !.i = mama.i + 1]
    BY <1>1, <1>17 DEF Rw!MamaCreate
  <2>3. mama' \in RwMains BY <2>2 DEF RwTyped, RwMains
  <2> QED BY <1>17, <2>1, <2>3 DEF Rw!MamaCreate, RwTyped
<1>18. CASE Rw!MamaJoin
  <2>1. \/ mama' = [mama EXCEPT !.at = "over"]
        \/ mama.i + 1 \in Rw!Threads /\ mama' = [mama EXCEPT !.i = mama.i + 1]
    BY <1>1, <1>18 DEF Rw!MamaJoin
  <2>2. mama' \in RwMains BY <2>1 DEF RwTyped, RwMains
  <2> QED BY <1>18, <2>2 DEF Rw!MamaJoin, RwTyped
<1>19. CASE UNCHANGED vars
  BY <1>19 DEF vars, RwTyped
<1> QED
  BY <1>5, <1>6, <1>7, <1>8, <1>9, <1>10, <1>11, <1>12, <1>13, <1>14, <1>15, <1>16, <1>17, <1>18, <1>19
  DEF Rw!Next, Rw!main, Rw!thread_routine, Rw!arr_read, Rw!arr_write

----------------------------------------------------------------------------
(* The lock                                                                *)

\* What a step of a thread does to the places, and to the lock.
LEMMA RwMoves ==
  ASSUME RwTyped, NEW t \in Rw!Threads, NEW from, NEW to, Rw!From(t, from, to)
  PROVE  pc[t] = from /\ pc'[t] = to /\ \A u \in Rw!Threads \ {t} : pc'[u] = pc[u]
BY DEF Rw!From, RwTyped

\* A step by which nobody comes to the lock or leaves it.
LEMMA RwLockLeft ==
  ASSUME RwLocked, mem'.rdlock = mem.rdlock, mem'.wrlock = mem.wrlock,
         \A t \in Rw!Threads : (pc'[t] \in Reading <=> pc[t] \in Reading)
                               /\ (pc'[t] \in Writing <=> pc[t] \in Writing)
  PROVE  RwLocked'
BY DEF RwLocked

LEMMA RwLockedKept == RwTyped /\ RwLocked /\ [Rw!Next]_vars => RwLocked'
<1> SUFFICES ASSUME RwTyped, RwLocked, [Rw!Next]_vars PROVE RwLocked'
  OBVIOUS
<1> USE DEF Reading, Writing
<1>1. ASSUME NEW t \in Rw!Threads, Rw!Choose(t) \/ Rw!Load(t) \/ Rw!Check(t) \/ Rw!PrintElement(t)
             \/ Rw!PrintSum(t) PROVE RwLocked'
  <2>1. mem' = mem BY <1>1 DEF Rw!Choose, Rw!Load, Rw!Check, Rw!PrintElement, Rw!PrintSum
  <2> QED BY <1>1, <2>1, RwMoves, RwLockLeft DEF Rw!Choose, Rw!Load, Rw!Check, Rw!PrintElement, Rw!PrintSum
<1>2. ASSUME NEW t \in Rw!Threads, Rw!Joined(t) \/ Rw!Left(t) \/ Rw!Enter(t) \/ Rw!Exit(t)
             \/ Rw!WriteElement(t) PROVE RwLocked'
  <2>1. mem'.rdlock = mem.rdlock /\ mem'.wrlock = mem.wrlock
    BY <1>2 DEF Rw!Joined, Rw!Left, Rw!Enter, Rw!Exit, Rw!WriteElement, RwTyped, RwMemory
  <2> QED BY <1>2, <2>1, RwMoves, RwLockLeft DEF Rw!Joined, Rw!Left, Rw!Enter, Rw!Exit, Rw!WriteElement
<1>3. ASSUME NEW t \in Rw!Threads, Rw!RdLock(t) PROVE RwLocked'
  <2>1. pc[t] = "rdlock" /\ pc'[t] = "join" /\ \A u \in Rw!Threads \ {t} : pc'[u] = pc[u]
    BY <1>3, RwMoves DEF Rw!RdLock
  <2>2. mem.wrlock = {} /\ mem'.rdlock = mem.rdlock \cup {t} /\ mem'.wrlock = mem.wrlock
    BY <1>3 DEF Rw!RdLock, RwTyped, RwMemory
  <2>3. \A u \in Rw!Threads : pc'[u] \notin Writing BY <2>1, <2>2 DEF RwLocked
  <2> QED BY <2>1, <2>2, <2>3 DEF RwLocked
<1>4. ASSUME NEW t \in Rw!Threads, Rw!RdUnlock(t) PROVE RwLocked'
  <2>1. pc[t] = "rdunlock" /\ pc'[t] = "start" /\ \A u \in Rw!Threads \ {t} : pc'[u] = pc[u]
    BY <1>4, RwMoves DEF Rw!RdUnlock
  <2>2. mem'.rdlock = mem.rdlock \ {t} /\ mem'.wrlock = mem.wrlock
    BY <1>4 DEF Rw!RdUnlock, RwTyped, RwMemory
  <2> QED BY <2>1, <2>2 DEF RwLocked
<1>5. ASSUME NEW t \in Rw!Threads, Rw!WrLock(t) PROVE RwLocked'
  <2>1. pc[t] = "wrlock" /\ pc'[t] = "enter" /\ \A u \in Rw!Threads \ {t} : pc'[u] = pc[u]
    BY <1>5, RwMoves DEF Rw!WrLock
  <2>2. mem.wrlock = {} /\ mem.rdlock = {} /\ mem'.rdlock = {} /\ mem'.wrlock = {t}
    BY <1>5 DEF Rw!WrLock, RwTyped, RwMemory
  <2>3. \A u \in Rw!Threads : pc[u] \notin Writing \cup Reading BY <2>2 DEF RwLocked
  <2> QED BY <2>1, <2>2, <2>3 DEF RwLocked
<1>6. ASSUME NEW t \in Rw!Threads, Rw!WrUnlock(t) PROVE RwLocked'
  <2>1. pc[t] = "wrunlock" /\ pc'[t] = "start" /\ \A u \in Rw!Threads \ {t} : pc'[u] = pc[u]
    BY <1>6, RwMoves DEF Rw!WrUnlock
  <2>2. mem'.wrlock = mem.wrlock \ {t} /\ mem'.rdlock = mem.rdlock
    BY <1>6 DEF Rw!WrUnlock, RwTyped, RwMemory
  <2> QED BY <2>1, <2>2 DEF RwLocked
<1>7. CASE Rw!MamaCreate
  <2>1. mama.i \in Rw!Threads BY DEF RwTyped, RwMains
  <2> QED BY <1>7, <2>1, RwMoves, RwLockLeft DEF Rw!MamaCreate
<1>8. CASE Rw!MamaJoin \/ UNCHANGED vars
  BY <1>8, RwLockLeft DEF Rw!MamaJoin, vars
<1> QED
  BY <1>1, <1>2, <1>3, <1>4, <1>5, <1>6, <1>7, <1>8 DEF Rw!Next, Rw!main, Rw!thread_routine, Rw!arr_read, Rw!arr_write

----------------------------------------------------------------------------
(* The count of the writers                                                *)

LEMMA RwCountedKept == RwTyped /\ RwLocked /\ RwCounted /\ [Rw!Next]_vars => RwCounted'
<1> SUFFICES ASSUME RwTyped, RwLocked, RwCounted, [Rw!Next]_vars PROVE RwCounted'
  OBVIOUS
<1>1. ASSUME mem'.writers = mem.writers, \A t \in Rw!Threads : pc'[t] = "write" <=> pc[t] = "write" PROVE RwCounted'
  BY <1>1 DEF RwCounted
<1>2. ASSUME NEW t \in Rw!Threads, Rw!Choose(t) \/ Rw!arr_read(t) \/ Rw!WrLock(t) \/ Rw!WriteElement(t)
             \/ Rw!WrUnlock(t) PROVE RwCounted'
  <2>1. mem'.writers = mem.writers
    BY <1>2 DEF Rw!Choose, Rw!arr_read, Rw!RdLock, Rw!Load, Rw!Joined, Rw!Left, Rw!Check, Rw!PrintElement,
                Rw!PrintSum, Rw!RdUnlock, Rw!WrLock,
                Rw!WriteElement, Rw!WrUnlock, RwTyped, RwMemory
  <2>2. \A u \in Rw!Threads : pc'[u] = "write" <=> pc[u] = "write"
    BY <1>2, RwMoves DEF Rw!Choose, Rw!arr_read, Rw!RdLock, Rw!Load, Rw!Joined, Rw!Left, Rw!Check,
                       Rw!PrintElement, Rw!PrintSum, Rw!RdUnlock, Rw!WrLock,
                Rw!WriteElement, Rw!WrUnlock
  <2> QED BY <1>1, <2>1, <2>2
<1>3. ASSUME NEW t \in Rw!Threads, Rw!Enter(t) PROVE RwCounted'
  <2>1. pc[t] = "enter" /\ pc'[t] = "write" /\ \A u \in Rw!Threads \ {t} : pc'[u] = pc[u]
    BY <1>3, RwMoves DEF Rw!Enter
  <2>2. \A u \in Rw!Threads : pc[u] # "write" BY <2>1 DEF RwLocked, Writing
  <2>3. mem'.writers = mem.writers + 1 BY <1>3 DEF Rw!Enter, RwTyped, RwMemory
  <2> QED BY <2>1, <2>2, <2>3 DEF RwCounted
<1>4. ASSUME NEW t \in Rw!Threads, Rw!Exit(t) PROVE RwCounted'
  <2>1. pc[t] = "write" /\ pc'[t] = "wrunlock" /\ \A u \in Rw!Threads \ {t} : pc'[u] = pc[u]
    BY <1>4, RwMoves DEF Rw!Exit
  <2>2. \A u \in Rw!Threads \ {t} : pc[u] # "write" BY <2>1 DEF RwLocked, Writing
  <2>3. mem'.writers = mem.writers - 1 BY <1>4 DEF Rw!Exit, RwTyped, RwMemory
  <2> QED BY <2>1, <2>2, <2>3 DEF RwCounted
<1>5. CASE Rw!MamaCreate
  <2>1. mama.i \in Rw!Threads BY DEF RwTyped, RwMains
  <2> QED BY <1>1, <1>5, <2>1, RwMoves DEF Rw!MamaCreate
<1>6. CASE Rw!MamaJoin \/ UNCHANGED vars
  BY <1>1, <1>6 DEF Rw!MamaJoin, vars
<1> QED
  BY <1>2, <1>3, <1>4, <1>5, <1>6 DEF Rw!Next, Rw!main, Rw!thread_routine, Rw!arr_write

\* The only assertion that can fail is the writer's on the readers, and nothing moves after it.
LEMMA RwAssertionsKept == RwTyped /\ RwLocked /\ RwCounted /\ Rw!WritersCounted /\ [Rw!Next]_vars
                          => Rw!WritersCounted'
<1> SUFFICES ASSUME RwTyped, RwLocked, RwCounted, Rw!WritersCounted, [Rw!Next]_vars PROVE Rw!WritersCounted'
  OBVIOUS
<1>1. CASE mama.at = "aborted"
  <2>1. ~Rw!Next
    BY <1>1 DEF Rw!Next, Rw!main, Rw!MamaCreate, Rw!MamaJoin, Rw!thread_routine, Rw!arr_read, Rw!arr_write,
                Rw!Choose, Rw!RdLock, Rw!Load, Rw!Joined,
                Rw!Left, Rw!Check, Rw!PrintElement, Rw!PrintSum, Rw!RdUnlock, Rw!WrLock, Rw!Enter,
                  Rw!WriteElement, Rw!Exit, Rw!WrUnlock, Rw!From
  <2> QED BY <2>1 DEF vars, Rw!WritersCounted
<1>2. CASE mama.at # "aborted"
  <2>1. ASSUME NEW t \in Rw!Threads, Rw!Check(t) PROVE Rw!WritersCounted'
    <3>1. pc[t] = "check" BY <2>1 DEF Rw!Check, Rw!From
    <3>2. \A u \in Rw!Threads : pc[u] # "write" BY <3>1 DEF RwLocked, Reading, Writing
    <3>3. mem.writers = 0 BY <3>2 DEF RwCounted
    <3> QED BY <1>2, <2>1, <3>3 DEF Rw!Check, Rw!Assert, Rw!WritersCounted
  <2>2. ASSUME NEW t \in Rw!Threads, Rw!Enter(t) PROVE Rw!WritersCounted'
    <3>1. pc[t] = "enter" BY <2>2 DEF Rw!Enter, Rw!From
    <3>2. \A u \in Rw!Threads : pc[u] # "write" /\ pc[u] \notin Reading BY <3>1 DEF RwLocked, Reading, Writing
    <3>3. mem.rdlock = {} BY <3>2 DEF RwLocked, RwTyped, RwMemory
    <3>4. mem.writers = 0 BY <3>2 DEF RwCounted
    <3>5. mem'.writers = 1 /\ mem'.readers = mem.readers /\ mem'.rdlock = {}
      BY <2>2, <3>3, <3>4 DEF Rw!Enter, RwTyped, RwMemory
    <3>6. mama' = IF mem.readers = 0 THEN mama ELSE [mama EXCEPT !.at = "aborted"]
      BY <2>2, <3>4 DEF Rw!Enter, Rw!Assert
    <3> QED BY <1>2, <3>5, <3>6 DEF Rw!WritersCounted
  <2>3. ASSUME NEW t \in Rw!Threads, Rw!thread_routine(t), ~Rw!Check(t), ~Rw!Enter(t) PROVE Rw!WritersCounted'
    <3>1. mama' = mama
      BY <2>3 DEF Rw!thread_routine, Rw!arr_read, Rw!arr_write, Rw!Choose, Rw!RdLock, Rw!Load, Rw!Joined,
                  Rw!Left, Rw!PrintElement, Rw!PrintSum,
                  Rw!RdUnlock, Rw!WrLock, Rw!WriteElement, Rw!Exit, Rw!WrUnlock
    <3> QED BY <1>2, <3>1 DEF Rw!WritersCounted
  <2>4. CASE Rw!main \/ UNCHANGED vars
    <3>1. mama'.at # "aborted" BY <1>2, <2>4 DEF Rw!main, Rw!MamaCreate, Rw!MamaJoin, vars, RwTyped, RwMains
    <3> QED BY <3>1 DEF Rw!WritersCounted
  <2> QED BY <2>1, <2>2, <2>3, <2>4 DEF Rw!Next
<1> QED BY <1>1, <1>2

----------------------------------------------------------------------------
(* The array and its sum                                                   *)

\* One more element of pass n, and the last.
LEMMA RwPassGrows ==
  ASSUME NEW s \in Nat, NEW i \in Nat, NEW n \in Nat, 2 * s = RwTwice(i, n)
  PROVE  /\ 2 * (s + n + 1) = RwTwice(i + 1, n)
         /\ i = MAXTHREADS => 2 * s = RwTwice(0, n + 1)
<1> DEFINE m == MAXTHREADS
<1>0. m \in Nat /\ 2 * s = m * (n * (n + 1)) + 2 * (i * (n + 1))
  BY ThreadMainAssumption DEF RwTwice
<1> HIDE DEF m
<1>1. (i + 1) * (n + 1) = i * (n + 1) + (n + 1)
  OBVIOUS
<1>2. (n + 1) * ((n + 1) + 1) = n * (n + 1) + 2 * (n + 1)
  OBVIOUS
<1>3. m * (n * (n + 1) + 2 * (n + 1)) = m * (n * (n + 1)) + 2 * (m * (n + 1))
  <2> DEFINE p == n * (n + 1)
             q == n + 1
  <2>1. p \in Int /\ q \in Int
    OBVIOUS
  <2> HIDE DEF p, q
  <2>2. m * (p + 2 * q) = m * p + 2 * (m * q)
    BY <1>0, <2>1
  <2> QED BY <2>2 DEF p, q
<1>4. n * (n + 1) \in Nat /\ i * (n + 1) \in Nat /\ m * (n * (n + 1)) \in Nat
  BY <1>0
<1>5. 2 * (s + n + 1) = m * (n * (n + 1)) + 2 * ((i + 1) * (n + 1))
  BY <1>0, <1>1, <1>4
<1>6. ASSUME i = m PROVE 2 * s = m * ((n + 1) * ((n + 1) + 1)) + 2 * (0 * ((n + 1) + 1))
  <2>1. 2 * s = m * ((n + 1) * ((n + 1) + 1)) BY <1>0, <1>2, <1>3, <1>6
  <2>2. 2 * (0 * ((n + 1) + 1)) = 0
    OBVIOUS
  <2>3. m * ((n + 1) * ((n + 1) + 1)) \in Int
    BY <1>0
  <2> QED BY <2>1, <2>2, <2>3
<1> QED BY <1>5, <1>6 DEF RwTwice, m

LEMMA RwPassedKept == RwTyped /\ RwLocked /\ RwSeen /\ RwPassed /\ [Rw!Next]_vars => RwPassed'
<1> USE ThreadMainAssumption DEF Rw!Threads
<1> SUFFICES ASSUME RwTyped, RwLocked, RwSeen, RwPassed, [Rw!Next]_vars PROVE RwPassed'
  OBVIOUS
<1>1. PICK n \in Nat :
        /\ (\A t \in Rw!Threads : pc[t] # "write") => RwPass(0, n)
        /\ \A t \in Rw!Threads : pc[t] = "write" => local[t].i <= MAXTHREADS /\ RwPass(local[t].i, n)
  BY DEF RwPassed
<1>2. ASSUME mem'.array = mem.array, mem'.sum = mem.sum,
             \A t \in Rw!Threads : (pc'[t] = "write" <=> pc[t] = "write")
                                   /\ (pc[t] = "write" => local'[t].i = local[t].i)
      PROVE  RwPassed'
  <2>1. ASSUME \A t \in Rw!Threads : pc'[t] # "write" PROVE RwPass(0, n)'
    <3>1. RwPass(0, n) BY <1>1, <1>2, <2>1
    <3> QED BY <1>2, <3>1 DEF RwPass
  <2>2. ASSUME NEW t \in Rw!Threads, pc'[t] = "write" PROVE local'[t].i <= MAXTHREADS /\ RwPass(local[t].i, n)'
    <3>1. local'[t].i = local[t].i /\ local[t].i <= MAXTHREADS /\ RwPass(local[t].i, n)
      BY <1>1, <1>2, <2>2
    <3> QED BY <1>2, <3>1 DEF RwPass
  <2> QED BY ONLY n \in Nat, <2>1, <2>2 DEF RwPassed
<1>3. ASSUME NEW t \in Rw!Threads, Rw!Choose(t) \/ Rw!arr_read(t) \/ Rw!WrLock(t) \/ Rw!WrUnlock(t) PROVE RwPassed'
  <2>1. mem'.array = mem.array /\ mem'.sum = mem.sum
    BY <1>3 DEF Rw!Choose, Rw!arr_read, Rw!RdLock, Rw!Load, Rw!Joined, Rw!Left, Rw!Check, Rw!PrintElement,
                Rw!PrintSum, Rw!RdUnlock, Rw!WrLock,
                Rw!WrUnlock, RwTyped, RwMemory
  <2>2. \A u \in Rw!Threads : pc'[u] = "write" <=> pc[u] = "write"
    BY <1>3, RwMoves DEF Rw!Choose, Rw!arr_read, Rw!RdLock, Rw!Load, Rw!Joined, Rw!Left, Rw!Check,
                       Rw!PrintElement, Rw!PrintSum, Rw!RdUnlock, Rw!WrLock,
                       Rw!WrUnlock
  <2>3. pc[t] # "write"
    BY <1>3 DEF Rw!Choose, Rw!arr_read, Rw!RdLock, Rw!Load, Rw!Joined, Rw!Left, Rw!Check, Rw!PrintElement,
                Rw!PrintSum, Rw!RdUnlock, Rw!WrLock,
                Rw!WrUnlock, Rw!From
  <2>4. \A u \in Rw!Threads \ {t} : local'[u] = local[u]
    BY <1>3 DEF Rw!Choose, Rw!arr_read, Rw!RdLock, Rw!Load, Rw!Joined, Rw!Left, Rw!Check, Rw!PrintElement,
                Rw!PrintSum, Rw!RdUnlock, Rw!WrLock,
                Rw!WrUnlock, RwTyped
  <2> QED BY <1>2, <2>1, <2>2, <2>3, <2>4
<1>4. ASSUME NEW t \in Rw!Threads, Rw!Enter(t) PROVE RwPassed'
  <2>1. pc[t] = "enter" /\ pc'[t] = "write" /\ \A u \in Rw!Threads \ {t} : pc'[u] = pc[u]
    BY <1>4, RwMoves DEF Rw!Enter
  <2>2. \A u \in Rw!Threads : pc[u] # "write" BY <2>1 DEF RwLocked, Writing
  <2>3. mem'.array = mem.array /\ mem'.sum = mem.sum /\ local' = local /\ local[t].i = 0
    BY <1>4, <2>1 DEF Rw!Enter, RwTyped, RwMemory, RwSeen, RwSeenBy
  <2> QED BY <1>1, <2>1, <2>2, <2>3 DEF RwPass, RwPassed
<1>5. ASSUME NEW t \in Rw!Threads, Rw!WriteElement(t) PROVE RwPassed'
  <2>1. pc[t] = "write" /\ pc'[t] = "write" /\ \A u \in Rw!Threads \ {t} : pc'[u] = pc[u]
    BY <1>5, RwMoves DEF Rw!WriteElement
  <2>2. \A u \in Rw!Threads \ {t} : pc[u] # "write" BY <2>1 DEF RwLocked, Writing
  <2> DEFINE i == local[t].i
  <2>3. i \in Rw!Threads /\ i \in Nat /\ i + 1 <= MAXTHREADS BY <1>5 DEF Rw!WriteElement, Rw!Elements
  <2>4. RwPass(i, n) BY <1>1, <2>1
  <2>5. mem.array \in [Rw!Threads -> Nat] /\ mem.sum \in Nat /\ local[t] \in RwLocals BY DEF RwTyped, RwMemory
  <2>6. mem.array[i] = n BY <2>3, <2>4 DEF RwPass
  <2>7. mem'.sum = mem.sum + n + 1 /\ mem'.array = [mem.array EXCEPT ![i] = n + 1]
    BY <1>5, <2>6 DEF Rw!WriteElement, RwTyped, RwMemory
  <2>8. local'[t].i = i + 1 BY <1>5, <2>5 DEF Rw!WriteElement, RwTyped, RwLocals
  <2> HIDE DEF i
  <2>9. \A e \in Rw!Threads : mem'.array[e] = IF e < i + 1 THEN n + 1 ELSE n
    <3> SUFFICES ASSUME NEW e \in Rw!Threads PROVE mem'.array[e] = IF e < i + 1 THEN n + 1 ELSE n
      OBVIOUS
    <3>1. mem.array[e] = IF e < i THEN n + 1 ELSE n BY <2>4 DEF RwPass
    <3>2. mem'.array[e] = IF e = i THEN n + 1 ELSE mem.array[e] BY ONLY e \in Rw!Threads, <2>5, <2>7
    <3>3. e \in Nat BY ThreadMainAssumption DEF Rw!Threads
    <3>4. e < i + 1 <=> e < i \/ e = i BY ONLY <2>3, <3>3
    <3> QED BY ONLY <3>1, <3>2, <3>4
  <2>10. 2 * mem'.sum = RwTwice(i + 1, n)
    <3>1. 2 * (mem.sum + n + 1) = RwTwice(i + 1, n) BY <2>3, <2>4, <2>5, RwPassGrows DEF RwPass
    <3> QED BY <2>7, <3>1
  <2>11. RwPass(local[t].i, n)'
    <3>1. \A e \in Rw!Threads : mem'.array[e] = IF e < local'[t].i THEN n + 1 ELSE n BY ONLY <2>8, <2>9
    <3>2. 2 * mem'.sum = RwTwice(local'[t].i, n) BY ONLY <2>8, <2>10
    <3> QED BY ONLY <3>1, <3>2 DEF RwPass
  <2>12. \A u \in Rw!Threads : pc'[u] = "write" => u = t BY <2>1, <2>2
  <2>13. local'[t].i <= MAXTHREADS BY ONLY <2>3, <2>8
  <2> QED BY ONLY n \in Nat, t \in Rw!Threads, <2>1, <2>11, <2>12, <2>13 DEF RwPassed
<1>6. ASSUME NEW t \in Rw!Threads, Rw!Exit(t) PROVE RwPassed'
  <2>1. pc[t] = "write" /\ pc'[t] = "wrunlock" /\ \A u \in Rw!Threads \ {t} : pc'[u] = pc[u]
    BY <1>6, RwMoves DEF Rw!Exit
  <2>2. \A u \in Rw!Threads : pc'[u] # "write" BY <2>1 DEF RwLocked, Writing
  <2>3. RwPass(MAXTHREADS, n) BY <1>1, <1>6, <2>1 DEF Rw!Exit
  <2>4. mem'.array = mem.array /\ mem'.sum = mem.sum BY <1>6 DEF Rw!Exit, RwTyped, RwMemory
  <2>5. mem.sum \in Nat BY DEF RwTyped, RwMemory
  <2>6. 2 * mem.sum = RwTwice(0, n + 1)
    BY <2>3, <2>5, RwPassGrows DEF RwPass
  <2>7. \A e \in Rw!Threads : mem.array[e] = n + 1 BY <2>3 DEF RwPass
  <2> QED BY <2>2, <2>4, <2>6, <2>7 DEF RwPass, RwPassed
<1>7. CASE Rw!MamaCreate
  <2>1. mama.i \in Rw!Threads BY DEF RwTyped, RwMains
  <2> QED BY <1>2, <1>7, <2>1, RwMoves DEF Rw!MamaCreate
<1>8. CASE Rw!MamaJoin \/ UNCHANGED vars
  BY <1>2, <1>8 DEF Rw!MamaJoin, vars
<1> QED
  BY <1>3, <1>4, <1>5, <1>6, <1>7, <1>8 DEF Rw!Next, Rw!main, Rw!thread_routine, Rw!arr_write

----------------------------------------------------------------------------
(* What readers print                                                      *)

\* A step of thread t keeps what the others have seen, if it leaves their locals alone, and
\* the array, or there is nobody who reads it.
LEMMA RwSeenByOthers ==
  ASSUME RwSeen, NEW t \in Rw!Threads, \A u \in Rw!Threads \ {t} : local'[u] = local[u] /\ pc'[u] = pc[u],
         mem'.array = mem.array \/ \A u \in Rw!Threads \ {t} : pc[u] # "print"
  PROVE  \A u \in Rw!Threads \ {t} : RwSeenBy(u)'
<1> SUFFICES ASSUME NEW u \in Rw!Threads \ {t} PROVE RwSeenBy(u)'
  OBVIOUS
<1>1. local'[u] = local[u] /\ pc'[u] = pc[u]
  OBVIOUS
<1>2. RwSeenBy(u)
  BY DEF RwSeen
<1>3. pc[u] = "print" => \A e \in Rw!Threads : e < local[u].i => local[u].seen.array[e] = mem'.array[e]
  BY <1>2 DEF RwSeenBy
<1> QED BY <1>1, <1>2, <1>3 DEF RwSeenBy

LEMMA RwSeenKept == RwTyped /\ RwLocked /\ RwPassed /\ RwSeen /\ [Rw!Next]_vars => RwSeen'
<1> USE ThreadMainAssumption DEF Rw!Threads
<1> SUFFICES ASSUME RwTyped, RwLocked, RwPassed, RwSeen, [Rw!Next]_vars PROVE RwSeen'
  OBVIOUS
<1>1. \A t \in Rw!Threads : local[t] \in RwLocals /\ local[t].seen \in RwPrints /\ local[t].i \in Nat
  BY DEF RwTyped, RwLocals
<1>2. ASSUME NEW t \in Rw!Threads, Rw!thread_routine(t)
      PROVE  \A u \in Rw!Threads \ {t} : local'[u] = local[u] /\ pc'[u] = pc[u]
  <2>1. \A u \in Rw!Threads \ {t} : pc'[u] = pc[u]
    BY <1>2, RwMoves DEF Rw!thread_routine, Rw!arr_read, Rw!arr_write, Rw!Choose, Rw!RdLock, Rw!Load, Rw!Joined,
                       Rw!Left, Rw!Check, Rw!PrintElement,
         Rw!PrintSum, Rw!RdUnlock, Rw!WrLock, Rw!Enter, Rw!WriteElement, Rw!Exit, Rw!WrUnlock
  <2>2. \A u \in Rw!Threads \ {t} : local'[u] = local[u]
    BY <1>2 DEF Rw!thread_routine, Rw!arr_read, Rw!arr_write, Rw!Choose, Rw!RdLock, Rw!Load, Rw!Joined,
                Rw!Left, Rw!Check, Rw!PrintElement,
         Rw!PrintSum, Rw!RdUnlock, Rw!WrLock, Rw!Enter, Rw!WriteElement, Rw!Exit, Rw!WrUnlock, RwTyped
  <2> QED BY <2>1, <2>2
<1>3. ASSUME NEW t \in Rw!Threads, Rw!thread_routine(t), ~Rw!WriteElement(t) PROVE mem'.array = mem.array
  BY <1>3 DEF Rw!thread_routine, Rw!arr_read, Rw!arr_write, Rw!Choose, Rw!RdLock, Rw!Load, Rw!Joined, Rw!Left,
              Rw!Check, Rw!PrintElement,
       Rw!PrintSum, Rw!RdUnlock, Rw!WrLock, Rw!Enter, Rw!Exit, Rw!WrUnlock, RwTyped, RwMemory
<1>4. ASSUME NEW t \in Rw!Threads, Rw!thread_routine(t) PROVE mem'.array = mem.array
             \/ \A u \in Rw!Threads \ {t} : pc[u] # "print"
  <2>1. CASE Rw!WriteElement(t)
    <3>1. pc[t] = "write" BY <2>1 DEF Rw!WriteElement, Rw!From
    <3> QED BY <3>1 DEF RwLocked, Reading, Writing
  <2> QED BY <1>3, <1>4, <2>1
<1>5. ASSUME NEW t \in Rw!Threads, Rw!thread_routine(t), RwSeenBy(t)' PROVE RwSeen'
  <2>1. \A u \in Rw!Threads \ {t} : RwSeenBy(u)'
    BY <1>2, <1>4, <1>5, RwSeenByOthers
  <2> QED BY <1>5, <2>1 DEF RwSeen
<1>6. ASSUME NEW t \in Rw!Threads, local'[t].seen = local[t].seen, local'[t].i = local[t].i, Rw!thread_routine(t),
             pc'[t] \notin {"join", "enter", "print"}, pc'[t] \in {"joining", "check"}
               => pc[t] \in {"join", "joining"}
      PROVE  RwSeen'
  <2>1. RwSeenBy(t) BY DEF RwSeen
  <2>2. pc'[t] \in {"joining", "check"} => local'[t].seen.sum = Rw!Unseen /\ local'[t].i = 0
    BY <1>6, <2>1 DEF RwSeenBy
  <2>3. RwSeenBy(t)'
    <3>1. local'[t].seen.sum # Rw!Unseen => RwComplete(local'[t].seen) BY <1>6, <2>1 DEF RwSeenBy
    <3> QED BY ONLY <1>6, <2>2, <3>1 DEF RwSeenBy
  <2> QED BY <1>5, <1>6, <2>3
<1>7. ASSUME NEW t \in Rw!Threads, Rw!Choose(t) PROVE RwSeen'
  BY <1>6, <1>7, RwMoves DEF Rw!Choose, Rw!thread_routine
<1>8. ASSUME NEW t \in Rw!Threads, Rw!RdLock(t) PROVE RwSeen'
  <2>1. pc'[t] = "join" BY <1>8, RwMoves DEF Rw!RdLock
  <2>2. local'[t].seen = Rw!Nothing /\ local'[t].i = 0 BY <1>1, <1>8 DEF Rw!RdLock, RwTyped, RwLocals
  <2> QED BY <1>5, <1>8, <2>1, <2>2 DEF Rw!Nothing, RwSeenBy, Rw!thread_routine, Rw!arr_read
<1>9. ASSUME NEW t \in Rw!Threads, Rw!Load(t) \/ Rw!RdUnlock(t) PROVE RwSeen'
  <2>1. local'[t].seen = local[t].seen /\ local'[t].i = local[t].i
    BY <1>1, <1>9 DEF Rw!Load, Rw!RdUnlock, RwTyped, RwLocals
  <2>2. pc'[t] \in {"joining", "leaving", "start"} /\ (pc'[t] = "joining" => pc[t] = "join")
    BY <1>9, RwMoves DEF Rw!Load, Rw!RdUnlock
  <2> QED BY <1>6, <1>9, <2>1, <2>2 DEF Rw!thread_routine, Rw!arr_read
<1>10. ASSUME NEW t \in Rw!Threads, Rw!Joined(t) \/ Rw!Left(t) \/ Rw!Exit(t) PROVE RwSeen'
  <2>1. local' = local BY <1>10 DEF Rw!Joined, Rw!Left, Rw!Exit
  <2>2. pc'[t] \in {"check", "rdunlock", "wrunlock"} /\ (pc'[t] = "check" => pc[t] = "joining")
    BY <1>10, RwMoves DEF Rw!Joined, Rw!Left, Rw!Exit
  <2> QED BY <1>6, <1>10, <2>1, <2>2 DEF Rw!thread_routine, Rw!arr_read, Rw!arr_write
<1>11. ASSUME NEW t \in Rw!Threads, Rw!Check(t) PROVE RwSeen'
  <2>1. pc[t] = "check" /\ pc'[t] = "print" BY <1>11, RwMoves DEF Rw!Check
  <2>2. local' = local /\ local[t].seen.sum = Rw!Unseen /\ local[t].i = 0 BY <1>11, <2>1 DEF Rw!Check, RwSeen,
                                                                                             RwSeenBy
  <2> QED BY <1>5, <1>11, <2>1, <2>2 DEF RwSeenBy, Rw!thread_routine, Rw!arr_read
<1>12. ASSUME NEW t \in Rw!Threads, Rw!PrintElement(t) PROVE RwSeen'
  <2> DEFINE i == local[t].i
  <2>1. pc[t] = "print" /\ pc'[t] = "print" BY <1>12, RwMoves DEF Rw!PrintElement
  <2>2. mem' = mem /\ i \in Rw!Threads BY <1>12 DEF Rw!PrintElement, Rw!Elements
  <2>3. local'[t].seen = [local[t].seen EXCEPT !.array = [local[t].seen.array EXCEPT ![i] = mem.array[i]]]
        /\ local'[t].i = i + 1
    BY <1>1, <1>12 DEF Rw!PrintElement, RwTyped, RwLocals
  <2>4. local[t].seen.array \in [Rw!Threads -> Int] BY <1>1 DEF RwPrints
  <2>5. local'[t].seen.sum = local[t].seen.sum
        /\ local'[t].seen.array = [local[t].seen.array EXCEPT ![i] = mem.array[i]]
    BY <1>1, <2>3 DEF RwPrints
  <2>6. local[t].seen.sum = Rw!Unseen /\ \A e \in Rw!Threads : e < i => local[t].seen.array[e] = mem.array[e]
    BY <2>1 DEF RwSeen, RwSeenBy
  <2> HIDE DEF i
  <2>7. \A e \in Rw!Threads : e < i + 1 => local'[t].seen.array[e] = mem'.array[e]
    <3> SUFFICES ASSUME NEW e \in Rw!Threads, e < i + 1 PROVE local'[t].seen.array[e] = mem'.array[e]
      OBVIOUS
    <3>1. e \in Nat /\ i \in Nat BY <2>2
    <3>2. e < i \/ e = i BY ONLY <3>1, e < i + 1
    <3>3. local'[t].seen.array[e] = IF e = i THEN mem.array[i] ELSE local[t].seen.array[e]
      BY ONLY e \in Rw!Threads, <2>4, <2>5
    <3> QED BY ONLY e \in Rw!Threads, <2>2, <2>6, <3>2, <3>3
  <2>8. RwSeenBy(t)'
    <3>1. local'[t].seen.sum = Rw!Unseen /\ local'[t].i = i + 1 BY ONLY <2>3, <2>5, <2>6
    <3> QED BY ONLY <2>1, <2>7, <3>1 DEF RwSeenBy
  <2> QED BY <1>5, <1>12, <2>8 DEF Rw!thread_routine, Rw!arr_read
<1>13. ASSUME NEW t \in Rw!Threads, Rw!PrintSum(t) PROVE RwSeen'
  <2>1. pc[t] = "print" /\ pc'[t] = "leave" /\ local[t].i = MAXTHREADS BY <1>13, RwMoves DEF Rw!PrintSum
  <2>2. local'[t].seen = [local[t].seen EXCEPT !.sum = mem.sum] /\ local[t].seen.array \in [Rw!Threads -> Int]
    BY <1>1, <1>13 DEF Rw!PrintSum, RwTyped, RwLocals, RwPrints
  <2>3. local'[t].seen.array = local[t].seen.array /\ local'[t].seen.sum = mem.sum
    BY <1>1, <2>2 DEF RwPrints
  <2>4. \A u \in Rw!Threads : pc[u] # "write" BY <2>1 DEF RwLocked, Reading, Writing
  <2>5. PICK n \in Nat : RwPass(0, n) BY <2>4 DEF RwPassed
  <2>6. \A e \in Rw!Threads : local[t].seen.array[e] = n BY <2>1, <2>5 DEF RwSeen, RwSeenBy, RwPass
  <2>7. local[t].seen.array = [e \in Rw!Threads |-> n] BY <2>2, <2>6
  <2>8. 2 * mem.sum = MAXTHREADS * (n * (n + 1))
    <3>1. 2 * mem.sum = MAXTHREADS * (n * (n + 1)) + 2 * (0 * (n + 1)) BY <2>5 DEF RwPass, RwTwice
    <3>2. MAXTHREADS * (n * (n + 1)) \in Int /\ 2 * (0 * (n + 1)) = 0
      OBVIOUS
    <3> QED BY <3>1, <3>2
  <2>9. RwComplete(local'[t].seen) BY <2>3, <2>7, <2>8 DEF RwComplete
  <2> QED BY <1>5, <1>13, <2>1, <2>9 DEF RwSeenBy, Rw!thread_routine, Rw!arr_read
<1>14. ASSUME NEW t \in Rw!Threads, Rw!WrLock(t) PROVE RwSeen'
  <2>1. pc'[t] = "enter" BY <1>14, RwMoves DEF Rw!WrLock
  <2>2. local'[t].seen = local[t].seen /\ local'[t].i = 0 BY <1>1, <1>14 DEF Rw!WrLock, RwTyped, RwLocals
  <2>3. RwSeenBy(t)
    BY DEF RwSeen
  <2>4. RwSeenBy(t)'
    BY <2>1, <2>2, <2>3 DEF RwSeenBy
  <2> QED BY <1>5, <1>14, <2>4 DEF Rw!thread_routine, Rw!arr_write
<1>15. ASSUME NEW t \in Rw!Threads, Rw!Enter(t) \/ Rw!WriteElement(t) \/ Rw!WrUnlock(t) PROVE RwSeen'
  <2>1. pc'[t] \in {"write", "start"} BY <1>15, RwMoves DEF Rw!Enter, Rw!WriteElement, Rw!WrUnlock
  <2>2. local'[t].seen = local[t].seen BY <1>1, <1>15 DEF Rw!Enter, Rw!WriteElement, Rw!WrUnlock, RwTyped, RwLocals
  <2>3. RwSeenBy(t)
    BY DEF RwSeen
  <2>4. RwSeenBy(t)'
    BY <2>1, <2>2, <2>3 DEF RwSeenBy
  <2> QED BY <1>5, <1>15, <2>4 DEF Rw!thread_routine, Rw!arr_write
<1>16. CASE Rw!MamaCreate
  <2>1. mama.i \in Rw!Threads BY DEF RwTyped, RwMains
  <2>2. \A t \in Rw!Threads : pc'[t] = pc[t] \/ pc'[t] = "start" BY <1>16, <2>1, RwMoves DEF Rw!MamaCreate
  <2>3. local' = local /\ mem' = mem BY <1>16 DEF Rw!MamaCreate
  <2> QED BY <2>2, <2>3 DEF RwSeen, RwSeenBy, RwComplete
<1>17. CASE Rw!MamaJoin \/ UNCHANGED vars
  <2>1. mem' = mem /\ pc' = pc /\ local' = local BY <1>17 DEF Rw!MamaJoin, vars
  <2> SUFFICES ASSUME NEW t \in Rw!Threads PROVE RwSeenBy(t)'
    BY DEF RwSeen
  <2>2. RwSeenBy(t) BY DEF RwSeen
  <2> QED BY ONLY <2>1, <2>2 DEF RwSeenBy, RwComplete
<1> QED
  BY <1>7, <1>8, <1>9, <1>10, <1>11, <1>12, <1>13, <1>14, <1>15, <1>16, <1>17
  DEF Rw!Next, Rw!main, Rw!thread_routine, Rw!arr_read, Rw!arr_write

----------------------------------------------------------------------------
LEMMA RwPreserved == RwIInv /\ [Rw!Next]_vars => RwIInv'
BY RwTypedKept, RwLockedKept, RwCountedKept, RwAssertionsKept, RwPassedKept, RwSeenKept DEF RwIInv

\* The invariant of whichever program runs.
RwGuarded == program = "rwlock" => RwIInv

LEMMA RwGuardedInvariant == Spec => []RwGuarded
<1>1. Init => RwGuarded
  BY RwInitially DEF Init, RwGuarded
<1>2. RwGuarded /\ [Next]_<<program, vars>> => RwGuarded'
  <2> SUFFICES ASSUME RwGuarded, [Next]_<<program, vars>>, program' = "rwlock" PROVE RwIInv'
    BY DEF RwGuarded
  <2>1. program = "rwlock" /\ [Rw!Next]_vars
    BY DEF Next, Running
  <2> QED BY <2>1, RwPreserved DEF RwGuarded
<1> QED BY <1>1, <1>2, PTL DEF Spec

\* For any number of threads and rounds: the write lock keeps the count of writers right,
\* and the only assertion of the program that can fail is the one on readers.
THEOREM WritersAlone == Spec => []WritersCounted
<1>1. RwGuarded => WritersCounted
  BY DEF RwGuarded, RwIInv, WritersCounted
<1> QED BY RwGuardedInvariant, <1>1, PTL

\* Whatever readers and writers there are, arr_read prints one state of the array.
THEOREM PrintsAreWhole == Spec => []SnapshotWhole
<1>1. RwIInv => Rw!SnapshotWhole
  <2> SUFFICES ASSUME RwIInv, NEW t \in Rw!Threads, local[t].seen.sum # Rw!Unseen
               PROVE  LET print == local[t].seen
                          n == print.array[0]
                      IN  print.array = [e \in Rw!Elements |-> n] /\ 2 * print.sum = MAXTHREADS * (n * (n + 1))
    BY DEF Rw!SnapshotWhole
  <2>1. PICK n \in Nat : local[t].seen.array = [e \in Rw!Threads |-> n]
                         /\ 2 * local[t].seen.sum = MAXTHREADS * (n * (n + 1))
    BY DEF RwIInv, RwSeen, RwSeenBy, RwComplete
  <2>2. 0 \in Rw!Threads BY ThreadMainAssumption DEF Rw!Threads
  <2>3. local[t].seen.array[0] = n BY <2>1, <2>2
  <2> QED BY <2>1, <2>3 DEF Rw!Elements
<1>2. RwGuarded => SnapshotWhole
  BY <1>1 DEF RwGuarded, SnapshotWhole
<1> QED BY RwGuardedInvariant, <1>2, PTL
=============================================================================
