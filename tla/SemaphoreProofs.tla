--------------------------- MODULE SemaphoreProofs ----------------------------
(* What the programs of MCSemaphores promise, however many processes run     *)
(* them and whichever of them is killed: shared_sysv.c keeps its mailbox and *)
(* gets its semaphores back, and each semaphore of the menus is a pool.      *)
EXTENDS MCSemaphores, FiniteSetTheorems, WellFoundedInduction, TLAPS

----------------------------------------------------------------------------
(* shared_sysv.c                                                           *)

MailPlaces == {"wait", "print", "post", "menu", "enter", "exited", "killed", "aborted"}

\* The types, and the ranges that the kernel keeps the sums in.
MailTyped ==
  /\ semval \in [Sems -> 0 .. SEMAEM] /\ semadj \in [Procs -> [Sems -> (-SEMAEM - 1) .. SEMAEM]]
  /\ pc \in [Procs -> MailPlaces] /\ removed \in BOOLEAN /\ undone \in BOOLEAN /\ clamped \in BOOLEAN

\* Only the end of the server removes the set.
RemovedByServer == removed => pc[Server] = "exited"

\* A client takes EMPTY and gives FULL, the server the other way round: a process in
\* its turn has taken what its end would give back, and no process has given more than
\* it took.
Owing ==
  /\ \A p \in Procs : semadj[p]["EMPTY"] + semadj[p]["FULL"] >= (IF Holds(p) THEN 1 ELSE 0)
  /\ \A c \in Clients : semadj[c]["EMPTY"] >= (IF Holds(c) THEN 1 ELSE 0)
  /\ semadj[Server]["FULL"] >= (IF Holds(Server) THEN 1 ELSE 0)

\* The slot is empty, full, or in somebody's turn.
Empty ==
  /\ semval["EMPTY"] = 1 /\ semval["FULL"] = 0 /\ posted = printed
  /\ \A p \in Procs : ~Holds(p)
Full ==
  /\ semval["EMPTY"] = 0 /\ semval["FULL"] = 1 /\ posted = Append(printed, buffer)
  /\ \A p \in Procs : ~Holds(p)
InTurn(p) ==
  /\ semval["EMPTY"] = 0 /\ semval["FULL"] = 0
  /\ \A q \in Procs : Holds(q) <=> q = p
  /\ posted = (IF pc[p] = "print" THEN Append(printed, buffer) ELSE printed)

OneSlot == ~undone /\ ~removed => Empty \/ Full \/ \E p \in Procs : InTurn(p)

\* total says of each set of processes what their ends would add to s.
Adds(total, s) ==
  /\ total \in [SUBSET Procs -> Int] /\ total[{}] = 0
  /\ \A T \in SUBSET Procs : \A p \in Procs \ T : total[T \cup {p}] = total[T] + semadj[p][s]

\* The sums are taken from the first values.
Restored ==
  ~clamped /\ ~removed =>
    \A s \in Sems : \E total : Adds(total, s) /\ semval[s] + total[Procs] = Initially[s]

MailInv == MailTyped /\ RemovedByServer /\ Owing /\ OneSlot /\ Restored

----------------------------------------------------------------------------
(* What the ends of all processes add                                      *)

LEMMA ProcsFinite == IsFiniteSet(Procs)
BY SharedSysvAssumption, FS_AddElement DEF Procs

\* A function that adds one process at a time is the sum over all of them.
LEMMA AddsUp ==
  ASSUME MailTyped, NEW s \in Sems, NEW total, Adds(total, s)
  PROVE  Adjustments(s) = total[Procs]
<1> DEFINE some(S) == CHOOSE x \in S : TRUE
           Step(f, S) == IF S = {} THEN 0 ELSE semadj[some(S)][s] + f[S \ {some(S)}]
           Recurs(f) == f = [S \in SUBSET Procs |-> Step(f, S)]
           sum == CHOOSE f : Recurs(f)
           Differ == {S \in SUBSET Procs : sum[S] # total[S]}
<1>1. Adjustments(s) = sum[Procs]
  BY DEF Adjustments, MapThenSumSet, MapThenFoldSet
<1>2. ASSUME NEW S \in SUBSET Procs, S # {}
      PROVE  some(S) \in S /\ total[S] = Step(total, S)
  <2>1. some(S) \in S BY <1>2
  <2> HIDE DEF some
  <2>2. S \ {some(S)} \in SUBSET Procs /\ some(S) \in Procs \ (S \ {some(S)}) /\ (S \ {some(S)}) \cup {some(S)} = S
    BY <2>1
  <2>3. total[S] = total[S \ {some(S)}] + semadj[some(S)][s] /\ total[S \ {some(S)}] \in Int
    BY <2>2 DEF Adds
  <2>4. semadj[some(S)][s] \in Int
    BY <2>2, SharedSysvAssumption DEF MailTyped
  <2> QED BY <1>2, <2>1, <2>3, <2>4
<1> HIDE DEF some
<1>3. Recurs(total)
  <2>1. \A S \in SUBSET Procs : total[S] = Step(total, S) BY <1>2 DEF Adds
  <2>2. total = [S \in SUBSET Procs |-> total[S]] BY DEF Adds
  <2> QED BY <2>1, <2>2
<1>4. Recurs(sum)
  <2> HIDE DEF Recurs
  <2> QED BY <1>3
<1> HIDE DEF sum
<1>5. \A S \in SUBSET Procs : sum[S] = Step(sum, S)
  BY <1>4
<1>6. Differ = {}
  <2> SUFFICES ASSUME Differ # {} PROVE FALSE
    OBVIOUS
  <2>1. Differ \subseteq FiniteSubsetsOf(Procs)
    BY ProcsFinite, FS_Subset DEF FiniteSubsetsOf
  <2>2. PICK S \in Differ : \A T \in Differ : <<T, S>> \notin StrictSubsetOrdering(Procs)
    <3> HIDE DEF Differ
    <3> QED BY <2>1, FS_StrictSubsetOrderingWellFounded, WFMin
  <2>3. CASE S = {}
    BY <1>5, <2>3 DEF Adds
  <2>4. CASE S # {}
    <3>1. some(S) \in S /\ total[S] = Step(total, S) BY <1>2, <2>4
    <3>2. S \ {some(S)} \in SUBSET S /\ S \ {some(S)} # S /\ S \in SUBSET Procs BY <3>1
    <3>3. <<S \ {some(S)}, S>> \in StrictSubsetOrdering(Procs) BY <3>2 DEF StrictSubsetOrdering
    <3>4. sum[S \ {some(S)}] = total[S \ {some(S)}] BY <2>2, <3>2, <3>3
    <3>5. sum[S] = Step(sum, S) BY <1>5
    <3> QED BY <2>4, <3>1, <3>4, <3>5
  <2> QED BY <2>3, <2>4
<1> QED BY <1>1, <1>6

\* The sum follows a change of one process's adjustment.
LEMMA Shifted ==
  ASSUME NEW p \in Procs, NEW s \in Sems, NEW total, Adds(total, s), NEW d \in Int,
         \A q \in Procs : semadj[q][s] \in Int /\ semadj'[q][s] = IF q = p THEN semadj[q][s] + d ELSE semadj[q][s]
  PROVE  \E t : Adds(t, s)' /\ t[Procs] = total[Procs] + d
<1> DEFINE t == [T \in SUBSET Procs |-> total[T] + IF p \in T THEN d ELSE 0]
<1>1. t \in [SUBSET Procs -> Int] /\ t[{}] = 0
  BY DEF Adds
<1>2. ASSUME NEW T \in SUBSET Procs, NEW q \in Procs \ T
      PROVE  t[T \cup {q}] = t[T] + semadj'[q][s]
  <2>1. total[T \cup {q}] = total[T] + semadj[q][s] /\ total[T] \in Int BY DEF Adds
  <2>2. semadj[q][s] \in Int /\ semadj'[q][s] = IF q = p THEN semadj[q][s] + d ELSE semadj[q][s] OBVIOUS
  <2>3. t[T \cup {q}] = total[T \cup {q}] + IF p \in T \cup {q} THEN d ELSE 0 OBVIOUS
  <2>4. t[T] = total[T] + IF p \in T THEN d ELSE 0 OBVIOUS
  <2> QED BY <2>1, <2>2, <2>3, <2>4
<1>3. t[Procs] = total[Procs] + d
  OBVIOUS
<1> HIDE DEF t
<1>4. Adds(t, s)'
  BY <1>1, <1>2 DEF Adds
<1> QED BY <1>3, <1>4

\* An operation moves what it takes from a semaphore to its process.
LEMMA OperationRestores ==
  ASSUME MailTyped, Restored, NEW p \in Procs, NEW s \in Sems, NEW d \in {1, -1},
         semval' = [semval EXCEPT ![s] = @ - d], semadj' = [semadj EXCEPT ![p][s] = @ + d],
         UNCHANGED <<removed, clamped>>
  PROVE  Restored'
<1> SUFFICES ASSUME ~clamped, ~removed, NEW r \in Sems
             PROVE  \E total : Adds(total, r)' /\ semval'[r] + total[Procs] = Initially[r]
  BY DEF Restored
<1>1. PICK total : Adds(total, r) /\ semval[r] + total[Procs] = Initially[r]
  BY DEF Restored
<1> DEFINE e == IF r = s THEN d ELSE 0
<1>2. e \in Int /\ semval'[r] = semval[r] - e /\ semval[r] \in Int /\ total[Procs] \in Int
  <2>1. e \in Int /\ semval[r] \in Int BY DEF MailTyped
  <2>2. total[Procs] \in Int BY <1>1 DEF Adds
  <2>3. semval'[r] = IF r = s THEN semval[r] - d ELSE semval[r] BY DEF MailTyped
  <2> QED BY <2>1, <2>2, <2>3
<1>3. \A q \in Procs : semadj[q][r] \in Int /\ semadj'[q][r] = IF q = p THEN semadj[q][r] + e ELSE semadj[q][r]
  BY SharedSysvAssumption DEF MailTyped
<1> HIDE DEF e
<1>4. PICK t : Adds(t, r)' /\ t[Procs] = total[Procs] + e
  BY <1>1, <1>2, <1>3, Shifted
<1>5. semval'[r] + t[Procs] = Initially[r]
  BY <1>1, <1>2, <1>4
<1> QED BY <1>4, <1>5

\* The ends of all processes of a set together give back no less than nothing.
LEMMA NothingOwed ==
  ASSUME MailTyped, Owing, NEW e, NEW f, Adds(e, "EMPTY"), Adds(f, "FULL"), NEW T \in SUBSET Procs
  PROVE  e[T] + f[T] >= 0
<1> DEFINE Short == {S \in SUBSET Procs : ~(e[S] + f[S] >= 0)}
<1> SUFFICES ASSUME Short # {} PROVE FALSE
  OBVIOUS
<1>1. Short \subseteq FiniteSubsetsOf(Procs)
  BY ProcsFinite, FS_Subset DEF FiniteSubsetsOf
<1>2. PICK S \in Short : \A R \in Short : <<R, S>> \notin StrictSubsetOrdering(Procs)
  <2> HIDE DEF Short
  <2> QED BY <1>1, FS_StrictSubsetOrderingWellFounded, WFMin
<1>3. PICK p : p \in S
  <2>1. e[{}] = 0 /\ f[{}] = 0 BY DEF Adds
  <2>2. S # {} BY <1>2, <2>1
  <2> QED BY <2>2
<1>4. S \ {p} \in SUBSET S /\ S \ {p} # S /\ S \ {p} \in SUBSET Procs /\ p \in Procs \ (S \ {p}) /\ (S \ {p}) \cup {p} = S
  BY <1>3
<1>5. S \ {p} \notin Short
  BY <1>2, <1>4 DEF StrictSubsetOrdering
<1>6. e[S] = e[S \ {p}] + semadj[p]["EMPTY"] /\ e[S \ {p}] \in Int
  BY <1>4 DEF Adds
<1>7. f[S] = f[S \ {p}] + semadj[p]["FULL"] /\ f[S \ {p}] \in Int
  BY <1>4 DEF Adds
<1>8. semadj[p]["EMPTY"] \in Int /\ semadj[p]["FULL"] \in Int /\ semadj[p]["EMPTY"] + semadj[p]["FULL"] >= 0
  BY <1>4, SharedSysvAssumption DEF MailTyped, Owing, Sems
<1>9. e[S \ {p}] + f[S \ {p}] >= 0
  BY <1>4, <1>5
<1>10. ~(e[S] + f[S] >= 0)
  BY <1>2
<1> QED BY <1>6, <1>7, <1>8, <1>9, <1>10

\* What an undo does to the values and the sums.
LEMMA UndoneValues ==
  ASSUME MailTyped, NEW p \in Procs, Undo(p)
  PROVE  /\ semval' \in [Sems -> 0 .. SEMAEM] /\ semadj' = [semadj EXCEPT ![p] = [s \in Sems |-> 0]]
         /\ undone' \in BOOLEAN /\ clamped' \in BOOLEAN
         /\ ~removed => \A s \in Sems : semval'[s] = Capped(semval[s] + semadj[p][s])
         /\ ~removed /\ ~clamped' => ~clamped /\ \A s \in Sems : semval[s] + semadj[p][s] >= 0
         /\ ~removed /\ ~undone' => ~undone /\ semval' = semval /\ \A s \in Sems : semadj[p][s] = 0
<1>1. \A s \in Sems : semval[s] \in 0 .. SEMAEM /\ semadj[p][s] \in Int
  BY SharedSysvAssumption DEF MailTyped
<1>2. \A n \in Int : Capped(n) \in 0 .. SEMAEM /\ (n \in 0 .. SEMAEM => Capped(n) = n)
  BY SharedSysvAssumption DEF Capped
<1>3. \A s \in Sems : semval'[s] = IF removed THEN semval[s] ELSE Capped(semval[s] + semadj[p][s])
  BY DEF Undo
<1>4. semval' = [s \in Sems |-> semval'[s]] /\ semval = [s \in Sems |-> semval[s]]
  BY DEF Undo, MailTyped
<1>5. semval' \in [Sems -> 0 .. SEMAEM]
  <2>1. \A s \in Sems : semval[s] + semadj[p][s] \in Int BY <1>1
  <2> QED BY <1>1, <1>2, <1>3, <1>4, <2>1
<1>6. ASSUME ~removed, ~clamped'
      PROVE  ~clamped /\ \A s \in Sems : semval[s] + semadj[p][s] >= 0
  <2>1. ~clamped /\ \A s \in Sems : ~(semval[s] + semadj[p][s] < 0) BY <1>6, Zenon DEF Undo
  <2> QED BY <1>1, <2>1
<1>7. ASSUME ~removed, ~undone'
      PROVE  ~undone /\ semval' = semval /\ \A s \in Sems : semadj[p][s] = 0
  <2>1. ~undone /\ \A s \in Sems : semadj[p][s] = 0 BY <1>7 DEF Undo
  <2>2. \A s \in Sems : semval'[s] = semval[s]
    <3> SUFFICES ASSUME NEW s \in Sems PROVE semval'[s] = semval[s]
      OBVIOUS
    <3>1. semval'[s] = Capped(semval[s] + 0) BY <1>3, <1>7, <2>1
    <3> QED BY <1>1, <1>2, <3>1
  <2> QED BY <1>4, <2>1, <2>2
<1>8. undone' \in BOOLEAN /\ clamped' \in BOOLEAN /\ semadj' = [semadj EXCEPT ![p] = [s \in Sems |-> 0]]
  BY DEF Undo, MailTyped
<1> QED BY <1>3, <1>5, <1>6, <1>7, <1>8

\* Until the kernel cuts a value off at zero, it does not cut one off at the other end.
LEMMA NoneTooGreat ==
  ASSUME MailTyped, Owing, Restored, NEW p \in Procs, ~removed, ~clamped,
         \A s \in Sems : semval[s] + semadj[p][s] >= 0
  PROVE  \A s \in Sems : Capped(semval[s] + semadj[p][s]) = semval[s] + semadj[p][s]
<1>0. "EMPTY" \in Sems /\ "FULL" \in Sems /\ Sems = {"EMPTY", "FULL"}
  BY DEF Sems
<1>1. PICK e : Adds(e, "EMPTY") /\ semval["EMPTY"] + e[Procs] = 1
  BY <1>0 DEF Restored, Initially
<1>2. PICK f : Adds(f, "FULL") /\ semval["FULL"] + f[Procs] = 0
  BY <1>0 DEF Restored, Initially
<1> DEFINE rest == Procs \ {p}
<1>3. rest \in SUBSET Procs /\ p \in Procs \ rest /\ rest \cup {p} = Procs
  OBVIOUS
<1> HIDE DEF rest
<1>4. e[Procs] = e[rest] + semadj[p]["EMPTY"] /\ e[rest] \in Int
  BY <1>1, <1>3 DEF Adds
<1>5. f[Procs] = f[rest] + semadj[p]["FULL"] /\ f[rest] \in Int
  BY <1>2, <1>3 DEF Adds
<1>6. e[rest] + f[rest] >= 0
  BY <1>1, <1>2, <1>3, NothingOwed
<1>7. \A s \in Sems : semval[s] \in Int /\ semadj[p][s] \in Int
  BY SharedSysvAssumption DEF MailTyped
<1>8. \A s \in Sems : semval[s] + semadj[p][s] \in 0 .. 1
  <2> DEFINE gain(s) == semval[s] + semadj[p][s]
  <2>1. \A s \in Sems : gain(s) \in Int /\ gain(s) >= 0 BY <1>7
  <2>2. gain("EMPTY") + e[rest] = 1 /\ gain("FULL") + f[rest] = 0
    BY <1>0, <1>1, <1>2, <1>4, <1>5, <1>7
  <2> HIDE DEF gain
  <2>3. gain("EMPTY") \in 0 .. 1 /\ gain("FULL") \in 0 .. 1
    BY <1>0, <1>4, <1>5, <1>6, <2>1, <2>2
  <2>4. \A s \in Sems : gain(s) \in 0 .. 1 BY <1>0, <2>3
  <2> QED BY <2>4 DEF gain
<1>9. \A n \in 0 .. 1 : Capped(n) = n
  BY SharedSysvAssumption DEF Capped
<1> QED BY <1>8, <1>9

\* The end of a process takes back what it moved, unless the kernel cuts it off.
LEMMA EndRestores ==
  ASSUME MailTyped, Owing, Restored, NEW p \in Procs, Undo(p), removed' = removed
  PROVE  Restored'
<1> SUFFICES ASSUME ~clamped', ~removed, NEW r \in Sems
             PROVE  \E total : Adds(total, r)' /\ semval'[r] + total[Procs] = Initially[r]
  BY DEF Restored
<1>0. ~clamped /\ semval'[r] = semval[r] + semadj[p][r] /\ semadj' = [semadj EXCEPT ![p] = [s \in Sems |-> 0]]
  BY UndoneValues, NoneTooGreat
<1>1. PICK total : Adds(total, r) /\ semval[r] + total[Procs] = Initially[r]
  BY <1>0 DEF Restored
<1>2. semval[r] \in Int /\ total[Procs] \in Int /\ semadj[p][r] \in Int /\ -semadj[p][r] \in Int
  BY <1>1, SharedSysvAssumption DEF MailTyped, Adds
<1>3. \A q \in Procs : /\ semadj[q][r] \in Int
                       /\ semadj'[q][r] = IF q = p THEN semadj[q][r] + (-semadj[p][r]) ELSE semadj[q][r]
  BY <1>0, SharedSysvAssumption DEF MailTyped
<1>4. PICK t : Adds(t, r)' /\ t[Procs] = total[Procs] + (-semadj[p][r])
  BY <1>1, <1>2, <1>3, Shifted
<1>5. semval'[r] + t[Procs] = Initially[r]
  BY <1>0, <1>1, <1>2, <1>4
<1> QED BY <1>4, <1>5

----------------------------------------------------------------------------
(* The steps of shared_sysv.c                                              *)

LEMMA SumsRange == -1 \in (-SEMAEM - 1) .. SEMAEM /\ 0 \in (-SEMAEM - 1) .. SEMAEM /\ SEMAEM \in Nat
BY SharedSysvAssumption

LEMMA Locked ==
  ASSUME MailTyped, Restored, NEW p \in Procs, NEW s \in Sems, locksem(p, s), UNCHANGED <<removed, clamped>>
  PROVE  /\ semval' \in [Sems -> 0 .. SEMAEM] /\ semadj' \in [Procs -> [Sems -> (-SEMAEM - 1) .. SEMAEM]]
         /\ Restored' /\ ~removed /\ semval[s] > 0 /\ semval'[s] = semval[s] - 1
         /\ \A r \in Sems : r # s => semval'[r] = semval[r]
         /\ \A q \in Procs, r \in Sems :
              semadj'[q][r] = IF q = p /\ r = s THEN semadj[q][r] + 1 ELSE semadj[q][r]
<1>1. semval' = [semval EXCEPT ![s] = @ - 1] /\ semadj' = [semadj EXCEPT ![p][s] = @ + 1] /\ 1 \in {1, -1}
  BY DEF locksem
<1>2. Restored'
  BY <1>1, OperationRestores
<1>3. /\ semval[s] \in 0 .. SEMAEM /\ semval[s] > 0 /\ semval[s] - 1 \in 0 .. SEMAEM
      /\ ~removed /\ semadj[p][s] + 1 \in (-SEMAEM - 1) .. SEMAEM
  BY SumsRange DEF MailTyped, locksem
<1> QED BY <1>1, <1>2, <1>3 DEF MailTyped

LEMMA Unlocked ==
  ASSUME MailTyped, Restored, NEW p \in Procs, NEW s \in Sems, unlocksem(p, s), UNCHANGED <<removed, clamped>>
  PROVE  /\ semval' \in [Sems -> 0 .. SEMAEM] /\ semadj' \in [Procs -> [Sems -> (-SEMAEM - 1) .. SEMAEM]]
         /\ Restored' /\ ~removed /\ semval'[s] = semval[s] + 1
         /\ \A r \in Sems : r # s => semval'[r] = semval[r]
         /\ \A q \in Procs, r \in Sems :
              semadj'[q][r] = IF q = p /\ r = s THEN semadj[q][r] - 1 ELSE semadj[q][r]
<1>0. semval[s] \in 0 .. SEMAEM /\ semadj[p][s] \in Int
  BY SumsRange DEF MailTyped
<1>1. /\ semval' = [semval EXCEPT ![s] = @ - (-1)] /\ semadj' = [semadj EXCEPT ![p][s] = @ + (-1)] /\ -1 \in {1, -1}
      /\ semval' = [semval EXCEPT ![s] = @ + 1] /\ semadj' = [semadj EXCEPT ![p][s] = @ - 1]
  <2>1. semval[s] - (-1) = semval[s] + 1 /\ semadj[p][s] + (-1) = semadj[p][s] - 1 BY <1>0
  <2>2. semval' = [semval EXCEPT ![s] = semval[s] + 1] /\ semadj' = [semadj EXCEPT ![p][s] = semadj[p][s] - 1]
    BY DEF unlocksem
  <2> QED BY <2>1, <2>2
<1>2. Restored'
  BY <1>1, OperationRestores
<1>3. ~removed /\ semadj[p][s] - 1 \in (-SEMAEM - 1) .. SEMAEM /\ semval[s] + 1 \in 0 .. SEMAEM
  BY SumsRange DEF MailTyped, unlocksem
<1> QED BY <1>0, <1>1, <1>2, <1>3 DEF MailTyped

LEMMA Names ==
  /\ Server \in Procs /\ Clients \subseteq Procs /\ Server \notin Clients
  /\ Procs = Clients \cup {Server} /\ Sems = {"EMPTY", "FULL"} /\ "EMPTY" # "FULL"
BY SharedSysvAssumption DEF Procs, Sems

LEMMA MailInitially == Init => MailInv
<1> SUFFICES ASSUME Init PROVE MailInv
  OBVIOUS
<1>1. MailTyped
  <2>1. Initially \in [Sems -> 0 .. SEMAEM] BY SharedSysvAssumption DEF Initially, Sems
  <2>2. [s \in Sems |-> 0] \in [Sems -> (-SEMAEM - 1) .. SEMAEM] BY SumsRange
  <2>3. pc \in [Procs -> MailPlaces] BY DEF Init, MailPlaces
  <2> QED BY <2>1, <2>2, <2>3 DEF Init, MailTyped
<1>2. RemovedByServer /\ Owing
  BY Names DEF Init, RemovedByServer, Owing, Holds, Sems
<1>3. OneSlot
  BY DEF Init, OneSlot, Empty, Initially, Holds
<1>4. ASSUME NEW s \in Sems PROVE \E total : Adds(total, s) /\ semval[s] + total[Procs] = Initially[s]
  <2> DEFINE none == [T \in SUBSET Procs |-> 0]
  <2>1. \A p \in Procs : semadj[p][s] = 0 BY DEF Init
  <2>2. Adds(none, s) BY <2>1 DEF Adds
  <2>3. semval[s] + none[Procs] = Initially[s] BY Names DEF Init, Initially
  <2> QED BY <2>2, <2>3
<1> QED BY <1>1, <1>2, <1>3, <1>4 DEF MailInv, Restored

\* The end of a process that has not ended.
LEMMA Ends ==
  ASSUME MailInv, NEW p \in Procs, ~Over(p), NEW how \in {"exited", "killed", "aborted"}, End(p, how)
  PROVE  MailInv'
<1>1. Undo(p) /\ pc' = [pc EXCEPT ![p] = how] /\ UNCHANGED <<removed, buffer, posted, printed>>
  BY DEF End
<1>2. pc' \in [Procs -> MailPlaces] /\ pc'[p] = how /\ \A q \in Procs \ {p} : pc'[q] = pc[q]
  BY <1>1 DEF MailInv, MailTyped, MailPlaces
<1>3. semadj' \in [Procs -> [Sems -> (-SEMAEM - 1) .. SEMAEM]] /\ \A q \in Procs, s \in Sems :
        semadj'[q][s] = IF q = p THEN 0 ELSE semadj[q][s]
  BY <1>1, UndoneValues, SumsRange DEF MailInv, MailTyped
<1>4. MailTyped'
  BY <1>1, <1>2, <1>3, UndoneValues DEF MailInv, MailTyped
<1>5. RemovedByServer'
  BY <1>1, <1>2, Names DEF MailInv, RemovedByServer, Over
<1>6. ~Holds(p)' /\ \A q \in Procs \ {p} : Holds(q)' <=> Holds(q)
  BY <1>2 DEF Holds
<1>7. Owing'
  BY <1>3, <1>6, Names, SumsRange DEF MailInv, Owing
<1>8. OneSlot'
  <2> SUFFICES ASSUME ~undone', ~removed PROVE (Empty \/ Full \/ \E q \in Procs : InTurn(q))'
    BY <1>1 DEF OneSlot
  <2>1. ~undone /\ semval' = semval /\ \A s \in Sems : semadj[p][s] = 0
    BY <1>1, UndoneValues DEF MailInv
  <2>2. ~Holds(p)
    BY <2>1, Names DEF MailInv, Owing
  <2>3. \A q \in Procs : (Holds(q)' <=> Holds(q)) /\ (q # p => pc'[q] = pc[q])
    BY <1>2, <1>6, <2>2
  <2>4. CASE Empty BY <1>1, <2>1, <2>3, <2>4 DEF Empty
  <2>5. CASE Full BY <1>1, <2>1, <2>3, <2>5 DEF Full
  <2>6. ASSUME NEW q \in Procs, InTurn(q) PROVE InTurn(q)'
    <3>1. q # p BY <2>2, <2>6 DEF InTurn
    <3> QED BY <1>1, <2>1, <2>3, <2>6, <3>1 DEF InTurn
  <2> QED BY <2>1, <2>4, <2>5, <2>6 DEF MailInv, OneSlot
<1>9. Restored'
  BY <1>1, EndRestores DEF MailInv
<1> QED BY <1>4, <1>5, <1>7, <1>8, <1>9 DEF MailInv

\* A step that leaves the set and the sums alone.
LEMMA Aside ==
  ASSUME MailInv, pc' \in [Procs -> MailPlaces], UNCHANGED <<semval, semadj, removed, undone, clamped>>,
         pc'[Server] = "exited" <=> pc[Server] = "exited",
         \A p \in Procs : Holds(p)' <=> Holds(p), OneSlot'
  PROVE  MailInv'
<1>1. MailTyped' /\ RemovedByServer'
  BY DEF MailInv, MailTyped, RemovedByServer
<1>2. Owing'
  BY Names DEF MailInv, Owing
<1>3. Restored'
  <2>1. \A s \in Sems : \A total : Adds(total, s) => Adds(total, s)' BY DEF Adds
  <2> QED BY <2>1 DEF MailInv, Restored
<1> QED BY <1>1, <1>2, <1>3 DEF MailInv

\* A step that takes or gives, after which its process is at `to`.
LEMMA Operates ==
  ASSUME MailInv, NEW p \in Procs, NEW to \in MailPlaces \ {"exited"}, ~Over(p), pc' = [pc EXCEPT ![p] = to],
         UNCHANGED <<removed, buffer, undone, clamped>>,
         \/ locksem(p, IF p = Server THEN "FULL" ELSE "EMPTY")
         \/ unlocksem(p, IF p = Server THEN "EMPTY" ELSE "FULL") /\ Holds(p) /\ to \in {"wait", "menu"},
         OneSlot'
  PROVE  MailInv'
<1> DEFINE took == IF p = Server THEN "FULL" ELSE "EMPTY"
           gave == IF p = Server THEN "EMPTY" ELSE "FULL"
<1>1. pc' \in [Procs -> MailPlaces] /\ pc'[p] = to /\ \A q \in Procs \ {p} : pc'[q] = pc[q]
  BY DEF MailInv, MailTyped
<1>2. RemovedByServer'
  BY <1>1, Names DEF MailInv, RemovedByServer, Over
<1>3. \A q \in Procs \ {p} : Holds(q)' <=> Holds(q)
  BY <1>1 DEF Holds
<1>0. took \in Sems /\ gave \in Sems
  BY Names
<1>4. CASE locksem(p, took)
  <2>1. /\ semval' \in [Sems -> 0 .. SEMAEM] /\ semadj' \in [Procs -> [Sems -> (-SEMAEM - 1) .. SEMAEM]] /\ Restored'
        /\ \A q \in Procs, r \in Sems :
             semadj'[q][r] = IF q = p /\ r = took THEN semadj[q][r] + 1 ELSE semadj[q][r]
    <3> HIDE DEF took
    <3> QED BY <1>0, <1>4, Locked DEF MailInv
  <2>2. MailTyped' BY <1>1, <2>1 DEF MailInv, MailTyped
  <2>3. semadj[p][took] \in Int /\ semadj[p][took] >= 0
    BY Names, SumsRange DEF MailInv, MailTyped, Owing
  <2>5. \A q \in Procs : semadj'[q]["EMPTY"] + semadj'[q]["FULL"] >= (IF Holds(q)' THEN 1 ELSE 0)
    <3> SUFFICES ASSUME NEW q \in Procs
                 PROVE  semadj'[q]["EMPTY"] + semadj'[q]["FULL"] >= (IF Holds(q)' THEN 1 ELSE 0)
      OBVIOUS
    <3>1. /\ semadj[q]["EMPTY"] \in Int /\ semadj[q]["FULL"] \in Int
          /\ semadj[q]["EMPTY"] + semadj[q]["FULL"] >= (IF Holds(q) THEN 1 ELSE 0)
      BY Names, SumsRange DEF MailInv, MailTyped, Owing
    <3> QED BY <1>3, <2>1, <3>1, Names
  <2>4. Owing'
    <3>1. CASE p = Server
      <4>1. semadj'[Server]["FULL"] >= 1 BY <2>1, <2>3, <3>1, Names
      <4>2. \A c \in Clients : semadj'[c]["EMPTY"] = semadj[c]["EMPTY"] /\ (Holds(c)' <=> Holds(c))
        BY <1>3, <2>1, <3>1, Names
      <4>3. semadj'[Server]["FULL"] \in Int BY <2>1, Names, SumsRange
      <4> QED BY <2>5, <4>1, <4>2, <4>3 DEF MailInv, Owing
    <3>2. CASE p # Server
      <4>1. semadj'[p]["EMPTY"] >= 1 /\ semadj'[p]["EMPTY"] \in Int BY <2>1, <2>3, <3>2, Names
      <4>2. \A c \in Clients : c # p => semadj'[c]["EMPTY"] = semadj[c]["EMPTY"] /\ (Holds(c)' <=> Holds(c))
        BY <1>3, <2>1, Names
      <4>3. semadj'[Server]["FULL"] = semadj[Server]["FULL"] /\ (Holds(Server)' <=> Holds(Server))
        BY <1>3, <2>1, <3>2, Names
      <4> QED BY <2>5, <4>1, <4>2, <4>3 DEF MailInv, Owing
    <3> QED BY <3>1, <3>2
  <2> QED BY <1>2, <2>1, <2>2, <2>4 DEF MailInv
<1>5. CASE unlocksem(p, gave) /\ Holds(p) /\ to \in {"wait", "menu"}
  <2>1. /\ semval' \in [Sems -> 0 .. SEMAEM] /\ semadj' \in [Procs -> [Sems -> (-SEMAEM - 1) .. SEMAEM]] /\ Restored'
        /\ \A q \in Procs, r \in Sems :
             semadj'[q][r] = IF q = p /\ r = gave THEN semadj[q][r] - 1 ELSE semadj[q][r]
    <3> HIDE DEF gave
    <3> QED BY <1>0, <1>5, Unlocked DEF MailInv
  <2>2. MailTyped' BY <1>1, <2>1 DEF MailInv, MailTyped
  <2>3. ~Holds(p)' BY <1>1, <1>5 DEF Holds
  <2>4. semadj[p][took] \in Int /\ semadj[p][took] >= 1 /\ semadj'[p][took] = semadj[p][took]
    BY <1>5, <2>1, Names, SumsRange DEF MailInv, MailTyped, Owing
  <2>5. Owing'
    <3>1. \A c \in Clients : c # p => semadj'[c]["EMPTY"] = semadj[c]["EMPTY"] /\ (Holds(c)' <=> Holds(c))
      BY <1>3, <2>1, Names
    <3>2. Server # p => semadj'[Server]["FULL"] = semadj[Server]["FULL"] /\ (Holds(Server)' <=> Holds(Server))
      BY <1>3, <2>1, Names
    <3>3. \A q \in Procs : semadj'[q]["EMPTY"] + semadj'[q]["FULL"] >= (IF Holds(q)' THEN 1 ELSE 0)
      <4> SUFFICES ASSUME NEW q \in Procs
                   PROVE  semadj'[q]["EMPTY"] + semadj'[q]["FULL"] >= (IF Holds(q)' THEN 1 ELSE 0)
        OBVIOUS
      <4>1. /\ semadj[q]["EMPTY"] \in Int /\ semadj[q]["FULL"] \in Int
            /\ semadj[q]["EMPTY"] + semadj[q]["FULL"] >= (IF Holds(q) THEN 1 ELSE 0)
        BY Names, SumsRange DEF MailInv, MailTyped, Owing
      <4> QED BY <1>3, <1>5, <2>1, <2>3, <4>1, Names
    <3> QED BY <2>3, <2>4, <3>1, <3>2, <3>3, Names DEF MailInv, Owing
  <2> QED BY <1>2, <2>1, <2>2, <2>5 DEF MailInv
<1> QED BY <1>4, <1>5

\* How each step of the mailbox passes the turn on.
LEMMA ServerStep ==
  ASSUME MailInv, ServerWait \/ ServerPrint \/ ServerPost \/ ServerInterrupted
  PROVE  MailInv'
<1>0. Server \in Procs /\ "FULL" \in Sems /\ "EMPTY" \in Sems
  BY Names
<1>1. CASE ServerWait
  <2>1. /\ pc[Server] = "wait" /\ locksem(Server, "FULL") /\ pc' = [pc EXCEPT ![Server] = "print"]
        /\ UNCHANGED <<removed, buffer, posted, printed, undone, clamped>>
    BY <1>1 DEF ServerWait, Goto
  <2>2. /\ semval["FULL"] > 0 /\ semval'["FULL"] = semval["FULL"] - 1 /\ semval'["EMPTY"] = semval["EMPTY"]
        /\ ~removed
    BY <1>0, <2>1, Locked, Names DEF MailInv
  <2>3. pc'[Server] = "print" /\ Holds(Server)' /\ \A q \in Procs \ {Server} : Holds(q)' <=> Holds(q)
    BY <1>0, <2>1 DEF MailInv, MailTyped, Holds
  <2>4. OneSlot'
    <3> SUFFICES ASSUME ~undone PROVE InTurn(Server)'
      BY <1>0, <2>1 DEF OneSlot
    <3>1. Full BY <2>2 DEF MailInv, OneSlot, Empty, InTurn
    <3> QED BY <2>1, <2>2, <2>3, <3>1 DEF Full, InTurn
  <2> QED BY <1>0, <2>1, <2>4, Operates DEF Over, MailPlaces
<1>2. CASE ServerPrint
  <2>1. /\ pc[Server] = "print" /\ pc' = [pc EXCEPT ![Server] = "post"] /\ printed' = Append(printed, buffer)
        /\ UNCHANGED <<semval, semadj, removed, buffer, posted, undone, clamped>>
    BY <1>2 DEF ServerPrint, Goto
  <2>2. /\ pc' \in [Procs -> MailPlaces] /\ pc'[Server] = "post"
        /\ \A q \in Procs : Holds(q)' <=> Holds(q)
    BY <1>0, <2>1 DEF MailInv, MailTyped, MailPlaces, Holds
  <2>3. OneSlot'
    <3> SUFFICES ASSUME ~undone, ~removed PROVE InTurn(Server)'
      BY <1>0, <2>1 DEF OneSlot
    <3>1. InTurn(Server) BY <1>0, <2>1 DEF MailInv, OneSlot, Empty, Full, InTurn, Holds
    <3> QED BY <2>1, <2>2, <3>1 DEF InTurn
  <2> QED BY <2>1, <2>2, <2>3, Aside
<1>3. CASE ServerPost
  <2>1. /\ pc[Server] = "post" /\ unlocksem(Server, "EMPTY") /\ pc' = [pc EXCEPT ![Server] = "wait"]
        /\ UNCHANGED <<removed, buffer, posted, printed, undone, clamped>>
    BY <1>3 DEF ServerPost, Goto
  <2>2. semval'["EMPTY"] = semval["EMPTY"] + 1 /\ semval'["FULL"] = semval["FULL"] /\ ~removed
    BY <1>0, <2>1, Unlocked, Names DEF MailInv
  <2>3. Holds(Server) /\ ~Holds(Server)' /\ \A q \in Procs \ {Server} : Holds(q)' <=> Holds(q)
    BY <1>0, <2>1 DEF MailInv, MailTyped, Holds
  <2>4. OneSlot'
    <3> SUFFICES ASSUME ~undone PROVE Empty'
      BY <2>1 DEF OneSlot
    <3>1. InTurn(Server) BY <1>0, <2>2, <2>3 DEF MailInv, OneSlot, Empty, Full, InTurn
    <3> QED BY <2>1, <2>2, <2>3, <3>1 DEF Empty, InTurn
  <2> QED BY <1>0, <2>1, <2>3, <2>4, Operates DEF Over, MailPlaces
<1>4. CASE ServerInterrupted
  <2>1. /\ pc' = [pc EXCEPT ![Server] = "exited"] /\ removed' = TRUE /\ ~Over(Server)
        /\ UNCHANGED <<semval, semadj, buffer, posted, printed, undone, clamped>>
    BY <1>4 DEF ServerInterrupted, Goto
  <2>2. /\ pc' \in [Procs -> MailPlaces] /\ pc'[Server] = "exited"
        /\ ~Holds(Server)' /\ \A q \in Procs \ {Server} : Holds(q)' <=> Holds(q)
    BY <1>0, <2>1 DEF MailInv, MailTyped, MailPlaces, Holds
  <2>3. Owing' BY <2>1, <2>2, Names, SumsRange DEF MailInv, MailTyped, Owing
  <2>4. OneSlot' /\ Restored' /\ RemovedByServer' BY <2>1, <2>2 DEF OneSlot, Restored, RemovedByServer
  <2>5. MailTyped' BY <2>1, <2>2 DEF MailInv, MailTyped
  <2> QED BY <2>3, <2>4, <2>5 DEF MailInv
<1> QED BY <1>1, <1>2, <1>3, <1>4

LEMMA ClientStep ==
  ASSUME MailInv, NEW c \in Clients, Client(c)
  PROVE  MailInv'
<1>0. c \in Procs /\ c # Server /\ Server \in Procs /\ "FULL" \in Sems /\ "EMPTY" \in Sems
  BY Names
<1>1. CASE Choose(c)
  <2>1. /\ pc[c] = "menu" /\ pc' = [pc EXCEPT ![c] = "wait"]
        /\ UNCHANGED <<semval, semadj, removed, buffer, posted, printed, undone, clamped>>
    BY <1>1 DEF Choose, Goto
  <2>2. /\ pc' \in [Procs -> MailPlaces] /\ pc'[Server] = pc[Server]
        /\ \A q \in Procs : (Holds(q)' <=> Holds(q)) /\ (Holds(q) => pc'[q] = pc[q])
    BY <1>0, <2>1 DEF MailInv, MailTyped, MailPlaces, Holds
  <2>3. OneSlot'
    <3>1. Empty => Empty' BY <2>1, <2>2 DEF Empty
    <3>2. Full => Full' BY <2>1, <2>2 DEF Full
    <3>3. \A p \in Procs : InTurn(p) => InTurn(p)' BY <2>1, <2>2 DEF InTurn
    <3> QED BY <2>1, <3>1, <3>2, <3>3 DEF MailInv, OneSlot
  <2> QED BY <2>1, <2>2, <2>3, Aside
<1>2. CASE Leave(c)
  BY <1>0, <1>2, Ends DEF Leave, Over
<1>3. CASE ClientWait(c)
  <2>1. /\ pc[c] = "wait" /\ locksem(c, "EMPTY") /\ pc' = [pc EXCEPT ![c] = "enter"]
        /\ UNCHANGED <<removed, buffer, posted, printed, undone, clamped>>
    BY <1>3 DEF ClientWait, Goto
  <2>2. /\ semval["EMPTY"] > 0 /\ semval'["EMPTY"] = semval["EMPTY"] - 1 /\ semval'["FULL"] = semval["FULL"]
        /\ ~removed
    BY <1>0, <2>1, Locked, Names DEF MailInv
  <2>3. pc'[c] = "enter" /\ Holds(c)' /\ \A q \in Procs \ {c} : Holds(q)' <=> Holds(q)
    BY <1>0, <2>1 DEF MailInv, MailTyped, Holds
  <2>4. OneSlot'
    <3> SUFFICES ASSUME ~undone PROVE InTurn(c)'
      BY <1>0, <2>1 DEF OneSlot
    <3>1. Empty BY <2>2 DEF MailInv, OneSlot, Full, InTurn
    <3> QED BY <2>1, <2>2, <2>3, <3>1 DEF Empty, InTurn
  <2> QED BY <1>0, <2>1, <2>4, Operates DEF Over, MailPlaces
<1>4. CASE Enter(c)
  <2>1. /\ pc[c] = "enter" /\ pc' = [pc EXCEPT ![c] = "post"]
        /\ UNCHANGED <<semval, semadj, removed, posted, printed, undone, clamped>>
    BY <1>4 DEF Enter, Goto
  <2>2. /\ pc' \in [Procs -> MailPlaces] /\ pc'[Server] = pc[Server] /\ pc'[c] = "post"
        /\ \A q \in Procs : Holds(q)' <=> Holds(q)
    BY <1>0, <2>1 DEF MailInv, MailTyped, MailPlaces, Holds
  <2>3. OneSlot'
    <3> SUFFICES ASSUME ~undone, ~removed PROVE InTurn(c)'
      BY <1>0, <2>1 DEF OneSlot
    <3>1. InTurn(c) BY <1>0, <2>1 DEF MailInv, OneSlot, Empty, Full, InTurn, Holds
    <3> QED BY <2>1, <2>2, <3>1 DEF InTurn
  <2> QED BY <2>1, <2>2, <2>3, Aside
<1>5. CASE ClientPost(c)
  <2>1. /\ pc[c] = "post" /\ unlocksem(c, "FULL") /\ pc' = [pc EXCEPT ![c] = "menu"]
        /\ posted' = Append(posted, buffer) /\ UNCHANGED <<removed, buffer, printed, undone, clamped>>
    BY <1>5 DEF ClientPost, Goto
  <2>2. semval'["FULL"] = semval["FULL"] + 1 /\ semval'["EMPTY"] = semval["EMPTY"] /\ ~removed
    BY <1>0, <2>1, Unlocked, Names DEF MailInv
  <2>3. Holds(c) /\ ~Holds(c)' /\ \A q \in Procs \ {c} : Holds(q)' <=> Holds(q)
    BY <1>0, <2>1 DEF MailInv, MailTyped, Holds
  <2>4. OneSlot'
    <3> SUFFICES ASSUME ~undone PROVE Full'
      BY <2>1 DEF OneSlot
    <3>1. InTurn(c) BY <1>0, <2>2, <2>3 DEF MailInv, OneSlot, Empty, Full, InTurn
    <3> QED BY <2>1, <2>2, <2>3, <3>1 DEF Full, InTurn
  <2> QED BY <1>0, <2>1, <2>3, <2>4, Operates DEF Over, MailPlaces
<1> QED BY <1>1, <1>2, <1>3, <1>4, <1>5 DEF Client

LEMMA MailPreserved == MailInv /\ [Next]_vars => MailInv'
<1> SUFFICES ASSUME MailInv, [Next]_vars PROVE MailInv'
  OBVIOUS
<1>1. ASSUME NEW p \in Procs, Abort(p) \/ Kill(p) PROVE MailInv'
  BY <1>1, Ends DEF Abort, Kill, Over
<1>2. CASE UNCHANGED vars
  <2>1. UNCHANGED <<semval, semadj, removed, buffer, pc, posted, printed, undone, clamped>> BY <1>2 DEF vars
  <2>2. \A p \in Procs : Holds(p)' <=> Holds(p) BY <2>1 DEF Holds
  <2>3. OneSlot'
    <3>1. Empty => Empty' BY <2>1, <2>2 DEF Empty
    <3>2. Full => Full' BY <2>1, <2>2 DEF Full
    <3>3. \A p \in Procs : InTurn(p) => InTurn(p)' BY <2>1, <2>2 DEF InTurn
    <3> QED BY <2>1, <3>1, <3>2, <3>3 DEF MailInv, OneSlot
  <2>4. pc' \in [Procs -> MailPlaces] BY <2>1 DEF MailInv, MailTyped
  <2> QED BY <2>1, <2>2, <2>3, <2>4, Aside
<1> QED BY <1>1, <1>2, ServerStep, ClientStep DEF Next

LEMMA SlotsKept == MailInv => MailboxUntilUndo
<1> SUFFICES ASSUME MailInv, ~undone, ~removed
             PROVE  /\ \A p, q \in Procs : Holds(p) /\ Holds(q) => p = q
                    /\ posted \in {printed, Append(printed, buffer)}
  BY DEF MailboxUntilUndo
<1>1. CASE Empty BY <1>1 DEF Empty
<1>2. CASE Full BY <1>2 DEF Full
<1>3. ASSUME NEW r \in Procs, InTurn(r)
      PROVE  /\ \A p, q \in Procs : Holds(p) /\ Holds(q) => p = q
             /\ posted \in {printed, Append(printed, buffer)}
  BY <1>3 DEF InTurn
<1> QED BY <1>1, <1>2, <1>3 DEF MailInv, OneSlot

LEMMA ValuesRestored == MailInv => UndoRestores
<1> SUFFICES ASSUME MailInv, ~clamped, ~removed, NEW s \in Sems
             PROVE  semval[s] + Adjustments(s) = Initially[s]
  BY DEF UndoRestores
<1>1. PICK total : Adds(total, s) /\ semval[s] + total[Procs] = Initially[s]
  BY DEF MailInv, Restored
<1>2. Adjustments(s) = total[Procs]
  BY <1>1, AddsUp DEF MailInv
<1> QED BY <1>1, <1>2

LEMMA WhyAborted ==
  ASSUME MailInv, [Next]_vars, NEW p \in Procs, pc'[p] = "aborted", pc[p] # "aborted"
  PROVE  \/ pc[Server] = "exited"
         \/ \E s \in Sems : semval[s] = SEMAEM \/ semadj[p][s] \in {SEMAEM, -SEMAEM - 1}
<1>1. \A q \in Procs : \A s \in Sems : semadj[q][s] \in (-SEMAEM - 1) .. SEMAEM
  BY DEF MailInv, MailTyped
<1>2. ASSUME NEW q \in Procs, pc' = [pc EXCEPT ![q] = "aborted"],
             \/ locksemFails(q, IF q = Server THEN "FULL" ELSE "EMPTY")
             \/ unlocksemFails(q, IF q = Server THEN "EMPTY" ELSE "FULL")
      PROVE  \/ pc[Server] = "exited"
             \/ \E s \in Sems : semval[s] = SEMAEM \/ semadj[p][s] \in {SEMAEM, -SEMAEM - 1}
  <2>1. q = p BY <1>2 DEF MailInv, MailTyped
  <2>2. CASE removed BY <2>2 DEF MailInv, RemovedByServer
  <2>3. CASE ~removed
    <3>1. PICK s \in Sems : semval[s] = SEMAEM \/ semadj[q][s] = SEMAEM \/ semadj[q][s] < -SEMAEM
      <4>1. semval \in [Sems -> 0 .. SEMAEM] BY DEF MailInv, MailTyped
      <4>2. \A s \in Sems : semval[s] >= SEMAEM => semval[s] = SEMAEM BY <4>1, SumsRange
      <4> QED BY <1>2, <2>3, <4>2, Names DEF locksemFails, unlocksemFails
    <3>2. semadj[q][s] < -SEMAEM => semadj[q][s] = -SEMAEM - 1
      BY <1>1, SumsRange
    <3> QED BY <2>1, <3>1, <3>2
  <2> QED BY <2>2, <2>3
<1>3. ASSUME NEW q \in Procs, NEW to \in {"print", "post", "wait", "exited", "enter", "menu", "killed"},
             pc' = [pc EXCEPT ![q] = to]
      PROVE  FALSE
  BY <1>3 DEF MailInv, MailTyped
<1>4. ASSUME NEW q \in Procs, Abort(q)
      PROVE  \/ pc[Server] = "exited"
             \/ \E s \in Sems : semval[s] = SEMAEM \/ semadj[p][s] \in {SEMAEM, -SEMAEM - 1}
  BY <1>2, <1>4 DEF Abort, End
<1>5. ASSUME NEW q \in Procs, Kill(q) PROVE FALSE
  BY <1>3, <1>5 DEF Kill, End
<1>6. ASSUME ServerWait \/ ServerPrint \/ ServerPost \/ ServerInterrupted PROVE FALSE
  BY <1>3, <1>6, Names DEF ServerWait, ServerPrint, ServerPost, ServerInterrupted, Goto
<1>7. ASSUME NEW c \in Clients, Client(c) PROVE FALSE
  BY <1>3, <1>7, Names DEF Client, Choose, Leave, ClientWait, Enter, ClientPost, Goto, End
<1>8. CASE UNCHANGED vars
  BY <1>8 DEF vars
<1> QED BY <1>4, <1>5, <1>6, <1>7, <1>8 DEF Next

----------------------------------------------------------------------------
(* sema_posix.c                                                            *)

\* The types of the variables.
PosixTyped ==
  /\ pFound \in SUBSET MenuServers /\ pSem \in [MenuServers -> Nat]
  /\ pId \in [Posix!Procs -> MenuServers \cup {NoLine}] /\ pSemheld \in [Posix!Procs -> {0, 1}]
  /\ pPc \in [Posix!Procs -> {"off", "menu", "wait", "took", "posted"}]
  /\ pEnd \in [Posix!Procs -> {"none", "exited", "removed", "aborted", "killed"}]

\* A process has a semaphore from its start on, and one that was created.
PosixAttached ==
  /\ \A p \in Posix!Procs : pId[p] = NoLine <=> pPc[p] = "off"
  /\ \A p \in Posix!Procs : pId[p] # NoLine => pId[pId[p]] = pId[p]
  /\ \A o \in pFound : pId[o] = o

\* What a process counts, at each place.
PosixCounted ==
  \A p \in Posix!Procs :
    /\ pPc[p] \in {"off", "wait", "took"} => pSemheld[p] = 0
    /\ pPc[p] = "posted" => pSemheld[p] = 1

PosixIInv == PosixTyped /\ PosixAttached /\ PosixCounted

\* What the mapping gives for the free resources.
PosixFree == [o \in MenuServers |-> IF pId[o] = o THEN pSem[o] ELSE Posix!Resources]

\* A step in which p alone gets or loses a resource, or ends, moves p alone.
LEMMA PosixMoved ==
  ASSUME NEW p \in Posix!Procs, pId[p] \in MenuServers, pId' = pId,
         \A q \in Posix!Procs : q # p => (Posix!Has(q)' <=> Posix!Has(q)) /\ pEnd'[q] = pEnd[q]
  PROVE  /\ Posix!Holders' = [Posix!Holders EXCEPT ![pId[p]] =
                          IF Posix!Has(p)' /\ pEnd'[p] = "none" THEN @ \cup {p} ELSE @ \ {p}]
         /\ Posix!Losers' = [Posix!Losers EXCEPT ![pId[p]] =
                         IF Posix!Has(p)' /\ pEnd'[p] # "none" THEN @ \cup {p} ELSE @ \ {p}]
<1>1. ASSUME NEW o \in MenuServers
      PROVE  Posix!Holders'[o] = IF o = pId[p]
                                 THEN IF Posix!Has(p)' /\ pEnd'[p] = "none" THEN Posix!Holders[o] \cup {p}
                                      ELSE Posix!Holders[o] \ {p}
                                 ELSE Posix!Holders[o]
  <2>1. \A q : q \in Posix!Holders[o] <=> q \in Posix!Procs /\ pId[q] = o /\ Posix!Has(q) /\ pEnd[q] = "none"
    BY DEF Posix!Holders
  <2>2. \A q : q \in Posix!Holders'[o] <=> q \in Posix!Procs /\ pId[q] = o /\ Posix!Has(q)' /\ pEnd'[q] = "none"
    BY DEF Posix!Holders
  <2>3. CASE o = pId[p]
    <3>1. \A q : q \in Posix!Holders'[o] <=> IF q = p THEN Posix!Has(p)' /\ pEnd'[p] = "none"
          ELSE q \in Posix!Holders[o]
      BY <2>1, <2>2, <2>3
    <3>2. CASE Posix!Has(p)' /\ pEnd'[p] = "none"
      <4>1. Posix!Holders'[o] = Posix!Holders[o] \cup {p}
        BY ONLY <3>1, <3>2
      <4>. QED
        BY ONLY <2>3, <3>2, <4>1
    <3>3. CASE ~(Posix!Has(p)' /\ pEnd'[p] = "none")
      <4>1. Posix!Holders'[o] = Posix!Holders[o] \ {p}
        BY ONLY <3>1, <3>3
      <4>. QED
        BY ONLY <2>3, <3>3, <4>1
    <3>. QED
      BY <3>2, <3>3
  <2>4. CASE o # pId[p]
    BY <2>1, <2>2, <2>4
  <2>. QED
    BY <2>3, <2>4
<1>2. ASSUME NEW o \in MenuServers
      PROVE  Posix!Losers'[o] = IF o = pId[p]
                                THEN IF Posix!Has(p)' /\ pEnd'[p] # "none" THEN Posix!Losers[o] \cup {p}
                                     ELSE Posix!Losers[o] \ {p}
                                ELSE Posix!Losers[o]
  <2>1. \A q : q \in Posix!Losers[o] <=> q \in Posix!Procs /\ pId[q] = o /\ Posix!Has(q) /\ pEnd[q] # "none"
    BY DEF Posix!Losers
  <2>2. \A q : q \in Posix!Losers'[o] <=> q \in Posix!Procs /\ pId[q] = o /\ Posix!Has(q)' /\ pEnd'[q] # "none"
    BY DEF Posix!Losers
  <2>3. CASE o = pId[p]
    <3>1. \A q : q \in Posix!Losers'[o] <=> IF q = p THEN Posix!Has(p)' /\ pEnd'[p] # "none"
          ELSE q \in Posix!Losers[o]
      BY <2>1, <2>2, <2>3
    <3>2. CASE Posix!Has(p)' /\ pEnd'[p] # "none"
      <4>1. Posix!Losers'[o] = Posix!Losers[o] \cup {p}
        BY ONLY <3>1, <3>2
      <4>. QED
        BY ONLY <2>3, <3>2, <4>1
    <3>3. CASE ~(Posix!Has(p)' /\ pEnd'[p] # "none")
      <4>1. Posix!Losers'[o] = Posix!Losers[o] \ {p}
        BY ONLY <3>1, <3>3
      <4>. QED
        BY ONLY <2>3, <3>3, <4>1
    <3>. QED
      BY <3>2, <3>3
  <2>4. CASE o # pId[p]
    BY <2>1, <2>2, <2>4
  <2>. QED
    BY <2>3, <2>4
<1>3. /\ Posix!Holders = [o \in MenuServers |-> Posix!Holders[o]]
         /\ Posix!Holders' = [o \in MenuServers |-> Posix!Holders'[o]]
      /\ Posix!Losers = [o \in MenuServers |-> Posix!Losers[o]]
         /\ Posix!Losers' = [o \in MenuServers |-> Posix!Losers'[o]]
  BY DEF Posix!Holders, Posix!Losers
<1>4. Posix!Holders' = [Posix!Holders EXCEPT ![pId[p]] =
                    IF Posix!Has(p)' /\ pEnd'[p] = "none" THEN @ \cup {p} ELSE @ \ {p}]
  BY <1>1, <1>3
<1>5. Posix!Losers' = [Posix!Losers EXCEPT ![pId[p]] =
                   IF Posix!Has(p)' /\ pEnd'[p] # "none" THEN @ \cup {p} ELSE @ \ {p}]
  BY <1>2, <1>3
<1>. QED
  BY <1>4, <1>5

\* What a step of the pools is.
LEMMA PosixPoolStep ==
  ASSUME NEW p \in Posix!Procs, NEW o \in MenuServers,
         Posix!Pool!Take(p, o) \/ Posix!Pool!Give(p, o) \/ Posix!Pool!Lose(p, o)
  PROVE  Posix!Pool!Next
BY Zenon DEF Posix!Pool!Next

\* The start of a process changes nobody's resources.
LEMMA PosixStarting ==
  ASSUME Posix!MenuConstants, PosixIInv, NEW p \in Posix!Procs,
         \/ p \in MenuServers /\ Posix!server(p)
         \/ p \in MenuClients /\ Posix!client(p)
  PROVE  PosixIInv' /\ UNCHANGED <<PosixFree, Posix!Holders, Posix!Losers>>
<1>. USE DEF Posix!MenuConstants, PosixIInv, PosixTyped, PosixAttached, PosixCounted, Posix!Procs
<1>1. CASE p \in MenuServers /\ Posix!server(p) /\ pFound = {}
  <2>. USE <1>1 DEF Posix!server, Posix!From, Posix!At
  <2>1. /\ pId' = [pId EXCEPT ![p] = p] /\ pFound' = {p} /\ pSem' = [pSem EXCEPT ![p] = Posix!Resources]
        /\ pId[p] = NoLine /\ \A q \in Posix!Procs : pId[q] # p
    OBVIOUS
  <2>2. PosixIInv'
    BY <2>1 DEF Posix!Resources
  <2>3. PosixFree' = PosixFree
    BY <2>1 DEF PosixFree
  <2>4. Posix!Holders' = Posix!Holders /\ Posix!Losers' = Posix!Losers
    BY <2>1 DEF Posix!Holders, Posix!Losers, Posix!Has
  <2>. QED
    BY <2>2, <2>3, <2>4
<1>2. ASSUME NEW o \in pFound, Posix!From(p, "off", "menu"), pId' = [pId EXCEPT ![p] = o],
             UNCHANGED <<pFound, pSem, pSemheld>>
      PROVE  PosixIInv' /\ UNCHANGED <<PosixFree, Posix!Holders, Posix!Losers>>
  <2>. USE <1>2 DEF Posix!From, Posix!At
  <2>1. pId[o] = o /\ pId[p] = NoLine /\ p # o
    OBVIOUS
  <2>2. PosixIInv'
    BY <2>1
  <2>3. PosixFree' = PosixFree
    BY <2>1 DEF PosixFree
  <2>4. Posix!Holders' = Posix!Holders /\ Posix!Losers' = Posix!Losers
    BY <2>1 DEF Posix!Holders, Posix!Losers, Posix!Has
  <2>. QED
    BY <2>2, <2>3, <2>4
<1>3. CASE Posix!At(p, "off") /\ pFound = {} /\ Posix!End(p, "aborted") /\ UNCHANGED pFound
  BY <1>3 DEF Posix!At, Posix!End, PosixFree, Posix!Holders, Posix!Losers, Posix!Has
<1>. QED
  BY <1>1, <1>2, <1>3 DEF Posix!server, Posix!client

\* An end loses what the process has.
LEMMA PosixEnding ==
  ASSUME PosixIInv, NEW p \in Posix!Procs, NEW how \in {"exited", "removed", "killed"},
         pPc[p] # "off", pEnd[p] = "none", Posix!End(p, how), pFound' \in {pFound, {}}
  PROVE  PosixIInv' /\ (UNCHANGED <<PosixFree, Posix!Holders, Posix!Losers>> \/ Posix!Pool!Next)
<1>. USE DEF PosixIInv, PosixTyped, PosixAttached, PosixCounted, Posix!End
<1>1. PosixIInv'
  OBVIOUS
<1>2. PosixFree' = PosixFree
  BY DEF PosixFree
<1>3. CASE Posix!Has(p)
  <2>1. pId[p] \in MenuServers /\ p \in Posix!Holders[pId[p]]
    BY <1>3 DEF Posix!Holders
  <2>2. /\ Posix!Has(p)' /\ pEnd'[p] # "none" /\ pId' = pId
        /\ \A q \in Posix!Procs : q # p => (Posix!Has(q)' <=> Posix!Has(q)) /\ pEnd'[q] = pEnd[q]
    BY <1>3 DEF Posix!Has
  <2>3. /\ Posix!Holders' = [Posix!Holders EXCEPT ![pId[p]] = @ \ {p}]
        /\ Posix!Losers' = [Posix!Losers EXCEPT ![pId[p]] = @ \cup {p}]
    BY <2>1, <2>2, PosixMoved
  <2>4. Posix!Pool!Next
    <3>1. PICK o \in MenuServers : pId[p] = o
      BY <2>1
    <3>2. Posix!Pool!Lose(p, o)
      BY <3>1, <1>2, <2>1, <2>3 DEF Posix!Pool!Lose, PosixFree
    <3>. QED
      BY <3>2, PosixPoolStep
  <2>. QED
    BY <1>1, <2>4
<1>4. CASE ~Posix!Has(p)
  BY <1>1, <1>2, <1>4 DEF Posix!Holders, Posix!Losers, Posix!Has
<1>. QED
  BY <1>3, <1>4

\* A semaphore operation takes or gives one resource.
LEMMA PosixOperating ==
  ASSUME PosixIInv, NEW p \in Posix!Procs, Posix!release(p) \/ Posix!request(p) \/ Posix!try(p)
  PROVE  PosixIInv' /\ (UNCHANGED <<PosixFree, Posix!Holders, Posix!Losers>> \/ Posix!Pool!Next)
<1>. USE DEF PosixIInv, PosixTyped, PosixAttached, PosixCounted
<1>1. CASE Posix!Post(p)
  <2>. USE <1>1 DEF Posix!Post, Posix!From, Posix!At
  <2>1. /\ pId[p] \in MenuServers /\ pId[pId[p]] = pId[p]
        /\ pSem' = [pSem EXCEPT ![pId[p]] = @ + 1] /\ UNCHANGED <<pFound, pId, pSemheld, pEnd>>
        /\ pPc' = [pPc EXCEPT ![p] = "posted"] /\ pSemheld[p] = 1 /\ pPc[p] = "menu" /\ pEnd[p] = "none"
    OBVIOUS
  <2>2. PosixIInv'
    BY <2>1
  <2>3. PosixFree' = [PosixFree EXCEPT ![pId[p]] = @ + 1]
    BY <2>1 DEF PosixFree
  <2>4. /\ ~Posix!Has(p)'
        /\ \A q \in Posix!Procs : q # p => (Posix!Has(q)' <=> Posix!Has(q)) /\ pEnd'[q] = pEnd[q]
    BY <2>1 DEF Posix!Has
  <2>5. p \in Posix!Holders[pId[p]] /\ p \notin Posix!Losers[pId[p]]
    BY <2>1 DEF Posix!Holders, Posix!Losers, Posix!Has
  <2>6. Posix!Holders' = [Posix!Holders EXCEPT ![pId[p]] = @ \ {p}] /\ Posix!Losers' = Posix!Losers
    <3>1. /\ Posix!Holders' = [Posix!Holders EXCEPT ![pId[p]] = @ \ {p}]
          /\ Posix!Losers' = [Posix!Losers EXCEPT ![pId[p]] = @ \ {p}]
      BY <2>1, <2>4, PosixMoved
    <3>2. Posix!Losers = [o \in MenuServers |-> Posix!Losers[o]]
      BY DEF Posix!Losers
    <3>3. Posix!Losers[pId[p]] \ {p} = Posix!Losers[pId[p]]
      BY ONLY <2>5
    <3>. QED
      BY ONLY <2>1, <3>1, <3>2, <3>3
  <2>7. Posix!Pool!Next
    <3>1. PICK o \in MenuServers : pId[p] = o
      BY <2>1
    <3>2. Posix!Pool!Give(p, o)
      BY <3>1, <2>3, <2>5, <2>6 DEF Posix!Pool!Give, PosixFree
    <3>. QED
      BY <3>2, PosixPoolStep
  <2>. QED
    BY <2>2, <2>7
<1>2. ASSUME NEW at \in {"menu", "wait"}, pSemheld[p] = 0, Posix!Wait(p, at)
      PROVE  PosixIInv' /\ Posix!Pool!Next
  <2>. USE <1>2 DEF Posix!Wait, Posix!From, Posix!At
  <2>1. /\ pId[p] \in MenuServers /\ pId[pId[p]] = pId[p] /\ pSem[pId[p]] > 0
        /\ pSem' = [pSem EXCEPT ![pId[p]] = @ - 1] /\ UNCHANGED <<pFound, pId, pSemheld, pEnd>>
        /\ pPc' = [pPc EXCEPT ![p] = "took"] /\ pPc[p] = at /\ pEnd[p] = "none"
    OBVIOUS
  <2>2. PosixIInv'
    BY <2>1
  <2>3. PosixFree[pId[p]] > 0 /\ PosixFree' = [PosixFree EXCEPT ![pId[p]] = @ - 1]
    <3>1. PosixFree[pId[p]] = pSem[pId[p]]
      BY <2>1 DEF PosixFree
    <3>2. \A o \in MenuServers : PosixFree'[o] = IF o = pId[p] THEN PosixFree[o] - 1 ELSE PosixFree[o]
      BY <2>1 DEF PosixFree
    <3>3. PosixFree' = [PosixFree EXCEPT ![pId[p]] = @ - 1]
      BY ONLY <3>2 DEF PosixFree
    <3>. QED
      BY <2>1, <3>1, <3>3
  <2>4. /\ Posix!Has(p)'
        /\ \A q \in Posix!Procs : q # p => (Posix!Has(q)' <=> Posix!Has(q)) /\ pEnd'[q] = pEnd[q]
    BY <2>1 DEF Posix!Has
  <2>5. \A q \in MenuServers : p \notin Posix!Holders[q] \cup Posix!Losers[q]
    BY <2>1 DEF Posix!Holders, Posix!Losers, Posix!Has
  <2>6. Posix!Holders' = [Posix!Holders EXCEPT ![pId[p]] = @ \cup {p}] /\ Posix!Losers' = Posix!Losers
    <3>1. /\ Posix!Holders' = [Posix!Holders EXCEPT ![pId[p]] = @ \cup {p}]
          /\ Posix!Losers' = [Posix!Losers EXCEPT ![pId[p]] = @ \ {p}]
      BY <2>1, <2>4, PosixMoved
    <3>2. Posix!Losers = [o \in MenuServers |-> Posix!Losers[o]]
      BY DEF Posix!Losers
    <3>3. Posix!Losers[pId[p]] \ {p} = Posix!Losers[pId[p]]
      BY <2>1, <2>5
    <3>. QED
      BY <3>1, <3>2, <3>3
  <2>7. Posix!Pool!Next
    <3>1. PICK o \in MenuServers : pId[p] = o
      BY <2>1
    <3>2. Posix!Pool!Take(p, o)
      BY <3>1, <2>3, <2>5, <2>6 DEF Posix!Pool!Take, PosixFree
    <3>. QED
      BY <3>2, PosixPoolStep
  <2>. QED
    BY <2>2, <2>7
<1>3. CASE Posix!Posted(p) \/ Posix!Ask(p) \/ Posix!Took(p)
  <2>1. PosixIInv' /\ PosixFree' = PosixFree
    BY <1>3 DEF Posix!Posted, Posix!Ask, Posix!Took, Posix!From, Posix!At, PosixFree
  <2>2. Posix!Holders' = Posix!Holders /\ Posix!Losers' = Posix!Losers
    BY <1>3 DEF Posix!Posted, Posix!Ask, Posix!Took, Posix!From, Posix!At, Posix!Holders, Posix!Losers, Posix!Has
  <2>. QED
    BY <2>1, <2>2
<1>. QED
  <2>1. Posix!Wait(p, "wait") => pSemheld[p] = 0
    BY DEF Posix!Wait, Posix!From, Posix!At
  <2>. QED
    BY <1>1, <1>2, <1>3, <2>1 DEF Posix!release, Posix!request, Posix!try

LEMMA PosixInitially == Posix!MenuConstants /\ Posix!Init => PosixIInv /\ Posix!Pool!Init
<1>. SUFFICES ASSUME Posix!MenuConstants, Posix!Init PROVE PosixIInv /\ Posix!Pool!Init
  OBVIOUS
<1>1. PosixIInv
  BY DEF Posix!MenuConstants, Posix!Init, PosixIInv, PosixTyped, PosixAttached, PosixCounted
<1>2. PosixFree = [o \in MenuServers |-> Posix!Resources]
  BY DEF Posix!MenuConstants, Posix!Init, PosixFree, Posix!Procs
<1>3. Posix!Holders = [o \in MenuServers |-> {}] /\ Posix!Losers = [o \in MenuServers |-> {}]
  BY DEF Posix!Init, Posix!Holders, Posix!Losers, Posix!Has
<1>. QED
  BY <1>1, <1>2, <1>3 DEF Posix!Pool!Init, PosixFree

LEMMA PosixStepwise ==
  Posix!MenuConstants /\ PosixIInv /\ [Posix!Next]_(Posix!menu) => PosixIInv' /\ [Posix!Pool!Next]_(Posix!Pool!pool)
<1>. SUFFICES ASSUME Posix!MenuConstants, PosixIInv, [Posix!Next]_(Posix!menu)
              PROVE  PosixIInv' /\ (UNCHANGED <<PosixFree, Posix!Holders, Posix!Losers>> \/ Posix!Pool!Next)
  BY DEF Posix!Pool!pool, PosixFree
<1>1. CASE UNCHANGED Posix!menu
  BY <1>1 DEF Posix!menu, PosixIInv, PosixTyped, PosixAttached, PosixCounted, PosixFree, Posix!Holders,
              Posix!Losers, Posix!Has
<1>2. ASSUME NEW p \in Posix!Procs, Posix!main(p)
      PROVE  PosixIInv' /\ (UNCHANGED <<PosixFree, Posix!Holders, Posix!Losers>> \/ Posix!Pool!Next)
  <2>1. CASE Posix!exit(p) \/ Posix!remove(p)
    BY <2>1, PosixEnding DEF Posix!exit, Posix!remove, Posix!At
  <2>. QED
    BY <1>2, <2>1, PosixStarting, PosixOperating DEF Posix!main
<1>3. ASSUME NEW p \in Posix!Procs, Posix!Kill(p)
      PROVE  PosixIInv' /\ (UNCHANGED <<PosixFree, Posix!Holders, Posix!Losers>> \/ Posix!Pool!Next)
  BY <1>3, PosixEnding DEF Posix!Kill
<1>. QED
  BY <1>1, <1>2, <1>3 DEF Posix!Next

\* The semaphore menu of sema_posix.c implements the pools of two resources, for any
\* number of processes that start, ask, give back, leave, remove the name or are killed.
LEMMA ImplementsPool ==
  ASSUME Posix!MenuConstants
  PROVE  Posix!Spec => Posix!PosixPool
BY PosixInitially, PosixStepwise, PTL DEF Posix!Spec, Posix!PosixPool, Posix!Pool!Spec

----------------------------------------------------------------------------
(* How many semaphores there are                                            *)

PosixCreated == {s \in MenuServers : pId[s] = s}
PosixRemoved == {p \in Posix!Procs : pEnd[p] = "removed"}

\* As many as there were removals, and the one of the name.
PosixBalanced == Cardinality(PosixCreated) <= Cardinality(PosixRemoved) + (IF pFound = {} THEN 0 ELSE 1)

LEMMA PosixCounts == \A S : Posix!Cardinality(S) = Cardinality(S)
BY DEF Posix!Cardinality, Cardinality

LEMMA PosixFinite ==
  ASSUME IsFiniteSet(Posix!Procs)
  PROVE  /\ IsFiniteSet(PosixCreated) /\ IsFiniteSet(PosixRemoved) /\ IsFiniteSet(PosixCreated')
              /\ IsFiniteSet(PosixRemoved')
         /\ Cardinality(PosixCreated) \in Nat /\ Cardinality(PosixRemoved) \in Nat
<1>1. PosixCreated \subseteq Posix!Procs /\ PosixRemoved \subseteq Posix!Procs
      /\ PosixCreated' \subseteq Posix!Procs /\ PosixRemoved' \subseteq Posix!Procs
  BY DEF PosixCreated, PosixRemoved, Posix!Procs
<1>. QED
  BY <1>1, FS_Subset, FS_CardinalityType

\* A start adds a semaphore only where the name leads to none.
LEMMA PosixStartBalanced ==
  ASSUME Posix!MenuConstants, IsFiniteSet(Posix!Procs), PosixIInv, PosixBalanced, NEW p \in Posix!Procs,
         \/ p \in MenuServers /\ Posix!server(p)
         \/ p \in MenuClients /\ Posix!client(p)
  PROVE  PosixBalanced'
<1>. USE DEF Posix!MenuConstants, PosixIInv, PosixTyped, PosixAttached, Posix!Procs
<1>1. CASE p \in MenuServers /\ Posix!server(p) /\ pFound = {}
  <2>1. /\ pId' = [pId EXCEPT ![p] = p] /\ pFound' = {p} /\ UNCHANGED pEnd /\ pId[p] = NoLine
    BY <1>1 DEF Posix!server, Posix!From, Posix!At
  <2>2. PosixCreated' = PosixCreated \cup {p} /\ p \notin PosixCreated /\ PosixRemoved' = PosixRemoved
    BY <1>1, <2>1 DEF PosixCreated, PosixRemoved
  <2>3. Cardinality(PosixCreated') = Cardinality(PosixCreated) + 1
    BY ONLY IsFiniteSet(Posix!Procs), <2>2, PosixFinite, FS_AddElement
  <2>. QED
    BY ONLY IsFiniteSet(Posix!Procs), PosixBalanced, <1>1, <2>1, <2>2, <2>3, PosixFinite DEF PosixBalanced
<1>2. ASSUME NEW o \in pFound, Posix!From(p, "off", "menu"), pId' = [pId EXCEPT ![p] = o], UNCHANGED pFound
      PROVE  PosixBalanced'
  <2>1. pId[o] = o /\ pId[p] = NoLine /\ p # o /\ pEnd' = pEnd
    BY <1>2 DEF Posix!From, Posix!At
  <2>2. PosixCreated' = PosixCreated /\ PosixRemoved' = PosixRemoved
    BY <1>2, <2>1 DEF PosixCreated, PosixRemoved
  <2>. QED
    BY <1>2, <2>2 DEF PosixBalanced
<1>3. CASE Posix!At(p, "off") /\ Posix!End(p, "aborted") /\ UNCHANGED pFound
  <2>1. PosixCreated' = PosixCreated /\ PosixRemoved' = PosixRemoved
    BY <1>3 DEF Posix!At, Posix!End, PosixCreated, PosixRemoved
  <2>. QED
    BY <1>3, <2>1 DEF PosixBalanced
<1>. QED
  BY <1>1, <1>2, <1>3 DEF Posix!server, Posix!client

\* A removal takes the name from at most one.
LEMMA PosixEndBalanced ==
  ASSUME IsFiniteSet(Posix!Procs), PosixIInv, PosixBalanced, NEW p \in Posix!Procs,
         NEW how \in {"exited", "removed", "killed"},
         pEnd[p] = "none", Posix!End(p, how), IF how = "removed" THEN pFound' = {} ELSE pFound' = pFound
  PROVE  PosixBalanced'
<1>. USE DEF PosixIInv, PosixTyped, Posix!End
<1>1. PosixCreated' = PosixCreated
  BY DEF PosixCreated
<1>2. CASE how = "removed"
  <2>1. PosixRemoved' = PosixRemoved \cup {p} /\ p \notin PosixRemoved
    BY <1>2 DEF PosixRemoved
  <2>2. Cardinality(PosixRemoved') = Cardinality(PosixRemoved) + 1
    BY ONLY IsFiniteSet(Posix!Procs), <2>1, PosixFinite, FS_AddElement
  <2>. QED
    BY <1>1, <1>2, <2>2, PosixFinite DEF PosixBalanced
<1>3. CASE how # "removed"
  <2>1. PosixRemoved' = PosixRemoved
    BY <1>3 DEF PosixRemoved
  <2>. QED
    BY <1>1, <1>3, <2>1 DEF PosixBalanced
<1>. QED
  BY <1>2, <1>3

\* Servers and clients that start, leave and remove the name at any step: every semaphore
\* but one takes a removal.
LEMMA OnePerRemoval ==
  ASSUME Posix!MenuConstants, IsFiniteSet(Posix!Procs)
  PROVE  Posix!Spec => []Posix!SemaphoresCounted
<1>1. Posix!Init => PosixBalanced
  <2>. SUFFICES ASSUME Posix!Init PROVE PosixBalanced
    OBVIOUS
  <2>1. PosixCreated = {} /\ PosixRemoved = {}
    BY DEF Posix!Init, PosixCreated, PosixRemoved, Posix!MenuConstants, Posix!Procs
  <2>. QED
    BY <2>1, FS_EmptySet DEF PosixBalanced
<1>2. PosixIInv /\ PosixBalanced /\ [Posix!Next]_(Posix!menu) => PosixBalanced'
  <2>. SUFFICES ASSUME PosixIInv, PosixBalanced, [Posix!Next]_(Posix!menu) PROVE PosixBalanced'
    OBVIOUS
  <2>1. ASSUME UNCHANGED <<pId, pEnd, pFound>> PROVE PosixBalanced'
    BY <2>1 DEF PosixBalanced, PosixCreated, PosixRemoved
  <2>2. ASSUME NEW p \in Posix!Procs, Posix!main(p) PROVE PosixBalanced'
    <3>1. CASE Posix!release(p) \/ Posix!request(p) \/ Posix!try(p)
      BY <2>1, <3>1 DEF Posix!release, Posix!request, Posix!try, Posix!Post, Posix!Posted, Posix!Ask,
                        Posix!Wait, Posix!Took, Posix!From
    <3>2. CASE Posix!exit(p) BY <3>2, PosixEndBalanced DEF Posix!exit, Posix!At
    <3>3. CASE Posix!remove(p) BY <3>3, PosixEndBalanced DEF Posix!remove, Posix!At
    <3>. QED
      BY <2>2, <3>1, <3>2, <3>3, PosixStartBalanced DEF Posix!main
  <2>3. ASSUME NEW p \in Posix!Procs, Posix!Kill(p) PROVE PosixBalanced'
    BY <2>3, PosixEndBalanced DEF Posix!Kill
  <2>. QED
    BY <2>1, <2>2, <2>3 DEF Posix!Next, Posix!menu
<1>3. PosixBalanced => Posix!SemaphoresCounted
  BY PosixFinite, PosixCounts DEF PosixBalanced, Posix!SemaphoresCounted, PosixCreated, PosixRemoved
<1>4. Posix!Spec => []PosixIInv
  BY PosixInitially, PosixStepwise, PTL DEF Posix!Spec
<1>. QED
  BY <1>1, <1>2, <1>3, <1>4, PTL DEF Posix!Spec

----------------------------------------------------------------------------
(* sema_sysv.c                                                             *)

\* The types of the variables.
SysvTyped ==
  /\ vFound \in SUBSET MenuServers /\ vSem \in [MenuServers -> Nat]
  /\ vId \in [Sysv!Procs -> MenuServers \cup {NoLine}] /\ vSemheld \in [Sysv!Procs -> {0, 1}]
  /\ vPc \in [Sysv!Procs -> {"off", "set", "menu", "wait", "took", "posted"}]
  /\ vEnd \in [Sysv!Procs -> {"none", "exited", "removed", "aborted", "killed"}]

\* A process has a semaphore from its start on: a server its own, a client one that has
\* had its value set.
SysvAttached ==
  /\ \A p \in Sysv!Procs : vId[p] = NoLine <=> vPc[p] = "off"
  /\ \A s \in MenuServers : vPc[s] # "off" => vId[s] = s
  /\ \A c \in MenuClients : vPc[c] # "set" /\ (vId[c] # NoLine => vPc[vId[c]] \notin {"off", "set"})

\* What a process counts, at each place.
SysvCounted ==
  \A p \in Sysv!Procs :
    /\ vPc[p] \in {"off", "set", "wait", "took"} => vSemheld[p] = 0
    /\ vPc[p] = "posted" => vSemheld[p] = 1

\* The kernel finds every semaphore but those whose server has removed them.
SysvFound == \A s \in MenuServers : s \in vFound <=> vPc[s] # "off" /\ vEnd[s] # "removed"

\* Only a client sees its semaphore removed.
SysvAborted == \A p \in Sysv!Procs : vEnd[p] = "aborted" => p \in MenuClients /\ vEnd[vId[p]] = "removed"

\* Whose process has not started has not ended.
SysvRunning == \A p \in Sysv!Procs : vPc[p] = "off" => vEnd[p] = "none"

SysvIInv == SysvTyped /\ SysvAttached /\ SysvCounted /\ SysvFound /\ SysvAborted /\ SysvRunning

\* What the mapping gives for the free resources.
SysvFree == [o \in MenuServers |-> IF vPc[o] \in {"off", "set"} THEN Sysv!Resources ELSE vSem[o]]

\* A step in which p alone gets or loses a resource, or ends, moves p alone.
LEMMA SysvMoved ==
  ASSUME NEW p \in Sysv!Procs, vId[p] \in MenuServers, vId' = vId,
         \A q \in Sysv!Procs : q # p => (Sysv!Has(q)' <=> Sysv!Has(q)) /\ vEnd'[q] = vEnd[q]
  PROVE  /\ Sysv!Holders' = [Sysv!Holders EXCEPT ![vId[p]] =
                          IF Sysv!Has(p)' /\ vEnd'[p] = "none" THEN @ \cup {p} ELSE @ \ {p}]
         /\ Sysv!Losers' = [Sysv!Losers EXCEPT ![vId[p]] =
                         IF Sysv!Has(p)' /\ vEnd'[p] # "none" THEN @ \cup {p} ELSE @ \ {p}]
<1>1. ASSUME NEW o \in MenuServers
      PROVE  Sysv!Holders'[o] = IF o = vId[p]
                                THEN IF Sysv!Has(p)' /\ vEnd'[p] = "none" THEN Sysv!Holders[o] \cup {p}
                                     ELSE Sysv!Holders[o] \ {p}
                                ELSE Sysv!Holders[o]
  <2>1. \A q : q \in Sysv!Holders[o] <=> q \in Sysv!Procs /\ vId[q] = o /\ Sysv!Has(q) /\ vEnd[q] = "none"
    BY DEF Sysv!Holders
  <2>2. \A q : q \in Sysv!Holders'[o] <=> q \in Sysv!Procs /\ vId[q] = o /\ Sysv!Has(q)' /\ vEnd'[q] = "none"
    BY DEF Sysv!Holders
  <2>3. CASE o = vId[p]
    <3>1. \A q : q \in Sysv!Holders'[o] <=> IF q = p THEN Sysv!Has(p)' /\ vEnd'[p] = "none" ELSE q \in Sysv!Holders[o]
      BY <2>1, <2>2, <2>3
    <3>2. CASE Sysv!Has(p)' /\ vEnd'[p] = "none"
      <4>1. Sysv!Holders'[o] = Sysv!Holders[o] \cup {p}
        BY ONLY <3>1, <3>2
      <4>. QED
        BY ONLY <2>3, <3>2, <4>1
    <3>3. CASE ~(Sysv!Has(p)' /\ vEnd'[p] = "none")
      <4>1. Sysv!Holders'[o] = Sysv!Holders[o] \ {p}
        BY ONLY <3>1, <3>3
      <4>. QED
        BY ONLY <2>3, <3>3, <4>1
    <3>. QED
      BY <3>2, <3>3
  <2>4. CASE o # vId[p]
    BY <2>1, <2>2, <2>4
  <2>. QED
    BY <2>3, <2>4
<1>2. ASSUME NEW o \in MenuServers
      PROVE  Sysv!Losers'[o] = IF o = vId[p]
                               THEN IF Sysv!Has(p)' /\ vEnd'[p] # "none" THEN Sysv!Losers[o] \cup {p}
                                    ELSE Sysv!Losers[o] \ {p}
                               ELSE Sysv!Losers[o]
  <2>1. \A q : q \in Sysv!Losers[o] <=> q \in Sysv!Procs /\ vId[q] = o /\ Sysv!Has(q) /\ vEnd[q] # "none"
    BY DEF Sysv!Losers
  <2>2. \A q : q \in Sysv!Losers'[o] <=> q \in Sysv!Procs /\ vId[q] = o /\ Sysv!Has(q)' /\ vEnd'[q] # "none"
    BY DEF Sysv!Losers
  <2>3. CASE o = vId[p]
    <3>1. \A q : q \in Sysv!Losers'[o] <=> IF q = p THEN Sysv!Has(p)' /\ vEnd'[p] # "none" ELSE q \in Sysv!Losers[o]
      BY <2>1, <2>2, <2>3
    <3>2. CASE Sysv!Has(p)' /\ vEnd'[p] # "none"
      <4>1. Sysv!Losers'[o] = Sysv!Losers[o] \cup {p}
        BY ONLY <3>1, <3>2
      <4>. QED
        BY ONLY <2>3, <3>2, <4>1
    <3>3. CASE ~(Sysv!Has(p)' /\ vEnd'[p] # "none")
      <4>1. Sysv!Losers'[o] = Sysv!Losers[o] \ {p}
        BY ONLY <3>1, <3>3
      <4>. QED
        BY ONLY <2>3, <3>3, <4>1
    <3>. QED
      BY <3>2, <3>3
  <2>4. CASE o # vId[p]
    BY <2>1, <2>2, <2>4
  <2>. QED
    BY <2>3, <2>4
<1>3. /\ Sysv!Holders = [o \in MenuServers |-> Sysv!Holders[o]]
         /\ Sysv!Holders' = [o \in MenuServers |-> Sysv!Holders'[o]]
      /\ Sysv!Losers = [o \in MenuServers |-> Sysv!Losers[o]]
         /\ Sysv!Losers' = [o \in MenuServers |-> Sysv!Losers'[o]]
  BY DEF Sysv!Holders, Sysv!Losers
<1>4. Sysv!Holders' = [Sysv!Holders EXCEPT ![vId[p]] =
                    IF Sysv!Has(p)' /\ vEnd'[p] = "none" THEN @ \cup {p} ELSE @ \ {p}]
  BY <1>1, <1>3
<1>5. Sysv!Losers' = [Sysv!Losers EXCEPT ![vId[p]] =
                   IF Sysv!Has(p)' /\ vEnd'[p] # "none" THEN @ \cup {p} ELSE @ \ {p}]
  BY <1>2, <1>3
<1>. QED
  BY <1>4, <1>5

\* What a step of the pools is.
LEMMA SysvPoolStep ==
  ASSUME NEW p \in Sysv!Procs, NEW o \in MenuServers,
         Sysv!Pool!Take(p, o) \/ Sysv!Pool!Give(p, o) \/ Sysv!Pool!Lose(p, o)
  PROVE  Sysv!Pool!Next
BY Zenon DEF Sysv!Pool!Next

\* The start of a process changes nobody's resources.
LEMMA SysvStarting ==
  ASSUME Sysv!MenuConstants, SysvIInv, NEW p \in Sysv!Procs,
         \/ p \in MenuServers /\ Sysv!server(p)
         \/ p \in MenuClients /\ Sysv!client(p)
  PROVE  SysvIInv' /\ UNCHANGED <<SysvFree, Sysv!Holders, Sysv!Losers>>
<1>. USE DEF Sysv!MenuConstants, SysvIInv, SysvTyped, SysvAttached, SysvCounted, SysvFound, SysvAborted,
             SysvRunning, Sysv!Procs
<1>1. ASSUME p \in MenuServers, Sysv!From(p, "off", "set"), vId' = [vId EXCEPT ![p] = p], vFound' = vFound \cup {p},
             UNCHANGED <<vSem, vSemheld>>
      PROVE  SysvIInv' /\ UNCHANGED <<SysvFree, Sysv!Holders, Sysv!Losers>>
  <2>. USE <1>1 DEF Sysv!From, Sysv!At
  <2>1. /\ vId[p] = NoLine /\ \A q \in Sysv!Procs : vId[q] # p
        /\ vPc' = [vPc EXCEPT ![p] = "set"] /\ vPc[p] = "off" /\ UNCHANGED vEnd
    OBVIOUS
  <2>2. SysvIInv'
    BY <2>1
  <2>3. SysvFree' = SysvFree
    BY <2>1 DEF SysvFree
  <2>4. Sysv!Holders' = Sysv!Holders /\ Sysv!Losers' = Sysv!Losers
    BY <2>1 DEF Sysv!Holders, Sysv!Losers, Sysv!Has
  <2>. QED
    BY <2>2, <2>3, <2>4
<1>2. ASSUME p \in MenuServers, Sysv!From(p, "set", "menu"), vSem' = [vSem EXCEPT ![p] = Sysv!Resources],
             UNCHANGED <<vFound, vId, vSemheld>>
      PROVE  SysvIInv' /\ UNCHANGED <<SysvFree, Sysv!Holders, Sysv!Losers>>
  <2>. USE <1>2 DEF Sysv!From, Sysv!At
  <2>1. vPc' = [vPc EXCEPT ![p] = "menu"] /\ vPc[p] = "set" /\ UNCHANGED vEnd
    OBVIOUS
  <2>2. SysvIInv'
    BY <2>1 DEF Sysv!Resources
  <2>3. SysvFree' = SysvFree
    BY <2>1 DEF SysvFree
  <2>4. Sysv!Holders' = Sysv!Holders /\ Sysv!Losers' = Sysv!Losers
    BY <2>1 DEF Sysv!Holders, Sysv!Losers, Sysv!Has
  <2>. QED
    BY <2>2, <2>3, <2>4
<1>3. CASE p \in MenuClients /\ Sysv!client(p)
  <2>. USE <1>3 DEF Sysv!client, Sysv!From, Sysv!At
  <2>1. PICK s \in MenuServers : vPc[s] \notin {"off", "set"} /\ vId' = [vId EXCEPT ![p] = s]
    OBVIOUS
  <2>2. /\ vId[p] = NoLine /\ p \notin MenuServers /\ p # s
        /\ vPc' = [vPc EXCEPT ![p] = "menu"] /\ vPc[p] = "off" /\ UNCHANGED <<vEnd, vFound, vSem, vSemheld>>
    OBVIOUS
  <2>3. SysvIInv'
    BY <2>1, <2>2
  <2>4. SysvFree' = SysvFree
    BY <2>2 DEF SysvFree
  <2>5. Sysv!Holders' = Sysv!Holders /\ Sysv!Losers' = Sysv!Losers
    BY <2>1, <2>2 DEF Sysv!Holders, Sysv!Losers, Sysv!Has
  <2>. QED
    BY <2>3, <2>4, <2>5
<1>. QED
  BY <1>1, <1>2, <1>3 DEF Sysv!server

\* An end loses what the process has.
LEMMA SysvEnding ==
  ASSUME Sysv!MenuConstants, SysvIInv, NEW p \in Sysv!Procs, NEW how \in {"exited", "removed", "killed", "aborted"},
         vPc[p] # "off", vEnd[p] = "none", Sysv!End(p, how),
         IF how = "removed" THEN p \in MenuServers /\ vFound' = vFound \ {p} ELSE vFound' = vFound,
         how = "aborted" => vId[p] \notin vFound
  PROVE  SysvIInv' /\ (UNCHANGED <<SysvFree, Sysv!Holders, Sysv!Losers>> \/ Sysv!Pool!Next)
<1>. USE DEF SysvIInv, SysvTyped, SysvAttached, SysvCounted, SysvFound, SysvAborted, SysvRunning, Sysv!End
<1>1. SysvIInv'
  <2>1. /\ vEnd' = [vEnd EXCEPT ![p] = how] /\ UNCHANGED <<vSem, vId, vSemheld, vPc>>
        /\ vId[p] \in MenuServers
    OBVIOUS
  <2>2. SysvTyped' /\ SysvAttached' /\ SysvCounted' /\ SysvRunning'
    BY <2>1
  <2>3. SysvFound'
    BY <2>1 DEF Sysv!MenuConstants, Sysv!Procs
  <2>4. how = "aborted" => p \in MenuClients /\ vEnd[vId[p]] = "removed" /\ vId[p] # p
    BY <2>1 DEF Sysv!MenuConstants, Sysv!Procs
  <2>5. SysvAborted'
    <3>1. ASSUME NEW q \in Sysv!Procs, vEnd'[q] = "aborted" PROVE q \in MenuClients /\ vEnd'[vId'[q]] = "removed"
      <4>1. CASE q = p BY <2>1, <2>4, <3>1, <4>1
      <4>2. CASE q # p
        <5>1. vEnd[q] = "aborted" /\ vEnd[vId[q]] = "removed" /\ q \in MenuClients BY <2>1, <3>1, <4>2
        <5>. QED BY <2>1, <5>1
      <4>. QED BY <4>1, <4>2
    <3>. QED BY <3>1
  <2>. QED
    BY <2>2, <2>3, <2>5
<1>2. SysvFree' = SysvFree
  BY DEF SysvFree
<1>3. CASE Sysv!Has(p)
  <2>1. vId[p] \in MenuServers /\ p \in Sysv!Holders[vId[p]]
    BY <1>3 DEF Sysv!Holders
  <2>2. /\ Sysv!Has(p)' /\ vEnd'[p] # "none" /\ vId' = vId
        /\ \A q \in Sysv!Procs : q # p => (Sysv!Has(q)' <=> Sysv!Has(q)) /\ vEnd'[q] = vEnd[q]
    BY <1>3 DEF Sysv!Has
  <2>3. /\ Sysv!Holders' = [Sysv!Holders EXCEPT ![vId[p]] = @ \ {p}]
        /\ Sysv!Losers' = [Sysv!Losers EXCEPT ![vId[p]] = @ \cup {p}]
    BY <2>1, <2>2, SysvMoved
  <2>4. Sysv!Pool!Next
    <3>1. PICK o \in MenuServers : vId[p] = o
      BY <2>1
    <3>2. Sysv!Pool!Lose(p, o)
      BY <3>1, <1>2, <2>1, <2>3 DEF Sysv!Pool!Lose, SysvFree
    <3>. QED
      BY <3>2, SysvPoolStep
  <2>. QED
    BY <1>1, <2>4
<1>4. CASE ~Sysv!Has(p)
  BY <1>1, <1>2, <1>4 DEF Sysv!Holders, Sysv!Losers, Sysv!Has
<1>. QED
  BY <1>3, <1>4

\* A step within the menu changes only what its process counts.
LEMMA SysvWithin ==
  ASSUME SysvIInv, NEW p \in Sysv!Procs, NEW to \in {"menu", "wait", "took", "posted"}, vPc[p] \notin {"off", "set"},
         vPc' = [vPc EXCEPT ![p] = to], UNCHANGED <<vFound, vId, vEnd>>, SysvTyped', SysvCounted'
  PROVE  SysvIInv' /\ \A o \in MenuServers : vPc'[o] \in {"off", "set"} <=> vPc[o] \in {"off", "set"}
<1>1. MenuServers \subseteq Sysv!Procs /\ MenuClients \subseteq Sysv!Procs
  BY DEF Sysv!Procs
<1>2. \A q \in Sysv!Procs : /\ vPc'[q] \in {"off", "set"} <=> vPc[q] \in {"off", "set"}
                            /\ vPc'[q] = "off" <=> vPc[q] = "off"
                            /\ vPc'[q] = "set" <=> vPc[q] = "set"
  BY DEF SysvIInv, SysvTyped
<1>3. SysvAttached'
  <2>1. \A c \in MenuClients : vId[c] # NoLine => vId[c] \in MenuServers BY <1>1 DEF SysvIInv, SysvTyped
  <2>. QED BY <1>1, <1>2, <2>1 DEF SysvIInv, SysvAttached
<1>4. SysvFound' /\ SysvAborted' /\ SysvRunning'
  BY <1>1, <1>2 DEF SysvIInv, SysvFound, SysvAborted, SysvRunning
<1>. QED
  BY <1>1, <1>2, <1>3, <1>4 DEF SysvIInv

\* A semaphore operation takes or gives one resource.
LEMMA SysvOperating ==
  ASSUME SysvIInv, NEW p \in Sysv!Procs,
         Sysv!Post(p) \/ Sysv!Posted(p) \/ Sysv!Ask(p) \/ Sysv!Wait(p, "wait") \/ Sysv!Took(p)
  PROVE  SysvIInv' /\ (UNCHANGED <<SysvFree, Sysv!Holders, Sysv!Losers>> \/ Sysv!Pool!Next)
<1>. USE DEF SysvIInv, SysvTyped, SysvAttached, SysvCounted
<1>0. (p \in MenuServers \/ p \in MenuClients) /\ MenuServers \subseteq Sysv!Procs
  BY DEF Sysv!Procs
<1>1. CASE Sysv!Post(p)
  <2>. USE <1>1 DEF Sysv!Post, Sysv!From, Sysv!At
  <2>1. /\ vId[p] \in MenuServers /\ vPc[vId[p]] \notin {"off", "set"} /\ vPc'[vId[p]] \notin {"off", "set"}
        /\ vSem' = [vSem EXCEPT ![vId[p]] = @ + 1] /\ UNCHANGED <<vFound, vId, vSemheld, vEnd>>
        /\ vPc' = [vPc EXCEPT ![p] = "posted"] /\ vSemheld[p] = 1 /\ vPc[p] = "menu" /\ vEnd[p] = "none"
    BY <1>0
  <2>2. SysvTyped' /\ SysvCounted'
    BY <2>1
  <2>8. SysvIInv' /\ \A o \in MenuServers : vPc'[o] \in {"off", "set"} <=> vPc[o] \in {"off", "set"}
    BY ONLY SysvIInv, p \in Sysv!Procs, <2>1, <2>2, SysvWithin
  <2>3. SysvFree' = [SysvFree EXCEPT ![vId[p]] = @ + 1]
    <3>1. \A o \in MenuServers : SysvFree'[o] = IF o = vId[p] THEN SysvFree[o] + 1 ELSE SysvFree[o]
      BY ONLY SysvTyped, <2>1, <2>8 DEF SysvFree, SysvTyped
    <3>. QED
      BY ONLY <3>1 DEF SysvFree
  <2>4. /\ ~Sysv!Has(p)'
        /\ \A q \in Sysv!Procs : q # p => (Sysv!Has(q)' <=> Sysv!Has(q)) /\ vEnd'[q] = vEnd[q]
    BY <2>1 DEF Sysv!Has
  <2>5. p \in Sysv!Holders[vId[p]] /\ p \notin Sysv!Losers[vId[p]]
    BY <2>1 DEF Sysv!Holders, Sysv!Losers, Sysv!Has
  <2>6. Sysv!Holders' = [Sysv!Holders EXCEPT ![vId[p]] = @ \ {p}] /\ Sysv!Losers' = Sysv!Losers
    <3>1. /\ Sysv!Holders' = [Sysv!Holders EXCEPT ![vId[p]] = @ \ {p}]
          /\ Sysv!Losers' = [Sysv!Losers EXCEPT ![vId[p]] = @ \ {p}]
      BY <2>1, <2>4, SysvMoved
    <3>2. Sysv!Losers = [o \in MenuServers |-> Sysv!Losers[o]]
      BY DEF Sysv!Losers
    <3>3. Sysv!Losers[vId[p]] \ {p} = Sysv!Losers[vId[p]]
      BY ONLY <2>5
    <3>. QED
      BY ONLY <2>1, <3>1, <3>2, <3>3
  <2>7. Sysv!Pool!Next
    <3>1. PICK o \in MenuServers : vId[p] = o
      BY <2>1
    <3>2. Sysv!Pool!Give(p, o)
      BY ONLY <3>1, <2>3, <2>5, <2>6 DEF Sysv!Pool!Give, SysvFree
    <3>. QED
      BY <3>2, SysvPoolStep
  <2>. QED
    BY ONLY <2>7, <2>8
<1>2. ASSUME NEW at \in {"menu", "wait"}, vSemheld[p] = 0, Sysv!Wait(p, at)
      PROVE  SysvIInv' /\ Sysv!Pool!Next
  <2>. USE <1>2 DEF Sysv!Wait, Sysv!From, Sysv!At
  <2>1. /\ vId[p] \in MenuServers /\ vPc[vId[p]] \notin {"off", "set"} /\ vPc'[vId[p]] \notin {"off", "set"}
             /\ vSem[vId[p]] > 0
        /\ vSem' = [vSem EXCEPT ![vId[p]] = @ - 1] /\ UNCHANGED <<vFound, vId, vSemheld, vEnd>>
        /\ vPc' = [vPc EXCEPT ![p] = "took"] /\ vPc[p] = at /\ vEnd[p] = "none"
    BY <1>0
  <2>2. SysvTyped' /\ SysvCounted'
    BY <2>1
  <2>8. SysvIInv' /\ \A o \in MenuServers : vPc'[o] \in {"off", "set"} <=> vPc[o] \in {"off", "set"}
    BY ONLY SysvIInv, p \in Sysv!Procs, at \in {"menu", "wait"}, <2>1, <2>2, SysvWithin
  <2>3. SysvFree[vId[p]] > 0 /\ SysvFree' = [SysvFree EXCEPT ![vId[p]] = @ - 1]
    <3>1. SysvFree[vId[p]] = vSem[vId[p]]
      BY <2>1 DEF SysvFree
    <3>2. \A o \in MenuServers : SysvFree'[o] = IF o = vId[p] THEN SysvFree[o] - 1 ELSE SysvFree[o]
      BY ONLY SysvTyped, <2>1, <2>8 DEF SysvFree, SysvTyped
    <3>3. SysvFree' = [SysvFree EXCEPT ![vId[p]] = @ - 1]
      BY ONLY <3>2 DEF SysvFree
    <3>. QED
      BY <2>1, <3>1, <3>3
  <2>4. /\ Sysv!Has(p)'
        /\ \A q \in Sysv!Procs : q # p => (Sysv!Has(q)' <=> Sysv!Has(q)) /\ vEnd'[q] = vEnd[q]
    BY <2>1 DEF Sysv!Has
  <2>5. \A q \in MenuServers : p \notin Sysv!Holders[q] \cup Sysv!Losers[q]
    BY <2>1 DEF Sysv!Holders, Sysv!Losers, Sysv!Has
  <2>6. Sysv!Holders' = [Sysv!Holders EXCEPT ![vId[p]] = @ \cup {p}] /\ Sysv!Losers' = Sysv!Losers
    <3>1. /\ Sysv!Holders' = [Sysv!Holders EXCEPT ![vId[p]] = @ \cup {p}]
          /\ Sysv!Losers' = [Sysv!Losers EXCEPT ![vId[p]] = @ \ {p}]
      BY <2>1, <2>4, SysvMoved
    <3>2. Sysv!Losers = [o \in MenuServers |-> Sysv!Losers[o]]
      BY DEF Sysv!Losers
    <3>3. Sysv!Losers[vId[p]] \ {p} = Sysv!Losers[vId[p]]
      BY <2>1, <2>5
    <3>. QED
      BY ONLY <2>1, <3>1, <3>2, <3>3
  <2>7. Sysv!Pool!Next
    <3>1. PICK o \in MenuServers : vId[p] = o
      BY <2>1
    <3>2. Sysv!Pool!Take(p, o)
      BY ONLY <3>1, <2>3, <2>5, <2>6 DEF Sysv!Pool!Take, SysvFree
    <3>. QED
      BY <3>2, SysvPoolStep
  <2>. QED
    BY ONLY <2>7, <2>8
<1>3. CASE Sysv!Posted(p) \/ Sysv!Ask(p) \/ Sysv!Took(p)
  <2>1. PICK to \in {"menu", "wait", "took", "posted"} : vPc' = [vPc EXCEPT ![p] = to]
    BY <1>3 DEF Sysv!Posted, Sysv!Ask, Sysv!Took, Sysv!From
  <2>2. vPc[p] \notin {"off", "set"} /\ UNCHANGED <<vFound, vId, vEnd, vSem>>
    BY <1>3 DEF Sysv!Posted, Sysv!Ask, Sysv!Took, Sysv!From, Sysv!At
  <2>3. SysvTyped' /\ SysvCounted'
    BY <1>3 DEF Sysv!Posted, Sysv!Ask, Sysv!Took, Sysv!From, Sysv!At
  <2>4. SysvIInv' /\ \A o \in MenuServers : vPc'[o] \in {"off", "set"} <=> vPc[o] \in {"off", "set"}
    BY ONLY SysvIInv, p \in Sysv!Procs, <2>1, <2>2, <2>3, SysvWithin
  <2>5. SysvFree' = SysvFree
    BY <2>2, <2>4 DEF SysvFree
  <2>6. Sysv!Holders' = Sysv!Holders /\ Sysv!Losers' = Sysv!Losers
    BY <1>3 DEF Sysv!Posted, Sysv!Ask, Sysv!Took, Sysv!From, Sysv!At, Sysv!Holders, Sysv!Losers, Sysv!Has
  <2>. QED
    BY ONLY <2>4, <2>5, <2>6
<1>. QED
  <2>1. Sysv!Wait(p, "wait") => vSemheld[p] = 0
    BY DEF Sysv!Wait, Sysv!From, Sysv!At
  <2>. QED
    BY <1>1, <1>2, <1>3, <2>1

LEMMA SysvInitially == Sysv!MenuConstants /\ Sysv!Init => SysvIInv /\ Sysv!Pool!Init
<1>. SUFFICES ASSUME Sysv!MenuConstants, Sysv!Init PROVE SysvIInv /\ Sysv!Pool!Init
  OBVIOUS
<1>1. SysvIInv
  BY DEF Sysv!MenuConstants, Sysv!Init, SysvIInv, SysvTyped, SysvAttached, SysvCounted, SysvFound, SysvAborted,
         SysvRunning, Sysv!Procs
<1>2. SysvFree = [o \in MenuServers |-> Sysv!Resources]
  BY DEF Sysv!Init, SysvFree, Sysv!Procs
<1>3. Sysv!Holders = [o \in MenuServers |-> {}] /\ Sysv!Losers = [o \in MenuServers |-> {}]
  BY DEF Sysv!Init, Sysv!Holders, Sysv!Losers, Sysv!Has
<1>. QED
  BY <1>1, <1>2, <1>3 DEF Sysv!Pool!Init, SysvFree

LEMMA SysvStepwise ==
  Sysv!MenuConstants /\ SysvIInv /\ [Sysv!Next]_(Sysv!menu) => SysvIInv' /\ [Sysv!Pool!Next]_(Sysv!Pool!pool)
<1>. SUFFICES ASSUME Sysv!MenuConstants, SysvIInv, [Sysv!Next]_(Sysv!menu)
              PROVE  SysvIInv' /\ (UNCHANGED <<SysvFree, Sysv!Holders, Sysv!Losers>> \/ Sysv!Pool!Next)
  BY DEF Sysv!Pool!pool, SysvFree
<1>1. CASE UNCHANGED Sysv!menu
  BY <1>1 DEF Sysv!menu, SysvIInv, SysvTyped, SysvAttached, SysvCounted, SysvFound, SysvAborted, SysvRunning,
              SysvFree, Sysv!Holders, Sysv!Losers, Sysv!Has
<1>2. ASSUME NEW p \in Sysv!Procs, Sysv!main(p)
      PROVE  SysvIInv' /\ (UNCHANGED <<SysvFree, Sysv!Holders, Sysv!Losers>> \/ Sysv!Pool!Next)
  <2>1. ASSUME Sysv!At(p, "menu") \/ Sysv!At(p, "wait"), Sysv!semopFails(p)
        PROVE  SysvIInv' /\ (UNCHANGED <<SysvFree, Sysv!Holders, Sysv!Losers>> \/ Sysv!Pool!Next)
    BY <2>1, SysvEnding DEF Sysv!semopFails, Sysv!At
  <2>2. CASE Sysv!exit(p)
    <3>1. CASE p \in MenuClients BY <2>2, <3>1, SysvEnding DEF Sysv!exit, Sysv!At
    <3>2. CASE p \notin MenuClients /\ p \in vFound
      BY <2>2, <3>2, SysvEnding DEF Sysv!exit, Sysv!At, Sysv!Procs
    <3>3. CASE p \notin MenuClients /\ p \notin vFound BY <2>1, <2>2, <3>3 DEF Sysv!exit
    <3>. QED BY <3>1, <3>2, <3>3
  <2>3. CASE Sysv!release(p) BY <2>1, <2>3, SysvOperating DEF Sysv!release
  <2>4. CASE Sysv!request(p) BY <2>1, <2>4, SysvOperating DEF Sysv!request
  <2>. QED
    BY <1>2, <2>2, <2>3, <2>4, SysvStarting DEF Sysv!main
<1>3. ASSUME NEW p \in Sysv!Procs, Sysv!Kill(p)
      PROVE  SysvIInv' /\ (UNCHANGED <<SysvFree, Sysv!Holders, Sysv!Losers>> \/ Sysv!Pool!Next)
  BY <1>3, SysvEnding DEF Sysv!Kill
<1>. QED
  BY <1>1, <1>2, <1>3 DEF Sysv!Next

\* The semaphores of sema_sysv.c are locks: each implements a pool of one resource, for any
\* number of processes that start, ask, give back, leave, are refused or are killed.
LEMMA ImplementsLocks ==
  ASSUME Sysv!MenuConstants
  PROVE  Sysv!Spec => Sysv!SysvPool
BY SysvInitially, SysvStepwise, PTL DEF Sysv!Spec, Sysv!SysvPool, Sysv!Pool!Spec

\* However processes start, ask and end, no assertion fails but of a client that goes on
\* after its server has removed the semaphore.
LEMMA SysvAbortsExplained ==
  ASSUME Sysv!MenuConstants
  PROVE  Sysv!Spec => []Sysv!AbortsAfterRemoval
<1>1. SysvIInv => Sysv!AbortsAfterRemoval
  BY DEF SysvIInv, SysvAborted, Sysv!AbortsAfterRemoval
<1>. QED
  BY SysvInitially, SysvStepwise, <1>1, PTL DEF Sysv!Spec

----------------------------------------------------------------------------
(* Whichever program runs                                                  *)

LEMMA StepsOfAll == [MCNext]_all => [Next]_vars /\ [Posix!Next]_pVars /\ [Sysv!Next]_vVars
BY DEF MCNext, all, Running

LEMMA MailInvariant == MCSpec => []MailInv
<1>1. MCInit => MailInv
  BY MailInitially DEF MCInit
<1>2. MailInv /\ [MCNext]_all => MailInv'
  BY StepsOfAll, MailPreserved
<1> QED BY <1>1, <1>2, PTL DEF MCSpec

\* shared_sysv.c: until a process that used the semaphores ends, one process at a time
\* has its turn on the buffer, and no message is lost or posted over another, for any
\* number of clients and any range of the kernel's sums.
THEOREM OneTurnUntilUndo == MCSpec => []MailboxUntilUndo
BY MailInvariant, SlotsKept, PTL

\* What SEM_UNDO takes back is what was taken, however processes are killed in between:
\* the values and the sums add up to the first values until the kernel cuts one off.
THEOREM NothingTakenTwice == MCSpec => []UndoRestores
BY MailInvariant, ValuesRestored, PTL

\* An assertion of locksem or unlocksem fails only when the server has removed the set, or
\* at the end of a range.
THEOREM MailAbortsExplained == MCSpec => AbortsExplained
<1>1. MailInv /\ [MCNext]_all =>
        [\A p \in Procs : pc'[p] = "aborted" /\ pc[p] # "aborted" =>
           \/ pc[Server] = "exited"
           \/ \E s \in Sems : semval[s] = SEMAEM \/ semadj[p][s] \in {SEMAEM, -SEMAEM - 1}]_vars
  BY StepsOfAll, WhyAborted
<1> QED BY MailInvariant, <1>1, PTL DEF MCSpec, AbortsExplained

\* The menus start as their specifications do and take their steps.
LEMMA MenusRun == MCSpec => Posix!Spec /\ Sysv!Spec
<1>1. MCInit => Posix!Init /\ Sysv!Init
  BY DEF MCInit
<1>2. [MCNext]_all => [Posix!Next]_(Posix!menu) /\ [Sysv!Next]_(Sysv!menu)
  BY StepsOfAll DEF pVars, vVars, Posix!menu, Sysv!menu
<1> QED BY <1>1, <1>2, PTL DEF MCSpec, Posix!Spec, Sysv!Spec

LEMMA MenusConstants ==
  /\ Posix!MenuConstants /\ Sysv!MenuConstants /\ IsFiniteSet(Posix!Procs)
<1>1. IsFiniteSet(MenuServers \cup MenuClients)
  BY MCSemaphoresAssumption, FS_Union
<1> QED BY <1>1, MCSemaphoresAssumption DEF Posix!MenuConstants, Sysv!MenuConstants, Posix!Procs

\* The menus of sema_posix.c and sema_sysv.c implement the pools of two resources and of
\* one, for any number of processes that start, ask, give back, leave, remove or are killed.
THEOREM ImplementPools == MCSpec => MenusArePools
<1>1. MCSpec => Posix!PosixPool /\ Sysv!SysvPool
  BY MenusRun, MenusConstants, ImplementsPool, ImplementsLocks, PTL
<1> QED BY <1>1 DEF MenusArePools

\* sema_posix.c: whoever starts, leaves and unlinks at any step, every semaphore but one takes
\* a removal of the name.
THEOREM SemaphorePerRemoval == MCSpec => []SemaphoresCounted
<1>1. MCSpec => []Posix!SemaphoresCounted
  BY MenusRun, MenusConstants, OnePerRemoval, PTL
<1> QED BY <1>1 DEF SemaphoresCounted

\* sema_sysv.c: no assertion fails but of a client that goes on after its server has removed
\* the semaphore.
THEOREM OnlyAfterRemoval == MCSpec => []AbortsAfterRemoval
<1>1. MCSpec => []Sysv!AbortsAfterRemoval
  BY MenusRun, MenusConstants, SysvAbortsExplained, PTL
<1> QED BY <1>1 DEF AbortsAfterRemoval

----------------------------------------------------------------------------
(* Any pool                                                                *)

CONSTANTS Users, Pools, Resources
VARIABLES free, held, lost

AnyPool == INSTANCE ResourcePool

\* The inductive invariant: Conserved, and the types and finiteness it needs.
PoolInv ==
  /\ free \in [Pools -> Nat]
  /\ held \in [Pools -> SUBSET Users] /\ lost \in [Pools -> SUBSET Users]
  /\ \A o \in Pools : IsFiniteSet(held[o]) /\ IsFiniteSet(lost[o])
  /\ AnyPool!Conserved

\* The pool counts as the menus do.
LEMMA PoolCounts == \A S : AnyPool!Cardinality(S) = Cardinality(S)
BY DEF AnyPool!Cardinality, Cardinality

\* Every step keeps all resources accounted for.
LEMMA PoolStep == PoolInv /\ [AnyPool!Next]_(AnyPool!pool) => PoolInv'
<1>. SUFFICES ASSUME PoolInv, [AnyPool!Next]_(AnyPool!pool) PROVE PoolInv'
  OBVIOUS
<1>. USE DEF PoolInv
<1>1. ASSUME NEW u \in Users, NEW o \in Pools, AnyPool!Take(u, o) PROVE PoolInv'
  <2>. USE <1>1 DEF AnyPool!Take
  <2>1. /\ IsFiniteSet(held[o] \cup {u})
        /\ Cardinality(held[o] \cup {u}) = Cardinality(held[o]) + 1
    BY FS_AddElement
  <2>2. Cardinality(held[o]) \in Nat /\ Cardinality(lost[o]) \in Nat
    BY FS_CardinalityType
  <2>3. /\ free' \in [Pools -> Nat] /\ held' \in [Pools -> SUBSET Users]
        /\ \A q \in Pools : IsFiniteSet(held'[q])
    BY <2>1
  <2>4. \A q \in Pools : free'[q] + Cardinality(held'[q]) + Cardinality(lost'[q]) = Resources
    BY <2>1, <2>2, PoolCounts DEF AnyPool!Conserved
  <2>5. \A p, q \in Pools : held'[p] \cap lost'[q] = {} /\ (p # q => held'[p] \cap held'[q] = {})
    BY DEF AnyPool!Conserved
  <2>. QED
    BY <2>3, <2>4, <2>5, PoolCounts DEF AnyPool!Conserved
<1>2. ASSUME NEW u \in Users, NEW o \in Pools, AnyPool!Give(u, o) PROVE PoolInv'
  <2>. USE <1>2 DEF AnyPool!Give
  <2>1. /\ IsFiniteSet(held[o] \ {u})
        /\ Cardinality(held[o] \ {u}) = Cardinality(held[o]) - 1
    BY FS_RemoveElement
  <2>2. Cardinality(held[o]) \in Nat /\ Cardinality(lost[o]) \in Nat
    BY FS_CardinalityType
  <2>3. /\ free' \in [Pools -> Nat] /\ held' \in [Pools -> SUBSET Users]
        /\ \A q \in Pools : IsFiniteSet(held'[q])
    BY <2>1
  <2>4. \A q \in Pools : free'[q] + Cardinality(held'[q]) + Cardinality(lost'[q]) = Resources
    BY <2>1, <2>2, PoolCounts DEF AnyPool!Conserved
  <2>5. \A p, q \in Pools : held'[p] \cap lost'[q] = {} /\ (p # q => held'[p] \cap held'[q] = {})
    BY DEF AnyPool!Conserved
  <2>. QED
    BY <2>3, <2>4, <2>5, PoolCounts DEF AnyPool!Conserved
<1>3. ASSUME NEW u \in Users, NEW o \in Pools, AnyPool!Lose(u, o) PROVE PoolInv'
  <2>. USE <1>3 DEF AnyPool!Lose
  <2>0. u \notin lost[o] /\ \A q \in Pools : q # o => u \notin held[q]
    BY DEF AnyPool!Conserved
  <2>1. /\ IsFiniteSet(held[o] \ {u})
        /\ Cardinality(held[o] \ {u}) = Cardinality(held[o]) - 1
    BY FS_RemoveElement
  <2>2. /\ IsFiniteSet(lost[o] \cup {u})
        /\ Cardinality(lost[o] \cup {u}) = Cardinality(lost[o]) + 1
    BY <2>0, FS_AddElement
  <2>3. Cardinality(held[o]) \in Nat /\ Cardinality(lost[o]) \in Nat
    BY FS_CardinalityType
  <2>4. /\ held' \in [Pools -> SUBSET Users] /\ lost' \in [Pools -> SUBSET Users]
        /\ \A q \in Pools : IsFiniteSet(held'[q]) /\ IsFiniteSet(lost'[q])
    BY <2>1, <2>2
  <2>5. \A q \in Pools : free'[q] + Cardinality(held'[q]) + Cardinality(lost'[q]) = Resources
    BY <2>1, <2>2, <2>3, PoolCounts DEF AnyPool!Conserved
  <2>6. \A p, q \in Pools : held'[p] \cap lost'[q] = {} /\ (p # q => held'[p] \cap held'[q] = {})
    BY <2>0 DEF AnyPool!Conserved
  <2>. QED
    BY <2>4, <2>5, <2>6, PoolCounts DEF AnyPool!Conserved
<1>4. CASE UNCHANGED AnyPool!pool
  BY <1>4 DEF AnyPool!pool, AnyPool!Conserved
<1>. QED
  BY <1>1, <1>2, <1>3, <1>4 DEF AnyPool!Next

\* The free, held and lost resources of a pool are always all of its resources, for
\* any number of users, pools and resources; so are those of the two semaphore menus,
\* which implement it.
THEOREM AllAccountedFor ==
  ASSUME Resources \in Nat
  PROVE  AnyPool!Spec => []AnyPool!Conserved
<1>1. AnyPool!Init => PoolInv
  BY FS_EmptySet, PoolCounts DEF AnyPool!Init, PoolInv, AnyPool!Conserved
<1>2. PoolInv => AnyPool!Conserved
  BY DEF PoolInv
<1>. QED
  BY <1>1, <1>2, PoolStep, PTL DEF AnyPool!Spec
=============================================================================
