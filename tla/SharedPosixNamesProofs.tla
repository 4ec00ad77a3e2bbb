----------------------- MODULE SharedPosixNamesProofs -----------------------
(***************************************************************************)
(* For every set of servers and clients of shared_posix.c: while nobody    *)
(* has mixed objects each segment has one owner at a time, mixing takes a  *)
(* delete, and who aborts has a reason that can be named.                  *)
(*                                                                         *)
(* Two facts carry the proof.  As long as nobody mixes, the processes that *)
(* have all three objects fall into groups with the same three, and the    *)
(* two semaphores of a group have one turn between them: they start with   *)
(* it when the group's first process opens its last object, as nobody has  *)
(* touched them before.  And a server that runs alone finds its names as   *)
(* it left them, since only servers create and unlink.                     *)
(***************************************************************************)
EXTENDS SharedPosixNames, TLAPS

PlaceNames == {"off", "empty", "full", "arm", "shm", "wait", "print", "post", "delete", "menu", "enter",
               "exited", "killed", "aborted"}

Objects == Servers \cup {None}

Typed ==
  /\ names \in [NameSet -> Objects] /\ sem \in [Sems -> [Servers -> Nat]]
  /\ has \in [Procs -> [NameSet -> Objects]] /\ pc \in [Procs -> PlaceNames]
  /\ deleted \in [Servers -> 0 .. 3] /\ mixed \in BOOLEAN

\* What a server and a client have opened, at each place.
HasAsServer(s) ==
  /\ pc[s] \notin {"menu", "enter"}
  /\ pc[s] \in {"off", "empty"} => has[s]["empty"] = None
  /\ pc[s] \in {"off", "empty", "full"} => has[s]["full"] = None
  /\ pc[s] \in {"off", "empty", "full", "arm", "shm"} => has[s]["shm"] = None
  /\ pc[s] \in {"full", "arm", "shm", "wait", "print", "post", "delete"} => has[s]["empty"] # None
  /\ pc[s] \in {"arm", "shm", "wait", "print", "post", "delete"} => has[s]["full"] # None
  /\ pc[s] \in {"wait", "print", "post"} => has[s]["shm"] # None
  /\ pc[s] \notin {"delete", "exited", "killed", "aborted"} => deleted[s] = 0
  /\ pc[s] = "delete" => deleted[s] <= 2

HasAsClient(c) ==
  /\ pc[c] \notin {"arm", "print", "delete"}
  /\ pc[c] \in {"off", "shm"} => has[c]["shm"] = None
  /\ pc[c] \in {"off", "shm", "empty"} => has[c]["empty"] = None
  /\ pc[c] \in {"off", "shm", "empty", "full"} => has[c]["full"] = None
  /\ pc[c] \in {"empty", "full", "menu", "wait", "enter", "post"} => has[c]["shm"] # None
  /\ pc[c] \in {"full", "menu", "wait", "enter", "post"} => has[c]["empty"] # None
  /\ pc[c] \in {"menu", "wait", "enter", "post"} => has[c]["full"] # None

Places == (\A s \in Servers : HasAsServer(s)) /\ (\A c \in Clients : HasAsClient(c))

\* Every object is known by the server that created it, which has it open.
Created ==
  /\ \A n \in NameSet : names[n] # None => has[names[n]][n] = names[n]
  /\ \A p \in Procs : \A n \in NameSet : has[p][n] # None => has[has[p][n]][n] = has[p][n]

\* A semaphore that no process with all three objects uses has its first value.
Unused ==
  \A o \in Servers :
    /\ (\A q \in Procs : Attached(has[q]) => has[q]["empty"] # o) /\ has[o]["empty"] = o => sem["empty"][o] = 1
    /\ (\A q \in Procs : Attached(has[q]) => has[q]["full"] # o) => sem["full"][o] = 0

\* Who shares one object shares all.
Groups ==
  \A p, q \in Procs : \A m, n \in NameSet :
    Attached(has[p]) /\ Attached(has[q]) /\ has[p][m] = has[q][m] => has[p][n] = has[q][n]

\* Those who share a segment have one turn among them.
Turn(p) ==
  /\ sem["empty"][has[p]["empty"]] + sem["full"][has[p]["full"]] <= 1
  /\ \A q \in Procs : Holds(q) /\ has[q]["shm"] = has[p]["shm"] =>
       sem["empty"][has[p]["empty"]] = 0 /\ sem["full"][has[p]["full"]] = 0
  /\ \A q, r \in Procs :
       Holds(q) /\ Holds(r) /\ has[q]["shm"] = has[p]["shm"] /\ has[r]["shm"] = has[p]["shm"] => q = r

Turns == ~mixed => Groups /\ \A p \in Procs : Attached(has[p]) => Turn(p)

\* Before the first delete, there is one object for each name.
OneEach ==
  (\A s \in Servers : deleted[s] = 0) =>
    ~mixed /\ \A p \in Procs : \A n \in NameSet : has[p][n] \in {None, names[n]}

\* A server that runs alone finds its names as it left them.
Alone ==
  \A s \in Servers : Up(s) /\ s \notin company =>
    /\ \A t \in Servers : t # s => ~Up(t)
    /\ \A i \in 1 .. 3 : i > deleted[s] /\ has[s][Names[i]] # None => names[Names[i]] = has[s][Names[i]]

IInv == Typed /\ Places /\ Created /\ Unused /\ Turns /\ OneEach /\ Alone

\* There are three names, in the order of delete, two of them of semaphores.
LEMMA NamesAre ==
  /\ NameSet = {"empty", "full", "shm"} /\ Sems = {"empty", "full"}
  /\ Names[1] = "empty" /\ Names[2] = "full" /\ Names[3] = "shm"
  /\ \A i \in 1 .. 3 : Names[i] \in NameSet
  /\ \A i, j \in 1 .. 3 : Names[i] = Names[j] => i = j
BY DEF NameSet, Sems, Names

\* A process is a server or a client, and None is neither.
LEMMA ProcsAre ==
  /\ Servers \subseteq Procs /\ Clients \subseteq Procs /\ \A p \in Procs : p \in Servers \/ p \in Clients
  /\ \A s \in Servers : s \notin Clients /\ s # None
BY SharedPosixNamesAssumption DEF Procs

\* To have all is to have each of the three.
LEMMA AttachedAre ==
  \A h : Attached(h) <=> h["empty"] # None /\ h["full"] # None /\ h["shm"] # None
BY NamesAre DEF Attached

\* Who has its turn has all three objects.
LEMMA HoldersAttached == Places => \A p \in Procs : Holds(p) => Attached(has[p])
BY ProcsAre, AttachedAre DEF Places, HasAsServer, HasAsClient, Holds

\* A step of p leaves the others where they are, with what they have.
LEMMA OthersKept ==
  ASSUME Places, NEW p \in Procs, \A q \in Procs \ {p} : pc'[q] = pc[q] /\ has'[q] = has[q],
         \A s \in Servers \ {p} : deleted'[s] = deleted[s],
         p \in Servers => HasAsServer(p)', p \in Clients => HasAsClient(p)'
  PROVE  Places'
<1>1. ASSUME NEW s \in Servers PROVE HasAsServer(s)'
  <2>1. CASE s = p BY <2>1
  <2>2. CASE s # p BY <2>2, ProcsAre DEF Places, HasAsServer
  <2> QED BY <2>1, <2>2
<1>2. ASSUME NEW c \in Clients PROVE HasAsClient(c)'
  <2>1. CASE c = p BY <2>1
  <2>2. CASE c # p BY <2>2, ProcsAre DEF Places, HasAsClient
  <2> QED BY <2>1, <2>2
<1> QED BY <1>1, <1>2 DEF Places

----------------------------------------------------------------------------
(* Steps that touch no object                                              *)

\* A step that changes nobody's objects and begins nobody's turn.
LEMMA LocalKept ==
  ASSUME IInv, NEW p \in Procs, NEW to \in PlaceNames, pc' = [pc EXCEPT ![p] = to], Local,
         Holds(p)' => Holds(p), p \in Servers => Up(p) /\ HasAsServer(p)', p \in Clients => HasAsClient(p)'
  PROVE  IInv'
<1>1. /\ UNCHANGED <<names, sem, has, deleted, mixed, company>>
      /\ pc' \in [Procs -> PlaceNames] /\ pc'[p] = to /\ \A q \in Procs \ {p} : pc'[q] = pc[q]
  BY DEF IInv, Typed, Local
<1>2. \A q \in Procs : Holds(q)' => Holds(q)
  BY <1>1 DEF Holds
<1>3. Places'
  BY <1>1, OthersKept DEF IInv
<1>4. Typed' /\ Created' /\ Unused' /\ OneEach'
  BY <1>1 DEF IInv, Typed, Created, Unused, OneEach
<1>5. Turns'
  <2>1. Groups => Groups' BY <1>1 DEF Groups
  <2>2. ASSUME NEW q \in Procs, Turn(q) PROVE Turn(q)'
    BY <1>1, <1>2, <2>2 DEF Turn
  <2> QED BY <1>1, <2>1, <2>2 DEF IInv, Turns
<1>6. Alone'
  <2>1. \A s \in Servers : Up(s)' => Up(s)
    BY <1>1, ProcsAre DEF Up
  <2> QED BY <1>1, <2>1 DEF IInv, Alone
<1> QED BY <1>3, <1>4, <1>5, <1>6 DEF IInv

----------------------------------------------------------------------------
(* The semaphores                                                          *)

\* p takes n, or gives n: its own group's turn begins or ends, and no other's.
LEMMA SemKept ==
  ASSUME IInv, NEW p \in Procs, NEW to \in PlaceNames, NEW n \in Sems, pc' = [pc EXCEPT ![p] = to],
         \/ sem_wait(p, n) /\ ~Holds(p) /\ Holds(p)'
         \/ sem_post(p, n) /\ Holds(p) /\ ~Holds(p)',
         Attached(has[p]), pc[p] \notin Over \cup {"off"},
         p \in Servers => HasAsServer(p)', p \in Clients => HasAsClient(p)'
  PROVE  IInv'
<1> DEFINE o == has[p][n]
<1>1. /\ UNCHANGED <<names, has, deleted, mixed, company>>
      /\ pc' \in [Procs -> PlaceNames] /\ pc'[p] = to /\ \A q \in Procs \ {p} : pc'[q] = pc[q]
  BY DEF IInv, Typed, sem_wait, sem_post
<1>2. /\ o \in Servers /\ n \in NameSet /\ sem[n][o] \in Nat
      /\ \A m \in Sems, r \in Servers : sem[m][r] \in Nat
  BY NamesAre, AttachedAre DEF IInv, Typed, Objects
<1>3. /\ sem' \in [Sems -> [Servers -> Nat]]
      /\ \A m \in Sems, r \in Servers : m # n \/ r # o => sem'[m][r] = sem[m][r]
      /\ \/ sem[n][o] > 0 /\ sem'[n][o] = sem[n][o] - 1 /\ ~Holds(p) /\ Holds(p)'
         \/ sem'[n][o] = sem[n][o] + 1 /\ Holds(p) /\ ~Holds(p)'
  <2>1. CASE sem_wait(p, n) /\ ~Holds(p) /\ Holds(p)'
    <3>1. sem' = [sem EXCEPT ![n][o] = sem[n][o] - 1] /\ sem[n][o] > 0 BY <2>1 DEF sem_wait
    <3>2. sem[n][o] - 1 \in Nat BY <1>2, <3>1
    <3> QED BY <1>2, <2>1, <3>1, <3>2 DEF IInv, Typed
  <2>2. CASE sem_post(p, n) /\ Holds(p) /\ ~Holds(p)'
    <3>1. sem' = [sem EXCEPT ![n][o] = sem[n][o] + 1] BY <2>2 DEF sem_post
    <3> QED BY <1>2, <2>2, <3>1 DEF IInv, Typed
  <2> QED BY <2>1, <2>2
<1>4. \A q \in Procs \ {p} : Holds(q)' <=> Holds(q)
  BY <1>1 DEF Holds
<1>5. Typed' /\ Created' /\ OneEach'
  BY <1>1, <1>3 DEF IInv, Typed, Created, OneEach
<1>6. Places'
  BY <1>1, OthersKept DEF IInv
<1>7. Unused'
  <2> SUFFICES ASSUME NEW r \in Servers
               PROVE  /\ (\A q \in Procs : Attached(has[q]) => has[q]["empty"] # r) /\ has[r]["empty"] = r
                           => sem'["empty"][r] = 1
                      /\ (\A q \in Procs : Attached(has[q]) => has[q]["full"] # r) => sem'["full"][r] = 0
    BY <1>1 DEF Unused
  <2>1. (\A q \in Procs : Attached(has[q]) => has[q]["empty"] # r) => sem'["empty"][r] = sem["empty"][r]
    BY <1>3, NamesAre
  <2>2. (\A q \in Procs : Attached(has[q]) => has[q]["full"] # r) => sem'["full"][r] = sem["full"][r]
    BY <1>3, NamesAre
  <2> QED BY <2>1, <2>2 DEF IInv, Unused
<1>8. Turns'
  <2> SUFFICES ASSUME ~mixed PROVE Groups' /\ \A q \in Procs : Attached(has[q]) => Turn(q)'
    BY <1>1 DEF Turns
  <2>1. Groups BY DEF IInv, Turns
  <2>2. Groups' BY <1>1, <2>1 DEF Groups
  <2>3. ASSUME NEW q \in Procs, Attached(has[q]) PROVE Turn(q)'
    <3> DEFINE e == has[q]["empty"]
               f == has[q]["full"]
    <3>1. Turn(q) BY <2>3 DEF IInv, Turns
    <3>2. e \in Servers /\ f \in Servers BY <2>3, NamesAre, AttachedAre DEF IInv, Typed, Objects
    <3>3. CASE has[q]["shm"] = has[p]["shm"]
      <4>1. has[q]["empty"] = has[p]["empty"] /\ has[q]["full"] = has[p]["full"]
        BY <2>1, <2>3, <3>3, NamesAre DEF Groups
      <4>2. o = IF n = "empty" THEN e ELSE f BY <4>1, NamesAre
      <4>3. CASE sem[n][o] > 0 /\ sem'[n][o] = sem[n][o] - 1 /\ ~Holds(p) /\ Holds(p)'
        <5>1. sem'["empty"][e] = 0 /\ sem'["full"][f] = 0
          <6>1. sem["empty"][e] \in Nat /\ sem["full"][f] \in Nat /\ sem["empty"][e] + sem["full"][f] <= 1
            BY <1>2, <3>1, <3>2, NamesAre DEF Turn
          <6>2. CASE n = "empty"
            <7>1. sem'["empty"][e] = sem["empty"][e] - 1 /\ sem["empty"][e] > 0 /\ sem'["full"][f] = sem["full"][f]
              BY <1>3, <3>2, <4>2, <4>3, <6>2, NamesAre
            <7> QED BY <6>1, <7>1
          <6>3. CASE n = "full"
            <7>1. sem'["full"][f] = sem["full"][f] - 1 /\ sem["full"][f] > 0 /\ sem'["empty"][e] = sem["empty"][e]
              BY <1>3, <3>2, <4>2, <4>3, <6>3, NamesAre
            <7> QED BY <6>1, <7>1
          <6> QED BY <6>2, <6>3, NamesAre
        <5>2. \A r \in Procs : Holds(r) => has[r]["shm"] # has[q]["shm"]
          BY <1>2, <3>1, <3>2, <4>2, <4>3, NamesAre DEF Turn
        <5>3. \A r \in Procs : Holds(r)' /\ has[r]["shm"] = has[q]["shm"] => r = p
          BY <1>4, <5>2
        <5> QED BY <1>1, <5>1, <5>3 DEF Turn
      <4>4. CASE sem'[n][o] = sem[n][o] + 1 /\ Holds(p) /\ ~Holds(p)'
        <5>1. sem["empty"][e] = 0 /\ sem["full"][f] = 0 BY <3>1, <3>3, <4>4 DEF Turn
        <5>2. sem'["empty"][e] + sem'["full"][f] <= 1 BY <1>3, <3>2, <4>2, <4>4, <5>1, NamesAre
        <5>3. \A r \in Procs : Holds(r) /\ has[r]["shm"] = has[q]["shm"] => r = p
          BY <3>1, <3>3, <4>4 DEF Turn
        <5>4. \A r \in Procs : Holds(r)' => has[r]["shm"] # has[q]["shm"] BY <1>4, <4>4, <5>3
        <5> QED BY <1>1, <5>2, <5>4 DEF Turn
      <4> QED BY <1>3, <4>3, <4>4
    <3>4. CASE has[q]["shm"] # has[p]["shm"]
      <4>1. has[q]["empty"] # has[p]["empty"] /\ has[q]["full"] # has[p]["full"]
        BY <2>1, <2>3, <3>4, NamesAre DEF Groups
      <4>2. sem'["empty"][e] = sem["empty"][e] /\ sem'["full"][f] = sem["full"][f]
        BY <1>3, <3>2, <4>1, NamesAre
      <4>3. \A r \in Procs : has[r]["shm"] = has[q]["shm"] => (Holds(r)' <=> Holds(r))
        BY <1>4, <3>4
      <4> QED BY <1>1, <3>1, <4>2, <4>3 DEF Turn
    <3> QED BY <3>3, <3>4
  <2> QED BY <2>2, <2>3
<1>9. Alone'
  <2>1. \A s \in Servers : Up(s)' => Up(s)
    BY <1>1, ProcsAre DEF Up
  <2> QED BY <1>1, <2>1 DEF IInv, Alone
<1> QED BY <1>5, <1>6, <1>7, <1>8, <1>9 DEF IInv


----------------------------------------------------------------------------
(* The names                                                               *)

\* p opens what the name n leads to, or, a server, creates it.
LEMMA OpenKept ==
  ASSUME IInv, NEW p \in Procs, NEW to \in PlaceNames, NEW n \in NameSet, NEW o \in Servers,
         pc' = [pc EXCEPT ![p] = to], Opened(p, n, o), UNCHANGED <<deleted, company>>,
         \/ names[n] = o /\ UNCHANGED <<names, sem>>
         \/ /\ p \in Servers /\ o = p /\ names[n] = None /\ names' = [names EXCEPT ![n] = p]
            /\ sem' = IF n = "shm" THEN sem ELSE [sem EXCEPT ![n][p] = IF n = "empty" THEN 1 ELSE 0],
         has[p][n] = None, ~Holds(p), ~Holds(p)', p \in Servers => Up(p) /\ Up(p)' /\ HasAsServer(p)',
         p \in Servers /\ Attached(has'[p]) => n = "shm", p \in Clients => HasAsClient(p)'
  PROVE  IInv'
<1> DEFINE New == p \in Servers /\ o = p /\ names[n] = None
           first == IF n = "empty" THEN 1 ELSE 0
<1>1. /\ pc' \in [Procs -> PlaceNames] /\ pc'[p] = to /\ \A q \in Procs \ {p} : pc'[q] = pc[q]
      /\ has' \in [Procs -> [NameSet -> Objects]] /\ has'[p][n] = o
      /\ \A q \in Procs \ {p} : has'[q] = has[q]
      /\ \A q \in Procs, m \in NameSet \ {n} : has'[q][m] = has[q][m]
      /\ UNCHANGED <<deleted, company>>
  BY DEF IInv, Typed, Opened, Objects
<1>2. /\ names' \in [NameSet -> Objects] /\ names'[n] = o
      /\ \A m \in NameSet \ {n} : names'[m] = names[m]
      /\ names[n] = o \/ New
  BY DEF IInv, Typed, Objects
<1>3. ~Attached(has[p]) BY AttachedAre, NamesAre
\* A new semaphore is one that nobody has open.
<1>4. \A q \in Procs : New => has[q][n] # p
  BY ProcsAre DEF IInv, Created
<1>5. /\ sem' \in [Sems -> [Servers -> Nat]]
      /\ \A m \in Sems, r \in Servers : sem'[m][r] = IF New /\ m = n /\ r = p THEN first ELSE sem[m][r]
  <2>1. CASE names[n] = o /\ UNCHANGED <<names, sem>>
    BY <2>1, ProcsAre DEF IInv, Typed
  <2>2. CASE New /\ n = "shm" /\ sem' = sem
    BY <2>2, NamesAre DEF IInv, Typed
  <2>3. CASE New /\ n \in Sems /\ sem' = [sem EXCEPT ![n][p] = first]
    BY <2>3 DEF IInv, Typed
  <2> QED BY <2>1, <2>2, <2>3, NamesAre
<1>6. \A q \in Procs : Holds(q)' <=> Holds(q)
  BY <1>1 DEF Holds
<1>7. mixed' = (mixed \/ \E q \in Procs : /\ Attached(has'[p]) /\ Attached(has[q])
                                          /\ Common(has'[p], has[q]) \notin {{}, NameSet})
  BY DEF Opened
<1>8. Typed'
  BY <1>1, <1>2, <1>5, <1>7 DEF IInv, Typed
<1>9. Places'
  BY <1>1, OthersKept DEF IInv
<1>10. Created'
  <2>1. has'[o][n] = o
    BY <1>1, <1>2, ProcsAre DEF IInv, Created
  <2>2. \A m \in NameSet : names'[m] # None => has'[names'[m]][m] = names'[m]
    <3> SUFFICES ASSUME NEW m \in NameSet, names'[m] # None PROVE has'[names'[m]][m] = names'[m]
      OBVIOUS
    <3>1. CASE m = n BY <1>2, <2>1, <3>1
    <3>2. CASE m # n
      <4>1. names'[m] = names[m] /\ names[m] \in Procs BY <1>2, <3>2, ProcsAre DEF IInv, Typed, Objects
      <4> QED BY <1>1, <3>2, <4>1 DEF IInv, Created
    <3> QED BY <3>1, <3>2
  <2>3. ASSUME NEW q \in Procs, NEW m \in NameSet, has'[q][m] # None
        PROVE  has'[has'[q][m]][m] = has'[q][m]
    <3>1. CASE m = n /\ q = p BY <1>1, <2>1, <3>1
    <3>2. CASE m = n /\ q # p
      <4>1. has'[q][m] = has[q][m] /\ has[q][m] \in Procs /\ has[has[q][m]][m] = has[q][m]
        BY <1>1, <2>3, <3>2, ProcsAre DEF IInv, Typed, Objects, Created
      <4>2. has[q][m] # p BY <2>3, <3>2, <4>1
      <4> QED BY <1>1, <4>1, <4>2
    <3>3. CASE m # n
      <4>1. has'[q][m] = has[q][m] /\ has[q][m] \in Procs /\ has[has[q][m]][m] = has[q][m]
        BY <1>1, <2>3, <3>3, ProcsAre DEF IInv, Typed, Objects, Created
      <4> QED BY <1>1, <3>3, <4>1
    <3> QED BY <3>1, <3>2, <3>3
  <2> QED BY <2>2, <2>3 DEF Created
<1>11. Unused'
  <2> SUFFICES ASSUME NEW r \in Servers
               PROVE  /\ (\A q \in Procs : Attached(has'[q]) => has'[q]["empty"] # r) /\ has'[r]["empty"] = r
                           => sem'["empty"][r] = 1
                      /\ (\A q \in Procs : Attached(has'[q]) => has'[q]["full"] # r) => sem'["full"][r] = 0
    BY DEF Unused
  <2>1. ASSUME NEW m \in NameSet, \A q \in Procs : Attached(has'[q]) => has'[q][m] # r
        PROVE  \A q \in Procs : Attached(has[q]) => has[q][m] # r
    BY <1>1, <1>3, <2>1
  <2>2. ASSUME \A q \in Procs : Attached(has'[q]) => has'[q]["empty"] # r, has'[r]["empty"] = r
        PROVE  sem'["empty"][r] = 1
    <3>1. CASE has[r]["empty"] = r
      <4>1. sem["empty"][r] = 1 BY <2>1, <2>2, <3>1, NamesAre DEF IInv, Unused
      <4> QED BY <1>5, <4>1, NamesAre
    <3>2. CASE has[r]["empty"] # r
      <4>1. r = p /\ n = "empty" /\ o = p BY <1>1, <2>2, <3>2, ProcsAre, NamesAre
      <4>2. New BY <1>2, <3>2, <4>1, ProcsAre, NamesAre DEF IInv, Created
      <4> QED BY <1>5, <4>1, <4>2, NamesAre
    <3> QED BY <3>1, <3>2
  <2>3. ASSUME \A q \in Procs : Attached(has'[q]) => has'[q]["full"] # r
        PROVE  sem'["full"][r] = 0
    <3>1. sem["full"][r] = 0 BY <2>1, <2>3, NamesAre DEF IInv, Unused
    <3> QED BY <1>5, <3>1, NamesAre
  <2> QED BY <2>2, <2>3
<1>12. Turns'
  <2> SUFFICES ASSUME ~mixed' PROVE Groups' /\ \A q \in Procs : Attached(has'[q]) => Turn(q)'
    BY DEF Turns
  <2>1. ~mixed /\ \A q \in Procs : Attached(has'[p]) /\ Attached(has[q]) =>
                                     Common(has'[p], has[q]) \in {{}, NameSet}
    BY <1>7
  <2>2. Groups /\ \A q \in Procs : Attached(has[q]) => Turn(q) BY <2>1 DEF IInv, Turns
  <2>3. ASSUME NEW q \in Procs, q # p, Attached(has'[p]), Attached(has[q]), NEW m \in NameSet,
               has'[p][m] = has[q][m]
        PROVE  \A k \in NameSet : has'[p][k] = has[q][k]
    <3>1. Common(has'[p], has[q]) = NameSet BY <2>1, <2>3 DEF Common
    <3> QED BY <3>1 DEF Common
  <2>4. Groups'
    BY <1>1, <2>2, <2>3 DEF Groups
  <2>5. ASSUME NEW q \in Procs, q # p, Attached(has[q]) PROVE Turn(q)'
    <3>1. Turn(q) /\ has'[q] = has[q] BY <1>1, <2>2, <2>5
    <3>2. has[q]["empty"] \in Servers /\ has[q]["full"] \in Servers
      BY <2>5, NamesAre, AttachedAre DEF IInv, Typed, Objects
    <3>3. /\ sem'["empty"][has[q]["empty"]] = sem["empty"][has[q]["empty"]]
          /\ sem'["full"][has[q]["full"]] = sem["full"][has[q]["full"]]
      BY <1>4, <1>5, <3>2, NamesAre
    <3>4. \A r \in Procs : Holds(r)' => Holds(r) /\ has'[r] = has[r]
      BY <1>1, <1>6
    <3> QED BY <3>1, <3>3, <3>4 DEF Turn
  <2>6. ASSUME Attached(has'[p]) PROVE Turn(p)'
    <3> DEFINE e == has'[p]["empty"]
               f == has'[p]["full"]
    <3>1. CASE \E q \in Procs : q # p /\ Attached(has[q]) /\ \E m \in NameSet : has'[p][m] = has[q][m]
      <4> PICK q \in Procs : q # p /\ Attached(has[q]) /\ \E m \in NameSet : has'[p][m] = has[q][m] BY <3>1
      <4>1. has'[q] = has[q] /\ \A k \in NameSet : has'[p][k] = has'[q][k]
        BY <1>1, <2>3, <2>6
      <4>2. /\ has'[p]["empty"] = has'[q]["empty"] /\ has'[p]["full"] = has'[q]["full"]
            /\ has'[p]["shm"] = has'[q]["shm"]
        BY <4>1, NamesAre
      <4> QED BY <2>5, <4>2 DEF Turn
    <3>2. CASE \A q \in Procs : Attached(has[q]) => \A m \in NameSet : has'[p][m] # has[q][m]
      <4>1. e \in Servers /\ f \in Servers BY <1>1, <2>6, NamesAre, AttachedAre DEF Objects
      <4>2. ~New \/ n = "shm" BY <2>6
      <4>3. has[e]["empty"] = e
        BY <1>1, <1>2, <4>1, <4>2, ProcsAre, NamesAre DEF IInv, Created
      <4>4. sem["empty"][e] = 1 /\ sem["full"][f] = 0
        BY <3>2, <4>1, <4>3, NamesAre DEF IInv, Unused
      <4>5. sem'["empty"][e] = 1 /\ sem'["full"][f] = 0
        BY <1>5, <4>1, <4>2, <4>4, NamesAre
      <4>6. \A q \in Procs : Holds(q)' => has'[q]["shm"] # has'[p]["shm"]
        <5> SUFFICES ASSUME NEW q \in Procs, Holds(q)' PROVE has'[q]["shm"] # has'[p]["shm"]
          OBVIOUS
        <5>1. Holds(q) /\ q # p /\ has'[q] = has[q] BY <1>1, <1>6
        <5>2. Attached(has[q]) BY <5>1, HoldersAttached DEF IInv
        <5> QED BY <3>2, <5>1, <5>2, NamesAre
      <4> QED BY <4>5, <4>6 DEF Turn
    <3> QED BY <1>3, <3>1, <3>2
  <2> QED BY <1>1, <2>4, <2>5, <2>6
<1>13. OneEach'
  <2> SUFFICES ASSUME \A s \in Servers : deleted[s] = 0
               PROVE  ~mixed' /\ \A q \in Procs : \A m \in NameSet : has'[q][m] \in {None, names'[m]}
    BY <1>1 DEF OneEach
  <2>1. ~mixed /\ \A q \in Procs : \A m \in NameSet : has[q][m] \in {None, names[m]}
    BY DEF IInv, OneEach
  <2>2. ASSUME NEW q \in Procs, NEW m \in NameSet PROVE has'[q][m] \in {None, names'[m]}
    <3>1. CASE m # n BY <1>1, <1>2, <2>1, <3>1
    <3>2. CASE m = n /\ q = p BY <1>1, <1>2, <3>2
    <3>3. CASE m = n /\ q # p BY <1>1, <1>2, <2>1, <3>3
    <3> QED BY <3>1, <3>2, <3>3
  <2>3. ASSUME NEW q \in Procs, Attached(has'[p]), Attached(has[q])
        PROVE  Common(has'[p], has[q]) = NameSet
    <3>1. has'[q] = has[q] BY <1>1, <1>3, <2>3
    <3>2. \A m \in NameSet : has'[p][m] = names'[m] /\ has[q][m] = names'[m]
      BY <2>2, <2>3, <3>1 DEF Attached
    <3> QED BY <3>2 DEF Common
  <2> QED BY <1>7, <2>1, <2>2, <2>3
<1>14. Alone'
  <2> SUFFICES ASSUME NEW s \in Servers, Up(s)', s \notin company
               PROVE  /\ \A t \in Servers : t # s => ~Up(t)'
                      /\ \A i \in 1 .. 3 : i > deleted[s] /\ has'[s][Names[i]] # None =>
                           names'[Names[i]] = has'[s][Names[i]]
    BY <1>1 DEF Alone
  <2>1. \A t \in Servers : Up(t)' <=> Up(t)
    BY <1>1, ProcsAre DEF Up
  <2>2. /\ \A t \in Servers : t # s => ~Up(t)
        /\ \A i \in 1 .. 3 : i > deleted[s] /\ has[s][Names[i]] # None => names[Names[i]] = has[s][Names[i]]
    BY <2>1 DEF IInv, Alone
  <2>3. ASSUME NEW i \in 1 .. 3, i > deleted[s], has'[s][Names[i]] # None
        PROVE  names'[Names[i]] = has'[s][Names[i]]
    <3>1. CASE s = p /\ Names[i] = n BY <1>1, <1>2, <3>1
    <3>2. CASE Names[i] # n BY <1>1, <1>2, <2>2, <2>3, <3>2, NamesAre, ProcsAre
    <3>3. CASE s # p /\ Names[i] = n
      <4>1. p \notin Servers BY <2>2, <3>3
      <4> QED BY <1>1, <1>2, <2>2, <2>3, <3>3, <4>1, ProcsAre
    <3> QED BY <3>1, <3>2, <3>3
  <2> QED BY <2>1, <2>2, <2>3
<1> QED BY <1>8, <1>9, <1>10, <1>11, <1>12, <1>13, <1>14 DEF IInv

\* A server unlinks the next name, which nobody loses who has it open.
LEMMA DeleteKept ==
  ASSUME IInv, NEW s \in Servers, delete(s)
  PROVE  IInv'
<1> DEFINE d == deleted[s]
           n == Names[d + 1]
<1>1. pc[s] = "delete" /\ d \in 0 .. 2 /\ d + 1 \in 1 .. 3 /\ Up(s) /\ s \in Procs /\ ~Holds(s)
  BY ProcsAre DEF delete, IInv, Typed, Places, HasAsServer, Up, Over, Holds
<1>2. n \in NameSet BY <1>1, NamesAre
<1>3. CASE names[n] = None
  <2>1. pc' = [pc EXCEPT ![s] = "aborted"] /\ Local
    BY <1>3 DEF delete, Local
  <2>2. HasAsServer(s)' /\ (Holds(s)' => Holds(s))
    BY <1>1, <2>1 DEF IInv, Typed, Places, HasAsServer, Local, Holds
  <2> QED BY <1>1, <2>1, <2>2, ProcsAre, LocalKept DEF PlaceNames
<1>4. CASE names[n] # None
  <2>1. /\ names' = [names EXCEPT ![n] = None] /\ deleted' = [deleted EXCEPT ![s] = d + 1]
        /\ pc' = (IF d = 2 THEN [pc EXCEPT ![s] = "exited"] ELSE pc) /\ UNCHANGED <<sem, has, mixed, company>>
    BY <1>4 DEF delete
  <2>2. /\ names' \in [NameSet -> Objects] /\ \A m \in NameSet : names'[m] = IF m = n THEN None ELSE names[m]
        /\ deleted' \in [Servers -> 0 .. 3] /\ deleted'[s] = d + 1
        /\ \A t \in Servers \ {s} : deleted'[t] = deleted[t]
        /\ pc' \in [Procs -> PlaceNames] /\ pc'[s] = (IF d = 2 THEN "exited" ELSE "delete")
        /\ \A q \in Procs \ {s} : pc'[q] = pc[q]
    <3>1. d + 1 \in 0 .. 3 /\ deleted \in [Servers -> 0 .. 3] BY <1>1 DEF IInv, Typed
    <3>2. names \in [NameSet -> Objects] /\ None \in Objects BY DEF IInv, Typed, Objects
    <3>3. pc \in [Procs -> PlaceNames] /\ "exited" \in PlaceNames BY DEF IInv, Typed, PlaceNames
    <3>4. names' \in [NameSet -> Objects] /\ \A m \in NameSet : names'[m] = IF m = n THEN None ELSE names[m]
      BY <1>2, <2>1, <3>2
    <3>5. /\ deleted' \in [Servers -> 0 .. 3] /\ deleted'[s] = d + 1
          /\ \A t \in Servers \ {s} : deleted'[t] = deleted[t]
      BY <2>1, <3>1
    <3>6. /\ pc' \in [Procs -> PlaceNames] /\ pc'[s] = (IF d = 2 THEN "exited" ELSE "delete")
          /\ \A q \in Procs \ {s} : pc'[q] = pc[q]
      BY <1>1, <2>1, <3>3
    <3> QED BY <3>4, <3>5, <3>6
  <2>3. Typed' BY <2>1, <2>2 DEF IInv, Typed
  <2>4. Places'
    <3>1. HasAsServer(s)' BY <1>1, <2>1, <2>2 DEF IInv, Places, HasAsServer
    <3> QED BY <1>1, <2>1, <2>2, <3>1, ProcsAre, OthersKept DEF IInv
  <2>5. Created' /\ Unused' BY <2>1, <2>2 DEF IInv, Created, Unused
  <2>6. Turns'
    <3>1. \A q \in Procs : Holds(q)' <=> Holds(q) BY <1>1, <2>2 DEF Holds
    <3>2. Groups => Groups' BY <2>1 DEF Groups
    <3>3. ASSUME NEW q \in Procs, Turn(q) PROVE Turn(q)' BY <2>1, <3>1, <3>3 DEF Turn
    <3> QED BY <2>1, <3>2, <3>3 DEF IInv, Turns
  <2>7. OneEach' BY <1>1, <2>2 DEF OneEach
  <2>8. Alone'
    <3>1. \A t \in Servers : Up(t)' => Up(t) BY <1>1, <2>2, ProcsAre DEF Up
    <3>2. \A t \in Servers : Up(t)' /\ t \notin company => t = s BY <1>1, <3>1 DEF IInv, Alone
    <3>3. \A i \in 1 .. 3 : i > d + 1 => Names[i] # n BY <1>1, NamesAre
    <3>4. ASSUME Up(s)', s \notin company
          PROVE  /\ \A t \in Servers : t # s => ~Up(t)
                 /\ \A i \in 1 .. 3 : i > d + 1 /\ has[s][Names[i]] # None => names'[Names[i]] = has[s][Names[i]]
      BY <1>1, <2>2, <3>1, <3>3, <3>4, NamesAre DEF IInv, Alone
    <3> QED BY <2>1, <2>2, <3>1, <3>2, <3>4 DEF Alone
  <2> QED BY <2>3, <2>4, <2>5, <2>6, <2>7, <2>8 DEF IInv
<1> QED BY <1>3, <1>4

\* A server that starts is alone, or puts all of them in company.
LEMMA StartKept ==
  ASSUME IInv, NEW s \in Servers, Start(s)
  PROVE  IInv'
<1> DEFINE others == {t \in Servers \ {s} : Up(t)}
<1>1. /\ pc[s] = "off" /\ pc' = [pc EXCEPT ![s] = "empty"] /\ s \in Procs
      /\ company' = company \cup others \cup (IF others = {} THEN {} ELSE {s})
      /\ UNCHANGED <<names, sem, has, deleted, mixed>>
  BY ProcsAre DEF Start, From
<1>2. pc' \in [Procs -> PlaceNames] /\ pc'[s] = "empty" /\ \A q \in Procs \ {s} : pc'[q] = pc[q]
  BY <1>1 DEF IInv, Typed, PlaceNames
<1>3. Typed' /\ Created' /\ Unused' /\ OneEach'
  BY <1>1, <1>2 DEF IInv, Typed, Created, Unused, OneEach
<1>4. HasAsServer(s) BY DEF IInv, Places
<1>5. Places'
  <2>1. HasAsServer(s)' BY <1>1, <1>2, <1>4 DEF HasAsServer
  <2> QED BY <1>1, <1>2, <2>1, ProcsAre, OthersKept DEF IInv
<1>6. Turns'
  <2>1. \A q \in Procs : Holds(q)' <=> Holds(q) BY <1>1, <1>2 DEF Holds
  <2>2. Groups => Groups' BY <1>1 DEF Groups
  <2>3. ASSUME NEW q \in Procs, Turn(q) PROVE Turn(q)' BY <1>1, <2>1, <2>3 DEF Turn
  <2> QED BY <1>1, <2>2, <2>3 DEF IInv, Turns
<1>7. Alone'
  <2>1. \A t \in Servers \ {s} : Up(t)' <=> Up(t) BY <1>2, ProcsAre DEF Up
  <2>2. \A n \in NameSet : has[s][n] = None BY <1>1, <1>4, NamesAre DEF HasAsServer
  <2>3. ASSUME NEW t \in Servers, Up(t)', t \notin company'
        PROVE  /\ \A u \in Servers : u # t => ~Up(u)'
               /\ \A i \in 1 .. 3 : i > deleted[t] /\ has[t][Names[i]] # None => names[Names[i]] = has[t][Names[i]]
    <3>1. t = s BY <1>1, <2>1, <2>3
    <3>2. others = {} BY <1>1, <2>3, <3>1
    <3> QED BY <2>1, <2>2, <3>1, <3>2, NamesAre
  <2> QED BY <1>1, <2>3 DEF Alone
<1> QED BY <1>3, <1>5, <1>6, <1>7 DEF IInv

----------------------------------------------------------------------------
(* The program                                                             *)

\* Nothing is open at first.
LEMMA Initially == Init => IInv
<1> SUFFICES ASSUME Init PROVE IInv
  OBVIOUS
<1>1. /\ \A p \in Procs : pc[p] = "off" /\ ~Holds(p) /\ ~Attached(has[p]) /\ has[p] = [n \in NameSet |-> None]
      /\ \A n \in NameSet : names[n] = None
  BY NamesAre, AttachedAre DEF Init, Holds
<1>2. Typed
  <2>1. "off" \in PlaceNames /\ None \in Objects /\ 0 \in 0 .. 3 /\ 0 \in Nat BY DEF PlaceNames, Objects
  <2>2. names \in [NameSet -> Objects] /\ sem \in [Sems -> [Servers -> Nat]] BY <2>1 DEF Init
  <2>3. has \in [Procs -> [NameSet -> Objects]] BY <2>1 DEF Init
  <2>4. pc \in [Procs -> PlaceNames] /\ deleted \in [Servers -> 0 .. 3] /\ mixed \in BOOLEAN BY <2>1 DEF Init
  <2> QED BY <2>2, <2>3, <2>4 DEF Typed
<1>3. Places BY <1>1, NamesAre, ProcsAre DEF Init, Places, HasAsServer, HasAsClient
<1>4. Created BY <1>1, ProcsAre DEF Created
<1>5. Unused BY <1>1, NamesAre, ProcsAre DEF Init, Unused
<1>6. Turns BY <1>1 DEF Turns, Groups
<1>7. OneEach BY <1>1 DEF Init, OneEach
<1>8. Alone BY <1>1, ProcsAre DEF Alone, Up
<1> QED BY <1>2, <1>3, <1>4, <1>5, <1>6, <1>7, <1>8 DEF IInv

\* O_CREAT leads to the object the name has, or to a new one of the server's own.
LEMMA ServerOpens ==
  ASSUME IInv, NEW s \in Servers, NEW n \in NameSet, OpenOrCreate(s, n)
  PROVE  \E o \in Servers :
           /\ Opened(s, n, o)
           /\ \/ names[n] = o /\ names' = names
              \/ o = s /\ names[n] = None /\ names' = [names EXCEPT ![n] = s]
<1>1. names \in [NameSet -> Objects] BY DEF IInv, Typed
<1>2. CASE names[n] = None
  <2>1. names' = [names EXCEPT ![n] = s] /\ Opened(s, n, s) BY <1>2 DEF OpenOrCreate
  <2> QED BY <1>2, <2>1
<1>3. CASE names[n] # None
  <2>1. names' = [names EXCEPT ![n] = names[n]] /\ Opened(s, n, names[n]) BY <1>3 DEF OpenOrCreate
  <2>2. names' = names BY <1>1, <2>1
  <2>3. names[n] \in Servers BY <1>1, <1>3 DEF Objects
  <2> QED BY <2>1, <2>2, <2>3
<1> QED BY <1>2, <1>3

\* A server's open, at the place it is at.
LEMMA ServerOpenKept ==
  ASSUME IInv, NEW s \in Servers, NEW n \in NameSet, NEW from, NEW to,
         From(s, from, to), OpenOrCreate(s, n), UNCHANGED <<deleted, company>>,
         <<n, from, to>> \in {<<"empty", "empty", "full">>, <<"full", "full", "arm">>, <<"shm", "shm", "wait">>},
         sem' = IF n # "shm" /\ names[n] = None
                THEN [sem EXCEPT ![n][s] = IF n = "empty" THEN 1 ELSE 0] ELSE sem
  PROVE  IInv'
<1>1. /\ s \in Procs /\ s \notin Clients /\ HasAsServer(s) /\ Typed /\ to \in PlaceNames
      /\ pc[s] = from /\ pc' = [pc EXCEPT ![s] = to] /\ pc'[s] = to
  BY ProcsAre DEF IInv, Typed, Places, From, PlaceNames
<1>2. PICK o \in Servers :
           /\ Opened(s, n, o)
           /\ \/ names[n] = o /\ names' = names
              \/ o = s /\ names[n] = None /\ names' = [names EXCEPT ![n] = s]
  BY ServerOpens
<1>3. /\ has'[s][n] = o /\ \A m \in NameSet \ {n} : has'[s][m] = has[s][m]
      /\ o # None /\ deleted'[s] = deleted[s]
  BY <1>1, <1>2, ProcsAre DEF Typed, Opened
<1>4. has[s][n] = None /\ ~Holds(s) /\ ~Holds(s)' /\ Up(s) /\ Up(s)'
  BY <1>1 DEF HasAsServer, Holds, Up, Over
<1>5. HasAsServer(s)'
  BY <1>1, <1>3, NamesAre DEF HasAsServer
<1>6. Attached(has'[s]) => n = "shm"
  BY <1>1, <1>3, AttachedAre, NamesAre DEF HasAsServer
<1>7. names[n] = o => sem' = sem
  BY <1>3
<1> QED BY <1>1, <1>2, <1>4, <1>5, <1>6, <1>7, OpenKept

\* Each step of a server.
LEMMA ServerKept ==
  ASSUME IInv, NEW s \in Servers, server(s)
  PROVE  IInv'
<1>1. s \in Procs /\ s \notin Clients /\ HasAsServer(s) /\ Typed /\ "empty" \in Sems /\ "full" \in Sems
  BY ProcsAre, NamesAre DEF IInv, Places
<1>2. CASE Start(s) BY <1>2, StartKept
<1>3. CASE OpenEmpty(s)
  BY <1>3, ServerOpenKept, NamesAre DEF OpenEmpty, sem_open
<1>4. CASE OpenFull(s)
  BY <1>4, ServerOpenKept, NamesAre DEF OpenFull, sem_open
<1>5. CASE OpenShm(s)
  BY <1>5, ServerOpenKept, NamesAre DEF OpenShm
<1>6. ASSUME NEW to \in PlaceNames, pc' = [pc EXCEPT ![s] = to], Local, Up(s), Holds(s)' => Holds(s),
             HasAsServer(s)'
      PROVE  IInv'
  BY <1>1, <1>6, LocalKept
<1>7. CASE Arm(s)
  <2>1. /\ pc[s] = "arm" /\ pc' = [pc EXCEPT ![s] = "shm"] /\ Local /\ "shm" \in PlaceNames /\ pc'[s] = "shm"
        /\ UNCHANGED <<has, deleted>>
    BY <1>1, <1>7 DEF Arm, From, Local, Typed, PlaceNames
  <2>2. HasAsServer(s)' /\ Up(s) /\ ~Holds(s)' BY <1>1, <2>1 DEF HasAsServer, Up, Over, Holds
  <2> QED BY <1>6, <2>1, <2>2
<1>8. CASE sigdelete(s)
  <2>1. /\ pc[s] \in {"shm", "wait", "print", "post"} /\ pc' = [pc EXCEPT ![s] = "delete"] /\ Local
        /\ "delete" \in PlaceNames /\ pc'[s] = "delete" /\ UNCHANGED <<has, deleted>>
    BY <1>1, <1>8 DEF sigdelete, Local, Typed, PlaceNames
  <2>2. HasAsServer(s)' /\ Up(s) /\ ~Holds(s)' BY <1>1, <2>1 DEF HasAsServer, Up, Over, Holds
  <2> QED BY <1>6, <2>1, <2>2
<1>9. CASE delete(s) BY <1>9, DeleteKept
<1>10. CASE From(s, "wait", "print") /\ sem_wait(s, "full")
  <2>1. /\ pc[s] = "wait" /\ pc' = [pc EXCEPT ![s] = "print"] /\ "print" \in PlaceNames /\ pc'[s] = "print"
        /\ UNCHANGED <<has, deleted>>
    BY <1>1, <1>10 DEF From, sem_wait, Typed, PlaceNames
  <2>2. HasAsServer(s)' /\ ~Holds(s) /\ Holds(s)' /\ pc[s] \notin Over \cup {"off"}
    BY <1>1, <2>1 DEF HasAsServer, Over, Holds
  <2>3. Attached(has[s]) BY <1>1, <2>1, AttachedAre DEF HasAsServer
  <2> QED BY <1>1, <1>10, <2>1, <2>2, <2>3, SemKept
<1>11. CASE From(s, "print", "post") /\ Local
  <2>1. /\ pc[s] = "print" /\ pc' = [pc EXCEPT ![s] = "post"] /\ Local /\ "post" \in PlaceNames /\ pc'[s] = "post"
        /\ UNCHANGED <<has, deleted>>
    BY <1>1, <1>11 DEF From, Local, Typed, PlaceNames
  <2>2. HasAsServer(s)' /\ Up(s) /\ Holds(s) BY <1>1, <2>1 DEF HasAsServer, Up, Over, Holds
  <2> QED BY <1>6, <2>1, <2>2
<1>12. CASE From(s, "post", "wait") /\ sem_post(s, "empty")
  <2>1. /\ pc[s] = "post" /\ pc' = [pc EXCEPT ![s] = "wait"] /\ "wait" \in PlaceNames /\ pc'[s] = "wait"
        /\ UNCHANGED <<has, deleted>>
    BY <1>1, <1>12 DEF From, sem_post, Typed, PlaceNames
  <2>2. HasAsServer(s)' /\ Holds(s) /\ ~Holds(s)' /\ pc[s] \notin Over \cup {"off"}
    BY <1>1, <2>1 DEF HasAsServer, Over, Holds
  <2>3. Attached(has[s]) BY <1>1, <2>1, AttachedAre DEF HasAsServer
  <2> QED BY <1>1, <1>12, <2>1, <2>2, <2>3, SemKept
<1> QED BY <1>2, <1>3, <1>4, <1>5, <1>7, <1>8, <1>9, <1>10, <1>11, <1>12 DEF server, Serve

\* A client finds the name or aborts.
LEMMA FindKept ==
  ASSUME IInv, NEW c \in Clients, NEW n \in NameSet, NEW from, NEW to, Find(c, n, from, to),
         <<n, from, to>> \in {<<"shm", "shm", "empty">>, <<"empty", "empty", "full">>, <<"full", "full", "menu">>}
  PROVE  IInv'
<1>1. /\ c \in Procs /\ c \notin Servers /\ HasAsClient(c) /\ Typed /\ to \in PlaceNames
      /\ "aborted" \in PlaceNames /\ pc[c] = from
  BY ProcsAre DEF IInv, Places, Find, PlaceNames
<1>2. CASE names[n] = None
  <2>1. pc' = [pc EXCEPT ![c] = "aborted"] /\ Local /\ pc'[c] = "aborted" /\ has' = has
    BY <1>1, <1>2 DEF Find, Local, Typed
  <2>2. HasAsClient(c)' /\ ~Holds(c)' BY <1>1, <2>1 DEF HasAsClient, Holds
  <2> QED BY <1>1, <2>1, <2>2, LocalKept
<1>3. CASE names[n] # None
  <2> DEFINE o == names[n]
  <2>1. /\ pc' = [pc EXCEPT ![c] = to] /\ pc'[c] = to /\ Opened(c, n, o) /\ o \in Servers
        /\ UNCHANGED <<names, sem, deleted, company>>
    BY <1>1, <1>3 DEF Find, Typed, Objects
  <2>2. has'[c][n] = o /\ \A m \in NameSet \ {n} : has'[c][m] = has[c][m]
    BY <1>1, <2>1 DEF Typed, Opened
  <2>3. has[c][n] = None /\ ~Holds(c) /\ ~Holds(c)'
    BY <1>1, <2>1 DEF HasAsClient, Holds
  <2>4. HasAsClient(c)'
    BY <1>1, <1>3, <2>1, <2>2, NamesAre DEF HasAsClient
  <2> QED BY <1>1, <2>1, <2>3, <2>4, OpenKept
<1> QED BY <1>2, <1>3

\* Each step of a client.
LEMMA ClientKept ==
  ASSUME IInv, NEW c \in Clients, client(c)
  PROVE  IInv'
<1>1. c \in Procs /\ c \notin Servers /\ HasAsClient(c) /\ Typed
  BY ProcsAre DEF IInv, Places
<1>2. ASSUME NEW from, NEW to, From(c, from, to), Local,
             <<from, to>> \in {<<"off", "shm">>, <<"menu", "wait">>, <<"menu", "exited">>, <<"enter", "post">>}
      PROVE  IInv'
  <2>1. /\ pc[c] = from /\ pc' = [pc EXCEPT ![c] = to] /\ to \in PlaceNames /\ pc'[c] = to /\ has' = has
    BY <1>1, <1>2 DEF From, Local, Typed, PlaceNames
  <2>2. HasAsClient(c)' /\ (Holds(c)' => Holds(c)) BY <1>1, <1>2, <2>1 DEF HasAsClient, Holds
  <2> QED BY <1>1, <1>2, <2>1, <2>2, LocalKept
<1>3. CASE From(c, "wait", "enter") /\ sem_wait(c, "empty")
  <2>1. /\ pc[c] = "wait" /\ pc' = [pc EXCEPT ![c] = "enter"] /\ "enter" \in PlaceNames /\ pc'[c] = "enter"
        /\ has' = has
    BY <1>1, <1>3 DEF From, sem_wait, Typed, PlaceNames
  <2>2. HasAsClient(c)' /\ ~Holds(c) /\ Holds(c)' /\ pc[c] \notin Over \cup {"off"}
    BY <1>1, <2>1 DEF HasAsClient, Over, Holds
  <2>3. Attached(has[c]) BY <1>1, <2>1, AttachedAre DEF HasAsClient
  <2> QED BY <1>1, <1>3, <2>1, <2>2, <2>3, SemKept, NamesAre
<1>4. CASE From(c, "post", "menu") /\ sem_post(c, "full")
  <2>1. /\ pc[c] = "post" /\ pc' = [pc EXCEPT ![c] = "menu"] /\ "menu" \in PlaceNames /\ pc'[c] = "menu"
        /\ has' = has
    BY <1>1, <1>4 DEF From, sem_post, Typed, PlaceNames
  <2>2. HasAsClient(c)' /\ Holds(c) /\ ~Holds(c)' /\ pc[c] \notin Over \cup {"off"}
    BY <1>1, <2>1 DEF HasAsClient, Over, Holds
  <2>3. Attached(has[c]) BY <1>1, <2>1, AttachedAre DEF HasAsClient
  <2> QED BY <1>1, <1>4, <2>1, <2>2, <2>3, SemKept, NamesAre
<1>5. CASE \/ Find(c, "shm", "shm", "empty") \/ Find(c, "empty", "empty", "full")
           \/ Find(c, "full", "full", "menu")
  BY <1>5, FindKept, NamesAre
<1> QED BY <1>2, <1>3, <1>4, <1>5 DEF client, Use

\* A kill takes a turn with it and gives none.
LEMMA KillKept ==
  ASSUME IInv, NEW p \in Procs, Kill(p)
  PROVE  IInv'
<1>1. /\ pc' = [pc EXCEPT ![p] = "killed"] /\ "killed" \in PlaceNames /\ pc'[p] = "killed" /\ Local
      /\ UNCHANGED <<has, deleted>> /\ pc[p] \notin Over \cup {"off"}
  BY DEF Kill, IInv, Typed, PlaceNames, Local
<1>2. ~Holds(p)' BY <1>1 DEF Holds
<1>3. p \in Servers => Up(p) /\ HasAsServer(p)' BY <1>1 DEF Up, IInv, Places, HasAsServer
<1>4. p \in Clients => HasAsClient(p)' BY <1>1 DEF IInv, Places, HasAsClient
<1> QED BY <1>1, <1>2, <1>3, <1>4, LocalKept

\* The invariant is inductive.
LEMMA Preserved == IInv /\ [Next]_vars => IInv'
<1> SUFFICES ASSUME IInv, [Next]_vars PROVE IInv'
  OBVIOUS
<1>1. CASE UNCHANGED vars
  BY <1>1 DEF vars, IInv, Typed, Places, HasAsServer, HasAsClient, Created, Unused, Turns, Groups, Turn,
              Holds, OneEach, Alone, Up
<1>2. CASE Next
  BY <1>2, ServerKept, ClientKept, KillKept DEF Next
<1> QED BY <1>1, <1>2

----------------------------------------------------------------------------
(* What follows                                                            *)

\* It has one owner at a time in it, and no mixing before a delete.
LEMMA ExclusiveFollows == IInv => ExclusiveUnlessMixed
<1> SUFFICES ASSUME IInv PROVE ExclusiveUnlessMixed
  OBVIOUS
<1>1. CASE mixed
  <2>1. \E s \in Servers : deleted[s] > 0 BY <1>1 DEF IInv, Typed, OneEach
  <2> QED BY <1>1, <2>1 DEF ExclusiveUnlessMixed
<1>2. CASE ~mixed
  <2>1. ASSUME NEW p \in Procs, NEW q \in Procs, Holds(p), Holds(q), has[p]["shm"] = has[q]["shm"]
        PROVE  p = q
    <3>1. Turn(p) BY <1>2, <2>1, HoldersAttached DEF IInv, Turns
    <3> QED BY <2>1, <3>1 DEF Turn
  <2> QED BY <1>2, <2>1 DEF ExclusiveUnlessMixed
<1> QED BY <1>1, <1>2

\* Where the processes start one after the other in any numbers, are killed and interrupted:
\* each segment has one owner at a time, unless somebody has mixed objects, after a delete.
THEOREM OneOwnerUnlessMixed == Spec => []ExclusiveUnlessMixed
<1>1. Init => IInv BY Initially
<1>2. IInv /\ [Next]_vars => IInv' BY Preserved
<1>3. IInv => ExclusiveUnlessMixed BY ExclusiveFollows
<1> QED BY <1>1, <1>2, <1>3, PTL DEF Spec

\* A server that aborts found a name gone.
LEMMA ServerAborts ==
  ASSUME IInv, NEW s \in Servers, server(s), pc'[s] = "aborted", pc[s] # "aborted"
  PROVE  s \in company \/ has[s]["shm"] = None
<1>1. s \in Procs /\ pc \in [Procs -> PlaceNames] BY ProcsAre DEF IInv, Typed
<1>2. delete(s)
  BY <1>1 DEF server, Start, OpenEmpty, OpenFull, Arm, OpenShm, Serve, sigdelete, From
<1>3. pc[s] = "delete" /\ deleted[s] + 1 \in 1 .. 3 /\ deleted[s] + 1 > deleted[s] /\ Up(s) /\ HasAsServer(s)
  BY <1>1, <1>2 DEF delete, IInv, Typed, Places, HasAsServer, Up, Over
<1>4. names[Names[deleted[s] + 1]] = None
  BY <1>1, <1>2, <1>3 DEF delete
<1>5. has[s]["empty"] # None /\ has[s]["full"] # None
  BY <1>3 DEF HasAsServer
<1>6. ASSUME has[s]["shm"] # None, s \notin company PROVE FALSE
  <2>1. has[s][Names[deleted[s] + 1]] # None BY <1>3, <1>5, <1>6, NamesAre
  <2> QED BY <1>3, <1>4, <1>6, <2>1 DEF IInv, Alone
<1> QED BY <1>6

\* A client that aborts did not find a name, which a server in its loop, alone, would have there.
LEMMA ClientAborts ==
  ASSUME IInv, NEW c \in Clients, client(c), pc'[c] = "aborted", pc[c] # "aborted"
  PROVE  \A s \in Servers : pc[s] \in {"wait", "print", "post"} => s \in company
<1>1. c \in Procs /\ pc \in [Procs -> PlaceNames] BY ProcsAre DEF IInv, Typed
<1>2. PICK n \in NameSet : names[n] = None
  BY <1>1, NamesAre DEF client, Use, Find, From
<1>3. ASSUME NEW s \in Servers, pc[s] \in {"wait", "print", "post"}, s \notin company PROVE FALSE
  <2>1. s \in Procs /\ HasAsServer(s) /\ Up(s) BY <1>3, ProcsAre DEF IInv, Places, Up, Over
  <2>2. deleted[s] = 0 /\ has[s][n] # None BY <1>3, <2>1, NamesAre DEF HasAsServer
  <2>3. PICK i \in 1 .. 3 : Names[i] = n BY NamesAre
  <2>4. names[n] = has[s][n] BY <1>3, <2>1, <2>2, <2>3 DEF IInv, Alone
  <2> QED BY <1>2, <2>2, <2>4
<1> QED BY <1>3

\* Who aborts, at its start or at its exit, has had the company of another server, or was
\* interrupted before its shm_open, or came when no server that was alone was in its loop.
THEOREM NoOtherAborts == Spec => AbortsExplained
<1> DEFINE Explained ==
      \A p \in Procs : pc'[p] = "aborted" /\ pc[p] # "aborted" =>
        IF p \in Servers THEN p \in company \/ has[p]["shm"] = None
        ELSE \A s \in Servers : pc[s] \in {"wait", "print", "post"} => s \in company
<1>1. Init => IInv BY Initially
<1>2. IInv /\ [Next]_vars => IInv' BY Preserved
<1>3. ASSUME IInv, [Next]_vars PROVE [Explained]_vars
  <2> SUFFICES ASSUME NEW p \in Procs, Next, pc'[p] = "aborted", pc[p] # "aborted"
               PROVE  IF p \in Servers THEN p \in company \/ has[p]["shm"] = None
                      ELSE \A s \in Servers : pc[s] \in {"wait", "print", "post"} => s \in company
    BY <1>3
  <2>1. pc \in [Procs -> PlaceNames] BY <1>3 DEF IInv, Typed
  <2>2. ASSUME NEW s \in Servers, server(s)
        PROVE  s = p
    <3>1. s \in Procs BY ProcsAre
    <3>2. \A q \in Procs \ {s} : pc'[q] = pc[q]
      BY <2>1, <2>2, <3>1 DEF server, Start, OpenEmpty, OpenFull, Arm, OpenShm, Serve, sigdelete, delete, From
    <3> QED BY <3>2
  <2>3. ASSUME NEW c \in Clients, client(c)
        PROVE  c = p
    <3>1. c \in Procs BY ProcsAre
    <3>2. \A q \in Procs \ {c} : pc'[q] = pc[q]
      BY <2>1, <2>3, <3>1 DEF client, Use, Find, From
    <3> QED BY <3>2
  <2>4. ASSUME NEW q \in Procs, Kill(q) PROVE FALSE
    BY <2>1, <2>4 DEF Kill
  <2> QED BY <1>3, <2>2, <2>3, <2>4, ServerAborts, ClientAborts, ProcsAre DEF Next
<1> QED BY <1>1, <1>2, <1>3, PTL DEF Spec, AbortsExplained
=============================================================================
