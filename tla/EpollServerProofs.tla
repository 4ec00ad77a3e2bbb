--------------------------- MODULE EpollServerProofs ---------------------------
(* The loop of epoll-example.c forgets no edge and mistakes no descriptor,    *)
(* for any number of peers, descriptors, events in a batch and bytes in a     *)
(* read.                                                                      *)
EXTENDS EpollServer, SequenceTheorems, FiniteSetTheorems, WellFoundedInduction, TLAPS

\* The types of the variables.
Ats == {"away", "queue", "accepted", "open", "closed"}
Ends == {"no", "eof", "reset"}
Conns == [at : Ats, fd : FDs \cup {sfd}, sent : Int, unread : Int, printed : Int, end : Ends, cut : BOOLEAN]
Items == Peers \cup {Listener}
Events == [fd : FDs \cup {sfd}, error : BOOLEAN, about : Items]

Typed ==
  /\ conn \in [Peers -> Conns] /\ queue \in Seq(Peers) /\ ready \in SUBSET Items
  /\ events \in Seq(Events) /\ count \in Nat
  /\ pc \in {"wait", "event", "accept", "add", "read", "write", "aborted"}

\* A descriptor leads to one connection, and the queue has each of its peers once.
Connections ==
  /\ \A p \in Peers : conn[p].at \in {"accepted", "open"} => conn[p].fd \in FDs
  /\ \A p, q \in Peers :
       conn[p].at \in {"accepted", "open"} /\ conn[q].at \in {"accepted", "open"} /\ conn[p].fd = conn[q].fd => p = q
  /\ \A n \in 1..Len(queue) : conn[queue[n]].at = "queue"
  /\ \A m, n \in 1..Len(queue) : queue[m] = queue[n] => m = n
  /\ \A p \in Peers : p \in ready => conn[p].at = "open"

InBatch(x) == \E n \in 1..Len(events) : events[n].about = x

\* A batch speaks of each item once, and of descriptors that still are the item's.
Batch ==
  /\ pc = "wait" => events = <<>>
  /\ pc \in {"event", "accept", "add", "read", "write"} => events # <<>>
  /\ pc \in {"accept", "add"} => event.about = Listener
  /\ pc \in {"read", "write"} => event.about # Listener
  /\ \A m, n \in 1..Len(events) : events[m].about = events[n].about => m = n
  /\ \A n \in 1..Len(events) : events[n].about = Listener => events[n].fd = sfd /\ ~events[n].error

Fresh ==
  pc # "aborted" =>
    \A n \in 1..Len(events) : events[n].about # Listener => Owns(events[n].about, events[n].fd)

\* What waits on a socket is known to epoll, or in the rest of the batch.
Remembered ==
  pc # "aborted" =>
    /\ \A p \in Peers : conn[p].at = "open" /\ Readable(conn[p]) => p \in ready \/ InBatch(p)
    /\ queue # <<>> => Listener \in ready \/ InBatch(Listener) \/ missed

IInv == Typed /\ Connections /\ Batch /\ Fresh /\ Remembered

LEMMA PeersAreItems == Peers \subseteq Nat \ {0} /\ Listener = 0 /\ Listener \notin Peers /\ sfd = 0 /\ sfd \notin FDs
BY EpollAssumption DEF Peers, Listener, sfd

LEMMA Initially == Init => IInv
<1> SUFFICES ASSUME Init PROVE IInv
  OBVIOUS
<1>1. Typed
  <2>1. conn \in [Peers -> Conns] BY DEF Init, Conns, Ats, Ends
  <2>2. queue \in Seq(Peers) /\ events \in Seq(Events) BY DEF Init
  <2>3. ready \in SUBSET Items /\ count \in Nat /\ pc = "wait" BY DEF Init
  <2> QED BY <2>1, <2>2, <2>3 DEF Typed
<1>2. Len(queue) = 0 /\ Len(events) = 0 BY DEF Init
<1>3. Connections BY <1>2 DEF Init, Connections
<1>4. Batch /\ Fresh BY <1>2 DEF Init, Batch, Fresh
<1>5. Remembered BY <1>2 DEF Init, Remembered
<1> QED BY <1>1, <1>3, <1>4, <1>5 DEF IInv

----------------------------------------------------------------------------
(* The operators of the library the server is described with               *)

LEMMA LeastOfTwo ==
  ASSUME NEW m \in Int, NEW n \in Int PROVE Min({m, n}) \in {m, n}
<1>1. \E x \in {m, n} : \A y \in {m, n} : x <= y
  OBVIOUS
<1> QED BY <1>1 DEF Min

\* accept finds the lowest free descriptor.
LEMMA LowestFree ==
  ASSUME Free # {} PROVE Min(Free) \in Free
<1>1. Free \subseteq Nat BY EpollAssumption DEF Free
<1> DEFINE R == {ss \in Nat \X Nat : ss[1] < ss[2]}
<1>2. IsWellFoundedOn(R, Nat) BY NatLessThanWellFounded DEF OpToRel
<1>3. \A x, y \in Nat : x < y => <<x, y>> \in R
  OBVIOUS
<1> HIDE DEF R
<1>4. PICK x \in Free : \A y \in Free : <<y, x>> \notin R BY <1>1, <1>2, WFMin
<1>5. ASSUME NEW y \in Free PROVE x <= y
  <2>1. x \in Nat /\ y \in Nat BY <1>1
  <2>2. ~(y < x) BY <1>3, <1>4, <2>1
  <2> QED BY <2>1, <2>2
<1> QED BY <1>5 DEF Min

\* The orders in which epoll_wait may report a set of items.
LEMMA Orders ==
  ASSUME NEW S, IsFiniteSet(S), NEW order \in SetToSeqs(S)
  PROVE  /\ order \in Seq(S) /\ Len(order) = Cardinality(S)
         /\ \A m, n \in 1..Len(order) : order[m] = order[n] => m = n
         /\ \A x \in S : \E n \in 1..Len(order) : order[n] = x
<1> DEFINE k == Cardinality(S)
<1>1. k \in Nat BY FS_CardinalityType
<1>2. order \in [1..k -> S] /\ \A i, j \in 1..k : i # j => order[i] # order[j]
  BY DEF SetToSeqs
<1>3. order \in Seq(S) /\ Len(order) = k BY <1>1, <1>2
<1>4. ASSUME NEW x \in S, \A n \in 1..k : order[n] # x PROVE FALSE
  <2> DEFINE D == 1..k
             T == S \ {x}
  <2>1. IsFiniteSet(T) /\ Cardinality(T) = k - 1 BY FS_RemoveElement
  <2>2. IsFiniteSet(D) /\ Cardinality(D) = k BY <1>1, FS_Interval
  <2>3. order \in [D -> T] BY <1>2, <1>4
  <2>4. Cardinality(T) < Cardinality(D) BY <1>1, <2>1, <2>2
  <2> HIDE DEF D, T
  <2>5. \E i, j \in D : i # j /\ order[i] = order[j] BY <2>1, <2>2, <2>3, <2>4, FS_PigeonHole
  <2> QED BY <1>2, <2>5 DEF D
<1> QED BY <1>2, <1>3, <1>4

\* The rest of a batch.
LEMMA Rest ==
  ASSUME NEW S, NEW s \in Seq(S), s # <<>>
  PROVE  /\ Tail(s) \in Seq(S) /\ Len(Tail(s)) = Len(s) - 1 /\ Len(s) \in Nat \ {0} /\ Head(s) = s[1]
         /\ \A n \in 1..Len(Tail(s)) : Tail(s)[n] = s[n + 1] /\ n + 1 \in 1..Len(s)
         /\ Len(s) = 1 <=> Tail(s) = <<>>
         /\ \A n \in 1..Len(s) : n = 1 \/ (n - 1 \in 1..Len(Tail(s)) /\ s[n] = Tail(s)[n - 1])
<1>1. Tail(s) \in Seq(S) /\ Len(Tail(s)) = Len(s) - 1 /\ \A n \in 1..Len(Tail(s)) : Tail(s)[n] = s[n + 1]
  BY HeadTailProperties
<1>2. Len(s) \in Nat \ {0} BY EmptySeq
<1>3. Head(s) = s[1]
  OBVIOUS
<1>4. Tail(s) = <<>> <=> Len(Tail(s)) = 0
  <2>1. Tail(s) = <<>> => Len(Tail(s)) = 0 BY EmptySeq
  <2>2. Tail(s) # <<>> => Len(Tail(s)) \in Nat \ {0} BY <1>1, EmptySeq
  <2> QED BY <2>1, <2>2
<1>5. \A n \in 1..Len(Tail(s)) : n + 1 \in 1..Len(s) BY <1>1, <1>2
<1>6. ASSUME NEW n \in 1..Len(s), n # 1 PROVE n - 1 \in 1..Len(Tail(s)) /\ s[n] = Tail(s)[n - 1]
  <2>1. n - 1 \in 1..Len(Tail(s)) /\ (n - 1) + 1 = n BY <1>1, <1>2, <1>6
  <2> QED BY <1>1, <2>1
<1>7. Len(s) = 1 <=> Len(Tail(s)) = 0 BY <1>1, <1>2
<1> QED BY <1>1, <1>2, <1>3, <1>4, <1>5, <1>6, <1>7

----------------------------------------------------------------------------
(* Types                                                                   *)

LEMMA ConnTyped ==
  ASSUME conn \in [Peers -> Conns], NEW p \in Peers, NEW c \in Conns
  PROVE  /\ [conn EXCEPT ![p] = c] \in [Peers -> Conns]
         /\ [conn EXCEPT ![p] = c][p] = c
         /\ \A q \in Peers \ {p} : [conn EXCEPT ![p] = c][q] = conn[q]
OBVIOUS

\* What the steps change of a connection.
LEMMA MovedTyped ==
  ASSUME NEW c \in Conns, NEW at \in Ats
  PROVE  LET d == [c EXCEPT !.at = at]
         IN  d \in Conns /\ d.at = at /\ d.fd = c.fd /\ d.unread = c.unread /\ d.end = c.end
BY DEF Conns

LEMMA SentTyped ==
  ASSUME NEW c \in Conns, NEW m \in Int, NEW n \in Int
  PROVE  LET d == [c EXCEPT !.sent = m, !.unread = n]
         IN  d \in Conns /\ d.at = c.at /\ d.fd = c.fd
BY DEF Conns

LEMMA ReadTyped ==
  ASSUME NEW c \in Conns, NEW n \in Int
  PROVE  LET d == [c EXCEPT !.unread = n]
         IN  d \in Conns /\ d.at = c.at /\ d.fd = c.fd
BY DEF Conns

LEMMA EndedTyped ==
  ASSUME NEW c \in Conns, NEW end \in Ends
  PROVE  LET d == [c EXCEPT !.end = end]
         IN  d \in Conns /\ d.at = c.at /\ d.fd = c.fd
BY DEF Conns

LEMMA PrintedTyped ==
  ASSUME NEW c \in Conns, NEW n \in Int, NEW cut \in BOOLEAN
  PROVE  LET d == [c EXCEPT !.printed = n, !.cut = cut]
         IN  d \in Conns /\ d.at = c.at /\ d.fd = c.fd /\ d.unread = c.unread /\ d.end = c.end
BY DEF Conns

LEMMA Facts ==
  ASSUME Typed
  PROVE  /\ \A p \in Peers : conn[p] \in Conns /\ conn[p].unread \in Int /\ conn[p].sent \in Int
              /\ conn[p].printed \in Int /\ conn[p].fd \in FDs \cup {sfd} /\ conn[p].cut \in BOOLEAN
         /\ Len(events) \in Nat /\ Len(queue) \in Nat
         /\ \A n \in 1..Len(events) : events[n].about \in Peers \cup {Listener} /\ events[n] \in Events
         /\ \A n \in 1..Len(queue) : queue[n] \in Peers
<1>1. \A p \in Peers : conn[p] \in Conns BY DEF Typed
<1>2. Len(events) \in Nat /\ Len(queue) \in Nat BY LenProperties DEF Typed
<1>3. \A n \in 1..Len(events) : events[n] \in Events BY ElementOfSeq DEF Typed
<1>4. \A n \in 1..Len(queue) : queue[n] \in Peers BY ElementOfSeq DEF Typed
<1> QED BY <1>1, <1>2, <1>3, <1>4 DEF Conns, Events, Items

----------------------------------------------------------------------------
(* The peers                                                               *)

\* A step that leaves every connection where it is, and its descriptor.
LEMMA Stay ==
  ASSUME Typed, Connections, Fresh, pc # "aborted", queue' = queue, events' = events,
         \A p \in Peers : conn'[p].at = conn[p].at /\ conn'[p].fd = conn[p].fd,
         \A p \in Peers : p \in ready' => p \in ready \/ conn[p].at = "open"
  PROVE  Connections' /\ Fresh'
<1>1. Connections' BY Facts DEF Connections
<1>2. Fresh' BY Facts DEF Fresh, Owns
<1> QED BY <1>1, <1>2

LEMMA Heard ==
  ASSUME IInv, pc # "aborted", NEW p \in Peers, NEW c \in Conns, conn' = [conn EXCEPT ![p] = c],
         c.at = conn[p].at, c.fd = conn[p].fd, Edge(p), UNCHANGED queue, Server
  PROVE  IInv'
<1>1. conn' \in [Peers -> Conns] /\ conn'[p] = c /\ \A q \in Peers \ {p} : conn'[q] = conn[q]
  BY ConnTyped DEF IInv, Typed
<1>2. queue' = queue /\ events' = events /\ pc' = pc /\ count' = count /\ missed' = missed BY DEF Server
<1>3. ready \subseteq ready' /\ ready' \subseteq ready \cup {p} /\ (p \in ready' => p \in ready \/ conn[p].at = "open")
  BY DEF Edge
<1>4. Typed' BY <1>1, <1>2, <1>3 DEF IInv, Typed, Items
<1>5. Connections' /\ Fresh' BY <1>1, <1>2, <1>3, Stay DEF IInv
<1>6. Batch' BY <1>2 DEF IInv, Batch, event
<1>7. Remembered'
  <2>1. ASSUME NEW q \in Peers, conn'[q].at = "open", Readable(conn'[q]) PROVE q \in ready' \/ InBatch(q)'
    <3>1. CASE q = p BY <1>1, <2>1, <3>1 DEF Edge
    <3>2. CASE q # p BY <1>1, <1>2, <1>3, <2>1, <3>2 DEF IInv, Remembered, InBatch
    <3> QED BY <3>1, <3>2
  <2>2. queue' # <<>> => Listener \in ready' \/ InBatch(Listener)' \/ missed'
    BY <1>2, <1>3 DEF IInv, Remembered, InBatch
  <2> QED BY <2>1, <2>2 DEF Remembered
<1> QED BY <1>4, <1>5, <1>6, <1>7 DEF IInv

LEMMA SendKept == ASSUME IInv, pc # "aborted", NEW p \in Peers, Send(p) PROVE IInv'
<1> DEFINE c == [conn[p] EXCEPT !.sent = conn[p].sent + 1, !.unread = conn[p].unread + 1]
<1>1. conn' = [conn EXCEPT ![p] = c] /\ Edge(p) /\ UNCHANGED queue /\ Server BY DEF Send
<1>2. conn[p] \in Conns /\ conn[p].sent + 1 \in Int /\ conn[p].unread + 1 \in Int BY Facts DEF IInv
<1>3. c \in Conns /\ c.at = conn[p].at /\ c.fd = conn[p].fd
  <2>1. PICK old \in Conns : old = conn[p] BY <1>2
  <2>2. PICK m \in Int : m = conn[p].sent + 1 BY <1>2
  <2>3. PICK n \in Int : n = conn[p].unread + 1 BY <1>2
  <2>4. c = [old EXCEPT !.sent = m, !.unread = n] BY <2>1, <2>2, <2>3
  <2> HIDE DEF c
  <2> QED BY ONLY <2>1, <2>4, m \in Int, n \in Int DEF Conns
<1> HIDE DEF c
<1> QED BY <1>1, <1>3, Heard

LEMMA HangUpKept == ASSUME IInv, pc # "aborted", NEW p \in Peers, HangUp(p) PROVE IInv'
<1>1. PICK how \in {"eof", "reset"} : conn' = [conn EXCEPT ![p].end = how] BY DEF HangUp
<1> DEFINE c == [conn[p] EXCEPT !.end = how]
<1>2. conn' = [conn EXCEPT ![p] = c] /\ Edge(p) /\ UNCHANGED queue /\ Server BY <1>1 DEF HangUp
<1>3. conn[p] \in Conns /\ how \in Ends BY Facts DEF IInv, Ends
<1>4. c \in Conns /\ c.at = conn[p].at /\ c.fd = conn[p].fd BY <1>3, EndedTyped
<1> QED BY <1>2, <1>4, Heard

LEMMA ConnectKept == ASSUME IInv, pc # "aborted", NEW p \in Peers, Connect(p) PROVE IInv'
<1> DEFINE c == [conn[p] EXCEPT !.at = "queue"]
<1>1. /\ conn[p].at = "away" /\ conn' = [conn EXCEPT ![p] = c] /\ queue' = Append(queue, p)
      /\ ready' = ready \cup {Listener} /\ UNCHANGED <<events, pc, count, missed>>
  BY DEF Connect, Server
<1>2. conn[p] \in Conns /\ "queue" \in Ats BY Facts DEF IInv, Ats
<1>3. c \in Conns /\ c.at = "queue" BY <1>2, MovedTyped
<1>4. conn' \in [Peers -> Conns] /\ conn'[p].at = "queue" /\ \A q \in Peers \ {p} : conn'[q] = conn[q]
  BY <1>1, <1>3, ConnTyped DEF IInv, Typed
<1>5. /\ queue' \in Seq(Peers) /\ Len(queue') = Len(queue) + 1 /\ Len(queue) \in Nat /\ queue'[Len(queue) + 1] = p
      /\ \A n \in 1..Len(queue) : queue'[n] = queue[n] /\ queue[n] \in Peers /\ queue[n] # p
  BY <1>1, Facts, AppendProperties DEF IInv, Typed, Connections
<1>6. Typed' BY <1>1, <1>4, <1>5 DEF IInv, Typed, Items
<1>7. Connections'
  <2>1. \A q \in Peers : conn'[q].at \in {"accepted", "open"} => q # p /\ conn'[q] = conn[q] BY <1>4
  <2>2. \A n \in 1..Len(queue') : (n = Len(queue) + 1 /\ queue'[n] = p)
                                 \/ (n \in 1..Len(queue) /\ queue'[n] = queue[n] /\ queue[n] # p)
    BY <1>5
  <2>3. \A n \in 1..Len(queue') : conn'[queue'[n]].at = "queue"
    BY <1>4, <1>5, <2>2 DEF IInv, Connections
  <2>4. \A m, n \in 1..Len(queue') : queue'[m] = queue'[n] => m = n
    BY <2>2 DEF IInv, Connections
  <2>5. \A q \in Peers : q \in ready' => conn'[q].at = "open"
    BY <1>1, <1>4, PeersAreItems DEF IInv, Connections
  <2> QED BY <2>1, <2>3, <2>4, <2>5 DEF IInv, Connections
<1>8. Batch' BY <1>1 DEF IInv, Batch, event
<1>9. Fresh'
  <2>1. \A n \in 1..Len(events) : events[n].about # Listener => events[n].about \in Peers \ {p}
    BY <1>1, Facts DEF IInv, Fresh, Owns
  <2> QED BY <1>1, <1>4, <2>1 DEF IInv, Fresh, Owns
<1>10. Remembered'
  <2>1. \A q \in Peers : conn'[q].at = "open" => conn'[q] = conn[q] BY <1>4
  <2> QED BY <1>1, <2>1 DEF IInv, Remembered, InBatch
<1> QED BY <1>6, <1>7, <1>8, <1>9, <1>10 DEF IInv

----------------------------------------------------------------------------
(* The loop over a batch                                                   *)

\* What the next turn of the loop does to the batch.
LEMMA Goes ==
  ASSUME IInv, events # <<>>, Continue
  PROVE  /\ event = events[1] /\ 1 \in 1..Len(events)
         /\ events' \in Seq(Events) /\ Len(events') = Len(events) - 1 /\ Len(events) \in Nat
         /\ \A n \in 1..Len(events') : events'[n] = events[n + 1] /\ n + 1 \in 1..Len(events)
         /\ \A n \in 1..Len(events') : events'[n].about # event.about
         /\ pc' = IF events' = <<>> THEN "wait" ELSE "event"
         /\ \A x : InBatch(x) => x = event.about \/ InBatch(x)'
<1>1. events \in Seq(Events) BY DEF IInv, Typed
<1>2. events' = Tail(events) /\ pc' = IF Len(events) = 1 THEN "wait" ELSE "event" BY DEF Continue
<1>3. /\ events' \in Seq(Events) /\ Len(events') = Len(events) - 1 /\ Len(events) \in Nat \ {0} /\ event = events[1]
      /\ \A n \in 1..Len(events') : events'[n] = events[n + 1] /\ n + 1 \in 1..Len(events)
      /\ Len(events) = 1 <=> events' = <<>>
      /\ \A n \in 1..Len(events) : n = 1 \/ (n - 1 \in 1..Len(events') /\ events[n] = events'[n - 1])
  BY <1>1, <1>2, Rest DEF event
<1>4. 1 \in 1..Len(events) BY <1>3
<1>5. ASSUME NEW n \in 1..Len(events') PROVE events'[n].about # event.about
  <2>1. n + 1 # 1 BY <1>3
  <2> QED BY <1>3, <1>4, <2>1 DEF IInv, Batch
<1>6. ASSUME NEW x, InBatch(x) PROVE x = event.about \/ InBatch(x)'
  <2>1. PICK n \in 1..Len(events) : events[n].about = x BY <1>6 DEF InBatch
  <2>2. CASE n = 1 BY <1>3, <2>1, <2>2
  <2>3. CASE n # 1
    <3>1. n - 1 \in 1..Len(events') /\ events'[n - 1].about = x BY <1>3, <2>1, <2>3
    <3> QED BY <3>1 DEF InBatch
  <2> QED BY <2>2, <2>3
<1> QED BY <1>2, <1>3, <1>4, <1>5, <1>6

LEMMA BatchGoes ==
  ASSUME IInv, events # <<>>, Continue PROVE Batch'
<1>1. /\ events' \in Seq(Events) /\ Len(events') = Len(events) - 1 /\ Len(events) \in Nat
      /\ \A n \in 1..Len(events') : events'[n] = events[n + 1] /\ n + 1 \in 1..Len(events)
      /\ pc' = IF events' = <<>> THEN "wait" ELSE "event"
  BY Goes
<1>2. ASSUME NEW m \in 1..Len(events'), NEW n \in 1..Len(events'), events'[m].about = events'[n].about PROVE m = n
  <2>1. m + 1 = n + 1 BY <1>1, <1>2 DEF IInv, Batch
  <2> QED BY <1>1, <2>1
<1>3. \A n \in 1..Len(events') : events'[n].about = Listener => events'[n].fd = sfd /\ ~events'[n].error
  BY <1>1 DEF IInv, Batch
<1> QED BY <1>1, <1>2, <1>3 DEF Batch

\* An event that has been dealt with, when its item has nothing more to say.
LEMMA Skipped ==
  ASSUME IInv, pc # "aborted", events # <<>>, Continue, UNCHANGED <<conn, queue, ready, count>>,
         event.about # Listener => ~Readable(conn[event.about]),
         event.about = Listener \/ missed' = missed, event.about = Listener => queue = <<>> \/ missed'
  PROVE  IInv'
<1>1. Typed' BY Goes DEF IInv, Typed
<1>2. Connections' BY DEF IInv, Connections
<1>3. Batch' BY BatchGoes
<1>4. Fresh' BY Goes DEF IInv, Fresh, Owns
<1>5. Remembered'
  <2>1. ASSUME NEW p \in Peers, conn[p].at = "open", Readable(conn[p]) PROVE p \in ready \/ InBatch(p)'
    <3>1. p # Listener BY PeersAreItems
    <3>2. p \in ready \/ InBatch(p) BY <2>1 DEF IInv, Remembered
    <3> QED BY <2>1, <3>1, <3>2, Goes
  <2>2. queue # <<>> => Listener \in ready \/ InBatch(Listener)' \/ missed'
    BY Goes DEF IInv, Remembered
  <2> QED BY <2>1, <2>2 DEF Remembered
<1> QED BY <1>1, <1>2, <1>3, <1>4, <1>5 DEF IInv

\* An event whose descriptor is closed.
LEMMA Closed ==
  ASSUME IInv, pc # "aborted", events # <<>>, Continue, UNCHANGED <<queue, count, missed>>,
         event.about # Listener, Close(event.fd)
  PROVE  IInv'
<1> DEFINE x == event.about
<1>1. x \in Peers /\ Owns(x, event.fd)
  <2>1. event = events[1] /\ 1 \in 1..Len(events) BY Goes
  <2> QED BY <2>1, Facts DEF IInv, Fresh
<1>2. \A p \in Peers : Owns(p, event.fd) <=> p = x
  BY <1>1 DEF IInv, Connections, Owns
<1> DEFINE c == [conn[x] EXCEPT !.at = "closed"]
<1>3. c \in Conns /\ c.at = "closed"
  <2>1. conn[x] \in Conns /\ "closed" \in Ats BY <1>1, Facts DEF IInv, Ats
  <2> QED BY <2>1, MovedTyped
<1>4. conn' \in [Peers -> Conns] /\ conn'[x] = c /\ \A p \in Peers \ {x} : conn'[p] = conn[p]
  <2>1. conn' = [p \in Peers |-> IF p = x THEN c ELSE conn[p]] BY <1>2 DEF Close
  <2> HIDE DEF c
  <2>2. \A p \in Peers : conn[p] \in Conns BY Facts DEF IInv
  <2> QED BY <1>1, <1>3, <2>1, <2>2
<1>5. ready' = {y \in ready : y # x}
  <2>1. \A y \in ready : (y = Listener \/ ~Owns(y, event.fd)) <=> y # x
    BY <1>1, <1>2, PeersAreItems DEF IInv, Typed, Items
  <2> QED BY <2>1 DEF Close
<1> HIDE DEF x, c
<1>6. Typed' BY <1>4, <1>5, Goes DEF IInv, Typed
<1>7. Connections'
  <2>1. \A p \in Peers : conn'[p].at # "closed" => p # x /\ conn'[p] = conn[p] BY <1>3, <1>4
  <2>2. \A n \in 1..Len(queue) : queue[n] \in Peers /\ queue[n] # x /\ conn'[queue[n]] = conn[queue[n]]
    BY <1>1, <1>4, Facts DEF IInv, Connections, Owns
  <2> QED BY <1>4, <1>5, <2>1, <2>2 DEF IInv, Connections
<1>8. Batch' BY BatchGoes
<1>9. Fresh'
  <2>1. \A n \in 1..Len(events') :
          events'[n].about # x /\ events'[n] = events[n + 1] /\ n + 1 \in 1..Len(events)
    BY Goes DEF x
  <2> QED BY <1>4, <2>1, Facts DEF IInv, Fresh, Owns
<1>10. Remembered'
  <2>1. ASSUME NEW p \in Peers, conn'[p].at = "open", Readable(conn'[p]) PROVE p \in ready' \/ InBatch(p)'
    <3>1. p # x /\ conn'[p] = conn[p] BY <1>3, <1>4, <2>1
    <3>2. p \in ready \/ InBatch(p) BY <2>1, <3>1 DEF IInv, Remembered
    <3> QED BY <1>5, <3>1, <3>2, Goes DEF x
  <2>2. queue' # <<>> => Listener \in ready' \/ InBatch(Listener)' \/ missed'
    <3>1. x # Listener BY <1>1, PeersAreItems
    <3> QED BY <1>5, <3>1, Goes DEF IInv, Remembered, x
  <2> QED BY <2>1, <2>2 DEF Remembered
<1> QED BY <1>6, <1>7, <1>8, <1>9, <1>10 DEF IInv

----------------------------------------------------------------------------
(* The steps of the server                                                 *)

LEMMA WaitKept == ASSUME IInv, epoll_wait PROVE IInv'
<1>1. PICK S \in SUBSET Reportable :
        /\ Cardinality(S) = Min({Cardinality(Reportable), MAXEVENTS})
        /\ ready' = Reportable \ S
        /\ \E order \in SetToSeqs(S) :
             events' = [n \in DOMAIN order |->
               IF order[n] = Listener THEN [fd |-> sfd, error |-> FALSE, about |-> Listener]
               ELSE [fd |-> conn[order[n]].fd, error |-> conn[order[n]].end = "reset", about |-> order[n]]]
  BY DEF epoll_wait
<1>2. PICK order \in SetToSeqs(S) :
        events' = [n \in DOMAIN order |->
          IF order[n] = Listener THEN [fd |-> sfd, error |-> FALSE, about |-> Listener]
          ELSE [fd |-> conn[order[n]].fd, error |-> conn[order[n]].end = "reset", about |-> order[n]]]
  BY <1>1
<1>3. pc = "wait" /\ pc' = "event" /\ events = <<>> /\ UNCHANGED <<conn, queue, count, missed>> /\ Reportable # {}
  BY DEF epoll_wait, IInv, Batch
<1>4. IsFiniteSet(Reportable) /\ IsFiniteSet(S)
  <2>1. IsFiniteSet(1..MaxPeers) BY EpollAssumption, FS_Interval
  <2>2. IsFiniteSet(Items) BY <2>1, FS_AddElement DEF Items, Peers
  <2>3. Reportable \subseteq Items BY DEF IInv, Typed, Reportable
  <2> QED BY <2>2, <2>3, <1>1, FS_Subset
<1>5. Cardinality(S) \in Nat \ {0}
  <2>1. Cardinality(Reportable) \in Nat \ {0} BY <1>3, <1>4, FS_CardinalityType, FS_EmptySet
  <2>2. Min({Cardinality(Reportable), MAXEVENTS}) \in {Cardinality(Reportable), MAXEVENTS}
    BY <2>1, LeastOfTwo, EpollAssumption
  <2> QED BY <1>1, <2>1, <2>2, EpollAssumption
<1>6. /\ order \in Seq(S) /\ Len(order) = Cardinality(S)
      /\ \A m, n \in 1..Len(order) : order[m] = order[n] => m = n
      /\ \A x \in S : \E n \in 1..Len(order) : order[n] = x
  BY <1>4, Orders
<1>7. DOMAIN order = 1..Len(order) /\ \A n \in 1..Len(order) : order[n] \in S BY <1>6, LenProperties
<1>8. \A n \in 1..Len(order) :
        /\ events'[n] \in Events /\ events'[n].about = order[n]
        /\ order[n] = Listener => events'[n].fd = sfd /\ ~events'[n].error
        /\ order[n] # Listener => order[n] \in Peers /\ conn[order[n]].at = "open" /\ events'[n].fd = conn[order[n]].fd
  <2> SUFFICES ASSUME NEW n \in 1..Len(order)
               PROVE  /\ events'[n] \in Events /\ events'[n].about = order[n]
                      /\ order[n] = Listener => events'[n].fd = sfd /\ ~events'[n].error
                      /\ order[n] # Listener =>
                           order[n] \in Peers /\ conn[order[n]].at = "open" /\ events'[n].fd = conn[order[n]].fd
    OBVIOUS
  <2>1. order[n] \in ready /\ order[n] \in Items BY <1>7 DEF Reportable, IInv, Typed
  <2>2. CASE order[n] = Listener
    <3>1. events'[n] = [fd |-> sfd, error |-> FALSE, about |-> Listener] BY <1>2, <1>7, <2>2
    <3> QED BY <2>2, <3>1 DEF Events, Items
  <2>3. CASE order[n] # Listener
    <3>1. events'[n] = [fd |-> conn[order[n]].fd, error |-> conn[order[n]].end = "reset", about |-> order[n]]
      BY <1>2, <1>7, <2>3
    <3>2. order[n] \in Peers /\ conn[order[n]].at = "open" BY <2>1, <2>3 DEF Items, IInv, Connections
    <3>3. conn[order[n]].fd \in FDs \cup {sfd} BY <3>2, Facts DEF IInv
    <3>4. (conn[order[n]].end = "reset") \in BOOLEAN
      OBVIOUS
    <3> QED BY <2>1, <2>3, <3>1, <3>2, <3>3, <3>4 DEF Events
  <2> QED BY <2>2, <2>3
<1>9. events' \in Seq(Events) /\ Len(events') = Len(order) /\ Len(order) \in Nat \ {0}
  <2>1. events' \in [1..Len(order) -> Events] BY <1>2, <1>7, <1>8
  <2> QED BY <1>5, <1>6, <2>1
<1>10. events' # <<>> BY <1>9, EmptySeq
<1>11. \A x \in S : InBatch(x)' BY <1>6, <1>8, <1>9 DEF InBatch
<1>12. Typed' BY <1>1, <1>3, <1>9 DEF IInv, Typed, Reportable
<1>13. Connections' BY <1>1, <1>3 DEF IInv, Connections, Reportable
<1>14. Batch' BY <1>3, <1>6, <1>8, <1>9, <1>10 DEF Batch
<1>15. Fresh' BY <1>3, <1>8, <1>9 DEF Fresh, Owns
<1>16. Remembered'
  <2>1. ASSUME NEW p \in Peers, conn[p].at = "open", Readable(conn[p]) PROVE p \in ready' \/ InBatch(p)'
    <3>1. p \in ready BY <1>3, <2>1 DEF IInv, Remembered, InBatch
    <3>2. p \in Reportable BY <2>1, <3>1, PeersAreItems DEF Reportable
    <3> QED BY <1>1, <1>11, <3>2
  <2>2. ASSUME queue # <<>>, ~missed PROVE Listener \in ready' \/ InBatch(Listener)'
    <3>1. Listener \in ready BY <1>3, <2>2 DEF IInv, Remembered, InBatch
    <3>2. Listener \in Reportable BY <2>2, <3>1 DEF Reportable
    <3> QED BY <1>1, <1>11, <3>2
  <2> QED BY <1>3, <2>1, <2>2 DEF Remembered
<1> QED BY <1>12, <1>13, <1>14, <1>15, <1>16 DEF IInv

\* The head of the batch, while the loop is at it.
LEMMA AtEvent ==
  ASSUME IInv, pc \in {"event", "accept", "add", "read", "write"}
  PROVE  /\ events # <<>> /\ event = events[1] /\ 1 \in 1..Len(events) /\ event.about \in Peers \cup {Listener}
         /\ event.about = Listener => event.fd = sfd /\ ~event.error
         /\ event.about # Listener => Owns(event.about, event.fd) /\ event.fd \in FDs
<1>1. events # <<>> BY DEF IInv, Batch
<1>2. event = events[1] /\ 1 \in 1..Len(events) BY <1>1, Rest DEF IInv, Typed, event
<1> QED BY <1>1, <1>2, Facts DEF IInv, Batch, Fresh, Owns, Connections

\* A step that changes nothing but the place in the loop.
LEMMA Places ==
  ASSUME IInv, pc # "aborted", UNCHANGED <<conn, queue, ready, events, missed>>, count' \in Nat,
         events # <<>>, pc' \in {"event", "accept", "add", "read", "write"},
         pc' \in {"accept", "add"} => event.about = Listener, pc' \in {"read", "write"} => event.about # Listener
  PROVE  IInv'
<1>1. Typed' BY DEF IInv, Typed
<1>2. Connections' /\ Batch' BY DEF IInv, Connections, Batch, event
<1>3. Fresh' /\ Remembered' BY DEF IInv, Fresh, Owns, Remembered, InBatch
<1> QED BY <1>1, <1>2, <1>3 DEF IInv

LEMMA AcceptKept == ASSUME IInv, Accept PROVE IInv'
<1> DEFINE p == Head(queue)
           c == [conn[p] EXCEPT !.at = "accepted", !.fd = Min(Free)]
<1>1. /\ pc = "accept" /\ pc' = "add" /\ queue # <<>> /\ Free # {} /\ queue' = Tail(queue)
      /\ conn' = [conn EXCEPT ![p] = c] /\ UNCHANGED <<ready, events, count, missed>>
  BY DEF Accept
<1>2. /\ queue' \in Seq(Peers) /\ p = queue[1] /\ 1 \in 1..Len(queue) /\ Len(queue') = Len(queue) - 1 /\ Len(queue) \in Nat
      /\ \A n \in 1..Len(queue') : queue'[n] = queue[n + 1] /\ n + 1 \in 1..Len(queue)
  BY <1>1, Rest DEF IInv, Typed
<1>3. p \in Peers /\ conn[p].at = "queue" /\ conn[p] \in Conns
  BY <1>2, Facts DEF IInv, Connections
<1>4. Min(Free) \in FDs /\ \A q \in Peers : conn[q].at \in {"accepted", "open"} => conn[q].fd # Min(Free)
  BY <1>1, LowestFree DEF Free
<1>5. c \in Conns /\ c.at = "accepted" /\ c.fd = Min(Free)
  <2> DEFINE f == Min(Free)
  <2>1. "accepted" \in Ats BY DEF Ats
  <2>2. c = [conn[p] EXCEPT !.at = "accepted", !.fd = f] BY DEF c
  <2>3. f \in FDs BY <1>4
  <2> HIDE DEF f, p, c
  <2>4. PICK old \in Conns : old = conn[p] BY <1>3
  <2>5. c = [old EXCEPT !.at = "accepted", !.fd = f] BY <2>2, <2>4
  <2>6. c \in Conns /\ c.at = "accepted" /\ c.fd = f
    BY ONLY <2>1, <2>3, <2>5, old \in Conns DEF Conns
  <2> QED BY <2>6 DEF f
<1>6. conn' \in [Peers -> Conns] /\ conn'[p] = c /\ \A q \in Peers \ {p} : conn'[q] = conn[q]
  BY <1>1, <1>3, <1>5, ConnTyped DEF IInv, Typed
<1> HIDE DEF p, c
<1>7. Typed' BY <1>1, <1>2, <1>6 DEF IInv, Typed
<1>8. Connections'
  <2>1. \A q \in Peers : conn'[q].at \in {"accepted", "open"} => conn'[q].fd \in FDs
    BY <1>4, <1>5, <1>6 DEF IInv, Connections
  <2>2. ASSUME NEW q \in Peers, NEW r \in Peers, conn'[q].at \in {"accepted", "open"},
               conn'[r].at \in {"accepted", "open"}, conn'[q].fd = conn'[r].fd
        PROVE  q = r
    <3>1. CASE q = p /\ r # p BY <1>4, <1>5, <1>6, <2>2, <3>1
    <3>2. CASE q # p /\ r = p BY <1>4, <1>5, <1>6, <2>2, <3>2
    <3>3. CASE q # p /\ r # p BY <1>6, <2>2, <3>3 DEF IInv, Connections
    <3> QED BY <3>1, <3>2, <3>3
  <2>3. \A n \in 1..Len(queue') : queue'[n] # p /\ queue'[n] \in Peers
    <3>1. ASSUME NEW n \in 1..Len(queue') PROVE queue'[n] # p
      <4>1. n + 1 # 1 BY <1>2
      <4> QED BY <1>2, <4>1 DEF IInv, Connections
    <3> QED BY <1>2, <3>1, Facts DEF IInv
  <2>4. \A n \in 1..Len(queue') : conn'[queue'[n]].at = "queue"
    BY <1>2, <1>6, <2>3 DEF IInv, Connections
  <2>5. ASSUME NEW m \in 1..Len(queue'), NEW n \in 1..Len(queue'), queue'[m] = queue'[n] PROVE m = n
    <3>1. m + 1 = n + 1 BY <1>2, <2>5 DEF IInv, Connections
    <3> QED BY <1>2, <3>1
  <2>6. \A q \in Peers : q \in ready' => conn'[q].at = "open"
    BY <1>1, <1>3, <1>6 DEF IInv, Connections
  <2> QED BY <2>1, <2>2, <2>4, <2>5, <2>6 DEF Connections
<1>9. Batch' BY <1>1 DEF IInv, Batch, event
<1>10. Fresh'
  <2>1. \A n \in 1..Len(events) : events[n].about # Listener => events[n].about \in Peers \ {p}
    BY <1>1, <1>3, Facts DEF IInv, Fresh, Owns
  <2> QED BY <1>1, <1>6, <2>1 DEF IInv, Fresh, Owns
<1>11. Remembered'
  <2>1. \A q \in Peers : conn'[q].at = "open" => conn'[q] = conn[q] BY <1>5, <1>6
  <2> QED BY <1>1, <2>1 DEF IInv, Remembered, InBatch
<1> QED BY <1>7, <1>8, <1>9, <1>10, <1>11 DEF IInv

LEMMA AddKept == ASSUME IInv, Add PROVE IInv'
<1>1. PICK p \in Peers : /\ conn[p].at = "accepted" /\ conn' = [conn EXCEPT ![p].at = "open"]
                         /\ ready' = IF Readable(conn[p]) THEN ready \cup {p} ELSE ready
  BY DEF Add
<1> DEFINE c == [conn[p] EXCEPT !.at = "open"]
<1>2. pc = "add" /\ pc' = "accept" /\ UNCHANGED <<queue, events, count, missed>> /\ conn' = [conn EXCEPT ![p] = c]
  BY <1>1 DEF Add
<1>3. c \in Conns /\ c.at = "open" /\ c.fd = conn[p].fd /\ c.unread = conn[p].unread /\ c.end = conn[p].end
  <2>1. conn[p] \in Conns /\ "open" \in Ats BY Facts DEF IInv, Ats
  <2> QED BY <2>1, MovedTyped
<1>4. conn' \in [Peers -> Conns] /\ conn'[p] = c /\ \A q \in Peers \ {p} : conn'[q] = conn[q]
  BY <1>2, <1>3, ConnTyped DEF IInv, Typed
<1> HIDE DEF c
<1>5. Typed' BY <1>1, <1>2, <1>4 DEF IInv, Typed, Items
<1>6. Connections'
  <2>1. \A q \in Peers : conn'[q].fd = conn[q].fd /\ (conn'[q].at \in {"accepted", "open"} => conn[q].at \in {"accepted", "open"})
    BY <1>1, <1>3, <1>4
  <2>2. \A n \in 1..Len(queue) : queue[n] \in Peers \ {p} BY <1>1, Facts DEF IInv, Connections
  <2>3. \A q \in Peers : q \in ready' => conn'[q].at = "open" BY <1>1, <1>3, <1>4 DEF IInv, Connections
  <2> QED BY <1>2, <1>4, <2>1, <2>2, <2>3 DEF IInv, Connections
<1>7. Batch' BY <1>2 DEF IInv, Batch, event
<1>8. Fresh'
  <2>1. \A n \in 1..Len(events) : events[n].about # Listener => events[n].about \in Peers \ {p}
    BY <1>1, <1>2, Facts DEF IInv, Fresh, Owns
  <2> QED BY <1>2, <1>4, <2>1 DEF IInv, Fresh, Owns
<1>9. Remembered'
  <2>1. ASSUME NEW q \in Peers, conn'[q].at = "open", Readable(conn'[q]) PROVE q \in ready' \/ InBatch(q)'
    <3>1. CASE q = p BY <1>1, <1>3, <1>4, <2>1, <3>1 DEF Readable
    <3>2. CASE q # p BY <1>1, <1>2, <1>4, <2>1, <3>2 DEF IInv, Remembered, InBatch
    <3> QED BY <3>1, <3>2
  <2>2. queue' # <<>> => Listener \in ready' \/ InBatch(Listener)' \/ missed'
    BY <1>1, <1>2 DEF IInv, Remembered, InBatch
  <2> QED BY <2>1, <2>2 DEF Remembered
<1> QED BY <1>5, <1>6, <1>7, <1>8, <1>9 DEF IInv

\* A step on the connection whose event the loop is at, which stays open.
LEMMA Handled ==
  ASSUME IInv, pc \in {"read", "write"}, pc' \in {"read", "write"}, NEW c \in Conns,
         conn' = [conn EXCEPT ![event.about] = c], c.at = conn[event.about].at, c.fd = conn[event.about].fd,
         UNCHANGED <<queue, ready, events, missed>>, count' \in Nat
  PROVE  IInv'
<1> DEFINE p == event.about
<1>1. p \in Peers /\ InBatch(p) BY AtEvent DEF IInv, Batch, InBatch
<1>2. conn' \in [Peers -> Conns] /\ conn'[p] = c /\ \A q \in Peers \ {p} : conn'[q] = conn[q]
  BY <1>1, ConnTyped DEF IInv, Typed
<1> HIDE DEF p
<1>3. Typed' BY <1>2 DEF IInv, Typed
<1>4. Connections' /\ Fresh'
  <2>1. \A q \in Peers : conn'[q].at = conn[q].at /\ conn'[q].fd = conn[q].fd BY <1>2 DEF p
  <2> QED BY <2>1, Stay DEF IInv
<1>5. Batch' BY DEF IInv, Batch, event
<1>6. Remembered' BY <1>1, <1>2 DEF IInv, Remembered, InBatch
<1> QED BY <1>3, <1>4, <1>5, <1>6 DEF IInv

LEMMA ReadKept == ASSUME IInv, Read PROVE IInv'
<1>1. PICK q \in Peers : /\ Owns(q, event.fd) /\ conn[q].unread > 0
                         /\ count' = Min({conn[q].unread, BufSize})
                         /\ conn' = [conn EXCEPT ![q].unread = @ - count']
  BY DEF Read
<1>2. pc = "read" /\ pc' = "write" /\ UNCHANGED <<queue, ready, events, missed>> BY DEF Read
<1>3. q = event.about BY <1>1, <1>2, AtEvent DEF IInv, Batch, Connections, Owns
<1>4. conn[q] \in Conns /\ conn[q].unread \in Int BY Facts DEF IInv
<1>5. count' \in Nat
  <2>1. BufSize \in Nat BY EpollAssumption
  <2>2. count' \in {conn[q].unread, BufSize} BY <1>1, <1>4, <2>1, LeastOfTwo
  <2> QED BY <1>1, <1>4, <2>1, <2>2
<1> DEFINE c == [conn[q] EXCEPT !.unread = conn[q].unread - count']
<1>6. conn' = [conn EXCEPT ![q] = c] BY <1>1
<1>7. conn[q].unread - count' \in Int BY <1>4, <1>5
<1>8. c \in Conns /\ c.at = conn[q].at /\ c.fd = conn[q].fd BY <1>4, <1>7, ReadTyped
<1> HIDE DEF c
<1> QED BY <1>2, <1>3, <1>5, <1>6, <1>8, Handled

LEMMA WriteKept == ASSUME IInv, Write PROVE IInv'
<1> DEFINE p == event.about
<1>1. PICK n \in 1..count : Written(n) BY DEF Write
<1>2. pc = "write" /\ pc' = "read" /\ count' = 0 /\ UNCHANGED <<queue, ready, events, missed>> BY DEF Write
<1>3. p \in Peers /\ \A q \in Peers : Owns(q, event.fd) <=> q = p
  BY <1>2, AtEvent DEF IInv, Batch, Connections, Owns
<1> DEFINE c == [conn[p] EXCEPT !.printed = conn[p].printed + n, !.cut = conn[p].cut \/ n < count]
<1>4. conn' = [q \in Peers |-> IF q = p THEN c ELSE conn[q]] BY <1>1, <1>3 DEF Written
<1>5. conn[p] \in Conns /\ conn[p].printed + n \in Int /\ (conn[p].cut \/ n < count) \in BOOLEAN
  <2>1. conn[p] \in Conns /\ conn[p].printed \in Int BY <1>3, Facts DEF IInv
  <2>2. n \in Int
    OBVIOUS
  <2>3. (conn[p].cut \/ n < count) \in BOOLEAN
    OBVIOUS
  <2> QED BY <2>1, <2>2, <2>3
<1>6. c \in Conns /\ c.at = conn[p].at /\ c.fd = conn[p].fd
  <2>1. PICK old \in Conns : old = conn[p] BY <1>5
  <2>2. PICK m \in Int : m = conn[p].printed + n BY <1>5
  <2>3. PICK cut \in BOOLEAN : cut = (conn[p].cut \/ n < count) BY <1>5
  <2>4. c = [old EXCEPT !.printed = m, !.cut = cut] BY <2>1, <2>2, <2>3
  <2> HIDE DEF c
  <2> QED BY ONLY <2>1, <2>4, m \in Int, cut \in BOOLEAN DEF Conns
<1> HIDE DEF c
<1>7. conn' = [conn EXCEPT ![p] = c] BY <1>3, <1>4 DEF IInv, Typed
<1> QED BY <1>2, <1>6, <1>7, Handled

LEMMA AbortKept == ASSUME IInv, Abort PROVE IInv'
<1>1. /\ pc' = "aborted" /\ queue' = <<>> /\ ready' = {} /\ UNCHANGED <<events, count, missed>>
      /\ conn' = [p \in Peers |-> IF conn[p].at = "away" THEN conn[p] ELSE [conn[p] EXCEPT !.at = "closed"]]
  BY DEF Abort
<1>2. \A p \in Peers : conn'[p] \in Conns /\ conn'[p].at \in {"away", "closed"}
  <2> SUFFICES ASSUME NEW p \in Peers PROVE conn'[p] \in Conns /\ conn'[p].at \in {"away", "closed"}
    OBVIOUS
  <2>1. conn[p] \in Conns /\ "closed" \in Ats BY Facts DEF IInv, Ats
  <2>2. [conn[p] EXCEPT !.at = "closed"] \in Conns /\ [conn[p] EXCEPT !.at = "closed"].at = "closed"
    BY <2>1, MovedTyped
  <2> QED BY <1>1, <2>1, <2>2
<1>3. Typed'
  <2>1. conn' \in [Peers -> Conns] BY <1>1, <1>2
  <2>2. queue' \in Seq(Peers) BY <1>1
  <2> QED BY <1>1, <2>1, <2>2 DEF IInv, Typed
<1>4. Connections'
  <2>1. Len(queue') = 0 BY <1>1
  <2> QED BY <1>1, <1>2, <2>1 DEF Connections
<1>5. Batch' BY <1>1 DEF IInv, Batch, event
<1>6. Fresh' /\ Remembered' BY <1>1 DEF Fresh, Remembered
<1> QED BY <1>3, <1>4, <1>5, <1>6 DEF IInv

LEMMA Preserved == IInv /\ [Next]_vars => IInv'
<1> SUFFICES ASSUME IInv, [Next]_vars PROVE IInv'
  OBVIOUS
<1>1. CASE CloseOnError
  <2>1. pc = "event" /\ event.error BY <1>1 DEF CloseOnError
  <2>2. events # <<>> /\ event.about # Listener BY <2>1, AtEvent
  <2> QED BY <1>1, <2>1, <2>2, Closed DEF CloseOnError
<1>2. CASE Dispatch
  <2>1. pc = "event" /\ pc' = (IF event.fd = sfd THEN "accept" ELSE "read") /\ UNCHANGED <<conn, queue, ready, events, count, missed>>
    BY <1>2 DEF Dispatch
  <2>2. events # <<>> /\ (event.fd = sfd <=> event.about = Listener) BY <2>1, AtEvent, PeersAreItems
  <2>3. count' \in Nat BY <2>1 DEF IInv, Typed
  <2> QED BY <2>1, <2>2, <2>3, Places
<1>3. CASE AcceptedAll \/ AcceptFails
  <2>1. /\ pc = "accept" /\ Continue /\ UNCHANGED <<conn, queue, ready, count>>
        /\ queue = <<>> \/ missed'
    BY <1>3 DEF AcceptedAll, AcceptFails
  <2>2. events # <<>> /\ event.about = Listener BY <2>1 DEF IInv, Batch
  <2> QED BY <2>1, <2>2, Skipped
<1>4. CASE ReadAll
  <2>1. PICK p \in Peers : Owns(p, event.fd) /\ ~Readable(conn[p]) BY <1>4 DEF ReadAll
  <2>2. pc = "read" /\ Continue /\ UNCHANGED <<conn, queue, ready, count, missed>> BY <1>4 DEF ReadAll
  <2>3. events # <<>> /\ event.about # Listener BY <2>2 DEF IInv, Batch
  <2>4. p = event.about BY <2>1, <2>2, <2>3, AtEvent DEF IInv, Connections, Owns
  <2> QED BY <2>1, <2>2, <2>3, <2>4, Skipped
<1>5. CASE ReadEnd
  <2>1. pc = "read" BY <1>5 DEF ReadEnd
  <2>2. events # <<>> /\ event.about # Listener BY <2>1 DEF IInv, Batch
  <2> QED BY <1>5, <2>1, <2>2, Closed DEF ReadEnd
<1>6. CASE pc # "aborted" /\ \E p \in Peers : Connect(p) \/ Send(p) \/ HangUp(p)
  BY <1>6, ConnectKept, SendKept, HangUpKept
<1>7. CASE UNCHANGED vars
  <2>1. Typed' /\ Connections' BY <1>7 DEF IInv, Typed, Connections, vars
  <2>2. Batch' BY <1>7 DEF IInv, Batch, event, vars
  <2>3. Fresh' /\ Remembered' BY <1>7 DEF IInv, Fresh, Owns, Remembered, InBatch, vars
  <2> QED BY <2>1, <2>2, <2>3 DEF IInv
<1> QED
  BY <1>1, <1>2, <1>3, <1>4, <1>5, <1>6, <1>7, WaitKept, AcceptKept, AddKept, ReadKept, WriteKept, AbortKept DEF Next, main

----------------------------------------------------------------------------
\* However accepts, closes and peers interleave, no event is taken for one of another
\* connection.
THEOREM NoStaleEvent == Spec => []EventsFresh
<1>1. IInv => EventsFresh
  <2> SUFFICES ASSUME IInv, NEW n \in DOMAIN events, events[n].about # Listener, pc # "aborted"
               PROVE  Owns(events[n].about, events[n].fd)
    BY DEF EventsFresh
  <2>1. n \in 1..Len(events) BY LenProperties DEF IInv, Typed
  <2> QED BY <2>1 DEF IInv, Fresh
<1> QED BY Initially, Preserved, <1>1, PTL DEF Spec

\* Back in epoll_wait, whatever waits on a socket will be reported, although an edge is
\* reported once.
THEOREM NoEdgeLost == Spec => []NothingForgotten
<1>1. IInv => NothingForgotten
  <2> SUFFICES ASSUME IInv, pc = "wait"
               PROVE  /\ \A p \in Peers : conn[p].at = "open" /\ Readable(conn[p]) => p \in ready
                      /\ queue # <<>> => Listener \in ready \/ missed
    BY DEF NothingForgotten
  <2>1. Len(events) = 0 BY DEF IInv, Batch
  <2> QED BY <2>1 DEF IInv, Remembered, InBatch
<1> QED BY Initially, Preserved, <1>1, PTL DEF Spec
=============================================================================
