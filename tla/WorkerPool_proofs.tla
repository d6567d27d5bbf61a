-------------------------- MODULE WorkerPool_proofs --------------------------
(***************************************************************************)
(* Safety of the thread pool of the HTTP server, for every number of       *)
(* workers, size of the ring and number of connections, with threads that  *)
(* fail to start, and waits that end without a signal: sockets are neither *)
(* lost nor handed out twice, no worker sleeps on work that nobody else    *)
(* will do, and no thread outlives the context.                            *)
(***************************************************************************)
EXTENDS WorkerPool, FiniteSetTheorems, TLAPS

Starts  == {"start", "count", "write"}
Ends    == {"leave", "left", "done"}
WPlaces == {"none", "begin", "consume", "wait", "asleep", "taken", "serve"} \union Ends
MPlaces == {"none", "select", "accept", "produce", "wait", "asleep", "stopping",
            "join", "done"}

TypeOK ==
    /\ stop \in 0 .. 2 /\ num \in Int
    /\ owner \in {Nobody, Master} \union Worker
    /\ ring \in [0 .. QueueSize - 1 -> Nat]
    /\ tail \in 0 .. QueueSize /\ head \in Nat
    /\ tail <= head /\ head - tail <= QueueSize
    /\ spc \in Starts \union {"stopping", "returned"}
    /\ snum \in Int /\ started \in 0 .. NumThreads
    /\ mpc \in MPlaces /\ msock \in Nat
    /\ wpc \in [Worker -> WPlaces] /\ wnum \in [Worker -> Int]
    /\ client \in [Worker -> Nat]
    /\ accepted \in Nat /\ closed \subseteq 1 .. accepted
    /\ dropped \subseteq 1 .. accepted /\ failed \subseteq Worker

(* Who is between the two steps of a wait, or of the count at the end of a *)
(* thread, holds the mutex, and nobody else does; so what the test of the  *)
(* wait has found is still so.                                             *)
MutexOK ==
    /\ \A w \in Worker : owner = w <=> wpc[w] \in {"wait", "left"}
    /\ owner = Master <=> mpc = "wait"
    /\ \A w \in Worker : wpc[w] = "wait" => head = tail
    /\ mpc = "wait" => Full

(* Stopping comes after starting, for the caller and for the master.       *)
PhasesOK ==
    /\ stop = 0 <=> spc \in Starts
    /\ mpc \in {"stopping", "join", "done"} => stop # 0
    /\ \A w \in Worker : w > started => wpc[w] = "none"

(* num_threads is what it says while no worker fails: it is counted up by  *)
(* two steps that no end of a thread comes between.                        *)
Alive == {w \in Worker : wpc[w] \notin {"none", "done"}}
Uncounted == IF spc \in {"count", "write"} THEN 1 ELSE 0
CountOK ==
    failed = {} =>
        /\ spc \in Starts => \A w \in Worker : wpc[w] \notin Ends
        /\ num = Cardinality(Alive) - Uncounted
        /\ spc = "write" => snum = num
        /\ \A w \in Worker : wpc[w] = "left" => wnum[w] = num
        /\ stop = 2 => Alive = {}

(* While the server runs, the workers awake at the queue are enough.       *)
Consumers == {w \in Worker : wpc[w] = "consume"}
AwakeOK ==
    /\ stop = 0 /\ Asleep # {} => head - tail <= Cardinality(Consumers)
    /\ mpc = "asleep" => Full

(* Where the sockets are.                                                  *)
Slot(k) == k % QueueSize
At      == tail .. head - 1
Queued(s) == \E k \in At : ring[Slot(k)] = s
Held(s)   == \E w \in Worker : client[w] = s
Over      == closed \union dropped

HoldersOK ==
    /\ msock \in {NoSock, accepted}
    /\ msock # NoSock <=> mpc \in {"produce", "wait", "asleep"}
    /\ \A w \in Worker : client[w] # NoSock => wpc[w] \in {"taken", "serve"} \union Ends
    /\ \A w \in Worker : wpc[w] = "serve" => client[w] # NoSock
    /\ \A w \in Worker : wpc[w] = "taken" => client[w] # NoSock \/ stop # 0

OrderOK ==
    /\ \A k, l \in At : k < l => ring[Slot(k)] < ring[Slot(l)]
    /\ \A k \in At : ring[Slot(k)] \in 1 .. accepted
    /\ \A w \in Worker : client[w] \in 0 .. accepted
    /\ \A w \in Worker : \A k \in At : client[w] < ring[Slot(k)]

PlacesOK ==
    /\ \A s \in 1 .. accepted : Queued(s) \/ Held(s) \/ s \in Over \/ s = msock
    /\ \A k \in At : ring[Slot(k)] \notin Over \union {msock}
    /\ \A w, v \in Worker : client[w] = client[v] /\ client[w] # NoSock => w = v
    /\ \A w \in Worker : client[w] # NoSock => client[w] \notin Over \union {msock}
    /\ closed \cap dropped = {} /\ msock \notin Over

IInv == /\ TypeOK /\ MutexOK /\ PhasesOK /\ CountOK /\ AwakeOK
        /\ HoldersOK /\ OrderOK /\ PlacesOK
-----------------------------------------------------------------------------
(* Places of the ring: division with a remainder, and what moving both     *)
(* pointers back by the size of the ring leaves alone.                     *)
LEMMA DivMod ==
    ASSUME NEW q \in Nat \ {0}, NEW k \in Nat
    PROVE  k = (q * (k \div q)) + (k % q) /\ k \div q \in Nat /\ k % q \in 0 .. q - 1
OBVIOUS

LEMMA Multiples ==
    ASSUME NEW q \in Nat \ {0}, NEW d \in Int, NEW e \in Int, d > e
    PROVE  q * d >= (q * e) + q
<1>1. q * d = (q * e) + (q * (d - e))
  OBVIOUS
<1>2. q * (d - e) = q + (q * ((d - e) - 1))
  OBVIOUS
<1>3. q * ((d - e) - 1) \in Nat /\ q * e \in Int
  OBVIOUS
<1> QED
  BY <1>1, <1>2, <1>3

LEMMA Remainder ==
    ASSUME NEW q \in Nat \ {0}, NEW k \in Nat, NEW d \in Nat, NEW r \in 0 .. q - 1,
           k = (q * d) + r
    PROVE  k % q = r
<1>1. k = (q * (k \div q)) + (k % q) /\ k \div q \in Nat /\ k % q \in 0 .. q - 1
  BY DivMod
<1>2. q * (k \div q) \in Nat /\ q * d \in Nat
  BY <1>1
<1>3. ~(k \div q > d) /\ ~(k \div q < d)
  BY <1>1, <1>2, Multiples
<1> QED
  BY <1>1, <1>2, <1>3

LEMMA Slots ==
    /\ \A k \in Nat : Slot(k) \in 0 .. QueueSize - 1
    /\ \A k \in Nat : Slot(k + QueueSize) = Slot(k)
    /\ \A k, l \in Nat : k < l /\ l - k < QueueSize => Slot(k) # Slot(l)
<1> USE SizeAssumption DEF Slot
<1>1. \A k \in Nat : Slot(k) \in 0 .. QueueSize - 1
  BY DivMod
<1>2. ASSUME NEW k \in Nat PROVE Slot(k + QueueSize) = Slot(k)
  <2>1. k = (QueueSize * (k \div QueueSize)) + (k % QueueSize) /\ k \div QueueSize \in Nat
        /\ k % QueueSize \in 0 .. QueueSize - 1
    BY DivMod
  <2>2. k + QueueSize = (QueueSize * ((k \div QueueSize) + 1)) + (k % QueueSize)
    BY <2>1
  <2>3. k + QueueSize \in Nat /\ (k \div QueueSize) + 1 \in Nat
    BY <2>1
  <2>4. (k + QueueSize) % QueueSize = k % QueueSize
    BY <2>1, <2>2, <2>3, Remainder
  <2> QED
    BY <2>4
<1>3. ASSUME NEW k \in Nat, NEW l \in Nat, k < l, l - k < QueueSize, Slot(k) = Slot(l)
      PROVE  FALSE
  <2> DEFINE d == k \div QueueSize
             e == l \div QueueSize
  <2>1. k = (QueueSize * d) + (k % QueueSize) /\ d \in Nat /\ k % QueueSize \in Nat
        /\ l = (QueueSize * e) + (l % QueueSize) /\ e \in Nat /\ l % QueueSize \in Nat
    BY DivMod
  <2>2. QueueSize * d \in Nat /\ QueueSize * e \in Nat
    BY <2>1
  <2> HIDE DEF d, e
  <2>3. e > d => QueueSize * e >= (QueueSize * d) + QueueSize
    BY <2>1, Multiples
  <2>4. d > e => QueueSize * d >= (QueueSize * e) + QueueSize
    BY <2>1, Multiples
  <2> QED
    BY <1>3, <2>1, <2>2, <2>3, <2>4
<1> QED
  BY <1>1, <1>2, <1>3
-----------------------------------------------------------------------------
LEMMA InitType == Init => TypeOK /\ MutexOK /\ PhasesOK /\ AwakeOK /\ HoldersOK
<1> SUFFICES ASSUME Init PROVE TypeOK /\ MutexOK /\ PhasesOK /\ AwakeOK /\ HoldersOK
  OBVIOUS
<1> USE SizeAssumption DEF Init, Worker, Nobody, Master, NoSock
<1>1. TypeOK
  BY DEF TypeOK, WPlaces, MPlaces, Starts
<1>2. MutexOK
  BY DEF MutexOK
<1>3. PhasesOK
  BY DEF PhasesOK, Starts
<1>4. AwakeOK
  BY DEF AwakeOK, Asleep
<1>5. HoldersOK
  BY DEF HoldersOK, Ends
<1> QED
  BY <1>1, <1>2, <1>3, <1>4, <1>5

(* A signal moves at most one sleeping worker, and one if any sleeps.      *)
LEMMA Signalled ==
    ASSUME TypeOK, SignalFull
    PROVE  \/ Asleep = {} /\ UNCHANGED wpc
           \/ \E w \in Asleep : /\ wpc' = [wpc EXCEPT ![w] = "consume"]
                                /\ wpc[w] = "asleep" /\ w \in Worker
BY DEF SignalFull, SignalAny, Asleep

(* The two steps that move the queue.                                      *)
LEMMA Produces ==
    ASSUME TypeOK, Produce
    PROVE  /\ mpc = "produce" /\ owner = Nobody /\ mpc' = "select" /\ msock' = NoSock
           /\ UNCHANGED <<stop, num, owner, tail, starter, wnum, client, accepted,
                          closed, failed>>
           /\ \/ /\ Full /\ stop # 0 /\ dropped' = dropped \union {msock}
                 /\ UNCHANGED <<ring, head>>
              \/ /\ ~Full /\ head' = head + 1 /\ UNCHANGED dropped
                 /\ ring' \in [0 .. QueueSize - 1 -> Nat]
                 /\ ring'[Slot(head)] = msock
                 /\ \A i \in 0 .. QueueSize - 1 : i # Slot(head) => ring'[i] = ring[i]
           /\ \/ Asleep = {} /\ UNCHANGED wpc
              \/ \E w \in Asleep : /\ wpc' = [wpc EXCEPT ![w] = "consume"]
                                   /\ wpc[w] = "asleep" /\ w \in Worker
<1>1. /\ \/ Asleep = {} /\ UNCHANGED wpc
         \/ \E w \in Asleep : /\ wpc' = [wpc EXCEPT ![w] = "consume"]
                              /\ wpc[w] = "asleep" /\ w \in Worker
  BY Signalled DEF Produce
<1>2. CASE Full
  BY <1>1, <1>2 DEF Produce
<1>3. CASE ~Full
  <2>1. Slot(head) \in 0 .. QueueSize - 1
    BY Slots DEF TypeOK
  <2>2. ring' = [ring EXCEPT ![Slot(head)] = msock] /\ head' = head + 1 /\ UNCHANGED dropped
    BY <1>3 DEF Produce, Slot
  <2>3. /\ ring' \in [0 .. QueueSize - 1 -> Nat] /\ ring'[Slot(head)] = msock
        /\ \A i \in 0 .. QueueSize - 1 : i # Slot(head) => ring'[i] = ring[i]
    BY <2>1, <2>2 DEF TypeOK
  <2> QED
    BY <1>1, <1>3, <2>2, <2>3 DEF Produce
<1> QED
  BY <1>2, <1>3

LEMMA Consumes ==
    ASSUME TypeOK, NEW w \in Worker, Consume(w)
    PROVE  /\ wpc[w] = "consume" /\ owner = Nobody
           /\ wpc' = [wpc EXCEPT ![w] = "taken"]
           /\ mpc' = IF mpc = "asleep" THEN "produce" ELSE mpc
           /\ UNCHANGED <<stop, num, owner, ring, starter, msock, wnum, ghosts>>
           /\ \/ stop # 0 /\ head = tail /\ UNCHANGED <<client, head, tail>>
              \/ /\ tail < head
                 /\ client' = [client EXCEPT ![w] = ring[Slot(tail)]]
                 /\ \E back \in {0, QueueSize} : tail' = tail + 1 - back
                                              /\ head' = head - back
                 /\ tail' \in 0 .. QueueSize
<1>1. CASE head > tail
  <2>1. client' = [client EXCEPT ![w] = ring[Slot(tail)]] /\ Wrap
    BY <1>1 DEF Consume, Oldest, Slot
  <2>2. /\ \E back \in {0, QueueSize} : tail' = tail + 1 - back /\ head' = head - back
        /\ tail' \in 0 .. QueueSize
    BY <2>1, SizeAssumption DEF Wrap, TypeOK
  <2> QED
    BY <1>1, <2>1, <2>2 DEF Consume, SignalEmpty, TypeOK
<1>2. CASE ~(head > tail)
  BY <1>2 DEF Consume, SignalEmpty, TypeOK, Empty
<1> QED
  BY <1>1, <1>2

LEMMA NextType == TypeOK /\ HoldersOK /\ OrderOK /\ [Next]_vars => TypeOK'
<1> SUFFICES ASSUME TypeOK, HoldersOK, OrderOK, [Next]_vars PROVE TypeOK'
  OBVIOUS
<1> USE SizeAssumption DEF TypeOK, Nobody, Master, NoSock, queue, starter, master,
        workers, ghosts
<1>1. ASSUME StartWorker PROVE TypeOK'
  <2>1. wpc' \in [Worker -> WPlaces]
    BY <1>1 DEF StartWorker, WPlaces
  <2>2. started' \in 0 .. NumThreads /\ spc' \in Starts
    BY <1>1 DEF StartWorker, Starts
  <2> QED
    BY <1>1, <2>1, <2>2 DEF StartWorker
<1>2. ASSUME ReadNum \/ WriteNum PROVE TypeOK'
  <2>1. snum' \in Int /\ num' \in Int /\ spc' \in Starts
    BY <1>2 DEF ReadNum, WriteNum, OneMore, Starts
  <2> QED
    BY <1>2, <2>1 DEF ReadNum, WriteNum, OneMore
<1>3. ASSUME StopCalled \/ StopReturns PROVE TypeOK'
  <2>1. stop' \in 0 .. 2 /\ spc' \in {"stopping", "returned"}
    BY <1>3 DEF StopCalled, StopReturns
  <2> QED
    BY <1>3, <2>1 DEF StopCalled, StopReturns
<1>12. ASSUME Select PROVE TypeOK'
  BY <1>12 DEF Select, MPlaces
<1>13. ASSUME Accept PROVE TypeOK'
  <2>1. mpc' \in MPlaces /\ msock' \in Nat
    BY <1>13 DEF Accept, MPlaces
  <2>2. /\ accepted' \in Nat /\ accepted <= accepted'
        /\ closed' \subseteq closed \union {accepted'}
        /\ closed' \subseteq closed \/ accepted' = accepted + 1
    BY <1>13 DEF Accept
  <2>3. dropped' \subseteq 1 .. accepted' /\ closed' \subseteq 1 .. accepted'
    BY <1>13, <2>2 DEF Accept
  <2> QED
    BY <1>13, <2>1, <2>2, <2>3 DEF Accept
<1>4. ASSUME ProduceWait \/ MasterSleeps \/ Join PROVE TypeOK'
  <2>1. /\ stop' \in 0 .. 2 /\ owner' \in {Nobody, Master} /\ mpc' \in MPlaces
        /\ UNCHANGED <<num, queue, starter, msock, workers, ghosts>>
    BY <1>4 DEF ProduceWait, MasterSleeps, Join, MPlaces
  <2> QED
    BY <2>1
<1>5. ASSUME Broadcast PROVE TypeOK'
  <2>1. wpc' \in [Worker -> WPlaces] /\ mpc' \in MPlaces
    BY <1>5 DEF Broadcast, WPlaces, MPlaces
  <2> QED
    BY <1>5, <2>1 DEF Broadcast
<1>7. ASSUME NEW w \in Worker, Begin(w) \/ Return(w) \/ Wakeup(w) PROVE TypeOK'
  <2>1. wpc' \in [Worker -> WPlaces]
    BY <1>7 DEF Begin, Return, Wakeup, WPlaces, Ends
  <2> QED
    BY <1>7, <2>1 DEF Begin, Return, Wakeup
<1>8. ASSUME NEW w \in Worker, ConsumeWait(w) \/ WorkerSleeps(w) PROVE TypeOK'
  <2>1. wpc' \in [Worker -> WPlaces]
    BY <1>8 DEF ConsumeWait, WorkerSleeps, WPlaces
  <2> QED
    BY <1>8, <2>1 DEF ConsumeWait, WorkerSleeps
<1>10. ASSUME NEW w \in Worker, Leave(w) \/ Left(w) PROVE TypeOK'
  <2>1. CASE Leave(w)
    <3>1. /\ wpc' = [wpc EXCEPT ![w] = "left"] /\ wnum' = [wnum EXCEPT ![w] = num]
          /\ owner' = w /\ UNCHANGED <<stop, num, queue, starter, master, client, ghosts>>
      BY <2>1 DEF Leave
    <3>2. /\ wpc' \in [Worker -> WPlaces] /\ wnum' \in [Worker -> Int]
          /\ owner' \in {Nobody, Master} \union Worker
      BY <3>1 DEF WPlaces, Ends
    <3>3. UNCHANGED <<stop, num, ring, tail, head, spc, snum, started, mpc, msock, client,
                      accepted, closed, dropped, failed>>
      BY <3>1
    <3> QED
      BY <3>2, <3>3
  <2>2. CASE Left(w)
    <3>1. wpc' \in [Worker -> WPlaces] /\ num' \in Int
      BY <2>2 DEF Left, WPlaces, Ends
    <3> QED
      BY <2>2, <3>1 DEF Left
  <2> QED
    BY <1>10, <2>1, <2>2
<1>6. ASSUME Produce PROVE TypeOK'
  <2>1. msock \in 1 .. accepted
    BY <1>6, Produces DEF HoldersOK
  <2>2. /\ UNCHANGED <<stop, num, owner, tail, starter, wnum, client, accepted,
                        closed, failed>>
        /\ mpc' = "select" /\ msock' = NoSock
    BY <1>6, Produces
  <2>3. wpc' \in [Worker -> WPlaces]
    BY <1>6, Produces DEF WPlaces
  <2>4. CASE Full
    <3>1. dropped' = dropped \union {msock} /\ UNCHANGED <<ring, head>>
      BY <1>6, <2>4, Produces
    <3> QED
      BY <2>1, <2>2, <2>3, <3>1 DEF MPlaces
  <2>5. CASE ~Full
    <3>1. /\ head' = head + 1 /\ UNCHANGED dropped
          /\ ring' \in [0 .. QueueSize - 1 -> Nat]
      BY <1>6, <2>5, Produces
    <3> QED
      BY <2>2, <2>3, <2>5, <3>1 DEF MPlaces, Full
  <2> QED
    BY <2>4, <2>5
<1>9. ASSUME NEW w \in Worker, Consume(w) PROVE TypeOK'
  <2>1. /\ wpc' \in [Worker -> WPlaces] /\ mpc' \in MPlaces
        /\ UNCHANGED <<stop, num, owner, ring, starter, msock, wnum, ghosts>>
    BY <1>9, Consumes DEF WPlaces, MPlaces
  <2>2. /\ tail' \in 0 .. QueueSize /\ head' \in Nat
        /\ tail' <= head' /\ head' - tail' <= QueueSize
    <3>1. CASE UNCHANGED <<head, tail>>
      BY <3>1
    <3>2. ASSUME tail < head, NEW back \in {0, QueueSize}, tail' = tail + 1 - back,
                 head' = head - back, tail' \in 0 .. QueueSize
          PROVE  /\ tail' \in 0 .. QueueSize /\ head' \in Nat
                 /\ tail' <= head' /\ head' - tail' <= QueueSize
      BY <3>2
    <3> QED
      BY <1>9, <3>1, <3>2, Consumes
  <2>3. client' \in [Worker -> Nat]
    <3>1. Slot(tail) \in 0 .. QueueSize - 1
      <4>1. tail \in Nat
        OBVIOUS
      <4> QED
        BY <4>1, Slots
    <3>2. client' = client \/ client' = [client EXCEPT ![w] = ring[Slot(tail)]]
      BY <1>9, Consumes
    <3> QED
      BY <3>1, <3>2
  <2> QED
    BY <2>1, <2>2, <2>3
<1>14. ASSUME NEW w \in Worker, Serve(w) PROVE TypeOK'
  <2>1. client[w] \in 1 .. accepted
    BY <1>14 DEF Serve, HoldersOK, OrderOK
  <2>2. wpc' \in [Worker -> WPlaces] /\ client' \in [Worker -> Nat]
    BY <1>14 DEF Serve, WPlaces
  <2> QED
    BY <1>14, <2>1, <2>2 DEF Serve
<1>11. CASE UNCHANGED vars
  BY <1>11 DEF vars
<1> QED
  BY <1>1, <1>2, <1>3, <1>4, <1>5, <1>7, <1>8, <1>10, <1>11, <1>12, <1>13,
     <1>6, <1>9, <1>14 DEF Next, Starting, MasterStep, WorkerStep

(* Where one worker goes, the others staying where they are, and what they *)
(* all know of the constants.                                              *)
Goes(w, q) == \A v \in Worker : wpc'[v] = IF v = w THEN q ELSE wpc[v]

LEMMA Plain ==
    /\ Worker = 1 .. NumThreads /\ NumThreads \in Nat /\ QueueSize \in Nat \ {0}
    /\ Nobody \notin Worker /\ Master \notin Worker /\ Nobody # Master
    /\ NoSock = 0 /\ IsFiniteSet(Worker)
BY SizeAssumption, FS_Interval DEF Nobody, Master, Worker, NoSock

LEMMA Going ==
    ASSUME TypeOK, NEW w \in Worker
    PROVE  /\ Begin(w) => Goes(w, "consume") \/ (MayFail /\ Goes(w, "leave"))
           /\ ConsumeWait(w) => Goes(w, "wait")
           /\ WorkerSleeps(w) => Goes(w, "asleep")
           /\ Consume(w) => Goes(w, "taken")
           /\ Return(w) => Goes(w, IF stop = 0 THEN "serve" ELSE "leave")
           /\ Serve(w) \/ Wakeup(w) => Goes(w, "consume")
           /\ Leave(w) => Goes(w, "left")
           /\ Left(w) => Goes(w, "done")
<1>1. ASSUME NEW q, wpc' = [wpc EXCEPT ![w] = q] PROVE Goes(w, q)
  BY <1>1 DEF Goes, TypeOK
<1>2. /\ Begin(w) => Goes(w, "consume") \/ (MayFail /\ Goes(w, "leave"))
      /\ ConsumeWait(w) => Goes(w, "wait")
      /\ WorkerSleeps(w) => Goes(w, "asleep")
  BY <1>1 DEF Begin, ConsumeWait, WorkerSleeps
<1>3. /\ Consume(w) => Goes(w, "taken")
      /\ Return(w) => Goes(w, IF stop = 0 THEN "serve" ELSE "leave")
      /\ Serve(w) \/ Wakeup(w) => Goes(w, "consume")
  BY <1>1 DEF Consume, Return, Serve, Wakeup
<1>4. (Leave(w) => Goes(w, "left")) /\ (Left(w) => Goes(w, "done"))
  BY <1>1 DEF Leave, Left
<1> QED
  BY <1>2, <1>3, <1>4

LEMMA OthersGoing ==
    ASSUME TypeOK, PhasesOK
    PROVE  /\ StartWorker => \/ wpc' = wpc /\ spc' = spc
                             \/ /\ started + 1 \in Worker /\ wpc[started + 1] = "none"
                                /\ Goes(started + 1, "begin")
           /\ Produce => \/ Asleep = {} /\ wpc' = wpc
                         \/ \E w \in Worker : wpc[w] = "asleep" /\ Goes(w, "consume")
           /\ Broadcast => \A w \in Worker : wpc'[w] = IF wpc[w] = "asleep" THEN "consume"
                                                       ELSE wpc[w]
<1>1. ASSUME StartWorker
      PROVE  \/ wpc' = wpc /\ spc' = spc
             \/ /\ started + 1 \in Worker /\ wpc[started + 1] = "none"
                /\ Goes(started + 1, "begin")
  <2>1. started + 1 \in Worker /\ started + 1 > started
    BY <1>1, Plain DEF StartWorker, TypeOK
  <2> QED
    BY <1>1, <2>1 DEF StartWorker, Goes, TypeOK, PhasesOK
<1>2. ASSUME Produce
      PROVE  \/ Asleep = {} /\ wpc' = wpc
             \/ \E w \in Worker : wpc[w] = "asleep" /\ Goes(w, "consume")
  BY <1>2, Produces DEF Goes, TypeOK
<1>3. ASSUME Broadcast, NEW w \in Worker
      PROVE  wpc'[w] = IF wpc[w] = "asleep" THEN "consume" ELSE wpc[w]
  BY <1>3 DEF Broadcast, Asleep
<1> QED
  BY <1>1, <1>2, <1>3

LEMMA NextPhases == TypeOK /\ PhasesOK /\ [Next]_vars => PhasesOK'
<1> SUFFICES ASSUME TypeOK, PhasesOK, [Next]_vars PROVE PhasesOK'
  OBVIOUS
<1> USE DEF Starts
<1>1. (stop = 0 <=> spc \in Starts)' /\ (stop # 0 => stop' # 0)
  <2>1. CASE UNCHANGED <<stop, spc>>
    BY <2>1 DEF PhasesOK
  <2>2. CASE Starting \/ StopCalled \/ StopReturns
    BY <2>2 DEF Starting, StartWorker, ReadNum, WriteNum, StopCalled, StopReturns, PhasesOK
  <2>3. CASE Join
    BY <2>3 DEF Join, PhasesOK, starter
  <2>4. CASE MasterStep /\ ~Join
    BY <2>1, <2>4 DEF MasterStep, Select, Accept, ProduceWait, MasterSleeps, Produce,
                      Broadcast, starter
  <2>5. CASE \E w \in Worker : WorkerStep(w) \/ Wakeup(w)
    BY <2>1, <2>5 DEF WorkerStep, Begin, ConsumeWait, WorkerSleeps, Consume, Return, Serve,
                      Leave, Left, Wakeup, starter
  <2> QED
    BY <2>1, <2>2, <2>3, <2>4, <2>5 DEF Next, vars, starter
<1>2. (mpc \in {"stopping", "join", "done"} => stop # 0)'
  <2>1. CASE UNCHANGED mpc
    BY <1>1, <2>1 DEF PhasesOK
  <2>2. CASE Starting \/ StopCalled \/ StopReturns
    BY <2>1, <2>2 DEF Starting, StartWorker, ReadNum, WriteNum, StopCalled, StopReturns, master
  <2>3. CASE MasterStep
    BY <1>1, <2>3 DEF MasterStep, Select, Accept, ProduceWait, MasterSleeps, Produce,
                      Broadcast, Join, PhasesOK
  <2>4. CASE \E w \in Worker : WorkerStep(w) \/ Wakeup(w)
    BY <1>1, <2>4 DEF WorkerStep, Begin, ConsumeWait, WorkerSleeps, Consume, Return, Serve,
                      Leave, Left, Wakeup, master, SignalEmpty, PhasesOK
  <2> QED
    BY <2>1, <2>2, <2>3, <2>4 DEF Next, vars, master
<1>3. ASSUME NEW w \in Worker, w > started' PROVE wpc'[w] = "none"
  <2>1. ASSUME started' = started, \A v \in Worker : wpc[v] = "none" => wpc'[v] = "none"
        PROVE  wpc'[w] = "none"
    BY <1>3, <2>1 DEF PhasesOK
  <2>2. CASE StartWorker
    <3>1. started' = started + 1 /\ w > started /\ w # started + 1
      BY <1>3, <2>2, Plain DEF StartWorker, TypeOK
    <3> QED
      BY <2>2, <3>1, OthersGoing DEF Goes, PhasesOK
  <2>3. CASE ReadNum \/ WriteNum \/ StopCalled \/ StopReturns \/ UNCHANGED vars
    BY <2>1, <2>3 DEF ReadNum, WriteNum, StopCalled, StopReturns, vars, starter, workers
  <2>4. CASE MasterStep /\ ~Produce /\ ~Broadcast
    BY <2>1, <2>4 DEF MasterStep, Select, Accept, ProduceWait, MasterSleeps, Join,
                      starter, workers
  <2>5. CASE Produce \/ Broadcast
    <3>1. started' = started
      BY <2>5 DEF Produce, Broadcast, starter
    <3> QED
      BY <2>1, <2>5, <3>1, OthersGoing DEF Goes
  <2>6. ASSUME NEW v \in Worker, WorkerStep(v) \/ Wakeup(v) PROVE wpc'[w] = "none"
    <3>1. started' = started /\ wpc[v] # "none"
      BY <2>6 DEF WorkerStep, Begin, ConsumeWait, WorkerSleeps, Consume, Return, Serve,
                  Leave, Left, Wakeup, starter
    <3>2. \A u \in Worker : u # v => wpc'[u] = wpc[u]
      BY <2>6, Going DEF WorkerStep, Goes
    <3> QED
      BY <2>1, <3>1, <3>2
  <2> QED
    BY <2>2, <2>3, <2>4, <2>5, <2>6 DEF Next, Starting
<1> QED
  BY <1>1, <1>2, <1>3 DEF PhasesOK

LEMMA NextMutex == TypeOK /\ PhasesOK /\ MutexOK /\ [Next]_vars => MutexOK'
<1> SUFFICES ASSUME TypeOK, PhasesOK, MutexOK, [Next]_vars PROVE MutexOK'
  OBVIOUS
<1>0. tail \in Nat /\ head \in Nat /\ QueueSize \in Nat
  BY Plain DEF TypeOK
<1> USE DEF queue, starter, master, workers, ghosts
(* A step of one worker, or of none, that leaves the rest alone.           *)
<1>1. ASSUME UNCHANGED <<owner, queue, mpc>>,
             \A v \in Worker : wpc'[v] # wpc[v] => /\ wpc[v] \notin {"wait", "left"}
                                                   /\ wpc'[v] \notin {"wait", "left"}
      PROVE  MutexOK'
  BY <1>1 DEF MutexOK, Full
<1>2. CASE Starting \/ StopCalled \/ StopReturns \/ UNCHANGED vars
  <2>1. UNCHANGED <<owner, queue, mpc>>
    BY <1>2 DEF Starting, StartWorker, ReadNum, WriteNum, StopCalled, StopReturns, vars
  <2>2. wpc' = wpc \/ StartWorker
    BY <1>2 DEF Starting, ReadNum, WriteNum, StopCalled, StopReturns, vars
  <2> QED
    BY <1>1, <2>1, <2>2, OthersGoing DEF Goes
<1>3. CASE Select \/ Accept \/ Join
  BY <1>3 DEF Select, Accept, Join, MutexOK, Full
<1>4. CASE ProduceWait \/ MasterSleeps
  BY <1>4, Plain DEF ProduceWait, MasterSleeps, MutexOK, Full
<1>5. CASE Broadcast
  <2>1. UNCHANGED <<owner, queue>> /\ mpc' # "wait" /\ mpc # "wait"
    BY <1>5 DEF Broadcast
  <2> QED
    BY <1>5, <2>1, OthersGoing DEF MutexOK
<1>6. CASE Produce
  <2>1. owner = Nobody /\ owner' = Nobody /\ mpc' = "select"
    BY <1>6, Produces
  <2>2. \A v \in Worker : wpc'[v] \notin {"wait", "left"}
    BY <1>6, <2>1, OthersGoing, Plain DEF Goes, MutexOK
  <2> QED
    BY <2>1, <2>2, Plain DEF MutexOK
<1>7. ASSUME NEW w \in Worker, Begin(w) \/ Return(w) \/ Serve(w) \/ Wakeup(w) PROVE MutexOK'
  <2>1. UNCHANGED <<owner, queue, mpc>> /\ wpc[w] \notin {"wait", "left"}
    BY <1>7 DEF Begin, Return, Serve, Wakeup
  <2>2. \E q : Goes(w, q) /\ q \notin {"wait", "left"}
    BY <1>7, Going
  <2> QED
    BY <1>1, <2>1, <2>2 DEF Goes
<1>8. ASSUME NEW w \in Worker, ConsumeWait(w) \/ Leave(w) PROVE MutexOK'
  <2>1. /\ owner = Nobody /\ owner' = w /\ UNCHANGED <<queue, mpc>>
        /\ ConsumeWait(w) => head = tail
    BY <1>8 DEF ConsumeWait, Leave, Empty
  <2>2. \/ Goes(w, "wait") /\ head = tail
        \/ Goes(w, "left")
    BY <1>8, <2>1, Going
  <2>3. \A v \in Worker : wpc[v] \notin {"wait", "left"}
    BY <2>1, Plain DEF MutexOK
  <2> QED
    BY <2>1, <2>2, <2>3, Plain DEF MutexOK, Goes
<1>9. ASSUME NEW w \in Worker, WorkerSleeps(w) \/ Left(w) PROVE MutexOK'
  <2>1. /\ owner' = Nobody /\ UNCHANGED <<queue, mpc>> /\ wpc[w] \in {"wait", "left"}
    BY <1>9 DEF WorkerSleeps, Left
  <2>2. \E q : Goes(w, q) /\ q \notin {"wait", "left"}
    BY <1>9, Going
  <2>3. \A v \in Worker : v # w => wpc[v] \notin {"wait", "left"}
    BY <2>1 DEF MutexOK
  <2> QED
    BY <2>1, <2>2, <2>3, Plain DEF MutexOK, Goes
<1>10. ASSUME NEW w \in Worker, Consume(w) PROVE MutexOK'
  <2>1. owner = Nobody /\ owner' = Nobody /\ mpc' # "wait" /\ Goes(w, "taken")
    BY <1>10, Consumes, Going, Plain DEF MutexOK
  <2>2. \A v \in Worker : wpc'[v] \notin {"wait", "left"}
    BY <2>1, Plain DEF Goes, MutexOK
  <2> QED
    BY <2>1, <2>2, Plain DEF MutexOK
<1> QED
  BY <1>2, <1>3, <1>4, <1>5, <1>6, <1>7, <1>8, <1>9, <1>10 DEF Next, MasterStep, WorkerStep
-----------------------------------------------------------------------------
(* num_threads.                                                            *)
LEMMA InitCount == Init => CountOK
<1> SUFFICES ASSUME Init PROVE CountOK
  OBVIOUS
<1>1. Alive = {} /\ spc = "start" /\ num = 0 /\ stop = 0 /\ \A w \in Worker : wpc[w] = "none"
  BY DEF Init, Alive
<1> QED
  BY <1>1, FS_EmptySet DEF CountOK, Uncounted, Ends

LEMMA AliveMoves ==
    ASSUME TypeOK, NEW w \in Worker, NEW q, Goes(w, q)
    PROVE  /\ Cardinality(Alive) \in Nat
           /\ wpc[w] \notin {"none", "done"} /\ q \notin {"none", "done"} => Alive' = Alive
           /\ wpc[w] = "none" /\ q \notin {"none", "done"} =>
                 Cardinality(Alive') = Cardinality(Alive) + 1
           /\ wpc[w] \notin {"none", "done"} /\ q = "done" =>
                 Cardinality(Alive') = Cardinality(Alive) - 1
<1>1. IsFiniteSet(Alive) /\ Cardinality(Alive) \in Nat
  BY Plain, FS_Subset, FS_CardinalityType DEF Alive
<1>2. wpc[w] \notin {"none", "done"} /\ q \notin {"none", "done"} => Alive' = Alive
  BY DEF Goes, Alive
<1>3. wpc[w] = "none" /\ q \notin {"none", "done"} => Alive' = Alive \union {w} /\ w \notin Alive
  BY DEF Goes, Alive
<1>4. wpc[w] \notin {"none", "done"} /\ q = "done" => Alive' = Alive \ {w} /\ w \in Alive
  BY DEF Goes, Alive
<1> QED
  BY <1>1, <1>2, <1>3, <1>4, FS_AddElement, FS_RemoveElement

LEMMA NextCount == TypeOK /\ MutexOK /\ PhasesOK /\ CountOK /\ [Next]_vars => CountOK'
<1> SUFFICES ASSUME TypeOK, MutexOK, PhasesOK, CountOK, [Next]_vars,
                    failed' = {}
             PROVE  /\ spc' \in Starts => \A w \in Worker : wpc'[w] \notin Ends
                    /\ num' = Cardinality(Alive') - Uncounted'
                    /\ spc' = "write" => snum' = num'
                    /\ \A w \in Worker : wpc'[w] = "left" => wnum'[w] = num'
                    /\ stop' = 2 => Alive' = {}
  BY DEF CountOK
<1> USE DEF queue, starter, master, workers, ghosts, Starts, Ends
<1>0. failed = {} /\ PhasesOK'
  <2>1. failed \subseteq failed'
    BY DEF Next, Starting, StartWorker, ReadNum, WriteNum, StopCalled, StopReturns,
           MasterStep, Select, Accept, ProduceWait, MasterSleeps, Produce, Broadcast, Join,
           WorkerStep, Begin, ConsumeWait, WorkerSleeps, Consume, Return, Serve, Leave, Left,
           Wakeup, vars
  <2> QED
    BY <2>1, NextPhases
<1>c. /\ spc \in Starts => \A w \in Worker : wpc[w] \notin Ends
      /\ num = Cardinality(Alive) - Uncounted
      /\ spc = "write" => snum = num
      /\ \A w \in Worker : wpc[w] = "left" => wnum[w] = num
      /\ stop = 2 => Alive = {}
  BY <1>0 DEF CountOK
(* A step that changes neither the count nor who is alive.                 *)
<1>1. ASSUME UNCHANGED <<num, spc, snum, wnum, stop>>, Alive' = Alive,
             \A v \in Worker : wpc'[v] = "left" => wpc[v] = "left",
             spc \in Starts => \A v \in Worker : wpc'[v] \in Ends => wpc[v] \in Ends
      PROVE  CountOK'
  BY <1>0, <1>1, <1>c DEF CountOK, Uncounted
<1>2. CASE StartWorker
  <2>1. /\ spc = "start" /\ UNCHANGED <<num, wnum, stop>> /\ stop = 0
    BY <1>2 DEF StartWorker, PhasesOK
  <2>2. CASE spc' = spc /\ wpc' = wpc
    BY <1>2, <1>1, <2>2 DEF StartWorker, Alive, CountOK
  <2>3. CASE spc' = "count"
    <3>1. wpc[started + 1] = "none" /\ Goes(started + 1, "begin") /\ started + 1 \in Worker
      BY <1>2, <2>1, <2>3, OthersGoing
    <3> QED
      BY <1>0, <1>c, <2>1, <2>3, <3>1, AliveMoves DEF CountOK, Uncounted, Goes
  <2> QED
    BY <1>2, <2>2, <2>3 DEF StartWorker
<1>3. CASE ReadNum
  BY <1>c, <1>3 DEF ReadNum, CountOK, Uncounted, Alive
<1>4. CASE WriteNum
  <2>1. /\ spc = "write" /\ spc' = "start" /\ num' = snum + 1 /\ Alive' = Alive
        /\ UNCHANGED <<stop, wpc, wnum>> /\ stop = 0
    BY <1>4 DEF WriteNum, OneMore, Alive, PhasesOK
  <2>2. Uncounted = 1 /\ Uncounted' = 0 /\ num = Cardinality(Alive) - 1 /\ snum = num
    BY <1>c, <2>1 DEF Uncounted
  <2>3. num' = Cardinality(Alive') - Uncounted'
    <3>1. num \in Int /\ Cardinality(Alive) \in Nat
      BY Plain, FS_Subset, FS_CardinalityType DEF Alive, TypeOK
    <3> QED
      BY <2>1, <2>2, <3>1
  <2> QED
    BY <1>c, <2>1, <2>3 DEF CountOK
<1>5. CASE StopCalled \/ StopReturns \/ UNCHANGED vars
  <2>1. /\ spc' = spc \/ {spc, spc'} \cap {"count", "write"} = {}
        /\ spc' \in Starts => spc \in Starts
        /\ stop' = 2 => stop = 2
        /\ UNCHANGED <<num, wpc, wnum, snum>>
    BY <1>5 DEF StopCalled, StopReturns, vars
  <2>2. Alive' = Alive /\ Uncounted' = Uncounted
    BY <2>1 DEF Alive, Uncounted
  <2> QED
    BY <1>c, <2>1, <2>2 DEF CountOK
<1>6. CASE Select \/ Accept \/ ProduceWait \/ MasterSleeps
  <2>1. UNCHANGED <<num, spc, snum, wnum, stop, wpc>>
    BY <1>6 DEF Select, Accept, ProduceWait, MasterSleeps
  <2> QED
    BY <1>1, <2>1 DEF Alive, CountOK
<1>7. CASE Produce \/ Broadcast
  <2>1. UNCHANGED <<num, spc, snum, wnum, stop>>
    BY <1>7 DEF Produce, Broadcast
  <2>2. /\ \A v \in Worker : wpc'[v] = wpc[v] \/ (wpc[v] = "asleep" /\ wpc'[v] = "consume")
    BY <1>7, OthersGoing DEF Goes
  <2>3. Alive' = Alive
    BY <2>2 DEF Alive
  <2> QED
    BY <1>1, <2>1, <2>2, <2>3 DEF CountOK
<1>8. CASE Join
  <2>1. /\ num <= 0 /\ mpc = "join" /\ UNCHANGED <<num, spc, snum, wnum, wpc>>
    BY <1>8 DEF Join, AllGone
  <2>2. spc \notin Starts
    BY <2>1 DEF PhasesOK
  <2>3. IsFiniteSet(Alive) /\ Cardinality(Alive) \in Nat /\ Cardinality(Alive) <= 0
    BY <1>c, <2>1, <2>2, Plain, FS_Subset, FS_CardinalityType DEF Alive, TypeOK, Uncounted
  <2>4. Alive = {} /\ Alive' = {}
    BY <2>1, <2>3, FS_EmptySet DEF Alive
  <2> QED
    BY <1>c, <2>1, <2>2, <2>4 DEF Uncounted, CountOK
<1>9. ASSUME NEW w \in Worker,
             Begin(w) \/ ConsumeWait(w) \/ WorkerSleeps(w) \/ Consume(w) \/ Return(w)
             \/ Serve(w) \/ Wakeup(w)
      PROVE  CountOK'
  <2>1. /\ UNCHANGED <<num, spc, snum, wnum, stop>>
        /\ wpc[w] \in {"begin", "consume", "wait", "asleep", "taken", "serve"}
    BY <1>9 DEF Begin, ConsumeWait, WorkerSleeps, Consume, Return, Serve, Wakeup
  <2>2. PICK q \in {"consume", "wait", "asleep", "taken", "serve", "leave"} : 
           Goes(w, q) /\ (q = "leave" => stop # 0)
    <3>1. CASE Begin(w)
      <4>1. Goes(w, "consume")
        BY <1>0, <3>1 DEF Begin, Goes, TypeOK
      <4> QED
        BY <4>1
    <3>2. CASE ~Begin(w)
      BY <1>9, <3>2, Going
    <3> QED
      BY <3>1, <3>2
  <2>3. spc \in Starts => q # "leave"
    BY <2>2 DEF PhasesOK
  <2>4. Alive' = Alive
    BY <2>1, <2>2, AliveMoves
  <2> QED
    BY <1>1, <2>1, <2>2, <2>3, <2>4 DEF Goes
<1>10. ASSUME NEW w \in Worker, Leave(w) PROVE CountOK'
  <2>1. /\ UNCHANGED <<num, spc, snum, stop>> /\ wnum' = [wnum EXCEPT ![w] = num]
        /\ wpc[w] = "leave" /\ Goes(w, "left")
    BY <1>10, Going DEF Leave
  <2>2. Alive' = Alive /\ spc \notin Starts
    BY <1>c, <2>1, AliveMoves
  <2>3. \A v \in Worker : wpc'[v] = "left" => wnum'[v] = num'
    BY <1>c, <2>1 DEF Goes, TypeOK
  <2> QED
    BY <1>c, <2>1, <2>2, <2>3 DEF CountOK, Uncounted
<1>11. ASSUME NEW w \in Worker, Left(w) PROVE CountOK'
  <2>1. /\ num' = wnum[w] - 1 /\ wpc[w] = "left" /\ Goes(w, "done")
        /\ UNCHANGED <<spc, snum, stop, wnum>>
    BY <1>11, Going DEF Left
  <2>2. spc \notin Starts /\ wnum[w] = num /\ w \in Alive
    BY <1>c, <2>1 DEF Alive
  <2>3. Cardinality(Alive') = Cardinality(Alive) - 1 /\ Cardinality(Alive) \in Nat
    BY <2>1, AliveMoves
  <2>4. num' = Cardinality(Alive') - Uncounted'
    BY <1>c, <2>1, <2>2, <2>3 DEF Uncounted
  <2>5. \A v \in Worker : wpc'[v] # "left"
    BY <2>1 DEF Goes, MutexOK
  <2> QED
    BY <1>c, <2>1, <2>2, <2>4, <2>5 DEF CountOK
<1> QED
  BY <1>2, <1>3, <1>4, <1>5, <1>6, <1>7, <1>8, <1>9, <1>10, <1>11
     DEF CountOK, Next, Starting, MasterStep, WorkerStep
-----------------------------------------------------------------------------
(* Signals: as many workers are on their way as there are sockets waiting, *)
(* as long as one sleeps.                                                  *)
LEMMA ConsumersMove ==
    ASSUME TypeOK, NEW w \in Worker, NEW q, Goes(w, q)
    PROVE  /\ Cardinality(Consumers) \in Nat /\ Cardinality(Consumers') \in Nat
           /\ wpc[w] # "consume" /\ q # "consume" => Consumers' = Consumers
           /\ wpc[w] # "consume" /\ q = "consume" =>
                 Cardinality(Consumers') = Cardinality(Consumers) + 1
           /\ wpc[w] = "consume" /\ q # "consume" =>
                 Cardinality(Consumers') = Cardinality(Consumers) - 1
           /\ q # "asleep" => Asleep' \subseteq Asleep
<1>1. /\ IsFiniteSet(Consumers) /\ Cardinality(Consumers) \in Nat
      /\ Cardinality(Consumers') \in Nat
  BY Plain, FS_Subset, FS_CardinalityType DEF Consumers
<1>2. wpc[w] # "consume" /\ q # "consume" => Consumers' = Consumers
  BY DEF Goes, Consumers
<1>3. wpc[w] # "consume" /\ q = "consume" =>
         Consumers' = Consumers \union {w} /\ w \notin Consumers
  BY DEF Goes, Consumers
<1>4. wpc[w] = "consume" /\ q # "consume" => Consumers' = Consumers \ {w} /\ w \in Consumers
  BY DEF Goes, Consumers
<1>5. q # "asleep" => Asleep' \subseteq Asleep
  BY DEF Goes, Asleep
<1> QED
  BY <1>1, <1>2, <1>3, <1>4, <1>5, FS_AddElement, FS_RemoveElement

LEMMA NextAwake == TypeOK /\ MutexOK /\ PhasesOK /\ AwakeOK /\ [Next]_vars => AwakeOK'
<1> SUFFICES ASSUME TypeOK, MutexOK, PhasesOK, AwakeOK, [Next]_vars PROVE AwakeOK'
  OBVIOUS
<1> USE DEF queue, starter, master, workers, ghosts
<1>0. tail \in Nat /\ head \in Nat /\ QueueSize \in Nat \ {0} /\ IsFiniteSet(Worker)
  BY Plain DEF TypeOK
<1>c. Cardinality(Consumers) \in Nat /\ Cardinality(Consumers') \in Nat
  BY <1>0, FS_Subset, FS_CardinalityType DEF Consumers
(* Steps that do not move the queue, and leave no consumer out.            *)
<1>1. ASSUME UNCHANGED queue, stop' = 0 => stop = 0,
             mpc' = "asleep" => mpc \in {"asleep", "wait"},
             stop' = 0 => Asleep' \subseteq Asleep,
             stop' = 0 => Cardinality(Consumers') >= Cardinality(Consumers)
      PROVE  AwakeOK'
  BY <1>0, <1>1, <1>c DEF AwakeOK, MutexOK, Full
<1>2. CASE Starting \/ StopCalled \/ StopReturns \/ UNCHANGED vars
  <2>1. UNCHANGED <<queue, mpc>> /\ (stop' = 0 => stop = 0)
    BY <1>2 DEF Starting, StartWorker, ReadNum, WriteNum, StopCalled, StopReturns, vars
  <2>2. wpc' = wpc \/ StartWorker
    BY <1>2 DEF Starting, ReadNum, WriteNum, StopCalled, StopReturns, vars
  <2>3. Consumers' = Consumers /\ Asleep' = Asleep
    BY <2>2, OthersGoing DEF Goes, Consumers, Asleep
  <2> QED
    BY <1>1, <1>c, <2>1, <2>3
<1>3. CASE Select \/ Accept \/ ProduceWait \/ MasterSleeps \/ Join
  <2>1. /\ UNCHANGED <<queue, wpc>> /\ (stop' = 0 => stop = 0)
        /\ mpc' = "asleep" => mpc \in {"asleep", "wait"}
    BY <1>3 DEF Select, Accept, ProduceWait, MasterSleeps, Join
  <2> QED
    BY <1>1, <1>c, <2>1 DEF Consumers, Asleep
<1>4. CASE Broadcast
  <2>1. UNCHANGED <<queue, stop>> /\ mpc' = "join" /\ stop # 0
    BY <1>4 DEF Broadcast, PhasesOK
  <2> QED
    BY <1>1, <2>1
<1>5. CASE Produce
  <2>1. /\ mpc' = "select" /\ UNCHANGED <<stop, tail>>
        /\ stop = 0 => head' = head + 1
    BY <1>5, Produces
  <2>2. CASE Asleep = {} /\ wpc' = wpc
    BY <2>1, <2>2 DEF AwakeOK, Asleep
  <2>3. ASSUME NEW w \in Worker, wpc[w] = "asleep", Goes(w, "consume") PROVE AwakeOK'
    <3>1. Asleep # {} /\ Cardinality(Consumers') = Cardinality(Consumers) + 1
      BY <2>3, ConsumersMove DEF Asleep
    <3> QED
      BY <1>0, <1>c, <2>1, <3>1 DEF AwakeOK
  <2> QED
    BY <1>5, <2>2, <2>3, OthersGoing
<1>6. ASSUME NEW w \in Worker, Begin(w) \/ Return(w) \/ Serve(w) \/ Wakeup(w) \/ Leave(w) \/ Left(w)
      PROVE  AwakeOK'
  <2>1. UNCHANGED <<queue, stop, mpc>> /\ wpc[w] # "consume"
    BY <1>6 DEF Begin, Return, Serve, Wakeup, Leave, Left
  <2>2. PICK q : Goes(w, q) /\ q # "asleep"
    BY <1>6, Going
  <2> QED
    BY <1>1, <1>c, <2>1, <2>2, ConsumersMove
<1>7. ASSUME NEW w \in Worker, ConsumeWait(w) \/ WorkerSleeps(w) PROVE AwakeOK'
  <2>1. UNCHANGED <<queue, stop, mpc>> /\ head = tail
    BY <1>7 DEF ConsumeWait, WorkerSleeps, MutexOK, Empty
  <2> QED
    BY <1>0, <1>c, <2>1 DEF AwakeOK, Full
<1>8. ASSUME NEW w \in Worker, Consume(w) PROVE AwakeOK'
  <2>1. mpc' # "asleep" /\ UNCHANGED stop /\ Goes(w, "taken") /\ wpc[w] = "consume"
    BY <1>8, Consumes, Going
  <2>2. stop = 0 => head' - tail' = head - tail - 1
    <3>1. ASSUME NEW back \in {0, QueueSize}, tail' = tail + 1 - back, head' = head - back
          PROVE  head' - tail' = head - tail - 1
      BY <1>0, <3>1
    <3> QED
      BY <1>8, <3>1, Consumes
  <2>3. /\ Cardinality(Consumers') = Cardinality(Consumers) - 1
        /\ Asleep' \subseteq Asleep
    BY <2>1, ConsumersMove
  <2> QED
    BY <1>0, <1>c, <2>1, <2>2, <2>3 DEF AwakeOK
<1> QED
  BY <1>2, <1>3, <1>4, <1>5, <1>6, <1>7, <1>8 DEF Next, MasterStep, WorkerStep
-----------------------------------------------------------------------------
(* Sockets.                                                                *)
LEMMA NextHolders == TypeOK /\ PhasesOK /\ HoldersOK /\ OrderOK /\ [Next]_vars => HoldersOK'
<1> SUFFICES ASSUME TypeOK, PhasesOK, HoldersOK, OrderOK, [Next]_vars PROVE HoldersOK'
  OBVIOUS
<1> USE DEF queue, starter, master, workers, ghosts, Ends
<1>0. accepted \in Nat /\ NoSock = 0
  BY DEF TypeOK, NoSock
<1>1. ASSUME UNCHANGED <<client, accepted, msock>>, stop # 0 => stop' # 0,
             mpc' \in {"produce", "wait", "asleep"} <=> mpc \in {"produce", "wait", "asleep"},
             \A v \in Worker : wpc'[v] = wpc[v] \/ (wpc[v] \notin {"taken", "serve"} \union Ends
                                                    /\ wpc'[v] \notin {"taken", "serve"})
      PROVE  HoldersOK'
  BY <1>1 DEF HoldersOK
<1>2. CASE Starting \/ StopCalled \/ StopReturns \/ UNCHANGED vars
  <2>1. UNCHANGED <<client, accepted, msock, mpc>> /\ (stop # 0 => stop' # 0)
    BY <1>2 DEF Starting, StartWorker, ReadNum, WriteNum, StopCalled, StopReturns, vars
  <2>2. wpc' = wpc \/ StartWorker
    BY <1>2 DEF Starting, ReadNum, WriteNum, StopCalled, StopReturns, vars
  <2> QED
    BY <1>1, <2>1, <2>2, OthersGoing DEF Goes
<1>3. CASE Select \/ ProduceWait \/ MasterSleeps \/ Join \/ Broadcast
  <2>1. /\ UNCHANGED <<client, accepted, msock>> /\ (stop # 0 => stop' # 0)
        /\ mpc' \in {"produce", "wait", "asleep"} <=> mpc \in {"produce", "wait", "asleep"}
        /\ wpc' = wpc \/ Broadcast
    BY <1>3 DEF Select, ProduceWait, MasterSleeps, Join, Broadcast
  <2> QED
    BY <1>1, <2>1, OthersGoing
<1>4. CASE Accept
  BY <1>0, <1>4 DEF Accept, HoldersOK
<1>5. CASE Produce
  <2>1. /\ UNCHANGED <<stop, client, accepted>> /\ msock' = NoSock /\ mpc' = "select"
    BY <1>5, Produces
  <2>2. \A v \in Worker : wpc'[v] = wpc[v] \/ (wpc[v] = "asleep" /\ wpc'[v] = "consume")
    BY <1>5, OthersGoing DEF Goes
  <2> QED
    BY <2>1, <2>2 DEF HoldersOK
<1>6. ASSUME NEW w \in Worker, Begin(w) \/ ConsumeWait(w) \/ WorkerSleeps(w) \/ Wakeup(w)
      PROVE  HoldersOK'
  <2>1. UNCHANGED <<client, accepted, msock, mpc, stop>>
        /\ wpc[w] \in {"begin", "consume", "wait", "asleep"}
    BY <1>6 DEF Begin, ConsumeWait, WorkerSleeps, Wakeup
  <2>2. PICK q \in {"consume", "leave", "wait", "asleep"} : Goes(w, q)
    BY <1>6, Going
  <2> QED
    BY <1>1, <2>1, <2>2 DEF Goes
<1>7. ASSUME NEW w \in Worker, Return(w) \/ Leave(w) \/ Left(w) PROVE HoldersOK'
  <2>1. /\ UNCHANGED <<client, accepted, msock, mpc, stop>>
        /\ Return(w) => wpc[w] = "taken"
    BY <1>7 DEF Return, Leave, Left
  <2>2. PICK q \in {"serve", "leave", "left", "done"} :
           Goes(w, q) /\ (q = "serve" => wpc[w] = "taken" /\ stop = 0)
    BY <1>7, <2>1, Going
  <2> QED
    BY <2>1, <2>2 DEF HoldersOK, Goes
<1>8. ASSUME NEW w \in Worker, Serve(w) PROVE HoldersOK'
  <2>1. /\ UNCHANGED <<accepted, msock, mpc, stop>> /\ Goes(w, "consume")
        /\ \A v \in Worker : client'[v] = IF v = w THEN NoSock ELSE client[v]
    BY <1>8, Going DEF Serve, TypeOK
  <2> QED
    BY <2>1 DEF HoldersOK, Goes
<1>9. ASSUME NEW w \in Worker, Consume(w) PROVE HoldersOK'
  <2>1. /\ UNCHANGED <<accepted, msock, stop>> /\ Goes(w, "taken")
        /\ mpc' \in {"produce", "wait", "asleep"} <=> mpc \in {"produce", "wait", "asleep"}
    BY <1>9, Consumes, Going
  <2>2. \A v \in Worker : v # w => client'[v] = client[v]
    BY <1>9, Consumes DEF TypeOK
  <2>3. client'[w] # NoSock \/ stop # 0
    <3>1. CASE tail < head /\ client' = [client EXCEPT ![w] = ring[Slot(tail)]]
      <4>1. tail \in At
        BY <3>1 DEF At, TypeOK
      <4>2. client'[w] = ring[Slot(tail)] /\ ring[Slot(tail)] \in 1 .. accepted
        BY <3>1, <4>1 DEF OrderOK, TypeOK
      <4> QED
        BY <1>0, <4>2
    <3> QED
      BY <1>9, <3>1, Consumes
  <2> QED
    BY <2>1, <2>2, <2>3 DEF HoldersOK, Goes
<1> QED
  BY <1>2, <1>3, <1>4, <1>5, <1>6, <1>7, <1>8, <1>9 DEF Next, MasterStep, WorkerStep

(* The ring after a socket is taken is the ring before without its first   *)
(* place, whether the pointers were moved back or not.                     *)
LEMMA Taken ==
    ASSUME TypeOK, tail < head, NEW back \in {0, QueueSize},
           tail' = tail + 1 - back, head' = head - back, tail' \in 0 .. QueueSize
    PROVE  /\ \A k \in At' : k + back \in At /\ k + back > tail /\ Slot(k + back) = Slot(k)
           /\ \A j \in At : j > tail => j - back \in At' /\ Slot(j - back) = Slot(j)
<1>0. tail \in Nat /\ head \in Nat /\ QueueSize \in Nat \ {0} /\ tail' \in Nat
  BY Plain DEF TypeOK
<1>1. ASSUME NEW k \in At'
      PROVE  k + back \in At /\ k + back > tail /\ Slot(k + back) = Slot(k)
  <2>1. k \in Nat /\ k + back \in At /\ k + back > tail
    BY <1>0, <1>1 DEF At
  <2>2. CASE back = 0
    BY <2>1, <2>2
  <2>3. CASE back = QueueSize
    <3>1. Slot(k + QueueSize) = Slot(k)
      BY <2>1, Slots
    <3> QED
      BY <2>1, <2>3, <3>1
  <2> QED
    BY <2>2, <2>3
<1>2. ASSUME NEW j \in At, j > tail PROVE j - back \in At' /\ Slot(j - back) = Slot(j)
  <2>1. j - back \in At' /\ j - back \in Nat
    BY <1>0, <1>2 DEF At
  <2>2. Slot((j - back) + back) = Slot(j - back)
    BY <1>0, <2>1, Slots
  <2>3. (j - back) + back = j
    BY <1>0, <1>2 DEF At
  <2> QED
    BY <2>1, <2>2, <2>3
<1> QED
  BY <1>1, <1>2

(* A socket put at the head touches no other place.                        *)
LEMMA Appended ==
    ASSUME TypeOK, Produce, ~Full
    PROVE  /\ At' = At \union {head} /\ head \notin At /\ \A k \in At : k < head
           /\ ring'[Slot(head)] = msock
           /\ \A k \in At : ring'[Slot(k)] = ring[Slot(k)]
<1>0. tail \in Nat /\ head \in Nat /\ QueueSize \in Nat \ {0} /\ tail <= head
  BY Plain DEF TypeOK
<1>1. /\ head' = head + 1 /\ tail' = tail /\ ring'[Slot(head)] = msock
      /\ \A i \in 0 .. QueueSize - 1 : i # Slot(head) => ring'[i] = ring[i]
  BY Produces
<1>2. At' = At \union {head} /\ head \notin At /\ \A k \in At : k < head
  BY <1>0, <1>1 DEF At
<1>3. ASSUME NEW k \in At PROVE ring'[Slot(k)] = ring[Slot(k)]
  <2>1. k \in Nat /\ k < head /\ head - k < QueueSize
    BY <1>0, <1>3 DEF At, Full
  <2>2. Slot(k) \in 0 .. QueueSize - 1 /\ Slot(k) # Slot(head)
    BY <1>0, <2>1, Slots
  <2> QED
    BY <1>1, <2>2
<1> QED
  BY <1>1, <1>2, <1>3

LEMMA Unmoved ==
    ASSUME TypeOK, [Next]_vars, ~Accept, ~Produce,
           \A w \in Worker : ~Consume(w) /\ ~Serve(w)
    PROVE  UNCHANGED <<queue, client, accepted, closed, dropped, msock>>
BY DEF Next, Starting, StartWorker, ReadNum, WriteNum, StopCalled, StopReturns,
       MasterStep, Select, ProduceWait, MasterSleeps, Broadcast, Join,
       WorkerStep, Begin, ConsumeWait, WorkerSleeps, Return, Leave, Left,
       Wakeup, vars, queue, starter, master, workers, ghosts

LEMMA NextOrder ==
    TypeOK /\ HoldersOK /\ OrderOK /\ PlacesOK /\ [Next]_vars => OrderOK'
<1> SUFFICES ASSUME TypeOK, HoldersOK, OrderOK, PlacesOK, [Next]_vars PROVE OrderOK'
  OBVIOUS
<1>0. /\ tail \in Nat /\ head \in Nat /\ accepted \in Nat /\ NoSock = 0
      /\ client \in [Worker -> Nat]
  BY DEF TypeOK, NoSock
<1>1. CASE UNCHANGED <<queue, client, accepted>>
  BY <1>1 DEF OrderOK, At, queue
<1>2. CASE Accept
  <2>1. accepted' \in {accepted, accepted + 1} /\ UNCHANGED <<queue, client>>
    BY <1>2 DEF Accept, workers
  <2>2. 1 .. accepted \subseteq 1 .. accepted' /\ 0 .. accepted \subseteq 0 .. accepted'
    BY <1>0, <2>1
  <2> QED
    BY <2>1, <2>2 DEF OrderOK, At, queue
<1>3. CASE Produce
  <2>1. UNCHANGED <<tail, client, accepted>>
    BY <1>3, Produces
  <2>2. CASE Full
    BY <1>1, <1>3, <2>1, <2>2, Produces DEF queue
  <2>3. CASE ~Full
    <3>1. msock = accepted /\ msock # 0
      BY <1>0, <1>3, Produces DEF HoldersOK
    <3>2. \A k \in At : ring[Slot(k)] < msock
      BY <1>0, <3>1 DEF OrderOK, PlacesOK
    <3>3. \A w \in Worker : client[w] < msock
      BY <1>0, <3>1 DEF OrderOK, PlacesOK
    <3>4. /\ \A k \in At' : k \in At \/ k = head
          /\ \A k \in At : k < head /\ ring'[Slot(k)] = ring[Slot(k)]
          /\ ring'[Slot(head)] = msock
      BY <1>3, <2>3, Appended
    <3>5. At \subseteq Nat
      BY <1>0 DEF At
    <3>6. ASSUME NEW k \in At', NEW l \in At', k < l
          PROVE  ring'[Slot(k)] < ring'[Slot(l)]
      <4>1. k \in At /\ ring'[Slot(k)] = ring[Slot(k)]
        <5>1. CASE l = head
          <6>1. k # head
            <7>1. k < head /\ head \in Nat
              BY <1>0, <3>6, <5>1
            <7> QED
              BY <7>1
          <6>2. k \in At
            BY <3>4, <6>1, Zenon
          <6> QED
            BY <3>4, <6>2, Zenon
        <5>2. CASE l # head
          <6>1. l \in At
            BY <3>4, <5>2
          <6>2. l \in Nat /\ l < head
            BY <3>4, <3>5, <6>1
          <6>3. k # head
            BY <1>0, <3>6, <6>2
          <6> QED
            BY <3>4, <6>3
        <5> QED
          BY <5>1, <5>2
      <4>2. CASE l = head
        BY <3>2, <3>4, <4>1, <4>2
      <4>3. CASE l # head
        <5>1. l \in At /\ ring'[Slot(l)] = ring[Slot(l)]
          BY <3>4, <4>3
        <5> QED
          BY <3>6, <4>1, <5>1 DEF OrderOK
      <4> QED
        BY <4>2, <4>3
    <3>7. \A k \in At' : ring'[Slot(k)] \in 1 .. accepted
      BY <1>0, <3>1, <3>4 DEF OrderOK
    <3>8. \A w \in Worker : \A k \in At' : client[w] < ring'[Slot(k)]
      BY <3>3, <3>4 DEF OrderOK
    <3> QED
      BY <2>1, <3>6, <3>7, <3>8 DEF OrderOK
  <2> QED
    BY <2>2, <2>3
<1>4. ASSUME NEW w \in Worker, Serve(w) PROVE OrderOK'
  <2>1. /\ UNCHANGED <<queue, accepted>>
        /\ \A v \in Worker : client'[v] = IF v = w THEN 0 ELSE client[v]
    BY <1>0, <1>4 DEF Serve
  <2> QED
    BY <1>0, <2>1 DEF OrderOK, At, queue
<1>5. ASSUME NEW w \in Worker, Consume(w) PROVE OrderOK'
  <2>1. UNCHANGED <<ring, accepted>>
    BY <1>5, Consumes DEF ghosts
  <2>2. CASE UNCHANGED <<client, head, tail>>
    BY <1>1, <2>1, <2>2 DEF queue
  <2>3. ASSUME tail < head, client' = [client EXCEPT ![w] = ring[Slot(tail)]],
               NEW back \in {0, QueueSize},
               tail' = tail + 1 - back, head' = head - back, tail' \in 0 .. QueueSize
        PROVE  OrderOK'
    <3>1. \A k \in At' : k + back \in At /\ k + back > tail /\ Slot(k + back) = Slot(k)
      BY <2>3, Taken
    <3>2. tail \in At /\ back \in Nat /\ At' \subseteq Nat
      BY <1>0, <2>3, Plain DEF At
    <3>3. \A v \in Worker : client'[v] = IF v = w THEN ring[Slot(tail)] ELSE client[v]
      BY <1>0, <2>3
    <3>4. ASSUME NEW k \in At', NEW l \in At', k < l
          PROVE  ring[Slot(k)] < ring[Slot(l)]
      <4>1. k + back < l + back
        BY <3>2, <3>4
      <4> QED
        BY <3>1, <4>1 DEF OrderOK
    <3>5. ASSUME NEW k \in At'
          PROVE  /\ ring[Slot(k)] \in 1 .. accepted /\ ring[Slot(tail)] < ring[Slot(k)]
                 /\ \A v \in Worker : client[v] < ring[Slot(k)]
      BY <3>1, <3>2 DEF OrderOK
    <3>6. ring[Slot(tail)] \in 0 .. accepted
      BY <1>0, <3>2 DEF OrderOK
    <3> QED
      BY <2>1, <3>3, <3>4, <3>5, <3>6 DEF OrderOK
  <2> QED
    BY <1>5, <2>2, <2>3, Consumes
<1> QED
  BY <1>1, <1>2, <1>3, <1>4, <1>5, Unmoved

LEMMA NextPlaces ==
    TypeOK /\ HoldersOK /\ OrderOK /\ PlacesOK /\ [Next]_vars => PlacesOK'
<1> SUFFICES ASSUME TypeOK, HoldersOK, OrderOK, PlacesOK, [Next]_vars PROVE PlacesOK'
  OBVIOUS
<1>0. /\ tail \in Nat /\ head \in Nat /\ accepted \in Nat /\ NoSock = 0
      /\ client \in [Worker -> Nat] /\ Over \subseteq 1 .. accepted
  BY DEF TypeOK, NoSock, Over
<1>1. CASE UNCHANGED <<queue, client, accepted, closed, dropped, msock>>
  BY <1>1 DEF PlacesOK, At, queue, Queued, Held, Over
<1>2. CASE Accept
  <2>1. UNCHANGED <<queue, client, dropped>> /\ msock = 0
    BY <1>0, <1>2 DEF Accept, workers, HoldersOK
  <2>2. CASE UNCHANGED <<msock, accepted, closed>>
    BY <1>1, <2>1, <2>2
  <2>3. ASSUME accepted' = accepted + 1,
               \/ msock' = accepted + 1 /\ closed' = closed
               \/ msock' = msock /\ closed' = closed \union {accepted + 1}
        PROVE  PlacesOK'
    <3>1. /\ accepted + 1 \notin Over /\ 0 \notin Over
          /\ \A k \in At : ring[Slot(k)] # accepted + 1 /\ ring[Slot(k)] # 0
          /\ \A w \in Worker : client[w] # accepted + 1
      BY <1>0 DEF OrderOK
    <3>2. Over' = Over \/ Over' = Over \union {accepted + 1}
      BY <2>1, <2>3 DEF Over
    <3>3. \A s \in 1 .. accepted' : s \in 1 .. accepted \/ s = accepted + 1
      BY <1>0, <2>3
    <3>4. \A s \in 1 .. accepted' : Queued(s)' \/ Held(s)' \/ s \in Over' \/ s = msock'
      <4>1. \A s \in 1 .. accepted : Queued(s)' \/ Held(s)' \/ s \in Over'
        BY <1>0, <2>1, <3>2 DEF PlacesOK, Queued, Held, At, queue
      <4>2. accepted + 1 \in Over' \/ accepted + 1 = msock'
        BY <2>3 DEF Over
      <4> QED
        BY <3>3, <4>1, <4>2
    <3>5. closed' \cap dropped' = {} /\ msock' \notin Over'
      <4>1. CASE msock' = accepted + 1 /\ closed' = closed
        BY <2>1, <3>1, <4>1 DEF PlacesOK, Over
      <4>2. CASE msock' = msock /\ closed' = closed \union {accepted + 1}
        BY <1>0, <2>1, <3>1, <4>2 DEF PlacesOK, Over
      <4> QED
        BY <2>3, <4>1, <4>2
    <3>6. /\ \A k \in At' : ring'[Slot(k)] \notin Over' \union {msock'}
          /\ \A w \in Worker : client'[w] # NoSock => client'[w] \notin Over' \union {msock'}
      BY <1>0, <2>1, <2>3, <3>1, <3>2 DEF PlacesOK, At, queue
    <3> QED
      BY <2>1, <3>4, <3>5, <3>6 DEF PlacesOK
  <2> QED
    BY <1>2, <2>2, <2>3 DEF Accept
<1>3. CASE Produce
  <2>1. /\ UNCHANGED <<tail, client, accepted, closed>> /\ msock' = 0
        /\ msock = accepted /\ msock # 0
    BY <1>0, <1>3, Produces DEF HoldersOK
  <2>2. 0 \notin Over /\ \A k \in At : ring[Slot(k)] # 0
    BY <1>0 DEF OrderOK
  <2>3. CASE Full
    <3>1. dropped' = dropped \union {msock} /\ UNCHANGED <<ring, head>>
      BY <1>3, <2>3, Produces
    <3>2. Over' = Over \union {msock}
      BY <2>1, <3>1 DEF Over
    <3>3. \A s \in 1 .. accepted' : Queued(s)' \/ Held(s)' \/ s \in Over'
      BY <2>1, <3>1, <3>2 DEF PlacesOK, Queued, Held, At
    <3>4. closed' \cap dropped' = {} /\ msock' \notin Over'
      BY <2>1, <2>2, <3>1, <3>2 DEF PlacesOK, Over
    <3> QED
      BY <1>0, <2>1, <2>2, <3>1, <3>2, <3>3, <3>4 DEF PlacesOK, At
  <2>4. CASE ~Full
    <3>1. Over' = Over /\ UNCHANGED dropped
      BY <1>3, <2>1, <2>4, Produces DEF Over
    <3>2. /\ \A k \in At : k \in At' /\ ring'[Slot(k)] = ring[Slot(k)]
          /\ \A k \in At' : k \in At \/ k = head
          /\ head \in At' /\ ring'[Slot(head)] = msock
      BY <1>3, <2>4, Appended
    <3>3. \A s \in 1 .. accepted' : Queued(s)' \/ Held(s)' \/ s \in Over'
      <4>1. \A s : Queued(s) => Queued(s)'
        BY <3>2 DEF Queued
      <4>2. \A s : s = msock => Queued(s)'
        BY <3>2 DEF Queued
      <4> QED
        BY <2>1, <3>1, <4>1, <4>2 DEF PlacesOK, Held
    <3>4. \A k \in At' : ring'[Slot(k)] \notin Over' \union {msock'}
      BY <2>1, <2>2, <3>1, <3>2 DEF PlacesOK
    <3> QED
      BY <1>0, <2>1, <2>2, <3>1, <3>3, <3>4 DEF PlacesOK
  <2> QED
    BY <2>3, <2>4
<1>4. ASSUME NEW w \in Worker, Serve(w) PROVE PlacesOK'
  <2>1. /\ UNCHANGED <<queue, accepted, msock, dropped>>
        /\ \A v \in Worker : client'[v] = IF v = w THEN 0 ELSE client[v]
        /\ closed' = closed \union {client[w]} /\ client[w] # 0
    BY <1>0, <1>4 DEF Serve, HoldersOK, master
  <2>2. Over' = Over \union {client[w]} /\ client[w] \notin Over \union {msock}
    BY <1>0, <2>1 DEF Over, PlacesOK
  <2>3. \A k \in At' : k \in At /\ ring'[Slot(k)] = ring[Slot(k)] /\ ring[Slot(k)] # client[w]
    <3>1. \A k \in At : ring[Slot(k)] \in Nat /\ client[w] < ring[Slot(k)]
      BY <1>0 DEF OrderOK
    <3> QED
      BY <1>0, <2>1, <3>1 DEF At, queue
  <2>4. \A v \in Worker : v # w => client[v] # client[w]
    BY <1>0, <2>1 DEF PlacesOK
  <2>5. \A s \in 1 .. accepted' : Queued(s)' \/ Held(s)' \/ s \in Over' \/ s = msock'
    <3>1. \A s : Queued(s) => Queued(s)'
      BY <2>1 DEF Queued, At, queue
    <3>2. \A s : Held(s) => Held(s)' \/ s = client[w]
      BY <2>1 DEF Held
    <3> QED
      BY <2>1, <2>2, <3>1, <3>2 DEF PlacesOK
  <2>6. closed' \cap dropped' = {} /\ msock' \notin Over'
    BY <2>1, <2>2 DEF PlacesOK, Over
  <2>7. \A k \in At' : ring'[Slot(k)] \notin Over' \union {msock'}
    BY <2>1, <2>2, <2>3 DEF PlacesOK
  <2>8. \A v \in Worker : client'[v] # 0 => client'[v] \notin Over' \union {msock'}
    BY <1>0, <2>1, <2>2, <2>4 DEF PlacesOK
  <2>9. \A v, u \in Worker : client'[v] = client'[u] /\ client'[v] # 0 => v = u
    BY <1>0, <2>1 DEF PlacesOK
  <2> QED
    BY <1>0, <2>5, <2>6, <2>7, <2>8, <2>9 DEF PlacesOK
<1>5. ASSUME NEW w \in Worker, Consume(w) PROVE PlacesOK'
  <2>1. UNCHANGED <<ring, accepted, msock, closed, dropped>> /\ wpc[w] = "consume"
    BY <1>5, Consumes DEF ghosts
  <2>2. CASE UNCHANGED <<client, head, tail>>
    BY <1>1, <2>1, <2>2 DEF queue
  <2>3. ASSUME tail < head, client' = [client EXCEPT ![w] = ring[Slot(tail)]],
               NEW back \in {0, QueueSize},
               tail' = tail + 1 - back, head' = head - back, tail' \in 0 .. QueueSize
        PROVE  PlacesOK'
    <3>1. /\ \A k \in At' : k + back \in At /\ Slot(k + back) = Slot(k)
          /\ \A j \in At : j > tail => j - back \in At' /\ Slot(j - back) = Slot(j)
      BY <2>3, Taken
    <3>2. tail \in At /\ \A j \in At : j = tail \/ j > tail
      BY <1>0, <2>3 DEF At
    <3>3. /\ \A v \in Worker : client'[v] = IF v = w THEN ring[Slot(tail)] ELSE client[v]
          /\ client[w] = 0
      BY <1>0, <2>1, <2>3 DEF HoldersOK, Ends
    <3>4. Over' = Over
      BY <2>1 DEF Over
    <3>5. \A s \in 1 .. accepted : Queued(s)' \/ Held(s)' \/ s \in Over \/ s = msock
      <4>1. \A s : Queued(s) => Queued(s)' \/ s = ring[Slot(tail)]
        BY <2>1, <3>1, <3>2 DEF Queued
      <4>2. \A s : s = ring[Slot(tail)] => Held(s)'
        BY <3>3 DEF Held
      <4>3. \A s \in 1 .. accepted : Held(s) => Held(s)'
        BY <1>0, <3>3 DEF Held
      <4> QED
        BY <4>1, <4>2, <4>3 DEF PlacesOK
    <3>6. \A k \in At' : ring[Slot(k)] \notin Over \union {msock}
      BY <3>1 DEF PlacesOK
    <3>7. \A v \in Worker : client[v] # ring[Slot(tail)]
      <4>1. \A v \in Worker : client[v] < ring[Slot(tail)] /\ client[v] \in Nat
        BY <1>0, <3>2 DEF OrderOK
      <4>2. ring[Slot(tail)] \in Nat
        BY <1>0, <3>2 DEF OrderOK
      <4> QED
        BY <4>1, <4>2
    <3>8. \A v, u \in Worker : client'[v] = client'[u] /\ client'[v] # 0 => v = u
      BY <1>0, <3>3, <3>7 DEF PlacesOK
    <3>9. \A v \in Worker : client'[v] # 0 => client'[v] \notin Over \union {msock}
      BY <1>0, <3>2, <3>3 DEF PlacesOK
    <3> QED
      BY <1>0, <2>1, <3>4, <3>5, <3>6, <3>8, <3>9 DEF PlacesOK
  <2> QED
    BY <1>5, <2>2, <2>3, Consumes
<1> QED
  BY <1>1, <1>2, <1>3, <1>4, <1>5, Unmoved
-----------------------------------------------------------------------------
LEMMA InitPlaces == Init => OrderOK /\ PlacesOK
<1> SUFFICES ASSUME Init PROVE OrderOK /\ PlacesOK
  OBVIOUS
<1>1. /\ At = {} /\ accepted = 0 /\ Over = {} /\ msock = 0 /\ closed = {}
      /\ \A w \in Worker : client[w] = 0
  BY DEF Init, At, Over, NoSock
<1> QED
  BY <1>1 DEF OrderOK, PlacesOK, NoSock

LEMMA InductiveInvariant == Spec => []IInv
<1>1. Init => IInv
  BY InitType, InitCount, InitPlaces DEF IInv
<1>2. IInv /\ [Next]_vars => IInv'
  BY NextType, NextMutex, NextPhases, NextCount, NextAwake, NextHolders, NextOrder,
     NextPlaces DEF IInv
<1> QED
  BY <1>1, <1>2, PTL DEF Spec

(* Every socket that was accepted is in exactly one place, the ring keeps  *)
(* the order of accept(), and whoever takes one takes the oldest: for every*)
(* size of the ring, wherever its pointers have been moved back to, and    *)
(* whichever worker is woken.                                              *)
LEMMA OnePlace ==
    ASSUME TypeOK, OrderOK, PlacesOK, NEW s \in 1 .. accepted
    PROVE  Cardinality({k \in tail .. head - 1 : ring[k % QueueSize] = s})
         + Cardinality({w \in Worker : client[w] = s})
         + Cardinality({i \in 1 .. 3 : s \in <<closed, dropped, {msock}>>[i]}) = 1
<1> DEFINE places == {k \in At : ring[Slot(k)] = s}
           holders == {w \in Worker : client[w] = s}
           others == {i \in 1 .. 3 : s \in <<closed, dropped, {msock}>>[i]}
<1>0. /\ Cardinality({}) = 0 /\ \A x : Cardinality({x}) = 1
      /\ s # 0 /\ NoSock = 0 /\ accepted \in Nat /\ s \in Nat /\ At \subseteq Int
  <2>1. Cardinality({}) = 0 /\ \A x : Cardinality({x}) = 1
    BY FS_EmptySet, FS_Singleton, Zenon
  <2>2. tail \in Int /\ head \in Int /\ accepted \in Nat
    BY DEF TypeOK
  <2>3. s # 0 /\ NoSock = 0 /\ s \in Nat /\ At \subseteq Int
    BY <2>2 DEF NoSock, At
  <2> QED
    BY <2>1, <2>2, <2>3, Zenon
<1>1. \A k, l \in At : ring[Slot(k)] = s /\ ring[Slot(l)] = s => k = l
  BY <1>0 DEF OrderOK
<1>2. ASSUME NEW k \in At, ring[Slot(k)] = s PROVE \A w \in Worker : client[w] # s
  BY <1>0, <1>2 DEF OrderOK
<1>3. others = (IF s \in closed THEN {1} ELSE {}) \union (IF s \in dropped THEN {2} ELSE {})
               \union (IF s = msock THEN {3} ELSE {})
  OBVIOUS
<1> HIDE DEF others
<1>4. ASSUME NEW k \in At, ring[Slot(k)] = s
      PROVE  Cardinality(places) = 1 /\ Cardinality(holders) = 0 /\ Cardinality(others) = 0
  <2>1. places = {k}
    BY <1>1, <1>4
  <2>2. holders = {}
    BY <1>2, <1>4
  <2>3. others = {}
    BY <1>3, <1>4 DEF PlacesOK, Over
  <2> QED
    BY <1>0, <2>1, <2>2, <2>3
<1>5. ASSUME NEW w \in Worker, client[w] = s
      PROVE  Cardinality(places) = 0 /\ Cardinality(holders) = 1 /\ Cardinality(others) = 0
  <2>1. places = {}
    BY <1>2, <1>5
  <2>2. holders = {w}
    BY <1>0, <1>5 DEF PlacesOK
  <2>3. others = {}
    BY <1>0, <1>3, <1>5 DEF PlacesOK, Over
  <2> QED
    BY <1>0, <2>1, <2>2, <2>3
<1>6. ASSUME s \in Over \union {msock}
      PROVE  Cardinality(places) = 0 /\ Cardinality(holders) = 0 /\ Cardinality(others) = 1
  <2>1. places = {}
    BY <1>6 DEF PlacesOK
  <2>2. holders = {}
    BY <1>0, <1>6 DEF PlacesOK
  <2>3. others = {1} \/ others = {2} \/ others = {3}
    BY <1>3, <1>6 DEF PlacesOK, Over
  <2> QED
    BY <1>0, <2>1, <2>2, <2>3
<1>7. (\E k \in At : ring[Slot(k)] = s) \/ (\E w \in Worker : client[w] = s)
      \/ s \in Over \union {msock}
  BY DEF PlacesOK, Queued, Held
<1>8. Cardinality(places) + Cardinality(holders) + Cardinality(others) = 1
  BY <1>4, <1>5, <1>6, <1>7
<1> QED
  BY <1>8 DEF others, At, Slot

THEOREM AccountedCorrect == Spec => []Accounted
<1>1. ASSUME IInv PROVE Accounted
  <2>1. TypeOK /\ OrderOK /\ PlacesOK
    BY <1>1 DEF IInv
  <2>2. \A k, l \in tail .. head - 1 :
           k < l => ring[k % QueueSize] < ring[l % QueueSize]
    BY <2>1 DEF OrderOK, At, Slot
  <2>3. \A w \in Worker : \A s \in Waiting : client[w] < s
    BY <2>1 DEF OrderOK, At, Slot, Waiting
  <2> QED
    BY <2>1, <2>2, <2>3, OnePlace DEF Accounted
<1> QED
  BY <1>1, InductiveInvariant, PTL

(* No signal is lost that matters: one per socket is enough to keep as many*)
(* workers on their way as sockets wait, for any number of both.           *)
THEOREM AwakeCorrect == Spec => []NobodySleepsOnWork
<1>1. IInv => NobodySleepsOnWork
  BY DEF IInv, AwakeOK, NobodySleepsOnWork, Consumers
<1> QED
  BY <1>1, InductiveInvariant, PTL

(* A worker that is not counted in yet has been started.                   *)
StartedFirst ==
    spc \in {"count", "write"} => started \in Worker /\ wpc[started] # "none"

LEMMA StaysStarted ==
    TypeOK /\ PhasesOK /\ [Next]_vars =>
        \A w \in Worker : wpc[w] # "none" => wpc'[w] # "none"
<1> SUFFICES ASSUME TypeOK, PhasesOK, [Next]_vars, NEW w \in Worker, wpc[w] # "none"
             PROVE  wpc'[w] # "none"
  OBVIOUS
<1>1. CASE Starting
  BY <1>1, OthersGoing DEF Starting, ReadNum, WriteNum, StopCalled, StopReturns, workers, Goes
<1>2. CASE MasterStep
  BY <1>2, OthersGoing DEF MasterStep, Select, Accept, ProduceWait, MasterSleeps, Join, workers, Goes
<1>3. CASE \E v \in Worker : WorkerStep(v) \/ Wakeup(v)
  <2>1. PICK v \in Worker : WorkerStep(v) \/ Wakeup(v)
    BY <1>3
  <2>2. \E q : Goes(v, q) /\ q # "none"
    BY <2>1, Going DEF WorkerStep
  <2> QED
    BY <2>2 DEF Goes
<1>4. CASE StopCalled \/ StopReturns \/ UNCHANGED vars
  BY <1>4 DEF StopCalled, StopReturns, vars, workers
<1> QED
  BY <1>1, <1>2, <1>3, <1>4 DEF Next

LEMMA NextStarted == TypeOK /\ PhasesOK /\ StartedFirst /\ [Next]_vars => StartedFirst'
<1> SUFFICES ASSUME TypeOK, PhasesOK, StartedFirst, [Next]_vars PROVE StartedFirst'
  OBVIOUS
<1>1. CASE StartWorker
  <2>1. CASE spc' = spc
    BY <1>1, <2>1 DEF StartWorker, StartedFirst
  <2>2. CASE spc' # spc
    BY <1>1, <2>2, OthersGoing DEF StartWorker, StartedFirst, Goes
  <2> QED
    BY <2>1, <2>2
<1>2. CASE ReadNum \/ WriteNum \/ StopCalled \/ StopReturns
  BY <1>2 DEF ReadNum, WriteNum, StopCalled, StopReturns, StartedFirst, workers
<1>3. CASE UNCHANGED <<spc, started>>
  BY <1>3, StaysStarted DEF StartedFirst
<1>4. CASE MasterStep
  <2>1. UNCHANGED <<spc, started>>
    BY <1>4 DEF MasterStep, Select, Accept, ProduceWait, MasterSleeps, Produce, Broadcast,
                Join, starter
  <2> QED
    BY <1>3, <2>1
<1>5. CASE \E w \in Worker : WorkerStep(w) \/ Wakeup(w)
  <2>1. UNCHANGED <<spc, started>>
    BY <1>5 DEF WorkerStep, Begin, ConsumeWait, WorkerSleeps, Consume, Return, Serve, Leave,
                Left, Wakeup, starter
  <2> QED
    BY <1>3, <2>1
<1> QED
  BY <1>1, <1>2, <1>3, <1>4, <1>5 DEF Next, Starting, vars, starter

(* mg_stop() frees the context after the last worker, and the assertion of *)
(* worker_thread() holds, provided that none failed: while mg_start() has  *)
(* not counted in the worker it started, that one has not ended.           *)
THEOREM StopCorrect == Spec => []ThreadsEndFirst
<1>1. Init => StartedFirst
  BY DEF Init, StartedFirst
<1>2. IInv /\ StartedFirst /\ [Next]_vars => StartedFirst'
  BY NextStarted DEF IInv
<1>3. IInv => (failed = {} /\ stop = 2 => \A w \in Worker : wpc[w] \in {"none", "done"})
  BY DEF IInv, CountOK, Alive
<1>4. IInv /\ StartedFirst /\ failed = {} => num >= 0
  <2> SUFFICES ASSUME IInv, StartedFirst, failed = {} PROVE num >= 0
    OBVIOUS
  <2>1. /\ IsFiniteSet(Alive) /\ Cardinality(Alive) \in Nat
        /\ num = Cardinality(Alive) - Uncounted
    BY Plain, FS_Subset, FS_CardinalityType DEF IInv, CountOK, Alive
  <2>2. CASE spc \in {"count", "write"}
    <3>1. started \in Alive
      BY <2>2 DEF StartedFirst, IInv, CountOK, Alive, Starts, Ends
    <3>2. Cardinality(Alive) # 0
      BY <2>1, <3>1, FS_EmptySet
    <3> QED
      BY <2>1, <2>2, <3>2 DEF Uncounted
  <2>3. CASE spc \notin {"count", "write"}
    BY <2>1, <2>3 DEF Uncounted
  <2> QED
    BY <2>2, <2>3
<1>5. IInv /\ StartedFirst => ThreadsEndFirst
  BY <1>3, <1>4 DEF ThreadsEndFirst
<1> QED
  BY <1>1, <1>2, <1>5, InductiveInvariant, PTL DEF Spec
=============================================================================
