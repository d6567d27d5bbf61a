----------------------------- MODULE WorkerPool -----------------------------
(***************************************************************************)
(* The thread pool of the HTTP server (src/src/mongoose.c): mg_start()     *)
(* starts a master and the workers, the master accepts sockets and puts    *)
(* them into a ring buffer, the workers take and serve them, and mg_stop() *)
(* waits until the master has seen all workers end.                        *)
(*                                                                         *)
(* The ring is guarded by ctx->mutex; sq_full and sq_empty are its         *)
(* condition variables.  stop_flag is written, sq_full broadcast at the    *)
(* end and num_threads counted up without the mutex, so the test of a wait *)
(* loop and the wait are two steps here, and so are reading and writing of *)
(* num_threads.  Sockets are numbered in the order of accept().            *)
(***************************************************************************)
EXTENDS Integers, Sequences, FiniteSets

CONSTANTS
    NumThreads,   \* option num_threads
    QueueSize,    \* ARRAY_SIZE(ctx->queue)
    MayFail,      \* pthread_create() and calloc() may fail
    Spurious,     \* a wait may end without a signal
    MaxConns      \* bound: connections accepted

ASSUME SizeAssumption == NumThreads \in Nat /\ QueueSize \in Nat \ {0}
ASSUME ChoiceAssumption == MayFail \in BOOLEAN /\ Spurious \in BOOLEAN
ASSUME BoundAssumption == MaxConns \in Nat

VARIABLES
    stop,      \* stop_flag: 0, 1 stopping, 2 stopped
    num,       \* num_threads
    owner,     \* holder of ctx->mutex between two steps
    ring, head, tail,    \* queue, sq_head, sq_tail
    spc, snum, started,  \* mg_start(), then mg_stop(); workers tried
    mpc, msock,          \* the master and the socket it has accepted
    wpc, wnum, client,   \* the workers and the sockets they serve
    accepted,  \* history: number of sockets accepted
    closed,    \* history: sockets closed
    dropped,   \* history: sockets that did not get into the queue
    failed     \* history: workers that ended for want of memory

queue   == <<ring, head, tail>>
starter == <<spc, snum, started>>
master  == <<mpc, msock>>
workers == <<wpc, wnum, client>>
ghosts  == <<accepted, closed, dropped, failed>>
vars    == <<stop, num, owner, queue, starter, master, workers, ghosts>>

Worker == 1 .. NumThreads
Master == 0
Nobody == -1
NoSock == 0

Init ==
    /\ stop = 0 /\ num = 0 /\ owner = Nobody
    /\ ring = [k \in 0 .. QueueSize - 1 |-> NoSock] /\ head = 0 /\ tail = 0
    /\ spc = "start" /\ snum = 0 /\ started = 0
    /\ mpc \in IF MayFail THEN {"select", "none"} ELSE {"select"}
    /\ msock = NoSock
    /\ wpc = [w \in Worker |-> "none"]
    /\ wnum = [w \in Worker |-> 0]
    /\ client = [w \in Worker |-> NoSock]
    /\ accepted = 0 /\ closed = {} /\ dropped = {} /\ failed = {}
-----------------------------------------------------------------------------
(* The thread that calls mg_start() and mg_stop().                         *)

StartWorker ==
    /\ spc = "start" /\ started < NumThreads
    /\ started' = started + 1
    /\ \/ wpc' = [wpc EXCEPT ![started'] = "begin"] /\ spc' = "count"
       \/ MayFail /\ UNCHANGED <<wpc, spc>>
    /\ UNCHANGED <<stop, num, owner, queue, snum, master, wnum, client, ghosts>>

(* ctx->num_threads++, without the mutex.                                  *)
ReadNum ==
    /\ spc = "count"
    /\ snum' = num
    /\ spc' = "write"
    /\ UNCHANGED <<stop, num, owner, queue, started, master, workers, ghosts>>

(* Mutant of OneMore: the count is set, whatever it was.                   *)
SetToOne == num' = 1

OneMore == num' = snum + 1

WriteNum ==
    /\ spc = "write"
    /\ OneMore
    /\ spc' = "start"
    /\ UNCHANGED <<stop, owner, queue, snum, started, master, workers, ghosts>>

StopCalled ==
    /\ spc = "start" /\ started = NumThreads
    /\ stop' = 1
    /\ spc' = "stopping"
    /\ UNCHANGED <<num, owner, queue, snum, started, master, workers, ghosts>>

(* stop_flag is 2: the context is freed.                                   *)
StopReturns ==
    /\ spc = "stopping" /\ stop = 2
    /\ spc' = "returned"
    /\ UNCHANGED <<stop, num, owner, queue, snum, started, master, workers, ghosts>>
-----------------------------------------------------------------------------
(* Condition variables: pthread_cond_signal wakes one waiter, if any.      *)

Asleep == {w \in Worker : wpc[w] = "asleep"}

SignalAny ==
    IF Asleep = {} THEN UNCHANGED wpc
                   ELSE \E w \in Asleep : wpc' = [wpc EXCEPT ![w] = "consume"]

(* Mutants of SignalFull: a worker is told only when the queue was empty;  *)
(* none is ever told.                                                      *)
SignalFirst  == IF head = tail THEN SignalAny ELSE UNCHANGED wpc
SignalNobody == UNCHANGED wpc

SignalFull == SignalAny

SignalEmpty == mpc' = IF mpc = "asleep" THEN "produce" ELSE mpc

Full  == head - tail >= QueueSize
Empty == head = tail
-----------------------------------------------------------------------------
(* master_thread().                                                        *)

Select ==
    /\ mpc = "select"
    /\ mpc' = IF stop = 0 THEN "accept" ELSE "stopping"
    /\ UNCHANGED <<stop, num, owner, queue, starter, msock, workers, ghosts>>

(* accept_new_connection(), if select() reported one: it may have gone, or *)
(* be refused and closed for its address.                                  *)
Accept ==
    /\ mpc = "accept"
    /\ \/ /\ mpc' = "select"
          /\ UNCHANGED <<msock, accepted, closed>>
       \/ /\ accepted < MaxConns
          /\ accepted' = accepted + 1
          /\ \/ mpc' = "produce" /\ msock' = accepted' /\ UNCHANGED closed
             \/ mpc' = "select" /\ closed' = closed \union {accepted'}
                /\ UNCHANGED msock
    /\ UNCHANGED <<stop, num, owner, queue, starter, workers, dropped, failed>>

(* produce_socket(): the loop's test, with the mutex.                      *)
ProduceWait ==
    /\ mpc = "produce" /\ owner = Nobody
    /\ stop = 0 /\ Full
    /\ owner' = Master
    /\ mpc' = "wait"
    /\ UNCHANGED <<stop, num, queue, starter, msock, workers, ghosts>>

MasterSleeps ==
    /\ mpc = "wait"
    /\ owner' = Nobody
    /\ mpc' = "asleep"
    /\ UNCHANGED <<stop, num, queue, starter, msock, workers, ghosts>>

(* ... and what follows it.  A socket that finds no place is forgotten.    *)
Produce ==
    /\ mpc = "produce" /\ owner = Nobody
    /\ stop # 0 \/ ~Full
    /\ IF Full
       THEN dropped' = dropped \union {msock} /\ UNCHANGED <<ring, head>>
       ELSE /\ ring' = [ring EXCEPT ![head % QueueSize] = msock]
            /\ head' = head + 1
            /\ UNCHANGED dropped
    /\ SignalFull
    /\ mpc' = "select" /\ msock' = NoSock
    /\ UNCHANGED <<stop, num, owner, tail, starter, wnum, client, accepted, closed,
                   failed>>

(* The broadcast, without the mutex: it reaches who is asleep by now.      *)
Broadcast ==
    /\ mpc = "stopping"
    /\ wpc' = [w \in Worker |-> IF w \in Asleep THEN "consume" ELSE wpc[w]]
    /\ mpc' = "join"
    /\ UNCHANGED <<stop, num, owner, queue, starter, msock, wnum, client, ghosts>>

(* Mutant of AllGone: one worker too few is waited for.                    *)
AllButOneGone == num <= 1

AllGone == num <= 0

(* num_threads is counted down and cond signalled with the mutex held, so  *)
(* this wait is a guard.                                                   *)
Join ==
    /\ mpc = "join" /\ owner = Nobody
    /\ AllGone
    /\ stop' = 2
    /\ mpc' = "done"
    /\ UNCHANGED <<num, owner, queue, starter, msock, workers, ghosts>>

MasterStep ==
    \/ Select \/ Accept \/ ProduceWait \/ MasterSleeps \/ Produce
    \/ Broadcast \/ Join
-----------------------------------------------------------------------------
(* worker_thread().                                                        *)

Begin(w) ==
    /\ wpc[w] = "begin"
    /\ \/ /\ wpc' = [wpc EXCEPT ![w] = "consume"]
          /\ UNCHANGED failed
       \/ /\ MayFail
          /\ wpc' = [wpc EXCEPT ![w] = "leave"]
          /\ failed' = failed \union {w}
    /\ UNCHANGED <<stop, num, owner, queue, starter, master, wnum, client,
                   accepted, closed, dropped>>

(* consume_socket(): the loop's test, with the mutex.                      *)
ConsumeWait(w) ==
    /\ wpc[w] = "consume" /\ owner = Nobody
    /\ Empty /\ stop = 0
    /\ owner' = w
    /\ wpc' = [wpc EXCEPT ![w] = "wait"]
    /\ UNCHANGED <<stop, num, queue, starter, master, wnum, client, ghosts>>

WorkerSleeps(w) ==
    /\ wpc[w] = "wait"
    /\ owner' = Nobody
    /\ wpc' = [wpc EXCEPT ![w] = "asleep"]
    /\ UNCHANGED <<stop, num, queue, starter, master, wnum, client, ghosts>>

(* Mutant of Wrap: the head is left where it is.                           *)
WrapTail ==
    /\ tail' = IF tail + 1 > QueueSize THEN tail + 1 - QueueSize ELSE tail + 1
    /\ UNCHANGED head

(* sq_tail++, and both pointers are moved back by the size of the queue.   *)
Wrap ==
    LET back == IF tail + 1 > QueueSize THEN QueueSize ELSE 0
    IN  tail' = tail + 1 - back /\ head' = head - back

Oldest == ring[tail % QueueSize]

(* ... and what follows it, up to the unlock.                              *)
Consume(w) ==
    /\ wpc[w] = "consume" /\ owner = Nobody
    /\ stop # 0 \/ ~Empty
    /\ IF head > tail
       THEN client' = [client EXCEPT ![w] = Oldest] /\ Wrap
       ELSE UNCHANGED <<client, head, tail>>
    /\ SignalEmpty
    /\ wpc' = [wpc EXCEPT ![w] = "taken"]
    /\ UNCHANGED <<stop, num, owner, ring, starter, msock, wnum, ghosts>>

(* return !stop_flag, without the mutex: a worker that finds itself        *)
(* stopping does not serve the socket it has taken.                        *)
Return(w) ==
    /\ wpc[w] = "taken"
    /\ wpc' = [wpc EXCEPT ![w] = IF stop = 0 THEN "serve" ELSE "leave"]
    /\ UNCHANGED <<stop, num, owner, queue, starter, master, wnum, client, ghosts>>

(* process_new_connection(), close_connection().                           *)
Serve(w) ==
    /\ wpc[w] = "serve"
    /\ closed' = closed \union {client[w]}
    /\ client' = [client EXCEPT ![w] = NoSock]
    /\ wpc' = [wpc EXCEPT ![w] = "consume"]
    /\ UNCHANGED <<stop, num, owner, queue, starter, master, wnum, accepted, dropped,
                   failed>>

(* The end of the thread: num_threads--, with the mutex held.              *)
Leave(w) ==
    /\ wpc[w] = "leave" /\ owner = Nobody
    /\ owner' = w
    /\ wnum' = [wnum EXCEPT ![w] = num]
    /\ wpc' = [wpc EXCEPT ![w] = "left"]
    /\ UNCHANGED <<stop, num, queue, starter, master, client, ghosts>>

Left(w) ==
    /\ wpc[w] = "left"
    /\ num' = wnum[w] - 1
    /\ owner' = Nobody
    /\ wpc' = [wpc EXCEPT ![w] = "done"]
    /\ UNCHANGED <<stop, queue, starter, master, wnum, client, ghosts>>

WorkerStep(w) ==
    \/ Begin(w) \/ ConsumeWait(w) \/ WorkerSleeps(w) \/ Consume(w) \/ Return(w)
    \/ Serve(w) \/ Leave(w) \/ Left(w)

Wakeup(w) ==
    /\ Spurious
    /\ wpc[w] = "asleep"
    /\ wpc' = [wpc EXCEPT ![w] = "consume"]
    /\ UNCHANGED <<stop, num, owner, queue, starter, master, wnum, client, ghosts>>
-----------------------------------------------------------------------------
Starting == StartWorker \/ ReadNum \/ WriteNum

Next ==
    \/ Starting \/ StopCalled \/ StopReturns
    \/ MasterStep
    \/ \E w \in Worker : WorkerStep(w) \/ Wakeup(w)

Spec == Init /\ [][Next]_vars

(* Threads run, and clients come to an end with their requests.            *)
Fairness ==
    /\ WF_vars(Starting) /\ WF_vars(StopReturns) /\ WF_vars(MasterStep)
    /\ \A w \in Worker : WF_vars(WorkerStep(w))

FairSpec == Spec /\ Fairness
-----------------------------------------------------------------------------
Waiting == {ring[k % QueueSize] : k \in tail .. head - 1}

(* Every socket accepted is in one place and once only: with the master, in*)
(* the ring, with one worker, closed, or forgotten at the stop.  The ring  *)
(* never overwrites a socket, hands none out twice, and keeps the order of *)
(* accept(): none that was taken came after one that waits.                *)
Accounted ==
    /\ \A s \in 1 .. accepted :
            Cardinality({k \in tail .. head - 1 : ring[k % QueueSize] = s})
          + Cardinality({w \in Worker : client[w] = s})
          + Cardinality({i \in 1 .. 3 : s \in <<closed, dropped, {msock}>>[i]}) = 1
    /\ \A k, l \in tail .. head - 1 :
          k < l => ring[k % QueueSize] < ring[l % QueueSize]
    /\ \A w \in Worker : \A s \in Waiting : client[w] < s

(* While the server runs, a worker sleeps only if enough others are on     *)
(* their way to the queue for every socket in it, and the master only if   *)
(* the queue is full: one signal per socket is enough, and none gets lost. *)
NobodySleepsOnWork ==
    /\ stop = 0 /\ Asleep # {} =>
          head - tail <= Cardinality({w \in Worker : wpc[w] = "consume"})
    /\ mpc = "asleep" => Full

(* mg_stop() frees the context when every worker has ended, and not before,*)
(* and a worker that has counted itself out finds the count not negative   *)
(* (the assertion of src/src/mongoose.c:4556), although it goes up outside *)
(* the mutex: provided that each of them got its memory.  mg_start() counts*)
(* a worker in after it was started, so one that fails at once may be out  *)
(* before it is in.                                                        *)
ThreadsEndFirst ==
    failed = {} => /\ num >= 0
                   /\ stop = 2 => \A w \in Worker : wpc[w] \in {"none", "done"}

(* mg_start() is over and none of its workers is there to serve.           *)
NoWorker ==
    /\ started = NumThreads
    /\ \A w \in Worker : wpc[w] = "none" \/ w \in failed

(* A socket in the queue is served in the end, unless the server stops or  *)
(* no worker could be started.                                             *)
Served ==
    \A s \in 1 .. MaxConns :
        s \in Waiting ~> s \in closed \/ stop # 0 \/ NoWorker

(* src/src/mongoose.h:119: mg_stop() blocks until all threads are stopped; *)
(* it comes back.                                                          *)
StopEnds == spc = "stopping" ~> spc = "returned"
=============================================================================
