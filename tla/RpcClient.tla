------------------------------ MODULE RpcClient ------------------------------
(***************************************************************************)
(* The Java client of the TCE RPC (src/tce/java/tce): one connection       *)
(* object, RpcConnection_SocketXML, that several threads call through the  *)
(* generated proxies and on which the server calls back.                   *)
(*                                                                         *)
(* A call takes a number, enters itself in _msglist, makes a connection    *)
(* when there is none, writes itself and waits.  Every connection made has *)
(* a thread that reads envelopes, hands answers to the calls they answer,  *)
(* runs the server's calls and fails all pending calls when it ends.       *)
(* _sock, _workthread and _seq are read and written without a lock, so     *)
(* each access to them is a step; _msglist is used under its own monitor.  *)
(* The body of an envelope is left out, and so are envelopes above         *)
(* MAXPACKET_SIZE.  Sockets and readers are numbered as they are made.     *)
(***************************************************************************)
EXTENDS Integers, Sequences, FiniteSets, FiniteSetsExt

CONSTANTS
    Call,         \* the calls made, each by a thread of its own
    Kinds,        \* how they are made: waiting, with a time-out or without,
                  \* with a callback, or without an answer
    Nil, Reply,   \* no message; the answer to a call of the server
    MaxSeq,       \* Integer.MAX_VALUE - 0xffff
    MaxSocks,     \* bound: sockets made
    MaxReverse,   \* bound: calls the server makes
    MaxCalls,     \* bound: calls made, the server's included
    MaxEnds       \* bound: connections ended, by the server or by close()

ASSUME KindsAssumption == Kinds \subseteq [Call -> {"sync", "timed", "async", "oneway"}]
ASSUME NamesAssumption ==             \* the readers are numbers
    /\ Call \cap Nat = {} /\ Nil # Reply /\ {Nil, Reply} \cap Call = {}
ASSUME BoundsAssumption ==
    /\ IsFiniteSet(Call)
    /\ {MaxSeq, MaxSocks, MaxReverse, MaxCalls, MaxEnds} \subseteq Nat
    /\ MaxSeq >= 1 /\ MaxReverse <= MaxSeq

Sock   == 1 .. MaxSocks
Reader == Sock                        \* a connection starts one reader
Thread == Call \union Reader
Number == 1 .. MaxSeq                 \* of a message, of either side

VARIABLES
    kind, pc, got, num,     \* threads: kind of call, place, _seq as read,
                            \* number of the message they send
    result, lost,           \* calls: answer, RPCERROR_CONNECTION_LOST
    early,                  \* history: calls notified before they waited
    seq, msglist,           \* _seq; _msglist, Nil where it has no entry
    sock, work,             \* _sock, _workthread; 0 when null
    made, started,          \* sockets and readers made
    up, gone,               \* sockets: their state here; ended by the peer
    requests, incoming,     \* sockets: calls at the server, text to read
    stream, strbuf, hand,   \* readers: is, strbuf, message being delivered
    user,                   \* the thread that calls close(): place, and
                            \* the reader it joins
    reversed, ends          \* server's calls made, connections ended

threads == <<pc, got, num>>
calls   == <<kind, result, lost, early>>
fields  == <<sock, work, made, started>>
network == <<up, gone, requests, incoming, ends, reversed>>
readers == <<stream, strbuf, hand>>
vars    == <<threads, calls, seq, msglist, fields, network, readers, user>>

Init ==
    /\ kind \in Kinds
    /\ pc = [t \in Thread |-> IF t \in Call THEN "number" ELSE "none"]
    /\ got = [t \in Thread |-> 0] /\ num = [t \in Thread |-> 0]
    /\ result = [c \in Call |-> Nil] /\ lost = [c \in Call |-> FALSE]
    /\ early = {}
    /\ seq = 0 /\ msglist = [n \in Number |-> Nil]
    /\ sock = 0 /\ work = 0 /\ made = 0 /\ started = 0
    /\ up = [s \in Sock |-> "new"] /\ gone = [s \in Sock |-> FALSE]
    /\ requests = [s \in Sock |-> {}] /\ incoming = [s \in Sock |-> << >>]
    /\ stream = [r \in Reader |-> 0] /\ strbuf = [r \in Reader |-> << >>]
    /\ hand = [r \in Reader |-> Nil]
    /\ user = [at |-> "open", joins |-> 0] /\ reversed = 0 /\ ends = 0

Go(t, place) == pc' = [pc EXCEPT ![t] = place]
-----------------------------------------------------------------------------
(* The text of the stream.  An envelope is its begin, which a read may cut *)
(* in two, and its end; the server puts white space around it, as the one  *)
(* of the tests does (simu_ts.py).                                         *)

Gap == [part |-> "gap", msg |-> Nil]
Envelope(m) == <<Gap, [part |-> "begin", msg |-> m], [part |-> "name", msg |-> m],
                 [part |-> "close", msg |-> m], Gap>>

Begins(text) == {i \in 1 .. Len(text) - 1 :
                    text[i].part = "begin" /\ text[i + 1].part = "name"}
Closes(text) == {i \in DOMAIN text : text[i].part = "close"}

(* RpcMessageXML.unmarshall(): Nil for what is not a document.             *)
Unmarshall(xml) ==
    LET words == SelectSeq(xml, LAMBDA w : w.part # "gap")
    IN  IF Len(xml) >= 3 /\ [i \in DOMAIN words |-> words[i].part] =
                                <<"begin", "name", "close">>
        THEN xml[2].msg ELSE Nil

(* What run() makes of strbuf after a read: the message, if any, what is   *)
(* left, and whether substring() throws.  last was found before the text   *)
(* in front of first was cut off, so that it points too far.               *)
Framed(text) ==
    LET first == Min(Begins(text))
        last  == Min(Closes(text))
        cut   == SubSeq(text, first, Len(text))
        out(m, rest, throws) == [msg |-> m, rest |-> rest, throws |-> throws]
    IN  IF Begins(text) = {}
        THEN IF Closes(text) = {} THEN out(Nil, << >>, FALSE)
             ELSE out(Nil, SubSeq(text, last + 1, Len(text)), FALSE)
        ELSE IF Closes(text) = {} THEN out(Nil, cut, FALSE)
        ELSE IF last > Len(cut) THEN out(Nil, cut, TRUE)
        ELSE out(Unmarshall(SubSeq(cut, 1, last)),
                 SubSeq(cut, last + 1, Len(cut)), FALSE)
-----------------------------------------------------------------------------
(* Numbering, by a call and by unmarshall() of a call of the server, whose *)
(* number then replaces the one taken.  The servant's operation is run by  *)
(* the reader, which sends an answer unless the call is one-way or void.   *)

Made == reversed + Cardinality({c \in Call : pc[c] # "number"})

GetSequence(t) ==
    /\ pc[t] = "number"
    /\ t \in Call => Made < MaxCalls
    /\ got' = [got EXCEPT ![t] = IF seq >= MaxSeq THEN 0 ELSE seq]
    /\ Go(t, "numbered")
    /\ UNCHANGED <<num, calls, seq, msglist, fields, network, readers, user>>

PutSequence(t) ==
    /\ pc[t] = "numbered"
    /\ seq' = got[t] + 1
    /\ num' = [num EXCEPT ![t] = IF t \in Call THEN got[t] + 1 ELSE hand[t].num]
    /\ got' = [got EXCEPT ![t] = 0]
    /\ IF t \in Call THEN Go(t, "put") /\ UNCHANGED hand
       ELSE /\ \E place \in {"put", "read"} : Go(t, place)
            /\ hand' = [hand EXCEPT ![t] = Nil]
    /\ UNCHANGED <<calls, msglist, fields, network, stream, strbuf, user>>

(* sendMessage(): the entry in _msglist, for an answer too, then           *)
(* sendDetail(), and the entry taken back when that failed.                *)
Entry(t) == IF t \in Call THEN t ELSE Reply
Entered(list, t) == [list EXCEPT ![num[t]] = Entry(t)]

Put(t) ==
    /\ pc[t] = "put"
    /\ msglist' = Entered(msglist, t)
    /\ Go(t, "check")
    /\ UNCHANGED <<got, num, calls, seq, fields, network, readers, user>>

CheckSock(t) ==
    /\ pc[t] = "check"
    /\ Go(t, IF sock = 0 THEN "make" ELSE "write")
    /\ UNCHANGED <<got, num, calls, seq, msglist, fields, network, readers, user>>

(* connect(): what it does after the first line is done to whatever socket *)
(* _sock is by then.                                                       *)
MakeSock(t) ==
    /\ pc[t] = "make" /\ made < MaxSocks
    /\ made' = made + 1
    /\ sock' = made'
    /\ Go(t, "connect")
    /\ UNCHANGED <<got, num, calls, seq, msglist, work, started, network,
                   readers, user>>

Connect(t) ==
    /\ pc[t] = "connect"
    /\ \/ /\ sock # 0 /\ up[sock] = "new"
          /\ up' = [up EXCEPT ![sock] = "connected"]
          /\ Go(t, "start")
          /\ UNCHANGED sock
       \/ /\ sock' = 0                  \* refused, or no socket to connect
          /\ Go(t, "unsent")
          /\ UNCHANGED up
    /\ UNCHANGED <<got, num, calls, seq, msglist, work, made, started, gone,
                   requests, incoming, ends, reversed, readers, user>>

StartReader(t) ==
    /\ pc[t] = "start"
    /\ started' = started + 1
    /\ work' = started'
    /\ pc' = [pc EXCEPT ![t] = "write", ![started'] = "begin"]
    /\ UNCHANGED <<got, num, calls, seq, msglist, sock, made, network, readers,
                   user>>

(* What is written on a connection that its peer has ended may still be    *)
(* taken, and is gone.                                                     *)
Request(t) == [ret |-> FALSE, num |-> num[t], call |-> Entry(t)]
Wanted(t) == t \in Call /\ kind[t] # "oneway"      \* what will be answered
Sent(t) == IF t \in Call THEN "sent" ELSE "read"

Write(t) ==
    /\ pc[t] = "write"
    /\ \/ /\ sock # 0 /\ up[sock] = "connected"
          /\ requests' = IF gone[sock] \/ ~Wanted(t) THEN requests
                         ELSE [requests EXCEPT ![sock] = @ \union {Request(t)}]
          /\ Go(t, Sent(t))
       \/ /\ sock # 0 => up[sock] # "connected" \/ gone[sock]
          /\ Go(t, "unsent")
          /\ UNCHANGED requests
    /\ UNCHANGED <<got, num, calls, seq, msglist, fields, up, gone, incoming,
                   ends, reversed, readers, user>>

TakeBack(t) ==
    /\ pc[t] = "unsent"
    /\ msglist' = [msglist EXCEPT ![num[t]] = Nil]
    /\ Go(t, IF t \in Call THEN "done" ELSE "read")
    /\ UNCHANGED <<got, num, calls, seq, fields, network, readers, user>>

Send(t) == \/ GetSequence(t) \/ PutSequence(t) \/ Put(t) \/ CheckSock(t)
           \/ MakeSock(t) \/ Connect(t) \/ StartReader(t) \/ Write(t)
           \/ TakeBack(t)

(* The generated proxy: it waits without a look at what has come already.  *)
BeginWait(c) ==
    /\ pc[c] = "sent"
    /\ Go(c, IF kind[c] \in {"sync", "timed"} THEN "wait" ELSE "done")
    /\ UNCHANGED <<got, num, calls, seq, msglist, fields, network, readers, user>>

Timeout(c) ==
    /\ pc[c] = "wait" /\ kind[c] = "timed"
    /\ Go(c, "done")
    /\ UNCHANGED <<got, num, calls, seq, msglist, fields, network, readers, user>>

(* notify() on these calls: a thread that does not wait misses it.         *)
(* Mutant of Notified: one of several.                                     *)
NotifiedOne(places, S) ==
    LET one == CHOOSE c \in S : TRUE
    IN  [t \in Thread |-> IF S # {} /\ t = one /\ places[t] = "wait"
                          THEN "done" ELSE places[t]]

Notified(places, S) ==
    [t \in Thread |-> IF t \in S /\ places[t] = "wait" THEN "done" ELSE places[t]]
Missing(S) == {c \in S : pc[c] # "wait"}
-----------------------------------------------------------------------------
(* The reading threads.                                                    *)

(* The thread takes the stream of whatever _sock is when it begins.        *)
BeginRead(r) ==
    /\ pc[r] = "begin"
    /\ IF sock # 0 /\ up[sock] = "connected"
       THEN /\ stream' = [stream EXCEPT ![r] = sock]
            /\ Go(r, "read")
       ELSE /\ Go(r, "lost")
            /\ UNCHANGED stream
    /\ UNCHANGED <<got, num, calls, seq, msglist, fields, network, strbuf, hand,
                   user>>

(* dispatchMsg(): a call is run, and its answer sent as any message is; an *)
(* answer is taken to the call entered under its number.                   *)

(* Mutant of Answered: any call that is pending.                           *)
AnsweredAny(list, m) ==
    IF \E n \in Number : list[n] # Nil
    THEN list[Min({n \in Number : list[n] # Nil})] ELSE Nil

Answered(list, m) == list[m.num]

(* Mutant of Settled: the entry stays.                                     *)
SettledLater(list, m) == list

Settled(list, m) == [list EXCEPT ![m.num] = Nil]

Dispatch(r, m) ==
    IF m = Nil THEN UNCHANGED <<pc, hand, msglist>>
    ELSE IF ~m.ret
    THEN /\ hand' = [hand EXCEPT ![r] = m]
         /\ Go(r, "number")
         /\ UNCHANGED msglist
    ELSE /\ hand' = [hand EXCEPT ![r] = [to |-> Answered(msglist, m), msg |-> m]]
         /\ msglist' = Settled(msglist, m)
         /\ Go(r, "deliver")

Read(r) ==
    /\ pc[r] = "read" /\ up[stream[r]] = "connected"
    /\ \E k \in 1 .. Len(incoming[stream[r]]) :
         LET s == stream[r]
             f == Framed(strbuf[r] \o SubSeq(incoming[s], 1, k))
         IN  /\ incoming' = [incoming EXCEPT ![s] = SubSeq(@, k + 1, Len(@))]
             /\ strbuf' = [strbuf EXCEPT ![r] = f.rest]
             /\ IF f.throws
                THEN Go(r, "lost") /\ UNCHANGED <<hand, msglist>>
                ELSE Dispatch(r, f.msg)
    /\ UNCHANGED <<got, num, calls, seq, fields, up, gone, requests, ends,
                   reversed, stream, user>>

(* doReturnMsg(), after the entry is taken out of the list.                *)
Deliver(r) ==
    /\ pc[r] = "deliver"
    /\ LET c == hand[r].to
       IN  IF c \in Call /\ kind[c] # "async"
           THEN /\ result' = [result EXCEPT ![c] = hand[r].msg.call]
                /\ early' = early \union Missing({c})
                /\ pc' = [Notified(pc, {c}) EXCEPT ![r] = "read"]
           ELSE Go(r, "read") /\ UNCHANGED <<result, early>>
    /\ hand' = [hand EXCEPT ![r] = Nil]
    /\ UNCHANGED <<got, num, kind, lost, seq, msglist, fields, network, stream,
                   strbuf, user>>

(* The peer has ended the connection: _sock.close(), of whatever socket    *)
(* that is, or an exception of read().                                     *)
EndOfStream(r) ==
    /\ pc[r] = "read"
    /\ \/ /\ gone[stream[r]] /\ incoming[stream[r]] = << >>
          /\ up[stream[r]] = "connected"
          /\ up' = [s \in Sock |-> IF s = sock THEN "closed" ELSE up[s]]
       \/ /\ gone[stream[r]] \/ up[stream[r]] = "closed"
          /\ UNCHANGED up
    /\ Go(r, "lost")
    /\ UNCHANGED <<got, num, calls, seq, msglist, fields, gone, requests, incoming,
                   ends, reversed, readers, user>>

(* onDisconnected(): all that is pending fails.                            *)
Pending == {c \in Call : \E n \in Number : msglist[n] = c}

Fail(r) ==
    /\ pc[r] = "lost"
    /\ lost' = [c \in Call |-> lost[c] \/ c \in Pending]
    /\ early' = early \union Missing(Pending)
    /\ pc' = [Notified(pc, Pending) EXCEPT ![r] = "forget"]
    /\ msglist' = [n \in Number |-> Nil]
    /\ UNCHANGED <<got, num, kind, result, seq, fields, network, readers, user>>

Forget(r) ==
    /\ pc[r] = "forget"
    /\ sock' = 0
    /\ Go(r, "ended")
    /\ stream' = [stream EXCEPT ![r] = 0]
    /\ strbuf' = [strbuf EXCEPT ![r] = << >>]
    /\ UNCHANGED <<got, num, calls, seq, msglist, work, made, started, network,
                   hand, user>>

Run(r) == \/ BeginRead(r) \/ Read(r) \/ Deliver(r) \/ EndOfStream(r)
          \/ Fail(r) \/ Forget(r)
-----------------------------------------------------------------------------
(* close(), once, by a thread of the user.                                 *)
Close ==
    /\ user.at = "open" /\ ends < MaxEnds
    /\ ends' = ends + 1
    /\ user' = [user EXCEPT !.at = IF sock = 0 THEN "closed" ELSE "clear"]
    /\ up' = [s \in Sock |-> IF s = sock THEN "closed" ELSE up[s]]
    /\ UNCHANGED <<threads, calls, seq, msglist, fields, gone, requests, incoming,
                   reversed, readers>>

ClearSock ==
    /\ user.at = "clear"
    /\ sock' = 0
    /\ user' = [at |-> IF work = 0 THEN "closed" ELSE "join", joins |-> work]
    /\ UNCHANGED <<threads, calls, seq, msglist, work, made, started, network,
                   readers>>

Join ==
    /\ user.at = "join" /\ pc[user.joins] = "ended"
    /\ work' = 0
    /\ user' = [at |-> "closed", joins |-> 0]
    /\ UNCHANGED <<threads, calls, seq, msglist, sock, made, started, network,
                   readers>>

(* The server, external: it answers calls in any order, makes calls that   *)
(* it numbers itself, from 1 on, and may end a connection.                 *)
Say(s, m) == incoming' = [incoming EXCEPT ![s] = @ \o Envelope(m)]

Answer(s) ==
    /\ up[s] = "connected" /\ ~gone[s]
    /\ \E q \in requests[s] :
         /\ requests' = [requests EXCEPT ![s] = @ \ {q}]
         /\ Say(s, [q EXCEPT !.ret = TRUE])
    /\ UNCHANGED <<threads, calls, seq, msglist, fields, up, gone, ends, reversed,
                   readers, user>>

Reverse(s) ==
    /\ up[s] = "connected" /\ ~gone[s]
    /\ reversed < MaxReverse /\ Made < MaxCalls
    /\ reversed' = reversed + 1
    /\ Say(s, [ret |-> FALSE, num |-> reversed', call |-> Nil])
    /\ UNCHANGED <<threads, calls, seq, msglist, fields, up, gone, requests, ends,
                   readers, user>>

Lose(s) ==
    /\ up[s] = "connected" /\ ~gone[s]
    /\ ends < MaxEnds
    /\ ends' = ends + 1
    /\ gone' = [gone EXCEPT ![s] = TRUE]
    /\ requests' = [requests EXCEPT ![s] = {}]
    /\ UNCHANGED <<threads, calls, seq, msglist, fields, up, incoming,
                   reversed, readers, user>>

Next ==
    \/ \E t \in Thread : Send(t)
    \/ \E c \in Call : BeginWait(c) \/ Timeout(c)
    \/ \E r \in Reader : Run(r)
    \/ Close \/ ClearSock \/ Join
    \/ \E s \in Sock : Answer(s) \/ Reverse(s) \/ Lose(s)

Spec == Init /\ [][Next]_vars
-----------------------------------------------------------------------------
(* The server's numbers are its own, and two calls that number themselves  *)
(* at the same time may get the same one.                                  *)
Shared(c) == num[c] \in 1 .. reversed \/ \E d \in Call \ {c} : num[d] = num[c]

(* A call that waits is one that its answer or a disconnect will still     *)
(* find and wake, except in the two ways the code has to lose it: it was   *)
(* notified between sendMessage() and wait(), where nobody listens, or     *)
(* another message was entered, settled or taken back under its number.    *)
(* No order of sending, answering, losing and closing connections and      *)
(* making them again leaves a call asleep in a third way.                  *)
AsleepForCause ==
    \A c \in Call : pc[c] = "wait" =>
        \/ msglist[num[c]] = c
        \/ \E r \in Reader : pc[r] = "deliver" /\ hand[r].to = c
        \/ c \in early
        \/ Shared(c)

(* A call is settled once: it is given the answer the server made for it,  *)
(* unless its number is not its own, and whoever is given an answer is not *)
(* told of a lost connection by a reader that ends later, nor the other    *)
(* way round.                                                              *)
SettledOnce ==
    \A c \in Call :
        /\ result[c] \in {Nil, c} \/ Shared(c)
        /\ ~(result[c] # Nil /\ lost[c])
=============================================================================
