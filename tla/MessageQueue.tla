---------------------------- MODULE MessageQueue ----------------------------
(***************************************************************************)
(* MessageQueue (src/src/mq.cpp): the reports' way from the qpid broker to *)
(* LocServer::update.                                                      *)
(*                                                                         *)
(* open() makes a connection, a session and a receiver, and starts a       *)
(* reading and a decoding thread; check(), on the ios thread, calls it     *)
(* again when the connection is not open.  Every reader and every decoder  *)
(* works on the members of the one object: _conn, _session, _recver, _dcs. *)
(* Nothing stops the threads of an earlier open(): its reader ends when    *)
(* its fetch throws, and then closes whatever connection _conn is by now;  *)
(* its decoder never ends.  close(), called by LocServer::exec after the   *)
(* ios thread has ended, joins the two threads started last.               *)
(*                                                                         *)
(* The broker and the qpid client are external.  acknowledge() covers the  *)
(* messages fetched on its session so far and is asynchronous; what is not *)
(* settled when a connection goes is put back in its place in the queue.   *)
(* Messages are numbered in the order of the queue.                        *)
(***************************************************************************)
EXTENDS Integers, Sequences, FiniteSets, FiniteSetsExt

CONSTANTS
    MaxMsg,       \* bound: messages sent to the queue
    Malformed,    \* messages parseMsg() makes nothing of
    MaxOpens,     \* bound: calls of open()
    MaxLosses     \* bound: connections lost

Msg  == 1 .. MaxMsg
Conn == 1 .. MaxOpens        \* connections, and the threads of their open()

ASSUME BoundsAssumption ==
    MaxMsg \in Nat /\ MaxOpens \in Nat \ {0} /\ MaxLosses \in Nat
ASSUME MalformedAssumption == Malformed \subseteq Msg

VARIABLES
    queue,      \* at the broker: messages to fetch
    out,        \* per connection: fetched and not settled at the broker
    acking,     \* per connection: part of out that acknowledge() covers
    cstate,     \* per connection: "none", "open", "closed"
    conn,       \* _conn: its number, 0 when null
    session,    \* _session: the number of its connection
    recver,     \* _recver: the number of its connection
    latest,     \* _thread_read, _thread_decode: started by which open()
    opener,     \* who runs open(): "idle", "connect", "session", "receiver"
    rpc, ron, rhand,     \* readers: place, receiver of the fetch, message
    dpc, dhand,          \* decoders: place, message
    intr,       \* decoders whose interruption was requested
    dcs,        \* _dcs: chunks read and not decoded
    exec,       \* LocServer::exec: "run", then the steps of close()
    crashed,    \* a null pointer was used: the process is gone
    applied,    \* what LocServer::update was called with
    losses,     \* history variable: connections lost
    strayed,    \* history variable: a reader used another open()'s session
    swept       \* history variable: chunks close() cleared from _dcs

broker  == <<queue, out, acking>>
members == <<cstate, conn, session, recver, latest>>
readers == <<rpc, ron, rhand>>
decoders == <<dpc, dhand, intr>>
ghosts  == <<losses, strayed, swept>>
vars == <<broker, members, opener, readers, decoders, dcs, exec, crashed,
          applied, ghosts>>

Init ==
    /\ queue = Msg
    /\ out = [c \in Conn |-> {}] /\ acking = [c \in Conn |-> {}]
    /\ cstate = [c \in Conn |-> "none"]
    /\ conn = 0 /\ session = 0 /\ recver = 0 /\ latest = 0
    /\ opener = "connect"          \* LocServer::prepare() calls open()
    /\ rpc = [c \in Conn |-> "none"]
    /\ ron = [c \in Conn |-> 0] /\ rhand = [c \in Conn |-> 0]
    /\ dpc = [c \in Conn |-> "none"] /\ dhand = [c \in Conn |-> 0]
    /\ intr = {}
    /\ dcs = << >>
    /\ exec = "run" /\ crashed = FALSE
    /\ applied = << >>
    /\ losses = 0 /\ strayed = FALSE /\ swept = {}
-----------------------------------------------------------------------------
(* The client library and the broker.                                      *)

IsOpen(c) == c # 0 /\ cstate[c] = "open"

(* The connection ends.  Of what its session fetched the broker takes the  *)
(* settled part for done and offers the rest again.                        *)
Drop(c, settled) ==
    /\ cstate' = [cstate EXCEPT ![c] = "closed"]
    /\ queue' = queue \union (out[c] \ settled)
    /\ out' = [out EXCEPT ![c] = {}]
    /\ acking' = [acking EXCEPT ![c] = {}]

(* Connection::close(): acknowledgements on their way still arrive.        *)
CloseConn(c) == Drop(c, acking[c])

Settle(c) ==
    /\ ~crashed /\ acking[c] # {}
    /\ out' = [out EXCEPT ![c] = @ \ acking[c]]
    /\ acking' = [acking EXCEPT ![c] = {}]
    /\ UNCHANGED <<queue, members, opener, readers, decoders, dcs, exec,
                   crashed, applied, ghosts>>

(* The connection is lost, and the acknowledgements on their way with it.  *)
Lose(c) ==
    /\ ~crashed /\ cstate[c] = "open"
    /\ losses < MaxLosses
    /\ losses' = losses + 1
    /\ Drop(c, {})
    /\ UNCHANGED <<conn, session, recver, latest, opener, readers, decoders,
                   dcs, exec, crashed, applied, strayed, swept>>
-----------------------------------------------------------------------------
Used == {c \in Conn : cstate[c] # "none"}

ToOpen == ~IsOpen(conn)

(* check() -> open() when there is no open connection.                     *)
Check ==
    /\ ~crashed /\ exec = "run" /\ opener = "idle"
    /\ ToOpen
    /\ Cardinality(Used) < MaxOpens
    /\ opener' = "connect"
    /\ UNCHANGED <<broker, members, readers, decoders, dcs, exec, crashed,
                   applied, ghosts>>

(* open(): _conn = new Connection, then its open().                        *)
Connect ==
    /\ ~crashed /\ opener = "connect"
    /\ LET c == Cardinality(Used) + 1
       IN  /\ conn' = c
           /\ \E ok \in BOOLEAN :
                 /\ cstate' = [cstate EXCEPT ![c] = IF ok THEN "open"
                                                          ELSE "closed"]
                 /\ opener' = IF ok THEN "session" ELSE "idle"
    /\ UNCHANGED <<broker, session, recver, latest, readers, decoders, dcs,
                   exec, crashed, applied, ghosts>>

CreateSession ==
    /\ ~crashed /\ opener = "session" /\ IsOpen(conn)
    /\ session' = conn /\ opener' = "receiver"
    /\ UNCHANGED <<broker, cstate, conn, recver, latest, readers, decoders,
                   dcs, exec, crashed, applied, ghosts>>

CreateReceiver ==
    /\ ~crashed /\ opener = "receiver" /\ IsOpen(conn)
    /\ opener' = "idle"
    /\ recver' = conn /\ latest' = conn
    /\ rpc' = [rpc EXCEPT ![conn] = "loop"]
    /\ dpc' = [dpc EXCEPT ![conn] = "take"]
    /\ UNCHANGED <<broker, cstate, conn, session, ron, rhand, dhand, intr, dcs,
                   exec, crashed, applied, ghosts>>

(* The exception path: the connection has gone, or the broker refuses.     *)
OpenThrows ==
    /\ ~crashed /\ opener \in {"session", "receiver"}
    /\ CloseConn(conn)
    /\ opener' = "idle"
    /\ UNCHANGED <<conn, session, recver, latest, readers, decoders, dcs, exec,
                   crashed, applied, ghosts>>
-----------------------------------------------------------------------------
(* readThread of the i-th open().                                          *)

BeginFetch(i) ==
    /\ ~crashed /\ rpc[i] = "loop"
    /\ rpc' = [rpc EXCEPT ![i] = "fetch"]
    /\ ron' = [ron EXCEPT ![i] = recver]
    /\ strayed' = (strayed \/ recver # i)
    /\ UNCHANGED <<broker, members, opener, rhand, decoders, dcs, exec,
                   crashed, applied, losses, swept>>

Fetched(i) ==
    /\ ~crashed /\ rpc[i] = "fetch"
    /\ IsOpen(ron[i])
    /\ queue # {}
    /\ rhand' = [rhand EXCEPT ![i] = Min(queue)]
    /\ queue' = queue \ {Min(queue)}
    /\ out' = [out EXCEPT ![ron[i]] = @ \union {Min(queue)}]
    /\ rpc' = [rpc EXCEPT ![i] = "ack"]
    /\ UNCHANGED <<acking, members, opener, ron, decoders, dcs, exec,
                   crashed, applied, ghosts>>

FetchThrows(i) ==
    /\ ~crashed /\ rpc[i] = "fetch"
    /\ ~IsOpen(ron[i])
    /\ rpc' = [rpc EXCEPT ![i] = "closing"]
    /\ UNCHANGED <<broker, members, opener, ron, rhand, decoders, dcs, exec,
                   crashed, applied, ghosts>>

(* _session.acknowledge(): throws on a session that has ended, and the     *)
(* message read goes with the stack.                                       *)
Acknowledge(i) ==
    /\ ~crashed /\ rpc[i] = "ack"
    /\ strayed' = (strayed \/ session # ron[i])
    /\ IF IsOpen(session)
       THEN /\ acking' = [acking EXCEPT ![session] = out[session]]
            /\ rpc' = [rpc EXCEPT ![i] = "push"]
            /\ UNCHANGED rhand
       ELSE /\ rpc' = [rpc EXCEPT ![i] = "closing"]
            /\ rhand' = [rhand EXCEPT ![i] = 0]
            /\ UNCHANGED acking
    /\ UNCHANGED <<queue, out, members, opener, ron, decoders, dcs, exec,
                   crashed, applied, losses, swept>>

(* Mutant of Pushed: push_front for push_back.                             *)
PushedFront(m) == << m >> \o dcs

Pushed(m) == Append(dcs, m)

Push(i) ==
    /\ ~crashed /\ rpc[i] = "push"
    /\ dcs' = Pushed(rhand[i])
    /\ rhand' = [rhand EXCEPT ![i] = 0]
    /\ rpc' = [rpc EXCEPT ![i] = "loop"]
    /\ UNCHANGED <<broker, members, opener, ron, decoders, exec, crashed,
                   applied, ghosts>>

(* The end of the thread closes _conn, which need not be its own.          *)
ReaderEnds(i) ==
    /\ ~crashed /\ rpc[i] = "closing"
    /\ rpc' = [rpc EXCEPT ![i] = "done"]
    /\ IF conn = 0
       THEN crashed' = TRUE /\ UNCHANGED <<broker, cstate>>
       ELSE CloseConn(conn) /\ UNCHANGED crashed
    /\ UNCHANGED <<conn, session, recver, latest, opener, ron, rhand,
                   decoders, dcs, exec, applied, ghosts>>

Reader(i) ==
    \/ BeginFetch(i) \/ Fetched(i) \/ FetchThrows(i)
    \/ Acknowledge(i) \/ Push(i) \/ ReaderEnds(i)
-----------------------------------------------------------------------------
(* decodeThread of the i-th open().                                        *)

(* Mutants of Popped: clear() for pop_front(), and no pop_front().         *)
Cleared   == << >>
NotPopped == dcs

Popped == Tail(dcs)

Take(i) ==
    /\ ~crashed /\ dpc[i] = "take"
    /\ dcs # << >>
    /\ dhand' = [dhand EXCEPT ![i] = Head(dcs)]
    /\ dcs' = Popped
    /\ dpc' = [dpc EXCEPT ![i] = "decode"]
    /\ UNCHANGED <<broker, members, opener, readers, intr, exec, crashed,
                   applied, ghosts>>

(* parseMsg() returns a report.                                            *)
Parsed(m) == m \notin Malformed

(* parseMsg(), and LocServer::update with the report it returns, if any.   *)
Decode(i) ==
    /\ ~crashed /\ dpc[i] = "decode"
    /\ applied' = IF Parsed(dhand[i]) THEN Append(applied, dhand[i])
                                       ELSE applied
    /\ dhand' = [dhand EXCEPT ![i] = 0]
    /\ dpc' = [dpc EXCEPT ![i] = "take"]
    /\ UNCHANGED <<broker, members, opener, readers, intr, dcs, exec,
                   crashed, ghosts>>

(* timed_wait, entered with an empty queue only, is where it is interrupted*)
Waits == dcs = << >>

DecoderEnds(i) ==
    /\ ~crashed /\ dpc[i] = "take"
    /\ Waits
    /\ i \in intr
    /\ dpc' = [dpc EXCEPT ![i] = "done"]
    /\ UNCHANGED <<broker, members, opener, readers, dhand, intr, dcs, exec,
                   crashed, applied, ghosts>>

Decoder(i) == Take(i) \/ Decode(i) \/ DecoderEnds(i)
-----------------------------------------------------------------------------
(* LocServer::exec: the ios thread has ended, so open() is not running.    *)
Shutdown ==
    /\ ~crashed /\ exec = "run" /\ opener = "idle"
    /\ exec' = "close"
    /\ UNCHANGED <<broker, members, opener, readers, decoders, dcs, crashed,
                   applied, ghosts>>

(* Mutant of CloseBegins: the pointer is reset before the threads end.     *)
CloseForgets ==
    /\ ~crashed /\ exec = "close"
    /\ CloseConn(conn)
    /\ conn' = 0
    /\ exec' = "interrupt"
    /\ UNCHANGED <<session, recver, latest, opener, readers, decoders, dcs,
                   crashed, applied, ghosts>>

CloseBegins ==
    /\ ~crashed /\ exec = "close"
    /\ CloseConn(conn)
    /\ exec' = "interrupt"
    /\ UNCHANGED <<conn, session, recver, latest, opener, readers, decoders,
                   dcs, crashed, applied, ghosts>>

(* Mutant of Interrupted: only the reading thread is told.                 *)
ReaderOnly == intr

Interrupted == intr \union {latest}

Interrupt ==
    /\ ~crashed /\ exec = "interrupt"
    /\ IF latest = 0
       THEN crashed' = TRUE /\ UNCHANGED <<intr, exec>>
       ELSE intr' = Interrupted /\ exec' = "join" /\ UNCHANGED crashed
    /\ UNCHANGED <<broker, members, opener, readers, dpc, dhand, dcs,
                   applied, ghosts>>

Joined ==
    /\ ~crashed /\ exec = "join"
    /\ rpc[latest] = "done" /\ dpc[latest] = "done"
    /\ swept' = {dcs[k] : k \in DOMAIN dcs}
    /\ dcs' = << >>
    /\ conn' = 0
    /\ exec' = "closed"
    /\ UNCHANGED <<broker, cstate, session, recver, latest, opener, readers,
                   decoders, crashed, applied, losses, strayed>>

Open  == Connect \/ CreateSession \/ CreateReceiver \/ OpenThrows
Close == CloseBegins \/ Interrupt \/ Joined

Next ==
    \/ Check
    \/ Open
    \/ \E i \in Conn : Reader(i) \/ Decoder(i) \/ Settle(i) \/ Lose(i)
    \/ Shutdown
    \/ Close

Spec == Init /\ [][Next]_vars

(* Threads run and the timer calls check().  A connection attempt may      *)
(* always fail, and nobody has to stop the server.                         *)
Fairness ==
    /\ WF_vars(Check) /\ WF_vars(Open) /\ WF_vars(Close)
    /\ \A i \in Conn : WF_vars(Reader(i)) /\ WF_vars(Decoder(i))

FairSpec == Spec /\ Fairness
-----------------------------------------------------------------------------
Started == {i \in Conn : dpc[i] # "none"}
Elems(s) == {s[k] : k \in DOMAIN s}

(* Reports are applied in the order of the queue, none twice, as long as   *)
(* no connection was made again.  From the second open() on two decoders   *)
(* run, and a report may overtake another for as long as the process lives.*)
FifoUntilReconnect ==
    Cardinality(Started) <= 1 =>
        \A k, l \in DOMAIN applied : k < l => applied[k] < applied[l]

(* Copies of m that were applied or are on their way to be.                *)
Copies(m) ==
      Cardinality({k \in DOMAIN applied : applied[k] = m})
    + Cardinality({k \in DOMAIN dcs : dcs[k] = m})
    + Cardinality({i \in Conn : dhand[i] = m})
    + Cardinality({i \in Conn : rhand[i] = m /\ rpc[i] = "push"})

(* A message the broker is rid of is with a thread, buffered, applied, or  *)
(* was cleared by close(), so acknowledging before decoding loses none     *)
(* while the process runs; and each loss of a connection, with which an    *)
(* asynchronous acknowledgement goes, repeats it once at most.  Both as    *)
(* long as every reader keeps to its own session.                          *)
AckedIsAccounted ==
    ~strayed =>
        /\ \A m \in Msg \ Malformed :
              \/ m \in queue \/ \E c \in Conn : m \in out[c]
              \/ \E i \in Conn : m \in {rhand[i], dhand[i]}
              \/ m \in Elems(dcs) \union Elems(applied) \union swept
        /\ \A m \in Msg : Copies(m) <= 1 + losses

(* A null pointer is used only by close() when no open() ever succeeded,   *)
(* or by a reader of an earlier connection, which close() does not join.   *)
NullUse ==
    crashed => \/ exec = "interrupt" /\ Started = {}
               \/ exec = "closed" /\ Cardinality(Started) >= 2

(* close() comes to its end: a closed connection ends the reader, and the  *)
(* decoder notices its interruption when it has emptied the queue.         *)
CloseEnds == exec = "close" ~> exec = "closed" \/ crashed

(* Every well-formed message is applied in the end, connections lost and   *)
(* made again included, unless the server is shut down, the last attempt   *)
(* the model allows was used up, or a reader took to another session.      *)
EventuallyApplied ==
    \A m \in Msg \ Malformed :
        <>( \/ m \in Elems(applied)
            \/ exec # "run" \/ strayed
            \/ Cardinality(Used) = MaxOpens /\ ~IsOpen(conn))
=============================================================================
