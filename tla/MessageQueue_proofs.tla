------------------------- MODULE MessageQueue_proofs -------------------------
(***************************************************************************)
(* Safety of the reader of the qpid queue, for every number of messages,   *)
(* connections, losses of a connection and threads left over by an earlier *)
(* open(): where null pointers are used, how long reports keep their order,*)
(* and that none the broker is rid of is missing or repeated too often.    *)
(***************************************************************************)
EXTENDS MessageQueue, SequenceTheorems, FunctionTheorems, FiniteSetTheorems,
        WellFoundedInduction, TLAPS

Opening == {"session", "receiver"}
Closing == {"close", "interrupt", "join", "closed"}

TypeOK ==
    /\ queue \subseteq Msg
    /\ out \in [Conn -> SUBSET Msg] /\ acking \in [Conn -> SUBSET Msg]
    /\ cstate \in [Conn -> {"none", "open", "closed"}]
    /\ conn \in Conn \union {0} /\ session \in Conn \union {0}
    /\ recver \in Conn \union {0} /\ latest \in Conn \union {0}
    /\ opener \in {"idle", "connect"} \union Opening
    /\ rpc \in [Conn -> {"none", "loop", "fetch", "ack", "push", "closing", "done"}]
    /\ ron \in [Conn -> Conn \union {0}] /\ rhand \in [Conn -> Msg \union {0}]
    /\ dpc \in [Conn -> {"none", "take", "decode", "done"}]
    /\ dhand \in [Conn -> Msg \union {0}]
    /\ dcs \in Seq(Msg) /\ applied \in Seq(Msg) /\ swept \subseteq Msg
    /\ exec \in {"run"} \union Closing
    /\ crashed \in BOOLEAN /\ strayed \in BOOLEAN /\ losses \in Nat

(* _conn is null before the first connection and after close(), and open() *)
(* is not running once the shutdown has begun.                             *)
OpensOK ==
    /\ Used = 1 .. Cardinality(Used) /\ conn \in Used \union {0}
    /\ opener = "connect" => Cardinality(Used) < MaxOpens
    /\ opener \in Opening => conn \in Used \ Started
    /\ conn = 0 => exec = "closed" \/ (opener = "connect" /\ Used = {})
    /\ exec # "run" => opener = "idle"

(* Threads are started two by two, and those of the last open() have been  *)
(* joined when close() is over.                                            *)
ThreadsOK ==
    /\ \A i \in Conn : rpc[i] # "none" <=> i \in Started
    /\ Started \subseteq Used
    /\ recver = latest
    /\ latest = 0 => Started = {}
    /\ latest # 0 => latest \in Started
    /\ \A i \in Conn : rpc[i] \in {"fetch", "ack"} => ron[i] \in Started
    /\ \A i \in Conn : rhand[i] # 0 <=> rpc[i] \in {"ack", "push"}
    /\ \A i \in Conn : dhand[i] # 0 <=> dpc[i] = "decode"
    /\ exec \in {"join", "closed"} => latest # 0
    /\ exec = "closed" => rpc[latest] = "done"
    /\ Started = {} => dcs = << >> /\ applied = << >>

(* A message is at one place with the broker, and one that was fetched and *)
(* is not settled is on an open connection with a reader.                  *)
BrokerOK ==
    \A c \in Conn :
        /\ acking[c] \subseteq out[c]
        /\ \A m \in out[c] : /\ cstate[c] = "open" /\ c \in Started /\ m \notin queue
                             /\ \A d \in Conn : m \in out[d] => d = c

(* One pair of threads: what is on its way to LocServer is in order, and   *)
(* as long as their connection is there, what comes is behind it.          *)
Alone == \A i, j \in Started : i = j
Before(m) ==
    /\ \A k \in DOMAIN applied : applied[k] < m
    /\ \A k \in DOMAIN dcs : dcs[k] < m
    /\ \A i \in Conn : dhand[i] # 0 => dhand[i] < m

InLine ==
    /\ \A k, l \in DOMAIN applied : k < l => applied[k] < applied[l]
    /\ \A k, l \in DOMAIN dcs : k < l => dcs[k] < dcs[l]
    /\ \A k \in DOMAIN applied, l \in DOMAIN dcs : applied[k] < dcs[l]
    /\ \A i \in Conn : dhand[i] # 0 => /\ \A k \in DOMAIN applied : applied[k] < dhand[i]
                                       /\ \A k \in DOMAIN dcs : dhand[i] < dcs[k]
    /\ \A i \in Conn : rhand[i] # 0 => Before(rhand[i])
    /\ \A i \in Started : cstate[i] = "open" =>
          \A m \in queue : Before(m) /\ \A j \in Conn : rhand[j] # 0 => rhand[j] < m

LineOK == Alone => InLine

(* Every reader at its own session: what the broker may forget is safe, and*)
(* what it may send again was not copied yet, or a connection was lost.    *)
Safe(m) ==
    \/ m \in Malformed \union swept
    \/ \E i \in Conn : dhand[i] = m \/ (rpc[i] = "push" /\ rhand[i] = m)
    \/ m \in Elems(dcs) \union Elems(applied)

(* Chunks are cleared by close() only.                                     *)
SweptOK == exec # "closed" => swept = {}

Owed(m) == m \in queue \/ \E c \in Conn : m \in out[c] \ acking[c]
Due(m) == IF Owed(m) THEN 1 ELSE 0

Own(i) ==
    /\ rpc[i] \in {"fetch", "ack"} => ron[i] = i
    /\ \A m \in out[i] \ acking[i] : rpc[i] = "ack" /\ rhand[i] = m
    /\ rpc[i] = "ack" /\ cstate[i] = "open" => rhand[i] \in out[i] \ acking[i]

SessionOK == ~strayed => \A i \in Conn : Own(i)

SafeOK ==
    ~strayed =>
        /\ \A c \in Conn : \A m \in acking[c] : Safe(m)
        /\ \A m \in Msg : Safe(m) \/ m \in queue \/ \E c \in Conn : m \in out[c]

CopiesOK == ~strayed => \A m \in Msg : Copies(m) + Due(m) <= 1 + losses

IInv == /\ TypeOK /\ OpensOK /\ ThreadsOK /\ NullUse /\ SweptOK /\ BrokerOK /\ LineOK
        /\ SessionOK /\ SafeOK /\ CopiesOK
-----------------------------------------------------------------------------
LEMMA Plain ==
    /\ Conn = 1 .. MaxOpens /\ Msg = 1 .. MaxMsg /\ MaxOpens \in Nat \ {0} /\ MaxMsg \in Nat
    /\ 0 \notin Conn /\ 0 \notin Msg /\ 1 \in Conn
    /\ IsFiniteSet(Conn) /\ IsFiniteSet(Msg)
BY BoundsAssumption, FS_Interval DEF Conn, Msg

LEMMA MinOfSome ==
    ASSUME NEW S \in SUBSET Nat, S # {}
    PROVE  Min(S) \in S /\ \A y \in S : Min(S) <= y
<1> DEFINE below == {p \in Nat \X Nat : p[1] < p[2]}
<1>1. below = OpToRel(<, Nat)
  BY Zenon DEF OpToRel
<1>2. IsWellFoundedOn(below, Nat)
  BY <1>1, NatLessThanWellFounded, Zenon
<1>3. \A x, y \in Nat : y < x => <<y, x>> \in below
  OBVIOUS
<1> HIDE DEF below
<1>4. PICK x \in S : \A y \in S : <<y, x>> \notin below
  BY <1>2, WFMin
<1>5. ASSUME NEW y \in S PROVE x <= y
  <2>1. x \in Nat /\ y \in Nat /\ ~(y < x)
    BY <1>3, <1>4
  <2> QED
    BY <2>1
<1> QED
  BY <1>5 DEF Min

(* The end of a connection, pointwise.                                     *)
LEMMA Dropped ==
    ASSUME TypeOK, NEW c \in Conn, NEW S, Drop(c, S)
    PROVE  /\ queue' = queue \union (out[c] \ S) /\ queue' \subseteq Msg
           /\ cstate' \in [Conn -> {"none", "open", "closed"}]
           /\ out' \in [Conn -> SUBSET Msg] /\ acking' \in [Conn -> SUBSET Msg]
           /\ \A d \in Conn : /\ cstate'[d] = IF d = c THEN "closed" ELSE cstate[d]
                              /\ out'[d] = IF d = c THEN {} ELSE out[d]
                              /\ acking'[d] = IF d = c THEN {} ELSE acking[d]
BY DEF Drop, TypeOK

(* The steps that end one: its loss, a failed open(), a reader's end, and  *)
(* close().  Each is of a connection that has been made.                   *)
DropStep ==
    \E c \in Conn :
        /\ cstate[c] # "none"
        /\ \/ Drop(c, {}) /\ losses' = losses + 1
           \/ Drop(c, acking[c]) /\ losses' = losses
        /\ UNCHANGED <<conn, session, recver, latest, ron, rhand, decoders, dcs, crashed,
                       applied, strayed, swept>>
        /\ rpc' \in [Conn -> {"none", "loop", "fetch", "ack", "push", "closing", "done"}]
        /\ \A i \in Conn : rpc'[i] = rpc[i] \/ (rpc[i] = "closing" /\ rpc'[i] = "done")
        /\ opener' = opener \/ opener' = "idle"
        /\ exec' = exec \/ (exec' = "interrupt" /\ exec = "close")

LEMMA DropSteps ==
    ASSUME TypeOK, OpensOK,
           \/ \E c \in Conn : Lose(c)
           \/ \E i \in Conn : ReaderEnds(i) /\ conn # 0
           \/ OpenThrows \/ CloseBegins
    PROVE  DropStep
<1> USE DEF readers, decoders
<1>1. ASSUME NEW c \in Conn, Lose(c) PROVE DropStep
  <2>1. UNCHANGED <<conn, session, recver, latest, opener, readers, decoders, dcs, exec,
                    crashed, applied, strayed, swept>>
        /\ Drop(c, {}) /\ losses' = losses + 1 /\ cstate[c] # "none"
    BY <1>1 DEF Lose
  <2> QED
    BY <2>1 DEF DropStep, TypeOK
<1>2. conn # 0 => conn \in Conn /\ cstate[conn] # "none"
  BY DEF TypeOK, OpensOK, Used
<1>3. ASSUME NEW i \in Conn, ReaderEnds(i), conn # 0 PROVE DropStep
  <2>1. UNCHANGED <<conn, session, recver, latest, opener, ron, rhand, decoders, dcs, exec,
                    crashed, applied, ghosts>>
        /\ Drop(conn, acking[conn]) /\ rpc[i] = "closing"
        /\ rpc' = [rpc EXCEPT ![i] = "done"]
    BY <1>3 DEF ReaderEnds, CloseConn
  <2>2. /\ rpc' \in [Conn -> {"none", "loop", "fetch", "ack", "push", "closing", "done"}]
        /\ \A j \in Conn : rpc'[j] = rpc[j] \/ (rpc[j] = "closing" /\ rpc'[j] = "done")
    BY <2>1 DEF TypeOK
  <2> QED
    BY <1>2, <1>3, <2>1, <2>2 DEF DropStep, ghosts
<1>4. ASSUME OpenThrows \/ CloseBegins PROVE DropStep
  <2>1. UNCHANGED <<conn, session, recver, latest, readers, decoders, dcs,
                    crashed, applied, ghosts>>
        /\ Drop(conn, acking[conn]) /\ conn # 0
        /\ (opener' = opener \/ opener' = "idle")
        /\ (exec' = exec \/ (exec' = "interrupt" /\ exec = "close"))
    BY <1>4, Plain DEF OpenThrows, CloseBegins, CloseConn, Opening, OpensOK, Closing, TypeOK
  <2> QED
    BY <1>2, <2>1 DEF DropStep, ghosts, TypeOK
<1> QED
  BY <1>1, <1>3, <1>4

LEMMA InitType == Init => TypeOK /\ OpensOK /\ ThreadsOK
<1> SUFFICES ASSUME Init PROVE TypeOK /\ OpensOK /\ ThreadsOK
  OBVIOUS
<1>1. TypeOK
  BY Plain, EmptySeq DEF Init, TypeOK, Opening, Closing
<1>2. Used = {} /\ Cardinality({}) = 0 /\ Started = {}
  BY FS_EmptySet DEF Init, Used, Started
<1>3. OpensOK
  BY <1>2, Plain DEF Init, OpensOK, Opening
<1>4. ThreadsOK
  BY <1>2 DEF Init, ThreadsOK
<1> QED
  BY <1>1, <1>3, <1>4

LEMMA NextType == TypeOK /\ OpensOK /\ ThreadsOK /\ [Next]_vars => TypeOK'
<1> SUFFICES ASSUME TypeOK, OpensOK, ThreadsOK, [Next]_vars PROVE TypeOK'
  OBVIOUS
<1> USE DEF broker, members, readers, decoders, ghosts, Opening, Closing
<1>1. ASSUME DropStep PROVE TypeOK'
  <2>1. PICK c \in Conn :
        /\ \/ Drop(c, {}) /\ losses' = losses + 1
           \/ Drop(c, acking[c]) /\ losses' = losses
        /\ UNCHANGED <<conn, session, recver, latest, ron, rhand, dpc, dhand, intr, dcs,
                       crashed, applied, strayed, swept>>
        /\ rpc' \in [Conn -> {"none", "loop", "fetch", "ack", "push", "closing", "done"}]
        /\ opener' = opener \/ opener' = "idle"
        /\ exec' = exec \/ (exec' = "interrupt" /\ exec = "close")
    BY <1>1 DEF DropStep
  <2>2. PICK S \in {{}, acking[c]} : Drop(c, S) /\ losses' \in Nat
    BY <2>1 DEF TypeOK
  <2>3. /\ queue' \subseteq Msg /\ cstate' \in [Conn -> {"none", "open", "closed"}]
        /\ out' \in [Conn -> SUBSET Msg] /\ acking' \in [Conn -> SUBSET Msg]
    BY <2>2, Dropped
  <2>4. exec' \in {"run"} \union Closing /\ opener' \in {"idle", "connect"} \union Opening
    BY <2>1 DEF TypeOK
  <2> QED
    BY <2>1, <2>2, <2>3, <2>4 DEF TypeOK
<1>2. CASE Check \/ Shutdown \/ Interrupt
  BY <1>2 DEF Check, Shutdown, Interrupt, TypeOK
<1>3. CASE Connect
  <2>1. Cardinality(Used) + 1 \in Conn
    <3>1. Cardinality(Used) \in Nat /\ Cardinality(Used) < MaxOpens
      BY <1>3, Plain, FS_Subset, FS_CardinalityType DEF Connect, OpensOK, Used
    <3> QED
      BY <3>1, Plain
  <2>2. conn' \in Conn /\ cstate' \in [Conn -> {"none", "open", "closed"}]
        /\ opener' \in {"session", "idle"}
    BY <1>3, <2>1 DEF Connect, TypeOK
  <2> QED
    BY <1>3, <2>2 DEF Connect, TypeOK
<1>4. CASE CreateSession \/ CreateReceiver
  <2>1. /\ session' \in Conn \union {0} /\ opener' \in {"idle", "receiver"}
        /\ recver' \in Conn \union {0} /\ latest' \in Conn \union {0}
    BY <1>4 DEF CreateSession, CreateReceiver, TypeOK
  <2>2. /\ rpc' \in [Conn -> {"none", "loop", "fetch", "ack", "push", "closing", "done"}]
        /\ dpc' \in [Conn -> {"none", "take", "decode", "done"}]
    BY <1>4 DEF CreateSession, CreateReceiver, TypeOK
  <2> QED
    BY <1>4, <2>1, <2>2 DEF CreateSession, CreateReceiver, TypeOK
<1>5. ASSUME NEW i \in Conn, BeginFetch(i) \/ FetchThrows(i) PROVE TypeOK'
  <2>1. /\ rpc' \in [Conn -> {"none", "loop", "fetch", "ack", "push", "closing", "done"}]
        /\ ron' \in [Conn -> Conn \union {0}]
    <3>1. CASE BeginFetch(i)
      BY <3>1 DEF BeginFetch, TypeOK
    <3>2. CASE FetchThrows(i)
      BY <3>2 DEF FetchThrows, TypeOK
    <3> QED
      BY <1>5, <3>1, <3>2
  <2>2. strayed' \in BOOLEAN
    BY <1>5 DEF BeginFetch, FetchThrows, TypeOK
  <2> QED
    BY <1>5, <2>1, <2>2 DEF BeginFetch, FetchThrows, TypeOK
<1>6. ASSUME NEW i \in Conn, Fetched(i) PROVE TypeOK'
  <2>1. Min(queue) \in Msg
    <3>1. queue \in SUBSET Nat /\ queue # {} /\ queue \subseteq Msg
      BY <1>6, Plain DEF Fetched, TypeOK
    <3> QED
      BY <3>1, MinOfSome
  <2>2. ron[i] \in Conn
    BY <1>6 DEF Fetched, ThreadsOK, Started
  <2>3. /\ rhand' \in [Conn -> Msg \union {0}] /\ out' \in [Conn -> SUBSET Msg]
        /\ queue' \subseteq Msg
    BY <1>6, <2>1, <2>2 DEF Fetched, TypeOK
  <2>4. rpc' \in [Conn -> {"none", "loop", "fetch", "ack", "push", "closing", "done"}]
    BY <1>6 DEF Fetched, TypeOK
  <2> QED
    BY <1>6, <2>3, <2>4 DEF Fetched, TypeOK
<1>7. ASSUME NEW i \in Conn, Acknowledge(i) PROVE TypeOK'
  <2>1. /\ acking' \in [Conn -> SUBSET Msg] /\ rhand' \in [Conn -> Msg \union {0}]
        /\ rpc' \in [Conn -> {"none", "loop", "fetch", "ack", "push", "closing", "done"}]
    <3>1. CASE IsOpen(session)
      <4>1. session \in Conn
        BY <3>1 DEF IsOpen, TypeOK
      <4> QED
        BY <1>7, <3>1, <4>1 DEF Acknowledge, TypeOK
    <3>2. CASE ~IsOpen(session)
      BY <1>7, <3>2 DEF Acknowledge, TypeOK
    <3> QED
      BY <3>1, <3>2
  <2> QED
    BY <1>7, <2>1 DEF Acknowledge, TypeOK
<1>8. ASSUME NEW i \in Conn, Push(i) PROVE TypeOK'
  <2>1. rhand[i] \in Msg
    BY <1>8 DEF Push, ThreadsOK, TypeOK
  <2>2. dcs' \in Seq(Msg)
    BY <1>8, <2>1, AppendProperties DEF Push, Pushed, TypeOK
  <2>3. /\ rhand' \in [Conn -> Msg \union {0}]
        /\ rpc' \in [Conn -> {"none", "loop", "fetch", "ack", "push", "closing", "done"}]
    BY <1>8 DEF Push, TypeOK
  <2> QED
    BY <1>8, <2>2, <2>3 DEF Push, TypeOK
<1>9. ASSUME NEW i \in Conn, ReaderEnds(i), conn = 0 PROVE TypeOK'
  <2>1. rpc' \in [Conn -> {"none", "loop", "fetch", "ack", "push", "closing", "done"}]
    BY <1>9 DEF ReaderEnds, TypeOK
  <2> QED
    BY <1>9, <2>1 DEF ReaderEnds, TypeOK
<1>10. ASSUME NEW i \in Conn, Take(i) PROVE TypeOK'
  <2>1. Head(dcs) \in Msg /\ dcs' \in Seq(Msg)
    BY <1>10, HeadTailProperties DEF Take, Popped, TypeOK
  <2>2. /\ dhand' \in [Conn -> Msg \union {0}]
        /\ dpc' \in [Conn -> {"none", "take", "decode", "done"}]
    BY <1>10, <2>1 DEF Take, TypeOK
  <2> QED
    BY <1>10, <2>1, <2>2 DEF Take, TypeOK
<1>11. ASSUME NEW i \in Conn, Decode(i) PROVE TypeOK'
  <2>1. dhand[i] \in Msg
    BY <1>11 DEF Decode, ThreadsOK, TypeOK
  <2>2. applied' \in Seq(Msg)
    BY <1>11, <2>1, AppendProperties DEF Decode, TypeOK
  <2>3. /\ dhand' \in [Conn -> Msg \union {0}]
        /\ dpc' \in [Conn -> {"none", "take", "decode", "done"}]
    BY <1>11 DEF Decode, TypeOK
  <2> QED
    BY <1>11, <2>2, <2>3 DEF Decode, TypeOK
<1>12. ASSUME NEW i \in Conn, DecoderEnds(i) \/ Settle(i) PROVE TypeOK'
  <2>1. CASE DecoderEnds(i)
    <3>1. dpc' \in [Conn -> {"none", "take", "decode", "done"}]
      BY <2>1 DEF DecoderEnds, TypeOK
    <3> QED
      BY <2>1, <3>1 DEF DecoderEnds, TypeOK
  <2>2. CASE Settle(i)
    <3>1. out' \in [Conn -> SUBSET Msg] /\ acking' \in [Conn -> SUBSET Msg]
      BY <2>2 DEF Settle, TypeOK
    <3> QED
      BY <2>2, <3>1 DEF Settle, TypeOK
  <2> QED
    BY <1>12, <2>1, <2>2
<1>13. CASE Joined
  <2>1. swept' \subseteq Msg /\ dcs' \in Seq(Msg)
    BY <1>13, ElementOfSeq, LenProperties, EmptySeq DEF Joined, TypeOK
  <2> QED
    BY <1>13, <2>1 DEF Joined, TypeOK
<1>14. CASE UNCHANGED vars
  BY <1>14 DEF vars, TypeOK
<1> QED
  BY <1>1, <1>2, <1>3, <1>4, <1>5, <1>6, <1>7, <1>8, <1>9, <1>10, <1>11, <1>12, <1>13, <1>14,
     DropSteps DEF Next, Open, Close, Reader, Decoder

(* Who has been made and started.                                          *)
LEMMA UsedStays ==
    ASSUME TypeOK, OpensOK, [Next]_vars, ~Connect
    PROVE  Used' = Used
<1> USE DEF broker, members, readers, decoders, ghosts
<1>1. ASSUME DropStep PROVE Used' = Used
  <2>1. PICK c \in Conn : cstate[c] # "none" /\ \E S \in {{}, acking[c]} : Drop(c, S)
    BY <1>1 DEF DropStep
  <2>2. \A d \in Conn : cstate'[d] = IF d = c THEN "closed" ELSE cstate[d]
    BY <2>1, Dropped
  <2> QED
    BY <2>1, <2>2 DEF Used
<1>2. cstate' = cstate => Used' = Used
  BY DEF Used
<1>3. CASE Check \/ CreateSession \/ CreateReceiver \/ Shutdown \/ Interrupt \/ Joined
           \/ UNCHANGED vars
  BY <1>2, <1>3 DEF Check, CreateSession, CreateReceiver, Shutdown, Interrupt, Joined, vars
<1>4. ASSUME NEW i \in Conn,
             \/ BeginFetch(i) \/ Fetched(i) \/ FetchThrows(i) \/ Acknowledge(i) \/ Push(i)
             \/ ReaderEnds(i) /\ conn = 0
             \/ Decoder(i) \/ Settle(i)
      PROVE  Used' = Used
  BY <1>2, <1>4 DEF BeginFetch, Fetched, FetchThrows, Acknowledge, Push, ReaderEnds, Decoder,
                    Take, Decode, DecoderEnds, Settle
<1> QED
  BY <1>1, <1>3, <1>4, DropSteps DEF Next, Open, Close, Reader

LEMMA Connects ==
    ASSUME TypeOK, OpensOK, Connect
    PROVE  /\ Used' = Used \union {conn'} /\ conn' \in Conn \ Used
           /\ Cardinality(Used') = conn' /\ Used' = 1 .. conn' /\ opener = "connect"
           /\ opener' \in {"session", "idle"} /\ cstate[conn'] = "none"
           /\ \A d \in Conn : d # conn' => cstate'[d] = cstate[d]
           /\ UNCHANGED <<broker, session, recver, latest, readers, decoders, dcs, exec,
                          crashed, applied, ghosts>>
<1>1. /\ conn' = Cardinality(Used) + 1
      /\ \E ok \in BOOLEAN :
            /\ cstate' = [cstate EXCEPT ![conn'] = IF ok THEN "open" ELSE "closed"]
            /\ opener' = IF ok THEN "session" ELSE "idle"
      /\ opener = "connect"
      /\ UNCHANGED <<broker, session, recver, latest, readers, decoders, dcs, exec,
                     crashed, applied, ghosts>>
  BY DEF Connect
<1>2. /\ Cardinality(Used) \in Nat /\ Cardinality(Used) < MaxOpens
      /\ Used = 1 .. Cardinality(Used) /\ IsFiniteSet(Used)
  BY Plain, <1>1, FS_Subset, FS_CardinalityType DEF OpensOK, Used
<1>3. conn' \in Conn \ Used
  BY <1>1, <1>2, Plain
<1>4. PICK p \in {"open", "closed"} : cstate' = [cstate EXCEPT ![conn'] = p]
  BY <1>1
<1>5. /\ \A d \in Conn : d # conn' => cstate'[d] = cstate[d]
      /\ cstate'[conn'] = p /\ cstate[conn'] = "none"
  BY <1>3, <1>4 DEF TypeOK, Used
<1>6. Used' = Used \union {conn'}
  BY <1>3, <1>5 DEF Used
<1>7. Cardinality(Used') = conn'
  BY <1>1, <1>2, <1>3, <1>6, FS_AddElement
<1>8. Used' = 1 .. conn'
  BY <1>1, <1>2, <1>6
<1> QED
  BY <1>1, <1>3, <1>5, <1>6, <1>7, <1>8

LEMMA StartedStays ==
    ASSUME TypeOK, OpensOK, [Next]_vars, ~CreateReceiver
    PROVE  /\ Started' = Started /\ UNCHANGED <<recver, latest>>
           /\ \A i \in Conn : rpc'[i] # "none" <=> rpc[i] # "none"
<1> USE DEF broker, members, readers, decoders, ghosts
<1> DEFINE Same == /\ Started' = Started /\ UNCHANGED <<recver, latest>>
                   /\ \A i \in Conn : rpc'[i] # "none" <=> rpc[i] # "none"
<1>1. ASSUME DropStep PROVE Same
  BY <1>1 DEF DropStep, Started
<1>2. ASSUME UNCHANGED <<recver, latest, dpc, rpc>> PROVE Same
  BY <1>2 DEF Started
<1>3. CASE Check \/ Connect \/ CreateSession \/ Shutdown \/ Interrupt \/ Joined
           \/ UNCHANGED vars
  BY <1>2, <1>3 DEF Check, Connect, CreateSession, Shutdown, Interrupt, Joined, vars
<1>4. ASSUME NEW i \in Conn, Settle(i) PROVE Same
  BY <1>2, <1>4 DEF Settle
<1>5. ASSUME NEW i \in Conn,
             \/ BeginFetch(i) \/ Fetched(i) \/ FetchThrows(i) \/ Acknowledge(i) \/ Push(i)
             \/ ReaderEnds(i) /\ conn = 0
      PROVE  Same
  <2>1. UNCHANGED <<recver, latest, dpc>> /\ rpc[i] # "none"
    BY <1>5 DEF BeginFetch, Fetched, FetchThrows, Acknowledge, Push, ReaderEnds
  <2>2. PICK p \in {"loop", "fetch", "ack", "push", "closing", "done"} :
           rpc' = [rpc EXCEPT ![i] = p]
    BY <1>5 DEF BeginFetch, Fetched, FetchThrows, Acknowledge, Push, ReaderEnds
  <2> QED
    BY <2>1, <2>2 DEF Started, TypeOK
<1>6. ASSUME NEW i \in Conn, Decoder(i) PROVE Same
  <2>1. UNCHANGED <<recver, latest, rpc>> /\ dpc[i] # "none"
    BY <1>6 DEF Decoder, Take, Decode, DecoderEnds
  <2>2. PICK p \in {"take", "decode", "done"} : dpc' = [dpc EXCEPT ![i] = p]
    BY <1>6 DEF Decoder, Take, Decode, DecoderEnds
  <2> QED
    BY <2>1, <2>2 DEF Started, TypeOK
<1> QED
  BY <1>1, <1>3, <1>4, <1>5, <1>6, DropSteps DEF Next, Open, Close, Reader

LEMMA Receives ==
    ASSUME TypeOK, OpensOK, CreateReceiver
    PROVE  /\ conn \in Used \ Started /\ Started' = Started \union {conn}
           /\ latest' = conn /\ recver' = conn /\ opener' = "idle" /\ exec = "run"
           /\ \A i \in Conn : /\ rpc'[i] = IF i = conn THEN "loop" ELSE rpc[i]
                              /\ dpc'[i] = IF i = conn THEN "take" ELSE dpc[i]
           /\ UNCHANGED <<broker, cstate, conn, session, ron, rhand, dhand, intr, dcs,
                          exec, crashed, applied, ghosts>>
<1>1. /\ conn \in Used \ Started /\ latest' = conn /\ recver' = conn /\ opener' = "idle"
      /\ exec = "run"
      /\ rpc' = [rpc EXCEPT ![conn] = "loop"] /\ dpc' = [dpc EXCEPT ![conn] = "take"]
      /\ UNCHANGED <<broker, cstate, conn, session, ron, rhand, dhand, intr, dcs,
                     exec, crashed, applied, ghosts>>
  BY DEF CreateReceiver, OpensOK, Opening
<1>2. conn \in Conn
  BY <1>1 DEF Used
<1>3. \A i \in Conn : /\ rpc'[i] = IF i = conn THEN "loop" ELSE rpc[i]
                      /\ dpc'[i] = IF i = conn THEN "take" ELSE dpc[i]
  BY <1>1, <1>2 DEF TypeOK
<1>4. Started' = Started \union {conn}
  BY <1>2, <1>3 DEF Started
<1> QED
  BY <1>1, <1>3, <1>4

LEMMA NextOpens == TypeOK /\ OpensOK /\ ThreadsOK /\ [Next]_vars => OpensOK'
<1> SUFFICES ASSUME TypeOK, OpensOK, ThreadsOK, [Next]_vars PROVE OpensOK'
  OBVIOUS
<1> USE DEF broker, members, readers, decoders, ghosts, Opening
<1>1. CASE Connect
  <2>1. conn' \notin Started' /\ conn' # 0 /\ conn' \in Used'
    BY <1>1, Connects, StartedStays, Plain DEF ThreadsOK, CreateReceiver, Connect
  <2> QED
    BY <1>1, <2>1, Connects DEF OpensOK
<1>2. CASE CreateReceiver
  <2>1. Used' = Used
    BY <1>2, UsedStays DEF Connect, CreateReceiver
  <2>2. conn' = conn /\ conn \in Used /\ opener' = "idle" /\ exec' = "run" /\ conn # 0
    BY <1>2, Receives, Plain DEF Used
  <2> QED
    BY <2>1, <2>2 DEF OpensOK
<1>3. CASE ~Connect /\ ~CreateReceiver
  <2>1. Used' = Used /\ Started' = Started
    BY <1>3, UsedStays, StartedStays
  <2>2. ASSUME UNCHANGED <<conn, opener, exec>> PROVE OpensOK'
    BY <2>1, <2>2 DEF OpensOK
  <2>3. CASE DropStep
    <3>1. /\ conn' = conn /\ (opener' = opener \/ opener' = "idle")
          /\ exec' = exec \/ (exec' = "interrupt" /\ exec = "close")
      BY <2>3 DEF DropStep
    <3>2. conn = 0 => (exec' = exec /\ opener' = opener) \/ (Used = {} /\ FALSE)
      BY <2>3, <3>1 DEF DropStep, OpensOK, Used
    <3> QED
      BY <2>1, <3>1, <3>2 DEF OpensOK
  <2>4. CASE Check \/ CreateSession \/ Shutdown \/ Interrupt \/ Joined
    <3>1. CASE Check
      BY <2>1, <3>1 DEF Check, OpensOK
    <3>2. CASE CreateSession
      BY <2>1, <3>2 DEF CreateSession, OpensOK
    <3>3. CASE Shutdown \/ Interrupt
      BY <2>1, <3>3 DEF Shutdown, Interrupt, OpensOK
    <3>4. CASE Joined
      BY <2>1, <3>4 DEF Joined, OpensOK
    <3> QED
      BY <2>4, <3>1, <3>2, <3>3, <3>4
  <2>5. ASSUME NEW i \in Conn,
               \/ BeginFetch(i) \/ Fetched(i) \/ FetchThrows(i) \/ Acknowledge(i) \/ Push(i)
               \/ ReaderEnds(i) /\ conn = 0
               \/ Decoder(i) \/ Settle(i)
        PROVE  OpensOK'
    BY <2>2, <2>5 DEF BeginFetch, Fetched, FetchThrows, Acknowledge, Push, ReaderEnds, Decoder,
                Take, Decode, DecoderEnds, Settle
  <2>6. CASE UNCHANGED vars
    BY <2>2, <2>6 DEF vars
  <2> QED
    BY <1>3, <2>3, <2>4, <2>5, <2>6, DropSteps DEF Next, Open, Close, Reader
<1> QED
  BY <1>1, <1>2, <1>3

LEMMA NextThreads == TypeOK /\ OpensOK /\ ThreadsOK /\ [Next]_vars => ThreadsOK'
<1> SUFFICES ASSUME TypeOK, OpensOK, ThreadsOK, [Next]_vars PROVE ThreadsOK'
  OBVIOUS
<1> USE DEF broker, members, readers, decoders, ghosts
<1>1. CASE CreateReceiver
  <2>1. Used' = Used
    BY <1>1, UsedStays DEF Connect, CreateReceiver
  <2>2. /\ conn \in Used \ Started /\ Started' = Started \union {conn} /\ conn # 0
        /\ latest' = conn /\ recver' = conn /\ exec' = "run" /\ conn \in Conn
        /\ UNCHANGED <<ron, rhand, dhand, dcs, applied>>
    BY <1>1, Receives, Plain DEF Used
  <2>3. \A i \in Conn : /\ rpc'[i] = IF i = conn THEN "loop" ELSE rpc[i]
                        /\ dpc'[i] = IF i = conn THEN "take" ELSE dpc[i]
    BY <1>1, Receives
  <2>4. rpc[conn] = "none" /\ dpc[conn] = "none"
    BY <2>2 DEF ThreadsOK, Started
  <2>5. \A i \in Conn : /\ rpc'[i] # "none" <=> i \in Started'
                        /\ rpc'[i] \in {"fetch", "ack"} => ron'[i] \in Started'
                        /\ rhand'[i] # 0 <=> rpc'[i] \in {"ack", "push"}
                        /\ dhand'[i] # 0 <=> dpc'[i] = "decode"
    BY <2>2, <2>3, <2>4 DEF ThreadsOK
  <2> QED
    BY <2>1, <2>2, <2>5 DEF ThreadsOK
<1>2. CASE ~CreateReceiver
  <2>1. Started' = Started /\ recver' = latest' /\ latest' = latest /\ Started' \subseteq Used'
        /\ (latest' = 0 => Started' = {}) /\ (latest' # 0 => latest' \in Started')
        /\ \A i \in Conn : rpc'[i] # "none" <=> i \in Started'
    <3>1. Used \subseteq Used'
      BY UsedStays, Connects
    <3> QED
      BY <1>2, <3>1, StartedStays DEF ThreadsOK
  <2>2. ASSUME \A i \in Conn : /\ rpc'[i] \in {"fetch", "ack"} => ron'[i] \in Started
                               /\ rhand'[i] # 0 <=> rpc'[i] \in {"ack", "push"}
                               /\ dhand'[i] # 0 <=> dpc'[i] = "decode",
               exec' = exec \/ (exec' \in {"join", "closed"} => latest # 0),
               exec' = "closed" => rpc'[latest] = "done",
               Started = {} => UNCHANGED <<dcs, applied>>
        PROVE  ThreadsOK'
    <3>1. exec' \in {"join", "closed"} => latest' # 0
      BY <2>1, <2>2 DEF ThreadsOK
    <3>2. Started' = {} => dcs' = << >> /\ applied' = << >>
      BY <2>1, <2>2 DEF ThreadsOK
    <3> QED
      BY <2>1, <2>2, <3>1, <3>2 DEF ThreadsOK
  <2>3. ASSUME NEW i \in Conn, NEW p, NEW r, NEW m,
               rpc[i] # "done", rpc[i] # "none",
               \A j \in Conn : /\ rpc'[j] = IF j = i THEN p ELSE rpc[j]
                               /\ ron'[j] = IF j = i THEN r ELSE ron[j]
                               /\ rhand'[j] = IF j = i THEN m ELSE rhand[j],
               p \in {"fetch", "ack"} => r \in Started,
               m # 0 <=> p \in {"ack", "push"},
               UNCHANGED <<dpc, dhand, exec, applied>>
        PROVE  ThreadsOK'
    <3>1. i \in Started /\ (latest # 0 => latest \in Conn)
      BY <2>3 DEF ThreadsOK, TypeOK
    <3>2. exec' = "closed" => rpc'[latest] = "done"
      BY <2>3, <3>1 DEF ThreadsOK
    <3> QED
      BY <2>2, <2>3, <3>1, <3>2 DEF ThreadsOK
  <2>4. ASSUME NEW i \in Conn, NEW p, NEW m,
               dpc[i] # "none",
               \A j \in Conn : /\ dpc'[j] = IF j = i THEN p ELSE dpc[j]
                               /\ dhand'[j] = IF j = i THEN m ELSE dhand[j],
               m # 0 <=> p = "decode",
               UNCHANGED <<rpc, ron, rhand, exec>>
        PROVE  ThreadsOK'
    <3>1. i \in Started
      BY <2>4 DEF Started
    <3> QED
      BY <2>2, <2>4, <3>1 DEF ThreadsOK
  <2>5. ASSUME UNCHANGED <<rpc, ron, rhand, dpc, dhand, exec, dcs, applied>> PROVE ThreadsOK'
    BY <2>2, <2>5 DEF ThreadsOK
  <2>6. CASE DropStep
    <3>1. /\ \A i \in Conn : rpc'[i] = rpc[i] \/ (rpc[i] = "closing" /\ rpc'[i] = "done")
          /\ UNCHANGED <<ron, rhand, dpc, dhand, dcs, applied>>
          /\ exec' = exec \/ (exec' = "interrupt" /\ exec = "close")
      BY <2>6 DEF DropStep
    <3>2. exec' = "closed" => rpc'[latest] = "done"
      BY <3>1 DEF ThreadsOK, TypeOK
    <3> QED
      BY <2>2, <3>1, <3>2 DEF ThreadsOK
  <2>7. CASE Check \/ Connect \/ CreateSession \/ (\E i \in Conn : Settle(i)) \/ UNCHANGED vars
    BY <2>5, <2>7 DEF Check, Connect, CreateSession, Settle, vars
  <2>8. CASE Shutdown \/ Interrupt \/ Joined
    <3>1. CASE Shutdown \/ Interrupt
      <4>1. UNCHANGED <<rpc, ron, rhand, dpc, dhand, dcs, applied>>
        BY <3>1 DEF Shutdown, Interrupt
      <4>2. exec' = exec \/ (exec' = "close") \/ (exec' = "join" /\ latest # 0)
        BY <3>1 DEF Shutdown, Interrupt
      <4> QED
        BY <2>2, <4>1, <4>2 DEF ThreadsOK
    <3>2. CASE Joined
      <4>1. /\ UNCHANGED <<rpc, ron, rhand, dpc, dhand, applied>> /\ dcs' = << >>
            /\ exec' = "closed" /\ latest # 0 /\ rpc[latest] = "done"
        BY <3>2 DEF Joined, ThreadsOK
      <4> QED
        BY <2>2, <4>1 DEF ThreadsOK
    <3> QED
      BY <2>8, <3>1, <3>2
  <2>9. ASSUME NEW i \in Conn, BeginFetch(i) PROVE ThreadsOK'
    <3>1. rpc[i] = "loop" /\ recver \in Started /\ rhand[i] = 0
      <4>1. rpc[i] = "loop" /\ i \in Started
        BY <2>9 DEF BeginFetch, ThreadsOK
      <4> QED
        BY <4>1 DEF ThreadsOK
    <3>2. \A j \in Conn : /\ rpc'[j] = IF j = i THEN "fetch" ELSE rpc[j]
                          /\ ron'[j] = IF j = i THEN recver ELSE ron[j]
                          /\ rhand'[j] = IF j = i THEN 0 ELSE rhand[j]
      BY <2>9, <3>1 DEF BeginFetch, TypeOK
    <3> QED
      BY <2>3, <2>9, <3>1, <3>2 DEF BeginFetch
  <2>10. ASSUME NEW i \in Conn, Fetched(i) PROVE ThreadsOK'
    <3>1. rpc[i] = "fetch" /\ ron[i] \in Started /\ Min(queue) # 0
      <4>1. queue \in SUBSET Nat /\ queue # {} /\ queue \subseteq Msg
        BY <2>10, Plain DEF Fetched, TypeOK
      <4> QED
        BY <2>10, <4>1, MinOfSome, Plain DEF Fetched, ThreadsOK
    <3>2. \A j \in Conn : /\ rpc'[j] = IF j = i THEN "ack" ELSE rpc[j]
                          /\ ron'[j] = IF j = i THEN ron[i] ELSE ron[j]
                          /\ rhand'[j] = IF j = i THEN Min(queue) ELSE rhand[j]
      BY <2>10 DEF Fetched, TypeOK
    <3> QED
      BY <2>3, <2>10, <3>1, <3>2 DEF Fetched
  <2>11. ASSUME NEW i \in Conn, FetchThrows(i) PROVE ThreadsOK'
    <3>1. rpc[i] = "fetch" /\ rhand[i] = 0
      BY <2>11 DEF FetchThrows, ThreadsOK
    <3>2. \A j \in Conn : /\ rpc'[j] = IF j = i THEN "closing" ELSE rpc[j]
                          /\ ron'[j] = IF j = i THEN ron[i] ELSE ron[j]
                          /\ rhand'[j] = IF j = i THEN 0 ELSE rhand[j]
      BY <2>11, <3>1 DEF FetchThrows, TypeOK
    <3> QED
      BY <2>3, <2>11, <3>1, <3>2 DEF FetchThrows
  <2>12. ASSUME NEW i \in Conn, Acknowledge(i) PROVE ThreadsOK'
    <3>1. rpc[i] = "ack" /\ rhand[i] # 0
      BY <2>12 DEF Acknowledge, ThreadsOK
    <3>2. CASE IsOpen(session)
      <4>1. \A j \in Conn : /\ rpc'[j] = IF j = i THEN "push" ELSE rpc[j]
                            /\ ron'[j] = IF j = i THEN ron[i] ELSE ron[j]
                            /\ rhand'[j] = IF j = i THEN rhand[i] ELSE rhand[j]
        BY <2>12, <3>2 DEF Acknowledge, TypeOK
      <4> QED
        BY <2>3, <2>12, <3>1, <4>1 DEF Acknowledge
    <3>3. CASE ~IsOpen(session)
      <4>1. \A j \in Conn : /\ rpc'[j] = IF j = i THEN "closing" ELSE rpc[j]
                            /\ ron'[j] = IF j = i THEN ron[i] ELSE ron[j]
                            /\ rhand'[j] = IF j = i THEN 0 ELSE rhand[j]
        BY <2>12, <3>3 DEF Acknowledge, TypeOK
      <4> QED
        BY <2>3, <2>12, <3>1, <4>1 DEF Acknowledge
    <3> QED
      BY <3>2, <3>3
  <2>13. ASSUME NEW i \in Conn, Push(i) PROVE ThreadsOK'
    <3>1. rpc[i] = "push"
      BY <2>13 DEF Push
    <3>2. \A j \in Conn : /\ rpc'[j] = IF j = i THEN "loop" ELSE rpc[j]
                          /\ ron'[j] = IF j = i THEN ron[i] ELSE ron[j]
                          /\ rhand'[j] = IF j = i THEN 0 ELSE rhand[j]
      BY <2>13 DEF Push, TypeOK
    <3> QED
      BY <2>3, <2>13, <3>1, <3>2 DEF Push
  <2>14. ASSUME NEW i \in Conn, ReaderEnds(i), conn = 0 PROVE ThreadsOK'
    <3>1. rpc[i] = "closing" /\ rhand[i] = 0
      BY <2>14 DEF ReaderEnds, ThreadsOK
    <3>2. \A j \in Conn : /\ rpc'[j] = IF j = i THEN "done" ELSE rpc[j]
                          /\ ron'[j] = IF j = i THEN ron[i] ELSE ron[j]
                          /\ rhand'[j] = IF j = i THEN 0 ELSE rhand[j]
      BY <2>14, <3>1 DEF ReaderEnds, TypeOK
    <3> QED
      BY <2>3, <2>14, <3>1, <3>2 DEF ReaderEnds
  <2>15. ASSUME NEW i \in Conn, Take(i) PROVE ThreadsOK'
    <3>1. dpc[i] = "take" /\ Head(dcs) \in Msg
      BY <2>15, HeadTailProperties DEF Take, TypeOK
    <3>2. \A j \in Conn : /\ dpc'[j] = IF j = i THEN "decode" ELSE dpc[j]
                          /\ dhand'[j] = IF j = i THEN Head(dcs) ELSE dhand[j]
      BY <2>15 DEF Take, TypeOK
    <3>3. Head(dcs) # 0
      BY <3>1, Plain
    <3>4. UNCHANGED <<rpc, ron, rhand, exec>> /\ dpc[i] # "none"
      BY <2>15 DEF Take
    <3> QED
      BY <2>4, <3>2, <3>3, <3>4
  <2>16. ASSUME NEW i \in Conn, Decode(i) PROVE ThreadsOK'
    <3>1. dpc[i] = "decode"
      BY <2>16 DEF Decode
    <3>2. \A j \in Conn : /\ dpc'[j] = IF j = i THEN "take" ELSE dpc[j]
                          /\ dhand'[j] = IF j = i THEN 0 ELSE dhand[j]
      BY <2>16 DEF Decode, TypeOK
    <3>3. UNCHANGED <<rpc, ron, rhand, exec>> /\ dpc[i] # "none"
      BY <2>16 DEF Decode
    <3> QED
      BY <2>4, <3>2, <3>3
  <2>17. ASSUME NEW i \in Conn, DecoderEnds(i) PROVE ThreadsOK'
    <3>1. dpc[i] = "take" /\ dhand[i] = 0
      BY <2>17 DEF DecoderEnds, ThreadsOK
    <3>2. \A j \in Conn : /\ dpc'[j] = IF j = i THEN "done" ELSE dpc[j]
                          /\ dhand'[j] = IF j = i THEN 0 ELSE dhand[j]
      BY <2>17, <3>1 DEF DecoderEnds, TypeOK
    <3> QED
      BY <2>4, <2>17, <3>1, <3>2 DEF DecoderEnds
  <2> QED
    BY <1>2, <2>6, <2>7, <2>8, <2>9, <2>10, <2>11, <2>12, <2>13, <2>14, <2>15, <2>16, <2>17,
       DropSteps DEF Next, Open, Close, Reader, Decoder
<1> QED
  BY <1>1, <1>2

(* What the steps of the two threads have in common.                       *)
LEMMA ThreadSteps ==
    ASSUME NEW i \in Conn,
           \/ BeginFetch(i) \/ Fetched(i) \/ FetchThrows(i) \/ Acknowledge(i) \/ Push(i)
           \/ Take(i) \/ Decode(i) \/ DecoderEnds(i)
    PROVE  UNCHANGED <<conn, cstate, opener, exec, crashed, losses, swept>>
BY DEF BeginFetch, Fetched, FetchThrows, Acknowledge, Push, Take, Decode, DecoderEnds,
       members, ghosts

LEMMA Fetches ==
    ASSUME TypeOK, ThreadsOK, NEW i \in Conn, Fetched(i)
    PROVE  \E m \in queue :
              /\ m \in Msg /\ \A y \in queue : m <= y
              /\ ron[i] \in Started /\ ron[i] \in Conn /\ cstate[ron[i]] = "open"
              /\ rpc[i] = "fetch" /\ rhand[i] = 0
              /\ queue' = queue \ {m}
              /\ UNCHANGED <<acking, members, opener, ron, decoders, dcs, exec,
                             crashed, applied, ghosts>>
              /\ \A d \in Conn :
                    /\ out'[d] = IF d = ron[i] THEN out[d] \union {m} ELSE out[d]
                    /\ rhand'[d] = IF d = i THEN m ELSE rhand[d]
                    /\ rpc'[d] = IF d = i THEN "ack" ELSE rpc[d]
<1>1. Min(queue) \in queue /\ \A y \in queue : Min(queue) <= y
  <2>1. queue \in SUBSET Nat /\ queue # {}
    BY Plain DEF Fetched, TypeOK
  <2> QED
    BY <2>1, MinOfSome
<1>2. PICK m \in queue : m = Min(queue)
  BY <1>1
<1>3. m \in Msg /\ \A y \in queue : m <= y
  BY <1>1, <1>2 DEF TypeOK
<1>4. /\ ron[i] \in Started /\ ron[i] \in Conn /\ cstate[ron[i]] = "open"
      /\ rpc[i] = "fetch" /\ rhand[i] = 0
  BY DEF Fetched, ThreadsOK, IsOpen, Started
<1>5. /\ queue' = queue \ {m} /\ out' = [out EXCEPT ![ron[i]] = @ \union {m}]
      /\ rhand' = [rhand EXCEPT ![i] = m] /\ rpc' = [rpc EXCEPT ![i] = "ack"]
      /\ UNCHANGED <<acking, members, opener, ron, decoders, dcs, exec,
                     crashed, applied, ghosts>>
  BY <1>2 DEF Fetched
<1>6. \A d \in Conn :
         /\ out'[d] = IF d = ron[i] THEN out[d] \union {m} ELSE out[d]
         /\ rhand'[d] = IF d = i THEN m ELSE rhand[d]
         /\ rpc'[d] = IF d = i THEN "ack" ELSE rpc[d]
  BY <1>4, <1>5 DEF TypeOK
<1> QED
  BY <1>3, <1>4, <1>5, <1>6

LEMMA NextSwept == TypeOK /\ OpensOK /\ SweptOK /\ [Next]_vars => SweptOK'
<1> SUFFICES ASSUME TypeOK, OpensOK, SweptOK, [Next]_vars PROVE SweptOK'
  OBVIOUS
<1> USE DEF ghosts
<1>1. ASSUME swept' = swept, exec = "closed" => exec' = "closed" PROVE SweptOK'
  BY <1>1 DEF SweptOK
<1>2. CASE DropStep
  BY <1>1, <1>2 DEF DropStep
<1>3. CASE Joined
  BY <1>3 DEF Joined, SweptOK
<1>4. CASE Check \/ Connect \/ CreateSession \/ CreateReceiver \/ Shutdown \/ Interrupt
           \/ UNCHANGED vars
  BY <1>1, <1>4 DEF Check, Connect, CreateSession, CreateReceiver, Shutdown, Interrupt, vars
<1>5. ASSUME NEW i \in Conn, Settle(i) \/ (ReaderEnds(i) /\ conn = 0) PROVE SweptOK'
  BY <1>1, <1>5 DEF Settle, ReaderEnds
<1> QED
  BY <1>1, <1>2, <1>3, <1>4, <1>5, DropSteps, ThreadSteps DEF Next, Open, Close, Reader, Decoder

LEMMA NextNull ==
    TypeOK /\ OpensOK /\ ThreadsOK /\ NullUse /\ [Next]_vars => NullUse'
<1> SUFFICES ASSUME TypeOK, OpensOK, ThreadsOK, NullUse, [Next]_vars PROVE NullUse'
  OBVIOUS
<1>1. CASE crashed
  <2>1. UNCHANGED <<crashed, exec, dpc>>
    <3>1. ~Next
      BY <1>1 DEF Next, Check, Open, Connect, CreateSession, CreateReceiver, OpenThrows, Reader,
            BeginFetch, Fetched, FetchThrows, Acknowledge, Push, ReaderEnds, Decoder, Take, Decode,
            DecoderEnds, Settle, Lose, Shutdown, Close, CloseBegins, Interrupt, Joined
    <3> QED
      BY <3>1 DEF vars, decoders
  <2>2. Started' = Started
    BY <2>1 DEF Started
  <2> QED
    BY <2>1, <2>2 DEF NullUse
<1>2. CASE ~crashed
  <2>1. CASE Interrupt
    <3>1. Started' = Started /\ (latest = 0 => Started = {})
      BY <2>1, StartedStays DEF Interrupt, CreateReceiver, ThreadsOK
    <3> QED
      BY <1>2, <2>1, <3>1 DEF Interrupt, NullUse
  <2>2. ASSUME NEW i \in Conn, ReaderEnds(i), conn = 0 PROVE NullUse'
    <3>1. /\ Started' = Started
          /\ rpc[i] = "closing" /\ exec' = exec /\ i \in Started /\ i \in Used
      <4>1. dpc' = dpc /\ exec' = exec /\ rpc[i] = "closing"
        BY <2>2 DEF ReaderEnds, decoders
      <4> QED
        BY <4>1 DEF Started, ThreadsOK
    <3>2. exec = "closed"
      BY <2>2, <3>1 DEF OpensOK
    <3>3. latest \in Started /\ latest # i
      BY <3>1, <3>2 DEF ThreadsOK
    <3>4. Cardinality(Started) >= 2
      <4>1. IsFiniteSet(Started) /\ Started \subseteq Conn
        BY Plain, FS_Subset DEF Started
      <4>2. IsFiniteSet({i, latest}) /\ Cardinality({i, latest}) = 2
        <5>1. IsFiniteSet({i}) /\ Cardinality({i}) = 1 /\ {i, latest} = {i} \union {latest}
          BY FS_Singleton
        <5>2. latest \notin {i}
          BY <3>3
        <5>3. /\ IsFiniteSet({i} \union {latest})
              /\ Cardinality({i} \union {latest}) = Cardinality({i}) + 1
          BY <5>1, <5>2, FS_AddElement
        <5> QED
          BY <5>1, <5>3
      <4>3. {i, latest} \subseteq Started
        BY <3>1, <3>3
      <4> QED
        BY <4>1, <4>2, <4>3, FS_Subset, FS_CardinalityType
    <3> QED
      BY <3>1, <3>2, <3>4 DEF NullUse
  <2>3. ASSUME crashed' = crashed PROVE NullUse'
    BY <1>2, <2>3 DEF NullUse
  <2>4. CASE DropStep \/ (\E i \in Conn : Settle(i)) \/ Check \/ Connect \/ CreateSession
             \/ CreateReceiver \/ Shutdown \/ Joined \/ UNCHANGED vars
    BY <2>3, <2>4 DEF DropStep, Settle, Check, Connect, CreateSession, CreateReceiver, Shutdown,
                      Joined, vars
  <2> QED
    BY <2>1, <2>2, <2>3, <2>4, DropSteps, ThreadSteps DEF Next, Open, Close, Reader, Decoder
<1> QED
  BY <1>1, <1>2

LEMMA NextBroker ==
    TypeOK /\ OpensOK /\ ThreadsOK /\ BrokerOK /\ [Next]_vars => BrokerOK'
<1> SUFFICES ASSUME TypeOK, OpensOK, ThreadsOK, BrokerOK, [Next]_vars PROVE BrokerOK'
  OBVIOUS
<1> USE DEF broker, members, readers, decoders, ghosts
<1>1. Started \subseteq Started' /\ Started \subseteq Conn
  BY StartedStays, Receives DEF Started
<1>2. CASE DropStep
  <2>1. PICK c \in Conn : \E S \in {{}, acking[c]} : Drop(c, S)
    BY <1>2 DEF DropStep
  <2>2. PICK S \in {{}, acking[c]} : Drop(c, S)
    BY <2>1
  <2>3. /\ queue' = queue \union (out[c] \ S)
        /\ \A d \in Conn : /\ cstate'[d] = IF d = c THEN "closed" ELSE cstate[d]
                           /\ out'[d] = IF d = c THEN {} ELSE out[d]
                           /\ acking'[d] = IF d = c THEN {} ELSE acking[d]
    BY <2>2, Dropped
  <2> QED
    BY <1>1, <2>3 DEF BrokerOK
<1>3. ASSUME NEW c \in Conn, Settle(c) PROVE BrokerOK'
  <2>1. /\ queue' = queue /\ cstate' = cstate
        /\ \A d \in Conn : /\ out'[d] = IF d = c THEN out[d] \ acking[d] ELSE out[d]
                           /\ acking'[d] = IF d = c THEN {} ELSE acking[d]
    BY <1>3 DEF Settle, TypeOK
  <2>2. ASSUME NEW d \in Conn PROVE acking'[d] \subseteq out'[d] /\ out'[d] \subseteq out[d]
    BY <2>1 DEF BrokerOK
  <2> QED
    BY <1>1, <2>1, <2>2 DEF BrokerOK
<1>4. ASSUME NEW i \in Conn, Fetched(i) PROVE BrokerOK'
  <2>1. PICK m \in queue :
        /\ ron[i] \in Started /\ cstate[ron[i]] = "open" /\ queue' = queue \ {m}
        /\ UNCHANGED <<acking, cstate>>
        /\ \A d \in Conn : out'[d] = IF d = ron[i] THEN out[d] \union {m} ELSE out[d]
    BY <1>4, Fetches
  <2>2. ASSUME NEW d \in Conn
        PROVE  acking'[d] \subseteq out'[d] /\ \A n \in out'[d] : n \in out[d] \/ (n = m /\ d = ron[i])
    <3>1. acking[d] \subseteq out[d] /\ acking'[d] = acking[d]
      BY <2>1 DEF BrokerOK
    <3>2. CASE d = ron[i]
      <4>1. out'[d] = out[d] \union {m}
        BY <2>1, <3>2
      <4> QED
        BY <3>1, <3>2, <4>1
    <3>3. CASE d # ron[i]
      <4>1. out'[d] = out[d]
        BY <2>1, <3>3
      <4> QED
        BY <3>1, <4>1
    <3> QED
      BY <3>2, <3>3
  <2>3. ASSUME NEW d \in Conn, NEW n \in out'[d]
        PROVE  /\ cstate'[d] = "open" /\ d \in Started' /\ n \notin queue'
               /\ \A e \in Conn : n \in out'[e] => e = d
    <3>1. n = m => n \in queue /\ d = ron[i]
      BY <2>2 DEF BrokerOK
    <3>2. n # m => n \in out[d] /\ n \notin queue
      BY <2>2 DEF BrokerOK
    <3>3. \A e \in Conn : n \in out'[e] => e = d
      BY <2>2, <2>3, <3>1, <3>2 DEF BrokerOK
    <3> QED
      BY <1>1, <2>1, <3>1, <3>2, <3>3 DEF BrokerOK
  <2> QED
    BY <2>2, <2>3 DEF BrokerOK
<1>5. ASSUME NEW i \in Conn, Acknowledge(i) PROVE BrokerOK'
  <2>1. UNCHANGED <<queue, out, cstate>>
        /\ \A d \in Conn : acking'[d] = acking[d] \/ acking'[d] = out[d]
    BY <1>5 DEF Acknowledge, TypeOK, IsOpen
  <2> QED
    BY <1>1, <2>1 DEF BrokerOK
<1>6. ASSUME UNCHANGED <<queue, out, acking>>,
             \A d \in Conn : cstate'[d] = cstate[d] \/ cstate[d] # "open"
      PROVE  BrokerOK'
  BY <1>1, <1>6 DEF BrokerOK
<1>7. CASE Connect
  BY <1>6, <1>7, Connects
<1>8. CASE Check \/ CreateSession \/ CreateReceiver \/ Shutdown \/ Interrupt \/ Joined
           \/ UNCHANGED vars
  BY <1>6, <1>8 DEF Check, CreateSession, CreateReceiver, Shutdown, Interrupt, Joined, vars
<1>9. ASSUME NEW i \in Conn,
             \/ BeginFetch(i) \/ FetchThrows(i) \/ Push(i) \/ (ReaderEnds(i) /\ conn = 0)
             \/ Decoder(i)
      PROVE  BrokerOK'
  <2>1. UNCHANGED <<queue, out, acking, cstate>>
    BY <1>9 DEF BeginFetch, FetchThrows, Push, ReaderEnds, Decoder, Take, Decode, DecoderEnds
  <2> QED
    BY <1>6, <2>1
<1> QED
  BY <1>2, <1>3, <1>4, <1>5, <1>7, <1>8, <1>9, DropSteps DEF Next, Open, Close, Reader

(* A chunk added and a chunk taken.                                        *)
LEMMA Appended ==
    ASSUME NEW s \in Seq(Msg), NEW m \in Msg
    PROVE  /\ Append(s, m) \in Seq(Msg) /\ Len(s) \in Nat
           /\ DOMAIN s = 1 .. Len(s) /\ DOMAIN Append(s, m) = 1 .. (Len(s) + 1)
           /\ \A k \in DOMAIN s : Append(s, m)[k] = s[k] /\ s[k] \in Msg
           /\ Append(s, m)[Len(s) + 1] = m
BY AppendProperties, LenProperties, ElementOfSeq

LEMMA Tailed ==
    ASSUME NEW s \in Seq(Msg), s # << >>
    PROVE  /\ Tail(s) \in Seq(Msg) /\ Len(s) \in Nat \ {0} /\ Head(s) = s[1] /\ Head(s) \in Msg
           /\ DOMAIN s = 1 .. Len(s) /\ DOMAIN Tail(s) = 1 .. (Len(s) - 1)
           /\ \A k \in DOMAIN Tail(s) : Tail(s)[k] = s[k + 1]
           /\ \A k \in DOMAIN s : s[k] \in Msg
<1>1. /\ Tail(s) \in Seq(Msg) /\ Len(Tail(s)) = Len(s) - 1 /\ Len(s) \in Nat
      /\ \A k \in 1 .. Len(Tail(s)) : Tail(s)[k] = s[k + 1]
      /\ Head(s) = s[1] /\ Head(s) \in Msg
  BY HeadTailProperties
<1>2. DOMAIN s = 1 .. Len(s) /\ DOMAIN Tail(s) = 1 .. Len(Tail(s))
      /\ Len(Tail(s)) \in Nat
  BY <1>1, LenProperties
<1>3. \A k \in DOMAIN s : s[k] \in Msg
  BY <1>2, ElementOfSeq
<1> QED
  BY <1>1, <1>2, <1>3

(* Who is alone.                                                           *)
LEMMA AloneBefore ==
    ASSUME TypeOK, OpensOK, ThreadsOK, [Next]_vars, Alone'
    PROVE  Alone /\ (CreateReceiver => Started = {})
<1>1. CASE CreateReceiver
  BY <1>1, Receives DEF Alone
<1>2. CASE ~CreateReceiver
  BY <1>2, StartedStays DEF Alone
<1> QED
  BY <1>1, <1>2

LEMMA NextLine ==
    TypeOK /\ OpensOK /\ ThreadsOK /\ BrokerOK /\ LineOK /\ [Next]_vars => LineOK'
<1> SUFFICES ASSUME TypeOK, OpensOK, ThreadsOK, BrokerOK, LineOK, [Next]_vars, Alone'
             PROVE  InLine'
  BY DEF LineOK
<1> USE DEF members, readers, decoders, ghosts
<1>1. Alone /\ InLine /\ (CreateReceiver => Started = {})
  BY AloneBefore DEF LineOK
<1>2. ASSUME UNCHANGED <<applied, dcs, dhand, queue>>, Started' = Started,
             \A i \in Conn : rhand'[i] = rhand[i] \/ rhand'[i] = 0,
             \A i \in Started : cstate'[i] = "open" => cstate[i] = "open"
      PROVE  InLine'
  BY <1>1, <1>2 DEF InLine, Before
<1>3. CASE DropStep
  <2>1. PICK c \in Conn : \E S \in {{}, acking[c]} : Drop(c, S)
    BY <1>3 DEF DropStep
  <2>2. PICK S \in {{}, acking[c]} : Drop(c, S)
    BY <2>1
  <2>3. /\ queue' = queue \union (out[c] \ S)
        /\ \A d \in Conn : cstate'[d] = IF d = c THEN "closed" ELSE cstate[d]
    BY <2>2, Dropped
  <2>4. UNCHANGED <<applied, dcs, dhand, rhand, dpc>> /\ Started' = Started
    BY <1>3 DEF DropStep, Started
  <2>5. CASE c \in Started
    <3>1. \A i \in Started' : cstate'[i] # "open"
      BY <1>1, <2>3, <2>4, <2>5 DEF Alone
    <3> QED
      BY <1>1, <2>4, <3>1 DEF InLine, Before
  <2>6. CASE c \notin Started
    <3>1. queue' = queue
      BY <2>3, <2>6 DEF BrokerOK
    <3> QED
      BY <1>2, <2>3, <2>4, <3>1 DEF Started
  <2> QED
    BY <2>5, <2>6
<1>4. CASE Check \/ CreateSession \/ Shutdown \/ Interrupt \/ UNCHANGED vars
  BY <1>2, <1>4, broker' = broker => queue' = queue
     DEF Check, CreateSession, Shutdown, Interrupt, vars, Started, broker
<1>5. CASE Connect
  <2>1. /\ UNCHANGED <<applied, dcs, dhand, rhand, dpc, queue>>
        /\ \A d \in Conn : d # conn' => cstate'[d] = cstate[d]
        /\ conn' \notin Used
    BY <1>5, Connects DEF broker
  <2>2. Started' = Started /\ conn' \notin Started
    BY <2>1 DEF Started, ThreadsOK
  <2> QED
    BY <1>2, <2>1, <2>2 DEF Started
<1>6. CASE CreateReceiver
  <2>1. Started = {} /\ UNCHANGED <<applied, dcs, dhand, rhand>>
    BY <1>1, <1>6, Receives
  <2>2. dcs' = << >> /\ applied' = << >> /\ \A i \in Conn : dhand'[i] = 0 /\ rhand'[i] = 0
    <3>1. \A i \in Conn : dpc[i] = "none" /\ rpc[i] = "none"
      BY <2>1 DEF Started, ThreadsOK
    <3> QED
      BY <2>1, <3>1 DEF ThreadsOK
  <2>3. DOMAIN (dcs') = {} /\ DOMAIN (applied') = {}
    BY <2>2
  <2>4. \A m \in queue' : Before(m)'
    BY <2>2, <2>3 DEF Before
  <2> QED
    BY <2>2, <2>3, <2>4 DEF InLine
<1>7. ASSUME NEW c \in Conn, Settle(c) PROVE InLine'
  BY <1>2, <1>7 DEF Settle, Started
<1>8. ASSUME NEW i \in Conn,
             \/ BeginFetch(i) \/ FetchThrows(i) \/ DecoderEnds(i) \/ (ReaderEnds(i) /\ conn = 0)
      PROVE  InLine'
  <2>1. UNCHANGED <<applied, dcs, dhand, rhand, queue, cstate>>
    BY <1>8 DEF BeginFetch, FetchThrows, DecoderEnds, ReaderEnds, broker
  <2>2. Started' = Started
    BY <1>8, StartedStays DEF BeginFetch, FetchThrows, DecoderEnds, ReaderEnds, CreateReceiver, Started
  <2> QED
    BY <1>2, <2>1, <2>2
<1>9. ASSUME NEW i \in Conn, Acknowledge(i) PROVE InLine'
  <2>1. UNCHANGED <<applied, dcs, dhand, queue, cstate, dpc>>
        /\ \A j \in Conn : rhand'[j] = rhand[j] \/ rhand'[j] = 0
    BY <1>9 DEF Acknowledge, TypeOK
  <2> QED
    BY <1>2, <2>1 DEF Started
<1>10. ASSUME NEW i \in Started PROVE \A j \in Conn : j # i => rhand[j] = 0 /\ dhand[j] = 0
  <2>1. \A j \in Conn : j # i => rpc[j] = "none" /\ dpc[j] = "none"
    BY <1>1, <1>10 DEF Alone, ThreadsOK, Started
  <2> QED
    BY <2>1 DEF ThreadsOK
<1>11. ASSUME NEW i \in Conn, Fetched(i) PROVE InLine'
  <2>1. PICK m \in queue :
        /\ m \in Msg /\ \A y \in queue : m <= y
        /\ ron[i] \in Started /\ cstate[ron[i]] = "open" /\ rpc[i] = "fetch"
        /\ queue' = queue \ {m}
        /\ \A d \in Conn : rhand'[d] = IF d = i THEN m ELSE rhand[d]
    <3>1. PICK m \in queue :
          /\ m \in Msg /\ \A y \in queue : m <= y
          /\ ron[i] \in Started /\ ron[i] \in Conn /\ cstate[ron[i]] = "open"
          /\ rpc[i] = "fetch" /\ rhand[i] = 0
          /\ queue' = queue \ {m}
          /\ UNCHANGED <<acking, members, opener, ron, decoders, dcs, exec,
                         crashed, applied, ghosts>>
          /\ \A d \in Conn :
                /\ out'[d] = IF d = ron[i] THEN out[d] \union {m} ELSE out[d]
                /\ rhand'[d] = IF d = i THEN m ELSE rhand[d]
                /\ rpc'[d] = IF d = i THEN "ack" ELSE rpc[d]
      BY <1>11, Fetches
    <3> QED
      BY <3>1
  <2>2. UNCHANGED <<cstate, dpc, dhand, dcs, applied>>
    BY <1>11 DEF Fetched
  <2>3. i \in Started /\ ron[i] = i /\ Started' = Started
    BY <1>1, <2>1, <2>2 DEF ThreadsOK, Alone, Started
  <2>4. \A d \in Conn : rhand'[d] # 0 => rhand'[d] = m
    BY <1>10, <2>1, <2>3
  <2>5. Before(m) /\ \A n \in queue : Before(n)
    BY <1>1, <2>1, <2>3 DEF InLine
  <2>6. Before(m)' /\ \A n \in queue' : Before(n)' /\ m < n
    <3>1. \A n \in queue' : m < n
      BY <2>1, Plain DEF TypeOK
    <3> QED
      BY <2>1, <2>2, <2>5, <3>1 DEF Before
  <2> QED
    BY <1>1, <2>2, <2>3, <2>4, <2>6 DEF InLine
<1>12. ASSUME NEW i \in Conn, Push(i) PROVE InLine'
  <2>1. /\ rpc[i] = "push" /\ dcs' = Append(dcs, rhand[i])
        /\ UNCHANGED <<queue, cstate, applied, dhand, dpc>>
        /\ \A j \in Conn : rhand'[j] = IF j = i THEN 0 ELSE rhand[j]
    BY <1>12 DEF Push, Pushed, TypeOK, broker
  <2>2. i \in Started /\ rhand[i] \in Msg /\ rhand[i] # 0 /\ Started' = Started
    BY <2>1, Plain DEF ThreadsOK, TypeOK, Started
  <2> DEFINE m == rhand[i]
  <2>3. /\ Len(dcs) \in Nat /\ DOMAIN dcs = 1 .. Len(dcs) /\ DOMAIN (dcs') = 1 .. (Len(dcs) + 1)
        /\ \A k \in DOMAIN dcs : dcs'[k] = dcs[k] /\ dcs[k] \in Msg
        /\ dcs'[Len(dcs) + 1] = m
    BY <2>1, <2>2, Appended DEF TypeOK
  <2>4. \A k \in DOMAIN (dcs') : (k \in DOMAIN dcs /\ dcs'[k] = dcs[k]) \/ (k = Len(dcs) + 1 /\ dcs'[k] = m)
    BY <2>3
  <2>5. Before(m) /\ \A j \in Conn : rhand'[j] = 0
    BY <1>1, <1>10, <2>1, <2>2 DEF InLine
  <2> HIDE DEF m
  <2>6. \A k, l \in DOMAIN (dcs') : k < l => dcs'[k] < dcs'[l]
    BY <1>1, <2>3, <2>4, <2>5 DEF InLine, Before
  <2>7. \A k \in DOMAIN applied, l \in DOMAIN (dcs') : applied[k] < dcs'[l]
    BY <1>1, <2>4, <2>5 DEF InLine, Before
  <2>8. \A j \in Conn : dhand[j] # 0 => \A k \in DOMAIN (dcs') : dhand[j] < dcs'[k]
    BY <1>1, <2>4, <2>5 DEF InLine, Before
  <2>9. ASSUME NEW j \in Started, cstate[j] = "open", NEW n \in queue PROVE Before(n)'
    <3>1. Before(n) /\ m < n
      BY <1>1, <2>2, <2>9 DEF InLine, m
    <3>2. \A k \in DOMAIN (dcs') : dcs'[k] < n
      BY <2>4, <3>1 DEF Before
    <3> QED
      BY <2>1, <3>1, <3>2 DEF Before
  <2> QED
    BY <1>1, <2>1, <2>2, <2>5, <2>6, <2>7, <2>8, <2>9 DEF InLine
<1>13. ASSUME NEW i \in Conn, Take(i) PROVE InLine'
  <2>1. /\ dpc[i] = "take" /\ dcs # << >> /\ dcs' = Tail(dcs)
        /\ UNCHANGED <<queue, cstate, applied, rhand>>
        /\ \A j \in Conn : /\ dhand'[j] = IF j = i THEN Head(dcs) ELSE dhand[j]
                           /\ dpc'[j] = IF j = i THEN "decode" ELSE dpc[j]
    BY <1>13 DEF Take, Popped, TypeOK, broker
  <2>2. i \in Started /\ Started' = Started
    BY <2>1 DEF Started
  <2>3. /\ Len(dcs) \in Nat \ {0} /\ Head(dcs) = dcs[1]
        /\ DOMAIN dcs = 1 .. Len(dcs) /\ DOMAIN (dcs') = 1 .. (Len(dcs) - 1)
        /\ \A k \in DOMAIN (dcs') : dcs'[k] = dcs[k + 1]
    BY <2>1, Tailed DEF TypeOK
  <2>4. /\ 1 \in DOMAIN dcs
        /\ \A k \in DOMAIN (dcs') : k \in Int /\ k + 1 \in DOMAIN dcs /\ dcs'[k] = dcs[k + 1] /\ 1 < k + 1
    BY <2>3
  <2>5. \A j \in Conn : dhand'[j] # 0 => j = i /\ dhand'[j] = dcs[1]
    BY <1>10, <2>1, <2>2, <2>3
  <2>6. /\ \A k, l \in DOMAIN (dcs') : k < l => dcs'[k] < dcs'[l]
        /\ \A k \in DOMAIN applied, l \in DOMAIN (dcs') : applied[k] < dcs'[l]
        /\ \A k \in DOMAIN applied : applied[k] < dcs[1]
        /\ \A k \in DOMAIN (dcs') : dcs[1] < dcs'[k]
    BY <1>1, <2>4 DEF InLine
  <2>7. ASSUME NEW n, Before(n) PROVE Before(n)'
    BY <2>1, <2>4, <2>5, <2>7 DEF Before
  <2> QED
    BY <1>1, <2>1, <2>2, <2>5, <2>6, <2>7 DEF InLine
<1>14. ASSUME NEW i \in Conn, Decode(i) PROVE InLine'
  <2>1. /\ dpc[i] = "decode"
        /\ applied' = IF Parsed(dhand[i]) THEN Append(applied, dhand[i]) ELSE applied
        /\ UNCHANGED <<queue, cstate, dcs, rhand>>
        /\ \A j \in Conn : /\ dhand'[j] = IF j = i THEN 0 ELSE dhand[j]
                           /\ dpc'[j] = IF j = i THEN "take" ELSE dpc[j]
    BY <1>14 DEF Decode, TypeOK, broker
  <2>2. i \in Started /\ Started' = Started /\ dhand[i] # 0 /\ dhand[i] \in Msg
    BY <2>1, Plain DEF Started, ThreadsOK, TypeOK
  <2> DEFINE m == dhand[i]
  <2>3. PICK top \in Nat :
        /\ DOMAIN applied = 1 .. top
        /\ \A k \in DOMAIN (applied') : \/ k \in DOMAIN applied /\ applied'[k] = applied[k]
                                        \/ k = top + 1 /\ applied'[k] = m
    <3>1. /\ Len(applied) \in Nat /\ DOMAIN applied = 1 .. Len(applied)
          /\ DOMAIN Append(applied, m) = 1 .. (Len(applied) + 1)
          /\ \A k \in DOMAIN applied : Append(applied, m)[k] = applied[k]
          /\ Append(applied, m)[Len(applied) + 1] = m
      BY <2>2, Appended DEF TypeOK
    <3>2. \A k \in 1 .. (Len(applied) + 1) : k \in 1 .. Len(applied) \/ k = Len(applied) + 1
      BY <3>1
    <3> QED
      BY <2>1, <3>1, <3>2
  <2>4. \A j \in Conn : dhand'[j] = 0
    BY <1>10, <2>1, <2>2
  <2>5. /\ \A k \in DOMAIN applied : applied[k] < m
        /\ \A k \in DOMAIN dcs : m < dcs[k]
    BY <1>1, <2>2 DEF InLine
  <2>6. ASSUME NEW n, Before(n) PROVE Before(n)'
    <3>1. m < n
      BY <2>2, <2>6 DEF Before
    <3> QED
      BY <2>1, <2>3, <2>4, <2>6, <3>1 DEF Before
  <2> HIDE DEF m
  <2>7. \A k, l \in DOMAIN (applied') : k < l => applied'[k] < applied'[l]
    BY <1>1, <2>3, <2>5 DEF InLine
  <2>8. \A k \in DOMAIN (applied'), l \in DOMAIN dcs : applied'[k] < dcs[l]
    BY <1>1, <2>3, <2>5 DEF InLine
  <2> QED
    BY <1>1, <2>1, <2>2, <2>4, <2>6, <2>7, <2>8 DEF InLine
<1>15. CASE Joined
  <2>1. UNCHANGED <<queue, cstate, applied, rhand, dhand, dpc>> /\ dcs' = << >>
    BY <1>15 DEF Joined, broker
  <2>2. DOMAIN (dcs') = {} /\ Started' = Started
    BY <2>1 DEF Started
  <2> QED
    BY <1>1, <2>1, <2>2 DEF InLine, Before
<1> QED
  BY <1>3, <1>4, <1>5, <1>6, <1>7, <1>8, <1>9, <1>11, <1>12, <1>13, <1>14, <1>15, DropSteps
     DEF Next, Open, Close, Reader, Decoder

LEMMA StrayedStays ==
    ASSUME TypeOK, OpensOK, [Next]_vars, ~(strayed')
    PROVE  ~strayed
<1> USE DEF ghosts
<1>1. CASE DropStep
  BY <1>1 DEF DropStep
<1>2. CASE Check \/ Connect \/ CreateSession \/ CreateReceiver \/ Shutdown \/ Interrupt \/ Joined
           \/ UNCHANGED vars
  BY <1>2 DEF Check, Connect, CreateSession, CreateReceiver, Shutdown, Interrupt, Joined, vars
<1>3. ASSUME NEW i \in Conn, Settle(i) \/ (ReaderEnds(i) /\ conn = 0) PROVE ~strayed
  BY <1>3 DEF Settle, ReaderEnds
<1>4. ASSUME NEW i \in Conn,
             \/ BeginFetch(i) \/ Fetched(i) \/ FetchThrows(i) \/ Acknowledge(i) \/ Push(i)
             \/ Decoder(i)
      PROVE  ~strayed
  BY <1>4 DEF BeginFetch, Fetched, FetchThrows, Acknowledge, Push, Decoder, Take, Decode, DecoderEnds
<1> QED
  BY <1>1, <1>2, <1>3, <1>4, DropSteps DEF Next, Open, Close, Reader

(* An acknowledgement by a reader that keeps to its own session.           *)
LEMMA Acknowledges ==
    ASSUME TypeOK, ThreadsOK, BrokerOK, SessionOK, NEW i \in Conn, Acknowledge(i),
           ~strayed, ~(strayed')
    PROVE  /\ UNCHANGED <<queue, out, members, opener, ron, decoders, dcs, exec,
                          crashed, applied, losses, swept>>
           /\ rpc[i] = "ack"
           /\ \A d \in Conn : d # i => UNCHANGED <<acking[d], rpc[d], rhand[d]>>
           /\ \/ /\ cstate[i] = "open" /\ rhand[i] \in out[i] \ acking[i]
                 /\ acking'[i] = out[i] /\ rpc'[i] = "push" /\ rhand'[i] = rhand[i]
              \/ /\ out[i] = {} /\ acking'[i] = acking[i]
                 /\ rpc'[i] = "closing" /\ rhand'[i] = 0
<1>1. /\ UNCHANGED <<queue, out, members, opener, ron, decoders, dcs, exec,
                     crashed, applied, losses, swept>>
      /\ rpc[i] = "ack" /\ session = ron[i]
  BY DEF Acknowledge
<1>2. ron[i] = i /\ session = i /\ i # 0
  BY <1>1, Plain DEF SessionOK, Own
<1>3. CASE cstate[i] = "open"
  <2>1. acking' = [acking EXCEPT ![i] = out[i]] /\ rpc' = [rpc EXCEPT ![i] = "push"]
        /\ rhand' = rhand
    BY <1>2, <1>3 DEF Acknowledge, IsOpen
  <2>2. rhand[i] \in out[i] \ acking[i]
    BY <1>1, <1>3 DEF SessionOK, Own
  <2>3. /\ \A d \in Conn : d # i => UNCHANGED <<acking[d], rpc[d], rhand[d]>>
        /\ acking'[i] = out[i] /\ rpc'[i] = "push" /\ rhand'[i] = rhand[i]
    BY <2>1 DEF TypeOK
  <2> QED
    BY <1>1, <1>3, <2>2, <2>3
<1>4. CASE cstate[i] # "open"
  <2>1. acking' = acking /\ rpc' = [rpc EXCEPT ![i] = "closing"]
        /\ rhand' = [rhand EXCEPT ![i] = 0]
    BY <1>2, <1>4 DEF Acknowledge, IsOpen
  <2>2. out[i] = {}
    BY <1>4 DEF BrokerOK
  <2>3. /\ \A d \in Conn : d # i => UNCHANGED <<acking[d], rpc[d], rhand[d]>>
        /\ acking'[i] = acking[i] /\ rpc'[i] = "closing" /\ rhand'[i] = 0
    BY <2>1 DEF TypeOK
  <2> QED
    BY <1>1, <2>2, <2>3
<1> QED
  BY <1>3, <1>4

LEMMA NextSession ==
    TypeOK /\ OpensOK /\ ThreadsOK /\ BrokerOK /\ SessionOK /\ [Next]_vars => SessionOK'
<1> SUFFICES ASSUME TypeOK, OpensOK, ThreadsOK, BrokerOK, SessionOK, [Next]_vars,
                    ~(strayed'), NEW i \in Conn
             PROVE  Own(i)'
  BY DEF SessionOK
<1>1. ~strayed /\ \A j \in Conn : Own(j)
  BY StrayedStays DEF SessionOK
<1>2. ASSUME UNCHANGED <<out[i], acking[i], rhand[i]>>,
             ron'[i] = ron[i] \/ rpc'[i] \notin {"fetch", "ack"},
             rpc'[i] = rpc[i] \/ (rpc[i] # "ack" /\ rpc'[i] \notin {"fetch", "ack"}),
             cstate'[i] = cstate[i] \/ rpc[i] # "ack"
      PROVE  Own(i)'
  BY <1>1, <1>2 DEF Own
<1>3. CASE DropStep
  <2>1. PICK c \in Conn : \E S \in {{}, acking[c]} : Drop(c, S)
    BY <1>3 DEF DropStep
  <2>2. PICK S \in {{}, acking[c]} : Drop(c, S)
    BY <2>1
  <2>3. \A d \in Conn : /\ cstate'[d] = IF d = c THEN "closed" ELSE cstate[d]
                        /\ out'[d] = IF d = c THEN {} ELSE out[d]
                        /\ acking'[d] = IF d = c THEN {} ELSE acking[d]
    BY <2>2, Dropped
  <2>4. UNCHANGED <<ron, rhand>> /\ (rpc'[i] = rpc[i] \/ (rpc[i] = "closing" /\ rpc'[i] = "done"))
    BY <1>3 DEF DropStep
  <2> QED
    BY <1>1, <2>3, <2>4 DEF Own
<1>4. CASE Connect
  <2>1. /\ UNCHANGED <<out, acking, rpc, ron, rhand>> /\ conn' \notin Used
        /\ \A d \in Conn : d # conn' => cstate'[d] = cstate[d]
    BY <1>4, Connects DEF broker, readers
  <2>2. cstate'[i] = cstate[i] \/ rpc[i] # "ack"
    BY <2>1 DEF ThreadsOK
  <2> QED
    BY <1>2, <2>1, <2>2
<1>5. CASE CreateReceiver
  <2>1. /\ UNCHANGED <<out, acking, cstate, ron, rhand>> /\ conn \notin Started
        /\ \A d \in Conn : rpc'[d] = IF d = conn THEN "loop" ELSE rpc[d]
    BY <1>5, Receives DEF broker
  <2>2. rpc'[i] = rpc[i] \/ (rpc[i] = "none" /\ rpc'[i] = "loop")
    BY <2>1 DEF ThreadsOK
  <2> QED
    BY <1>2, <2>1, <2>2
<1>6. CASE Check \/ CreateSession \/ Shutdown \/ Interrupt \/ Joined \/ UNCHANGED vars
  <2>1. UNCHANGED <<out, acking, cstate, rpc, ron, rhand>>
    BY <1>6 DEF Check, CreateSession, Shutdown, Interrupt, Joined, vars, broker, members, readers
  <2> QED
    BY <1>2, <2>1
<1>7. ASSUME NEW c \in Conn, Settle(c) PROVE Own(i)'
  <2>1. UNCHANGED <<cstate, rpc, ron, rhand>>
        /\ \A d \in Conn : /\ out'[d] = IF d = c THEN out[d] \ acking[d] ELSE out[d]
                           /\ acking'[d] = IF d = c THEN {} ELSE acking[d]
    BY <1>7 DEF Settle, TypeOK, members, readers
  <2>2. out'[i] \ acking'[i] = out[i] \ acking[i]
    BY <2>1
  <2> QED
    BY <1>1, <2>1, <2>2 DEF Own
<1>8. ASSUME NEW j \in Conn, BeginFetch(j) PROVE Own(i)'
  <2>1. /\ UNCHANGED <<out, acking, cstate, rhand>> /\ rpc[j] = "loop"
        /\ \A d \in Conn : /\ rpc'[d] = IF d = j THEN "fetch" ELSE rpc[d]
                           /\ ron'[d] = IF d = j THEN j ELSE ron[d]
    BY <1>8 DEF BeginFetch, TypeOK, broker, members
  <2> QED
    BY <1>1, <2>1 DEF Own
<1>9. ASSUME NEW j \in Conn, Fetched(j) PROVE Own(i)'
  <2>1. PICK m \in queue :
        /\ m \in Msg /\ \A y \in queue : m <= y
        /\ ron[j] \in Started /\ ron[j] \in Conn /\ cstate[ron[j]] = "open"
        /\ rpc[j] = "fetch" /\ rhand[j] = 0
        /\ queue' = queue \ {m}
        /\ UNCHANGED <<acking, members, opener, ron, decoders, dcs, exec,
                       crashed, applied, ghosts>>
        /\ \A d \in Conn :
              /\ out'[d] = IF d = ron[j] THEN out[d] \union {m} ELSE out[d]
              /\ rhand'[d] = IF d = j THEN m ELSE rhand[d]
              /\ rpc'[d] = IF d = j THEN "ack" ELSE rpc[d]
    BY <1>9, Fetches
  <2>2. ron[j] = j /\ cstate' = cstate /\ out[j] \ acking[j] = {}
    BY <1>1, <2>1 DEF Own, members
  <2>3. m \notin acking[j]
    BY <2>1 DEF BrokerOK
  <2>4. CASE i = j
    <3>1. out'[i] \ acking'[i] = {m} /\ rpc'[i] = "ack" /\ rhand'[i] = m /\ ron'[i] = i
      BY <2>1, <2>2, <2>3, <2>4
    <3> QED
      BY <3>1 DEF Own
  <2>5. CASE i # j
    BY <1>2, <2>1, <2>2, <2>5
  <2> QED
    BY <2>4, <2>5
<1>10. ASSUME NEW j \in Conn, FetchThrows(j) \/ Push(j) \/ (ReaderEnds(j) /\ conn = 0)
       PROVE  Own(i)'
  <2>1. /\ UNCHANGED <<out, acking, cstate, ron>> /\ rpc[j] # "ack"
        /\ rpc'[j] \notin {"fetch", "ack"}
        /\ \A d \in Conn : d # j => UNCHANGED <<rpc[d], rhand[d]>>
    BY <1>10 DEF FetchThrows, Push, ReaderEnds, TypeOK, broker, members
  <2> QED
    BY <1>1, <2>1 DEF Own
<1>11. ASSUME NEW j \in Conn, Acknowledge(j) PROVE Own(i)'
  <2>1. /\ UNCHANGED <<out, cstate, ron>>
        /\ \A d \in Conn : d # j => UNCHANGED <<acking[d], rpc[d], rhand[d]>>
        /\ rpc'[j] \in {"push", "closing"}
        /\ acking'[j] = out[j] \/ out[j] = {}
    BY <1>1, <1>11, Acknowledges DEF members
  <2> QED
    BY <1>1, <2>1 DEF Own
<1>12. ASSUME NEW j \in Conn, Decoder(j) PROVE Own(i)'
  <2>1. UNCHANGED <<out, acking, cstate, rpc, ron, rhand>>
    BY <1>12 DEF Decoder, Take, Decode, DecoderEnds, broker, members, readers
  <2> QED
    BY <1>2, <2>1
<1> QED
  BY <1>3, <1>4, <1>5, <1>6, <1>7, <1>8, <1>9, <1>10, <1>11, <1>12, DropSteps
     DEF Next, Open, Close, Reader

LEMMA ElemsAppended ==
    ASSUME NEW s \in Seq(Msg), NEW m \in Msg
    PROVE  Elems(Append(s, m)) = Elems(s) \union {m}
<1>1. /\ Len(s) \in Nat /\ DOMAIN s = 1 .. Len(s) /\ DOMAIN Append(s, m) = 1 .. (Len(s) + 1)
      /\ \A k \in DOMAIN s : Append(s, m)[k] = s[k]
      /\ Append(s, m)[Len(s) + 1] = m
  BY Appended
<1>2. DOMAIN Append(s, m) = DOMAIN s \union {Len(s) + 1}
  BY <1>1
<1> QED
  BY <1>1, <1>2 DEF Elems

LEMMA ElemsTailed ==
    ASSUME NEW s \in Seq(Msg), s # << >>
    PROVE  Elems(s) = Elems(Tail(s)) \union {Head(s)}
<1>1. /\ Len(s) \in Nat \ {0} /\ Head(s) = s[1]
      /\ DOMAIN s = 1 .. Len(s) /\ DOMAIN Tail(s) = 1 .. (Len(s) - 1)
      /\ \A k \in DOMAIN Tail(s) : Tail(s)[k] = s[k + 1]
  BY Tailed
<1>2. ASSUME NEW k \in DOMAIN s, k # 1 PROVE k - 1 \in DOMAIN Tail(s) /\ s[k] = Tail(s)[k - 1]
  <2>1. k - 1 \in DOMAIN Tail(s) /\ (k - 1) + 1 = k
    BY <1>1, <1>2
  <2> QED
    BY <1>1, <2>1
<1>3. ASSUME NEW k \in DOMAIN Tail(s) PROVE k + 1 \in DOMAIN s /\ Tail(s)[k] = s[k + 1]
  BY <1>1
<1>4. 1 \in DOMAIN s
  BY <1>1
<1>5. \A x \in Elems(s) : x \in Elems(Tail(s)) \/ x = Head(s)
  <2>1. ASSUME NEW k \in DOMAIN s PROVE s[k] \in Elems(Tail(s)) \/ s[k] = Head(s)
    <3>1. CASE k = 1
      BY <1>1, <3>1
    <3>2. CASE k # 1
      BY <1>2, <3>2 DEF Elems
    <3> QED
      BY <3>1, <3>2
  <2> QED
    BY <2>1 DEF Elems
<1>6. Head(s) \in Elems(s)
  BY <1>1, <1>4 DEF Elems
<1>7. \A x \in Elems(Tail(s)) : x \in Elems(s)
  BY <1>3 DEF Elems
<1> QED
  BY <1>5, <1>6, <1>7

LEMMA StaysSafe ==
    ASSUME TypeOK, OpensOK, ThreadsOK, SweptOK, [Next]_vars, NEW m \in Msg, Safe(m)
    PROVE  Safe(m)'
<1>1. ASSUME swept' = swept,
             \A i \in Conn : dhand[i] = m => dhand'[i] = m \/ m \in Elems(applied') \union Malformed,
             \A i \in Conn : rpc[i] = "push" /\ rhand[i] = m =>
                                (rpc'[i] = "push" /\ rhand'[i] = m) \/ m \in Elems(dcs'),
             m \in Elems(dcs) => m \in Elems(dcs') \/ \E i \in Conn : dhand'[i] = m,
             m \in Elems(applied) => m \in Elems(applied')
      PROVE  Safe(m)'
  <2>1. (Elems(dcs))' = Elems(dcs') /\ (Elems(applied))' = Elems(applied')
    BY DEF Elems
  <2> QED
    BY <1>1, <2>1 DEF Safe
<1>2. CASE DropStep
  <2>1. UNCHANGED <<swept, dhand, rhand, dcs, applied>>
        /\ \A i \in Conn : rpc[i] = "push" => rpc'[i] = "push"
    BY <1>2 DEF DropStep, decoders
  <2> QED
    BY <1>1, <2>1
<1>3. CASE CreateReceiver
  <2>1. UNCHANGED <<swept, dhand, rhand, dcs, applied>> /\ conn \notin Started
        /\ \A i \in Conn : rpc'[i] = IF i = conn THEN "loop" ELSE rpc[i]
    BY <1>3, Receives DEF ghosts
  <2>2. \A i \in Conn : rpc[i] = "push" => rpc'[i] = "push"
    BY <2>1 DEF ThreadsOK
  <2> QED
    BY <1>1, <2>1, <2>2
<1>4. CASE Joined
  <2>1. /\ swept' = {dcs[k] : k \in DOMAIN dcs} /\ UNCHANGED <<dhand, rhand, rpc, applied>>
        /\ exec = "join"
    BY <1>4 DEF Joined, decoders, readers
  <2>2. swept = {} /\ swept' = Elems(dcs) /\ (Elems(applied))' = Elems(applied)
    BY <2>1 DEF SweptOK, Elems
  <2> QED
    BY <2>1, <2>2 DEF Safe
<1>5. CASE Check \/ Connect \/ CreateSession \/ Shutdown \/ Interrupt \/ UNCHANGED vars
  <2>1. UNCHANGED <<swept, dhand, rhand, rpc, dcs, applied>>
    BY <1>5 DEF Check, Connect, CreateSession, Shutdown, Interrupt, vars, readers, decoders, ghosts
  <2> QED
    BY <1>1, <2>1
<1>6. ASSUME NEW i \in Conn,
             \/ Settle(i) \/ BeginFetch(i) \/ FetchThrows(i) \/ DecoderEnds(i)
             \/ (ReaderEnds(i) /\ conn = 0)
      PROVE  Safe(m)'
  <2>1. UNCHANGED <<swept, dhand, rhand, dcs, applied>>
        /\ \A j \in Conn : rpc[j] = "push" => rpc'[j] = "push"
    BY <1>6 DEF Settle, BeginFetch, FetchThrows, DecoderEnds, ReaderEnds, TypeOK,
                readers, decoders, ghosts
  <2> QED
    BY <1>1, <2>1
<1>7. ASSUME NEW i \in Conn, Fetched(i) \/ Acknowledge(i) PROVE Safe(m)'
  <2>1. UNCHANGED <<swept, dhand, dcs, applied>> /\ rpc[i] \in {"fetch", "ack"}
        /\ \A j \in Conn : j # i => UNCHANGED <<rpc[j], rhand[j]>>
    BY <1>7 DEF Fetched, Acknowledge, TypeOK, decoders, ghosts
  <2>2. \A j \in Conn : rpc[j] = "push" /\ rhand[j] = m => rpc'[j] = "push" /\ rhand'[j] = m
    BY <2>1
  <2> QED
    BY <1>1, <2>1, <2>2
<1>8. ASSUME NEW i \in Conn, Push(i) PROVE Safe(m)'
  <2>1. /\ rpc[i] = "push" /\ dcs' = Append(dcs, rhand[i])
        /\ UNCHANGED <<swept, dhand, applied>>
        /\ \A j \in Conn : j # i => UNCHANGED <<rpc[j], rhand[j]>>
    BY <1>8 DEF Push, Pushed, TypeOK, decoders, ghosts
  <2>2. Elems(dcs') = Elems(dcs) \union {rhand[i]}
    <3>1. rhand[i] \in Msg
      BY <2>1 DEF TypeOK, ThreadsOK
    <3> QED
      BY <2>1, <3>1, ElemsAppended DEF TypeOK
  <2> QED
    BY <1>1, <2>1, <2>2
<1>9. ASSUME NEW i \in Conn, Take(i) PROVE Safe(m)'
  <2>1. /\ dpc[i] = "take" /\ dcs' = Tail(dcs) /\ dcs # << >>
        /\ UNCHANGED <<swept, rpc, rhand, applied>>
        /\ \A j \in Conn : dhand'[j] = IF j = i THEN Head(dcs) ELSE dhand[j]
    BY <1>9 DEF Take, Popped, TypeOK, readers, ghosts
  <2>2. Elems(dcs) = Elems(dcs') \union {Head(dcs)}
    BY <2>1, ElemsTailed DEF TypeOK
  <2>3. \A j \in Conn : dhand[j] = m => dhand'[j] = m
    BY <2>1, Plain DEF ThreadsOK
  <2> QED
    BY <1>1, <2>1, <2>2, <2>3
<1>10. ASSUME NEW i \in Conn, Decode(i) PROVE Safe(m)'
  <2>1. /\ dpc[i] = "decode" /\ UNCHANGED <<swept, rpc, rhand, dcs>>
        /\ applied' = IF Parsed(dhand[i]) THEN Append(applied, dhand[i]) ELSE applied
        /\ \A j \in Conn : j # i => dhand'[j] = dhand[j]
    BY <1>10 DEF Decode, TypeOK, readers, ghosts
  <2>2. Elems(applied') = IF Parsed(dhand[i]) THEN Elems(applied) \union {dhand[i]}
                                              ELSE Elems(applied)
    <3>1. dhand[i] \in Msg
      BY <2>1 DEF TypeOK, ThreadsOK
    <3> QED
      BY <2>1, <3>1, ElemsAppended DEF TypeOK
  <2>3. \A j \in Conn : dhand[j] = m => dhand'[j] = m \/ m \in Elems(applied') \union Malformed
    BY <2>1, <2>2 DEF Parsed
  <2> QED
    BY <1>1, <2>1, <2>2, <2>3
<1> QED
  BY <1>2, <1>3, <1>4, <1>5, <1>6, <1>7, <1>8, <1>9, <1>10, DropSteps
     DEF Next, Open, Close, Reader, Decoder

LEMMA NextSafe ==
    /\ TypeOK /\ OpensOK /\ ThreadsOK /\ SweptOK /\ BrokerOK /\ SessionOK /\ SafeOK /\ [Next]_vars
    => SafeOK'
<1> SUFFICES ASSUME TypeOK, OpensOK, ThreadsOK, SweptOK, BrokerOK, SessionOK, SafeOK, [Next]_vars,
                    ~(strayed')
             PROVE  /\ \A c \in Conn : \A m \in acking'[c] : Safe(m)'
                    /\ \A m \in Msg : Safe(m)' \/ m \in queue' \/ \E c \in Conn : m \in out'[c]
  BY DEF SafeOK
<1> DEFINE There(m) == m \in queue \/ \E c \in Conn : m \in out[c]
           Goal == /\ \A c \in Conn : \A m \in acking'[c] : Safe(m)'
                   /\ \A m \in Msg : Safe(m)' \/ m \in queue' \/ \E c \in Conn : m \in out'[c]
<1>1. ~strayed
  BY StrayedStays
<1>2. \A c \in Conn : \A m \in acking[c] : Safe(m)'
  <2>1. \A c \in Conn : \A m \in acking[c] : m \in Msg /\ Safe(m)
    BY <1>1 DEF SafeOK, TypeOK
  <2> QED
    BY <2>1, StaysSafe
<1>3. \A m \in Msg : Safe(m)' \/ There(m)
  <2>1. \A m \in Msg : Safe(m) \/ There(m)
    BY <1>1 DEF SafeOK
  <2> QED
    BY <2>1, StaysSafe
<1>4. ASSUME UNCHANGED <<queue, out, acking>> PROVE Goal
  BY <1>2, <1>3, <1>4
<1>5. CASE DropStep
  <2>1. PICK c \in Conn : \E S \in {{}, acking[c]} : Drop(c, S)
    BY <1>5 DEF DropStep
  <2>2. PICK S \in {{}, acking[c]} : Drop(c, S)
    BY <2>1
  <2>3. /\ queue' = queue \union (out[c] \ S)
        /\ \A d \in Conn : /\ out'[d] = IF d = c THEN {} ELSE out[d]
                           /\ acking'[d] = IF d = c THEN {} ELSE acking[d]
    BY <2>2, Dropped
  <2>4. ASSUME NEW m \in Msg PROVE Safe(m)' \/ m \in queue' \/ \E d \in Conn : m \in out'[d]
    <3>1. CASE m \in out[c]
      BY <1>2, <2>3, <3>1
    <3>2. CASE m \notin out[c]
      BY <1>3, <2>3, <3>2
    <3> QED
      BY <3>1, <3>2
  <2> QED
    BY <1>2, <2>3, <2>4
<1>6. ASSUME NEW c \in Conn, Settle(c) PROVE Goal
  <2>1. queue' = queue
        /\ \A d \in Conn : /\ out'[d] = IF d = c THEN out[d] \ acking[d] ELSE out[d]
                           /\ acking'[d] = IF d = c THEN {} ELSE acking[d]
    BY <1>6 DEF Settle, TypeOK
  <2> QED
    BY <1>2, <1>3, <2>1
<1>7. ASSUME NEW i \in Conn, Fetched(i) PROVE Goal
  <2>1. PICK m \in queue :
        /\ ron[i] \in Conn /\ queue' = queue \ {m} /\ acking' = acking
        /\ \A d \in Conn : out'[d] = IF d = ron[i] THEN out[d] \union {m} ELSE out[d]
    BY <1>7, Fetches
  <2>2. \A n \in Msg : There(n) => n \in queue' \/ \E d \in Conn : n \in out'[d]
    BY <2>1
  <2> QED
    BY <1>2, <1>3, <2>1, <2>2
<1>8. ASSUME NEW i \in Conn, Acknowledge(i) PROVE Goal
  <2>1. /\ UNCHANGED <<queue, out>>
        /\ \A d \in Conn : d # i => acking'[d] = acking[d]
        /\ \/ /\ acking'[i] = out[i] /\ rpc'[i] = "push" /\ rhand'[i] = rhand[i]
           \/ acking'[i] = acking[i]
    BY <1>1, <1>8, Acknowledges
  <2>2. ASSUME NEW m \in acking'[i], m \notin acking[i] PROVE Safe(m)'
    <3>1. m \in out[i] \ acking[i] /\ rpc'[i] = "push" /\ rhand'[i] = rhand[i]
      BY <2>1, <2>2
    <3>2. rhand'[i] = m
      BY <1>1, <3>1 DEF SessionOK, Own
    <3> QED
      BY <3>1, <3>2 DEF Safe
  <2> QED
    BY <1>2, <1>3, <2>1, <2>2
<1>9. CASE Check \/ Connect \/ CreateSession \/ CreateReceiver \/ Shutdown \/ Interrupt \/ Joined
           \/ UNCHANGED vars
  BY <1>4, <1>9 DEF Check, Connect, CreateSession, CreateReceiver, Shutdown, Interrupt, Joined,
                    vars, broker
<1>10. ASSUME NEW i \in Conn,
              \/ BeginFetch(i) \/ FetchThrows(i) \/ Push(i) \/ (ReaderEnds(i) /\ conn = 0)
              \/ Decoder(i)
       PROVE  Goal
  BY <1>4, <1>10 DEF BeginFetch, FetchThrows, Push, ReaderEnds, Decoder, Take, Decode, DecoderEnds,
                     broker
<1> QED
  BY <1>5, <1>6, <1>7, <1>8, <1>9, <1>10, DropSteps DEF Next, Open, Close, Reader

(* The places that Copies counts.                                          *)
At(s, m) == {k \in DOMAIN s : s[k] = m}
InHand(m) == {i \in Conn : dhand[i] = m}
ToPush(m) == {i \in Conn : rhand[i] = m /\ rpc[i] = "push"}

Done(m) == Cardinality(At(applied, m))
Read(m) == Cardinality(At(dcs, m))
Held(m) == Cardinality(InHand(m))
Pushing(m) == Cardinality(ToPush(m))

CountOK(m) ==
    /\ Copies(m) = Done(m) + Read(m) + Held(m) + Pushing(m)
    /\ Done(m) \in Nat /\ Read(m) \in Nat /\ Held(m) \in Nat /\ Pushing(m) \in Nat
    /\ IsFiniteSet(InHand(m)) /\ IsFiniteSet(ToPush(m))

LEMMA Counted == TypeOK => \A m : CountOK(m)
<1> SUFFICES ASSUME TypeOK, NEW m PROVE CountOK(m)
  OBVIOUS
<1>1. ASSUME NEW s \in Seq(Msg) PROVE IsFiniteSet(At(s, m))
  <2>1. Len(s) \in Nat /\ DOMAIN s = 1 .. Len(s)
    BY <1>1, LenProperties
  <2>2. IsFiniteSet(DOMAIN s) /\ At(s, m) \subseteq DOMAIN s
    BY <2>1, FS_Interval DEF At
  <2> QED
    BY <2>2, FS_Subset
<1>2. IsFiniteSet(InHand(m)) /\ IsFiniteSet(ToPush(m))
  BY Plain, FS_Subset DEF InHand, ToPush
<1>3. IsFiniteSet(At(applied, m)) /\ IsFiniteSet(At(dcs, m))
  BY <1>1 DEF TypeOK
<1> QED
  BY <1>2, <1>3, FS_CardinalityType DEF CountOK, Copies, At, InHand, ToPush, Done, Read,
                                             Held, Pushing

LEMMA CountedNext == TypeOK' => (\A m : CountOK(m))'
BY Counted, PTL

LEMMA CountAppended ==
    ASSUME NEW s \in Seq(Msg), NEW a \in Msg, NEW m
    PROVE  Cardinality(At(Append(s, a), m)) = Cardinality(At(s, m)) + IF a = m THEN 1 ELSE 0
<1>1. /\ Len(s) \in Nat /\ DOMAIN s = 1 .. Len(s) /\ DOMAIN Append(s, a) = 1 .. (Len(s) + 1)
      /\ \A k \in DOMAIN s : Append(s, a)[k] = s[k]
      /\ Append(s, a)[Len(s) + 1] = a
  BY Appended
<1>2. IsFiniteSet(At(s, m)) /\ Len(s) + 1 \notin At(s, m)
  <2>1. IsFiniteSet(DOMAIN s) /\ Len(s) + 1 \notin DOMAIN s
    BY <1>1, FS_Interval
  <2> QED
    BY <2>1, FS_Subset DEF At
<1>3. DOMAIN Append(s, a) = DOMAIN s \union {Len(s) + 1}
  BY <1>1
<1>4. CASE a = m
  <2>1. At(Append(s, a), m) = At(s, m) \union {Len(s) + 1}
    BY <1>1, <1>3, <1>4 DEF At
  <2> QED
    BY <1>2, <1>4, <2>1, FS_AddElement
<1>5. CASE a # m
  <2>1. At(Append(s, a), m) = At(s, m)
    BY <1>1, <1>3, <1>5 DEF At
  <2>2. Cardinality(At(s, m)) \in Nat
    BY <1>2, FS_CardinalityType
  <2> QED
    BY <1>5, <2>1, <2>2
<1> QED
  BY <1>4, <1>5

LEMMA CountTailed ==
    ASSUME NEW s \in Seq(Msg), s # << >>, NEW m
    PROVE  Cardinality(At(s, m)) = Cardinality(At(Tail(s), m)) + IF Head(s) = m THEN 1 ELSE 0
<1>1. /\ Len(s) \in Nat \ {0} /\ Head(s) = s[1]
      /\ DOMAIN s = 1 .. Len(s) /\ DOMAIN Tail(s) = 1 .. (Len(s) - 1)
      /\ \A k \in DOMAIN Tail(s) : Tail(s)[k] = s[k + 1]
  BY Tailed
<1> DEFINE rest == At(s, m) \ {1}
           back == [k \in At(Tail(s), m) |-> k + 1]
<1>2. IsFiniteSet(At(Tail(s), m)) /\ IsFiniteSet(At(s, m))
  <2>1. IsFiniteSet(DOMAIN s) /\ IsFiniteSet(DOMAIN Tail(s))
    BY <1>1, FS_Interval
  <2> QED
    BY <2>1, FS_Subset DEF At
<1>3. \A k \in At(Tail(s), m) : k \in Int /\ k + 1 \in rest
  <2>1. ASSUME NEW k \in At(Tail(s), m) PROVE k \in Int /\ k + 1 \in rest
    <3>1. k \in DOMAIN Tail(s) /\ Tail(s)[k] = m
      BY DEF At
    <3>2. k \in Int /\ k + 1 \in DOMAIN s /\ k + 1 # 1 /\ s[k + 1] = m
      BY <1>1, <3>1
    <3> QED
      BY <3>2 DEF At
  <2> QED
    BY <2>1
<1>4. \A k \in rest : k \in Int /\ k - 1 \in At(Tail(s), m) /\ (k - 1) + 1 = k
  <2>1. ASSUME NEW k \in rest PROVE k \in Int /\ k - 1 \in At(Tail(s), m) /\ (k - 1) + 1 = k
    <3>1. k \in DOMAIN s /\ s[k] = m /\ k # 1
      BY DEF At
    <3>2. k \in Int /\ (k - 1) + 1 = k /\ k - 1 \in DOMAIN Tail(s)
      BY <1>1, <3>1
    <3>3. Tail(s)[k - 1] = m
      BY <1>1, <3>1, <3>2
    <3> QED
      BY <3>2, <3>3 DEF At
  <2> QED
    BY <2>1
<1>5. ExistsBijection(At(Tail(s), m), rest)
  <2> HIDE DEF rest
  <2>1. back \in [At(Tail(s), m) -> rest]
    BY <1>3
  <2>2. \A j, k \in At(Tail(s), m) : back[j] = back[k] => j = k
    BY <1>3
  <2>3. \A k \in rest : \E j \in At(Tail(s), m) : back[j] = k
    <3>1. ASSUME NEW k \in rest PROVE \E j \in At(Tail(s), m) : back[j] = k
      BY <1>4 
    <3> QED
      BY <3>1
  <2> QED
    BY <2>1, <2>2, <2>3, Fun_IsBij DEF ExistsBijection
<1>6. Cardinality(rest) = Cardinality(At(Tail(s), m))
  BY <1>2, <1>5, FS_Bijection
<1>7. CASE Head(s) = m
  <2>1. 1 \in At(s, m)
    BY <1>1, <1>7 DEF At
  <2>2. Cardinality(rest) = Cardinality(At(s, m)) - 1 /\ Cardinality(At(s, m)) \in Nat
    BY <1>2, <2>1, FS_RemoveElement, FS_CardinalityType
  <2> QED
    BY <1>6, <1>7, <2>2
<1>8. CASE Head(s) # m
  <2>1. rest = At(s, m)
    BY <1>1, <1>8 DEF At
  <2>2. Cardinality(At(s, m)) \in Nat
    BY <1>2, FS_CardinalityType
  <2>3. Cardinality(At(Tail(s), m)) = Cardinality(At(s, m))
    BY <1>6, <2>1
  <2> QED
    BY <1>8, <2>2, <2>3
<1> QED
  BY <1>7, <1>8

LEMMA NextCopies ==
    /\ TypeOK /\ TypeOK' /\ OpensOK /\ ThreadsOK /\ BrokerOK /\ SessionOK /\ CopiesOK /\ [Next]_vars
    => CopiesOK'
<1> SUFFICES ASSUME TypeOK, TypeOK', OpensOK, ThreadsOK, BrokerOK, SessionOK, CopiesOK, [Next]_vars,
                    ~(strayed'), NEW m \in Msg
             PROVE  Copies(m)' + Due(m)' <= 1 + losses'
  BY DEF CopiesOK
<1> DEFINE Goal == Copies(m)' + Due(m)' <= 1 + losses'
<1>1. ~strayed /\ (Copies(m) + Due(m) <= 1 + losses) /\ losses \in Nat /\ losses' \in Nat /\ m # 0
  BY StrayedStays, Plain DEF CopiesOK, TypeOK
<1>2. /\ Copies(m) = Done(m) + Read(m) + Held(m) + Pushing(m)
      /\ Done(m) \in Nat /\ Read(m) \in Nat /\ Held(m) \in Nat /\ Pushing(m) \in Nat
      /\ IsFiniteSet(InHand(m)) /\ IsFiniteSet(ToPush(m))
  BY Counted DEF CountOK
<1>3. /\ Copies(m)' = Done(m)' + Read(m)' + Held(m)' + Pushing(m)'
      /\ Done(m)' \in Nat /\ Read(m)' \in Nat /\ Held(m)' \in Nat /\ Pushing(m)' \in Nat
  BY CountedNext DEF CountOK
<1>4. ASSUME Done(m)' + Read(m)' + Held(m)' + Pushing(m)' <= Done(m) + Read(m) + Held(m) + Pushing(m),
             Owed(m)' => Owed(m), losses <= losses'
      PROVE  Goal
  <2>1. Due(m)' <= Due(m) /\ Due(m) \in Nat /\ Due(m)' \in Nat
    BY <1>4 DEF Due
  <2>2. Copies(m)' <= Copies(m) /\ Copies(m) \in Nat /\ Copies(m)' \in Nat
    BY <1>2, <1>3, <1>4
  <2> QED
    BY <1>1, <1>4, <2>1, <2>2
<1>5. ASSUME UNCHANGED <<applied, dcs, dhand, rhand>>,
             \A i \in Conn : rpc'[i] = "push" <=> rpc[i] = "push"
      PROVE  Done(m)' + Read(m)' + Held(m)' + Pushing(m)' <= Done(m) + Read(m) + Held(m) + Pushing(m)
  <2>1. At(applied, m)' = At(applied, m) /\ At(dcs, m)' = At(dcs, m)
        /\ InHand(m)' = InHand(m) /\ ToPush(m)' = ToPush(m)
    BY <1>5 DEF At, InHand, ToPush
  <2> QED
    BY <1>2, <2>1 DEF Done, Read, Held, Pushing
<1>6. ASSUME UNCHANGED <<queue, out, acking>> PROVE Owed(m)' => Owed(m)
  BY <1>6 DEF Owed
<1>7. CASE DropStep
  <2>1. UNCHANGED <<applied, dcs, dhand, rhand>>
        /\ \A i \in Conn : rpc'[i] = "push" <=> rpc[i] = "push"
    BY <1>7 DEF DropStep, decoders
  <2>2. PICK c \in Conn : \/ Drop(c, {}) /\ losses' = losses + 1
                          \/ Drop(c, acking[c]) /\ losses' = losses
    BY <1>7 DEF DropStep
  <2>3. CASE Drop(c, {}) /\ losses' = losses + 1
    <3>1. Due(m) \in Nat /\ Due(m)' \in Nat /\ Due(m)' <= 1
      BY DEF Due
    <3>2. Done(m)' + Read(m)' + Held(m)' + Pushing(m)' <= Done(m) + Read(m) + Held(m) + Pushing(m)
      BY <1>5, <2>1
    <3>3. Copies(m)' <= Copies(m) /\ Copies(m) \in Nat /\ Copies(m)' \in Nat
      BY <1>2, <1>3, <3>2
    <3> QED
      BY <1>1, <2>3, <3>1, <3>3
  <2>4. CASE Drop(c, acking[c]) /\ losses' = losses
    <3>1. /\ queue' = queue \union (out[c] \ acking[c])
          /\ \A d \in Conn : /\ out'[d] = IF d = c THEN {} ELSE out[d]
                             /\ acking'[d] = IF d = c THEN {} ELSE acking[d]
      BY <2>4, Dropped
    <3>2. Owed(m)' => Owed(m)
      BY <3>1 DEF Owed
    <3> QED
      BY <1>1, <1>4, <1>5, <2>1, <2>4, <3>2
  <2> QED
    BY <2>2, <2>3, <2>4
<1>8. ASSUME NEW c \in Conn, Settle(c) PROVE Goal
  <2>1. queue' = queue /\ losses' = losses /\ UNCHANGED <<applied, dcs, dhand, rhand, rpc>>
        /\ \A d \in Conn : /\ out'[d] = IF d = c THEN out[d] \ acking[d] ELSE out[d]
                           /\ acking'[d] = IF d = c THEN {} ELSE acking[d]
    BY <1>8 DEF Settle, TypeOK, readers, decoders, ghosts
  <2>2. Owed(m)' => Owed(m)
    BY <2>1 DEF Owed
  <2> QED
    BY <1>1, <1>4, <1>5, <2>1, <2>2
<1>9. CASE Check \/ Connect \/ CreateSession \/ Shutdown \/ Interrupt \/ UNCHANGED vars
  <2>1. UNCHANGED <<applied, dcs, dhand, rhand, rpc, queue, out, acking, losses>>
    BY <1>9 DEF Check, Connect, CreateSession, Shutdown, Interrupt, vars, readers, decoders,
                ghosts, broker
  <2> QED
    BY <1>1, <1>4, <1>5, <1>6, <2>1
<1>10. CASE CreateReceiver
  <2>1. /\ UNCHANGED <<queue, out, acking, losses, applied, dcs, dhand, rhand>>
        /\ conn \notin Started
        /\ \A i \in Conn : rpc'[i] = IF i = conn THEN "loop" ELSE rpc[i]
    BY <1>10, Receives DEF broker, ghosts
  <2>2. \A i \in Conn : rpc'[i] = "push" <=> rpc[i] = "push"
    BY <2>1 DEF ThreadsOK
  <2> QED
    BY <1>1, <1>4, <1>5, <1>6, <2>1, <2>2
<1>11. ASSUME NEW i \in Conn,
              \/ BeginFetch(i) \/ FetchThrows(i) \/ DecoderEnds(i) \/ (ReaderEnds(i) /\ conn = 0)
       PROVE  Goal
  <2>1. UNCHANGED <<queue, out, acking, losses, applied, dcs, dhand, rhand>>
        /\ \A j \in Conn : rpc'[j] = "push" <=> rpc[j] = "push"
    BY <1>11 DEF BeginFetch, FetchThrows, DecoderEnds, ReaderEnds, TypeOK, broker, readers,
                 decoders, ghosts
  <2> QED
    BY <1>1, <1>4, <1>5, <1>6, <2>1
<1>12. ASSUME NEW i \in Conn, Fetched(i) PROVE Goal
  <2>1. PICK n \in queue :
        /\ ron[i] \in Conn /\ queue' = queue \ {n} /\ acking' = acking
        /\ UNCHANGED <<applied, dcs, losses, dhand>> /\ rpc[i] = "fetch"
        /\ \A d \in Conn :
              /\ out'[d] = IF d = ron[i] THEN out[d] \union {n} ELSE out[d]
              /\ rhand'[d] = IF d = i THEN n ELSE rhand[d]
              /\ rpc'[d] = IF d = i THEN "ack" ELSE rpc[d]
    <3>1. UNCHANGED <<applied, dcs, losses, dhand>>
      BY <1>12 DEF Fetched, decoders, ghosts
    <3> QED
      BY <1>12, <3>1, Fetches
  <2>2. Owed(m)' => Owed(m)
    <3>1. m \in queue' => m \in queue
      BY <2>1
    <3>2. ASSUME NEW c \in Conn, m \in out'[c] \ acking'[c] PROVE Owed(m)
      <4>0. /\ out'[c] = IF c = ron[i] THEN out[c] \union {n} ELSE out[c]
            /\ acking'[c] = acking[c]
        BY <2>1
      <4>1. m \notin acking[c] /\ (m \in out[c] \/ m = n) /\ n \in queue
        BY <3>2, <4>0
      <4> QED
        BY <3>2, <4>1 DEF Owed
    <3> QED
      BY <3>1, <3>2 DEF Owed
  <2>3. /\ At(applied, m)' = At(applied, m) /\ At(dcs, m)' = At(dcs, m)
        /\ InHand(m)' = InHand(m) /\ ToPush(m)' = ToPush(m)
    <3>1. At(applied, m)' = At(applied, m) /\ At(dcs, m)' = At(dcs, m)
      BY <2>1 DEF At
    <3>2. InHand(m)' = InHand(m)
      BY <2>1 DEF InHand
    <3>3. \A d \in Conn : rhand'[d] = m /\ rpc'[d] = "push" <=> rhand[d] = m /\ rpc[d] = "push"
      BY <2>1
    <3> QED
      BY <3>1, <3>2, <3>3 DEF ToPush
  <2>4. Done(m)' + Read(m)' + Held(m)' + Pushing(m)' <= Done(m) + Read(m) + Held(m) + Pushing(m)
    BY <1>2, <2>3 DEF Done, Read, Held, Pushing
  <2> QED
    BY <1>1, <1>4, <2>1, <2>2, <2>4
<1>13. ASSUME NEW i \in Conn, Acknowledge(i) PROVE Goal
  <2>1. /\ UNCHANGED <<queue, out, dhand, dcs, applied, losses>> /\ rpc[i] = "ack"
        /\ \A d \in Conn : d # i => UNCHANGED <<acking[d], rpc[d], rhand[d]>>
    BY <1>1, <1>13, Acknowledges DEF decoders
  <2>2. \/ /\ rhand[i] \in out[i] \ acking[i]
           /\ acking'[i] = out[i] /\ rpc'[i] = "push" /\ rhand'[i] = rhand[i]
        \/ /\ out[i] = {} /\ acking'[i] = acking[i]
           /\ rpc'[i] = "closing" /\ rhand'[i] = 0
    BY <1>1, <1>13, Acknowledges
  <2>3. /\ At(applied, m)' = At(applied, m) /\ At(dcs, m)' = At(dcs, m)
        /\ InHand(m)' = InHand(m)
    BY <2>1 DEF At, InHand
  <2>4. Owed(m)' => Owed(m)
    BY <2>1, <2>2 DEF Owed
  <2>5. CASE rpc'[i] = "push" /\ rhand[i] = m
    <3>1. acking'[i] = out[i] /\ m \in out[i] \ acking[i] /\ rhand'[i] = m
      BY <2>2, <2>5
    <3>2. Owed(m) /\ ~Owed(m)'
      <4>1. m \notin queue /\ \A d \in Conn : m \in out[d] => d = i
        BY <3>1 DEF BrokerOK
      <4> QED
        BY <2>1, <3>1, <4>1 DEF Owed
    <3>3. ToPush(m)' = ToPush(m) \union {i} /\ i \notin ToPush(m)
      BY <2>1, <2>5, <3>1 DEF ToPush
    <3>4. Pushing(m)' = Pushing(m) + 1
      BY <1>2, <3>3, FS_AddElement DEF Pushing
    <3>5. Done(m)' = Done(m) /\ Read(m)' = Read(m) /\ Held(m)' = Held(m)
      BY <2>3 DEF Done, Read, Held
    <3> QED
      BY <1>1, <1>2, <1>3, <2>1, <3>2, <3>4, <3>5 DEF Due
  <2>6. CASE rpc'[i] # "push" \/ rhand[i] # m
    <3>1. ToPush(m)' = ToPush(m)
      BY <1>1, <2>1, <2>2, <2>6 DEF ToPush
    <3>2. Done(m)' + Read(m)' + Held(m)' + Pushing(m)' <= Done(m) + Read(m) + Held(m) + Pushing(m)
      BY <1>2, <2>3, <3>1 DEF Done, Read, Held, Pushing
    <3> QED
      BY <1>1, <1>4, <2>1, <2>4, <3>2
  <2> QED
    BY <2>5, <2>6
<1>14. ASSUME NEW i \in Conn, Push(i) PROVE Goal
  <2>1. /\ rpc[i] = "push" /\ dcs' = Append(dcs, rhand[i])
        /\ UNCHANGED <<queue, out, acking, losses, applied, dhand>>
        /\ \A j \in Conn : /\ rhand'[j] = IF j = i THEN 0 ELSE rhand[j]
                           /\ rpc'[j] = IF j = i THEN "loop" ELSE rpc[j]
    BY <1>14 DEF Push, Pushed, TypeOK, broker, decoders, ghosts
  <2>2. rhand[i] \in Msg
    BY <2>1 DEF TypeOK, ThreadsOK
  <2> DEFINE n == IF rhand[i] = m THEN 1 ELSE 0
  <2>3. Read(m)' = Read(m) + n
    <3>1. At(dcs, m)' = At(Append(dcs, rhand[i]), m)
      BY <2>1 DEF At
    <3> QED
      BY <2>2, <3>1, CountAppended DEF Read, TypeOK
  <2>4. Pushing(m)' = Pushing(m) - n /\ n \in {0, 1}
    <3>1. CASE rhand[i] = m
      <4>1. ToPush(m)' = ToPush(m) \ {i} /\ i \in ToPush(m)
        BY <2>1, <3>1 DEF ToPush
      <4> QED
        BY <1>2, <3>1, <4>1, FS_RemoveElement DEF Pushing
    <3>2. CASE rhand[i] # m
      <4>1. ToPush(m)' = ToPush(m)
        BY <2>1, <3>2 DEF ToPush
      <4> QED
        BY <1>2, <3>2, <4>1 DEF Pushing
    <3> QED
      BY <3>1, <3>2
  <2>5. Done(m)' = Done(m) /\ Held(m)' = Held(m)
    BY <2>1 DEF Done, Held, At, InHand
  <2>6. Done(m)' + Read(m)' + Held(m)' + Pushing(m)' <= Done(m) + Read(m) + Held(m) + Pushing(m)
    <3> HIDE DEF n
    <3> QED
      BY <1>2, <1>3, <2>3, <2>4, <2>5
  <2> QED
    BY <1>1, <1>4, <1>6, <2>1, <2>6
<1>15. ASSUME NEW i \in Conn, Take(i) PROVE Goal
  <2>1. /\ dpc[i] = "take" /\ dcs # << >> /\ dcs' = Tail(dcs)
        /\ UNCHANGED <<queue, out, acking, losses, applied, rhand, rpc>>
        /\ \A j \in Conn : dhand'[j] = IF j = i THEN Head(dcs) ELSE dhand[j]
    BY <1>15 DEF Take, Popped, TypeOK, broker, readers, ghosts
  <2> DEFINE n == IF Head(dcs) = m THEN 1 ELSE 0
  <2>2. Read(m) = Read(m)' + n
    <3>1. At(dcs, m)' = At(Tail(dcs), m)
      BY <2>1 DEF At
    <3> QED
      BY <2>1, <3>1, CountTailed DEF Read, TypeOK
  <2>3. i \notin InHand(m)
    BY <1>1, <2>1 DEF InHand, ThreadsOK
  <2>4. Held(m)' = Held(m) + n /\ n \in {0, 1}
    <3>1. CASE Head(dcs) = m
      <4>1. InHand(m)' = InHand(m) \union {i}
        BY <2>1, <3>1 DEF InHand
      <4> QED
        BY <1>2, <2>3, <3>1, <4>1, FS_AddElement DEF Held
    <3>2. CASE Head(dcs) # m
      <4>1. InHand(m)' = InHand(m)
        BY <2>1, <2>3, <3>2 DEF InHand
      <4> QED
        BY <1>2, <3>2, <4>1 DEF Held
    <3> QED
      BY <3>1, <3>2
  <2>5. Done(m)' = Done(m) /\ Pushing(m)' = Pushing(m)
    BY <2>1 DEF Done, Pushing, At, ToPush
  <2>6. Done(m)' + Read(m)' + Held(m)' + Pushing(m)' <= Done(m) + Read(m) + Held(m) + Pushing(m)
    <3> HIDE DEF n
    <3>1. Read(m)' + Held(m)' = Read(m) + Held(m)
      BY <1>2, <1>3, <2>2, <2>4
    <3> QED
      BY <1>2, <1>3, <2>5, <3>1
  <2> QED
    BY <1>1, <1>4, <1>6, <2>1, <2>6
<1>16. ASSUME NEW i \in Conn, Decode(i) PROVE Goal
  <2>1. /\ dpc[i] = "decode" /\ UNCHANGED <<queue, out, acking, losses, dcs, rhand, rpc>>
        /\ applied' = IF Parsed(dhand[i]) THEN Append(applied, dhand[i]) ELSE applied
        /\ \A j \in Conn : dhand'[j] = IF j = i THEN 0 ELSE dhand[j]
    BY <1>16 DEF Decode, TypeOK, broker, readers, ghosts
  <2>2. dhand[i] \in Msg
    BY <2>1 DEF TypeOK, ThreadsOK
  <2> DEFINE n == IF dhand[i] = m THEN 1 ELSE 0
  <2>3. Done(m)' = Done(m) \/ Done(m)' = Done(m) + n
    <3>1. CASE Parsed(dhand[i])
      <4>1. At(applied, m)' = At(Append(applied, dhand[i]), m)
        BY <2>1, <3>1 DEF At
      <4> QED
        BY <2>2, <4>1, CountAppended DEF Done, TypeOK
    <3>2. CASE ~Parsed(dhand[i])
      BY <2>1, <3>2 DEF Done, At
    <3> QED
      BY <3>1, <3>2
  <2>4. Held(m)' = Held(m) - n /\ n \in {0, 1}
    <3>1. CASE dhand[i] = m
      <4>1. InHand(m)' = InHand(m) \ {i} /\ i \in InHand(m)
        BY <1>1, <2>1, <3>1 DEF InHand
      <4> QED
        BY <1>2, <3>1, <4>1, FS_RemoveElement DEF Held
    <3>2. CASE dhand[i] # m
      <4>1. InHand(m)' = InHand(m)
        BY <1>1, <2>1, <3>2 DEF InHand
      <4> QED
        BY <1>2, <3>2, <4>1 DEF Held
    <3> QED
      BY <3>1, <3>2
  <2>5. Read(m)' = Read(m) /\ Pushing(m)' = Pushing(m)
    BY <2>1 DEF Read, Pushing, At, ToPush
  <2>6. Done(m)' + Read(m)' + Held(m)' + Pushing(m)' <= Done(m) + Read(m) + Held(m) + Pushing(m)
    <3> HIDE DEF n
    <3>1. Done(m)' + Held(m)' <= Done(m) + Held(m)
      BY <1>2, <1>3, <2>3, <2>4
    <3> QED
      BY <1>2, <1>3, <2>5, <3>1
  <2> QED
    BY <1>1, <1>4, <1>6, <2>1, <2>6
<1>17. CASE Joined
  <2>1. UNCHANGED <<queue, out, acking, losses, applied, dhand, rhand, rpc>> /\ dcs' = << >>
    BY <1>17 DEF Joined, broker, readers, decoders
  <2>2. At(dcs, m)' = {} /\ At(applied, m)' = At(applied, m)
        /\ InHand(m)' = InHand(m) /\ ToPush(m)' = ToPush(m)
    BY <2>1 DEF At, InHand, ToPush
  <2>3. Read(m)' = 0 /\ Done(m)' = Done(m) /\ Held(m)' = Held(m) /\ Pushing(m)' = Pushing(m)
    BY <2>2, FS_EmptySet DEF Done, Read, Held, Pushing
  <2>4. Done(m)' + Read(m)' + Held(m)' + Pushing(m)' <= Done(m) + Read(m) + Held(m) + Pushing(m)
    BY <1>2, <2>3
  <2> QED
    BY <1>1, <1>4, <1>6, <2>1, <2>4
<1> QED
  BY <1>7, <1>8, <1>9, <1>10, <1>11, <1>12, <1>13, <1>14, <1>15, <1>16, <1>17, DropSteps
     DEF Next, Open, Close, Reader, Decoder
-----------------------------------------------------------------------------
LEMMA InitInv == Init => IInv
<1> SUFFICES ASSUME Init PROVE IInv
  OBVIOUS
<1>1. TypeOK /\ OpensOK /\ ThreadsOK
  BY InitType
<1>2. /\ applied = << >> /\ dcs = << >> /\ swept = {} /\ crashed = FALSE /\ losses = 0
      /\ queue = Msg /\ Started = {}
      /\ \A i \in Conn : /\ dhand[i] = 0 /\ rhand[i] = 0 /\ rpc[i] = "none"
                         /\ out[i] = {} /\ acking[i] = {}
  BY DEF Init, Started
<1>3. DOMAIN applied = {} /\ DOMAIN dcs = {}
  BY <1>2
<1>4. NullUse /\ SweptOK /\ BrokerOK /\ SessionOK /\ SafeOK
  BY <1>2 DEF NullUse, SweptOK, BrokerOK, SessionOK, Own, SafeOK
<1>5. LineOK
  BY <1>2, <1>3 DEF LineOK, InLine
<1>6. CopiesOK
  <2>1. ASSUME NEW m \in Msg PROVE Copies(m) + Due(m) <= 1 + losses
    <3>1. At(applied, m) = {} /\ At(dcs, m) = {} /\ InHand(m) = {} /\ ToPush(m) = {}
      BY <1>2, <1>3, Plain DEF At, InHand, ToPush
    <3>2. Copies(m) = Done(m) + Read(m) + Held(m) + Pushing(m)
      BY <1>1, Counted DEF CountOK
    <3>3. Done(m) = 0 /\ Read(m) = 0 /\ Held(m) = 0 /\ Pushing(m) = 0
      BY <3>1, FS_EmptySet DEF Done, Read, Held, Pushing
    <3>4. Due(m) = 1
      BY <1>2 DEF Due, Owed
    <3> QED
      BY <1>2, <3>2, <3>3, <3>4
  <2> QED
    BY <2>1 DEF CopiesOK
<1> QED
  BY <1>1, <1>4, <1>5, <1>6 DEF IInv

LEMMA InductiveInvariant == Spec => []IInv
<1>1. Init => IInv
  BY InitInv
<1>2. IInv /\ [Next]_vars => IInv'
  <2> SUFFICES ASSUME IInv, [Next]_vars PROVE IInv'
    OBVIOUS
  <2>1. TypeOK' /\ OpensOK' /\ ThreadsOK'
    BY NextType, NextOpens, NextThreads DEF IInv
  <2>2. NullUse' /\ SweptOK'
    BY NextNull, NextSwept DEF IInv
  <2>3. BrokerOK' /\ LineOK'
    BY NextBroker, NextLine DEF IInv
  <2>4. SessionOK' /\ SafeOK' /\ CopiesOK'
    BY <2>1, NextSession, NextSafe, NextCopies DEF IInv
  <2> QED
    BY <2>1, <2>2, <2>3, <2>4 DEF IInv
<1> QED
  BY <1>1, <1>2, PTL DEF Spec

(* A null _conn or thread pointer is used in no other way than the two that*)
(* NullUse names: close() after an open() that never succeeded, and the end*)
(* of a reader whom close() does not join, after close().                  *)
THEOREM NullCorrect == Spec => []NullUse
<1>1. IInv => NullUse
  BY DEF IInv
<1> QED
  BY <1>1, InductiveInvariant, PTL

(* With one pair of threads the reports reach LocServer::update in the     *)
(* order of the queue and none twice, whatever becomes of its connection.  *)
THEOREM FifoCorrect == Spec => []FifoUntilReconnect
<1>1. IInv => FifoUntilReconnect
  <2> SUFFICES ASSUME IInv, Cardinality(Started) <= 1
               PROVE  \A k, l \in DOMAIN applied : k < l => applied[k] < applied[l]
    BY DEF FifoUntilReconnect
  <2>1. ASSUME NEW i \in Started, NEW j \in Started, i # j PROVE FALSE
    <3>1. IsFiniteSet(Started) /\ {i, j} \subseteq Started
      BY Plain, FS_Subset DEF Started
    <3>2. IsFiniteSet({i}) /\ Cardinality({i}) = 1 /\ {i, j} = {i} \union {j} /\ j \notin {i}
      BY <2>1, FS_Singleton
    <3>3. Cardinality({i, j}) = 2
      BY <3>2, FS_AddElement
    <3> QED
      BY <3>1, <3>3, FS_Subset, FS_CardinalityType
  <2>2. Alone
    BY <2>1 DEF Alone
  <2> QED
    BY <2>2 DEF IInv, LineOK, InLine
<1> QED
  BY <1>1, InductiveInvariant, PTL

(* As long as every reader keeps to its own session, a well-formed message *)
(* the broker is rid of is with a thread, in _dcs, applied or was cleared  *)
(* by close(), and there is at most one copy of it more than connections   *)
(* were lost.                                                              *)
THEOREM AckedCorrect == Spec => []AckedIsAccounted
<1>1. IInv => AckedIsAccounted
  <2> SUFFICES ASSUME IInv, ~strayed
               PROVE  /\ \A m \in Msg \ Malformed :
                            \/ m \in queue \/ \E c \in Conn : m \in out[c]
                            \/ \E i \in Conn : m \in {rhand[i], dhand[i]}
                            \/ m \in Elems(dcs) \union Elems(applied) \union swept
                      /\ \A m \in Msg : Copies(m) <= 1 + losses
    BY DEF AckedIsAccounted
  <2>1. ASSUME NEW m \in Msg \ Malformed
        PROVE  \/ m \in queue \/ \E c \in Conn : m \in out[c]
               \/ \E i \in Conn : m \in {rhand[i], dhand[i]}
               \/ m \in Elems(dcs) \union Elems(applied) \union swept
    BY DEF IInv, SafeOK, Safe
  <2>2. ASSUME NEW m \in Msg PROVE Copies(m) <= 1 + losses
    <3>1. TypeOK /\ Copies(m) + Due(m) <= 1 + losses
      BY DEF IInv, CopiesOK
    <3>2. Copies(m) \in Nat
      <4>1. CountOK(m)
        BY <3>1, Counted
      <4> QED
        BY <4>1 DEF CountOK
    <3>3. losses \in Nat /\ Due(m) \in {0, 1}
      BY <3>1 DEF TypeOK, Due
    <3> QED
      BY <3>1, <3>2, <3>3
  <2> QED
    BY <2>1, <2>2
<1> QED
  BY <1>1, InductiveInvariant, PTL
=============================================================================
