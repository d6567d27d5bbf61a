--------------------------- MODULE DBSyncer_proofs ---------------------------
(***************************************************************************)
(* Safety of DBSyncer for every set of devices and reports and every       *)
(* bound: type correctness, the order of the log, one snapshot document    *)
(* per device, a snapshot as new as the log, and what faults cost: the     *)
(* reports ahead of the log and the gaps in it.                            *)
(***************************************************************************)
EXTENDS DBSyncer, Integers, SequenceTheorems, FiniteSetTheorems, TLAPS

LEMMA NoEntries == << >> \in Seq(Entry)
BY EmptySeq

LEMMA InitType == Init => TypeOK
<1> USE DEF Pcs, Conns, Writing
<1> SUFFICES ASSUME Init PROVE TypeOK
  OBVIOUS
<1>1. /\ pc \in Pcs /\ conn \in Conns /\ found \in BOOLEAN
      /\ batch # << >> <=> pc \in Writing
  BY DEF Init
<1>2. locs \in Seq(Entry) /\ batch \in Seq(Entry) /\ history \in Seq(Entry)
  BY NoEntries DEF Init
<1> QED
  BY <1>1, <1>2 DEF Init, TypeOK

LEMMA NextType == TypeOK /\ [Next]_vars => TypeOK'
<1> USE DEF Pcs, Conns, Writing
<1> SUFFICES ASSUME TypeOK, [Next]_vars PROVE TypeOK'
  OBVIOUS
<1> USE DEF TypeOK
<1>1. CASE Open
  BY <1>1 DEF Open, tables, ghosts
<1>2. CASE \E doc \in toload : Load(doc)
  BY <1>2 DEF Load, tables, ghosts
<1>3. CASE LoadDone
  BY <1>3 DEF LoadDone, memory, tables, ghosts
<1>4. CASE LoadFail
  BY <1>4 DEF LoadFail, tables, ghosts
<1>5. ASSUME NEW loc \in Loc, Update(loc) PROVE TypeOK'
  <2>1. [loc |-> loc, no |-> accepted + 1] \in Entry
    BY DEF Entry
  <2> QED
    BY <1>5, <2>1 DEF Update, tables
<1>6. CASE Check
  BY <1>6 DEF Check, Swap, tables, ghosts
<1>7. CASE FindOne
  BY <1>7 DEF FindOne, tables, ghosts
<1>8. CASE WriteSnapshot
  <2>1. Current \in Entry
    BY <1>8, HeadTailProperties DEF WriteSnapshot, Current
  <2> QED
    BY <1>8, <2>1 DEF WriteSnapshot, ReplaceDoc, InsertDoc, Docs, memory, ghosts
<1>9. CASE WriteLog
  <2>1. Current \in Entry /\ Tail(batch) \in Seq(Entry)
    BY <1>9, HeadTailProperties DEF WriteLog, Current
  <2>2. history' \in Seq(Entry)
    <3>1. Append(history, Current) \in Seq(Entry)
      BY <2>1, AppendProperties
    <3> QED
      BY <1>9, <3>1 DEF WriteLog, AddToLog
  <2>3. /\ batch' \in Seq(Entry) /\ pc' \in Pcs
        /\ batch' # << >> <=> pc' \in Writing
    BY <1>9, <2>1 DEF WriteLog
  <2> QED
    BY <1>9, <2>2, <2>3 DEF WriteLog, Count, ghosts
<1>10. CASE Throw
  BY <1>10, NoEntries DEF Throw, GiveUp, tables, ghosts
<1>11. CASE ConnLost
  BY <1>11 DEF ConnLost, memory, tables
<1>12. CASE Crash
  <2>1. locs' \in Seq(Entry) /\ batch' \in Seq(Entry)
    BY <1>12, NoEntries DEF Crash
  <2>2. batch' # << >> <=> pc' \in Writing
    BY <1>12 DEF Crash
  <2>3. /\ pc' \in Pcs /\ conn' \in Conns /\ found' \in BOOLEAN
        /\ succ' \in Nat /\ err' \in Nat /\ toload' \subseteq Entry
    BY <1>12 DEF Crash
  <2>4. /\ snapshot' \subseteq Entry /\ history' \in Seq(Entry)
        /\ accepted' \in Nat /\ losses' \in Nat /\ crashes' \in Nat
    BY <1>12 DEF Crash, tables
  <2> QED
    BY <2>1, <2>2, <2>3, <2>4
<1>13. CASE UNCHANGED vars
  BY <1>13 DEF vars, memory, tables, ghosts
<1> QED
  BY <1>1, <1>2, <1>3, <1>4, <1>5, <1>6, <1>7, <1>8, <1>9, <1>10, <1>11,
     <1>12, <1>13 DEF Next, Opening, Sync2db

(* The state keeps its types, and sync2db runs on a non-empty rest: the    *)
(* batch is empty exactly when no write is under way.                      *)
THEOREM TypeCorrect == Spec => []TypeOK
BY InitType, NextType, PTL DEF Spec
-----------------------------------------------------------------------------
(* Ordered lists of reports: what appending to one, and taking the first   *)
(* report away, preserve.                                                  *)

LEMMA Elements ==
    ASSUME NEW s \in Seq(Entry)
    PROVE  \A i \in DOMAIN s : s[i] \in Entry /\ s[i].no \in Nat
<1> SUFFICES ASSUME NEW i \in DOMAIN s PROVE s[i] \in Entry /\ s[i].no \in Nat
  OBVIOUS
<1>1. i \in 1 .. Len(s)
  BY LenProperties
<1>2. s[i] \in Entry
  BY <1>1, ElementOfSeq
<1> QED
  BY <1>2 DEF Entry

LEMMA OrderedAppend ==
    ASSUME NEW s \in Seq(Entry), NEW e \in Entry, Ordered(s),
           \A i \in DOMAIN s : s[i].no < e.no
    PROVE  /\ Append(s, e) \in Seq(Entry)
           /\ Ordered(Append(s, e))
           /\ \A i \in DOMAIN Append(s, e) :
                 Append(s, e)[i] = e \/ \E j \in DOMAIN s : Append(s, e)[i] = s[j]
<1> DEFINE a == Append(s, e)
<1>1. /\ a \in Seq(Entry) /\ Len(a) = Len(s) + 1
      /\ \A i \in 1 .. Len(s) : a[i] = s[i]
      /\ a[Len(s) + 1] = e
  BY AppendProperties
<1>2. DOMAIN a = 1 .. Len(s) + 1 /\ DOMAIN s = 1 .. Len(s) /\ Len(s) \in Nat
  BY <1>1, LenProperties
<1> HIDE DEF a
<1>3. Ordered(a)
  BY <1>1, <1>2 DEF Ordered
<1> QED
  BY <1>1, <1>2, <1>3 DEF a

LEMMA OrderedTail ==
    ASSUME NEW s \in Seq(Entry), s # << >>, Ordered(s)
    PROVE  /\ Head(s) \in Entry /\ Tail(s) \in Seq(Entry)
           /\ 1 \in DOMAIN s /\ Head(s) = s[1]
           /\ Ordered(Tail(s))
           /\ \A i \in DOMAIN Tail(s) :
                 Head(s).no < Tail(s)[i].no
                 /\ \E j \in DOMAIN s : Tail(s)[i] = s[j]
<1> DEFINE t == Tail(s)
<1>1. /\ Head(s) \in Entry /\ t \in Seq(Entry) /\ Len(t) = Len(s) - 1
      /\ \A i \in 1 .. Len(t) : t[i] = s[i + 1]
  BY HeadTailProperties
<1>2. /\ DOMAIN t = 1 .. Len(s) - 1 /\ DOMAIN s = 1 .. Len(s)
      /\ Len(s) \in Nat \ {0} /\ Head(s) = s[1]
  BY <1>1, LenProperties, EmptySeq
<1> HIDE DEF t
<1>3. Ordered(t)
  <2> SUFFICES ASSUME NEW i \in DOMAIN t, NEW j \in DOMAIN t, i < j
               PROVE  t[i].no < t[j].no
    BY DEF Ordered
  <2>1. /\ i + 1 \in DOMAIN s /\ j + 1 \in DOMAIN s /\ i + 1 < j + 1
        /\ t[i] = s[i + 1] /\ t[j] = s[j + 1]
    BY <1>1, <1>2
  <2> QED
    BY <2>1 DEF Ordered
<1>4. \A i \in DOMAIN t : s[1].no < t[i].no /\ i + 1 \in DOMAIN s /\ t[i] = s[i + 1]
  BY <1>1, <1>2 DEF Ordered
<1> QED
  BY <1>1, <1>2, <1>3, <1>4 DEF t

LEMMA OrderedEmpty ==
    /\ Ordered(<< >>)
    /\ \A s : Before(<< >>, s) /\ Before(s, << >>)
BY DEF Ordered, Before
-----------------------------------------------------------------------------
(* The order of the reports, and that update() gave out every number.      *)

Numbered ==
    /\ \A i \in DOMAIN history : history[i].no <= accepted
    /\ \A i \in DOMAIN batch : batch[i].no <= accepted
    /\ \A i \in DOMAIN locs : locs[i].no <= accepted

Order == InOrder /\ Numbered

(* Steps that touch none of the three lists keep their order.              *)
LEMMA OrderFrame ==
    ASSUME Order, UNCHANGED <<locs, batch, history, accepted>>
    PROVE  Order'
BY DEF Order, InOrder, Numbered, Ordered, Before

(* Every step keeps the order: update() appends the highest number, the    *)
(* swap finds the batch empty, and sync2db moves the first report of the   *)
(* batch to the end of the log.                                            *)
LEMMA OrderKept == TypeOK /\ Order /\ [Next]_vars => Order'
<1> SUFFICES ASSUME TypeOK, Order, [Next]_vars PROVE Order'
  OBVIOUS
<1> USE DEF TypeOK
<1>1. CASE Opening
  BY <1>1, OrderFrame DEF Opening, Open, Load, LoadDone, LoadFail, memory, tables, ghosts
<1>2. ASSUME NEW loc \in Loc, Update(loc) PROVE Order'
  <2> DEFINE e == [loc |-> loc, no |-> accepted + 1]
  <2>1. e \in Entry /\ e.no = accepted + 1
    BY DEF Entry
  <2>2. /\ locs' = Append(locs, e) /\ accepted' = accepted + 1
        /\ UNCHANGED <<batch, history>>
    BY <1>2 DEF Update, tables
  <2>3. \A i \in DOMAIN locs : locs[i].no \in Nat /\ locs[i].no < e.no
    BY <2>1, Elements DEF Order, Numbered
  <2>4. /\ Ordered(locs')
        /\ \A i \in DOMAIN locs' :
              locs'[i] = e \/ \E j \in DOMAIN locs : locs'[i] = locs[j]
    <3> HIDE DEF e
    <3> QED
      BY <2>1, <2>2, <2>3, OrderedAppend DEF Order, InOrder
  <2>5. \A i \in DOMAIN history : history[i].no \in Nat /\ history[i].no < e.no
    BY <2>1, Elements DEF Order, Numbered
  <2>6. \A i \in DOMAIN batch : batch[i].no \in Nat /\ batch[i].no < e.no
    BY <2>1, Elements DEF Order, Numbered
  <2> HIDE DEF e
  <2>7. InOrder'
    BY <2>2, <2>4, <2>5, <2>6 DEF Order, InOrder, Ordered, Before
  <2>8. Numbered'
    BY <2>1, <2>2, <2>3, <2>4, <2>5, <2>6 DEF Order, Numbered
  <2> QED
    BY <2>7, <2>8 DEF Order
<1>3. CASE Check
  <2>1. batch = << >> /\ batch' = locs /\ locs' = << >> /\ UNCHANGED <<history, accepted>>
    BY <1>3 DEF Check, Swap, Writing, tables, ghosts
  <2> QED
    BY <2>1, OrderedEmpty DEF Order, InOrder, Numbered
<1>4. CASE FindOne \/ WriteSnapshot \/ ConnLost
  BY <1>4, OrderFrame DEF FindOne, WriteSnapshot, ConnLost, memory, tables, ghosts
<1>5. CASE WriteLog
  <2>1. /\ batch # << >>
        /\ batch' = Tail(batch) /\ UNCHANGED <<locs, accepted>>
        /\ history' = Append(history, Head(batch)) \/ history' = history
    BY <1>5 DEF WriteLog, AddToLog, Writing, Current, ghosts
  <2>2. /\ Head(batch) \in Entry
        /\ 1 \in DOMAIN batch /\ Head(batch) = batch[1]
        /\ Ordered(batch')
        /\ \A i \in DOMAIN batch' : Head(batch).no < batch'[i].no
              /\ \E j \in DOMAIN batch : batch'[i] = batch[j]
    BY <2>1, OrderedTail DEF Order, InOrder
  <2>3. /\ Ordered(history')
        /\ \A i \in DOMAIN history' :
              history'[i] = Head(batch) \/ \E j \in DOMAIN history : history'[i] = history[j]
    <3>1. CASE history' = history
      BY <3>1 DEF Order, InOrder
    <3>2. CASE history' = Append(history, Head(batch))
      <4>1. \A i \in DOMAIN history : history[i].no < Head(batch).no
        BY <2>2 DEF Order, InOrder, Before
      <4> QED
        BY <3>2, <4>1, <2>2, OrderedAppend DEF Order, InOrder
    <3> QED
      BY <2>1, <3>1, <3>2
  <2>4. InOrder'
    <3>1. /\ Ordered(history) /\ Ordered(batch) /\ Ordered(locs)
          /\ Before(history, batch) /\ Before(history, locs) /\ Before(batch, locs)
      BY DEF Order, InOrder
    <3>2. Before(history', batch')
      <4>1. \A i \in DOMAIN history', j \in DOMAIN batch : history'[i] = Head(batch) \/
                history'[i].no < batch[j].no
        BY <2>3, <3>1 DEF Before
      <4> QED
        BY <2>2, <4>1 DEF Before
    <3>3. Before(history', locs')
      BY <2>1, <2>2, <2>3, <3>1 DEF Before
    <3>4. Before(batch', locs')
      BY <2>1, <2>2, <3>1 DEF Before
    <3> QED
      BY <2>1, <2>2, <2>3, <3>1, <3>2, <3>3, <3>4 DEF InOrder
  <2>5. Numbered'
    BY <2>1, <2>2, <2>3 DEF Order, Numbered
  <2> QED
    BY <2>4, <2>5 DEF Order
<1>6. CASE Throw \/ Crash
  <2>1. /\ batch' = << >> /\ UNCHANGED <<history, accepted>>
        /\ locs' = locs \/ locs' = << >>
    BY <1>6 DEF Throw, GiveUp, Crash, tables, ghosts
  <2> QED
    BY <2>1, OrderedEmpty DEF Order, InOrder, Numbered
<1>7. CASE UNCHANGED vars
  BY <1>7, OrderFrame DEF vars, memory, tables, ghosts
<1> QED
  BY <1>1, <1>2, <1>3, <1>4, <1>5, <1>6, <1>7 DEF Next, Sync2db

(* The log, the batch and the buffer list the reports in the order of      *)
(* update(), whatever happens to the connection and to the process.        *)
THEOREM OrderCorrect == Spec => []InOrder
<1>1. Init => Order
  BY OrderedEmpty DEF Init, Order, InOrder, Numbered
<1>2. TypeOK /\ Order /\ [Next]_vars => Order'
  BY OrderKept
<1>3. Order => InOrder
  BY DEF Order
<1> QED
  BY <1>1, <1>2, <1>3, TypeCorrect, PTL DEF Spec
-----------------------------------------------------------------------------
(* The snapshot table.  What findOne saw is still so when its result is    *)
(* used; a document is older than every report still to be written, unless *)
(* it is the one whose log entry is due; and that log entry is written     *)
(* only after its snapshot, on the connection that took it.                *)

FoundHolds == pc = "snapshot" => found = (Docs(Current.loc.dev) # {})

SnapshotOlder ==
    \A doc \in snapshot :
        /\ doc.no <= accepted
        /\ \A i \in DOMAIN locs : doc.no < locs[i].no
        /\ \A i \in DOMAIN batch :
              \/ doc.no < batch[i].no
              \/ pc = "log" /\ i = 1 /\ doc.no = batch[1].no

SnapshotFirst ==
    pc = "log" /\ conn = "ok" =>
        \E doc \in Docs(Current.loc.dev) : doc.no >= Current.no

Snapped ==
    FoundHolds /\ SnapshotOlder /\ SnapshotFirst /\ OneSnapshot /\ SnapshotCoversLog

(* What a write to the snapshot table leaves there: the report itself, and *)
(* every document of another device, or nothing has changed.               *)
LEMMA SnapshotWritten ==
    ASSUME TypeOK, Order, Snapped, WriteSnapshot
    PROVE  /\ Current \in Entry /\ batch # << >> /\ 1 \in DOMAIN batch
           /\ Current = batch[1]
           /\ \A doc \in snapshot : doc.no < Current.no
           /\ \/ conn # "ok" /\ snapshot' = snapshot
              \/ snapshot' = {doc \in snapshot : doc.loc.dev # Current.loc.dev}
                                 \union {Current}
<1>1. /\ pc = "snapshot" /\ batch # << >> /\ batch \in Seq(Entry)
      /\ snapshot \subseteq Entry
  BY DEF WriteSnapshot, TypeOK, Writing
<1>2. Current \in Entry /\ 1 \in DOMAIN batch /\ Current = batch[1]
  BY <1>1, OrderedTail DEF Current, Order, InOrder
<1>3. \A doc \in snapshot : doc.no < Current.no
  BY <1>1, <1>2 DEF Snapped, SnapshotOlder
<1>4. Current.loc.dev \in Device
  BY <1>2, LocAssumption DEF Entry
<1>5. found <=> Docs(Current.loc.dev) # {}
  BY <1>1 DEF Snapped, FoundHolds
<1>6. \A s, t \in Docs(Current.loc.dev) : s = t
  BY <1>4 DEF Snapped, OneSnapshot
<1>7. CASE Vanished /\ UNCHANGED snapshot
  BY <1>1, <1>2, <1>3, <1>7 DEF Vanished
<1>8. CASE Stored /\ found /\ ReplaceDoc(Current)
  <2>1. PICK doc \in Docs(Current.loc.dev) :
           snapshot' = (snapshot \ {doc}) \union {Current}
    BY <1>5, <1>8 DEF ReplaceDoc
  <2>2. snapshot \ {doc} = {d \in snapshot : d.loc.dev # Current.loc.dev}
    BY <1>6, <2>1 DEF Docs
  <2> QED
    BY <1>1, <1>2, <1>3, <2>1, <2>2
<1>9. CASE Stored /\ ~found /\ InsertDoc(Current)
  <2>1. snapshot = {d \in snapshot : d.loc.dev # Current.loc.dev}
    BY <1>5, <1>9 DEF Docs
  <2> QED
    BY <1>1, <1>2, <1>3, <1>9, <2>1 DEF InsertDoc
<1> QED
  BY <1>7, <1>8, <1>9 DEF WriteSnapshot

(* The step of sync2db that writes the snapshot keeps all of it.           *)
LEMMA SnappedByWrite ==
    ASSUME TypeOK, Order, Snapped, WriteSnapshot
    PROVE  Snapped'
<1>1. /\ pc = "snapshot" /\ pc' = "log" /\ snapshot \subseteq Entry
      /\ batch \in Seq(Entry) /\ locs \in Seq(Entry) /\ history \in Seq(Entry)
      /\ UNCHANGED <<locs, batch, conn, history, accepted>>
  BY DEF WriteSnapshot, TypeOK, memory, ghosts
<1>2. /\ Current \in Entry /\ 1 \in DOMAIN batch /\ Current = batch[1]
      /\ Current' = Current /\ Current.no \in Nat
      /\ \A doc \in snapshot : doc.no < Current.no
  BY <1>1, SnapshotWritten DEF Current, Entry
<1>3. \/ conn # "ok" /\ snapshot' = snapshot
      \/ snapshot' = {doc \in snapshot : doc.loc.dev # Current.loc.dev}
                         \union {Current}
  BY SnapshotWritten
<1>4. FoundHolds'
  BY <1>1 DEF FoundHolds
<1>5. SnapshotOlder'
  <2>1. \A doc \in snapshot' : doc \in snapshot \/ doc = Current
    BY <1>3
  <2>2. /\ Current.no <= accepted
        /\ \A i \in DOMAIN locs : Current.no < locs[i].no
    BY <1>2 DEF Order, Numbered, InOrder, Before
  <2>3. \A i \in DOMAIN batch : Current.no < batch[i].no \/ i = 1
    <3> SUFFICES ASSUME NEW i \in DOMAIN batch, i # 1
                 PROVE  Current.no < batch[i].no
      OBVIOUS
    <3>1. i \in Nat /\ 1 < i
      BY <1>1, LenProperties
    <3> QED
      BY <1>2, <3>1 DEF Order, InOrder, Ordered
  <2>4. /\ \A doc \in snapshot : doc.no <= accepted
        /\ \A doc \in snapshot : \A i \in DOMAIN locs : doc.no < locs[i].no
        /\ \A doc \in snapshot : \A i \in DOMAIN batch : doc.no < batch[i].no
    BY <1>1 DEF Snapped, SnapshotOlder
  <2> QED
    BY <1>1, <1>2, <2>1, <2>2, <2>3, <2>4 DEF SnapshotOlder
<1>6. SnapshotFirst'
  BY <1>1, <1>2, <1>3 DEF SnapshotFirst, Docs
<1>7. OneSnapshot'
  BY <1>2, <1>3 DEF Snapped, OneSnapshot, Docs
<1>8. SnapshotCoversLog'
  <2> SUFFICES ASSUME NEW i \in DOMAIN history
               PROVE  \E doc \in snapshot' :
                         /\ doc.loc.dev = history[i].loc.dev
                         /\ doc.no >= history[i].no
    BY <1>1 DEF SnapshotCoversLog, Docs
  <2>1. PICK doc \in snapshot :
           doc.loc.dev = history[i].loc.dev /\ doc.no >= history[i].no
    BY DEF Snapped, SnapshotCoversLog, Docs
  <2>2. history[i].no \in Nat /\ history[i].no < Current.no
    BY <1>1, <1>2, Elements DEF Order, InOrder, Before
  <2> QED
    BY <1>2, <1>3, <2>1, <2>2
<1> QED
  BY <1>4, <1>5, <1>6, <1>7, <1>8 DEF Snapped

(* Every other step writes no snapshot; the step that writes the log       *)
(* appends a report whose snapshot is there.                               *)
LEMMA SnappedKept == TypeOK /\ Order /\ Snapped /\ [Next]_vars => Snapped'
<1> SUFFICES ASSUME TypeOK, Order, Snapped, [Next]_vars PROVE Snapped'
  OBVIOUS
<1> USE DEF Snapped
<1>1. CASE Opening
  <2>1. /\ UNCHANGED <<locs, batch, tables, accepted>>
        /\ pc \in {"down", "loading"} /\ pc' \in {"loading", "idle"}
    BY <1>1 DEF Opening, Open, Load, LoadDone, LoadFail, memory, ghosts
  <2> QED
    BY <2>1 DEF FoundHolds, SnapshotOlder, SnapshotFirst, OneSnapshot,
                SnapshotCoversLog, Docs, tables
<1>2. ASSUME NEW loc \in Loc, Update(loc) PROVE Snapped'
  <2> DEFINE e == [loc |-> loc, no |-> accepted + 1]
  <2>1. e \in Entry /\ e.no = accepted + 1 /\ accepted \in Nat
        /\ \A doc \in snapshot : doc.no \in Nat
    BY DEF Entry, TypeOK
  <2>2. /\ locs' = Append(locs, e) /\ accepted' = accepted + 1
        /\ UNCHANGED <<pc, batch, found, conn, tables>>
    BY <1>2 DEF Update
  <2>3. \A i \in DOMAIN locs : locs[i].no \in Nat /\ locs[i].no < e.no
    BY <2>1, Elements DEF Order, Numbered, TypeOK
  <2> HIDE DEF e
  <2>4. \A i \in DOMAIN locs' :
            locs'[i] = e \/ \E j \in DOMAIN locs : locs'[i] = locs[j]
    BY <2>1, <2>2, <2>3, OrderedAppend DEF Order, InOrder, TypeOK
  <2>5. SnapshotOlder'
    BY <2>1, <2>2, <2>4 DEF SnapshotOlder, tables
  <2> QED
    BY <2>2, <2>5 DEF FoundHolds, SnapshotFirst, OneSnapshot,
                      SnapshotCoversLog, Docs, Current, tables
<1>3. CASE Check
  <2>1. /\ batch' = locs /\ locs' = << >> /\ UNCHANGED <<tables, accepted>>
        /\ pc' \in {"idle", "find"}
    BY <1>3 DEF Check, Swap, ghosts
  <2> QED
    BY <2>1 DEF FoundHolds, SnapshotOlder, SnapshotFirst, OneSnapshot,
                SnapshotCoversLog, Docs, tables
<1>4. CASE FindOne
  BY <1>4 DEF FindOne, FoundHolds, SnapshotOlder, SnapshotFirst, OneSnapshot,
              SnapshotCoversLog, Docs, Current, tables, ghosts
<1>5. CASE WriteSnapshot
  BY <1>5, SnappedByWrite
<1>6. CASE WriteLog
  <2>1. /\ pc = "log" /\ batch # << >> /\ batch \in Seq(Entry)
        /\ history \in Seq(Entry) /\ snapshot \subseteq Entry
        /\ batch' = Tail(batch) /\ UNCHANGED <<locs, snapshot, accepted>>
        /\ pc' \in {"idle", "find"}
    BY <1>6 DEF WriteLog, TypeOK, Writing, ghosts
  <2>2. /\ Current \in Entry /\ 1 \in DOMAIN batch /\ Current = batch[1]
        /\ \A i \in DOMAIN batch' : Current.no < batch'[i].no
              /\ \E j \in DOMAIN batch : batch'[i] = batch[j]
    BY <2>1, OrderedTail DEF Current, Order, InOrder
  <2>3. SnapshotOlder'
    <3>1. \A doc \in snapshot : \A i \in DOMAIN batch' : doc.no < batch'[i].no
      BY <2>1, <2>2 DEF SnapshotOlder
    <3> QED
      BY <2>1, <3>1 DEF SnapshotOlder
  <2>4. SnapshotCoversLog'
    <3>1. CASE Stored /\ history' = Append(history, Current)
      <4>1. \E doc \in Docs(Current.loc.dev) : doc.no >= Current.no
        BY <2>1, <3>1 DEF SnapshotFirst, Stored
      <4>2. \A i \in DOMAIN history' :
               \/ history'[i] = Current
               \/ \E j \in DOMAIN history : history'[i] = history[j]
        BY <2>1, <2>2, <3>1, OrderedAppend DEF Order, InOrder, Before
      <4> QED
        BY <2>1, <4>1, <4>2 DEF SnapshotCoversLog, Docs
    <3>2. CASE UNCHANGED history
      BY <2>1, <3>2 DEF SnapshotCoversLog, Docs
    <3> QED
      BY <1>6, <3>1, <3>2 DEF WriteLog, AddToLog
  <2> QED
    BY <2>1, <2>3, <2>4 DEF FoundHolds, SnapshotFirst, OneSnapshot, Docs
<1>7. CASE Throw \/ Crash
  <2>1. /\ batch' = << >> /\ UNCHANGED <<tables, accepted>>
        /\ locs' = locs \/ locs' = << >>
        /\ pc' \in {"idle", "down"}
    BY <1>7 DEF Throw, GiveUp, Crash, ghosts
  <2> QED
    BY <2>1 DEF FoundHolds, SnapshotOlder, SnapshotFirst, OneSnapshot,
                SnapshotCoversLog, Docs, tables
<1>8. CASE ConnLost \/ UNCHANGED vars
  BY <1>8 DEF ConnLost, FoundHolds, SnapshotOlder, SnapshotFirst, OneSnapshot,
              SnapshotCoversLog, Docs, Current, vars, memory, tables, ghosts
<1> QED
  BY <1>1, <1>2, <1>3, <1>4, <1>5, <1>6, <1>7, <1>8 DEF Next, Sync2db

(* All that is known of a reachable state of the buffer.                   *)
IInv == TypeOK /\ Order /\ Snapped

LEMMA InductiveInvariant == Spec => []IInv
<1>1. Init => IInv
  <2>1. Init => Snapped
    BY DEF Init, Snapped, FoundHolds, SnapshotOlder, SnapshotFirst, OneSnapshot,
           SnapshotCoversLog, Docs
  <2>2. Init => Order
    BY OrderedEmpty DEF Init, Order, InOrder, Numbered
  <2>3. Init => TypeOK
    BY InitType
  <2> QED
    BY <2>1, <2>2, <2>3 DEF IInv
<1>2. IInv /\ [Next]_vars => IInv'
  BY NextType, OrderKept, SnappedKept DEF IInv
<1> QED
  BY <1>1, <1>2, PTL DEF Spec

(* At most one snapshot document per device, for any devices and faults.   *)
THEOREM OneSnapshotCorrect == Spec => []OneSnapshot
<1>1. IInv => OneSnapshot
  BY DEF IInv, Snapped
<1> QED
  BY <1>1, InductiveInvariant, PTL

(* The snapshot of a device is never behind its log, for any faults.       *)
THEOREM SnapshotCoversLogCorrect == Spec => []SnapshotCoversLog
<1>1. IInv => SnapshotCoversLog
  BY DEF IInv, Snapped
<1> QED
  BY <1>1, InductiveInvariant, PTL

(* No step takes a snapshot away or makes it older.                        *)
THEOREM SnapshotMonotoneCorrect == Spec => SnapshotMonotone
<1> DEFINE Keeps == \A old \in snapshot : \E new \in snapshot' :
                       new.loc.dev = old.loc.dev /\ new.no >= old.no
<1>1. IInv /\ [Next]_vars => [Keeps]_vars
  <2> SUFFICES ASSUME IInv, [Next]_vars PROVE Keeps
    OBVIOUS
  <2>0. \A doc \in snapshot : doc.no \in Nat
    BY DEF IInv, TypeOK, Entry
  <2>1. CASE WriteSnapshot
    <3>1. /\ Current \in Entry /\ \A doc \in snapshot : doc.no < Current.no
          /\ \/ snapshot' = snapshot
             \/ snapshot' = {doc \in snapshot : doc.loc.dev # Current.loc.dev}
                                \union {Current}
      BY <2>1, SnapshotWritten DEF IInv
    <3>2. Current.no \in Nat
      BY <3>1 DEF Entry
    <3> QED
      BY <2>0, <3>1, <3>2
  <2>2. CASE UNCHANGED snapshot
    BY <2>0, <2>2
  <2>3. WriteSnapshot \/ UNCHANGED snapshot
    BY DEF Next, Opening, Open, Load, LoadDone, LoadFail, Update, Check, Sync2db,
           FindOne, WriteLog, Throw, ConnLost, Crash, vars, tables
  <2> QED
    BY <2>1, <2>2, <2>3
<1> QED
  BY <1>1, InductiveInvariant, PTL DEF Spec, SnapshotMonotone
-----------------------------------------------------------------------------
(* Without a fault.  The connection is there as long as the process is, and*)
(* log, batch and buffer number the reports without a gap.                 *)
Complete ==
    losses = 0 /\ crashes = 0 =>
        /\ pc # "down" => conn = "ok"
        /\ Len(history) + Len(batch) + Len(locs) = accepted
        /\ \A i \in DOMAIN history : history[i].no = i
        /\ \A i \in DOMAIN batch : batch[i].no = Len(history) + i
        /\ \A i \in DOMAIN locs : locs[i].no = Len(history) + Len(batch) + i

LEMMA Appended ==
    ASSUME NEW s \in Seq(Entry), NEW e \in Entry
    PROVE  /\ Len(s) \in Nat /\ Len(Append(s, e)) = Len(s) + 1
           /\ \A i \in DOMAIN Append(s, e) :
                 \/ i \in DOMAIN s /\ Append(s, e)[i] = s[i]
                 \/ i = Len(s) + 1 /\ Append(s, e)[i] = e
<1>1. /\ Append(s, e) \in Seq(Entry) /\ Len(Append(s, e)) = Len(s) + 1
      /\ \A i \in 1 .. Len(s) : Append(s, e)[i] = s[i]
      /\ Append(s, e)[Len(s) + 1] = e
  BY AppendProperties
<1>2. /\ Len(s) \in Nat /\ DOMAIN s = 1 .. Len(s)
      /\ DOMAIN Append(s, e) = 1 .. (Len(s) + 1)
  BY <1>1, LenProperties
<1>3. \A i \in 1 .. (Len(s) + 1) : i \in 1 .. Len(s) \/ i = Len(s) + 1
  BY <1>2
<1> QED
  BY <1>1, <1>2, <1>3

LEMMA CompleteKept == TypeOK /\ Complete /\ [Next]_vars => Complete'
<1> SUFFICES ASSUME TypeOK, Complete, [Next]_vars, losses' = 0, crashes' = 0
             PROVE  /\ pc' # "down" => conn' = "ok"
                    /\ Len(history') + Len(batch') + Len(locs') = accepted'
                    /\ \A i \in DOMAIN history' : history'[i].no = i
                    /\ \A i \in DOMAIN batch' : batch'[i].no = Len(history') + i
                    /\ \A i \in DOMAIN locs' :
                          locs'[i].no = Len(history') + Len(batch') + i
  BY DEF Complete
<1>1. /\ locs \in Seq(Entry) /\ batch \in Seq(Entry) /\ history \in Seq(Entry)
      /\ losses \in Nat /\ crashes \in Nat /\ accepted \in Nat
      /\ Len(locs) \in Nat /\ Len(batch) \in Nat /\ Len(history) \in Nat
      /\ Len(<< >>) = 0 /\ DOMAIN << >> = {}
  BY LenProperties DEF TypeOK
<1>2. ~ConnLost /\ ~Crash
  BY <1>1 DEF ConnLost, Crash
<1>3. losses = 0 /\ crashes = 0
  BY <1>2 DEF Next, Opening, Open, Load, LoadDone, LoadFail, Update, Check, Sync2db, FindOne,
              WriteSnapshot, WriteLog, Throw, ghosts, vars
<1>4. /\ pc # "down" => conn = "ok"
      /\ Len(history) + Len(batch) + Len(locs) = accepted
      /\ \A i \in DOMAIN history : history[i].no = i
      /\ \A i \in DOMAIN batch : batch[i].no = Len(history) + i
      /\ \A i \in DOMAIN locs : locs[i].no = Len(history) + Len(batch) + i
  BY <1>3 DEF Complete
<1>5. CASE Opening \/ FindOne \/ WriteSnapshot \/ UNCHANGED vars
  <2>1. UNCHANGED <<history, batch, locs, accepted>>
    BY <1>5 DEF Opening, Open, Load, LoadDone, LoadFail, FindOne, WriteSnapshot, memory, tables,
                ghosts, vars
  <2>2. pc' # "down" => conn' = "ok"
    BY <1>4, <1>5 DEF Opening, Open, Load, LoadDone, LoadFail, FindOne, WriteSnapshot, vars
  <2> QED
    BY <1>4, <2>1, <2>2
<1>6. ASSUME NEW loc \in Loc, Update(loc)
      PROVE  /\ Len(history) + Len(batch) + Len(locs') = accepted'
             /\ \A i \in DOMAIN locs' : locs'[i].no = Len(history) + Len(batch) + i
  <2> DEFINE e == [loc |-> loc, no |-> accepted + 1]
  <2>1. e \in Entry /\ e.no = accepted + 1 /\ locs' = Append(locs, e) /\ accepted' = accepted + 1
    BY <1>1, <1>6 DEF Update, Entry
  <2> HIDE DEF e
  <2>2. /\ Len(locs') = Len(locs) + 1
        /\ \A i \in DOMAIN locs' : \/ i \in DOMAIN locs /\ locs'[i] = locs[i]
                                   \/ i = Len(locs) + 1 /\ locs'[i] = e
    BY <1>1, <2>1, Appended
  <2>3. ASSUME NEW i \in DOMAIN locs' PROVE locs'[i].no = Len(history) + Len(batch) + i
    <3>1. CASE i \in DOMAIN locs /\ locs'[i] = locs[i]
      BY <1>4, <3>1
    <3>2. CASE i = Len(locs) + 1 /\ locs'[i] = e
      <4>1. locs'[i].no = (Len(history) + Len(batch) + Len(locs)) + 1
        BY <1>4, <2>1, <3>2
      <4> QED
        BY <1>1, <3>2, <4>1
    <3> QED
      BY <2>2, <3>1, <3>2
  <2>4. Len(history) + Len(batch) + Len(locs') = accepted'
    <3>1. /\ Len(locs') = Len(locs) + 1 /\ accepted' = accepted + 1
          /\ Len(history) + Len(batch) + Len(locs) = accepted
      BY <1>4, <2>1, <2>2
    <3> QED
      BY <1>1, <3>1
  <2> QED
    BY <2>3, <2>4
<1>7. CASE Check
  <2>1. /\ batch' = locs /\ locs' = << >> /\ batch = << >> /\ UNCHANGED <<history, accepted, conn>>
        /\ pc = "idle"
    BY <1>7 DEF Check, Swap, TypeOK, Writing, tables, ghosts
  <2> QED
    BY <1>1, <1>4, <2>1
<1>8. CASE WriteLog
  <2>1. /\ conn = "ok" /\ history' = Append(history, Head(batch)) /\ batch' = Tail(batch)
        /\ batch # << >> /\ UNCHANGED <<locs, accepted, conn>>
    BY <1>4, <1>8 DEF WriteLog, AddToLog, Current, Stored, Vanished, TypeOK, Writing, ghosts
  <2>2. /\ Head(batch) \in Entry /\ Head(batch) = batch[1] /\ 1 \in DOMAIN batch
        /\ Len(batch') = Len(batch) - 1
        /\ \A i \in DOMAIN batch' : i + 1 \in DOMAIN batch /\ batch'[i] = batch[i + 1] /\ i \in Nat
    <3>1. /\ Head(batch) \in Entry /\ batch' \in Seq(Entry) /\ Len(batch') = Len(batch) - 1
          /\ \A i \in 1 .. Len(batch') : batch'[i] = batch[i + 1]
      BY <1>1, <2>1, HeadTailProperties
    <3>2. /\ DOMAIN (batch') = 1 .. (Len(batch) - 1) /\ DOMAIN batch = 1 .. Len(batch)
          /\ Len(batch) # 0 /\ Head(batch) = batch[1]
      BY <1>1, <2>1, <3>1, LenProperties, EmptySeq
    <3> QED
      BY <1>1, <3>1, <3>2
  <2>3. /\ Len(history') = Len(history) + 1
        /\ \A i \in DOMAIN history' : \/ i \in DOMAIN history /\ history'[i] = history[i]
                                      \/ i = Len(history) + 1 /\ history'[i] = batch[1]
    BY <1>1, <2>1, <2>2, Appended
  <2>4. Len(history') + Len(batch') = Len(history) + Len(batch)
    BY <1>1, <2>2, <2>3
  <2>5. \A i \in DOMAIN history' : history'[i].no = i
    BY <1>1, <1>4, <2>2, <2>3
  <2>6. \A i \in DOMAIN batch' : batch'[i].no = Len(history') + i
    BY <1>1, <1>4, <2>2, <2>3
  <2> QED
    BY <1>1, <1>4, <2>1, <2>4, <2>5, <2>6
<1>9. ~Throw
  BY <1>4 DEF Throw, Writing
<1>10. CASE \E loc \in Loc : Update(loc)
  <2>1. PICK loc \in Loc : Update(loc)
    BY <1>10
  <2>2. UNCHANGED <<pc, conn, history, batch>>
    BY <2>1 DEF Update, tables
  <2> QED
    BY <1>4, <1>6, <2>1, <2>2
<1> QED
  BY <1>2, <1>5, <1>7, <1>8, <1>9, <1>10 DEF Next, Sync2db

(* As long as neither the connection nor the process went, no report is    *)
(* missing and none is out of place: the mutex is held for the swap only,  *)
(* and still nothing that arrives while a batch is written is lost.        *)
THEOREM NothingDroppedCorrect == Spec => []NothingDropped
<1>1. Init => Complete
  BY LenProperties, NoEntries DEF Init, Complete
<1>2. TypeOK /\ Complete /\ [Next]_vars => Complete'
  BY CompleteKept
<1>3. TypeOK /\ Complete => NothingDropped
  <2> SUFFICES ASSUME TypeOK, Complete, losses = 0, crashes = 0
               PROVE  /\ Len(history \o batch \o locs) = accepted
                      /\ \A i \in DOMAIN (history \o batch \o locs) :
                            (history \o batch \o locs)[i].no = i
    BY DEF NothingDropped
  <2> DEFINE first == history \o batch
             all == first \o locs
  <2>1. /\ locs \in Seq(Entry) /\ batch \in Seq(Entry) /\ history \in Seq(Entry)
        /\ accepted \in Nat
        /\ Len(locs) \in Nat /\ Len(batch) \in Nat /\ Len(history) \in Nat
        /\ DOMAIN locs = 1 .. Len(locs) /\ DOMAIN batch = 1 .. Len(batch)
        /\ DOMAIN history = 1 .. Len(history)
    BY LenProperties DEF TypeOK
  <2>2. /\ first \in Seq(Entry) /\ Len(first) = Len(history) + Len(batch)
        /\ \A i \in 1 .. Len(history) + Len(batch) :
              first[i] = IF i <= Len(history) THEN history[i] ELSE batch[i - Len(history)]
    BY <2>1, ConcatProperties
  <2> HIDE DEF first
  <2>3. /\ all \in Seq(Entry) /\ Len(all) = Len(first) + Len(locs)
        /\ \A i \in 1 .. Len(first) + Len(locs) :
              all[i] = IF i <= Len(first) THEN first[i] ELSE locs[i - Len(first)]
    <3>1. first \in Seq(Entry) /\ locs \in Seq(Entry)
      BY <2>1, <2>2
    <3> QED
      BY <3>1, ConcatProperties
  <2>4. DOMAIN all = 1 .. Len(all)
    BY <2>3, LenProperties
  <2> HIDE DEF all
  <2>5. Len(all) = accepted
    BY <2>1, <2>2, <2>3 DEF Complete
  <2>6. ASSUME NEW i \in 1 .. Len(first) PROVE first[i].no = i
    <3>1. CASE i <= Len(history)
      <4>1. i \in DOMAIN history /\ first[i] = history[i]
        BY <2>1, <2>2, <3>1
      <4> QED
        BY <4>1 DEF Complete
    <3>2. CASE ~(i <= Len(history))
      <4>1. /\ i - Len(history) \in DOMAIN batch /\ first[i] = batch[i - Len(history)]
            /\ Len(history) + (i - Len(history)) = i
        BY <2>1, <2>2, <3>2
      <4> QED
        BY <4>1 DEF Complete
    <3> QED
      BY <3>1, <3>2
  <2>7. ASSUME NEW i \in DOMAIN all PROVE all[i].no = i
    <3>1. CASE i <= Len(first)
      <4>1. i \in 1 .. Len(first) /\ all[i] = first[i]
        BY <2>1, <2>2, <2>3, <2>4, <3>1
      <4> QED
        BY <2>6, <4>1
    <3>2. CASE ~(i <= Len(first))
      <4>1. /\ i - Len(first) \in DOMAIN locs /\ all[i] = locs[i - Len(first)]
            /\ Len(history) + Len(batch) + (i - Len(first)) = i
        BY <2>1, <2>2, <2>3, <2>4, <3>2
      <4> QED
        BY <4>1 DEF Complete
    <3> QED
      BY <3>1, <3>2
  <2> QED
    BY <2>5, <2>7 DEF all, first
<1> QED
  BY <1>1, <1>2, <1>3, TypeCorrect, PTL DEF Spec
-----------------------------------------------------------------------------
(* Snapshots ahead of the log.  While the connection stands, the one being *)
(* written is at most one more than faults there were; the loss of the     *)
(* connection between the two writes accounts for it.                      *)
Due == IF pc = "log" /\ conn = "ok" THEN 1 ELSE 0

AheadOK ==
    /\ IsFiniteSet(snapshot)
    /\ pc = "log" /\ conn = "ok" => Current \in snapshot
    /\ Cardinality(Ahead) <= losses + crashes + Due

LEMMA FewAhead ==
    ASSUME IsFiniteSet(snapshot)
    PROVE  IsFiniteSet(Ahead) /\ Cardinality(Ahead) \in Nat
BY FS_Subset, FS_CardinalityType DEF Ahead

LEMMA AheadKept == IInv /\ AheadOK /\ [Next]_vars => AheadOK'
<1> SUFFICES ASSUME IInv, AheadOK, [Next]_vars PROVE AheadOK'
  OBVIOUS
<1>1. /\ TypeOK /\ Order /\ Snapped /\ losses \in Nat /\ crashes \in Nat
      /\ IsFiniteSet(Ahead) /\ Cardinality(Ahead) \in Nat
      /\ Due \in {0, 1} /\ Due' \in {0, 1}
  BY FewAhead DEF IInv, AheadOK, TypeOK, Due
<1>2. ASSUME UNCHANGED tables, (pc' = "log" /\ conn' = "ok") => (pc = "log" /\ conn = "ok"),
             batch' = batch \/ pc' # "log",
             losses' \in Nat, crashes' \in Nat, losses + crashes + Due <= losses' + crashes' + Due'
      PROVE  AheadOK'
  <2>1. snapshot' = snapshot /\ Ahead' = Ahead
    BY <1>2 DEF tables, Ahead
  <2>2. Current' \in snapshot' \/ ~(pc' = "log" /\ conn' = "ok")
    BY <1>2, <2>1 DEF AheadOK, Current
  <2>3. Cardinality(Ahead)' <= losses' + crashes' + Due'
    <3>1. Cardinality(Ahead) <= losses + crashes + Due /\ Cardinality(Ahead)' = Cardinality(Ahead)
      BY <2>1 DEF AheadOK
    <3>2. losses + crashes + Due <= losses' + crashes' + Due'
      BY <1>2
    <3>3. /\ losses \in Nat /\ crashes \in Nat /\ Due \in Nat /\ Due' \in Nat
          /\ losses' \in Nat /\ crashes' \in Nat /\ Cardinality(Ahead) \in Nat
      BY <1>1, <1>2
    <3>4. \A card, a, b, c, x, y, z \in Nat :
             card <= a + b + c /\ a + b + c <= x + y + z => card <= x + y + z
      OBVIOUS
    <3>5. Cardinality(Ahead) <= losses' + crashes' + Due'
      BY <3>1, <3>2, <3>3, <3>4, ZenonT(30)
    <3> QED
      BY <3>1, <3>5
  <2> QED
    BY <2>1, <2>2, <2>3 DEF AheadOK
<1>3. CASE Opening \/ Check \/ FindOne \/ Throw \/ (\E loc \in Loc : Update(loc)) \/ UNCHANGED vars
  <2>1. UNCHANGED <<tables, losses, crashes>>
    BY <1>3 DEF Opening, Open, Load, LoadDone, LoadFail, Check, FindOne, Throw, Update, vars, ghosts
  <2>2. \/ UNCHANGED <<pc, conn, batch>>
        \/ pc' # "log" /\ ~(pc = "log" /\ conn = "ok")
    BY <1>3 DEF Opening, Open, Load, LoadDone, LoadFail, Check, FindOne, Throw, Update, vars, memory
  <2>3. Due' = Due
    BY <2>2 DEF Due
  <2> QED
    BY <1>1, <1>2, <2>1, <2>2, <2>3
<1>4. CASE ConnLost
  <2>1. UNCHANGED <<tables, crashes, batch>> /\ losses' = losses + 1 /\ conn' = "broken"
    BY <1>4 DEF ConnLost, memory
  <2>2. Due' = 0
    BY <2>1 DEF Due
  <2> QED
    BY <1>1, <1>2, <2>1, <2>2
<1>5. CASE Crash
  <2>1. UNCHANGED <<tables, losses>> /\ crashes' = crashes + 1 /\ pc' = "down"
    BY <1>5 DEF Crash
  <2>2. Due' = 0
    BY <2>1 DEF Due
  <2> QED
    BY <1>1, <1>2, <2>1, <2>2
<1>6. CASE WriteSnapshot
  <2>1. /\ pc = "snapshot" /\ pc' = "log" /\ UNCHANGED <<conn, batch, history, losses, crashes>>
        /\ conn = "ok" \/ snapshot' = snapshot
    BY <1>6 DEF WriteSnapshot, Stored, memory, ghosts
  <2>2. Due = 0 /\ Current' = Current /\ (Cardinality(Ahead) <= losses + crashes)
    <3>1. Due = 0 /\ (Cardinality(Ahead) <= losses + crashes + Due)
      BY <2>1 DEF Due, AheadOK
    <3> QED
      BY <1>1, <2>1, <3>1 DEF Current
  <2>3. CASE conn = "ok" /\ snapshot' # snapshot
    <3>1. snapshot' = {doc \in snapshot : doc.loc.dev # Current.loc.dev} \union {Current}
      BY <1>1, <1>6, <2>3, SnapshotWritten
    <3>2. IsFiniteSet(snapshot') /\ Current \in snapshot'
      BY <3>1, FS_Subset, FS_AddElement DEF AheadOK
    <3>3. Due' = 1
      BY <2>1, <2>3 DEF Due
    <3>4. Cardinality(Ahead') <= losses' + crashes' + 1
      <4>1. Ahead' \subseteq Ahead \union {Current}
        BY <2>1, <3>1 DEF Ahead
      <4>2. /\ IsFiniteSet(Ahead \union {Current})
            /\ \/ Cardinality(Ahead \union {Current}) = Cardinality(Ahead)
               \/ Cardinality(Ahead \union {Current}) = Cardinality(Ahead) + 1
        BY <1>1, FS_AddElement
      <4>3. Cardinality(Ahead') <= Cardinality(Ahead \union {Current})
            /\ Cardinality(Ahead') \in Nat
        BY <4>1, <4>2, FS_Subset, FS_CardinalityType
      <4> QED
        BY <1>1, <2>1, <2>2, <4>2, <4>3
    <3> QED
      BY <2>2, <3>2, <3>3, <3>4 DEF AheadOK
  <2>4. CASE snapshot' = snapshot
    <3>1. Ahead' = Ahead /\ (Due' = 0 \/ Due' = 1)
      BY <1>1, <2>1, <2>4 DEF Ahead
    <3>2. conn = "ok" => Current \in snapshot
      <4>1. CASE conn = "ok"
        <5>1. snapshot' = {doc \in snapshot : doc.loc.dev # Current.loc.dev} \union {Current}
          BY <1>1, <1>6, <4>1, SnapshotWritten
        <5> QED
          BY <2>4, <5>1
      <4> QED
        BY <4>1
    <3>3. Cardinality(Ahead)' <= losses' + crashes' + Due'
      <4>1. Cardinality(Ahead)' = Cardinality(Ahead)
        BY <3>1
      <4>2. losses' = losses /\ crashes' = crashes
        BY <2>1
      <4> QED
        BY <1>1, <2>2, <4>1, <4>2
    <3> QED
      BY <2>1, <2>2, <2>4, <3>2, <3>3 DEF AheadOK
  <2> QED
    BY <2>1, <2>3, <2>4
<1>7. CASE WriteLog
  <2>1. /\ pc = "log" /\ pc' # "log" /\ UNCHANGED <<conn, snapshot, losses, crashes>>
        /\ \/ conn = "ok" /\ history' = Append(history, Current)
           \/ conn = "broken" /\ history' = history
    BY <1>7 DEF WriteLog, Stored, Vanished, AddToLog, ghosts
  <2>2. Due' = 0
    BY <2>1 DEF Due
  <2>3. CASE conn = "broken" /\ history' = history
    <3>1. Due = 0 /\ tables' = tables
      BY <2>1, <2>3 DEF Due, tables
    <3> QED
      BY <1>1, <1>2, <2>1, <2>2, <3>1
  <2>4. CASE conn = "ok" /\ history' = Append(history, Current)
    <3>1. Current \in snapshot /\ Due = 1
      BY <2>1, <2>4 DEF AheadOK, Due
    <3>2. /\ batch \in Seq(Entry) /\ batch # << >> /\ history \in Seq(Entry)
          /\ Current \in Entry /\ Current = batch[1] /\ 1 \in DOMAIN batch
      BY <1>1, <2>1, OrderedTail DEF TypeOK, Writing, Current, Order, InOrder
    <3>3. \A i \in DOMAIN history : history[i] # Current
      <4>1. \A i \in DOMAIN history : history[i].no \in Nat /\ history[i].no < Current.no
        BY <1>1, <3>2, Elements DEF Order, InOrder, Before
      <4> QED
        BY <4>1
    <3>4. Current \in Ahead
      BY <3>1, <3>3 DEF Ahead
    <3>5. \A i \in DOMAIN history : i \in DOMAIN history' /\ history'[i] = history[i]
      <4>1. /\ Len(history) \in Nat /\ DOMAIN history = 1 .. Len(history)
            /\ history' \in Seq(Entry) /\ Len(history') = Len(history) + 1
            /\ \A i \in 1 .. Len(history) : history'[i] = history[i]
        BY <2>4, <3>2, AppendProperties, LenProperties
      <4>2. DOMAIN (history') = 1 .. Len(history')
        BY <4>1, LenProperties
      <4> QED
        BY <4>1, <4>2
    <3>6. \E i \in DOMAIN history' : history'[i] = Current
      <4>1. /\ Len(history) \in Nat /\ history' \in Seq(Entry) /\ Len(history') = Len(history) + 1
            /\ history'[Len(history) + 1] = Current
        BY <2>4, <3>2, AppendProperties, LenProperties
      <4>2. DOMAIN (history') = 1 .. Len(history')
        BY <4>1, LenProperties
      <4>3. Len(history) + 1 \in DOMAIN (history')
        BY <4>1, <4>2
      <4> QED
        BY <4>1, <4>3
    <3>7. Ahead' \subseteq Ahead \ {Current}
      BY <2>1, <3>5, <3>6 DEF Ahead
    <3>8. Cardinality(Ahead \ {Current}) = Cardinality(Ahead) - 1 /\ IsFiniteSet(Ahead \ {Current})
      BY <1>1, <3>4, FS_RemoveElement
    <3>9. Cardinality(Ahead') <= Cardinality(Ahead) - 1 /\ Cardinality(Ahead') \in Nat
      BY <3>7, <3>8, FS_Subset, FS_CardinalityType
    <3>10. Cardinality(Ahead) <= losses + crashes + 1
      BY <3>1 DEF AheadOK
    <3>11. Cardinality(Ahead') <= losses' + crashes' + Due'
      BY <1>1, <2>1, <2>2, <3>9, <3>10
    <3> QED
      BY <2>1, <3>11 DEF AheadOK
  <2> QED
    BY <2>1, <2>3, <2>4
<1> QED
  BY <1>3, <1>4, <1>5, <1>6, <1>7 DEF Next, Sync2db

(* A lost connection and a crash each separate the two writes of at most   *)
(* one report: no more snapshots than that are ahead of the log, but for   *)
(* the one whose log entry is about to be written.                         *)
THEOREM AheadCorrect == Spec => []AheadIsAFault
<1>1. Init => AheadOK
  <2> SUFFICES ASSUME Init PROVE AheadOK
    OBVIOUS
  <2>1. snapshot = {} /\ Ahead = {} /\ losses = 0 /\ crashes = 0 /\ pc = "down"
    BY DEF Init, Ahead
  <2> QED
    BY <2>1, FS_EmptySet DEF AheadOK, Due
<1>2. IInv /\ AheadOK /\ [Next]_vars => AheadOK'
  BY AheadKept
<1>3. IInv /\ AheadOK => AheadIsAFault
  <2> SUFFICES ASSUME IInv, AheadOK PROVE AheadIsAFault
    OBVIOUS
  <2>1. /\ Cardinality(Ahead) \in Nat /\ losses \in Nat /\ crashes \in Nat
        /\ Cardinality(Ahead) <= losses + crashes + Due
    BY FewAhead DEF IInv, TypeOK, AheadOK
  <2>2. Due \in {0, 1} /\ (Due = 1 => pc = "log")
    BY DEF Due
  <2>3. CASE pc = "log"
    BY <2>1, <2>2, <2>3 DEF AheadIsAFault
  <2>4. CASE pc # "log"
    BY <2>1, <2>2, <2>4 DEF AheadIsAFault
  <2> QED
    BY <2>3, <2>4
<1> QED
  BY <1>1, <1>2, <1>3, InductiveInvariant, PTL DEF Spec
-----------------------------------------------------------------------------
(* What a fault costs.  The buffer and the batch hold the last numbers that*)
(* were given, so what is lost by a fault begins at the number First. After*)
(* the connection has gone, and until the process ends, either nothing has *)
(* been lost by that yet, or what is lost next comes right behind it.      *)
RunsOf(S) == {n \in S : n - 1 \notin S}

First == accepted - Len(locs) - Len(batch) + 1

Pending ==
    /\ First >= 1
    /\ \A i \in DOMAIN batch : batch[i].no = First - 1 + i
    /\ \A i \in DOMAIN locs : locs[i].no = First - 1 + Len(batch) + i
    /\ \A i \in DOMAIN history : history[i].no < First

RunsOK ==
    /\ Pending
    /\ Cardinality(RunsOf(Lost)) <= losses + crashes
    /\ pc # "down" /\ conn # "ok" =>
          First - 1 \in Lost \/ Cardinality(RunsOf(Lost)) < losses + crashes

(* A run that is appended counts once, or not at all behind another.       *)
LEMMA RunsGrow ==
    ASSUME NEW S \in SUBSET Nat, IsFiniteSet(S), NEW m \in Nat, NEW k \in Nat
    PROVE  /\ Cardinality(RunsOf(S)) \in Nat
           /\ Cardinality(RunsOf(S \union (m .. k))) \in Nat
           /\ Cardinality(RunsOf(S \union (m .. k))) <= Cardinality(RunsOf(S)) + 1
           /\ m - 1 \in S =>
                 Cardinality(RunsOf(S \union (m .. k))) <= Cardinality(RunsOf(S))
<1> DEFINE T == S \union (m .. k)
<1>1. IsFiniteSet(RunsOf(S)) /\ Cardinality(RunsOf(S)) \in Nat
  BY FS_Subset, FS_CardinalityType DEF RunsOf
<1>2. RunsOf(T) \subseteq RunsOf(S) \union {m}
  BY DEF RunsOf
<1>3. m - 1 \in S => RunsOf(T) \subseteq RunsOf(S)
  BY <1>2 DEF RunsOf
<1>4. /\ IsFiniteSet(RunsOf(S) \union {m})
      /\ Cardinality(RunsOf(S) \union {m}) \in Nat
      /\ Cardinality(RunsOf(S) \union {m}) <= Cardinality(RunsOf(S)) + 1
  <2>1. /\ IsFiniteSet(RunsOf(S) \union {m})
        /\ \/ Cardinality(RunsOf(S) \union {m}) = Cardinality(RunsOf(S))
           \/ Cardinality(RunsOf(S) \union {m}) = Cardinality(RunsOf(S)) + 1
    BY <1>1, FS_AddElement
  <2> QED
    BY <1>1, <2>1
<1>5. /\ IsFiniteSet(RunsOf(T)) /\ Cardinality(RunsOf(T)) \in Nat
      /\ Cardinality(RunsOf(T)) <= Cardinality(RunsOf(S) \union {m})
  BY <1>2, <1>4, FS_Subset, FS_CardinalityType
<1>6. m - 1 \in S => Cardinality(RunsOf(T)) <= Cardinality(RunsOf(S))
  BY <1>1, <1>3, FS_Subset
<1> QED
  BY <1>1, <1>4, <1>5, <1>6

(* What is lost are the numbers before First that are not in the log.      *)
LostKnown ==
    /\ First \in Nat /\ First >= 1
    /\ Lost = {n \in 1 .. First - 1 : \A i \in DOMAIN history : history[i].no # n}
    /\ Lost \in SUBSET Nat /\ IsFiniteSet(Lost)

LEMMA LostBeforeFirst == TypeOK /\ Pending => LostKnown
<1> SUFFICES ASSUME TypeOK, Pending PROVE LostKnown
  OBVIOUS
<1> DEFINE In(s, n) == \E i \in DOMAIN s : s[i].no = n
<1>1. /\ Len(batch) \in Nat /\ Len(locs) \in Nat
      /\ DOMAIN batch = 1 .. Len(batch) /\ DOMAIN locs = 1 .. Len(locs)
      /\ accepted \in Nat /\ First = accepted - Len(locs) - Len(batch) + 1
      /\ First \in Nat /\ First >= 1
  BY LenProperties DEF TypeOK, First, Pending
<1>2. ASSUME NEW n \in 1 .. accepted, ~In(batch, n), ~In(locs, n)
      PROVE  n \in 1 .. First - 1
  <2>1. CASE n >= First /\ n <= First - 1 + Len(batch)
    <3>1. n - First + 1 \in DOMAIN batch /\ First - 1 + (n - First + 1) = n
      BY <1>1, <2>1
    <3>2. batch[n - First + 1].no = n
      BY <3>1 DEF Pending
    <3> QED
      BY <1>2, <3>1, <3>2
  <2>2. CASE n > First - 1 + Len(batch)
    <3>1. /\ n - First + 1 - Len(batch) \in DOMAIN locs
          /\ First - 1 + Len(batch) + (n - First + 1 - Len(batch)) = n
      BY <1>1, <2>2
    <3>2. locs[n - First + 1 - Len(batch)].no = n
      BY <3>1 DEF Pending
    <3> QED
      BY <1>2, <3>1, <3>2
  <2> QED
    BY <1>1, <2>1, <2>2
<1>3. ASSUME NEW n \in 1 .. First - 1 PROVE n \in 1 .. accepted /\ ~In(batch, n) /\ ~In(locs, n)
  <2>1. ASSUME NEW i \in DOMAIN batch PROVE batch[i].no # n
    <3>1. batch[i].no = First - 1 + i /\ i \in 1 .. Len(batch)
      BY <1>1 DEF Pending
    <3> QED
      BY <1>1, <3>1
  <2>2. ASSUME NEW i \in DOMAIN locs PROVE locs[i].no # n
    <3>1. locs[i].no = First - 1 + Len(batch) + i /\ i \in 1 .. Len(locs)
      BY <1>1 DEF Pending
    <3> QED
      BY <1>1, <3>1
  <2> QED
    BY <1>1, <2>1, <2>2
<1>4. Lost = {n \in 1 .. accepted : ~In(history, n) /\ ~In(batch, n) /\ ~In(locs, n)}
  BY DEF Lost
<1>5. Lost = {n \in 1 .. First - 1 : ~In(history, n)}
  <2> HIDE DEF In
  <2> QED
    BY <1>2, <1>3, <1>4
<1>6. 1 \in Int /\ First - 1 \in Int
  BY <1>1
<1>7. IsFiniteSet(1 .. First - 1)
  BY <1>6, FS_Interval
<1>8. Lost \subseteq 1 .. First - 1
  BY <1>5
<1> QED
  BY <1>1, <1>5, <1>7, <1>8, FS_Subset DEF LostKnown

(* The numbers do not change but by a report that comes, one that is logged*)
(* and what is dropped from the front.                                     *)
LEMMA PendingKept == TypeOK /\ Pending /\ [Next]_vars => Pending'
<1> SUFFICES ASSUME TypeOK, Pending, [Next]_vars
             PROVE  /\ First' >= 1
                    /\ \A i \in DOMAIN batch' : batch'[i].no = First' - 1 + i
                    /\ \A i \in DOMAIN locs' : locs'[i].no = First' - 1 + Len(batch') + i
                    /\ \A i \in DOMAIN history' : history'[i].no < First'
  BY DEF Pending
<1>1. /\ locs \in Seq(Entry) /\ batch \in Seq(Entry) /\ history \in Seq(Entry)
      /\ accepted \in Nat /\ Len(locs) \in Nat /\ Len(batch) \in Nat
      /\ Len(<< >>) = 0 /\ DOMAIN << >> = {}
      /\ First \in Nat /\ First >= 1
      /\ First = accepted - Len(locs) - Len(batch) + 1
      /\ First' = accepted' - Len(locs') - Len(batch') + 1
      /\ \A i \in DOMAIN history : history[i].no \in Nat
  BY LenProperties, Elements, LostBeforeFirst DEF TypeOK, First, LostKnown
<1>2. /\ \A i \in DOMAIN batch : batch[i].no = First - 1 + i
      /\ \A i \in DOMAIN locs : locs[i].no = First - 1 + Len(batch) + i
      /\ \A i \in DOMAIN history : history[i].no < First
  BY DEF Pending
<1>3. CASE UNCHANGED <<locs, batch, history, accepted>>
  BY <1>1, <1>2, <1>3
<1>4. CASE Check
  <2>1. batch' = locs /\ locs' = << >> /\ batch = << >> /\ UNCHANGED <<history, accepted>>
    BY <1>4 DEF Check, Swap, TypeOK, Writing, tables, ghosts
  <2> QED
    BY <1>1, <1>2, <2>1
<1>5. CASE \E loc \in Loc : Update(loc)
  <2>1. PICK loc \in Loc : Update(loc)
    BY <1>5
  <2> DEFINE e == [loc |-> loc, no |-> accepted + 1]
  <2>2. /\ locs' = Append(locs, e) /\ accepted' = accepted + 1 /\ UNCHANGED <<batch, history>>
        /\ e \in Entry /\ e.no = accepted + 1
    BY <1>1, <2>1 DEF Update, tables, Entry
  <2> HIDE DEF e
  <2>3. /\ Len(locs') = Len(locs) + 1
        /\ \A i \in DOMAIN locs' : \/ i \in DOMAIN locs /\ locs'[i] = locs[i]
                                   \/ i = Len(locs) + 1 /\ locs'[i] = e
    BY <1>1, <2>2, Appended
  <2>4. First' = First
    BY <1>1, <2>2, <2>3
  <2>5. ASSUME NEW i \in DOMAIN locs' PROVE locs'[i].no = First - 1 + Len(batch) + i
    <3>1. CASE i \in DOMAIN locs /\ locs'[i] = locs[i]
      BY <1>2, <3>1
    <3>2. CASE i = Len(locs) + 1 /\ locs'[i] = e
      <4>1. accepted + 1 = First - 1 + Len(batch) + i
        BY <1>1, <3>2
      <4> QED
        BY <2>2, <3>2, <4>1
    <3> QED
      BY <2>3, <3>1, <3>2
  <2> QED
    BY <1>1, <1>2, <2>2, <2>4, <2>5
<1>6. CASE WriteLog
  <2>1. /\ batch # << >> /\ batch' = Tail(batch) /\ UNCHANGED <<locs, accepted>>
        /\ history' = Append(history, Head(batch)) \/ history' = history
    BY <1>6 DEF WriteLog, AddToLog, Current, Stored, Vanished, TypeOK, Writing, ghosts
  <2>2. /\ Head(batch) \in Entry /\ batch' \in Seq(Entry) /\ Len(batch') = Len(batch) - 1
        /\ \A i \in 1 .. Len(batch') : batch'[i] = batch[i + 1]
    BY <1>1, <2>1, HeadTailProperties
  <2>3. /\ DOMAIN batch' = 1 .. (Len(batch) - 1) /\ DOMAIN batch = 1 .. Len(batch)
        /\ Len(batch) # 0 /\ Head(batch) = batch[1]
    BY <1>1, <2>1, <2>2, LenProperties, EmptySeq
  <2>4. First' = First + 1 /\ batch[1].no = First
    BY <1>1, <1>2, <2>1, <2>2, <2>3
  <2>5. ASSUME NEW i \in DOMAIN batch' PROVE batch'[i].no = First' - 1 + i
    <3>1. i \in 1 .. (Len(batch) - 1)
      BY <2>3
    <3>2. i + 1 \in DOMAIN batch /\ First - 1 + (i + 1) = First' - 1 + i
      <4>1. Len(batch) \in Nat /\ First \in Nat /\ First' = First + 1
        BY <1>1, <2>4
      <4>2. i \in Int /\ i + 1 \in 1 .. Len(batch)
        BY <3>1, <4>1
      <4>3. First - 1 + (i + 1) = First' - 1 + i
        BY <4>1, <4>2
      <4> QED
        BY <2>3, <4>2, <4>3
    <3>3. batch'[i] = batch[i + 1]
      BY <2>2, <3>1
    <3> QED
      BY <1>2, <3>2, <3>3
  <2>6. ASSUME NEW i \in DOMAIN locs' PROVE locs'[i].no = First' - 1 + Len(batch') + i
    <3>1. i \in DOMAIN locs /\ i \in Nat
      <4>1. DOMAIN locs = 1 .. Len(locs)
        BY <1>1, LenProperties
      <4> QED
        BY <1>1, <2>1, <4>1
    <3>2. First - 1 + Len(batch) + i = First' - 1 + Len(batch') + i
      BY <1>1, <2>2, <2>4, <3>1
    <3> QED
      BY <1>2, <2>1, <3>1, <3>2
  <2>7. \A i \in DOMAIN history' : \/ history'[i] = batch[1]
                                   \/ i \in DOMAIN history /\ history'[i] = history[i]
    <3>1. CASE history' = Append(history, Head(batch))
      <4>1. \A i \in DOMAIN Append(history, Head(batch)) :
               \/ i \in DOMAIN history /\ Append(history, Head(batch))[i] = history[i]
               \/ Append(history, Head(batch))[i] = Head(batch)
        BY <1>1, <2>2, Appended
      <4> QED
        BY <2>3, <3>1, <4>1
    <3> QED
      BY <2>1, <3>1
  <2>8. \A i \in DOMAIN history' : history'[i].no < First'
    BY <1>1, <1>2, <2>4, <2>7
  <2> QED
    BY <1>1, <2>4, <2>5, <2>6, <2>8
<1>7. CASE Throw
  <2>1. batch' = << >> /\ UNCHANGED <<locs, history, accepted>>
    BY <1>7 DEF Throw, GiveUp, tables, ghosts
  <2>2. First' = First + Len(batch)
    BY <1>1, <2>1
  <2> QED
    BY <1>1, <1>2, <2>1, <2>2
<1>8. CASE Crash
  <2>1. batch' = << >> /\ locs' = << >> /\ UNCHANGED <<history, accepted>>
    BY <1>8 DEF Crash, tables
  <2>2. First' = First + Len(batch) + Len(locs)
    BY <1>1, <2>1
  <2> QED
    BY <1>1, <1>2, <2>1, <2>2
<1>9. CASE Opening \/ FindOne \/ WriteSnapshot \/ ConnLost \/ UNCHANGED vars
  <2>1. UNCHANGED <<locs, batch, history, accepted>>
    BY <1>9 DEF Opening, Open, Load, LoadDone, LoadFail, FindOne, WriteSnapshot, ConnLost,
                vars, memory, tables, ghosts
  <2> QED
    BY <1>3, <2>1
<1> QED
  BY <1>4, <1>5, <1>6, <1>7, <1>8, <1>9 DEF Next, Sync2db

LEMMA RunsKept == TypeOK /\ RunsOK /\ [Next]_vars => RunsOK'
<1> SUFFICES ASSUME TypeOK, RunsOK, [Next]_vars PROVE RunsOK'
  OBVIOUS
<1> DEFINE runs   == Cardinality(RunsOf(Lost))
           faults == losses + crashes
<1>1. TypeOK' /\ Pending /\ Pending' /\ LostKnown
  BY NextType, PendingKept, LostBeforeFirst DEF RunsOK
<1>2. LostKnown'
  BY <1>1, LostBeforeFirst, PTL
<1>3. runs \in Nat /\ faults \in Nat /\ faults' \in Nat
  <2>1. Lost \in SUBSET Nat /\ IsFiniteSet(Lost) /\ 1 \in Nat /\ 0 \in Nat
    BY <1>1 DEF LostKnown
  <2>2. losses \in Nat /\ crashes \in Nat /\ losses' \in Nat /\ crashes' \in Nat
    BY <1>1 DEF TypeOK
  <2>3. Cardinality(RunsOf(Lost)) \in Nat
    BY <2>1, RunsGrow
  <2>4. losses + crashes \in Nat /\ losses' + crashes' \in Nat
    <3>1. \A x, y \in Nat : x + y \in Nat
      OBVIOUS
    <3> QED
      BY <2>2, <3>1, Zenon
  <2> QED
    BY <2>3, <2>4, Zenon
<1>4. runs <= faults /\ (pc # "down" /\ conn # "ok" => First - 1 \in Lost \/ runs < faults)
  BY DEF RunsOK
<1>a. ASSUME runs' <= faults', pc' # "down" /\ conn' # "ok" => First' - 1 \in Lost' \/ runs' < faults'
      PROVE  RunsOK'
  BY <1>1, <1>a DEF RunsOK
<1>b. \A x, y, z \in Nat : x <= y => (y <= z => x <= z)
  OBVIOUS
<1>c. \A x, y, z \in Nat : x < y => (y <= z => x < z)
  OBVIOUS
<1>d. \A x, y, z \in Nat : x <= y => (y < z => x < z)
  OBVIOUS
<1>e. \A w, x, y \in Nat : w <= x + 1 => (x < y => w <= y)
  OBVIOUS
<1> HIDE DEF runs, faults
<1>5. ASSUME Lost' = Lost, faults <= faults',
             pc' # "down" /\ conn' # "ok" =>
                \/ First' = First /\ pc # "down" /\ conn # "ok"
                \/ faults < faults'
      PROVE  RunsOK'
  <2>1. runs' = runs
    BY <1>5 DEF runs
  <2>2. runs <= faults' /\ (faults < faults' => runs < faults')
    <3>1. runs <= faults /\ faults <= faults'
      BY <1>4, <1>5, Zenon
    <3> QED
      BY <1>3, <1>b, <1>d, <3>1, Zenon
  <2>3. runs < faults => runs < faults'
    <3>1. faults <= faults'
      BY <1>5, Zenon
    <3> QED
      BY <1>3, <1>c, <3>1, Zenon
  <2>4. pc' # "down" /\ conn' # "ok" => First' - 1 \in Lost' \/ runs' < faults'
    <3>1. ASSUME pc' # "down" /\ conn' # "ok", First' = First, pc # "down" /\ conn # "ok"
          PROVE  First' - 1 \in Lost' \/ runs' < faults'
      <4>1. First - 1 \in Lost \/ runs < faults
        BY <1>4, <3>1, Zenon
      <4> QED
        BY <1>5, <2>1, <2>3, <3>1, <4>1, Zenon
    <3> QED
      BY <1>5, <2>1, <2>2, <3>1, Zenon
  <2>5. runs' <= faults'
    BY <2>1, <2>2
  <2> QED
    BY <1>a, <2>4, <2>5
(* Steps that drop what is in front.                                       *)
<1>6. ASSUME history' = history, First' > First, faults <= faults',
             \/ pc # "down" /\ conn # "ok"
             \/ faults < faults'
      PROVE  RunsOK'
  <2>1. First \in Nat /\ First' \in Nat /\ First >= 1
    BY <1>1, <1>2 DEF LostKnown
  <2>a. First' > First
    BY <1>6
  <2>b. \A n : /\ n \in First .. First' - 1 => n \in 1 .. First' - 1
               /\ n \in 1 .. First' - 1 => n \in 1 .. First - 1 \/ n \in First .. First' - 1
               /\ n \in 1 .. First - 1 => n \in 1 .. First' - 1
    <3>1. \A f, g \in Nat : f >= 1 /\ g > f =>
             \A n : /\ n \in f .. g - 1 => n \in 1 .. g - 1
                    /\ n \in 1 .. g - 1 => n \in 1 .. f - 1 \/ n \in f .. g - 1
                    /\ n \in 1 .. f - 1 => n \in 1 .. g - 1
      OBVIOUS
    <3> QED
      BY <2>1, <2>a, <3>1, Zenon
  <2>c. First' - 1 \in First .. First' - 1 /\ First' - 1 \in Nat
    <3>1. \A f, g \in Nat : f >= 1 /\ g > f => g - 1 \in f .. g - 1 /\ g - 1 \in Nat
      OBVIOUS
    <3> QED
      BY <2>1, <2>a, <3>1, Zenon
  <2>2. Lost' = Lost \union (First .. First' - 1)
    <3>1. \A i \in DOMAIN history : history[i].no < First /\ history[i].no \in Nat
      BY <1>1, Elements DEF Pending, TypeOK
    <3>2. Lost = {n \in 1 .. First - 1 : \A i \in DOMAIN history : history[i].no # n}
      BY <1>1 DEF LostKnown
    <3>3. Lost' = {n \in 1 .. First' - 1 : \A i \in DOMAIN history : history[i].no # n}
      BY <1>2, <1>6 DEF LostKnown
    <3>4. \A n \in First .. First' - 1 : \A i \in DOMAIN history : history[i].no # n
      BY <2>1, <3>1
    <3> QED
      BY <2>b, <3>2, <3>3, <3>4
  <2>3. First' - 1 \in Lost'
    BY <2>2, <2>c
  <2>4. /\ runs' \in Nat /\ runs' <= runs + 1
        /\ First - 1 \in Lost => runs' <= runs
    <3>1. Lost \in SUBSET Nat /\ IsFiniteSet(Lost)
      BY <1>1 DEF LostKnown
    <3> QED
      BY <2>1, <2>2, <2>c, <3>1, RunsGrow DEF runs
  <2>5. runs' <= faults'
    <3>1. runs <= faults /\ faults <= faults' /\ runs' <= runs + 1
      BY <1>4, <1>6, <2>4, Zenon
    <3>2. runs < faults' => runs' <= faults'
      BY <1>3, <1>e, <2>4, <3>1, Zenon
    <3>3. CASE faults < faults'
      BY <1>3, <1>d, <3>1, <3>2, <3>3, Zenon
    <3>4. CASE First - 1 \in Lost
      BY <1>3, <1>b, <2>4, <3>1, <3>4, Zenon
    <3>5. CASE runs < faults
      BY <1>3, <1>c, <3>1, <3>2, <3>5, Zenon
    <3> QED
      BY <1>4, <1>6, <3>3, <3>4, <3>5, Zenon
  <2> QED
    BY <1>a, <2>3, <2>5
<1>7. CASE Opening \/ FindOne \/ WriteSnapshot \/ UNCHANGED vars
  <2>1. UNCHANGED <<locs, batch, history, accepted, losses, crashes>>
    BY <1>7 DEF Opening, Open, Load, LoadDone, LoadFail, FindOne, WriteSnapshot,
                vars, memory, tables, ghosts
  <2>2. pc' # "down" /\ conn' # "ok" => pc # "down" /\ conn # "ok"
    BY <1>7 DEF Opening, Open, Load, LoadDone, LoadFail, FindOne, WriteSnapshot, vars
  <2>3. Lost' = Lost /\ First' = First
    BY <2>1 DEF Lost, First
  <2>4. faults <= faults'
    BY <1>3, <2>1 DEF faults
  <2> QED
    BY <1>5, <2>2, <2>3, <2>4
<1>8. CASE ConnLost
  <2>1. UNCHANGED <<locs, batch, history, accepted, crashes>> /\ losses' = losses + 1
    BY <1>8 DEF ConnLost, memory, tables
  <2>2. Lost' = Lost
    BY <2>1 DEF Lost
  <2>3. faults < faults' /\ faults <= faults'
    <3>1. losses \in Nat /\ crashes \in Nat
      BY DEF TypeOK
    <3> QED
      BY <2>1, <3>1 DEF faults
  <2> QED
    BY <1>5, <2>2, <2>3
<1>9. CASE Check \/ \E loc \in Loc : Update(loc)
  <2>1. UNCHANGED <<history, conn, losses, crashes>> /\ pc # "down"
    BY <1>9 DEF Check, Update, tables, ghosts
  <2>2. First' = First
    <3>1. CASE Check
      <4>1. batch' = locs /\ locs' = << >> /\ batch = << >> /\ accepted' = accepted
        BY <3>1 DEF Check, Swap, TypeOK, Writing, ghosts
      <4>2. Len(locs) \in Nat /\ accepted \in Nat /\ Len(<< >>) = 0
        BY LenProperties DEF TypeOK
      <4> QED
        BY <4>1, <4>2 DEF First
    <3>2. CASE \E loc \in Loc : Update(loc)
      <4>1. PICK loc \in Loc : Update(loc)
        BY <3>2
      <4>2. /\ locs' = Append(locs, [loc |-> loc, no |-> accepted + 1])
            /\ batch' = batch /\ accepted' = accepted + 1 /\ accepted \in Nat
            /\ [loc |-> loc, no |-> accepted + 1] \in Entry
        BY <4>1 DEF Update, Entry, TypeOK
      <4>3. Len(locs') = Len(locs) + 1 /\ Len(locs) \in Nat /\ Len(batch) \in Nat
        BY <4>2, Appended, LenProperties DEF TypeOK
      <4> QED
        BY <4>2, <4>3 DEF First
    <3> QED
      BY <1>9, <3>1, <3>2
  <2>3. Lost' = Lost
    BY <1>1, <1>2, <2>1, <2>2 DEF LostKnown
  <2>4. faults <= faults'
    BY <1>3, <2>1 DEF faults
  <2> QED
    BY <1>5, <2>1, <2>2, <2>3, <2>4
<1>10. CASE WriteLog
  <2>1. /\ batch # << >> /\ batch' = Tail(batch) /\ UNCHANGED <<locs, conn, accepted, losses, crashes>>
        /\ pc = "log"
        /\ \/ conn = "ok" /\ history' = Append(history, Head(batch))
           \/ conn # "ok" /\ history' = history
    BY <1>10 DEF WriteLog, AddToLog, Current, Stored, Vanished, TypeOK, Writing, ghosts
  <2>2. /\ batch \in Seq(Entry) /\ history \in Seq(Entry) /\ Head(batch) \in Entry
        /\ Len(batch) \in Nat /\ Len(locs) \in Nat /\ accepted \in Nat
        /\ Len(batch') = Len(batch) - 1 /\ 1 \in DOMAIN batch /\ Head(batch) = batch[1]
    <3>1. batch \in Seq(Entry) /\ history \in Seq(Entry) /\ locs \in Seq(Entry) /\ accepted \in Nat
      BY DEF TypeOK
    <3>2. Head(batch) \in Entry /\ Len(batch') = Len(batch) - 1
      BY <2>1, <3>1, HeadTailProperties
    <3>3. DOMAIN batch = 1 .. Len(batch) /\ Len(batch) # 0 /\ Len(batch) \in Nat /\ Len(locs) \in Nat
      BY <2>1, <3>1, LenProperties, EmptySeq
    <3> QED
      BY <3>1, <3>2, <3>3
  <2>3. First' = First + 1 /\ First \in Nat /\ batch[1].no = First
    <3>1. batch[1].no = First - 1 + 1 /\ First \in Nat
      BY <1>1, <2>2 DEF Pending, LostKnown
    <3>2. First' = First + 1
      BY <2>1, <2>2 DEF First
    <3> QED
      BY <3>1, <3>2
  <2>a. faults <= faults' /\ First' > First
    BY <1>3, <2>1, <2>3 DEF faults
  <2>4. CASE conn # "ok" /\ history' = history
    BY <1>6, <2>1, <2>4, <2>a
  <2>5. CASE conn = "ok" /\ history' = Append(history, Head(batch))
    <3>1. \A n \in Nat : (\A i \in DOMAIN history' : history'[i].no # n)
                         <=> n # First /\ (\A i \in DOMAIN history : history[i].no # n)
      <4>1. /\ \A i \in DOMAIN history' : \/ i \in DOMAIN history /\ history'[i] = history[i]
                                          \/ history'[i] = batch[1]
            /\ \A i \in DOMAIN history : i \in DOMAIN history' /\ history'[i] = history[i]
            /\ \E i \in DOMAIN history' : history'[i] = batch[1]
        <5>1. /\ history' \in Seq(Entry) /\ Len(history') = Len(history) + 1
              /\ \A i \in 1 .. Len(history) : history'[i] = history[i]
              /\ history'[Len(history) + 1] = batch[1]
          BY <2>2, <2>5, AppendProperties
        <5>2. /\ Len(history) \in Nat /\ DOMAIN history = 1 .. Len(history)
              /\ DOMAIN history' = 1 .. Len(history')
          BY <2>2, <5>1, LenProperties
        <5>3. /\ \A i \in 1 .. Len(history) + 1 : i \in 1 .. Len(history) \/ i = Len(history) + 1
              /\ \A i \in 1 .. Len(history) : i \in 1 .. Len(history) + 1
              /\ Len(history) + 1 \in 1 .. Len(history) + 1
          BY <5>2
        <5> QED
          BY <5>1, <5>2, <5>3
      <4> QED
        BY <2>3, <4>1
    <3>2. Lost' = Lost
      <4>1. /\ Lost = {n \in 1 .. First - 1 : \A i \in DOMAIN history : history[i].no # n}
            /\ Lost' = {n \in 1 .. First : \A i \in DOMAIN history' : history'[i].no # n}
        BY <1>1, <1>2, <2>3 DEF LostKnown
      <4>2. \A n \in 1 .. First : n \in Nat /\ (n # First => n \in 1 .. First - 1)
        BY <2>3
      <4>3. \A n \in 1 .. First - 1 : n \in Nat /\ n # First /\ n \in 1 .. First
        BY <2>3
      <4> QED
        BY <3>1, <4>1, <4>2, <4>3
    <3> QED
      BY <1>5, <2>1, <2>5, <2>a, <3>2
  <2> QED
    BY <2>1, <2>4, <2>5
<1>11. CASE Throw
  <2>1. /\ batch' = << >> /\ batch # << >> /\ UNCHANGED <<locs, history, accepted, losses, crashes>>
        /\ pc # "down" /\ conn # "ok"
    BY <1>11 DEF Throw, GiveUp, TypeOK, Writing, tables, ghosts
  <2>2. /\ Len(batch) \in Nat /\ Len(batch) # 0 /\ Len(locs) \in Nat /\ accepted \in Nat
        /\ Len(<< >>) = 0
    BY <2>1, LenProperties, EmptySeq DEF TypeOK
  <2>3. First' > First
    BY <2>1, <2>2 DEF First
  <2>4. faults <= faults'
    BY <1>3, <2>1 DEF faults
  <2> QED
    BY <1>6, <2>1, <2>3, <2>4
<1>12. CASE Crash
  <2>1. /\ batch' = << >> /\ locs' = << >> /\ UNCHANGED <<history, accepted, losses>>
        /\ crashes' = crashes + 1
    BY <1>12 DEF Crash, tables
  <2>2. /\ Len(batch) \in Nat /\ Len(locs) \in Nat /\ accepted \in Nat /\ Len(<< >>) = 0
    BY LenProperties DEF TypeOK
  <2>3. First' = First \/ First' > First
    BY <2>1, <2>2 DEF First
  <2>a. faults < faults' /\ faults <= faults'
    <3>1. losses \in Nat /\ crashes \in Nat
      BY DEF TypeOK
    <3> QED
      BY <2>1, <3>1 DEF faults
  <2>4. CASE First' = First
    <3>1. Lost' = Lost
      BY <1>1, <1>2, <2>1, <2>4 DEF LostKnown
    <3> QED
      BY <1>5, <2>a, <3>1
  <2>5. CASE First' > First
    BY <1>6, <2>1, <2>5, <2>a
  <2> QED
    BY <2>3, <2>4, <2>5
<1> QED
  BY <1>7, <1>8, <1>9, <1>10, <1>11, <1>12 DEF Next, Sync2db

(* Giving up the rest of a batch at its first exception, and every batch   *)
(* after it, costs the reports of one stretch of time: there are no more   *)
(* gaps in what was stored than there were faults.                         *)
THEOREM LostInRunsCorrect == Spec => []LostInRuns
<1>1. Init => RunsOK
  <2> SUFFICES ASSUME Init PROVE RunsOK
    OBVIOUS
  <2>1. /\ Len(<< >>) = 0 /\ DOMAIN << >> = {}
        /\ locs = << >> /\ batch = << >> /\ history = << >> /\ accepted = 0
        /\ pc = "down" /\ losses = 0 /\ crashes = 0
    BY DEF Init
  <2>2. First = 1 /\ Lost = {} /\ RunsOf(Lost) = {}
    BY <2>1 DEF First, Lost, RunsOf
  <2> QED
    BY <2>1, <2>2, FS_EmptySet DEF RunsOK, Pending
<1>2. TypeOK /\ RunsOK /\ [Next]_vars => RunsOK'
  BY RunsKept
<1>3. RunsOK => LostInRuns
  BY DEF RunsOK, LostInRuns, RunsOf
<1> QED
  BY <1>1, <1>2, <1>3, TypeCorrect, PTL DEF Spec

(* Reports are dropped by lost connections and restarts only, and by each  *)
(* in one stretch.                                                         *)
THEOREM DroppedCorrect == Spec => []DroppedByFaults
<1>1. NothingDropped /\ LostInRuns => DroppedByFaults
  BY DEF DroppedByFaults
<1> QED
  BY <1>1, NothingDroppedCorrect, LostInRunsCorrect, PTL
=============================================================================
