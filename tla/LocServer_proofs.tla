--------------------------- MODULE LocServer_proofs ---------------------------
(***************************************************************************)
(* Safety of LocServer for any devices, reports, grids, losses and         *)
(* restarts: what whereis() tells is found by a spatial query, covers what *)
(* is buffered and stored, and is what LastLocation promises.  The buffer  *)
(* is an instance of DBSyncer, whose theorems hold here.                   *)
(***************************************************************************)
EXTENDS LocServer, SequenceTheorems, TLAPS

DBP == INSTANCE DBSyncer_proofs WITH Loc <- Report

MaybeReport == Report \union {None}
MapCells    == [Device -> MaybeReport]

Elems(s) == {s[i] : i \in DOMAIN s}
Buffered == Elems(batch) \union Elems(locs)
Logged   == Elems(history)
Entries  == Logged \union Buffered \union snapshot

(* Nobody can ask: the process does not run, or reads the snapshots back.  *)
Down == pc \in {"down", "loading"}

(* whereis() tells of the device of an entry what is as new as the entry.  *)
Told(e) == pool[e.loc.dev] # None /\ e.loc.n <= pool[e.loc.dev].n

(* A query that looks where report r belongs finds what is as new as r.    *)
At(r) == LET there == Map!InCell(grid[r.pos], r.dev)
         IN  there # None /\ r.n <= there.n
-----------------------------------------------------------------------------
(* A decoder that is in LocServer::update has a report.                    *)
HandsOK ==
    /\ lpc \in [Updater -> {"idle", "map", "pool", "sync"}]
    /\ lloc \in [Updater -> MaybeReport]
    /\ \A u \in Updater : lpc[u] # "idle" => lloc[u] \in Report

(* The rest speaks of one decoder, as there is before a reconnect.         *)
ServerOK ==
    /\ pool \in MapCells /\ \A d \in Device : pool[d] # None => pool[d].dev = d
    /\ restored \subseteq Device
    /\ sent \in Nat

MapOK ==
    /\ grid \in [Pos -> Cell] /\ objs \in Seq(MapCells)
    /\ cells \in [Cell -> Map!Null .. Len(objs)]
    /\ upc \in [Updater -> {"idle", "find", "link", "assign", "cell"}]
    /\ uloc \in [Updater -> MaybeReport]
    /\ uobj \in [Updater -> Nat]
    /\ ~crashed

(* Where the decoder is, in LocServer::update and in the map's.            *)
ThreadsOK ==
    \A u \in Updater :
        /\ upc[u] # "idle" <=> lpc[u] = "map"
        /\ lpc[u] = "map" => uloc[u] = lloc[u]
        /\ lpc[u] # "idle" => lloc[u].n = sent
        /\ Down => lpc[u] = "idle"

(* An entry without a MapCell is the one the decoder is making, and the    *)
(* MapCell it is about to store in is the one of its cell.                 *)
CellsOK ==
    /\ \A c \in Cell : cells[c] = Map!Null =>
          \E u \in Updater : upc[u] = "assign" /\ grid[uloc[u].pos] = c
    /\ \A u \in Updater :
          /\ upc[u] \in {"link", "assign", "cell"} => uobj[u] \in 1 .. Len(objs)
          /\ upc[u] = "link" => cells[grid[uloc[u].pos]] = Map!Absent
          /\ upc[u] = "assign" => cells[grid[uloc[u].pos]] = Map!Null
          /\ upc[u] = "cell" => cells[grid[uloc[u].pos]] = uobj[u]

(* The report under way is newer than all there is.                        *)
AgesOK ==
    /\ \A d \in Device : pool[d] # None => pool[d].n <= sent
    /\ \A o \in 1 .. Len(objs), d \in Device : objs[o][d] # None => objs[o][d].n <= sent
    /\ \A e \in Entries : e.loc.n <= sent
    /\ \A u \in Updater :
          /\ lpc[u] \in {"map", "pool"} =>
                \A d \in Device : pool[d] # None => pool[d].n < sent
          /\ lpc[u] = "map" =>
                \A o \in 1 .. Len(objs), d \in Device :
                    objs[o][d] # None => objs[o][d].n < sent
          /\ lpc[u] # "idle" => \A e \in Entries : e.loc.n < sent

(* The buffer numbers the reports in the order in which they were taken.   *)
Paired ==
    \A e, f \in Entries :
        (e.no <= f.no <=> e.loc.n <= f.loc.n) /\ (e.no = f.no => e = f)

(* The documents read back are in the pool, the others still to be read.   *)
Reading ==
    /\ Down => grid = DefaultGrid /\ locs = << >> /\ ~partial
    /\ Down => /\ \A d \in restored : \E doc \in snapshot \ toload :
                     doc.loc.dev = d /\ pool[d] = doc.loc
               /\ \A d \in Device \ restored : pool[d] = None
    /\ pc = "down" => restored = {}
    /\ pc = "loading" => \A doc \in snapshot : doc.loc.dev \in restored \/ doc \in toload
    /\ IF pc = "loading" THEN toload \subseteq snapshot ELSE toload = {}

(* PoolInMap for one decoder, and the report about to enter the pool.      *)
Located ==
    /\ ~Down => grid = Configured
    /\ \A d \in Device : pool[d] # None =>
          \/ At(pool[d])
          \/ ~Down /\ d \in restored /\ DefaultGrid[pool[d].pos] # Configured[pool[d].pos]
    /\ \A u \in Updater : lpc[u] = "pool" => At(lloc[u])

(* PoolCoversTables for one decoder, and the report about to be buffered.  *)
Covered ==
    /\ \A e \in Buffered : Told(e)
    /\ ~Down /\ ~partial => \A e \in Logged \union snapshot : Told(e)
    /\ \A u \in Updater : lpc[u] = "sync" => pool[lloc[u].dev] = lloc[u]

(* Without a fault, what the pool holds is stored, or on its way there.    *)
Steady == losses = 0 /\ crashes = 0

Stocked ==
    Steady =>
        /\ ~partial
        /\ pc # "down" => conn = "ok"
        /\ dbsync /\ ~Down =>
              \A d \in Device : pool[d] # None =>
                  \/ \E e \in Buffered \union snapshot : e.loc = pool[d]
                  \/ \E u \in Updater : lpc[u] = "sync" /\ lloc[u] = pool[d]

OneOK ==
    /\ ServerOK /\ MapOK /\ ThreadsOK /\ CellsOK /\ AgesOK
    /\ Paired /\ Reading /\ Located /\ Covered /\ Stocked

IInv == HandsOK /\ (OneDecoder => OneOK)
-----------------------------------------------------------------------------
LEMMA Reports ==
    /\ None \notin Report
    /\ \A r \in Report : r.dev \in Device /\ r.pos \in Pos /\ r.n \in Nat
    /\ \A e \in DBP!Entry : e.loc \in Report /\ e.no \in Nat
BY ReportAssumption DEF DBP!Entry

LEMMA BufferAssumptions ==
    /\ \A l \in Report : l.dev \in Device
    /\ Unacknowledged \in BOOLEAN
    /\ MaxReports \in Nat /\ MaxLosses \in Nat /\ MaxCrashes \in Nat
BY ReportAssumption, UnacknowledgedAssumption, BoundsAssumption

LEMMA InitHands == Init => HandsOK
BY DEF Init, HandsOK, MaybeReport

LEMMA NextHands == HandsOK /\ [Next]_vars => HandsOK'
<1> SUFFICES ASSUME HandsOK, [Next]_vars PROVE HandsOK'
  OBVIOUS
<1> USE DEF HandsOK
<1>1. CASE Starting
  BY <1>1 DEF Starting, Open, Restore, Start
<1>2. ASSUME NEW u \in Updater, NEW loc \in Report, Take(u, loc) PROVE HandsOK'
  BY <1>2 DEF Take, MaybeReport
<1>3. ASSUME NEW u \in Updater, MapUpdate(u) \/ PoolUpdate(u) \/ SyncUpdate(u) PROVE HandsOK'
  <2>1. /\ lpc[u] # "idle" /\ UNCHANGED lloc
        /\ \E p \in {"idle", "map", "pool", "sync"} : lpc' = [lpc EXCEPT ![u] = p]
    BY <1>3 DEF MapUpdate, PoolUpdate, SyncUpdate
  <2> QED
    BY <2>1
<1>4. CASE Check \/ Sync2db \/ ConnLost \/ UNCHANGED vars
  BY <1>4 DEF Check, Sync2db, ConnLost, vars
<1>5. CASE Crash
  BY <1>5 DEF Crash, MaybeReport
<1> QED
  BY <1>1, <1>2, <1>3, <1>4, <1>5 DEF Next, Decoder

(* What the calls of LocServer mean for the buffer.                        *)
LEMMA SyncIsSync == DB!Sync2db => DBP!Sync2db
<1>1. DB!FindOne => DBP!FindOne
  BY DEF DB!FindOne, DB!Docs, DB!Current, DB!tables, DB!ghosts, DBP!FindOne, DBP!Docs,
         DBP!Current, DBP!tables, DBP!ghosts
<1>2. DB!WriteSnapshot => DBP!WriteSnapshot
  BY DEF DB!WriteSnapshot, DB!Stored, DB!Vanished, DB!ReplaceDoc, DB!InsertDoc, DB!Docs,
         DB!Current, DB!memory, DB!ghosts, DBP!WriteSnapshot, DBP!Stored, DBP!Vanished,
         DBP!ReplaceDoc, DBP!InsertDoc, DBP!Docs, DBP!Current, DBP!memory, DBP!ghosts
<1>3. DB!WriteLog => DBP!WriteLog
  BY DEF DB!WriteLog, DB!Stored, DB!Vanished, DB!AddToLog, DB!Count, DB!Current, DB!ghosts,
         DBP!WriteLog, DBP!Stored, DBP!Vanished, DBP!AddToLog, DBP!Count, DBP!Current,
         DBP!ghosts
<1>4. DB!Throw => DBP!Throw
  BY DEF DB!Throw, DB!Writing, DB!GiveUp, DB!tables, DB!ghosts, DBP!Throw, DBP!Writing,
         DBP!GiveUp, DBP!tables, DBP!ghosts
<1> QED
  BY <1>1, <1>2, <1>3, <1>4 DEF DB!Sync2db, DBP!Sync2db

LEMMA BufferSteps == HandsOK /\ [Next]_vars => [DBP!Next]_(DBP!vars)
<1> SUFFICES ASSUME HandsOK, [Next]_vars PROVE [DBP!Next]_(DBP!vars)
  OBVIOUS
<1>1. CASE Open
  <2>1. DB!Open
    BY <1>1 DEF Open
  <2> QED
    BY <2>1 DEF DB!Open, DB!tables, DB!ghosts, DBP!Open, DBP!tables, DBP!ghosts, DBP!Opening,
                DBP!Next
<1>2. ASSUME NEW doc \in toload, Restore(doc) PROVE DBP!Next
  <2>1. DB!Load(doc)
    BY <1>2 DEF Restore
  <2> QED
    BY <2>1 DEF DB!Load, DB!tables, DB!ghosts, DBP!Load, DBP!tables, DBP!ghosts, DBP!Opening,
                DBP!Next
<1>3. CASE Start
  <2>1. DB!LoadDone \/ DB!LoadFail
    BY <1>3 DEF Start
  <2> QED
    BY <2>1 DEF DB!LoadDone, DB!LoadFail, DB!memory, DB!tables, DB!ghosts, DBP!LoadDone,
                DBP!LoadFail, DBP!memory, DBP!tables, DBP!ghosts, DBP!Opening, DBP!Next
<1>4. CASE Check
  BY <1>4 DEF Check, DB!Check, DB!Swap, DB!tables, DB!ghosts, DBP!Check, DBP!Swap, DBP!tables,
              DBP!ghosts, DBP!Next
<1>5. CASE Sync2db
  BY <1>5, SyncIsSync DEF Sync2db, DBP!Next
<1>6. CASE ConnLost
  BY <1>6 DEF ConnLost, DB!ConnLost, DB!memory, DB!tables, DBP!ConnLost, DBP!memory,
              DBP!tables, DBP!Next
<1>7. CASE Crash
  BY <1>7 DEF Crash, DB!Crash, DB!tables, DBP!Crash, DBP!tables, DBP!Next
<1>8. ASSUME NEW u \in Updater, SyncUpdate(u) PROVE DBP!Next
  <2>1. DB!Update(lloc[u]) /\ lloc[u] \in Report
    BY <1>8 DEF SyncUpdate, HandsOK
  <2> QED
    BY <2>1 DEF DB!Update, DB!tables, DBP!Update, DBP!tables, DBP!Next
<1>9. ASSUME UNCHANGED dbvars PROVE UNCHANGED DBP!vars
  BY <1>9 DEF dbvars, DBP!vars, DBP!memory, DBP!tables, DBP!ghosts
<1>10. ASSUME NEW u \in Updater, MapUpdate(u) \/ PoolUpdate(u) \/ \E loc \in Report : Take(u, loc)
       PROVE  UNCHANGED dbvars
  BY <1>10 DEF MapUpdate, PoolUpdate, Take
<1>11. CASE UNCHANGED vars
  BY <1>9, <1>11 DEF vars
<1> QED
  BY <1>1, <1>2, <1>3, <1>4, <1>5, <1>6, <1>7, <1>8, <1>9, <1>10, <1>11
     DEF Next, Starting, Decoder

(* Every step of the server is one of the buffer's, or leaves it alone: the*)
(* theorems about DBSyncer hold of the buffer where it is used.            *)
THEOREM BufferCorrect == Spec => DBP!Spec
<1>1. Init => DBP!Init
  BY DEF Init, DB!Init, DBP!Init
<1> QED
  BY <1>1, InitHands, NextHands, BufferSteps, PTL DEF Spec, DBP!Spec

LEMMA BufferInvariant == Spec => []DBP!IInv
BY BufferCorrect, DBP!InductiveInvariant, ReportAssumption, BufferAssumptions, PTL
-----------------------------------------------------------------------------
(* What the steps of the buffer do to the reports in it and in the tables. *)

LEMMA ElemsAppend ==
    ASSUME NEW s \in Seq(DBP!Entry), NEW e \in DBP!Entry
    PROVE  Elems(Append(s, e)) = Elems(s) \union {e}
<1>1. /\ Append(s, e) \in Seq(DBP!Entry) /\ Len(Append(s, e)) = Len(s) + 1
      /\ \A i \in 1 .. Len(s) : Append(s, e)[i] = s[i]
      /\ Append(s, e)[Len(s) + 1] = e
  BY AppendProperties
<1>2. DOMAIN Append(s, e) = 1 .. Len(s) + 1 /\ DOMAIN s = 1 .. Len(s) /\ Len(s) \in Nat
  BY <1>1, LenProperties
<1>3. ASSUME NEW i \in DOMAIN Append(s, e) PROVE Append(s, e)[i] \in Elems(s) \union {e}
  <2>1. CASE i \in DOMAIN s
    BY <1>1, <1>2, <2>1 DEF Elems
  <2>2. CASE i \notin DOMAIN s
    <3>1. i = Len(s) + 1
      BY <1>2, <1>3, <2>2
    <3> QED
      BY <1>1, <3>1
  <2> QED
    BY <2>1, <2>2
<1>4. ASSUME NEW i \in DOMAIN s PROVE s[i] \in Elems(Append(s, e))
  <2>1. i \in DOMAIN Append(s, e) /\ Append(s, e)[i] = s[i]
    BY <1>1, <1>2, <1>4
  <2> QED
    BY <2>1 DEF Elems
<1>5. e \in Elems(Append(s, e))
  <2>1. Len(s) + 1 \in DOMAIN Append(s, e)
    BY <1>2
  <2> QED
    BY <1>1, <2>1 DEF Elems
<1>6. \A x : x \in Elems(s) <=> \E i \in DOMAIN s : x = s[i]
  BY DEF Elems
<1>7. \A x \in Elems(Append(s, e)) : x \in Elems(s) \union {e}
  BY <1>3 DEF Elems
<1> QED
  BY <1>4, <1>5, <1>6, <1>7

LEMMA ElemsTail ==
    ASSUME NEW s \in Seq(DBP!Entry), s # << >>
    PROVE  /\ Head(s) \in DBP!Entry /\ Head(s) \in Elems(s)
           /\ Elems(s) = Elems(Tail(s)) \union {Head(s)}
<1>1. /\ Head(s) \in DBP!Entry /\ Tail(s) \in Seq(DBP!Entry) /\ Len(Tail(s)) = Len(s) - 1
      /\ \A i \in 1 .. Len(Tail(s)) : Tail(s)[i] = s[i + 1]
  BY HeadTailProperties
<1>2. /\ DOMAIN Tail(s) = 1 .. Len(s) - 1 /\ DOMAIN s = 1 .. Len(s)
      /\ Len(s) \in Nat \ {0} /\ Head(s) = s[1]
  BY <1>1, LenProperties, EmptySeq
<1>3. Head(s) \in Elems(s)
  <2>1. 1 \in DOMAIN s
    BY <1>2
  <2> QED
    BY <1>2, <2>1 DEF Elems
<1>4. ASSUME NEW i \in DOMAIN Tail(s) PROVE Tail(s)[i] \in Elems(s)
  <2>1. i + 1 \in DOMAIN s /\ Tail(s)[i] = s[i + 1]
    BY <1>1, <1>2, <1>4
  <2> QED
    BY <2>1 DEF Elems
<1>5. ASSUME NEW i \in DOMAIN s PROVE s[i] \in Elems(Tail(s)) \union {Head(s)}
  <2>1. CASE i = 1
    BY <1>2, <2>1
  <2>2. CASE i # 1
    <3>1. i - 1 \in DOMAIN Tail(s) /\ Tail(s)[i - 1] = s[(i - 1) + 1] /\ (i - 1) + 1 = i
      BY <1>1, <1>2, <1>5, <2>2
    <3> QED
      BY <3>1 DEF Elems
  <2> QED
    BY <2>1, <2>2
<1>6. \A x \in Elems(Tail(s)) : x \in Elems(s)
  BY <1>4 DEF Elems
<1>7. \A x \in Elems(s) : x \in Elems(Tail(s)) \union {Head(s)}
  BY <1>5 DEF Elems
<1> QED
  BY <1>1, <1>3, <1>6, <1>7

LEMMA ElemsEmpty == Elems(<< >>) = {}
BY DEF Elems

LEMMA EntriesTyped ==
    ASSUME DBP!IInv
    PROVE  /\ \A e \in Entries : e \in DBP!Entry /\ e.loc \in Report /\ e.no \in Nat
                                 /\ e.loc.dev \in Device /\ e.loc.n \in Nat
           /\ \A e, f \in snapshot : e.loc.dev = f.loc.dev => e = f
           /\ \A i \in DOMAIN history : history[i] \in Logged
           /\ \A e \in Entries : e.no <= accepted
           /\ accepted \in Nat
<1>1. /\ locs \in Seq(DBP!Entry) /\ batch \in Seq(DBP!Entry) /\ history \in Seq(DBP!Entry)
      /\ snapshot \subseteq DBP!Entry /\ accepted \in Nat
  BY DEF DBP!IInv, DBP!TypeOK
<1>2. \A e \in Entries : e \in DBP!Entry
  <2>1. ASSUME NEW s \in Seq(DBP!Entry) PROVE \A e \in Elems(s) : e \in DBP!Entry
    BY ElementOfSeq, LenProperties DEF Elems
  <2>2. /\ \A e \in Elems(locs) : e \in DBP!Entry
        /\ \A e \in Elems(batch) : e \in DBP!Entry
        /\ \A e \in Elems(history) : e \in DBP!Entry
    BY <1>1, <2>1
  <2> QED
    BY <1>1, <2>2 DEF Entries, Logged, Buffered
<1>3. \A e \in Entries : e.loc \in Report /\ e.no \in Nat /\ e.loc.dev \in Device /\ e.loc.n \in Nat
  BY <1>2, Reports
<1>4. \A e, f \in snapshot : e.loc.dev = f.loc.dev => e = f
  <2>1. \A e \in snapshot : e.loc.dev \in Device
    BY <1>3 DEF Entries
  <2> QED
    BY <2>1 DEF DBP!IInv, DBP!Snapped, DBP!OneSnapshot, DBP!Docs
<1>5. \A i \in DOMAIN history : history[i] \in Logged
  BY DEF Logged, Elems
<1>6. \A e \in Entries : e.no <= accepted
  <2>1. /\ \A i \in DOMAIN history : history[i].no <= accepted
        /\ \A i \in DOMAIN batch : batch[i].no <= accepted
        /\ \A i \in DOMAIN locs : locs[i].no <= accepted
        /\ \A doc \in snapshot : doc.no <= accepted
    BY DEF DBP!IInv, DBP!Order, DBP!Numbered, DBP!Snapped, DBP!SnapshotOlder
  <2>2. /\ \A e \in Elems(history) : e.no <= accepted
        /\ \A e \in Elems(batch) : e.no <= accepted
        /\ \A e \in Elems(locs) : e.no <= accepted
    BY <2>1 DEF Elems
  <2> QED
    BY <2>1, <2>2 DEF Entries, Logged, Buffered
<1> QED
  BY <1>1, <1>2, <1>3, <1>4, <1>5, <1>6

(* sync2db takes the first report of the batch to the snapshot table, in   *)
(* place of an older one of its device, and then to the log.               *)
Written(e) ==
    /\ snapshot' = {doc \in snapshot : doc.loc.dev # e.loc.dev} \union {e}
    /\ \A doc \in snapshot : doc.no < e.no

LEMMA Writes ==
    ASSUME DBP!IInv, DBP!Sync2db
    PROVE  /\ ~Down /\ ~Down' /\ UNCHANGED <<toload, losses, crashes, accepted>>
           /\ \A e \in Buffered' : e \in Buffered
           /\ \A e \in Logged' : e \in Logged \/ e \in Buffered
           /\ snapshot' = snapshot \/ \E e \in Buffered : Written(e)
           /\ conn = "ok" =>
                 /\ conn' = "ok"
                 /\ \A e \in Buffered : e \notin Buffered' =>
                       \E doc \in snapshot' : doc.loc.dev = e.loc.dev /\ e.no <= doc.no
<1> USE DEF Down, Buffered, Logged
<1>1. /\ locs \in Seq(DBP!Entry) /\ batch \in Seq(DBP!Entry) /\ history \in Seq(DBP!Entry)
      /\ pc \in DBP!Writing => batch # << >>
  BY DEF DBP!IInv, DBP!TypeOK
<1>2. CASE DBP!FindOne
  BY <1>2 DEF DBP!FindOne, DBP!tables, DBP!ghosts
<1>3. CASE DBP!WriteSnapshot
  <2>1. /\ UNCHANGED <<locs, batch, history, toload, losses, crashes, accepted, conn>>
        /\ pc = "snapshot" /\ pc' = "log"
    BY <1>3 DEF DBP!WriteSnapshot, DBP!memory, DBP!ghosts
  <2>2. snapshot' = snapshot \/ \E e \in Buffered : Written(e)
    <3>1. /\ batch # << >> /\ DBP!Current \in Elems(batch)
      BY <1>1, <2>1, ElemsTail DEF DBP!Writing, DBP!Current
    <3>2. snapshot' = snapshot \/ Written(DBP!Current)
      BY <1>3, DBP!SnapshotWritten, BufferAssumptions DEF DBP!IInv, Written
    <3> QED
      BY <3>1, <3>2
  <2> QED
    BY <2>1, <2>2
<1>4. CASE DBP!WriteLog
  <2>1. /\ UNCHANGED <<locs, snapshot, toload, losses, crashes, accepted, conn>>
        /\ pc = "log" /\ pc' \in {"idle", "find"}
        /\ batch' = Tail(batch) /\ (history' = Append(history, Head(batch)) \/ history' = history)
    BY <1>4 DEF DBP!WriteLog, DBP!AddToLog, DBP!Current, DBP!ghosts
  <2>2. /\ Head(batch) \in DBP!Entry /\ Head(batch) \in Elems(batch)
        /\ Elems(batch) = Elems(batch') \union {Head(batch)}
    BY <1>1, <2>1, ElemsTail DEF DBP!Writing
  <2>3. \A e \in Elems(history') : e \in Elems(history) \/ e = Head(batch)
    <3>1. Elems(Append(history, Head(batch))) = Elems(history) \union {Head(batch)}
      BY <1>1, <2>2, ElemsAppend
    <3> QED
      BY <2>1, <3>1
  <2>4. conn = "ok" => \E doc \in snapshot : doc.loc.dev = Head(batch).loc.dev
                                             /\ Head(batch).no <= doc.no
    <3>1. conn = "ok" => \E doc \in snapshot : doc.loc.dev = Head(batch).loc.dev
                                               /\ doc.no >= Head(batch).no
      BY <2>1 DEF DBP!IInv, DBP!Snapped, DBP!SnapshotFirst, DBP!Docs, DBP!Current
    <3>2. Head(batch).no \in Nat /\ \A doc \in snapshot : doc.no \in Nat
      BY <2>2, EntriesTyped, Reports DEF Entries
    <3> QED
      BY <3>1, <3>2
  <2> QED
    BY <2>1, <2>2, <2>3, <2>4
<1>5. CASE DBP!Throw
  <2>1. /\ UNCHANGED <<locs, toload, snapshot, history, losses, crashes, accepted>>
        /\ batch' = << >> /\ conn # "ok" /\ pc \in {"find", "snapshot", "log"} /\ pc' = "idle"
    BY <1>5 DEF DBP!Throw, DBP!GiveUp, DBP!tables, DBP!ghosts, DBP!Writing
  <2> QED
    BY <2>1, ElemsEmpty
<1> QED
  BY <1>2, <1>3, <1>4, <1>5 DEF DBP!Sync2db
-----------------------------------------------------------------------------
(* The map, as one decoder changes it.                                     *)

LEMMA NobodyType == Nobody \in MapCells /\ \A d \in Device : Nobody[d] = None
BY DEF Nobody, MapCells, MaybeReport

(* Making a MapCell, and putting a report in one.                         *)
LEMMA CellAdded ==
    ASSUME NEW s \in Seq(MapCells), NEW cell \in MapCells
    PROVE  /\ Append(s, cell) \in Seq(MapCells) /\ Len(s) \in Nat
           /\ Len(Append(s, cell)) = Len(s) + 1
           /\ Append(s, cell)[Len(s) + 1] = cell
           /\ \A o \in 1 .. Len(s) : Append(s, cell)[o] = s[o] /\ s[o] \in MapCells
BY AppendProperties, LenProperties, ElementOfSeq

Put(s, o, r) == [s EXCEPT ![o][r.dev] = r]

LEMMA CellStored ==
    ASSUME NEW s \in Seq(MapCells), NEW o \in 1 .. Len(s), NEW r \in Report
    PROVE  /\ Put(s, o, r) \in Seq(MapCells) /\ Len(Put(s, o, r)) = Len(s) /\ Len(s) \in Nat
           /\ \A p \in 1 .. Len(s), d \in Device :
                 Put(s, o, r)[p][d] = IF p = o /\ d = r.dev THEN r ELSE s[p][d]
<1>1. /\ Len(s) \in Nat /\ DOMAIN s = 1 .. Len(s) /\ r.dev \in Device
      /\ \A p \in 1 .. Len(s) : s[p] \in MapCells
  BY LenProperties, ElementOfSeq, Reports
<1> DEFINE cell == [s[o] EXCEPT ![r.dev] = r]
           t    == [s EXCEPT ![o] = cell]
<1>2. cell \in MapCells
  BY <1>1 DEF MapCells, MaybeReport
<1>3. \A d \in Device : cell[d] = IF d = r.dev THEN r ELSE s[o][d]
  BY <1>1 DEF MapCells
<1> HIDE DEF cell
<1>4. /\ t \in Seq(MapCells) /\ Len(t) = Len(s)
      /\ \A p \in 1 .. Len(s) : t[p] = IF p = o THEN cell ELSE s[p]
  BY <1>1, <1>2, ExceptSeq
<1>5. t = Put(s, o, r)
  BY DEF cell, Put
<1> HIDE DEF t
<1>6. \A p \in 1 .. Len(s), d \in Device :
         t[p][d] = IF p = o /\ d = r.dev THEN r ELSE s[p][d]
  BY <1>3, <1>4
<1> QED
  BY <1>1, <1>4, <1>5, <1>6

(* What is in the cells is reports; an index is of a MapCell or of none.   *)
LEMMA CellsTyped ==
    ASSUME MapOK
    PROVE  /\ Len(objs) \in Nat /\ Map!Absent = 0 /\ Map!Null = -1
           /\ \A c \in Cell : cells[c] \in 1 .. Len(objs)
                              \/ cells[c] = Map!Absent \/ cells[c] = Map!Null
           /\ \A o \in 1 .. Len(objs), d \in Device : objs[o][d] \in MaybeReport
           /\ \A c \in Cell, d \in Device : Map!InCell(c, d) \in MaybeReport
           /\ \A c \in Cell, d \in Device :
                 Map!InCell(c, d) = IF cells[c] \in 1 .. Len(objs) THEN objs[cells[c]][d]
                                    ELSE None
<1>1. Len(objs) \in Nat /\ Map!Absent = 0 /\ Map!Null = -1
  BY LenProperties DEF MapOK, Map!Absent, Map!Null
<1>2. \A c \in Cell : cells[c] \in 1 .. Len(objs)
                      \/ cells[c] = Map!Absent \/ cells[c] = Map!Null
  BY <1>1 DEF MapOK
<1>3. \A o \in 1 .. Len(objs), d \in Device : objs[o][d] \in MaybeReport
  <2>1. \A o \in 1 .. Len(objs) : objs[o] \in MapCells
    BY ElementOfSeq DEF MapOK
  <2> QED
    BY <2>1 DEF MapCells
<1>4. \A c \in Cell, d \in Device :
         Map!InCell(c, d) = IF cells[c] \in 1 .. Len(objs) THEN objs[cells[c]][d] ELSE None
  BY <1>1, <1>2 DEF Map!InCell
<1>5. \A c \in Cell, d \in Device : Map!InCell(c, d) \in MaybeReport
  BY <1>3, <1>4 DEF MaybeReport
<1> QED
  BY <1>1, <1>2, <1>3, <1>4, <1>5

(* The ends a step of update() in the map may have for the only decoder.   *)
HomeCell(u) == grid[uloc[u].pos]

Makes(u) ==
    /\ upc[u] = "find" /\ cells[HomeCell(u)] = Map!Absent
    /\ objs' = Append(objs, Nobody)
    /\ uobj' = [uobj EXCEPT ![u] = Len(objs) + 1]
    /\ upc' = [upc EXCEPT ![u] = "link"]
    /\ UNCHANGED <<cells, uloc, lpc>>

Meets(u) ==
    /\ upc[u] = "find" /\ cells[HomeCell(u)] \in 1 .. Len(objs)
    /\ uobj' = [uobj EXCEPT ![u] = cells[HomeCell(u)]]
    /\ upc' = [upc EXCEPT ![u] = "cell"]
    /\ UNCHANGED <<cells, objs, uloc, lpc>>

Links(u) ==
    /\ upc[u] = "link"
    /\ cells' = [cells EXCEPT ![HomeCell(u)] = Map!Null]
    /\ upc' = [upc EXCEPT ![u] = "assign"]
    /\ UNCHANGED <<objs, uloc, uobj, lpc>>

Assigns(u) ==
    /\ upc[u] = "assign"
    /\ cells' = [cells EXCEPT ![HomeCell(u)] = uobj[u]]
    /\ upc' = [upc EXCEPT ![u] = "cell"]
    /\ UNCHANGED <<objs, uloc, uobj, lpc>>

Stores(u) ==
    /\ upc[u] = "cell"
    /\ objs' = [objs EXCEPT ![uobj[u]][uloc[u].dev] = uloc[u]]
    /\ upc' = [upc EXCEPT ![u] = "idle"]
    /\ uloc' = [uloc EXCEPT ![u] = None]
    /\ uobj' = [uobj EXCEPT ![u] = Map!Absent]
    /\ lpc' = [lpc EXCEPT ![u] = "pool"]
    /\ UNCHANGED cells

LEMMA MapEnds ==
    ASSUME OneDecoder, HandsOK, MapOK, ThreadsOK, CellsOK, NEW u \in Updater, MapUpdate(u)
    PROVE  /\ lpc[u] = "map" /\ lloc[u] = uloc[u] /\ uloc[u] \in Report
           /\ HomeCell(u) \in Cell
           /\ UNCHANGED <<dbvars, pool, lloc, restored, starts, grid, sent, crashed>>
           /\ Makes(u) \/ Meets(u) \/ Links(u) \/ Assigns(u) \/ Stores(u)
<1>1. /\ lpc[u] = "map" /\ lloc[u] = uloc[u] /\ uloc[u] \in Report /\ HomeCell(u) \in Cell
      /\ HomeCell(u) = Map!CellId(u) /\ upc[u] # "idle"
  <2>1. lpc[u] = "map" /\ lloc[u] = uloc[u] /\ uloc[u] \in Report /\ upc[u] # "idle"
    BY DEF MapUpdate, HandsOK, ThreadsOK
  <2> QED
    BY <2>1, Reports DEF HomeCell, Map!CellId, MapOK
<1>2. \A v \in Updater : v = u
  BY DEF OneDecoder
<1>3. ~Map!Rebuilding(u)
  BY <1>2 DEF Map!Rebuilding
<1>4. UNCHANGED <<dbvars, pool, lloc, restored, starts>>
  BY DEF MapUpdate
<1>5. /\ Map!UpdateStep(u) /\ lpc \in [Updater -> {"idle", "map", "pool", "sync"}]
      /\ lpc' = [lpc EXCEPT ![u] = IF upc'[u] = "idle" THEN "pool" ELSE "map"]
      /\ upc \in [Updater -> {"idle", "find", "link", "assign", "cell"}]
  BY DEF MapUpdate, HandsOK, MapOK
<1>6. upc'[u] # "idle" => lpc' = lpc
  BY <1>1, <1>5
<1>7. CASE Map!Find(u)
  <2>1. /\ upc[u] = "find" /\ UNCHANGED <<grid, cells, sent, crashed>>
        /\ \E seen \in Map!Seen(u, Map!CellId(u)) :
              \/ /\ seen = Map!Absent
                 /\ objs' = Map!NewCell
                 /\ uobj' = [uobj EXCEPT ![u] = Len(objs) + 1]
                 /\ upc' = [upc EXCEPT ![u] = "link"]
                 /\ UNCHANGED uloc
              \/ seen = Map!Null
              \/ /\ seen \notin {Map!Absent, Map!Null}
                 /\ uobj' = [uobj EXCEPT ![u] = seen]
                 /\ upc' = [upc EXCEPT ![u] = "cell"]
                 /\ UNCHANGED <<objs, uloc>>
    BY <1>7 DEF Map!Find
  <2>2. Map!Seen(u, Map!CellId(u)) = {cells[HomeCell(u)]}
    BY <1>1, <1>3 DEF Map!Seen
  <2>3. cells[HomeCell(u)] # Map!Null
    BY <1>1, <1>2, <2>1 DEF CellsOK
  <2>4. cells[HomeCell(u)] \in 1 .. Len(objs) \/ cells[HomeCell(u)] = Map!Absent
    BY <1>1, <2>3, CellsTyped
  <2>5. Map!NewCell = Append(objs, Nobody)
    BY DEF Map!NewCell, Map!Nobody, Nobody
  <2>6. CASE cells[HomeCell(u)] = Map!Absent
    <3>1. /\ objs' = Append(objs, Nobody) /\ uobj' = [uobj EXCEPT ![u] = Len(objs) + 1]
          /\ upc' = [upc EXCEPT ![u] = "link"] /\ UNCHANGED uloc
      BY <2>1, <2>2, <2>3, <2>5, <2>6
    <3>2. lpc' = lpc
      BY <1>5, <1>6, <3>1
    <3> QED
      BY <1>1, <1>4, <2>1, <2>6, <3>1, <3>2 DEF Makes
  <2>7. CASE cells[HomeCell(u)] \in 1 .. Len(objs)
    <3>1. cells[HomeCell(u)] \notin {Map!Absent, Map!Null}
      BY <2>7, CellsTyped
    <3>2. /\ uobj' = [uobj EXCEPT ![u] = cells[HomeCell(u)]]
          /\ upc' = [upc EXCEPT ![u] = "cell"] /\ UNCHANGED <<objs, uloc>>
      BY <2>1, <2>2, <3>1
    <3>3. lpc' = lpc
      BY <1>5, <1>6, <3>2
    <3> QED
      BY <1>1, <1>4, <2>1, <2>7, <3>2, <3>3 DEF Meets
  <2> QED
    BY <2>4, <2>6, <2>7
<1>8. CASE Map!Link(u)
  <2>1. /\ upc[u] = "link" /\ UNCHANGED <<grid, objs, uloc, uobj, sent, crashed>>
        /\ cells' = [cells EXCEPT ![HomeCell(u)] = IF @ = Map!Absent THEN Map!Null ELSE @]
        /\ upc' = [upc EXCEPT ![u] = "assign"]
    BY <1>1, <1>3, <1>8 DEF Map!Link, Map!ghosts
  <2>2. cells[HomeCell(u)] = Map!Absent
    BY <2>1 DEF CellsOK, HomeCell
  <2>3. cells' = [cells EXCEPT ![HomeCell(u)] = Map!Null] /\ lpc' = lpc
    BY <1>5, <1>6, <2>1, <2>2
  <2> QED
    BY <1>1, <1>4, <2>1, <2>3 DEF Links
<1>9. CASE Map!Assign(u)
  <2>1. /\ upc[u] = "assign" /\ UNCHANGED <<grid, objs, uloc, uobj, sent, crashed>>
        /\ cells' = [cells EXCEPT ![HomeCell(u)] = IF @ = Map!Absent THEN @ ELSE uobj[u]]
        /\ upc' = [upc EXCEPT ![u] = "cell"]
    BY <1>1, <1>9 DEF Map!Assign, Map!ghosts
  <2>2. cells[HomeCell(u)] # Map!Absent
    BY <2>1 DEF CellsOK, HomeCell, Map!Absent, Map!Null
  <2>3. cells' = [cells EXCEPT ![HomeCell(u)] = uobj[u]] /\ lpc' = lpc
    BY <1>5, <1>6, <2>1, <2>2
  <2> QED
    BY <1>1, <1>4, <2>1, <2>3 DEF Assigns
<1>10. CASE Map!Store(u)
  <2>1. /\ upc[u] = "cell" /\ UNCHANGED <<grid, cells, sent, crashed>>
        /\ objs' = [objs EXCEPT ![uobj[u]][uloc[u].dev] = uloc[u]]
        /\ upc' = [upc EXCEPT ![u] = "idle"]
        /\ uloc' = [uloc EXCEPT ![u] = None]
        /\ uobj' = [uobj EXCEPT ![u] = Map!Absent]
    BY <1>10 DEF Map!Store, Map!Return
  <2>2. lpc' = [lpc EXCEPT ![u] = "pool"]
    BY <1>5, <2>1
  <2> QED
    BY <1>1, <1>4, <2>1, <2>2 DEF Stores
<1> QED
  BY <1>3, <1>5, <1>7, <1>8, <1>9, <1>10 DEF Map!UpdateStep, Map!Fault
-----------------------------------------------------------------------------
(* Steps that leave the map, or the rest, alone.                           *)
LEMMA MapQuiet ==
    ASSUME HandsOK,
           \/ Open \/ Check \/ Sync2db \/ ConnLost \/ UNCHANGED vars
           \/ \E u \in Updater : PoolUpdate(u) \/ SyncUpdate(u)
    PROVE  UNCHANGED <<grid, cells, objs, upc, uloc, uobj, sent, crashed>>
BY DEF Open, Check, Sync2db, ConnLost, PoolUpdate, SyncUpdate, vars, mapvars

LEMMA ServerQuiet ==
    ASSUME Open \/ Start \/ Check \/ Sync2db \/ ConnLost \/ UNCHANGED vars
    PROVE  UNCHANGED <<pool, lpc, lloc, restored, sent, objs, cells, upc, uloc, uobj>>
BY DEF Open, Start, Check, Sync2db, ConnLost, vars, mapvars, Map!SetGrid, Map!ghosts,
       Map!updaters

LEMMA Takes ==
    ASSUME HandsOK, MapOK, NEW u \in Updater, NEW loc \in Report, Take(u, loc)
    PROVE  /\ ~Down /\ lpc[u] = "idle" /\ upc[u] = "idle"
           /\ loc.n = sent + 1 /\ sent' = sent + 1
           /\ upc' = [upc EXCEPT ![u] = "find"] /\ uloc' = [uloc EXCEPT ![u] = loc]
           /\ lpc' = [lpc EXCEPT ![u] = "map"] /\ lloc' = [lloc EXCEPT ![u] = loc]
           /\ UNCHANGED <<grid, cells, objs, uobj, crashed, dbvars, pool, restored, dbsync, partial>>
BY DEF Take, Map!Update, Map!index, Serving, Down, starts

LEMMA Restores ==
    ASSUME OneDecoder, HandsOK, DBP!IInv, OneOK, NEW doc \in toload, Restore(doc)
    PROVE  /\ pc = "loading" /\ doc \in snapshot /\ doc \in Entries /\ doc.loc \in Report
           /\ doc.loc.dev \in Device /\ grid[doc.loc.pos] \in Cell
           /\ doc.loc.dev \notin restored /\ pool[doc.loc.dev] = None
           /\ toload' = toload \ {doc} /\ restored' = restored \union {doc.loc.dev}
           /\ pool' = [pool EXCEPT ![doc.loc.dev] = doc.loc]
           /\ \/ /\ cells[grid[doc.loc.pos]] = Map!Absent
                 /\ objs' = Append(objs, [Nobody EXCEPT ![doc.loc.dev] = doc.loc])
                 /\ cells' = [cells EXCEPT ![grid[doc.loc.pos]] = Len(objs) + 1]
              \/ /\ cells[grid[doc.loc.pos]] \in 1 .. Len(objs)
                 /\ objs' = [objs EXCEPT ![cells[grid[doc.loc.pos]]][doc.loc.dev] = doc.loc]
                 /\ cells' = cells
           /\ UNCHANGED <<pc, locs, batch, conn, snapshot, history, accepted, losses, crashes,
                          grid, upc, uloc, uobj, sent, crashed, lpc, lloc, dbsync, partial>>
<1>1. /\ pc = "loading" /\ toload' = toload \ {doc}
      /\ UNCHANGED <<pc, locs, batch, conn, snapshot, history, accepted, losses, crashes>>
  BY DEF Restore, DB!Load, DB!tables, DB!ghosts
<1>2. doc \in snapshot /\ doc \in Entries /\ doc.loc \in Report /\ doc.loc.dev \in Device
  BY <1>1, EntriesTyped DEF OneOK, Reading, Entries
<1>3. grid[doc.loc.pos] \in Cell
  BY <1>2, Reports DEF OneOK, MapOK
<1>4. doc.loc.dev \notin restored
  <2> SUFFICES ASSUME doc.loc.dev \in restored PROVE FALSE
    OBVIOUS
  <2>1. PICK other \in snapshot \ toload : other.loc.dev = doc.loc.dev
    BY <1>1 DEF OneOK, Reading, Down
  <2> QED
    BY <1>2, <2>1, EntriesTyped
<1>5. pool[doc.loc.dev] = None
  BY <1>1, <1>2, <1>4 DEF OneOK, Reading, Down
<1>6. cells[grid[doc.loc.pos]] # Map!Null
  BY <1>1, <1>3 DEF OneOK, CellsOK, ThreadsOK, Down
<1>7. \/ cells[grid[doc.loc.pos]] = Map!Absent
      \/ cells[grid[doc.loc.pos]] \in 1 .. Len(objs) /\ cells[grid[doc.loc.pos]] # Map!Absent
  BY <1>3, <1>6, CellsTyped DEF OneOK
<1>8. /\ \/ /\ cells[grid[doc.loc.pos]] = Map!Absent
            /\ objs' = Append(objs, [Nobody EXCEPT ![doc.loc.dev] = doc.loc])
            /\ cells' = [cells EXCEPT ![grid[doc.loc.pos]] = Len(objs) + 1]
         \/ /\ cells[grid[doc.loc.pos]] # Map!Absent
            /\ objs' = [objs EXCEPT ![cells[grid[doc.loc.pos]]][doc.loc.dev] = doc.loc]
            /\ cells' = cells
      /\ UNCHANGED <<grid, upc, uloc, uobj, sent, crashed>>
  BY DEF Restore, Map!Place, Map!updaters, Map!Nobody, Nobody
<1>9. /\ pool' = [pool EXCEPT ![doc.loc.dev] = doc.loc]
      /\ restored' = restored \union {doc.loc.dev} /\ UNCHANGED <<lpc, lloc, dbsync, partial>>
  BY DEF Restore, PoolStore, starts
<1> QED
  BY <1>1, <1>2, <1>3, <1>4, <1>5, <1>7, <1>8, <1>9

LEMMA Crashes ==
    ASSUME Crash
    PROVE  /\ pc' = "down" /\ crashes' = crashes + 1 /\ toload' = {}
           /\ locs' = << >> /\ batch' = << >> /\ UNCHANGED <<snapshot, history, losses, sent>>
           /\ grid' = DefaultGrid /\ objs' = << >> /\ ~crashed' /\ ~partial' /\ restored' = {}
           /\ cells' = [c \in Cell |-> Map!Absent]
           /\ upc' = [u \in Updater |-> "idle"] /\ lpc' = [u \in Updater |-> "idle"]
           /\ uloc' = [u \in Updater |-> None] /\ lloc' = [u \in Updater |-> None]
           /\ uobj' = [u \in Updater |-> Map!Absent]
           /\ pool' = [d \in Device |-> None]
BY DEF Crash, DB!Crash, DB!tables, Nobody

(* What the other calls do to the buffer, the tables and the pool.         *)
LEMMA Opens ==
    ASSUME Open
    PROVE  /\ pc = "down" /\ pc' = "loading" /\ toload' = snapshot /\ conn' = "ok"
           /\ UNCHANGED <<locs, batch, snapshot, history, accepted, losses, crashes, partial>>
BY DEF Open, DB!Open, DB!tables, DB!ghosts

LEMMA Starts ==
    ASSUME Start
    PROVE  /\ pc = "loading" /\ pc' = "idle" /\ toload' = {} /\ grid' = Configured
           /\ partial' = (toload # {})
           /\ toload = {} \/ conn # "ok"
           /\ conn' = conn \/ conn # "ok"
           /\ UNCHANGED <<locs, batch, snapshot, history, accepted, losses, crashes, dbsync,
                          crashed>>
BY DEF Start, DB!LoadDone, DB!LoadFail, DB!memory, DB!tables, DB!ghosts, Map!SetGrid

LEMMA Pools ==
    ASSUME NEW u \in Updater, PoolUpdate(u)
    PROVE  /\ ~Down /\ lpc[u] = "pool"
           /\ pool' = [pool EXCEPT ![lloc[u].dev] = lloc[u]]
           /\ lpc' = [lpc EXCEPT ![u] = IF dbsync THEN "sync" ELSE "idle"]
           /\ restored' = restored \ {lloc[u].dev}
           /\ UNCHANGED <<dbvars, mapvars, lloc, dbsync, partial>>
BY DEF PoolUpdate, PoolStore, Serving, Down, starts

LEMMA Syncs ==
    ASSUME HandsOK, DBP!IInv, NEW u \in Updater, SyncUpdate(u)
    PROVE  LET e == [loc |-> lloc[u], no |-> accepted + 1]
           IN  /\ ~Down /\ lpc[u] = "sync" /\ lloc[u] \in Report /\ accepted' = accepted + 1
               /\ locs' = Append(locs, e) /\ Elems(locs') = Elems(locs) \union {e}
               /\ lpc' = [lpc EXCEPT ![u] = "idle"]
               /\ UNCHANGED <<pc, batch, toload, conn, snapshot, history, losses, crashes,
                              pool, lloc, restored, dbsync, partial>>
<1> DEFINE e == [loc |-> lloc[u], no |-> accepted + 1]
<1>1. /\ ~Down /\ lpc[u] = "sync" /\ lloc[u] \in Report /\ accepted' = accepted + 1
      /\ locs' = Append(locs, e) /\ lpc' = [lpc EXCEPT ![u] = "idle"]
      /\ UNCHANGED <<pc, batch, toload, conn, snapshot, history, losses, crashes,
                     pool, lloc, restored, dbsync, partial>>
  BY DEF SyncUpdate, DB!Update, DB!tables, starts, HandsOK, Down
<1>2. e \in DBP!Entry /\ locs \in Seq(DBP!Entry)
  BY <1>1 DEF DBP!IInv, DBP!TypeOK, DBP!Entry
<1> HIDE DEF e
<1>3. Elems(locs') = Elems(locs) \union {e}
  BY <1>1, <1>2, ElemsAppend
<1> QED
  BY <1>1, <1>3 DEF e

LEMMA Checks ==
    ASSUME DBP!IInv, Check
    PROVE  /\ pc = "idle" /\ pc' \in {"idle", "find"} /\ Buffered' = Buffered
           /\ UNCHANGED <<toload, conn, snapshot, history, accepted, losses, crashes, dbsync,
                          partial>>
<1>1. /\ pc = "idle" /\ pc' \in {"idle", "find"} /\ batch' = locs /\ locs' = << >>
      /\ UNCHANGED <<toload, conn, snapshot, history, accepted, losses, crashes, dbsync, partial>>
  BY DEF Check, DB!Check, DB!Swap, DB!tables, DB!ghosts, starts
<1>2. batch = << >>
  BY <1>1 DEF DBP!IInv, DBP!TypeOK, DBP!Writing
<1> QED
  BY <1>1, <1>2, ElemsEmpty DEF Buffered

LEMMA Loses ==
    ASSUME ConnLost
    PROVE  /\ losses' = losses + 1
           /\ UNCHANGED <<pc, locs, batch, toload, snapshot, history, accepted, crashes, dbsync,
                          partial>>
BY DEF ConnLost, DB!ConnLost, DB!memory, DB!tables, starts

LEMMA Syncing ==
    ASSUME Sync2db
    PROVE  DBP!Sync2db /\ UNCHANGED <<dbsync, partial>>
BY SyncIsSync DEF Sync2db, starts

(* Steps of the decoder before the buffer, and none at all.                *)
LEMMA BufferQuiet ==
    ASSUME \/ UNCHANGED vars
           \/ \E u \in Updater : MapUpdate(u) \/ PoolUpdate(u) \/ \E loc \in Report : Take(u, loc)
    PROVE  UNCHANGED <<pc, locs, batch, toload, conn, snapshot, history, accepted, losses,
                       crashes, dbsync, partial>>
BY DEF MapUpdate, PoolUpdate, Take, vars, dbvars, starts

(* Down is left by Start and come to by Crash only.                        *)
LEMMA DownStays ==
    ASSUME HandsOK, DBP!IInv, [Next]_vars
    PROVE  /\ Start \/ Crash \/ (Down' <=> Down)
           /\ Start => Down /\ ~Down'
           /\ Open \/ Check \/ Sync2db \/ ConnLost \/ UNCHANGED vars => (Down' <=> Down)
<1> USE DEF Down
<1>1. ASSUME Open PROVE (Down' <=> Down)
  BY <1>1, Opens
<1>2. ASSUME NEW doc \in toload, Restore(doc) PROVE (Down' <=> Down)
  BY <1>2 DEF Restore, DB!Load
<1>3. Start => Down /\ ~Down'
  BY Starts
<1>4. ASSUME NEW u \in Updater, SyncUpdate(u) PROVE (Down' <=> Down)
  BY <1>4, Syncs
<1>5. ASSUME Check PROVE (Down' <=> Down)
  BY <1>5, Checks
<1>6. ASSUME Sync2db PROVE (Down' <=> Down)
  <2>1. ~Down /\ ~Down'
    BY <1>6, Syncing, Writes
  <2> QED
    BY <2>1
<1>7. ASSUME ConnLost PROVE (Down' <=> Down)
  BY <1>7, Loses
<1>8. ASSUME \/ UNCHANGED vars
             \/ \E u \in Updater : MapUpdate(u) \/ PoolUpdate(u) \/ \E loc \in Report : Take(u, loc)
      PROVE  (Down' <=> Down)
  BY <1>8, BufferQuiet
<1> QED
  BY <1>1, <1>2, <1>3, <1>4, <1>5, <1>6, <1>7, <1>8 DEF Next, Starting, Decoder
-----------------------------------------------------------------------------
(* The parts of the invariant, one after the other.                        *)
LEMMA NextServer ==
    ASSUME OneDecoder, HandsOK, DBP!IInv, OneOK, [Next]_vars
    PROVE  ServerOK'
<1> USE DEF OneOK, ServerOK, MapCells, MaybeReport
<1>1. CASE Open \/ Start \/ Check \/ Sync2db \/ ConnLost \/ UNCHANGED vars
  BY <1>1, ServerQuiet
<1>2. ASSUME NEW doc \in toload, Restore(doc) PROVE ServerOK'
  <2>1. /\ doc.loc \in Report /\ doc.loc.dev \in Device
        /\ restored' = restored \union {doc.loc.dev} /\ sent' = sent
        /\ pool' = [pool EXCEPT ![doc.loc.dev] = doc.loc]
    BY <1>2, Restores
  <2> QED
    BY <2>1
<1>3. ASSUME NEW u \in Updater, NEW loc \in Report, Take(u, loc) PROVE ServerOK'
  <2>1. sent' = sent + 1 /\ UNCHANGED <<pool, restored>>
    BY <1>3, Takes
  <2> QED
    BY <2>1
<1>4. ASSUME NEW u \in Updater, MapUpdate(u) PROVE ServerOK'
  BY <1>4, MapEnds
<1>5. ASSUME NEW u \in Updater, PoolUpdate(u) PROVE ServerOK'
  <2>1. lloc[u] \in Report /\ lloc[u].dev \in Device
    BY <1>5, Pools, Reports DEF HandsOK
  <2>2. /\ pool' = [pool EXCEPT ![lloc[u].dev] = lloc[u]]
        /\ restored' = restored \ {lloc[u].dev} /\ sent' = sent
    BY <1>5, Pools, MapQuiet
  <2> QED
    BY <2>1, <2>2
<1>6. ASSUME NEW u \in Updater, SyncUpdate(u) PROVE ServerOK'
  <2>1. UNCHANGED <<pool, restored, sent>>
    BY <1>6, Syncs, MapQuiet
  <2> QED
    BY <2>1
<1>7. CASE Crash
  <2>1. pool' = [d \in Device |-> None] /\ restored' = {} /\ sent' = sent
    BY <1>7, Crashes
  <2> QED
    BY <2>1
<1> QED
  BY <1>1, <1>2, <1>3, <1>4, <1>5, <1>6, <1>7 DEF Next, Starting, Decoder

LEMMA NextMap ==
    ASSUME OneDecoder, HandsOK, DBP!IInv, OneOK, [Next]_vars
    PROVE  MapOK'
<1>0. MapOK /\ Len(objs) \in Nat /\ Map!Absent = 0 /\ Map!Null = -1
  BY CellsTyped DEF OneOK
<1>1. CASE Open \/ Check \/ Sync2db \/ ConnLost \/ UNCHANGED vars
  BY <1>0, <1>1, MapQuiet DEF MapOK
<1>2. ASSUME NEW u \in Updater, PoolUpdate(u) \/ SyncUpdate(u) PROVE MapOK'
  BY <1>0, <1>2, MapQuiet DEF MapOK
<1>3. CASE Start
  <2>1. /\ grid' = Configured /\ UNCHANGED <<objs, cells, upc, uloc, uobj, crashed>>
    BY <1>3, Starts, ServerQuiet
  <2> QED
    BY <1>0, <2>1, GridsAssumption DEF MapOK
<1>4. ASSUME NEW doc \in toload, Restore(doc) PROVE MapOK'
  <2>1. /\ doc.loc \in Report /\ doc.loc.dev \in Device /\ grid[doc.loc.pos] \in Cell
        /\ UNCHANGED <<grid, upc, uloc, uobj, crashed>>
    BY <1>4, Restores
  <2> DEFINE new == [Nobody EXCEPT ![doc.loc.dev] = doc.loc]
  <2>2. new \in MapCells
    BY <2>1, NobodyType DEF MapCells, MaybeReport
  <2>3. \/ /\ objs' = Append(objs, new)
           /\ cells' = [cells EXCEPT ![grid[doc.loc.pos]] = Len(objs) + 1]
        \/ /\ cells[grid[doc.loc.pos]] \in 1 .. Len(objs)
           /\ objs' = [objs EXCEPT ![cells[grid[doc.loc.pos]]][doc.loc.dev] = doc.loc]
           /\ cells' = cells
    BY <1>4, Restores
  <2> HIDE DEF new
  <2>4. objs' \in Seq(MapCells) /\ cells' \in [Cell -> Map!Null .. Len(objs')]
    <3>1. CASE /\ objs' = Append(objs, new)
               /\ cells' = [cells EXCEPT ![grid[doc.loc.pos]] = Len(objs) + 1]
      <4>1. objs' \in Seq(MapCells) /\ Len(objs') = Len(objs) + 1
        BY <1>0, <2>2, <3>1, CellAdded DEF MapOK
      <4> QED
        BY <1>0, <2>1, <3>1, <4>1 DEF MapOK
    <3>2. CASE /\ cells[grid[doc.loc.pos]] \in 1 .. Len(objs)
               /\ objs' = [objs EXCEPT ![cells[grid[doc.loc.pos]]][doc.loc.dev] = doc.loc]
               /\ cells' = cells
      <4>1. PICK h \in 1 .. Len(objs) : h = cells[grid[doc.loc.pos]]
        BY <3>2
      <4>2. objs' = Put(objs, h, doc.loc)
        BY <3>2, <4>1 DEF Put
      <4>3. objs' \in Seq(MapCells) /\ Len(objs') = Len(objs)
        <5>1. objs \in Seq(MapCells) /\ doc.loc \in Report
          BY <1>0, <2>1 DEF MapOK
        <5> QED
          BY <4>2, <5>1, CellStored
      <4> QED
        BY <1>0, <3>2, <4>3 DEF MapOK
    <3> QED
      BY <2>3, <3>1, <3>2
  <2> QED
    BY <1>0, <2>1, <2>4 DEF MapOK
<1>5. ASSUME NEW u \in Updater, NEW loc \in Report, Take(u, loc) PROVE MapOK'
  <2>1. /\ upc' = [upc EXCEPT ![u] = "find"] /\ uloc' = [uloc EXCEPT ![u] = loc]
        /\ UNCHANGED <<grid, cells, objs, uobj, crashed>>
    BY <1>0, <1>5, Takes
  <2> QED
    BY <1>0, <2>1 DEF MapOK, MaybeReport
<1>6. ASSUME NEW u \in Updater, MapUpdate(u) PROVE MapOK'
  <2>1. /\ HomeCell(u) \in Cell /\ uloc[u] \in Report /\ UNCHANGED <<grid, crashed>>
        /\ Makes(u) \/ Meets(u) \/ Links(u) \/ Assigns(u) \/ Stores(u)
    BY <1>6, MapEnds DEF OneOK
  <2>2. CASE Makes(u)
    <3>1. objs' \in Seq(MapCells) /\ Len(objs') = Len(objs) + 1
      BY <1>0, <2>2, CellAdded, NobodyType DEF MapOK, Makes
    <3> QED
      BY <1>0, <2>1, <2>2, <3>1 DEF MapOK, Makes
  <2>3. CASE Meets(u)
    BY <1>0, <2>1, <2>3 DEF MapOK, Meets
  <2>4. CASE Links(u)
    BY <1>0, <2>1, <2>4 DEF MapOK, Links
  <2>5. CASE Assigns(u)
    <3>1. uobj[u] \in 1 .. Len(objs)
      BY <2>5 DEF OneOK, CellsOK, Assigns
    <3> QED
      BY <1>0, <2>1, <2>5, <3>1 DEF MapOK, Assigns
  <2>6. CASE Stores(u)
    <3>1. uobj[u] \in 1 .. Len(objs)
      BY <2>6 DEF OneOK, CellsOK, Stores
    <3>0. objs' = Put(objs, uobj[u], uloc[u])
      BY <2>6 DEF Put, Stores
    <3>2. objs' \in Seq(MapCells) /\ Len(objs') = Len(objs)
      BY <1>0, <2>1, <3>0, <3>1, CellStored DEF MapOK
    <3> QED
      BY <1>0, <2>1, <2>6, <3>2 DEF MapOK, Stores, MaybeReport
  <2> QED
    BY <2>1, <2>2, <2>3, <2>4, <2>5, <2>6
<1>7. CASE Crash
  <2>1. /\ grid' = DefaultGrid /\ objs' = << >> /\ ~crashed'
        /\ cells' = [c \in Cell |-> Map!Absent]
        /\ upc' = [u \in Updater |-> "idle"] /\ uloc' = [u \in Updater |-> None]
        /\ uobj' = [u \in Updater |-> Map!Absent]
    BY <1>7, Crashes
  <2>2. objs' \in Seq(MapCells) /\ Len(objs') = 0
    BY <2>1, EmptySeq
  <2> QED
    BY <1>0, <2>1, <2>2, GridsAssumption DEF MapOK, MaybeReport
<1> QED
  BY <1>1, <1>2, <1>3, <1>4, <1>5, <1>6, <1>7 DEF Next, Starting, Decoder

LEMMA NextThreads ==
    ASSUME OneDecoder, HandsOK, DBP!IInv, OneOK, [Next]_vars
    PROVE  ThreadsOK'
<1>0. MapOK /\ ThreadsOK /\ lpc \in [Updater -> {"idle", "map", "pool", "sync"}]
      /\ lloc \in [Updater -> MaybeReport] /\ sent \in Nat
      /\ upc \in [Updater -> {"idle", "find", "link", "assign", "cell"}]
      /\ uloc \in [Updater -> MaybeReport]
  BY DEF OneOK, MapOK, HandsOK, ServerOK
<1>1. Start \/ Crash \/ (Down' <=> Down)
  BY DownStays
<1>2. CASE Open \/ Check \/ Sync2db \/ ConnLost \/ UNCHANGED vars
  <2>1. Down' <=> Down
    BY <1>2, DownStays
  <2> QED
    BY <1>0, <1>2, <2>1, ServerQuiet DEF ThreadsOK
<1>3. CASE Start
  <2>1. Down /\ ~Down' /\ UNCHANGED <<lpc, lloc, upc, uloc, sent>>
    BY <1>3, DownStays, ServerQuiet
  <2> QED
    BY <1>0, <2>1 DEF ThreadsOK
<1>4. ASSUME NEW doc \in toload, Restore(doc) PROVE ThreadsOK'
  <2>1. UNCHANGED <<pc, lpc, lloc, upc, uloc, sent>>
    BY <1>4, Restores
  <2> QED
    BY <1>0, <2>1 DEF ThreadsOK, Down
<1>5. ASSUME NEW u \in Updater, NEW loc \in Report, Take(u, loc) PROVE ThreadsOK'
  <2>1. /\ ~Down /\ loc.n = sent + 1 /\ sent' = sent + 1 /\ pc' = pc
        /\ upc' = [upc EXCEPT ![u] = "find"] /\ uloc' = [uloc EXCEPT ![u] = loc]
        /\ lpc' = [lpc EXCEPT ![u] = "map"] /\ lloc' = [lloc EXCEPT ![u] = loc]
    BY <1>0, <1>5, Takes DEF dbvars
  <2>2. \A v \in Updater : v = u
    BY DEF OneDecoder
  <2> QED
    BY <1>0, <2>1, <2>2 DEF ThreadsOK, Down
<1>6. ASSUME NEW u \in Updater, MapUpdate(u) PROVE ThreadsOK'
  <2>1. /\ lpc[u] = "map" /\ UNCHANGED <<pc, lloc, sent>>
        /\ Makes(u) \/ Meets(u) \/ Links(u) \/ Assigns(u) \/ Stores(u)
    BY <1>6, MapEnds DEF OneOK, dbvars
  <2>2. \A v \in Updater : v = u
    BY DEF OneDecoder
  <2>3. CASE Makes(u) \/ Meets(u) \/ Links(u) \/ Assigns(u)
    <3>1. lpc' = lpc /\ uloc' = uloc /\ upc'[u] # "idle"
      BY <1>0, <2>3 DEF Makes, Meets, Links, Assigns
    <3> QED
      BY <1>0, <2>1, <2>2, <3>1 DEF ThreadsOK, Down
  <2>4. CASE Stores(u)
    <3>1. lpc'[u] = "pool" /\ upc'[u] = "idle"
      BY <1>0, <2>4 DEF Stores
    <3> QED
      BY <1>0, <2>1, <2>2, <3>1 DEF ThreadsOK, Down
  <2> QED
    BY <2>1, <2>3, <2>4
<1>7. ASSUME NEW u \in Updater, PoolUpdate(u) \/ SyncUpdate(u) PROVE ThreadsOK'
  <2>1. /\ ~Down /\ lpc[u] \in {"pool", "sync"} /\ UNCHANGED <<pc, lloc, sent, upc, uloc>>
        /\ lpc' = [lpc EXCEPT ![u] = "idle"] \/ lpc' = [lpc EXCEPT ![u] = "sync"]
    BY <1>7, Pools, Syncs, MapQuiet DEF dbvars
  <2>2. \A v \in Updater : v = u
    BY DEF OneDecoder
  <2> QED
    BY <1>0, <2>1, <2>2 DEF ThreadsOK, Down
<1>8. CASE Crash
  <2>1. upc' = [u \in Updater |-> "idle"] /\ lpc' = [u \in Updater |-> "idle"]
    BY <1>8, Crashes
  <2> QED
    BY <2>1 DEF ThreadsOK
<1> QED
  BY <1>2, <1>3, <1>4, <1>5, <1>6, <1>7, <1>8 DEF Next, Starting, Decoder

LEMMA NextCells ==
    ASSUME OneDecoder, HandsOK, DBP!IInv, OneOK, [Next]_vars
    PROVE  CellsOK'
<1>0. /\ MapOK /\ ThreadsOK /\ CellsOK /\ Len(objs) \in Nat /\ Map!Absent = 0 /\ Map!Null = -1
      /\ upc \in [Updater -> {"idle", "find", "link", "assign", "cell"}]
      /\ cells \in [Cell -> Map!Null .. Len(objs)] /\ uobj \in [Updater -> Nat]
      /\ uloc \in [Updater -> MaybeReport] /\ objs \in Seq(MapCells)
      /\ \A u, v \in Updater : u = v
  BY CellsTyped DEF OneOK, MapOK, OneDecoder
<1>1. CASE Open \/ Check \/ Sync2db \/ ConnLost \/ UNCHANGED vars
  BY <1>0, <1>1, MapQuiet DEF CellsOK
<1>2. ASSUME NEW u \in Updater, PoolUpdate(u) \/ SyncUpdate(u) PROVE CellsOK'
  BY <1>0, <1>2, MapQuiet DEF CellsOK
<1>3. ASSUME Down PROVE \A u \in Updater : upc[u] = "idle"
  BY <1>0, <1>3 DEF ThreadsOK
<1>4. CASE Start
  <2>1. Down /\ UNCHANGED <<objs, cells, upc, uloc, uobj>>
    BY <1>4, DownStays, ServerQuiet
  <2>2. (\A u \in Updater : upc[u] = "idle") /\ \A c \in Cell : cells[c] # Map!Null
    BY <1>0, <1>3, <2>1 DEF CellsOK
  <2> QED
    BY <2>1, <2>2 DEF CellsOK
<1>5. ASSUME NEW doc \in toload, Restore(doc) PROVE CellsOK'
  <2>1. /\ Down /\ grid[doc.loc.pos] \in Cell /\ UNCHANGED <<grid, upc, uloc, uobj>>
        /\ cells' = [cells EXCEPT ![grid[doc.loc.pos]] = Len(objs) + 1] \/ cells' = cells
    BY <1>5, Restores DEF Down
  <2>2. (\A u \in Updater : upc[u] = "idle") /\ \A c \in Cell : cells[c] # Map!Null
    BY <1>0, <1>3, <2>1 DEF CellsOK
  <2>3. \A c \in Cell : cells'[c] # Map!Null
    BY <1>0, <2>1, <2>2
  <2> QED
    BY <2>1, <2>2, <2>3 DEF CellsOK
<1>6. ASSUME NEW u \in Updater, NEW loc \in Report, Take(u, loc) PROVE CellsOK'
  <2>1. /\ upc[u] = "idle" /\ upc' = [upc EXCEPT ![u] = "find"]
        /\ UNCHANGED <<grid, cells, objs, uobj>>
    BY <1>0, <1>6, Takes
  <2>2. \A c \in Cell : cells[c] # Map!Null
    BY <1>0, <2>1 DEF CellsOK
  <2> QED
    BY <1>0, <2>1, <2>2 DEF CellsOK
<1>7. ASSUME NEW u \in Updater, MapUpdate(u) PROVE CellsOK'
  <2>1. /\ HomeCell(u) \in Cell /\ uloc[u] \in Report /\ UNCHANGED grid
        /\ Makes(u) \/ Meets(u) \/ Links(u) \/ Assigns(u) \/ Stores(u)
    BY <1>7, MapEnds DEF OneOK
  <2>2. CASE Makes(u)
    <3>1. /\ upc'[u] = "link" /\ uobj'[u] = Len(objs) + 1 /\ UNCHANGED <<cells, uloc>>
          /\ Len(objs') = Len(objs) + 1 /\ cells[HomeCell(u)] = Map!Absent
      BY <1>0, <2>2, CellAdded, NobodyType DEF Makes
    <3>2. \A c \in Cell : cells[c] # Map!Null
      BY <1>0, <2>2 DEF CellsOK, Makes
    <3> QED
      BY <1>0, <2>1, <3>1, <3>2 DEF CellsOK, HomeCell
  <2>3. CASE Meets(u)
    <3>1. /\ upc'[u] = "cell" /\ uobj'[u] = cells[HomeCell(u)] /\ UNCHANGED <<cells, objs, uloc>>
          /\ cells[HomeCell(u)] \in 1 .. Len(objs)
      BY <1>0, <2>3 DEF Meets
    <3>2. \A c \in Cell : cells[c] # Map!Null
      BY <1>0, <2>3 DEF CellsOK, Meets
    <3> QED
      BY <1>0, <2>1, <3>1, <3>2 DEF CellsOK, HomeCell
  <2>4. CASE Links(u)
    <3>1. /\ upc'[u] = "assign" /\ UNCHANGED <<objs, uloc, uobj>> /\ uobj[u] \in 1 .. Len(objs)
          /\ cells'[HomeCell(u)] = Map!Null
          /\ \A c \in Cell : c # HomeCell(u) => cells'[c] = cells[c]
      BY <1>0, <2>1, <2>4 DEF Links, CellsOK
    <3>2. \A c \in Cell : cells[c] # Map!Null
      BY <1>0, <2>4 DEF CellsOK, Links
    <3> QED
      BY <1>0, <2>1, <3>1, <3>2 DEF CellsOK, HomeCell
  <2>5. CASE Assigns(u)
    <3>1. /\ upc'[u] = "cell" /\ UNCHANGED <<objs, uloc, uobj>> /\ uobj[u] \in 1 .. Len(objs)
          /\ cells'[HomeCell(u)] = uobj[u]
          /\ \A c \in Cell : c # HomeCell(u) => cells'[c] = cells[c]
      BY <1>0, <2>1, <2>5 DEF Assigns, CellsOK
    <3>2. \A c \in Cell : c # HomeCell(u) => cells[c] # Map!Null
      BY <1>0, <2>5 DEF CellsOK, HomeCell
    <3>3. \A c \in Cell : cells'[c] # Map!Null
      BY <1>0, <3>1, <3>2
    <3> QED
      BY <1>0, <2>1, <3>1, <3>3 DEF CellsOK, HomeCell
  <2>6. CASE Stores(u)
    <3>1. upc'[u] = "idle" /\ cells' = cells
      BY <1>0, <2>6 DEF Stores
    <3>2. \A c \in Cell : cells[c] # Map!Null
      BY <1>0, <2>6 DEF CellsOK, Stores
    <3> QED
      BY <1>0, <2>1, <3>1, <3>2 DEF CellsOK
  <2> QED
    BY <2>1, <2>2, <2>3, <2>4, <2>5, <2>6
<1>8. CASE Crash
  <2>1. upc' = [u \in Updater |-> "idle"] /\ cells' = [c \in Cell |-> Map!Absent]
    BY <1>8, Crashes
  <2> QED
    BY <1>0, <2>1 DEF CellsOK
<1> QED
  BY <1>1, <1>2, <1>4, <1>5, <1>6, <1>7, <1>8 DEF Next, Starting, Decoder

(* What a step of the decoder in the map, and a report read back, do to    *)
(* the reports in the MapCells.                                            *)
LEMMA Changes ==
    ASSUME OneDecoder, HandsOK, OneOK, NEW u \in Updater, MapUpdate(u)
    PROVE  /\ Len(objs) \in Nat /\ Len(objs') \in Nat /\ Len(objs) <= Len(objs')
           /\ \A o \in 1 .. Len(objs'), d \in Device :
                 \/ o \in 1 .. Len(objs) /\ objs'[o][d] = objs[o][d]
                 \/ objs'[o][d] = None /\ o \notin 1 .. Len(objs)
                 \/ Stores(u) /\ d = uloc[u].dev /\ objs'[o][d] = uloc[u]
           /\ Stores(u) => objs'[uobj[u]][uloc[u].dev] = uloc[u]
<1>1. MapOK /\ Len(objs) \in Nat /\ objs \in Seq(MapCells)
  BY CellsTyped DEF OneOK, MapOK
<1>2. /\ uloc[u] \in Report
      /\ Makes(u) \/ Meets(u) \/ Links(u) \/ Assigns(u) \/ Stores(u)
  BY MapEnds DEF OneOK
<1>3. CASE Makes(u)
  <2>1. /\ Len(objs') = Len(objs) + 1 /\ objs'[Len(objs) + 1] = Nobody
        /\ \A o \in 1 .. Len(objs) : objs'[o] = objs[o]
    BY <1>1, <1>3, CellAdded, NobodyType DEF Makes
  <2>2. ~Stores(u)
    BY <1>3 DEF Makes, Stores
  <2> QED
    BY <1>1, <2>1, <2>2, NobodyType
<1>4. CASE Meets(u) \/ Links(u) \/ Assigns(u)
  <2>1. objs' = objs /\ ~Stores(u)
    BY <1>4 DEF Meets, Links, Assigns, Stores
  <2> QED
    BY <1>1, <2>1
<1>5. CASE Stores(u)
  <2>1. uobj[u] \in 1 .. Len(objs) /\ objs' = Put(objs, uobj[u], uloc[u])
    BY <1>5 DEF OneOK, CellsOK, Stores, Put
  <2>2. /\ Len(objs') = Len(objs)
        /\ \A p \in 1 .. Len(objs), d \in Device :
              objs'[p][d] = IF p = uobj[u] /\ d = uloc[u].dev THEN uloc[u] ELSE objs[p][d]
    BY <1>1, <1>2, <2>1, CellStored
  <2>3. uloc[u].dev \in Device
    BY <1>2, Reports
  <2>4. Len(objs') = Len(objs) /\ objs'[uobj[u]][uloc[u].dev] = uloc[u]
    BY <2>1, <2>2, <2>3
  <2>5. ASSUME NEW o \in 1 .. Len(objs'), NEW d \in Device
        PROVE  objs'[o][d] = objs[o][d] \/ (d = uloc[u].dev /\ objs'[o][d] = uloc[u])
    BY <2>2, <2>3, <2>4
  <2> QED
    BY <1>1, <1>5, <2>4, <2>5
<1> QED
  BY <1>2, <1>3, <1>4, <1>5

LEMMA Placed ==
    ASSUME OneDecoder, HandsOK, DBP!IInv, OneOK, NEW doc \in toload, Restore(doc)
    PROVE  /\ Len(objs) \in Nat /\ Len(objs') \in Nat /\ Len(objs) <= Len(objs')
           /\ \A o \in 1 .. Len(objs'), d \in Device :
                 \/ o \in 1 .. Len(objs) /\ objs'[o][d] = objs[o][d]
                 \/ objs'[o][d] = None /\ o \notin 1 .. Len(objs)
                 \/ d = doc.loc.dev /\ objs'[o][d] = doc.loc
           /\ cells'[grid[doc.loc.pos]] \in 1 .. Len(objs')
           /\ objs'[cells'[grid[doc.loc.pos]]][doc.loc.dev] = doc.loc
           /\ \A c \in Cell : cells[c] # Map!Absent => cells'[c] = cells[c]
<1>1. /\ MapOK /\ Len(objs) \in Nat /\ objs \in Seq(MapCells) /\ Map!Absent = 0
      /\ cells \in [Cell -> Map!Null .. Len(objs)]
  BY CellsTyped DEF OneOK, MapOK
<1>2. doc.loc \in Report /\ doc.loc.dev \in Device /\ grid[doc.loc.pos] \in Cell
  BY Restores
<1> DEFINE new == [Nobody EXCEPT ![doc.loc.dev] = doc.loc]
<1>3. \/ /\ cells[grid[doc.loc.pos]] = Map!Absent
         /\ objs' = Append(objs, new)
         /\ cells' = [cells EXCEPT ![grid[doc.loc.pos]] = Len(objs) + 1]
      \/ /\ cells[grid[doc.loc.pos]] \in 1 .. Len(objs)
         /\ objs' = [objs EXCEPT ![cells[grid[doc.loc.pos]]][doc.loc.dev] = doc.loc]
         /\ cells' = cells
  BY Restores
<1>4. /\ new \in MapCells
      /\ \A d \in Device : new[d] = IF d = doc.loc.dev THEN doc.loc ELSE None
  BY <1>2, NobodyType DEF MapCells, MaybeReport
<1> HIDE DEF new
<1>5. CASE /\ cells[grid[doc.loc.pos]] = Map!Absent
           /\ objs' = Append(objs, new)
           /\ cells' = [cells EXCEPT ![grid[doc.loc.pos]] = Len(objs) + 1]
  <2>1. /\ Len(objs') = Len(objs) + 1 /\ objs'[Len(objs) + 1] = new
        /\ \A o \in 1 .. Len(objs) : objs'[o] = objs[o]
    BY <1>1, <1>4, <1>5, CellAdded
  <2>2. /\ cells'[grid[doc.loc.pos]] = Len(objs) + 1
        /\ \A c \in Cell : cells[c] # Map!Absent => cells'[c] = cells[c]
    BY <1>1, <1>2, <1>5
  <2> QED
    BY <1>1, <1>2, <1>4, <2>1, <2>2
<1>6. CASE /\ cells[grid[doc.loc.pos]] \in 1 .. Len(objs)
           /\ objs' = [objs EXCEPT ![cells[grid[doc.loc.pos]]][doc.loc.dev] = doc.loc]
           /\ cells' = cells
  <2> DEFINE h == cells[grid[doc.loc.pos]]
  <2>1. h \in 1 .. Len(objs) /\ objs' = Put(objs, h, doc.loc) /\ cells' = cells
    BY <1>6 DEF Put
  <2> HIDE DEF h
  <2>2. /\ Len(objs') = Len(objs)
        /\ \A p \in 1 .. Len(objs), d \in Device :
              objs'[p][d] = IF p = h /\ d = doc.loc.dev THEN doc.loc ELSE objs[p][d]
    BY <1>1, <1>2, <2>1, CellStored
  <2>3. objs'[h][doc.loc.dev] = doc.loc
    BY <1>2, <2>1, <2>2
  <2>4. ASSUME NEW o \in 1 .. Len(objs'), NEW d \in Device
        PROVE  objs'[o][d] = objs[o][d] \/ (d = doc.loc.dev /\ objs'[o][d] = doc.loc)
    BY <2>2
  <2> QED
    <3>1. cells'[grid[doc.loc.pos]] \in 1 .. Len(objs')
      BY <2>1, <2>2 DEF h
    <3>2. objs'[cells'[grid[doc.loc.pos]]][doc.loc.dev] = doc.loc
      BY <2>1, <2>3 DEF h
    <3> QED
      BY <1>1, <2>1, <2>2, <2>4, <3>1, <3>2
<1> QED
  BY <1>3, <1>5, <1>6

(* Only update() of the buffer makes an entry.                             *)
LEMMA EntriesKept ==
    ASSUME HandsOK, DBP!IInv, [Next]_vars
    PROVE  \A e \in Entries' :
              \/ e \in Entries
              \/ \E u \in Updater : /\ SyncUpdate(u)
                                    /\ e = [loc |-> lloc[u], no |-> accepted + 1]
<1> USE DEF Entries, Buffered, Logged
<1>1. CASE Open \/ Start \/ ConnLost
  BY <1>1, Opens, Starts, Loses
<1>2. ASSUME NEW doc \in toload, Restore(doc) PROVE \A e \in Entries' : e \in Entries
  BY <1>2 DEF Restore, DB!Load, DB!tables
<1>3. CASE Check
  BY <1>3, Checks
<1>4. CASE Sync2db
  BY <1>4, Syncing, Writes DEF Written
<1>5. CASE Crash
  BY <1>5, Crashes, ElemsEmpty
<1>6. CASE \/ UNCHANGED vars
           \/ \E u \in Updater : MapUpdate(u) \/ PoolUpdate(u) \/ \E loc \in Report : Take(u, loc)
  BY <1>6, BufferQuiet
<1>7. ASSUME NEW u \in Updater, SyncUpdate(u)
      PROVE  \A e \in Entries' : e \in Entries \/ e = [loc |-> lloc[u], no |-> accepted + 1]
  <2> DEFINE new == [loc |-> lloc[u], no |-> accepted + 1]
  <2>1. Elems(locs') = Elems(locs) \union {new} /\ UNCHANGED <<batch, snapshot, history>>
    BY <1>7, Syncs
  <2> HIDE DEF new
  <2>2. \A e \in Entries' : e \in Entries \/ e = new
    BY <2>1
  <2> QED
    BY <2>2 DEF new
<1> QED
  BY <1>1, <1>2, <1>3, <1>4, <1>5, <1>6, <1>7 DEF Next, Starting, Decoder

LEMMA NextAges ==
    ASSUME OneDecoder, HandsOK, DBP!IInv, OneOK, [Next]_vars
    PROVE  AgesOK'
<1>0. /\ AgesOK /\ sent \in Nat /\ lpc \in [Updater -> {"idle", "map", "pool", "sync"}]
      /\ pool \in [Device -> MaybeReport] /\ Len(objs) \in Nat
      /\ lloc \in [Updater -> MaybeReport]
      /\ \A u \in Updater : lpc[u] # "idle" => lloc[u] \in Report /\ lloc[u].n = sent
      /\ \A u, v \in Updater : u = v
  BY CellsTyped DEF OneOK, ServerOK, HandsOK, ThreadsOK, OneDecoder, MapCells
<1>e. /\ \A e \in Entries : e.loc.n \in Nat
      /\ \A d \in Device : pool[d] # None => pool[d].n \in Nat
      /\ \A o \in 1 .. Len(objs), d \in Device : objs[o][d] # None => objs[o][d].n \in Nat
  BY <1>0, EntriesTyped, CellsTyped, Reports DEF OneOK, MaybeReport
<1>1. CASE Open \/ Start \/ Check \/ Sync2db \/ ConnLost \/ UNCHANGED vars
  <2>1. UNCHANGED <<pool, lpc, sent, objs>>
    BY <1>1, ServerQuiet
  <2>2. \A e \in Entries' : e \in Entries
    <3>1. ASSUME NEW u \in Updater, SyncUpdate(u) PROVE FALSE
      <4>1. lpc'[u] # lpc[u]
        BY <1>0, <3>1 DEF SyncUpdate
      <4> QED
        BY <2>1, <4>1
    <3> QED
      BY <3>1, EntriesKept
  <2> QED
    BY <1>0, <2>1, <2>2 DEF AgesOK
<1>2. ASSUME NEW doc \in toload, Restore(doc) PROVE AgesOK'
  <2>1. /\ Down /\ doc \in Entries /\ doc.loc.dev \in Device /\ UNCHANGED <<lpc, sent>>
        /\ pool' = [pool EXCEPT ![doc.loc.dev] = doc.loc]
        /\ UNCHANGED <<locs, batch, snapshot, history>>
    BY <1>2, Restores DEF Down
  <2>2. \A u \in Updater : lpc[u] = "idle"
    BY <2>1 DEF OneOK, ThreadsOK
  <2>3. doc.loc.n <= sent
    BY <1>0, <2>1 DEF AgesOK
  <2>4. \A d \in Device : pool'[d] # None => pool'[d].n <= sent
    BY <1>0, <2>1, <2>3 DEF AgesOK
  <2>5. \A o \in 1 .. Len(objs'), d \in Device : objs'[o][d] # None => objs'[o][d].n <= sent
    BY <1>0, <1>2, <2>3, Placed DEF AgesOK
  <2>6. \A e \in Entries' : e \in Entries
    BY <2>1 DEF Entries, Logged, Buffered
  <2> QED
    BY <1>0, <2>1, <2>2, <2>4, <2>5, <2>6 DEF AgesOK
<1>3. ASSUME NEW u \in Updater, NEW loc \in Report, Take(u, loc) PROVE AgesOK'
  <2>1. sent' = sent + 1 /\ UNCHANGED <<pool, objs, locs, batch, snapshot, history>>
    BY <1>3, Takes DEF OneOK, dbvars
  <2>2. \A e \in Entries' : e \in Entries
    BY <2>1 DEF Entries, Logged, Buffered
  <2>3. /\ \A d \in Device : pool'[d] # None => pool'[d].n < sent'
        /\ \A o \in 1 .. Len(objs'), d \in Device : objs'[o][d] # None => objs'[o][d].n < sent'
        /\ \A e \in Entries' : e.loc.n < sent'
    BY <1>0, <1>e, <2>1, <2>2 DEF AgesOK
  <2>4. \A m, n \in Nat : m < n => m <= n
    OBVIOUS
  <2>5. /\ sent' \in Nat
        /\ \A d \in Device : pool'[d] # None => pool'[d].n \in Nat
        /\ \A o \in 1 .. Len(objs'), d \in Device : objs'[o][d] # None => objs'[o][d].n \in Nat
        /\ \A e \in Entries' : e.loc.n \in Nat
    BY <1>0, <1>e, <2>1, <2>2
  <2> QED
    BY <2>3, <2>4, <2>5 DEF AgesOK
<1>4. ASSUME NEW u \in Updater, MapUpdate(u) PROVE AgesOK'
  <2>1. /\ lpc[u] = "map" /\ uloc[u] = lloc[u] /\ UNCHANGED <<pool, sent>>
        /\ UNCHANGED <<locs, batch, snapshot, history>>
        /\ Makes(u) \/ Meets(u) \/ Links(u) \/ Assigns(u) \/ Stores(u)
    BY <1>4, MapEnds DEF OneOK, dbvars
  <2>2. \A e \in Entries' : e \in Entries
    BY <2>1 DEF Entries, Logged, Buffered
  <2>3. uloc[u].n = sent
    BY <1>0, <2>1
  <2>4. \A o \in 1 .. Len(objs'), d \in Device :
           objs'[o][d] # None => objs'[o][d].n <= sent /\ (~Stores(u) => objs'[o][d].n < sent)
    <3>1. \A o \in 1 .. Len(objs), d \in Device :
             objs[o][d] # None => objs[o][d].n <= sent /\ objs[o][d].n < sent
      BY <1>0, <2>1 DEF AgesOK
    <3> QED
      BY <1>0, <1>4, <2>3, <3>1, Changes
  <2>5. lpc'[u] = "map" => ~Stores(u)
    BY <1>0 DEF Stores
  <2>6. lpc'[u] \in {"map", "pool"}
    BY <1>0, <2>1 DEF Makes, Meets, Links, Assigns, Stores
  <2>7. /\ \A d \in Device : pool[d] # None => pool[d].n < sent
        /\ \A e \in Entries : e.loc.n < sent
    BY <1>0, <2>1 DEF AgesOK
  <2> QED
    BY <1>0, <2>1, <2>2, <2>4, <2>5, <2>6, <2>7 DEF AgesOK
<1>5. ASSUME NEW u \in Updater, PoolUpdate(u) PROVE AgesOK'
  <2>1. /\ lpc[u] = "pool" /\ UNCHANGED <<sent, objs, lloc, locs, batch, snapshot, history>>
        /\ pool' = [pool EXCEPT ![lloc[u].dev] = lloc[u]]
        /\ lpc' = [lpc EXCEPT ![u] = "idle"] \/ lpc' = [lpc EXCEPT ![u] = "sync"]
    BY <1>5, Pools, MapQuiet DEF dbvars
  <2>2. \A e \in Entries' : e \in Entries
    BY <2>1 DEF Entries, Logged, Buffered
  <2>3. \A d \in Device : pool'[d] # None => pool'[d].n <= sent
    BY <1>0, <2>1 DEF AgesOK
  <2>4. /\ \A e \in Entries : e.loc.n < sent
        /\ \A v \in Updater : lpc'[v] \in {"idle", "sync"}
    BY <1>0, <2>1 DEF AgesOK
  <2> QED
    BY <1>0, <2>1, <2>2, <2>3, <2>4 DEF AgesOK
<1>6. ASSUME NEW u \in Updater, SyncUpdate(u) PROVE AgesOK'
  <2>1. /\ lpc[u] = "sync" /\ lpc' = [lpc EXCEPT ![u] = "idle"] /\ lloc[u].n = sent
        /\ UNCHANGED <<pool, sent, objs>>
    BY <1>0, <1>6, Syncs, MapQuiet
  <2>2. \A e \in Entries' : e \in Entries \/ e.loc = lloc[u]
    <3>1. \A v \in Updater : v = u
      BY <1>0
    <3> QED
      BY <3>1, EntriesKept
  <2>3. \A e \in Entries' : e.loc.n <= sent
    BY <1>0, <2>1, <2>2 DEF AgesOK
  <2>4. \A v \in Updater : lpc'[v] = "idle"
    BY <1>0, <2>1
  <2> QED
    BY <1>0, <2>1, <2>3, <2>4 DEF AgesOK
<1>7. CASE Crash
  <2>1. /\ sent' = sent /\ objs' = << >> /\ pool' = [d \in Device |-> None]
        /\ lpc' = [u \in Updater |-> "idle"]
    BY <1>7, Crashes
  <2>2. \A e \in Entries' : e \in Entries
    BY <1>7, Crashes, ElemsEmpty DEF Entries, Logged, Buffered
  <2>3. Len(objs') = 0
    BY <2>1, EmptySeq
  <2> QED
    BY <1>0, <2>1, <2>2, <2>3 DEF AgesOK
<1> QED
  BY <1>1, <1>2, <1>3, <1>4, <1>5, <1>6, <1>7 DEF Next, Starting, Decoder

LEMMA NextPaired ==
    ASSUME OneDecoder, HandsOK, DBP!IInv, OneOK, [Next]_vars
    PROVE  Paired'
<1>1. CASE \A e \in Entries' : e \in Entries
  BY <1>1 DEF OneOK, Paired
<1>2. ASSUME NEW u \in Updater, SyncUpdate(u) PROVE Paired'
  <2> DEFINE new == [loc |-> lloc[u], no |-> accepted + 1]
  <2>1. \A e \in Entries' : e \in Entries \/ e = new
    <3>1. \A v \in Updater : v = u
      BY DEF OneDecoder
    <3> QED
      BY <3>1, EntriesKept
  <2>2. lpc[u] = "sync" /\ lloc[u] \in Report
    BY <1>2, Syncs
  <2>3. \A e \in Entries : e.loc.n < lloc[u].n
    BY <2>2 DEF OneOK, AgesOK, ThreadsOK
  <2>4. /\ new.loc.n \in Nat /\ new.no \in Nat
        /\ \A e \in Entries : e.loc.n \in Nat /\ e.no \in Nat /\ e.no < new.no /\ e.loc.n < new.loc.n
    BY <2>2, <2>3, EntriesTyped, Reports
  <2> HIDE DEF new
  <2>5. \A e, f \in Entries : (e.no <= f.no <=> e.loc.n <= f.loc.n) /\ (e.no = f.no => e = f)
    BY DEF OneOK, Paired
  <2>6. ASSUME NEW e \in Entries
        PROVE  /\ (e.no <= new.no <=> e.loc.n <= new.loc.n) /\ e.no # new.no
               /\ (new.no <= e.no <=> new.loc.n <= e.loc.n)
    BY <2>4
  <2>7. new.no <= new.no /\ new.loc.n <= new.loc.n
    BY <2>4
  <2> QED
    BY <2>1, <2>5, <2>6, <2>7 DEF Paired
<1> QED
  BY <1>1, <1>2, EntriesKept

LEMMA NextReading ==
    ASSUME OneDecoder, HandsOK, DBP!IInv, OneOK, [Next]_vars
    PROVE  Reading'
<1>0. Reading /\ pool \in [Device -> MaybeReport] /\ restored \subseteq Device
      /\ \A e, f \in snapshot : e.loc.dev = f.loc.dev => e = f
  BY EntriesTyped DEF OneOK, ServerOK, MapCells
<1>1. CASE Open
  <2>1. /\ Down /\ Down' /\ pc = "down" /\ pc' = "loading" /\ toload' = snapshot
        /\ UNCHANGED <<grid, locs, partial, restored, snapshot, pool>>
    BY <1>1, Opens, MapQuiet, ServerQuiet DEF Down
  <2>2. restored = {}
    BY <1>0, <2>1 DEF Reading
  <2> QED
    BY <1>0, <2>1, <2>2 DEF Reading
<1>2. ASSUME NEW doc \in toload, Restore(doc) PROVE Reading'
  <2>1. /\ pc = "loading" /\ pc' = "loading" /\ doc \in snapshot /\ doc.loc.dev \in Device
        /\ toload' = toload \ {doc} /\ restored' = restored \union {doc.loc.dev}
        /\ doc.loc.dev \notin restored
        /\ pool' = [pool EXCEPT ![doc.loc.dev] = doc.loc]
        /\ UNCHANGED <<grid, locs, partial, snapshot>>
    BY <1>2, Restores
  <2>2. Down /\ Down' /\ pc # "down"
    BY <2>1 DEF Down
  <2>3. \A d \in restored' : \E e \in snapshot \ toload' : e.loc.dev = d /\ pool'[d] = e.loc
    <3>1. ASSUME NEW d \in restored
          PROVE  \E e \in snapshot \ toload' : e.loc.dev = d /\ pool'[d] = e.loc
      <4>1. PICK e \in snapshot \ toload : e.loc.dev = d /\ pool[d] = e.loc
        BY <1>0, <2>2 DEF Reading
      <4>2. pool'[d] = pool[d]
        BY <1>0, <2>1
      <4> QED
        BY <2>1, <4>1, <4>2
    <3>2. pool'[doc.loc.dev] = doc.loc /\ doc \in snapshot \ toload'
      BY <1>0, <2>1
    <3> QED
      BY <2>1, <3>1, <3>2
  <2>4. \A d \in Device \ restored' : pool'[d] = None
    BY <1>0, <2>1, <2>2 DEF Reading
  <2>5. \A e \in snapshot' : e.loc.dev \in restored' \/ e \in toload'
    BY <1>0, <2>1 DEF Reading
  <2> QED
    BY <1>0, <2>1, <2>2, <2>3, <2>4, <2>5 DEF Reading
<1>3. CASE Start
  <2>1. ~Down' /\ pc' = "idle" /\ toload' = {}
    BY <1>3, Starts DEF Down
  <2> QED
    BY <2>1 DEF Reading, Down
<1>4. CASE ConnLost \/ UNCHANGED vars
  <2>1. UNCHANGED <<pc, grid, locs, partial, restored, snapshot, pool, toload>>
    BY <1>4, Loses, BufferQuiet, MapQuiet, ServerQuiet
  <2> QED
    BY <1>0, <2>1 DEF Reading, Down
<1>5. ASSUME ~Down, ~Down', toload' = toload PROVE Reading'
  BY <1>0, <1>5 DEF Reading, Down
<1>6. CASE Check \/ Sync2db
  BY <1>5, <1>6, Checks, Syncing, Writes DEF Down
<1>7. ASSUME NEW u \in Updater, NEW loc \in Report, Take(u, loc) PROVE Reading'
  BY <1>5, <1>7, Takes, BufferQuiet DEF OneOK, Down
<1>8. ASSUME NEW u \in Updater, MapUpdate(u) PROVE Reading'
  <2>1. ~Down /\ pc' = pc /\ toload' = toload
    BY <1>8, BufferQuiet DEF MapUpdate, OneOK, ThreadsOK
  <2> QED
    BY <1>5, <2>1 DEF Down
<1>9. ASSUME NEW u \in Updater, PoolUpdate(u) \/ SyncUpdate(u) PROVE Reading'
  <2>1. ~Down /\ pc' = pc /\ toload' = toload
    BY <1>9, Pools, Syncs DEF dbvars
  <2> QED
    BY <1>5, <2>1 DEF Down
<1>10. CASE Crash
  <2>1. /\ pc' = "down" /\ toload' = {} /\ locs' = << >> /\ grid' = DefaultGrid /\ ~partial'
        /\ restored' = {} /\ pool' = [d \in Device |-> None]
    BY <1>10, Crashes
  <2> QED
    BY <2>1 DEF Reading
<1> QED
  BY <1>1, <1>2, <1>3, <1>4, <1>6, <1>7, <1>8, <1>9, <1>10 DEF Next, Starting, Decoder

(* What a query finds of a device is never replaced by an older report, and*)
(* never gets out of reach.                                                *)
LEMMA Grows ==
    ASSUME OneDecoder, HandsOK, DBP!IInv, OneOK, NEW u \in Updater, MapUpdate(u), MapOK',
           NEW c \in Cell, NEW d \in Device, Map!InCell(c, d) # None
    PROVE  /\ Map!InCell(c, d)' # None /\ Map!InCell(c, d).n <= Map!InCell(c, d)'.n
           /\ Map!InCell(c, d).n \in Nat /\ Map!InCell(c, d)'.n \in Nat
<1>0. /\ MapOK /\ Len(objs) \in Nat /\ Map!Absent = 0 /\ Map!Null = -1
      /\ cells \in [Cell -> Map!Null .. Len(objs)]
      /\ upc \in [Updater -> {"idle", "find", "link", "assign", "cell"}]
  BY CellsTyped DEF OneOK, MapOK
<1>1. cells[c] \in 1 .. Len(objs) /\ Map!InCell(c, d) = objs[cells[c]][d]
  BY <1>0, CellsTyped
<1>2. /\ lpc[u] = "map" /\ uloc[u] \in Report /\ uloc[u] = lloc[u] /\ HomeCell(u) \in Cell
      /\ Makes(u) \/ Meets(u) \/ Links(u) \/ Assigns(u) \/ Stores(u)
  BY MapEnds DEF OneOK
<1>3. cells'[c] = cells[c]
  <2>1. CASE Links(u)
    <3>1. cells[HomeCell(u)] = Map!Absent
      BY <2>1 DEF OneOK, CellsOK, Links, HomeCell
    <3>2. c # HomeCell(u)
      BY <1>0, <1>1, <3>1
    <3> QED
      BY <1>0, <2>1, <3>2 DEF Links
  <2>2. CASE Assigns(u)
    <3>1. cells[HomeCell(u)] = Map!Null
      BY <2>2 DEF OneOK, CellsOK, Assigns, HomeCell
    <3>2. c # HomeCell(u)
      BY <1>0, <1>1, <3>1
    <3> QED
      BY <1>0, <2>2, <3>2 DEF Assigns
  <2> QED
    BY <1>2, <2>1, <2>2 DEF Makes, Meets, Stores
<1>4. Len(objs') \in Nat /\ cells[c] \in 1 .. Len(objs')
  BY <1>0, <1>1, Changes
<1>5. Map!InCell(c, d)' = objs'[cells[c]][d]
  BY <1>0, <1>3, <1>4 DEF Map!InCell
<1>6. objs[cells[c]][d].n < uloc[u].n /\ objs[cells[c]][d].n \in Nat /\ uloc[u].n \in Nat
  <2>1. objs[cells[c]][d] # None /\ objs[cells[c]][d] \in Report
    BY <1>0, <1>1, CellsTyped DEF MaybeReport
  <2>2. uloc[u].n = sent /\ objs[cells[c]][d].n < sent
    BY <1>1, <1>2, <2>1 DEF OneOK, AgesOK, ThreadsOK
  <2> QED
    BY <1>2, <2>1, <2>2, Reports
<1>7. objs'[cells[c]][d] = objs[cells[c]][d] \/ objs'[cells[c]][d] = uloc[u]
  BY <1>1, <1>4, Changes
<1>8. uloc[u] # None
  BY <1>2, Reports
<1> QED
  BY <1>1, <1>5, <1>6, <1>7, <1>8

LEMMA NextLocated ==
    ASSUME OneDecoder, HandsOK, DBP!IInv, OneOK, [Next]_vars
    PROVE  Located'
<1>0. /\ Located /\ MapOK /\ pool \in [Device -> MaybeReport]
      /\ lpc \in [Updater -> {"idle", "map", "pool", "sync"}]
      /\ lloc \in [Updater -> MaybeReport] /\ grid \in [Pos -> Cell]
      /\ \A u, v \in Updater : u = v
      /\ \A d \in Device : pool[d] # None => pool[d] \in Report /\ pool[d].dev = d
                                             /\ pool[d].pos \in Pos /\ pool[d].n \in Nat
  BY Reports DEF OneOK, HandsOK, OneDecoder, ServerOK, MapCells, MaybeReport, MapOK
<1>m. MapOK'
  BY NextMap
<1>1. CASE Open \/ Check \/ Sync2db \/ ConnLost \/ UNCHANGED vars
  <2>1. (Down' <=> Down) /\ UNCHANGED <<pool, lpc, lloc, restored, grid, cells, objs>>
    BY <1>1, DownStays, ServerQuiet, MapQuiet
  <2> QED
    BY <1>0, <2>1 DEF Located, At, Map!InCell
<1>2. CASE Start
  <2>1. /\ Down /\ ~Down' /\ grid' = Configured /\ UNCHANGED <<pool, lpc, lloc, restored, cells, objs>>
    BY <1>2, DownStays, Starts, ServerQuiet
  <2>2. \A u \in Updater : lpc[u] = "idle"
    BY <2>1 DEF OneOK, ThreadsOK
  <2>3. ASSUME NEW d \in Device, pool[d] # None
        PROVE  \/ At(pool[d])'
               \/ d \in restored /\ DefaultGrid[pool[d].pos] # Configured[pool[d].pos]
    <3>1. At(pool[d]) /\ d \in restored /\ grid = DefaultGrid
      BY <2>1, <2>3 DEF OneOK, Located, Reading
    <3> QED
      BY <2>1, <3>1 DEF At, Map!InCell
  <2> QED
    BY <2>1, <2>2, <2>3 DEF Located
<1>3. ASSUME NEW doc \in toload, Restore(doc) PROVE Located'
  <2>1. /\ Down /\ Down' /\ UNCHANGED <<grid, lpc, lloc>> /\ doc.loc \in Report
        /\ doc.loc.dev \in Device /\ pool' = [pool EXCEPT ![doc.loc.dev] = doc.loc]
    BY <1>3, Restores DEF Down
  <2>2. \A u \in Updater : lpc[u] = "idle"
    BY <2>1 DEF OneOK, ThreadsOK
  <2>3. At(doc.loc)'
    <3>1. /\ Map!Absent = 0 /\ Map!Null = -1 /\ grid[doc.loc.pos] \in Cell
          /\ Len(objs') \in Nat
          /\ cells'[grid[doc.loc.pos]] \in 1 .. Len(objs')
          /\ objs'[cells'[grid[doc.loc.pos]]][doc.loc.dev] = doc.loc
      BY <1>0, <1>3, Placed, Restores, CellsTyped
    <3>2. doc.loc # None /\ doc.loc.n \in Nat
      BY <2>1, Reports
    <3> QED
      BY <2>1, <3>1, <3>2 DEF At, Map!InCell
  <2>4. ASSUME NEW d \in Device, d # doc.loc.dev, pool[d] # None PROVE At(pool[d])'
    <3>1. At(pool[d]) /\ grid[pool[d].pos] \in Cell /\ pool[d].dev = d
      BY <1>0, <2>1, <2>4 DEF Located
    <3>2. PICK c \in Cell : c = grid[pool[d].pos]
      BY <3>1
    <3>3. /\ cells[c] \in 1 .. Len(objs) /\ Len(objs) \in Nat /\ Map!Absent = 0 /\ Map!Null = -1
          /\ objs[cells[c]][d] # None /\ pool[d].n <= objs[cells[c]][d].n
      BY <1>0, <3>1, <3>2, CellsTyped DEF At
    <3>4. PICK o \in 1 .. Len(objs) : o = cells[c]
      BY <3>3
    <3>5. cells'[c] = o /\ o \in 1 .. Len(objs') /\ objs'[o][d] = objs[o][d]
      <4>1. cells[c] # Map!Absent
        BY <3>3
      <4>2. cells'[c] = cells[c] /\ Len(objs) <= Len(objs') /\ Len(objs') \in Nat
        BY <1>3, <4>1, Placed
      <4>3. o \in 1 .. Len(objs')
        BY <3>3, <4>2
      <4> QED
        BY <1>3, <2>4, <3>4, <4>2, <4>3, Placed
    <3>6. pool'[d] = pool[d] /\ grid'[pool'[d].pos] = c /\ pool'[d].dev = d
      BY <1>0, <2>1, <2>4, <3>1, <3>2
    <3>7. o \notin {Map!Absent, Map!Null}
      BY <3>3
    <3>8. /\ cells'[grid'[pool'[d].pos]] \notin {Map!Absent, Map!Null}
          /\ objs'[cells'[grid'[pool'[d].pos]]][pool'[d].dev] # None
          /\ pool'[d].n <= objs'[cells'[grid'[pool'[d].pos]]][pool'[d].dev].n
      BY <3>3, <3>4, <3>5, <3>6, <3>7
    <3> QED
      BY <3>8 DEF At, Map!InCell
  <2>5. ASSUME NEW d \in Device, pool'[d] # None PROVE At(pool[d])'
    <3>1. CASE d = doc.loc.dev
      <4>1. pool'[d] = doc.loc
        BY <1>0, <2>1, <3>1
      <4> QED
        BY <2>3, <4>1 DEF At
    <3>2. CASE d # doc.loc.dev
      <4>1. pool'[d] = pool[d]
        BY <1>0, <2>1, <3>2
      <4> QED
        BY <2>4, <2>5, <3>2, <4>1
    <3> QED
      BY <3>1, <3>2
  <2> QED
    BY <2>1, <2>2, <2>5 DEF Located
<1>4. ASSUME NEW u \in Updater, NEW loc \in Report, Take(u, loc) PROVE Located'
  <2>1. /\ ~Down /\ lpc[u] = "idle" /\ lpc'[u] = "map"
        /\ UNCHANGED <<pc, grid, cells, objs, pool, restored>>
    BY <1>0, <1>4, Takes DEF dbvars
  <2>2. \A v \in Updater : lpc'[v] # "pool"
    BY <1>0, <2>1
  <2> QED
    BY <1>0, <2>1, <2>2 DEF Located, Down, At, Map!InCell
<1>5. ASSUME NEW u \in Updater, MapUpdate(u) PROVE Located'
  <2>1. /\ lpc[u] = "map" /\ uloc[u] = lloc[u] /\ uloc[u] \in Report /\ HomeCell(u) \in Cell
        /\ UNCHANGED <<pc, pool, lloc, restored, grid>>
        /\ Makes(u) \/ Meets(u) \/ Links(u) \/ Assigns(u) \/ Stores(u)
    BY <1>5, MapEnds DEF OneOK, dbvars
  <2>2. ASSUME NEW r \in Report, At(r) PROVE At(r)'
    <3>1. grid[r.pos] \in Cell /\ r.dev \in Device /\ r.n \in Nat
      BY <1>0, Reports
    <3>2. PICK c \in Cell : c = grid[r.pos]
      BY <3>1
    <3>3. Map!InCell(c, r.dev) # None /\ r.n <= Map!InCell(c, r.dev).n
      BY <2>2, <3>2 DEF At
    <3>4. /\ Map!InCell(c, r.dev)' # None /\ Map!InCell(c, r.dev).n <= Map!InCell(c, r.dev)'.n
          /\ Map!InCell(c, r.dev).n \in Nat /\ Map!InCell(c, r.dev)'.n \in Nat
      BY <1>m, <1>5, <3>1, <3>3, Grows
    <3>5. r.n <= Map!InCell(c, r.dev)'.n
      BY <3>1, <3>3, <3>4
    <3>6. grid'[r.pos] = c
      BY <2>1, <3>2
    <3> QED
      BY <3>4, <3>5, <3>6 DEF At, Map!InCell
  <2>3. ASSUME NEW d \in Device, pool'[d] # None
        PROVE  \/ At(pool[d])'
               \/ ~Down' /\ d \in restored' /\ DefaultGrid[pool'[d].pos] # Configured[pool'[d].pos]
    <3>1. PICK r \in Report : r = pool[d]
      BY <1>0, <2>1, <2>3
    <3>2. CASE At(r)
      BY <2>1, <2>2, <3>1, <3>2 DEF At
    <3>3. CASE ~At(r)
      BY <1>0, <2>1, <2>3, <3>1, <3>3 DEF Located, Down
    <3> QED
      BY <3>2, <3>3
  <2>4. ASSUME lpc'[u] = "pool" PROVE At(lloc[u])'
    <3>1. Stores(u)
      BY <2>1, <2>4 DEF Makes, Meets, Links, Assigns
    <3>2. /\ uobj[u] \in 1 .. Len(objs) /\ cells[HomeCell(u)] = uobj[u] /\ cells' = cells
      BY <3>1 DEF OneOK, CellsOK, Stores, HomeCell
    <3>3. /\ Len(objs) \in Nat /\ Map!Absent = 0 /\ Map!Null = -1
          /\ objs'[uobj[u]][uloc[u].dev] = uloc[u]
      BY <1>0, <1>5, <3>1, Changes, CellsTyped
    <3>4. uloc[u] # None /\ uloc[u].n \in Nat /\ lloc'[u] = uloc[u] /\ grid' = grid
      BY <2>1, Reports
    <3>6. /\ cells'[grid'[lloc'[u].pos]] = uobj[u] /\ uobj[u] \notin {Map!Absent, Map!Null}
          /\ objs'[uobj[u]][lloc'[u].dev] = lloc'[u] /\ lloc'[u] # None
          /\ lloc'[u].n <= lloc'[u].n
      BY <3>2, <3>3, <3>4 DEF HomeCell
    <3> QED
      BY <3>6 DEF At, Map!InCell
  <2>5. \A v \in Updater : v = u
    BY <1>0
  <2>6. ~Down' => grid' = Configured
    BY <1>0, <2>1 DEF Located, Down
  <2> QED
    BY <2>3, <2>4, <2>5, <2>6 DEF Located
<1>6. ASSUME NEW u \in Updater, PoolUpdate(u) PROVE Located'
  <2>1. /\ ~Down /\ ~Down' /\ lpc[u] = "pool" /\ lloc[u] \in Report /\ lloc[u].dev \in Device
        /\ pool' = [pool EXCEPT ![lloc[u].dev] = lloc[u]]
        /\ restored' = restored \ {lloc[u].dev}
        /\ UNCHANGED <<grid, cells, objs, lloc>>
        /\ lpc' = [lpc EXCEPT ![u] = "idle"] \/ lpc' = [lpc EXCEPT ![u] = "sync"]
    BY <1>6, Pools, Reports DEF dbvars, mapvars, Down, HandsOK
  <2>2. \A v \in Updater : lpc'[v] # "pool"
    BY <1>0, <2>1
  <2>3. At(lloc[u])
    BY <1>0, <2>1 DEF Located
  <2>4. ASSUME NEW d \in Device, pool'[d] # None
        PROVE  \/ At(pool[d])'
               \/ d \in restored' /\ DefaultGrid[pool'[d].pos] # Configured[pool'[d].pos]
    <3>1. CASE d = lloc[u].dev
      <4>1. pool'[d] = lloc[u]
        BY <1>0, <2>1, <3>1
      <4> QED
        BY <2>1, <2>3, <4>1 DEF At, Map!InCell
    <3>2. CASE d # lloc[u].dev
      <4>1. pool'[d] = pool[d] /\ (d \in restored' <=> d \in restored)
        BY <1>0, <2>1, <3>2
      <4>2. \/ At(pool[d])
            \/ d \in restored /\ DefaultGrid[pool[d].pos] # Configured[pool[d].pos]
        BY <1>0, <2>4, <4>1 DEF Located
      <4> QED
        BY <2>1, <4>1, <4>2 DEF At, Map!InCell
    <3> QED
      BY <3>1, <3>2
  <2> QED
    BY <1>0, <2>1, <2>2, <2>4 DEF Located
<1>7. ASSUME NEW u \in Updater, SyncUpdate(u) PROVE Located'
  <2>1. /\ ~Down /\ UNCHANGED <<pc, pool, lloc, restored, grid, cells, objs>>
        /\ lpc' = [lpc EXCEPT ![u] = "idle"]
    BY <1>7, Syncs, MapQuiet
  <2>2. \A v \in Updater : lpc'[v] # "pool"
    BY <1>0, <2>1
  <2> QED
    BY <1>0, <2>1, <2>2 DEF Located, Down, At, Map!InCell
<1>8. CASE Crash
  <2>1. /\ pc' = "down" /\ pool' = [d \in Device |-> None] /\ lpc' = [u \in Updater |-> "idle"]
    BY <1>8, Crashes
  <2> QED
    BY <2>1 DEF Located, Down
<1> QED
  BY <1>1, <1>2, <1>3, <1>4, <1>5, <1>6, <1>7, <1>8 DEF Next, Starting, Decoder

(* What whereis() tells never gets older while the process runs.           *)
LEMMA ToldStays ==
    ASSUME OneDecoder, HandsOK, DBP!IInv, OneOK, [Next]_vars, ~Crash,
           NEW e \in Entries, Told(e)
    PROVE  Told(e)'
<1>0. /\ pool \in [Device -> MaybeReport] /\ e.loc.dev \in Device
      /\ pool[e.loc.dev] # None /\ e.loc.n <= pool[e.loc.dev].n
  BY EntriesTyped DEF OneOK, ServerOK, MapCells, Told
<1>1. CASE pool' = pool
  BY <1>1 DEF Told
<1>2. ASSUME NEW doc \in toload, Restore(doc) PROVE Told(e)'
  <2>1. pool' = [pool EXCEPT ![doc.loc.dev] = doc.loc] /\ pool[doc.loc.dev] = None
    BY <1>2, Restores
  <2>2. pool'[e.loc.dev] = pool[e.loc.dev]
    BY <1>0, <2>1
  <2> QED
    BY <1>0, <2>2 DEF Told
<1>3. ASSUME NEW u \in Updater, PoolUpdate(u) PROVE Told(e)'
  <2>1. /\ pool' = [pool EXCEPT ![lloc[u].dev] = lloc[u]]
        /\ lloc[u] \in Report /\ lloc[u].n = sent
    BY <1>3, Pools DEF HandsOK, OneOK, ThreadsOK
  <2>2. lloc[u] # None /\ e.loc.n <= sent
    BY <2>1, Reports DEF OneOK, AgesOK
  <2>3. pool'[e.loc.dev] = pool[e.loc.dev] \/ pool'[e.loc.dev] = lloc[u]
    BY <1>0, <2>1
  <2> QED
    BY <1>0, <2>1, <2>2, <2>3 DEF Told
<1>4. ASSUME NEW u \in Updater, MapUpdate(u) \/ SyncUpdate(u) \/ \E loc \in Report : Take(u, loc)
      PROVE  pool' = pool
  BY <1>4 DEF MapUpdate, SyncUpdate, Take
<1> QED
  BY <1>1, <1>2, <1>3, <1>4, ServerQuiet DEF Next, Starting, Decoder

LEMMA HandedOver ==
    ASSUME OneDecoder, HandsOK, DBP!IInv, OneOK, [Next]_vars
    PROVE  \A u \in Updater : lpc'[u] = "sync" => pool'[lloc'[u].dev] = lloc'[u]
<1>0. /\ pool \in [Device -> MaybeReport] /\ lpc \in [Updater -> {"idle", "map", "pool", "sync"}]
      /\ \A u \in Updater : lpc[u] = "sync" => pool[lloc[u].dev] = lloc[u]
      /\ \A u, v \in Updater : u = v
  BY DEF OneOK, ServerOK, MapCells, HandsOK, Covered, OneDecoder
<1>1. CASE Open \/ Start \/ Check \/ Sync2db \/ ConnLost \/ UNCHANGED vars
  BY <1>0, <1>1, ServerQuiet
<1>2. CASE (\E doc \in toload : Restore(doc)) \/ Crash
  <2>1. \A u \in Updater : lpc'[u] = "idle"
    BY <1>2, Restores, Crashes DEF OneOK, ThreadsOK, Down
  <2> QED
    BY <2>1
<1>3. ASSUME NEW u \in Updater, MapUpdate(u) \/ SyncUpdate(u) \/ \E loc \in Report : Take(u, loc)
      PROVE  lpc'[u] # "sync"
  BY <1>0, <1>3 DEF MapUpdate, SyncUpdate, Take
<1>4. ASSUME NEW u \in Updater, PoolUpdate(u) PROVE pool'[lloc'[u].dev] = lloc'[u]
  <2>1. pool' = [pool EXCEPT ![lloc[u].dev] = lloc[u]] /\ lloc' = lloc /\ lloc[u].dev \in Device
    BY <1>4, Pools, Reports DEF HandsOK
  <2> QED
    BY <1>0, <2>1
<1> QED
  BY <1>0, <1>1, <1>2, <1>3, <1>4 DEF Next, Starting, Decoder

LEMMA NextCovered ==
    ASSUME OneDecoder, HandsOK, DBP!IInv, OneOK, [Next]_vars
    PROVE  Covered'
<1>0. /\ \A e \in Buffered : Told(e)
      /\ ~Down /\ ~partial => \A e \in Logged \union snapshot : Told(e)
      /\ \A e \in Buffered \union Logged \union snapshot : e \in Entries
  BY DEF OneOK, Covered, Entries
<1>1. \A u \in Updater : lpc'[u] = "sync" => pool'[lloc'[u].dev] = lloc'[u]
  BY HandedOver
<1>2. ASSUME ~Crash, NEW e \in Entries, Told(e) PROVE Told(e)'
  BY <1>2, ToldStays
<1>3. CASE Crash
  <2>1. Buffered' = {} /\ Down'
    BY <1>3, Crashes, ElemsEmpty DEF Buffered, Down
  <2> QED
    BY <1>1, <2>1 DEF Covered
<1>4. CASE Start
  <2>1. /\ ~Crash /\ pool' = pool /\ partial' = (toload # {}) /\ Down /\ pc = "loading"
        /\ UNCHANGED <<locs, batch, history, snapshot>>
    BY <1>4, Starts, ServerQuiet, Crashes DEF Down
  <2>2. Buffered' = Buffered /\ Logged' = Logged
    BY <2>1 DEF Buffered, Logged
  <2>3. ASSUME ~partial', NEW doc \in snapshot PROVE Told(doc)
    <3>1. doc.loc.dev \in restored
      BY <2>1, <2>3 DEF OneOK, Reading
    <3>2. PICK e \in snapshot : e.loc.dev = doc.loc.dev /\ pool[e.loc.dev] = e.loc
      BY <2>1, <3>1 DEF OneOK, Reading
    <3>3. e = doc /\ doc.loc \in Report /\ doc.loc.n \in Nat
      BY <3>2, EntriesTyped DEF Entries
    <3> QED
      BY <3>2, <3>3, Reports DEF Told
  <2>4. ASSUME ~partial', NEW e \in Logged PROVE Told(e)
    <3>1. PICK i \in DOMAIN history : e = history[i]
      BY DEF Logged, Elems
    <3>2. e \in Entries /\ e.loc.dev \in Device /\ e.no \in Nat /\ e.loc.n \in Nat
      BY EntriesTyped DEF Entries
    <3>3. PICK doc \in snapshot : doc.loc.dev = e.loc.dev /\ doc.no >= e.no
      BY <3>1 DEF DBP!IInv, DBP!Snapped, DBP!SnapshotCoversLog, DBP!Docs
    <3>4. doc \in Entries /\ doc.no \in Nat /\ doc.loc.n \in Nat
      BY EntriesTyped DEF Entries
    <3>5. e.loc.n <= doc.loc.n
      BY <3>2, <3>3, <3>4 DEF OneOK, Paired
    <3>6. pool[doc.loc.dev] # None /\ doc.loc.n <= pool[doc.loc.dev].n
      BY <2>3, <2>4 DEF Told
    <3>7. pool[doc.loc.dev].n \in Nat
      BY <3>2, <3>3, <3>6, Reports DEF OneOK, ServerOK, MapCells, MaybeReport
    <3> QED
      BY <3>2, <3>3, <3>4, <3>5, <3>6, <3>7 DEF Told
  <2>5. \A e \in Entries : Told(e) => Told(e)'
    BY <1>2, <2>1
  <2> QED
    BY <1>0, <1>1, <2>1, <2>2, <2>3, <2>4, <2>5 DEF Covered
<1>5. ASSUME NEW u \in Updater, SyncUpdate(u) PROVE Covered'
  <2> DEFINE new == [loc |-> lloc[u], no |-> accepted + 1]
  <2>1. /\ ~Crash /\ (Down' <=> Down) /\ lpc[u] = "sync" /\ lloc[u] \in Report
        /\ Elems(locs') = Elems(locs) \union {new}
        /\ UNCHANGED <<batch, history, snapshot, partial, pool>>
    BY <1>5, Syncs DEF Down, Crash, DB!Crash
  <2>2. new.loc = lloc[u] /\ pool[lloc[u].dev] = lloc[u] /\ lloc[u] # None /\ lloc[u].n \in Nat
    BY <2>1, Reports DEF OneOK, Covered
  <2> HIDE DEF new
  <2>3. (\A e \in Buffered' : e \in Buffered \/ e = new) /\ Logged' = Logged
    BY <2>1 DEF Buffered, Logged
  <2>4. pool'[new.loc.dev] # None /\ new.loc.n <= pool'[new.loc.dev].n
    BY <2>1, <2>2
  <2>5. \A e \in Entries : Told(e) => Told(e)'
    BY <1>2, <2>1
  <2>6. ASSUME NEW e \in Buffered' PROVE Told(e)'
    <3>1. CASE e = new
      BY <2>4, <3>1 DEF Told
    <3> QED
      BY <1>0, <2>3, <2>5, <3>1
  <2> QED
    BY <1>0, <1>1, <2>1, <2>3, <2>5, <2>6 DEF Covered
<1>6. CASE Sync2db
  <2>1. /\ ~Crash /\ ~Down /\ partial' = partial
        /\ \A e \in Buffered' : e \in Buffered
        /\ \A e \in Logged' : e \in Logged \/ e \in Buffered
        /\ \A e \in snapshot' : e \in snapshot \/ e \in Buffered
    BY <1>6, Syncing, Writes DEF Written, Crash, DB!Crash, Down
  <2>2. \A e \in Entries : Told(e) => Told(e)'
    BY <1>2, <2>1
  <2> QED
    BY <1>0, <1>1, <2>1, <2>2 DEF Covered
<1>7. ASSUME ~Crash, Down' <=> Down, Buffered' = Buffered,
             UNCHANGED <<history, snapshot, partial>>
      PROVE  Covered'
  <2>1. \A e \in Entries : Told(e) => Told(e)'
    BY <1>2, <1>7
  <2>2. Logged' = Logged
    BY <1>7 DEF Logged
  <2> QED
    BY <1>0, <1>1, <1>7, <2>1, <2>2 DEF Covered
<1>8. CASE Open \/ Check \/ ConnLost \/ UNCHANGED vars
  <2>1. Down' <=> Down
    BY <1>8, DownStays
  <2>2. Buffered' = Buffered /\ UNCHANGED <<history, snapshot, partial>>
    BY <1>8, Opens, Checks, Loses, BufferQuiet DEF Buffered
  <2> QED
    BY <1>3, <1>7, <2>1, <2>2
<1>9. ASSUME NEW doc \in toload, Restore(doc) PROVE Covered'
  <2>1. UNCHANGED <<pc, locs, batch, history, snapshot, partial>>
    BY <1>9, Restores
  <2> QED
    BY <1>3, <1>7, <2>1 DEF Buffered, Down
<1>10. ASSUME NEW u \in Updater,
              MapUpdate(u) \/ PoolUpdate(u) \/ \E loc \in Report : Take(u, loc)
       PROVE  Covered'
  <2>1. UNCHANGED <<pc, locs, batch, history, snapshot, partial>>
    BY <1>10, BufferQuiet
  <2> QED
    BY <1>3, <1>7, <2>1 DEF Buffered, Down
<1> QED
  BY <1>3, <1>4, <1>5, <1>6, <1>8, <1>9, <1>10 DEF Next, Starting, Decoder

(* A report on its way to the tables stays on it while there is no fault,  *)
(* and one that the pool holds is not replaced there before a newer one is *)
(* in the pool.                                                            *)
LEMMA StockStays ==
    ASSUME OneDecoder, HandsOK, DBP!IInv, OneOK, Sync2db, conn = "ok", ~partial,
           NEW e \in Buffered \union snapshot, pool[e.loc.dev] = e.loc
    PROVE  e \in Buffered' \union snapshot'
<1>1. /\ ~Down
      /\ snapshot' = snapshot \/ \E f \in Buffered : Written(f)
      /\ \A f \in Buffered : f \notin Buffered' =>
            \E doc \in snapshot' : doc.loc.dev = f.loc.dev /\ f.no <= doc.no
  BY Syncing, Writes
<1>2. /\ \A f \in Buffered \union snapshot : f \in Entries /\ Told(f)
      /\ \A f \in Entries : f.loc.dev \in Device /\ f.loc.n \in Nat /\ f.no \in Nat
      /\ \A f, g \in Entries :
            (f.no <= g.no <=> f.loc.n <= g.loc.n) /\ (f.no = g.no => f = g)
  BY <1>1, EntriesTyped DEF OneOK, Covered, Paired, Entries
<1>3. \A f \in Buffered \union snapshot : f.loc.dev = e.loc.dev => f.no <= e.no
  BY <1>2 DEF Told
<1>4. CASE e \in Buffered
  <2>1. SUFFICES ASSUME e \notin Buffered' PROVE e \in snapshot'
    OBVIOUS
  <2>2. PICK doc \in snapshot' : doc.loc.dev = e.loc.dev /\ e.no <= doc.no
    BY <1>1, <1>4, <2>1
  <2>3. doc \in Buffered \union snapshot
    BY <1>1 DEF Written
  <2>4. doc.no <= e.no /\ doc.no \in Nat /\ e.no \in Nat
    BY <1>2, <1>3, <2>2, <2>3
  <2>5. doc.no = e.no
    BY <2>2, <2>4
  <2>6. doc = e
    BY <1>2, <2>3, <2>5
  <2> QED
    BY <2>2, <2>6
<1>5. CASE e \in snapshot
  <2>1. ASSUME NEW f \in Buffered, Written(f) PROVE e \in snapshot'
    <3>1. e.no < f.no /\ f.no \in Nat /\ e.no \in Nat
      BY <1>2, <1>5, <2>1 DEF Written
    <3>2. f.loc.dev # e.loc.dev
      BY <1>3, <3>1
    <3> QED
      BY <1>5, <2>1, <3>2 DEF Written
  <2> QED
    BY <1>1, <1>5, <2>1
<1> QED
  BY <1>4, <1>5

LEMMA NextStocked ==
    ASSUME OneDecoder, HandsOK, DBP!IInv, OneOK, [Next]_vars
    PROVE  Stocked'
<1> SUFFICES ASSUME Steady' PROVE Stocked'
  BY DEF Stocked
<1>0. /\ pool \in [Device -> MaybeReport] /\ lpc \in [Updater -> {"idle", "map", "pool", "sync"}]
      /\ \A u, v \in Updater : u = v
      /\ \A d \in Device : pool[d] # None => pool[d].dev = d
      /\ losses \in Nat /\ crashes \in Nat
  BY DEF OneOK, ServerOK, MapCells, HandsOK, OneDecoder, DBP!IInv, DBP!TypeOK
<1>1. ASSUME UNCHANGED <<losses, crashes>>
      PROVE  /\ Steady /\ ~partial /\ (pc # "down" => conn = "ok")
             /\ dbsync /\ ~Down =>
                   \A d \in Device : pool[d] # None =>
                       \/ \E e \in Buffered \union snapshot : e.loc = pool[d]
                       \/ \E u \in Updater : lpc[u] = "sync" /\ lloc[u] = pool[d]
  BY <1>1 DEF OneOK, Stocked, Steady
<1>2. ASSUME UNCHANGED <<losses, crashes, pc, conn, partial, dbsync>>
      PROVE  ~partial' /\ (pc' # "down" => conn' = "ok")
  BY <1>1, <1>2
<1>3. CASE ConnLost \/ Crash
  BY <1>0, <1>3, Loses, Crashes DEF Steady
<1>4. CASE Open
  <2>1. Down' /\ conn' = "ok" /\ UNCHANGED <<losses, crashes, partial>>
    BY <1>4, Opens DEF Down
  <2> QED
    BY <1>1, <2>1 DEF Stocked
<1>5. ASSUME NEW doc \in toload, Restore(doc) PROVE Stocked'
  <2>1. UNCHANGED <<losses, crashes, pc, conn, partial, dbsync>> /\ Down'
    BY <1>5, Restores DEF Down
  <2> QED
    BY <1>2, <2>1 DEF Stocked
<1>6. CASE Start
  <2>1. /\ Down /\ pc = "loading"
        /\ toload = {} \/ conn # "ok"
        /\ conn' = conn \/ conn # "ok"
        /\ partial' = (toload # {})
        /\ UNCHANGED <<losses, crashes, locs, batch, snapshot, pool>>
    BY <1>6, Starts, ServerQuiet DEF Down
  <2>2. conn = "ok"
    BY <1>1, <2>1
  <2>3. conn' = "ok" /\ ~partial'
    BY <2>1, <2>2
  <2>4. ASSUME NEW d \in Device, pool[d] # None
        PROVE  \E e \in snapshot : e.loc = pool[d]
    <3>1. d \in restored
      BY <2>1, <2>4 DEF OneOK, Reading
    <3> QED
      BY <2>1, <3>1 DEF OneOK, Reading
  <2> QED
    BY <2>1, <2>3, <2>4 DEF Stocked
<1>7. CASE Check
  <2>1. /\ Buffered' = Buffered /\ ~Down /\ pc' # "down"
        /\ UNCHANGED <<conn, snapshot, losses, crashes, dbsync, partial, pool, lpc, lloc>>
    BY <1>7, Checks, ServerQuiet DEF Down
  <2> QED
    BY <1>1, <2>1 DEF Stocked, Down
<1>8. CASE Sync2db
  <2>1. /\ ~Down /\ UNCHANGED <<losses, crashes, dbsync, partial, pool, lpc, lloc>>
    BY <1>8, Syncing, Writes, ServerQuiet
  <2>2. conn = "ok" /\ ~partial /\ conn' = "ok"
    BY <1>1, <1>8, <2>1, Syncing, Writes DEF Down
  <2>3. ASSUME NEW d \in Device, pool[d] # None, NEW e \in Buffered \union snapshot, e.loc = pool[d]
        PROVE  e \in Buffered' \union snapshot'
    BY <1>0, <1>8, <2>2, <2>3, StockStays
  <2> QED
    BY <1>1, <2>1, <2>2, <2>3 DEF Stocked
<1>9. CASE UNCHANGED vars
  <2>1. /\ UNCHANGED <<pc, locs, batch, conn, snapshot, losses, crashes, dbsync, partial>>
        /\ UNCHANGED <<pool, lpc, lloc>>
    BY <1>9, BufferQuiet, ServerQuiet
  <2> QED
    BY <1>1, <2>1 DEF Stocked, Down, Buffered
<1>10. ASSUME NEW u \in Updater, MapUpdate(u) \/ \E loc \in Report : Take(u, loc) PROVE Stocked'
  <2>1. /\ UNCHANGED <<pc, locs, batch, conn, snapshot, losses, crashes, dbsync, partial, pool>>
        /\ lpc[u] # "sync"
    BY <1>10, BufferQuiet DEF MapUpdate, Take
  <2>2. \A v \in Updater : lpc[v] # "sync"
    BY <1>0, <2>1
  <2> QED
    BY <1>1, <2>1, <2>2 DEF Stocked, Down, Buffered
<1>11. ASSUME NEW u \in Updater, PoolUpdate(u) PROVE Stocked'
  <2>1. /\ UNCHANGED <<pc, locs, batch, conn, snapshot, losses, crashes, dbsync, partial, lloc>>
        /\ ~Down /\ lpc[u] = "pool"
        /\ pool' = [pool EXCEPT ![lloc[u].dev] = lloc[u]]
        /\ lpc' = [lpc EXCEPT ![u] = IF dbsync THEN "sync" ELSE "idle"]
    BY <1>11, Pools, BufferQuiet
  <2>2. \A v \in Updater : lpc[v] # "sync"
    BY <1>0, <2>1
  <2>3. ASSUME dbsync, NEW d \in Device, pool'[d] # None
        PROVE  \/ \E e \in Buffered \union snapshot : e.loc = pool'[d]
               \/ \E v \in Updater : lpc'[v] = "sync" /\ lloc[v] = pool'[d]
    <3>1. CASE d = lloc[u].dev
      <4>1. pool'[d] = lloc[u] /\ lpc'[u] = "sync"
        BY <1>0, <2>1, <2>3, <3>1
      <4> QED
        BY <4>1
    <3>2. CASE d # lloc[u].dev
      <4>1. pool'[d] = pool[d]
        BY <1>0, <2>1, <3>2
      <4> QED
        BY <1>1, <2>1, <2>2, <2>3, <4>1
    <3> QED
      BY <3>1, <3>2
  <2>4. ~partial' /\ (pc' # "down" => conn' = "ok")
    BY <1>2, <2>1
  <2> QED
    BY <2>1, <2>3, <2>4 DEF Stocked, Down, Buffered
<1>12. ASSUME NEW u \in Updater, SyncUpdate(u) PROVE Stocked'
  <2> DEFINE new == [loc |-> lloc[u], no |-> accepted + 1]
  <2>1. /\ UNCHANGED <<pc, batch, conn, snapshot, losses, crashes, dbsync, partial, lloc, pool>>
        /\ ~Down /\ Elems(locs') = Elems(locs) \union {new}
    BY <1>12, Syncs
  <2>2. new.loc = lloc[u]
    OBVIOUS
  <2> HIDE DEF new
  <2>3. Buffered' = Buffered \union {new}
    BY <2>1 DEF Buffered
  <2>4. ASSUME dbsync, NEW d \in Device, pool[d] # None
        PROVE  \E e \in Buffered' \union snapshot : e.loc = pool[d]
    <3>1. CASE \E e \in Buffered \union snapshot : e.loc = pool[d]
      BY <2>3, <3>1
    <3>2. CASE \E v \in Updater : lpc[v] = "sync" /\ lloc[v] = pool[d]
      <4>1. lloc[u] = pool[d]
        BY <1>0, <3>2
      <4> QED
        BY <2>2, <2>3, <4>1
    <3> QED
      BY <1>1, <2>1, <2>4, <3>1, <3>2
  <2>5. ~partial' /\ (pc' # "down" => conn' = "ok")
    BY <1>2, <2>1
  <2> QED
    BY <2>1, <2>4, <2>5 DEF Stocked, Down
<1> QED
  BY <1>3, <1>4, <1>5, <1>6, <1>7, <1>8, <1>9, <1>10, <1>11, <1>12 DEF Next, Starting, Decoder

LEMMA InitOne == Init => OneOK
<1> SUFFICES ASSUME Init PROVE OneOK
  OBVIOUS
<1>1. /\ pc = "down" /\ locs = << >> /\ batch = << >> /\ toload = {} /\ snapshot = {}
      /\ history = << >> /\ grid = DefaultGrid /\ cells = [c \in Cell |-> Map!Absent]
      /\ objs = << >> /\ upc = [u \in Updater |-> "idle"]
      /\ uloc = [u \in Updater |-> None] /\ uobj = [u \in Updater |-> Map!Absent]
      /\ sent = 0 /\ ~crashed /\ pool = Nobody /\ lpc = [u \in Updater |-> "idle"]
      /\ lloc = [u \in Updater |-> None] /\ dbsync = FALSE /\ restored = {} /\ ~partial
  BY DEF Init, DB!Init
<1>2. Entries = {} /\ Buffered = {} /\ Logged = {} /\ Down
  BY <1>1, ElemsEmpty DEF Entries, Buffered, Logged, Down
<1>3. Map!Absent = 0 /\ Map!Null = -1 /\ Len(objs) = 0 /\ objs \in Seq(MapCells)
  BY <1>1, EmptySeq DEF Map!Absent, Map!Null
<1>4. ServerOK
  BY <1>1, NobodyType DEF ServerOK
<1>5. MapOK
  BY <1>1, <1>3, GridsAssumption DEF MapOK, MaybeReport
<1>6. ThreadsOK /\ CellsOK
  BY <1>1, <1>3 DEF ThreadsOK, CellsOK
<1>7. AgesOK /\ Paired
  BY <1>1, <1>2, <1>3, NobodyType DEF AgesOK, Paired
<1>8. Reading /\ Located
  BY <1>1, <1>2, NobodyType DEF Reading, Located
<1>9. Covered /\ Stocked
  BY <1>1, <1>2 DEF Covered, Stocked
<1> QED
  BY <1>4, <1>5, <1>6, <1>7, <1>8, <1>9 DEF OneOK

LEMMA NextOne == OneDecoder /\ HandsOK /\ DBP!IInv /\ OneOK /\ [Next]_vars => OneOK'
BY NextServer, NextMap, NextThreads, NextCells, NextAges, NextPaired, NextReading, NextLocated,
   NextCovered, NextStocked DEF OneOK

(* The invariant of the server, from which the properties follow.          *)
THEOREM ServerInvariant == Spec => []IInv
<1>1. Init => IInv
  BY InitHands, InitOne DEF IInv
<1>2. IInv /\ DBP!IInv /\ [Next]_vars => IInv'
  BY NextHands, NextOne DEF IInv
<1> QED
  BY <1>1, <1>2, BufferInvariant, PTL DEF Spec
-----------------------------------------------------------------------------
(* With one decoder, what whereis() tells of a device, a spatial query     *)
(* finds where it looks for it, or something newer; but for what was read  *)
(* back under another grid.                                                *)
THEOREM PoolInMapCorrect == Spec => []PoolInMap
<1>1. IInv => PoolInMap
  <2> SUFFICES ASSUME HandsOK, OneOK, Serving, NEW d \in Device, pool[d] # None
               PROVE  \/ d \in restored /\ DefaultGrid[pool[d].pos] # Configured[pool[d].pos]
                      \/ LET there == Map!InCell(grid[pool[d].pos], d)
                         IN  there # None /\ there.n >= pool[d].n
    BY DEF IInv, PoolInMap
  <2>1. /\ pool[d].dev = d /\ pool[d].pos \in Pos /\ pool[d].n \in Nat /\ MapOK
        /\ grid[pool[d].pos] \in Cell
    BY Reports DEF OneOK, ServerOK, MapCells, MaybeReport, MapOK
  <2>2. Map!InCell(grid[pool[d].pos], d) \in MaybeReport
    BY <2>1, CellsTyped
  <2>3. CASE At(pool[d])
    <3>1. LET there == Map!InCell(grid[pool[d].pos], d)
          IN  there # None /\ pool[d].n <= there.n /\ there.n \in Nat
      BY <2>1, <2>2, <2>3, Reports DEF At, MaybeReport
    <3> QED
      BY <2>1, <3>1
  <2> QED
    BY <2>3 DEF OneOK, Located
<1> QED
  BY <1>1, ServerInvariant, PTL

(* With one decoder, whatever is buffered or stored whereis() tells, or    *)
(* something newer, after a restart that read everything as well.          *)
THEOREM PoolCoversCorrect == Spec => []PoolCoversTables
<1>1. IInv /\ DBP!IInv => PoolCoversTables
  <2> SUFFICES ASSUME HandsOK, DBP!IInv, OneOK, Serving, ~partial PROVE PoolCoversTables
    BY DEF IInv, PoolCoversTables
  <2>1. ASSUME NEW e \in Entries
        PROVE  pool[e.loc.dev] # None /\ pool[e.loc.dev].n >= e.loc.n
    <3>1. pool[e.loc.dev] # None /\ e.loc.n <= pool[e.loc.dev].n
      BY DEF OneOK, Covered, Entries, Down, Serving, Told
    <3>2. e.loc.n \in Nat /\ pool[e.loc.dev].n \in Nat
      BY <3>1, EntriesTyped, Reports DEF OneOK, ServerOK, MapCells, MaybeReport
    <3> QED
      BY <3>1, <3>2
  <2>2. /\ \A i \in DOMAIN locs : locs[i] \in Entries
        /\ \A i \in DOMAIN batch : batch[i] \in Entries
        /\ \A i \in DOMAIN history : history[i] \in Entries
        /\ \A doc \in snapshot : doc \in Entries
    BY DEF Entries, Logged, Buffered, Elems
  <2> QED
    BY <2>1, <2>2 DEF PoolCoversTables
<1> QED
  BY <1>1, ServerInvariant, BufferInvariant, PTL

(* With one decoder and no fault, the snapshot table holds at rest just    *)
(* what the pool holds.                                                    *)
THEOREM TablesAgreeCorrect == Spec => []TablesAgreeAtRest
<1>1. IInv /\ DBP!IInv => TablesAgreeAtRest
  <2> SUFFICES ASSUME HandsOK, DBP!IInv, OneOK, pc = "idle", locs = << >>, Steady, dbsync,
                      \A u \in Updater : lpc[u] = "idle"
               PROVE  {doc.loc : doc \in snapshot} = {pool[d] : d \in Device} \ {None}
    BY DEF IInv, TablesAgreeAtRest, Steady
  <2>1. Buffered = {} /\ ~Down
    BY ElemsEmpty DEF Buffered, Down, DBP!IInv, DBP!TypeOK, DBP!Writing
  <2>2. \A d \in Device : pool[d] # None => \E e \in snapshot : e.loc = pool[d]
    BY <2>1 DEF OneOK, Stocked
  <2>3. \A doc \in snapshot : Told(doc) /\ doc.loc.dev \in Device /\ doc.loc \in Report
    BY <2>1, EntriesTyped DEF OneOK, Stocked, Covered, Entries
  <2>4. ASSUME NEW doc \in snapshot
        PROVE  \E d \in Device : doc.loc = pool[d] /\ pool[d] # None
    <3>1. doc.loc.dev \in Device /\ pool[doc.loc.dev] # None
      BY <2>3 DEF Told
    <3>2. PICK e \in snapshot : e.loc = pool[doc.loc.dev]
      BY <2>2, <3>1
    <3>3. e.loc.dev = doc.loc.dev
      BY <3>1, <3>2 DEF OneOK, ServerOK
    <3>4. e = doc
      BY <3>3, EntriesTyped
    <3> QED
      BY <3>1, <3>2, <3>4
  <2> QED
    BY <2>2, <2>4
<1> QED
  BY <1>1, ServerInvariant, BufferInvariant, PTL
-----------------------------------------------------------------------------
(* LastLocation.  What is saved is in the one document of the device.      *)
SavedIn(S, d) ==
    LET docs == {doc \in S : doc.loc.dev = d}
    IN  IF docs = {} THEN None ELSE (CHOOSE doc \in docs : TRUE).loc

Answer == IF Down THEN Saved ELSE pool

LEMMA SavedIs ==
    ASSUME NEW S, \A e, f \in S : e.loc.dev = f.loc.dev => e = f, NEW d
    PROVE  /\ \A doc \in S : doc.loc.dev = d => SavedIn(S, d) = doc.loc
           /\ (\A doc \in S : doc.loc.dev # d) => SavedIn(S, d) = None
<1> DEFINE docs == {doc \in S : doc.loc.dev = d}
<1>1. ASSUME NEW doc \in S, doc.loc.dev = d PROVE SavedIn(S, d) = doc.loc
  <2>1. doc \in docs
    BY <1>1
  <2>2. (CHOOSE e \in docs : TRUE) \in docs
    BY <2>1
  <2>3. \A e \in docs : e = doc
    BY <1>1
  <2> HIDE DEF docs
  <2>4. docs # {} /\ (CHOOSE e \in docs : TRUE) = doc
    BY <2>1, <2>2, <2>3
  <2> QED
    BY <2>4 DEF SavedIn, docs
<1>2. (\A doc \in S : doc.loc.dev # d) => SavedIn(S, d) = None
  BY DEF SavedIn
<1> QED
  BY <1>1, <1>2

LEMMA SavedNow ==
    /\ Saved = [d \in Device |-> SavedIn(snapshot, d)]
    /\ Saved' = [d \in Device |-> SavedIn(snapshot', d)]
BY DEF Saved, SavedOf, SavedIn

(* Steps nobody can see in an answer or in what is saved.                  *)
LEMMA LastQuiet ==
    ASSUME snapshot' = snapshot, Down' <=> Down, ~Down => pool' = pool
    PROVE  UNCHANGED Last!vars
<1>1. Saved' = Saved
  BY SavedNow
<1>2. Answer' = Answer
  BY <1>1 DEF Answer
<1> QED
  BY <1>1, <1>2 DEF Last!vars, Answer, Down

(* Start and the end of the process begin with what was saved.             *)
LEMMA LastRestarts ==
    ASSUME OneDecoder, HandsOK, DBP!IInv, OneOK, Start \/ Crash
    PROVE  Last!Next
<1>1. Saved' = Saved
  <2>1. snapshot' = snapshot
    BY Starts, Crashes
  <2> QED
    BY <2>1, SavedNow
<1>2. \E read \in SUBSET Device :
         Answer' = [d \in Device |-> IF d \in read THEN Saved[d] ELSE None]
  <2>1. CASE Start
    <3>1. Down /\ ~Down' /\ pool' = pool /\ restored \subseteq Device /\ pool \in [Device -> MaybeReport]
      BY <2>1, Starts, ServerQuiet DEF Down, OneOK, ServerOK, MapCells
    <3>2. ASSUME NEW d \in Device PROVE pool[d] = IF d \in restored THEN Saved[d] ELSE None
      <4>1. CASE d \in restored
        <5>1. PICK doc \in snapshot : doc.loc.dev = d /\ pool[d] = doc.loc
          BY <3>1, <4>1 DEF OneOK, Reading
        <5>2. SavedIn(snapshot, d) = doc.loc
          BY <5>1, SavedIs, EntriesTyped
        <5> QED
          BY <4>1, <5>1, <5>2, SavedNow
      <4>2. CASE d \notin restored
        BY <3>1, <4>2 DEF OneOK, Reading
      <4> QED
        BY <4>1, <4>2
    <3>3. pool = [d \in Device |-> IF d \in restored THEN Saved[d] ELSE None]
      BY <3>1, <3>2
    <3>4. Answer' = pool
      BY <3>1 DEF Answer
    <3> QED
      BY <3>1, <3>3, <3>4
  <2>2. CASE Crash
    <3>1. Answer' = Saved
      BY <1>1, <2>2, Crashes DEF Answer, Down
    <3>2. Saved = [d \in Device |-> IF d \in Device THEN Saved[d] ELSE None]
      BY DEF Saved
    <3> QED
      BY <3>1, <3>2
  <2> QED
    BY <2>1, <2>2
<1> QED
  BY <1>1, <1>2 DEF Last!Next, Last!Restart, Answer, Down

LEMMA LastAccepts ==
    ASSUME OneDecoder, HandsOK, DBP!IInv, OneOK, NEW u \in Updater, PoolUpdate(u)
    PROVE  Last!Next
<1>1. /\ ~Down /\ ~Down' /\ snapshot' = snapshot /\ lpc[u] = "pool" /\ lloc[u] \in Report
      /\ pool' = [pool EXCEPT ![lloc[u].dev] = lloc[u]]
  BY Pools DEF dbvars, Down, HandsOK
<1>2. Saved' = Saved /\ Answer = pool /\ Answer' = pool'
  BY <1>1, SavedNow DEF Answer
<1>3. pool[lloc[u].dev] = None \/ pool[lloc[u].dev].n < lloc[u].n
  BY <1>1, Reports DEF OneOK, AgesOK, ThreadsOK
<1>4. Last!Accept(lloc[u])
  BY <1>1, <1>2, <1>3 DEF Last!Accept, Last!Newer, Answer, Down
<1> QED
  BY <1>1, <1>4 DEF Last!Next

LEMMA LastSaves ==
    ASSUME OneDecoder, HandsOK, DBP!IInv, OneOK, Sync2db, NEW e \in Buffered, Written(e)
    PROVE  Last!Next
<1>1. ~Down /\ ~Down' /\ pool' = pool
  BY Syncing, Writes, ServerQuiet
<1>2. /\ \A f, g \in snapshot : f.loc.dev = g.loc.dev => f = g
      /\ \A f \in snapshot : f \in Entries
      /\ \A f \in Entries : f.loc.n \in Nat /\ f.no \in Nat
      /\ e \in Entries /\ e.loc \in Report /\ e.loc.dev \in Device /\ e.loc.n \in Nat
  BY EntriesTyped DEF Entries
<1>3. pool[e.loc.dev] # None /\ e.loc.n <= pool[e.loc.dev].n
  BY DEF OneOK, Covered, Told
<1>4. Saved[e.loc.dev] = None \/ Saved[e.loc.dev].n < e.loc.n
  <2>1. Saved[e.loc.dev] = SavedIn(snapshot, e.loc.dev)
    BY <1>2, SavedNow
  <2>2. ASSUME NEW doc \in snapshot PROVE doc.loc.n < e.loc.n
    <3>1. doc.no < e.no /\ doc \in Entries /\ doc.no \in Nat /\ e.no \in Nat
      BY <1>2 DEF Written
    <3>2. ~(e.no <= doc.no)
      BY <3>1
    <3>3. ~(e.loc.n <= doc.loc.n)
      BY <1>2, <3>1, <3>2 DEF OneOK, Paired
    <3> QED
      BY <1>2, <3>1, <3>3
  <2> QED
    BY <1>2, <2>1, <2>2, SavedIs
<1>5. /\ snapshot' = {doc \in snapshot : doc.loc.dev # e.loc.dev} \union {e}
      /\ \A f, g \in snapshot' : f.loc.dev = g.loc.dev => f = g
  BY <1>2 DEF Written
<1>6. ASSUME NEW d \in Device
      PROVE  SavedIn(snapshot', d) = IF d = e.loc.dev THEN e.loc ELSE SavedIn(snapshot, d)
  <2>1. CASE d = e.loc.dev
    BY <1>5, <2>1, SavedIs
  <2>2. CASE d # e.loc.dev /\ \E doc \in snapshot : doc.loc.dev = d
    <3>1. PICK doc \in snapshot : doc.loc.dev = d
      BY <2>2
    <3>2. doc \in snapshot'
      BY <1>5, <2>2, <3>1
    <3> QED
      BY <1>2, <1>5, <2>2, <3>1, <3>2, SavedIs
  <2>3. CASE d # e.loc.dev /\ \A doc \in snapshot : doc.loc.dev # d
    <3>1. \A doc \in snapshot' : doc.loc.dev # d
      BY <1>5, <2>3
    <3> QED
      BY <1>2, <1>5, <2>3, <3>1, SavedIs
  <2> QED
    BY <2>1, <2>2, <2>3
<1>7. Saved' = [Saved EXCEPT ![e.loc.dev] = e.loc]
  BY <1>2, <1>6, SavedNow
<1>8. Answer = pool /\ Answer' = pool
  BY <1>1 DEF Answer
<1>9. Last!Save(e.loc)
  BY <1>3, <1>4, <1>7, <1>8 DEF Last!Save, Last!Newer, Answer, Down
<1> QED
  BY <1>2, <1>9 DEF Last!Next

LEMMA LastSteps ==
    ASSUME OneDecoder, HandsOK, DBP!IInv, OneOK, [Next]_vars
    PROVE  Last!Next \/ UNCHANGED Last!vars
<1>1. CASE Start \/ Crash
  BY <1>1, LastRestarts
<1>2. CASE Open \/ Check \/ ConnLost \/ UNCHANGED vars
  <2>1. (Down' <=> Down) /\ snapshot' = snapshot /\ pool' = pool
    BY <1>2, DownStays, Opens, Checks, Loses, BufferQuiet, ServerQuiet
  <2> QED
    BY <2>1, LastQuiet
<1>3. ASSUME NEW doc \in toload, Restore(doc) PROVE UNCHANGED Last!vars
  <2>1. Down /\ Down' /\ snapshot' = snapshot
    BY <1>3, Restores DEF Down
  <2> QED
    BY <2>1, LastQuiet
<1>4. ASSUME NEW u \in Updater,
             MapUpdate(u) \/ SyncUpdate(u) \/ \E loc \in Report : Take(u, loc)
      PROVE  UNCHANGED Last!vars
  <2>1. UNCHANGED <<pc, snapshot, pool>>
    BY <1>4, Syncs DEF MapUpdate, Take, dbvars
  <2> QED
    BY <2>1, LastQuiet DEF Down
<1>5. ASSUME NEW u \in Updater, PoolUpdate(u) PROVE Last!Next
  BY <1>5, LastAccepts
<1>6. CASE Sync2db
  <2>1. (Down' <=> Down) /\ pool' = pool
    BY <1>6, DownStays, ServerQuiet
  <2>2. snapshot' = snapshot \/ \E e \in Buffered : Written(e)
    BY <1>6, Syncing, Writes
  <2> QED
    BY <1>6, <2>1, <2>2, LastQuiet, LastSaves
<1> QED
  BY <1>1, <1>2, <1>3, <1>4, <1>5, <1>6 DEF Next, Starting, Decoder

(* With one decoder the server is what LastLocation says: whereis() tells  *)
(* the last report that came in, and after a restart what was saved, which *)
(* is never newer than what was told nor older than what was saved before. *)
THEOREM ImplementsCorrect == OneDecoder => (Spec => ImplementsLastLocation)
<1> SUFFICES ASSUME OneDecoder PROVE Spec => ImplementsLastLocation
  OBVIOUS
<1>1. Init => Last!Init
  <2> SUFFICES ASSUME Init PROVE Last!Init
    OBVIOUS
  <2>1. snapshot = {} /\ Down
    BY DEF Init, DB!Init, Down
  <2>2. Saved = [d \in Device |-> None]
    BY <2>1, SavedNow, SavedIs
  <2> QED
    BY <2>1, <2>2 DEF Last!Init, Last!Nothing, Down
<1>2. IInv /\ DBP!IInv /\ [Next]_vars => [Last!Next]_(Last!vars)
  BY LastSteps DEF IInv
<1> QED
  BY <1>1, <1>2, ServerInvariant, BufferInvariant, PTL
     DEF Spec, ImplementsLastLocation, Last!Spec
=============================================================================
