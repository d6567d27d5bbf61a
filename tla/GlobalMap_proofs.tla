--------------------------- MODULE GlobalMap_proofs ---------------------------
(***************************************************************************)
(* Safety of GlobalMap for every grid, every set of reports and every      *)
(* number of updating and querying threads: a report is found where its    *)
(* position is looked for, and a spatial query returns what it should.     *)
(* At the end, the arithmetic of the grid (SpatialQuery) for every origin  *)
(* and size of its cells: where the cells of a query's area are all looked *)
(* through, and where none is.                                             *)
(***************************************************************************)
EXTENDS GlobalMap, SequenceTheorems, TLAPS

CONSTANTS
    Origin, CellSize, MaxRegion, Bad   \* those of SpatialQuery

Spatial == INSTANCE SpatialQuery

MaybeReport == Report \union {None}
MapCells    == [Device -> MaybeReport]

TypeOK ==
    /\ grid \in [Pos -> Cell]
    /\ objs \in Seq(MapCells)
    /\ cells \in [Cell -> Null .. Len(objs)]
    /\ upc \in [Updater -> {"idle", "find", "link", "assign", "cell"}]
    /\ uloc \in [Updater -> MaybeReport]
    /\ uobj \in [Updater -> Absent .. Len(objs)]
    /\ qpc \in [Querier -> {"idle", "cells", "visit"}]
    /\ qarea \in [Querier -> SUBSET Pos]
    /\ qtodo \in [Querier -> SUBSET Cell]
    /\ qlist \in [Querier -> SUBSET (Null .. Len(objs))]
    /\ qres \in [Querier -> SUBSET Report]
    /\ filed \in MapCells
    /\ qseen \in [Querier -> MapCells]
    /\ qraced \in [Querier -> BOOLEAN]
    /\ sent \in Nat
    /\ overlapped \in BOOLEAN /\ crashed \in BOOLEAN

(* What the threads that are in update() hold.                             *)
HandsOK ==
    /\ \A u \in Updater : upc[u] # "idle" => uloc[u] \in Report
    /\ \A u \in Updater :
          upc[u] \in {"link", "assign", "cell"} => uobj[u] # Absent
    /\ \A q \in Querier : Absent \notin qlist[q]

(* Update numbers are given out once: a report that is still under way is  *)
(* nobody else's, and has not been filed.                                  *)
Fresh ==
    /\ \A u \in Updater : upc[u] # "idle" => uloc[u].n <= sent
    /\ \A u, v \in Updater :
          u # v /\ upc[u] # "idle" /\ upc[v] # "idle" => uloc[u].n # uloc[v].n
    /\ \A d \in Device : filed[d] # None => filed[d].n <= sent
    /\ \A q \in Querier, d \in Device :
          qseen[q][d] # None => qseen[q][d].n <= sent
    /\ \A u \in Updater, d \in Device :
          upc[u] # "idle" /\ filed[d] # None => uloc[u].n # filed[d].n
    /\ \A u \in Updater, q \in Querier, d \in Device :
          upc[u] # "idle" /\ qseen[q][d] # None => uloc[u].n # qseen[q][d].n

(* While no update() has run into another one's creation of a cell, one    *)
(* thread at a time creates one, the entry without a MapCell is its entry, *)
(* and the MapCell a thread is about to store in is the one of its cell.   *)
OneCreator ==
    /\ \A u, v \in Updater : Creating(u) /\ Creating(v) => u = v
    /\ \A c \in Cell : cells[c] = Null =>
          \E u \in Updater : upc[u] = "assign" /\ CellId(u) = c
    /\ \A u \in Updater :
          /\ upc[u] = "link" => cells[CellId(u)] = Absent
          /\ upc[u] = "assign" => cells[CellId(u)] = Null
          /\ upc[u] = "cell" => cells[CellId(u)] = uobj[u]

(* The cell of a filed report that a query began with and that is still    *)
(* the last one is ahead of the query, on its list, or has been read.      *)
OnTheWay(q, d) ==
    LET r == filed[d]
        c == grid[r.pos]
    IN  \/ qpc[q] = "cells" /\ c \in qtodo[q]
        \/ cells[c] \in qlist[q]
        \/ r \in qres[q]

QueriesCover ==
    \A q \in Querier, d \in Device :
        /\ qpc[q] \in {"cells", "visit"} /\ ~qraced[q]
        /\ filed[d] # None /\ filed[d] = qseen[q][d]
        /\ filed[d].pos \in qarea[q]
        => OnTheWay(q, d)

IInv ==
    /\ TypeOK
    /\ HandsOK
    /\ Fresh
    /\ ~overlapped => OneCreator /\ FiledIsFound /\ QueriesCover
-----------------------------------------------------------------------------
LEMMA NobodyType == Nobody \in MapCells
BY DEF Nobody, MapCells, MaybeReport

LEMMA NoneOrReport ==
    /\ None \notin Report
    /\ \A r \in Report : r.dev \in Device /\ r.pos \in Pos /\ r.n \in Nat
BY ReportAssumption

(* A new MapCell leaves those that exist alone.                            *)
LEMMA NewCellAppended ==
    ASSUME objs \in Seq(MapCells)
    PROVE  /\ NewCell \in Seq(MapCells)
           /\ Len(objs) \in Nat /\ Len(NewCell) = Len(objs) + 1
           /\ \A o \in 1 .. Len(objs) : NewCell[o] = objs[o]
BY NobodyType, AppendProperties, LenProperties DEF NewCell

(* Storing a report in a MapCell changes that report only.                 *)
LEMMA StoreInCell ==
    ASSUME objs \in Seq(MapCells), NEW u \in Updater, Store(u),
           uobj[u] \in 1 .. Len(objs), uloc[u] \in Report
    PROVE  /\ objs' \in Seq(MapCells) /\ Len(objs') = Len(objs)
           /\ \A o \in 1 .. Len(objs) : \A d \in Device :
                 objs'[o][d] = IF o = uobj[u] /\ d = uloc[u].dev THEN uloc[u]
                               ELSE objs[o][d]
<1>1. /\ Len(objs) \in Nat /\ DOMAIN objs = 1 .. Len(objs)
      /\ \A o \in 1 .. Len(objs) : objs[o] \in MapCells
  BY LenProperties, ElementOfSeq
<1> DEFINE cell == [objs[uobj[u]] EXCEPT ![uloc[u].dev] = uloc[u]]
<1>2. cell \in MapCells
  BY <1>1 DEF MapCells, MaybeReport
<1>3. objs' = [objs EXCEPT ![uobj[u]] = cell]
  BY DEF Store
<1>4. /\ objs' \in Seq(MapCells) /\ Len(objs') = Len(objs)
      /\ \A o \in 1 .. Len(objs) :
            objs'[o] = IF o = uobj[u] THEN cell ELSE objs[o]
  BY <1>1, <1>2, <1>3, ExceptSeq
<1>5. \A d \in Device :
         cell[d] = IF d = uloc[u].dev THEN uloc[u] ELSE objs[uobj[u]][d]
  BY <1>1 DEF MapCells
<1> QED
  BY <1>4, <1>5
-----------------------------------------------------------------------------
LEMMA InitType == Init => TypeOK /\ HandsOK
<1> SUFFICES ASSUME Init PROVE TypeOK /\ HandsOK
  OBVIOUS
<1>1. objs \in Seq(MapCells) /\ Len(objs) = 0
  BY EmptySeq DEF Init
<1>2. /\ cells \in [Cell -> Null .. Len(objs)]
      /\ uobj \in [Updater -> Absent .. Len(objs)]
      /\ qlist \in [Querier -> SUBSET (Null .. Len(objs))]
  BY <1>1 DEF Init, Absent, Null
<1>3. /\ grid \in [Pos -> Cell] /\ filed \in MapCells
      /\ qseen \in [Querier -> MapCells]
      /\ uloc \in [Updater -> MaybeReport]
  BY NobodyType, GridAssumption DEF Init, MaybeReport
<1>4. /\ qarea \in [Querier -> SUBSET Pos] /\ qtodo \in [Querier -> SUBSET Cell]
      /\ qres \in [Querier -> SUBSET Report] /\ qraced \in [Querier -> BOOLEAN]
      /\ sent \in Nat /\ overlapped \in BOOLEAN /\ crashed \in BOOLEAN
  BY DEF Init
<1> QED
  BY <1>1, <1>2, <1>3, <1>4 DEF Init, TypeOK, HandsOK

LEMMA NextType == TypeOK /\ HandsOK /\ [Next]_vars => TypeOK' /\ HandsOK'
<1> SUFFICES ASSUME TypeOK, HandsOK, [Next]_vars PROVE TypeOK' /\ HandsOK'
  OBVIOUS
<1> USE DEF TypeOK, HandsOK
<1>0. /\ Len(objs) \in Nat /\ Absent = 0 /\ Absent \in Absent .. Len(objs)
      /\ Null \in Null .. Len(objs) /\ Null \in Int /\ Null < 0
      /\ \A o \in Null .. Len(objs) : o \in {Absent, Null} \union 1 .. Len(objs)
  BY LenProperties DEF Absent, Null
<1>1. ASSUME NEW t, Fault(t) PROVE TypeOK' /\ HandsOK'
  BY <1>1 DEF Fault, index, updaters, queriers, ghosts
<1>2. ASSUME NEW u \in Updater, NEW loc \in Report, Update(u, loc)
      PROVE  TypeOK' /\ HandsOK'
  BY <1>2 DEF Update, index, queriers, MaybeReport
<1>3. ASSUME NEW u \in Updater, Find(u) PROVE TypeOK' /\ HandsOK'
  <2>1. PICK seen \in Seen(u, CellId(u)) :
          \/ /\ seen = Absent
             /\ objs' = NewCell
             /\ uobj' = [uobj EXCEPT ![u] = Len(objs) + 1]
             /\ upc' = [upc EXCEPT ![u] = "link"]
             /\ UNCHANGED <<uloc, filed>>
          \/ /\ seen = Null
             /\ Return(u)
             /\ filed' = [filed EXCEPT ![uloc[u].dev] = uloc[u]]
             /\ UNCHANGED objs
          \/ /\ seen \notin {Absent, Null}
             /\ uobj' = [uobj EXCEPT ![u] = seen]
             /\ upc' = [upc EXCEPT ![u] = "cell"]
             /\ UNCHANGED <<objs, uloc, filed>>
    BY <1>3 DEF Find
  <2>2. uloc[u] \in Report /\ CellId(u) \in Cell
    BY <1>3, NoneOrReport DEF Find, CellId
  <2>3. seen \in Null .. Len(objs)
    BY <1>0, <2>2 DEF Seen
  <2>4. /\ UNCHANGED <<grid, cells, queriers, sent, crashed>>
        /\ overlapped' \in BOOLEAN
    BY <1>3 DEF Find
  <2>5. CASE seen = Absent
    <3>1. /\ objs' = NewCell /\ objs' \in Seq(MapCells)
          /\ Len(objs') = Len(objs) + 1
      BY <1>0, <2>1, <2>5, NewCellAppended
    <3>2. /\ cells' \in [Cell -> Null .. Len(objs')]
          /\ uobj' \in [Updater -> Absent .. Len(objs')]
          /\ qlist' \in [Querier -> SUBSET (Null .. Len(objs'))]
      <4>1. /\ Null .. Len(objs) \subseteq Null .. Len(objs')
            /\ Absent .. Len(objs) \subseteq Absent .. Len(objs')
            /\ Len(objs) + 1 \in Absent .. Len(objs')
        BY <1>0, <3>1
      <4>2. uobj' = [uobj EXCEPT ![u] = Len(objs) + 1]
        BY <1>0, <2>1, <2>5
      <4> QED
        BY <2>4, <4>1, <4>2 DEF queriers
    <3>3. /\ upc' = [upc EXCEPT ![u] = "link"] /\ UNCHANGED <<uloc, filed>>
          /\ uobj' = [uobj EXCEPT ![u] = Len(objs) + 1]
      BY <1>0, <2>1, <2>5
    <3>4. TypeOK'
      BY <2>4, <3>1, <3>2, <3>3 DEF queriers
    <3>5. HandsOK'
      BY <1>0, <2>2, <2>4, <3>3 DEF queriers
    <3> QED
      BY <3>4, <3>5
  <2>6. CASE seen = Null
    <3>1. filed' \in MapCells /\ uloc' \in [Updater -> MaybeReport]
      BY <2>1, <2>2, <2>6 DEF Return, MaybeReport, MapCells
    <3>2. Return(u) /\ UNCHANGED objs
      BY <1>0, <2>1, <2>6
    <3>3. uobj' \in [Updater -> Absent .. Len(objs')]
      BY <1>0, <3>2 DEF Return
    <3> QED
      BY <2>2, <2>4, <3>1, <3>2, <3>3 DEF Return, queriers
  <2>7. CASE seen \notin {Absent, Null}
    <3>1. /\ uobj' = [uobj EXCEPT ![u] = seen]
          /\ upc' = [upc EXCEPT ![u] = "cell"]
          /\ UNCHANGED <<objs, uloc, filed>>
      BY <2>1, <2>7
    <3>2. seen \in Absent .. Len(objs) /\ seen # Absent
      BY <1>0, <2>3, <2>7
    <3>3. uobj' \in [Updater -> Absent .. Len(objs')]
      BY <3>1, <3>2
    <3> QED
      BY <2>2, <2>4, <3>1, <3>2, <3>3 DEF queriers
  <2> QED
    BY <2>5, <2>6, <2>7
<1>4. ASSUME NEW u \in Updater, Link(u) PROVE TypeOK' /\ HandsOK'
  <2>1. cells' \in [Cell -> Null .. Len(objs)]
    BY <1>0, <1>4 DEF Link
  <2> QED
    BY <1>4, <2>1 DEF Link, queriers, ghosts
<1>5. ASSUME NEW u \in Updater, Assign(u) PROVE TypeOK' /\ HandsOK'
  <2>1. uobj[u] \in Null .. Len(objs)
    BY <1>0
  <2>2. cells' \in [Cell -> Null .. Len(objs)]
    BY <1>5, <2>1 DEF Assign
  <2> QED
    BY <1>5, <2>2 DEF Assign, queriers, ghosts
<1>6. ASSUME NEW u \in Updater, Store(u) PROVE TypeOK' /\ HandsOK'
  <2>1. uloc[u] \in Report /\ uobj[u] \in 1 .. Len(objs)
    BY <1>0, <1>6 DEF Store
  <2>2. objs' \in Seq(MapCells) /\ Len(objs') = Len(objs)
    BY <1>6, <2>1, StoreInCell
  <2>3. /\ filed' \in MapCells /\ uloc' \in [Updater -> MaybeReport]
        /\ uobj' \in [Updater -> Absent .. Len(objs')]
    BY <1>0, <1>6, <2>1, <2>2 DEF Store, Return, MaybeReport, MapCells
  <2> QED
    BY <1>6, <2>2, <2>3 DEF Store, Return, queriers
<1>7. ASSUME NEW q \in Querier, NEW area \in SUBSET Pos \ {{}}, Query(q, area)
      PROVE  TypeOK' /\ HandsOK'
  <2>1. CellsOf(area) \subseteq Cell
    BY DEF CellsOf
  <2> QED
    BY <1>7, <2>1 DEF Query, index, updaters, ghosts
<1>8. ASSUME NEW q \in Querier, NEW c \in Cell, LookUp(q, c)
      PROVE  TypeOK' /\ HandsOK'
  <2>1. PICK seen \in Seen(q, c) :
          qlist' = [qlist EXCEPT ![q] = @ \union ({seen} \ {Absent})]
    BY <1>8 DEF LookUp
  <2>2. seen \in Null .. Len(objs)
    BY <1>0 DEF Seen
  <2> QED
    BY <1>8, <2>1, <2>2 DEF LookUp, index, updaters, ghosts, Rebuilding
<1>9. ASSUME NEW q \in Querier, LookedUp(q) PROVE TypeOK' /\ HandsOK'
  BY <1>9 DEF LookedUp, index, updaters, ghosts
<1>10. ASSUME NEW q \in Querier, NEW o \in qlist[q], Visit(q, o)
       PROVE  TypeOK' /\ HandsOK'
  <2>1. CASE o = Null
    BY <1>10, <2>1 DEF Visit, index, updaters, ghosts
  <2>2. CASE o # Null
    <3>1. o \in 1 .. Len(objs)
      <4>1. o \in Null .. Len(objs) /\ o # Absent
        OBVIOUS
      <4> QED
        BY <1>0, <2>2, <4>1
    <3>2. objs[o] \in MapCells
      BY <3>1, ElementOfSeq
    <3>3. {r \in {objs[o][d] : d \in Device} \ {None} : r.pos \in qarea[q]}
             \subseteq Report
      BY <3>2 DEF MapCells, MaybeReport
    <3>4. /\ qlist' = [qlist EXCEPT ![q] = @ \ {o}]
          /\ qres' \in [Querier -> SUBSET Report]
      BY <1>10, <2>2, <3>3 DEF Visit
    <3> QED
      BY <1>10, <2>2, <3>4 DEF Visit, index, updaters, ghosts
  <2> QED
    BY <2>1, <2>2
<1>11. ASSUME NEW q \in Querier, Answer(q) PROVE TypeOK' /\ HandsOK'
  BY <1>11, NobodyType DEF Answer, index, updaters, ghosts
<1>12. CASE UNCHANGED vars
  BY <1>12 DEF vars, index, updaters, queriers, ghosts
<1> QED
  BY <1>1, <1>2, <1>3, <1>4, <1>5, <1>6, <1>7, <1>8, <1>9, <1>10, <1>11,
     <1>12 DEF Next, UpdateStep, QueryStep
-----------------------------------------------------------------------------
(* How a find() may end: no entry, an entry without a MapCell, a MapCell.  *)
FoundNone(u) ==
    /\ Absent \in Seen(u, CellId(u))
    /\ objs' = NewCell
    /\ uobj' = [uobj EXCEPT ![u] = Len(objs) + 1]
    /\ upc' = [upc EXCEPT ![u] = "link"]
    /\ UNCHANGED <<uloc, filed>>

FoundNull(u) ==
    /\ Null \in Seen(u, CellId(u))
    /\ Return(u)
    /\ filed' = [filed EXCEPT ![uloc[u].dev] = uloc[u]]
    /\ UNCHANGED objs

FoundCell(u) ==
    /\ uobj'[u] \in Seen(u, CellId(u)) \ {Absent, Null}
    /\ uobj' = [uobj EXCEPT ![u] = uobj'[u]]
    /\ upc' = [upc EXCEPT ![u] = "cell"]
    /\ UNCHANGED <<objs, uloc, filed>>

LEMMA FindEnds ==
    ASSUME TypeOK, HandsOK, NEW u \in Updater, Find(u)
    PROVE  /\ FoundNone(u) \/ FoundNull(u) \/ FoundCell(u)
           /\ upc[u] = "find" /\ uloc[u] \in Report
           /\ uloc[u].dev \in Device /\ CellId(u) \in Cell
           /\ ~overlapped' => ~overlapped /\ \A v \in Updater : ~Creating(v)
           /\ UNCHANGED <<grid, cells, qpc, qarea, qtodo, qlist, qres, qseen,
                          qraced, sent, crashed>>
<1>1. /\ upc[u] = "find" /\ uloc[u] \in Report /\ uobj \in [Updater -> Absent .. Len(objs)]
  BY DEF Find, TypeOK, HandsOK
<1>2. uloc[u].dev \in Device /\ CellId(u) \in Cell
  BY <1>1, NoneOrReport DEF CellId, TypeOK
<1>3. FoundNone(u) \/ FoundNull(u) \/ FoundCell(u)
  BY <1>1 DEF Find, FoundNone, FoundNull, FoundCell
<1> QED
  BY <1>1, <1>2, <1>3 DEF Find, queriers

(* A report is under way with one thread only and is filed at most once.   *)
LEMMA NextFresh == TypeOK /\ HandsOK /\ Fresh /\ [Next]_vars => Fresh'
<1> SUFFICES ASSUME TypeOK, HandsOK, Fresh, [Next]_vars PROVE Fresh'
  OBVIOUS
<1>0. /\ \A u \in Updater : upc[u] # "idle" =>
            uloc[u] \in Report /\ uloc[u].n \in Nat /\ uloc[u].dev \in Device
      /\ \A d \in Device : filed[d] # None => filed[d].n \in Nat
      /\ \A q \in Querier, d \in Device : qseen[q][d] # None => qseen[q][d].n \in Nat
      /\ \A d \in Device : Nobody[d] = None
      /\ filed \in MapCells /\ sent \in Nat
  BY NoneOrReport DEF TypeOK, HandsOK, MapCells, MaybeReport, Nobody
<1> USE DEF Fresh
<1>1. ASSUME UNCHANGED <<upc, uloc, filed, sent, qseen>> PROVE Fresh'
  BY <1>1
<1>2. ASSUME NEW u \in Updater, NEW loc \in Report, Update(u, loc)
      PROVE  Fresh'
  <2>1. /\ upc' = [upc EXCEPT ![u] = "find"] /\ uloc' = [uloc EXCEPT ![u] = loc]
        /\ upc[u] = "idle" /\ loc.n = sent + 1 /\ sent' = sent + 1
        /\ UNCHANGED <<filed, qseen>>
    BY <1>2 DEF Update, queriers
  <2>2. /\ \A v \in Updater : v # u => upc'[v] = upc[v] /\ uloc'[v] = uloc[v]
        /\ uloc'[u] = loc
    BY <2>1 DEF TypeOK
  <2>3. /\ \A v \in Updater : upc'[v] # "idle" => uloc'[v].n <= sent + 1
        /\ \A v \in Updater : v # u /\ upc'[v] # "idle" => uloc'[v].n <= sent
    BY <1>0, <2>1, <2>2
  <2>4. /\ \A d \in Device : filed[d] # None => filed[d].n <= sent
        /\ \A q \in Querier, d \in Device :
              qseen[q][d] # None => qseen[q][d].n <= sent
    OBVIOUS
  <2> QED
    BY <1>0, <2>1, <2>2, <2>3, <2>4
<1>3. ASSUME NEW u \in Updater, upc[u] # "idle", Return(u),
             filed' = [filed EXCEPT ![uloc[u].dev] = uloc[u]],
             UNCHANGED <<qseen, sent>>
      PROVE  Fresh'
  <2>1. \A v \in Updater :
           /\ upc'[v] = IF v = u THEN "idle" ELSE upc[v]
           /\ v # u => uloc'[v] = uloc[v]
    BY <1>3 DEF Return, TypeOK
  <2>2. \A d \in Device :
           filed'[d] = IF d = uloc[u].dev THEN uloc[u] ELSE filed[d]
    BY <1>0, <1>3 DEF MapCells
  <2> QED
    BY <1>0, <1>3, <2>1, <2>2
<1>4. ASSUME NEW u \in Updater, upc[u] # "idle", NEW p, p # "idle",
             upc' = [upc EXCEPT ![u] = p],
             UNCHANGED <<uloc, filed, qseen, sent>>
      PROVE  Fresh'
  <2>1. \A v \in Updater : upc'[v] # "idle" => upc[v] # "idle"
    BY <1>4 DEF TypeOK
  <2> QED
    BY <1>4, <2>1
<1>5. ASSUME NEW u \in Updater, Find(u) PROVE Fresh'
  <2>1. /\ FoundNone(u) \/ FoundNull(u) \/ FoundCell(u)
        /\ upc[u] # "idle" /\ UNCHANGED <<qseen, sent>>
    BY <1>5, FindEnds
  <2>2. CASE FoundNone(u)
    <3>1. upc' = [upc EXCEPT ![u] = "link"] /\ UNCHANGED <<uloc, filed>>
      BY <2>2 DEF FoundNone
    <3> QED
      BY <1>4, <2>1, <3>1
  <2>3. CASE FoundNull(u)
    BY <1>3, <2>1, <2>3 DEF FoundNull
  <2>4. CASE FoundCell(u)
    <3>1. upc' = [upc EXCEPT ![u] = "cell"] /\ UNCHANGED <<uloc, filed>>
      BY <2>4 DEF FoundCell
    <3> QED
      BY <1>4, <2>1, <3>1
  <2> QED
    BY <2>1, <2>2, <2>3, <2>4
<1>6. ASSUME NEW u \in Updater, Link(u) \/ Assign(u) PROVE Fresh'
  BY <1>4, <1>6 DEF Link, Assign, queriers, ghosts
<1>7. ASSUME NEW u \in Updater, Store(u) PROVE Fresh'
  BY <1>3, <1>7 DEF Store, queriers
<1>8. ASSUME NEW q \in Querier, NEW s, s = filed \/ s = Nobody,
             qseen' = [qseen EXCEPT ![q] = s],
             UNCHANGED <<upc, uloc, filed, sent>>
      PROVE  Fresh'
  <2>1. \A r \in Querier : qseen'[r] = IF r = q THEN s ELSE qseen[r]
    BY <1>8 DEF TypeOK
  <2> QED
    BY <1>0, <1>8, <2>1
<1>9. ASSUME NEW q \in Querier, NEW area, Query(q, area) PROVE Fresh'
  BY <1>8, <1>9 DEF Query, updaters, ghosts
<1>10. ASSUME NEW q \in Querier, Answer(q) PROVE Fresh'
  BY <1>8, <1>10 DEF Answer, updaters, ghosts
<1>11. ASSUME NEW q \in Querier,
              \/ \E c \in Cell : LookUp(q, c)
              \/ LookedUp(q)
              \/ \E o \in qlist[q] : Visit(q, o)
       PROVE  Fresh'
  BY <1>1, <1>11 DEF LookUp, LookedUp, Visit, updaters, ghosts
<1>12. ASSUME NEW t, Fault(t) PROVE Fresh'
  BY <1>1, <1>12 DEF Fault, updaters, queriers, ghosts
<1>13. CASE UNCHANGED vars
  BY <1>1, <1>13 DEF vars, updaters, queriers, ghosts
<1> QED
  BY <1>2, <1>5, <1>6, <1>7, <1>9, <1>10, <1>11, <1>12, <1>13
     DEF Next, UpdateStep, QueryStep
-----------------------------------------------------------------------------
(* While nobody has run into a creation, one thread creates at a time, and *)
(* every thread stores in the MapCell of its cell.                         *)
LEMMA NextCreator ==
    /\ TypeOK /\ HandsOK /\ [Next]_vars
    /\ ~overlapped => OneCreator
    => (~overlapped' => OneCreator')
<1> SUFFICES ASSUME TypeOK, HandsOK, [Next]_vars, ~overlapped => OneCreator,
                    ~overlapped'
             PROVE  OneCreator'
  OBVIOUS
<1>0. Absent # Null /\ \A u \in Updater : Absent <= uobj[u] /\ uobj[u] \in Int
  BY LenProperties DEF Absent, Null, TypeOK
<1>1. ASSUME UNCHANGED <<grid, cells, upc, uloc, uobj, overlapped>>
      PROVE  OneCreator'
  BY <1>1 DEF OneCreator, Creating, CellId
<1>2. ASSUME NEW u \in Updater, NEW loc \in Report, Update(u, loc)
      PROVE  OneCreator'
  <2>1. /\ upc' = [upc EXCEPT ![u] = "find"] /\ upc[u] = "idle"
        /\ uloc' = [uloc EXCEPT ![u] = loc]
        /\ UNCHANGED <<grid, cells, uobj, overlapped>>
    BY <1>2 DEF Update, index
  <2>2. /\ \A v \in Updater : v # u => upc'[v] = upc[v] /\ uloc'[v] = uloc[v]
        /\ upc'[u] = "find"
    BY <2>1 DEF TypeOK
  <2> QED
    BY <2>1, <2>2 DEF OneCreator, Creating, CellId
<1>3. ASSUME NEW u \in Updater, Find(u) PROVE OneCreator'
  <2>1. /\ OneCreator /\ UNCHANGED <<grid, cells>> /\ upc[u] = "find"
        /\ \A v \in Updater : ~Creating(v)
        /\ CellId(u) \in Cell
    BY <1>3, FindEnds
  <2>2. Seen(u, CellId(u)) = {cells[CellId(u)]} /\ \A c \in Cell : cells[c] # Null
    BY <2>1 DEF Seen, Rebuilding, Creating, OneCreator
  <2>3. CASE FoundNone(u)
    <3>1. \A v \in Updater : v # u => upc'[v] = upc[v] /\ uobj'[v] = uobj[v]
      BY <2>3 DEF FoundNone, TypeOK
    <3>2. upc'[u] = "link" /\ cells[CellId(u)] = Absent /\ UNCHANGED uloc
      BY <2>2, <2>3 DEF FoundNone, TypeOK
    <3> QED
      BY <2>1, <2>2, <3>1, <3>2 DEF OneCreator, Creating, CellId
  <2>4. CASE FoundNull(u)
    BY <2>1, <2>2, <2>4 DEF FoundNull
  <2>5. CASE FoundCell(u)
    <3>1. \A v \in Updater : v # u => upc'[v] = upc[v] /\ uobj'[v] = uobj[v]
      BY <2>5 DEF FoundCell, TypeOK
    <3>2. /\ upc'[u] = "cell" /\ cells[CellId(u)] = uobj'[u]
          /\ UNCHANGED uloc
      BY <2>2, <2>5 DEF FoundCell, TypeOK
    <3> QED
      BY <2>1, <2>2, <3>1, <3>2 DEF OneCreator, Creating, CellId
  <2> QED
    BY <1>3, <2>3, <2>4, <2>5, FindEnds
<1>4. ASSUME NEW u \in Updater, Link(u) PROVE OneCreator'
  <2>1. /\ OneCreator /\ upc[u] = "link"
        /\ upc' = [upc EXCEPT ![u] = "assign"]
        /\ UNCHANGED <<grid, uloc, uobj>>
    BY <1>4 DEF Link, ghosts
  <2>2. ~Rebuilding(u) /\ cells[CellId(u)] = Absent
    BY <2>1 DEF OneCreator, Creating, Rebuilding
  <2>3. CellId(u) \in Cell
    BY <2>1, NoneOrReport DEF CellId, TypeOK, HandsOK
  <2>4. /\ cells' = [cells EXCEPT ![CellId(u)] = Null]
    BY <1>4, <2>2 DEF Link
  <2>5. \A c \in Cell : cells'[c] = IF c = CellId(u) THEN Null ELSE cells[c]
    BY <2>4 DEF TypeOK
  <2>6. /\ \A v \in Updater : v # u => upc'[v] = upc[v]
        /\ upc'[u] = "assign"
    BY <2>1 DEF TypeOK
  <2>7. \A v \in Updater : upc[v] # "idle" => CellId(v) \in Cell
    BY NoneOrReport DEF CellId, TypeOK, HandsOK
  <2>8. \A v \in Updater : upc[v] = "cell" => uobj[v] # Absent
    BY DEF HandsOK
  <2>9. \A v \in Updater : CellId(v)' = CellId(v)
    BY <2>1 DEF CellId
  <2> QED
    BY <1>0, <2>1, <2>2, <2>3, <2>5, <2>6, <2>7, <2>8, <2>9
       DEF OneCreator, Creating
<1>5. ASSUME NEW u \in Updater, Assign(u) PROVE OneCreator'
  <2>1. /\ OneCreator /\ upc[u] = "assign"
        /\ upc' = [upc EXCEPT ![u] = "cell"]
        /\ UNCHANGED <<grid, uloc, uobj>>
    BY <1>5 DEF Assign, ghosts
  <2>2. cells[CellId(u)] = Null
    BY <2>1 DEF OneCreator
  <2>3. CellId(u) \in Cell
    BY <2>1, NoneOrReport DEF CellId, TypeOK, HandsOK
  <2>4. cells' = [cells EXCEPT ![CellId(u)] = uobj[u]]
    BY <1>0, <1>5, <2>2 DEF Assign
  <2>5. \A c \in Cell : cells'[c] = IF c = CellId(u) THEN uobj[u] ELSE cells[c]
    BY <2>4 DEF TypeOK
  <2>6. /\ \A v \in Updater : v # u => upc'[v] = upc[v]
        /\ upc'[u] = "cell"
    BY <2>1 DEF TypeOK
  <2>7. /\ \A v \in Updater : upc[v] # "idle" => CellId(v) \in Cell
        /\ \A v \in Updater : uobj[v] # Null
    BY <1>0, NoneOrReport DEF CellId, TypeOK, HandsOK, Absent, Null
  <2>8. \A v \in Updater : CellId(v)' = CellId(v)
    BY <2>1 DEF CellId
  <2> QED
    BY <1>0, <2>1, <2>2, <2>3, <2>5, <2>6, <2>7, <2>8 DEF OneCreator, Creating
<1>6. ASSUME NEW u \in Updater, Store(u) PROVE OneCreator'
  <2>1. /\ OneCreator /\ upc[u] = "cell" /\ Return(u)
        /\ UNCHANGED <<grid, cells>>
    BY <1>6 DEF Store
  <2>2. /\ \A v \in Updater : v # u => /\ upc'[v] = upc[v]
                                       /\ uloc'[v] = uloc[v] /\ uobj'[v] = uobj[v]
        /\ upc'[u] = "idle"
    BY <2>1 DEF Return, TypeOK
  <2> QED
    BY <2>1, <2>2 DEF OneCreator, Creating, CellId
<1>7. ASSUME NEW q \in Querier,
             \/ QueryStep(q)
             \/ \E area \in SUBSET Pos \ {{}} : Query(q, area)
      PROVE  OneCreator'
  BY <1>1, <1>7 DEF QueryStep, Query, LookUp, LookedUp, Visit, Answer, Fault,
                    index, updaters, ghosts
<1>8. ASSUME NEW t, Fault(t) PROVE OneCreator'
  BY <1>1, <1>8 DEF Fault, index, updaters, ghosts
<1>9. CASE UNCHANGED vars
  BY <1>1, <1>9 DEF vars, index, updaters, ghosts
<1> QED
  BY <1>2, <1>3, <1>4, <1>5, <1>6, <1>7, <1>8, <1>9 DEF Next, UpdateStep
-----------------------------------------------------------------------------
(* While nobody has run into a creation, a step either leaves the MapCell  *)
(* of a cell and its reports alone, or files one report in it.             *)
LEMMA CellsKept ==
    ASSUME TypeOK, HandsOK, OneCreator, [Next]_vars, ~overlapped'
    PROVE  /\ UNCHANGED grid
           /\ \A c \in Cell : cells[c] \notin {Absent, Null} =>
                 cells'[c] = cells[c]
           /\ \/ /\ UNCHANGED filed
                 /\ \A o \in 1 .. Len(objs) : objs'[o] = objs[o]
              \/ \E u \in Updater : upc[u] = "cell" /\ Store(u)
<1> DEFINE Kept ==
      /\ UNCHANGED grid
      /\ \A c \in Cell : cells[c] \notin {Absent, Null} => cells'[c] = cells[c]
      /\ UNCHANGED filed
      /\ \A o \in 1 .. Len(objs) : objs'[o] = objs[o]
<1>1. ASSUME UNCHANGED <<index, filed>> PROVE Kept
  BY <1>1 DEF index
<1>2. ASSUME NEW u \in Updater, Find(u) PROVE Kept
  <2>1. /\ UNCHANGED <<grid, cells>>
        /\ \A v \in Updater : ~Creating(v)
        /\ CellId(u) \in Cell
    BY <1>2, FindEnds
  <2>2. Seen(u, CellId(u)) = {cells[CellId(u)]} /\ \A c \in Cell : cells[c] # Null
    BY <2>1 DEF Seen, Rebuilding, Creating, OneCreator
  <2>3. ~FoundNull(u)
    BY <2>1, <2>2 DEF FoundNull
  <2>4. objs \in Seq(MapCells)
    BY DEF TypeOK
  <2>5. FoundNone(u) \/ FoundCell(u)
    BY <1>2, <2>3, FindEnds
  <2>6. UNCHANGED filed /\ (objs' = NewCell \/ UNCHANGED objs)
    BY <2>5 DEF FoundNone, FoundCell
  <2> QED
    BY <2>1, <2>4, <2>6, NewCellAppended
<1>3. ASSUME NEW u \in Updater, Link(u) \/ Assign(u) PROVE Kept
  <2>1. /\ UNCHANGED <<grid, objs, filed>>
        /\ upc[u] \in {"link", "assign"}
    BY <1>3 DEF Link, Assign, ghosts
  <2>2. cells[CellId(u)] \in {Absent, Null}
    BY <2>1 DEF OneCreator
  <2>3. \A c \in Cell : c # CellId(u) => cells'[c] = cells[c]
    BY <1>3 DEF Link, Assign, TypeOK
  <2> QED
    BY <2>1, <2>2, <2>3
<1>4. ASSUME NEW u \in Updater, NEW loc \in Report, Update(u, loc) PROVE Kept
  BY <1>1, <1>4 DEF Update
<1>5. ASSUME NEW q \in Querier,
             \/ QueryStep(q)
             \/ \E area \in SUBSET Pos \ {{}} : Query(q, area)
      PROVE  Kept
  BY <1>1, <1>5 DEF QueryStep, Query, LookUp, LookedUp, Visit, Answer, Fault,
                    ghosts
<1>6. ASSUME NEW t, Fault(t) PROVE Kept
  BY <1>1, <1>6 DEF Fault, ghosts
<1>7. CASE UNCHANGED vars
  BY <1>1, <1>7 DEF vars, ghosts
<1>8. ASSUME NEW u \in Updater, Store(u)
      PROVE  upc[u] = "cell" /\ UNCHANGED <<grid, cells>>
  BY <1>8 DEF Store
<1> QED
  BY <1>2, <1>3, <1>4, <1>5, <1>6, <1>7, <1>8 DEF Next, UpdateStep

(* What Store changes, for the MapCell of the cell.                        *)
LEMMA Stored ==
    ASSUME TypeOK, HandsOK, OneCreator, NEW u \in Updater, Store(u)
    PROVE  /\ uloc[u] \in Report /\ uloc[u].dev \in Device
           /\ CellId(u) \in Cell /\ cells[CellId(u)] = uobj[u]
           /\ uobj[u] \in 1 .. Len(objs)
           /\ UNCHANGED <<grid, cells>>
           /\ \A d \in Device :
                 filed'[d] = IF d = uloc[u].dev THEN uloc[u] ELSE filed[d]
           /\ \A o \in 1 .. Len(objs) : \A d \in Device :
                 objs'[o][d] = IF o = uobj[u] /\ d = uloc[u].dev THEN uloc[u]
                               ELSE objs[o][d]
<1>1. upc[u] = "cell" /\ uloc[u] \in Report
  BY DEF Store, HandsOK
<1>2. uobj[u] \in 1 .. Len(objs)
  BY <1>1, LenProperties DEF HandsOK, TypeOK, Absent
<1>3. uloc[u].dev \in Device /\ CellId(u) \in Cell
  BY <1>1, NoneOrReport DEF CellId, TypeOK
<1>4. cells[CellId(u)] = uobj[u]
  BY <1>1 DEF OneCreator
<1>5. \A d \in Device :
         filed'[d] = IF d = uloc[u].dev THEN uloc[u] ELSE filed[d]
  BY DEF Store, TypeOK, MapCells
<1>6. objs \in Seq(MapCells)
  BY DEF TypeOK
<1> QED
  BY <1>1, <1>2, <1>3, <1>4, <1>5, <1>6, StoreInCell DEF Store

LEMMA NextFound ==
    ASSUME TypeOK, HandsOK, OneCreator, FiledIsFound, [Next]_vars,
           ~overlapped, ~overlapped'
    PROVE  FiledIsFound'
<1> SUFFICES ASSUME NEW d \in Device, filed'[d] # None
             PROVE  InCell(grid[filed[d].pos], d)' = filed'[d]
  BY DEF FiledIsFound
<1>0. /\ Len(objs) \in Nat
      /\ \A o \in Null .. Len(objs) : o \in {Absent, Null} \union 1 .. Len(objs)
      /\ \A o \in 1 .. Len(objs) : o \notin {Absent, Null}
  BY LenProperties DEF Absent, Null, TypeOK
<1>1. CASE \E u \in Updater : upc[u] = "cell" /\ Store(u)
  <2>1. PICK u \in Updater : Store(u)
    BY <1>1
  <2>2. CASE d = uloc[u].dev
    <3>1. /\ filed'[d] = uloc[u] /\ grid'[uloc[u].pos] = CellId(u)
          /\ cells'[CellId(u)] = uobj[u] /\ uobj[u] \in 1 .. Len(objs)
      BY <2>1, <2>2, Stored DEF CellId
    <3>2. objs'[uobj[u]][d] = uloc[u]
      BY <2>1, <2>2, <3>1, Stored
    <3> QED
      BY <1>0, <3>1, <3>2 DEF InCell
  <2>3. CASE d # uloc[u].dev
    <3>1. filed'[d] = filed[d] /\ filed[d] # None
      BY <2>1, <2>3, Stored
    <3>2. filed[d] \in Report /\ grid[filed[d].pos] \in Cell
      BY <3>1, NoneOrReport DEF TypeOK, MapCells, MaybeReport
    <3>3. /\ InCell(grid[filed[d].pos], d) = filed[d]
          /\ cells[grid[filed[d].pos]] \in 1 .. Len(objs)
      BY <1>0, <3>1, <3>2 DEF FiledIsFound, InCell, TypeOK
    <3> QED
      BY <1>0, <2>1, <2>3, <3>1, <3>3, Stored DEF InCell
  <2> QED
    BY <2>2, <2>3
<1>2. CASE /\ UNCHANGED filed
           /\ \A o \in 1 .. Len(objs) : objs'[o] = objs[o]
  <2>1. filed[d] \in Report /\ grid[filed[d].pos] \in Cell
    BY <1>2, NoneOrReport DEF TypeOK, MapCells, MaybeReport
  <2>2. /\ InCell(grid[filed[d].pos], d) = filed[d]
        /\ cells[grid[filed[d].pos]] \in 1 .. Len(objs)
    BY <1>0, <1>2, <2>1, NoneOrReport DEF FiledIsFound, InCell, TypeOK
  <2>3. UNCHANGED grid /\ cells'[grid[filed[d].pos]] = cells[grid[filed[d].pos]]
    BY <1>0, <2>1, <2>2, CellsKept
  <2> QED
    BY <1>0, <1>2, <2>2, <2>3 DEF InCell
<1> QED
  BY <1>1, <1>2, CellsKept
-----------------------------------------------------------------------------
(* A report the query at q must still come across.                         *)
Wanted(q, d) ==
    /\ qpc[q] \in {"cells", "visit"} /\ ~qraced[q]
    /\ filed[d] # None /\ filed[d] = qseen[q][d]
    /\ filed[d].pos \in qarea[q]

LEMMA FiledPlace ==
    ASSUME TypeOK, FiledIsFound, ~overlapped,
           NEW d \in Device, filed[d] # None
    PROVE  /\ filed[d] \in Report /\ filed[d].pos \in Pos
           /\ grid[filed[d].pos] \in Cell
           /\ cells[grid[filed[d].pos]] \in 1 .. Len(objs)
           /\ objs[cells[grid[filed[d].pos]]][d] = filed[d]
<1>1. /\ Len(objs) \in Nat
      /\ \A o \in Null .. Len(objs) : o \in {Absent, Null} \union 1 .. Len(objs)
  BY LenProperties DEF Absent, Null, TypeOK
<1>2. filed[d] \in Report /\ filed[d].pos \in Pos /\ grid[filed[d].pos] \in Cell
  BY NoneOrReport DEF TypeOK, MapCells, MaybeReport
<1> QED
  BY <1>1, <1>2 DEF FiledIsFound, InCell, TypeOK

LEMMA NextCover ==
    ASSUME TypeOK, HandsOK, Fresh, OneCreator, FiledIsFound, QueriesCover,
           [Next]_vars, ~overlapped, ~overlapped'
    PROVE  QueriesCover'
<1> SUFFICES ASSUME NEW q \in Querier, NEW d \in Device, Wanted(q, d)'
             PROVE  OnTheWay(q, d)'
  BY DEF QueriesCover, Wanted
<1> DEFINE c == grid[filed[d].pos]
<1>0. Wanted(q, d) => /\ OnTheWay(q, d) /\ c \in Cell
                      /\ cells[c] \in 1 .. Len(objs) /\ objs[cells[c]][d] = filed[d]
                      /\ filed[d] \in Report
  BY FiledPlace DEF QueriesCover, Wanted
<1>1. /\ UNCHANGED grid
      /\ \A b \in Cell : cells[b] \in 1 .. Len(objs) => cells'[b] = cells[b]
  <2>1. \A o \in 1 .. Len(objs) : o \notin {Absent, Null}
    BY LenProperties DEF Absent, Null, TypeOK
  <2> QED
    BY <2>1, CellsKept
<1>2. ASSUME /\ qpc'[q] = qpc[q] /\ qarea'[q] = qarea[q] /\ qtodo'[q] = qtodo[q]
             /\ qlist'[q] = qlist[q] /\ qres'[q] = qres[q]
             /\ qseen'[q] = qseen[q] /\ qraced'[q] = qraced[q]
      PROVE  OnTheWay(q, d)'
  <2>1. filed'[d] = filed[d]
    <3>1. CASE \E u \in Updater : upc[u] = "cell" /\ Store(u)
      <4>1. PICK u \in Updater : upc[u] = "cell" /\ Store(u)
        BY <3>1
      <4>2. \/ filed'[d] = filed[d]
            \/ filed'[d] = uloc[u]
        BY <4>1, Stored
      <4>3. qseen[q][d] # None /\ filed'[d] = qseen[q][d]
        BY <1>2 DEF Wanted
      <4> QED
        BY <4>1, <4>2, <4>3 DEF Fresh
    <3> QED
      BY <3>1, CellsKept
  <2>2. Wanted(q, d)
    BY <1>2, <2>1 DEF Wanted
  <2> QED
    BY <1>0, <1>1, <1>2, <2>1, <2>2 DEF OnTheWay
<1>3. ASSUME NEW u \in Updater,
             UpdateStep(u) \/ \E loc \in Report : Update(u, loc)
      PROVE  OnTheWay(q, d)'
  <2>1. UNCHANGED queriers
    BY <1>3 DEF UpdateStep, Update, Find, Link, Assign, Store, Fault
  <2> QED
    BY <1>2, <2>1 DEF queriers
<1>4. CASE UNCHANGED vars
  BY <1>2, <1>4 DEF vars, queriers
<1>5. ASSUME NEW p \in Querier, p # q,
             \/ QueryStep(p)
             \/ \E area \in SUBSET Pos \ {{}} : Query(p, area)
      PROVE  OnTheWay(q, d)'
  <2>1. CASE \E area \in SUBSET Pos \ {{}} : Query(p, area)
    BY <1>2, <1>5, <2>1 DEF Query, TypeOK
  <2>2. CASE \E b \in Cell : LookUp(p, b)
    BY <1>2, <1>5, <2>2 DEF LookUp, TypeOK
  <2>3. CASE LookedUp(p)
    BY <1>2, <1>5, <2>3 DEF LookedUp, TypeOK
  <2>4. CASE \E o \in qlist[p] : Visit(p, o)
    BY <1>2, <1>5, <2>4 DEF Visit, TypeOK
  <2>5. CASE Answer(p)
    BY <1>2, <1>5, <2>5 DEF Answer, TypeOK
  <2>6. CASE Fault(p)
    BY <1>2, <2>6 DEF Fault, queriers
  <2> QED
    BY <1>5, <2>1, <2>2, <2>3, <2>4, <2>5, <2>6 DEF QueryStep
<1>6. ASSUME NEW area \in SUBSET Pos \ {{}}, Query(q, area)
      PROVE  OnTheWay(q, d)'
  BY <1>6 DEF Query, Wanted, OnTheWay, CellsOf, TypeOK, index, ghosts
<1>7. ASSUME NEW b \in Cell, LookUp(q, b) PROVE OnTheWay(q, d)'
  <2>1. PICK seen \in Seen(q, b) :
          qlist' = [qlist EXCEPT ![q] = @ \union ({seen} \ {Absent})]
    BY <1>7 DEF LookUp
  <2>2. /\ UNCHANGED <<grid, cells, filed, qpc, qarea, qres, qseen>>
        /\ qtodo' = [qtodo EXCEPT ![q] = @ \ {b}]
        /\ qraced'[q] = (qraced[q] \/ Rebuilding(q))
    BY <1>7 DEF LookUp, index, ghosts, TypeOK
  <2>3. ~Rebuilding(q) /\ Wanted(q, d)
    BY <2>2 DEF Wanted
  <2>4. seen = cells[b]
    BY <2>1, <2>3 DEF Seen
  <2>5. cells[c] # Absent
    BY <1>0, <2>3 DEF Absent
  <2> QED
    BY <1>0, <2>1, <2>2, <2>3, <2>4, <2>5 DEF OnTheWay, TypeOK
<1>8. ASSUME LookedUp(q) PROVE OnTheWay(q, d)'
  <2>1. Wanted(q, d)
    BY <1>8 DEF LookedUp, Wanted, TypeOK, ghosts
  <2> QED
    BY <1>0, <1>8, <2>1 DEF LookedUp, OnTheWay, index, ghosts
<1>9. ASSUME NEW o \in qlist[q], Visit(q, o) PROVE OnTheWay(q, d)'
  <2>1. /\ Wanted(q, d) /\ qpc[q] = "visit"
        /\ UNCHANGED <<grid, cells, filed, qpc, qarea>>
    BY <1>9 DEF Visit, Wanted, index, ghosts
  <2>2. CASE o = Null
    BY <1>0, <1>9, <2>1, <2>2 DEF Visit, OnTheWay
  <2>3. CASE o # Null
    <3>1. /\ qlist'[q] = qlist[q] \ {o}
          /\ qres'[q] = qres[q] \union
                 {r \in {objs[o][e] : e \in Device} \ {None} : r.pos \in qarea[q]}
      BY <1>9, <2>3 DEF Visit, TypeOK
    <3>2. CASE o = cells[c]
      BY <1>0, <2>1, <3>1, <3>2 DEF OnTheWay, Wanted
    <3>3. CASE o # cells[c]
      BY <1>0, <2>1, <3>1, <3>3 DEF OnTheWay
    <3> QED
      BY <3>2, <3>3
  <2> QED
    BY <2>2, <2>3
<1>10. ASSUME Answer(q) PROVE FALSE
  BY <1>10 DEF Answer, Wanted, TypeOK
<1>11. ASSUME Fault(q) PROVE OnTheWay(q, d)'
  BY <1>2, <1>11 DEF Fault, queriers
<1> QED
  BY <1>3, <1>4, <1>5, <1>6, <1>7, <1>8, <1>9, <1>10, <1>11 DEF Next, QueryStep
-----------------------------------------------------------------------------
LEMMA InductiveInvariant == Spec => []IInv
<1>1. Init => IInv
  <2> SUFFICES ASSUME Init PROVE IInv
    OBVIOUS
  <2>1. TypeOK /\ HandsOK
    BY InitType
  <2>2. /\ \A u \in Updater : upc[u] = "idle"
        /\ \A d \in Device : filed[d] = None
        /\ \A q \in Querier, d \in Device : qseen[q][d] = None
        /\ \A c \in Cell : cells[c] # Null
    BY DEF Init, Nobody, Absent, Null
  <2> QED
    BY <2>1, <2>2 DEF IInv, Fresh, OneCreator, Creating, FiledIsFound, QueriesCover
<1>2. IInv /\ [Next]_vars => IInv'
  <2> SUFFICES ASSUME IInv, [Next]_vars PROVE IInv'
    OBVIOUS
  <2>1. TypeOK' /\ HandsOK'
    BY NextType DEF IInv
  <2>2. Fresh'
    BY NextFresh DEF IInv
  <2>3. ASSUME ~overlapped' PROVE ~overlapped
    <3>1. ASSUME NEW u \in Updater, Find(u) PROVE ~overlapped
      BY <2>3, <3>1 DEF Find
    <3>2. CASE UNCHANGED overlapped
      BY <2>3, <3>2
    <3>3. Next => (\E u \in Updater : Find(u)) \/ UNCHANGED overlapped
      BY DEF Next, UpdateStep, QueryStep, Update, Link, Assign, Store, Query,
             LookUp, LookedUp, Visit, Answer, Fault, ghosts
    <3> QED
      BY <3>1, <3>2, <3>3 DEF vars, ghosts
  <2>4. ASSUME ~overlapped' PROVE OneCreator' /\ FiledIsFound' /\ QueriesCover'
    BY <2>3, <2>4, NextCreator, NextFound, NextCover DEF IInv
  <2> QED
    BY <2>1, <2>2, <2>4 DEF IInv
<1> QED
  BY <1>1, <1>2, PTL DEF Spec

(* Whatever the grid and however many threads decode: as long as no        *)
(* update() ran into another one's creation of a cell (map.cpp inserts into*)
(* _cells under a shared lock), the last report of every device is found in*)
(* the cell its position lies in.                                          *)
THEOREM FoundCorrect == Spec => []FiledIsFound
<1>1. IInv => FiledIsFound
  BY DEF IInv, FiledIsFound
<1> QED
  BY <1>1, InductiveInvariant, PTL

(* Under the same condition a query that met no creation on its way through*)
(* getCells() returns every report that was in its area when it began and  *)
(* is still the last one of its device, however updates, stores and the    *)
(* visits of the cells interleave.                                         *)
THEOREM QueryCorrect == Spec => []QueryFinds
<1>1. IInv => QueryFinds
  <2> SUFFICES ASSUME IInv, ~overlapped, NEW q \in Querier,
                      qpc[q] = "visit", qlist[q] = {}, ~qraced[q],
                      NEW d \in Device,
                      qseen[q][d] # None, qseen[q][d].pos \in qarea[q],
                      filed[d] = qseen[q][d]
               PROVE  qseen[q][d] \in qres[q]
    BY DEF QueryFinds
  <2> QED
    BY DEF IInv, QueriesCover, OnTheWay
<1> QED
  BY <1>1, InductiveInvariant, PTL
-----------------------------------------------------------------------------
(* The arithmetic of the grid.                                             *)

(* The grid's origin and cells, in whole units.                            *)
GridGiven ==
    /\ Origin.lon \in Int /\ Origin.lat \in Int
    /\ CellSize.width \in Nat \ {0} /\ CellSize.height \in Nat \ {0}

(* A query as QueryCase() makes it.                                        *)
QueryGiven(qc) ==
    /\ qc.circle.lon \in Int /\ qc.circle.lat \in Int /\ qc.circle.radius \in Int
    /\ qc.rect.x \in Int /\ qc.rect.y \in Int
    /\ qc.rect.width \in Int /\ qc.rect.height \in Int

(* The area is inside the 2^16 - 1 columns and rows an index can tell      *)
(* apart.                                                                  *)
InGrid(area) ==
    /\ area.x >= Origin.lon
    /\ area.x + area.width < Origin.lon + (2^16 - 1) * CellSize.width
    /\ area.y >= Origin.lat
    /\ area.y + area.height < Origin.lat + (2^16 - 1) * CellSize.height

(* Whole cells below a position.                                           *)
LEMMA DivMonotone ==
    ASSUME NEW w \in Nat \ {0}, NEW a \in Nat, NEW b \in Nat, a <= b
    PROVE  /\ a \div w \in Nat /\ b \div w \in Nat
           /\ a \div w <= b \div w
<1>1. a \div w \in Int /\ b \div w \in Int
  BY SMT
<1>2. /\ w * (a \div w) <= a /\ a < w * (a \div w) + w
      /\ w * (b \div w) <= b /\ b < w * (b \div w) + w
  BY SMT
<1>3. a \div w >= 0
  BY <1>1, <1>2, SMT
<1>4. a \div w <= b \div w
  BY <1>1, <1>2, SMT
<1> QED
  BY <1>1, <1>3, <1>4, SMT

LEMMA DivBelow ==
    ASSUME NEW w \in Nat \ {0}, NEW a \in Nat, NEW k \in Nat, a < k * w
    PROVE  a \div w < k
<1>1. a \div w \in Int
  BY SMT
<1>2. w * (a \div w) <= a
  BY SMT
<1> QED
  BY <1>1, <1>2, SMT

(* A circle has no point further from its middle, on either axis, than its *)
(* radius.                                                                 *)
LEMMA Squares ==
    ASSUME NEW a \in Int, NEW b \in Int, NEW r \in Nat,
           a * a + b * b <= r * r
    PROVE  /\ -r <= a /\ a <= r
           /\ -r <= b /\ b <= r
<1>1. a * a >= 0 /\ b * b >= 0
  BY SMT
<1>2. ASSUME NEW n \in Int, n * n <= r * r
      PROVE  -r <= n /\ n <= r
  <2>1. ASSUME n > r
        PROVE  FALSE
    BY <1>2, <2>1, SMT
  <2>2. ASSUME n < -r
        PROVE  FALSE
    BY <1>2, <2>2, SMT
  <2> QED
    BY <2>1, <2>2, SMT
<1>3. a * a \in Int /\ b * b \in Int /\ r * r \in Int
  BY SMT
<1>4. a * a <= r * r /\ b * b <= r * r
  BY <1>1, <1>3, SMT
<1> QED
  BY <1>2, <1>4
(* An index is kept in 16 bits, which in the grid it fits into.            *)
LEMMA SixteenBits == 2^16 = 65536
  OBVIOUS

LEMMA Low16 ==
    ASSUME NEW e \in Nat, e < 65536
    PROVE  e % 65536 = e
  OBVIOUS

LEMMA OneMore ==
    ASSUME NEW d \in Nat, d < 65535, NEW p, NEW o
    PROVE  (d + (IF p = o THEN 0 ELSE 1)) % 65536 = d + (IF p = o THEN 0 ELSE 1)
<1>1. CASE p = o
  <2>1. d + (IF p = o THEN 0 ELSE 1) = d
    BY <1>1
  <2> QED
    BY <2>1, Low16
<1>2. CASE p # o
  <2>1. d + (IF p = o THEN 0 ELSE 1) = d + 1
    BY <1>2
  <2>2. d + 1 \in Nat /\ d + 1 < 65536
    OBVIOUS
  <2> QED
    BY <2>1, <2>2, Low16
<1> QED
  BY <1>1, <1>2

LEMMA CellIndexIs ==
    ASSUME NEW p \in Int, NEW o \in Int, NEW w \in Nat \ {0},
           p >= o, p < o + (2^16 - 1) * w
    PROVE  Spatial!CellIndex(p, o, w) = ((p - o) \div w) + (IF p = o THEN 0 ELSE 1)
<1> DEFINE d == (p - o) \div w
<1>1. p - o \in Nat /\ p - o < 65535 * w
  BY SixteenBits
<1>2. d \in Nat /\ d < 65535
  <2> HIDE DEF d
  <2>1. /\ (p - o) \div w <= (p - o) \div w /\ (p - o) \div w \in Nat
    BY <1>1, DivMonotone
  <2>2. (p - o) \div w < 65535
    BY <1>1, DivBelow
  <2> QED
    BY <2>1, <2>2 DEF d
<1>3. Spatial!Truncated(p - o, w) = d
  BY <1>1 DEF Spatial!Truncated
<1> HIDE DEF d
<1>4. (d + (IF p = o THEN 0 ELSE 1)) % 65536 = d + (IF p = o THEN 0 ELSE 1)
  BY <1>2, OneMore
<1>5. Spatial!CellIndex(p, o, w) = (d + (IF p = o THEN 0 ELSE 1)) % 65536
  BY <1>3, SixteenBits DEF Spatial!CellIndex
<1> QED
  BY <1>4, <1>5 DEF d

(* In the grid an index does not decrease from west to east.               *)
LEMMA CellIndexMonotone ==
    ASSUME NEW o \in Int, NEW w \in Nat \ {0}, NEW p \in Int, NEW q \in Int,
           o <= p, p <= q, q < o + (2^16 - 1) * w
    PROVE  /\ Spatial!CellIndex(p, o, w) \in Nat
           /\ Spatial!CellIndex(q, o, w) \in Nat
           /\ Spatial!CellIndex(p, o, w) <= Spatial!CellIndex(q, o, w)
<1>1. p - o \in Nat /\ q - o \in Nat /\ p - o <= q - o
  OBVIOUS
<1>2. /\ (p - o) \div w \in Nat /\ (q - o) \div w \in Nat
      /\ (p - o) \div w <= (q - o) \div w
  BY <1>1, DivMonotone
<1>3. p < o + (2^16 - 1) * w
  <2> DEFINE b == (2^16 - 1) * w
  <2>1. b \in Int
    BY SixteenBits
  <2> HIDE DEF b
  <2>2. q < o + b
    BY DEF b
  <2>3. p < o + b
    BY <2>1, <2>2
  <2> QED
    BY <2>3 DEF b
<1>4. Spatial!CellIndex(p, o, w) = ((p - o) \div w) + (IF p = o THEN 0 ELSE 1)
  BY <1>3, CellIndexIs
<1>5. q >= o
  OBVIOUS
<1>6. Spatial!CellIndex(q, o, w) = ((q - o) \div w) + (IF q = o THEN 0 ELSE 1)
  BY <1>5, CellIndexIs
<1> HIDE DEF Spatial!CellIndex
<1>7. ASSUME NEW m \in Nat, NEW n \in Nat, m <= n
      PROVE  m + (IF p = o THEN 0 ELSE 1) <= n + (IF q = o THEN 0 ELSE 1)
  BY <1>7
<1> QED
  BY <1>2, <1>4, <1>6, <1>7

(* What InRegion() takes is in the rectangle that is looked through.       *)
LEMMA RegionInArea ==
    ASSUME NEW qc, QueryGiven(qc), NEW r, r.lon \in Int, r.lat \in Int,
           Spatial!InRegion(r, qc), qc.sqt \in {"distance", "rectangle"}
    PROVE  Spatial!Within(r, Spatial!Area(qc))
<1>1. CASE qc.sqt = "rectangle"
  BY <1>1 DEF Spatial!InRegion, Spatial!Area
<1>2. CASE qc.sqt = "distance"
  <2> DEFINE a == r.lon - qc.circle.lon
             b == r.lat - qc.circle.lat
             n == qc.circle.radius
  <2>1. a \in Int /\ b \in Int /\ n \in Nat /\ a * a + b * b <= n * n
    BY <1>2 DEF QueryGiven, Spatial!InRegion, Spatial!Distance2, Spatial!Square
  <2> HIDE DEF a, b, n
  <2>2. -n <= a /\ a <= n /\ -n <= b /\ b <= n
    BY <2>1, Squares
  <2>3. /\ r.lon >= qc.circle.lon - n
        /\ r.lon <= (qc.circle.lon - n) + n * 2
        /\ r.lat >= qc.circle.lat - n
        /\ r.lat <= (qc.circle.lat - n) + n * 2
    BY <2>1, <2>2 DEF a, b, QueryGiven
  <2> QED
    BY <1>2, <2>3 DEF Spatial!Within, Spatial!Area, n
<1> QED
  BY <1>1, <1>2

LEMMA AreaGiven ==
    ASSUME NEW qc, QueryGiven(qc)
    PROVE  LET area == Spatial!Area(qc)
           IN  /\ area.x \in Int /\ area.y \in Int
               /\ area.width \in Int /\ area.height \in Int
  BY DEF QueryGiven, Spatial!Area

(* The cell of a position is one of those of a rectangle it lies in.       *)
LEMMA CellOfRectangle ==
    ASSUME GridGiven, NEW area, InGrid(area),
           area.x \in Int, area.y \in Int, area.width \in Int, area.height \in Int,
           NEW r, r.lon \in Int, r.lat \in Int, Spatial!Within(r, area)
    PROVE  Spatial!InCells(Spatial!MakeCellId(r.lon, r.lat), area)
<1> DEFINE ex == area.x + area.width
           ey == area.y + area.height
           X(p) == Spatial!CellIndex(p, Origin.lon, CellSize.width)
           Y(p) == Spatial!CellIndex(p, Origin.lat, CellSize.height)
<1>1. /\ ex \in Int /\ area.x <= r.lon /\ r.lon <= ex /\ Origin.lon <= area.x
      /\ ey \in Int /\ area.y <= r.lat /\ r.lat <= ey /\ Origin.lat <= area.y
  BY DEF GridGiven, InGrid, Spatial!Within
<1>2. /\ ex < Origin.lon + (2^16 - 1) * CellSize.width
      /\ ey < Origin.lat + (2^16 - 1) * CellSize.height
  BY DEF InGrid
<1>3. /\ Origin.lon <= r.lon /\ Origin.lat <= r.lat
      /\ r.lon < Origin.lon + (2^16 - 1) * CellSize.width
      /\ r.lat < Origin.lat + (2^16 - 1) * CellSize.height
  <2> DEFINE ox == Origin.lon
             oy == Origin.lat
             bx == (2^16 - 1) * CellSize.width
             by == (2^16 - 1) * CellSize.height
  <2>1. ox \in Int /\ oy \in Int /\ bx \in Int /\ by \in Int
    BY SixteenBits DEF GridGiven
  <2>2. ex < ox + bx /\ ey < oy + by
    BY <1>2
  <2>3. ox <= area.x /\ oy <= area.y
    BY <1>1
  <2> HIDE DEF ox, oy, bx, by, ex, ey
  <2>4. ox <= r.lon /\ oy <= r.lat /\ r.lon < ox + bx /\ r.lat < oy + by
    BY <1>1, <2>1, <2>2, <2>3
  <2> QED
    BY <2>4 DEF ox, oy, bx, by
<1> HIDE DEF ex, ey
<1>4. /\ X(area.x) \in Nat /\ X(r.lon) \in Nat /\ X(area.x) <= X(r.lon)
  <2>1. area.x \in Int /\ r.lon \in Int /\ Origin.lon \in Int /\ CellSize.width \in Nat \ {0}
    BY DEF GridGiven
  <2> QED
    BY <1>1, <1>3, <2>1, CellIndexMonotone
<1>5. /\ X(ex) \in Nat /\ X(r.lon) <= X(ex)
  <2>1. Origin.lon \in Int /\ CellSize.width \in Nat \ {0}
    BY DEF GridGiven
  <2> QED
    BY <1>1, <1>2, <1>3, <2>1, CellIndexMonotone
<1>6. /\ Y(area.y) \in Nat /\ Y(r.lat) \in Nat /\ Y(area.y) <= Y(r.lat)
  <2>1. Origin.lat \in Int /\ CellSize.height \in Nat \ {0}
    BY DEF GridGiven
  <2> QED
    BY <1>1, <1>3, <2>1, CellIndexMonotone
<1>7. /\ Y(ey) \in Nat /\ Y(r.lat) <= Y(ey)
  <2>1. Origin.lat \in Int /\ CellSize.height \in Nat \ {0}
    BY DEF GridGiven
  <2> QED
    BY <1>1, <1>2, <1>3, <2>1, CellIndexMonotone
<1> HIDE DEF X, Y
<1>8. X(r.lon) \in X(area.x) .. X(ex) /\ Y(r.lat) \in Y(area.y) .. Y(ey)
  BY <1>4, <1>5, <1>6, <1>7
<1>9. /\ Spatial!MakeCellId(r.lon, r.lat) = [x |-> X(r.lon), y |-> Y(r.lat)]
      /\ Spatial!MakeCellId(area.x, area.y) = [x |-> X(area.x), y |-> Y(area.y)]
      /\ Spatial!MakeCellId(ex, ey) = [x |-> X(ex), y |-> Y(ey)]
  BY DEF X, Y, Spatial!MakeCellId
<1> QED
  BY <1>8, <1>9 DEF Spatial!InCells, ex, ey

(* spatialQuery() by circle or by rectangle, map.cpp: if the area that     *)
(* getCells() goes through is inside the grid, every report it asks for    *)
(* that is the last one of its device is found, in whatever order the      *)
(* updates came and whatever the size of the cells.  GlobalMap rests on    *)
(* this where a query looks through the cells of the positions asked for.  *)
THEOREM GridHidesNothing ==
    ASSUME GridGiven,
           NEW Located, \A r \in Located : r.lon \in Int /\ r.lat \in Int,
           NEW updates \in Seq(Located),
           NEW qc, QueryGiven(qc), qc.sqt \in {"distance", "rectangle"},
           InGrid(Spatial!Area(qc)),
           NEW now, NEW i \in DOMAIN updates,
           \A j \in i + 1 .. Len(updates) : updates[j].dev # updates[i].dev,
           Spatial!Accepted(updates[i], qc, now)
    PROVE  \E e \in Spatial!Found(Spatial!Filed(updates), qc, now) : e.report = updates[i]
<1> DEFINE r == updates[i]
           e == [cell |-> Spatial!MakeCellId(r.lon, r.lat), report |-> r]
<1>1. r \in Located
  OBVIOUS
<1>2. r.lon \in Int /\ r.lat \in Int
  BY <1>1
<1>3. Spatial!InRegion(r, qc)
  BY DEF Spatial!Accepted
<1>4. Spatial!Within(r, Spatial!Area(qc))
  BY <1>2, <1>3, RegionInArea
<1>5. Spatial!InCells(e.cell, Spatial!Area(qc))
  BY <1>2, <1>4, AreaGiven, CellOfRectangle
<1>6. e \in Spatial!Filed(updates)
  BY DEF Spatial!Filed
<1>7. e \in Spatial!Found(Spatial!Filed(updates), qc, now)
  BY <1>5, <1>6 DEF Spatial!Found
<1> QED
  BY <1>7

(* Where an index is below zero the conversion to 16 bits makes it large.  *)
LEMMA High16 ==
    ASSUME NEW k \in Nat, 2 <= k, k <= 32768
    PROVE  (1 - k) % 65536 = 65537 - k
  OBVIOUS

LEMMA DivBetween ==
    ASSUME NEW w \in Nat \ {0}, NEW a \in Nat, NEW m \in Nat, NEW n \in Nat,
           m * w <= a, a < n * w
    PROVE  a \div w \in Nat /\ m <= a \div w /\ a \div w < n
<1>1. a \div w \in Nat /\ a \div w < n
  BY DivMonotone, DivBelow
<1>2. a < w * (a \div w) + w
  BY SMT
<1>3. ASSUME a \div w < m PROVE FALSE
  <2>1. (a \div w) + 1 <= m
    BY <1>1, <1>3
  <2>2. ((a \div w) + 1) * w <= m * w
    BY <1>1, <2>1
  <2> QED
    BY <1>1, <1>2, <2>2
<1> QED
  BY <1>1, <1>3

(* Two cells or more to the west of the origin, up to 2^15 of them.        *)
LEMMA CellIndexOutside ==
    ASSUME NEW p \in Int, NEW o \in Int, NEW w \in Nat \ {0},
           p <= o - 2 * w, p > o - 32768 * w
    PROVE  /\ Spatial!CellIndex(p, o, w) \in Nat
           /\ Spatial!CellIndex(p, o, w) > 32768
<1> DEFINE k == (o - p) \div w
<1>1. o - p \in Nat /\ 2 * w <= o - p /\ o - p < 32768 * w /\ o - p # 0 /\ p - o \in Int
  OBVIOUS
<1>2. k \in Nat /\ 2 <= k /\ k < 32768
  BY <1>1, DivBetween
<1>3. Spatial!Truncated(p - o, w) = -k
  <2>1. ~(p - o >= 0) /\ -(p - o) = o - p
    BY <1>1
  <2> QED
    BY <2>1 DEF Spatial!Truncated
<1> HIDE DEF k
<1>4. p # o
  BY <1>1
<1>5. Spatial!CellIndex(p, o, w) = (-k + 1) % 65536
  BY <1>3, <1>4, SixteenBits DEF Spatial!CellIndex
<1>6. -k + 1 = 1 - k
  BY <1>2
<1>7. Spatial!CellIndex(p, o, w) = 65537 - k
  BY <1>2, <1>5, <1>6, High16
<1> QED
  BY <1>2, <1>7

(* Less than two cells to the west of it, or up to 2^15 cells to the east. *)
LEMMA CellIndexInside ==
    ASSUME NEW p \in Int, NEW o \in Int, NEW w \in Nat \ {0},
           p > o - 2 * w, p < o + 32767 * w
    PROVE  /\ Spatial!CellIndex(p, o, w) \in Nat
           /\ Spatial!CellIndex(p, o, w) <= 32767
<1>1. CASE p >= o
  <2> DEFINE d == (p - o) \div w
  <2>1. p - o \in Nat /\ p - o < 32767 * w /\ 0 * w <= p - o
    BY <1>1
  <2>2. d \in Nat /\ d < 32767
    BY <2>1, DivBetween
  <2>3. Spatial!Truncated(p - o, w) = d
    BY <1>1, <2>1 DEF Spatial!Truncated
  <2> HIDE DEF d
  <2>4. Spatial!CellIndex(p, o, w) = (d + (IF p = o THEN 0 ELSE 1)) % 65536
    BY <2>3, SixteenBits DEF Spatial!CellIndex
  <2>5. Spatial!CellIndex(p, o, w) = d + (IF p = o THEN 0 ELSE 1)
    BY <2>2, <2>4, OneMore
  <2>6. CASE p = o
    BY <2>2, <2>5, <2>6
  <2>7. CASE p # o
    BY <2>2, <2>5, <2>7
  <2> QED
    BY <2>6, <2>7
<1>2. CASE p < o
  <2> DEFINE k == (o - p) \div w
  <2>1. o - p \in Nat /\ o - p < 2 * w /\ 0 * w <= o - p
    BY <1>2
  <2>2. k \in Nat /\ k < 2
    BY <2>1, DivBetween
  <2>3. Spatial!Truncated(p - o, w) = -k
    <3>1. ~(p - o >= 0) /\ -(p - o) = o - p
      BY <1>2
    <3> QED
      BY <3>1 DEF Spatial!Truncated
  <2> HIDE DEF k
  <2>4. Spatial!CellIndex(p, o, w) = (-k + 1) % 65536
    BY <1>2, <2>3, SixteenBits DEF Spatial!CellIndex
  <2>5. -k + 1 \in Nat /\ -k + 1 < 65536 /\ -k + 1 <= 32767
    BY <2>2
  <2>6. (-k + 1) % 65536 = -k + 1
    BY <2>5, Low16
  <2> QED
    BY <2>4, <2>5, <2>6
<1> QED
  BY <1>1, <1>2

(* From the one to the other there is no index.                            *)
LEMMA NoneBetween ==
    ASSUME NEW o \in Int, NEW w \in Nat \ {0}, NEW p \in Int, NEW q \in Int,
           p <= o - 2 * w, p > o - 32768 * w, q > o - 2 * w, q < o + 32767 * w
    PROVE  Spatial!CellIndex(p, o, w) .. Spatial!CellIndex(q, o, w) = {}
<1>1. /\ Spatial!CellIndex(p, o, w) \in Nat
      /\ Spatial!CellIndex(p, o, w) > 32768
  BY CellIndexOutside
<1>2. /\ Spatial!CellIndex(q, o, w) \in Nat
      /\ Spatial!CellIndex(q, o, w) <= 32767
  BY CellIndexInside
<1> QED
  BY <1>1, <1>2

(* An area that begins two cells or more to the west of the origin and     *)
(* ends nearer to it or in the grid (makeCellId() turns its first index    *)
(* into a large one, and the loop of getCells() does not begin) finds      *)
(* nothing, whatever the cells hold.                                       *)
THEOREM OutsideFindsNothing ==
    ASSUME GridGiven, NEW held, NEW qc, QueryGiven(qc), NEW now,
           LET area == Spatial!Area(qc)
               edge == Origin.lon - 2 * CellSize.width
           IN  /\ area.x <= edge /\ area.x > Origin.lon - 32768 * CellSize.width
               /\ area.x + area.width > edge
               /\ area.x + area.width < Origin.lon + 32767 * CellSize.width
    PROVE  Spatial!Found(held, qc, now) = {}
<1> DEFINE area == Spatial!Area(qc)
           p == area.x
           q == area.x + area.width
           o == Origin.lon
           w == CellSize.width
<1>1. p \in Int /\ q \in Int
  BY AreaGiven
<1>2. o \in Int /\ w \in Nat \ {0}
  BY DEF GridGiven
<1>3. p <= o - 2 * w /\ p > o - 32768 * w /\ q > o - 2 * w /\ q < o + 32767 * w
  OBVIOUS
<1> HIDE DEF p, q, o, w
<1>4. Spatial!CellIndex(p, o, w) .. Spatial!CellIndex(q, o, w) = {}
  BY <1>1, <1>2, <1>3, NoneBetween
<1>5. ASSUME NEW cell, Spatial!InCells(cell, area) PROVE FALSE
  <2>1. cell.x \in Spatial!CellIndex(p, o, w) .. Spatial!CellIndex(q, o, w)
    BY <1>5 DEF Spatial!InCells, Spatial!MakeCellId, p, q, o, w
  <2> QED
    BY <1>4, <2>1
<1> QED
  BY <1>5 DEF Spatial!Found
=============================================================================
