------------------------------ MODULE GlobalMap ------------------------------
(***************************************************************************)
(* GlobalMap and MapCell (src/src/map.cpp): the spatial index.  The plane  *)
(* is cut into cells; each cell keeps the last report of every device that *)
(* ever reported from it (nothing is removed when a device moves on).      *)
(*                                                                         *)
(* Decoding threads update it while HTTP workers query it.  A MapCell is   *)
(* guarded by its own lock and its operations are atomic.  _cells is not:  *)
(* GlobalMap::update inserts into the std::map holding _mtxcells shared    *)
(* only, so nobody ever excludes anybody.  An insertion is modelled by its *)
(* parts, the rebuilding of the tree ("link"), which leaves a null pointer *)
(* behind, and the assignment to it ("assign").  A thread that reads or    *)
(* changes the tree while another one rebuilds it may see what is there,   *)
(* miss it, or bring the process down.                                     *)
(***************************************************************************)
EXTENDS Integers, Sequences

CONSTANTS
    Device, Pos, Cell,
    Report,       \* reports: records with fields dev, pos, n, newer reports
                  \* of a device having a greater n
    None,         \* no report
    Updater,      \* threads calling update()
    Querier,      \* HTTP workers calling spatialQuery()
    DefaultGrid   \* _props of the constructor, as a function Pos -> Cell

ASSUME GridAssumption == DefaultGrid \in [Pos -> Cell]
ASSUME ReportAssumption ==
    /\ None \notin Report
    /\ \A r \in Report : r.dev \in Device /\ r.pos \in Pos /\ r.n \in Nat

VARIABLES
    grid,       \* _props: what makeCellId() computes
    cells,      \* _cells: number of the MapCell, Absent, or Null
    objs,       \* the MapCell objects and their _devs
    upc, uloc, uobj,             \* update(): place, report, MapCell
    qpc, qarea, qtodo, qlist, qres,   \* spatialQuery()
    filed,      \* history: last report of each device update() returned from
    qseen,      \* history: filed when the query began
    qraced,     \* history: the query's getCells() overlapped a "link"
    sent,       \* history: number of reports update() was called with
    overlapped, \* history: an update() ran into another one creating a cell
    crashed     \* the process is gone

index    == <<grid, cells, objs>>
updaters == <<upc, uloc, uobj>>
queriers == <<qpc, qarea, qtodo, qlist, qres, qseen, qraced>>
ghosts   == <<filed, overlapped, sent>>
vars == <<index, updaters, queriers, ghosts, crashed>>

Absent == 0                    \* no entry
Null   == -1                   \* an entry that holds a null pointer
Nobody == [d \in Device |-> None]

Init ==
    /\ grid = DefaultGrid
    /\ cells = [c \in Cell |-> Absent]
    /\ objs = << >>
    /\ upc = [u \in Updater |-> "idle"]
    /\ uloc = [u \in Updater |-> None]
    /\ uobj = [u \in Updater |-> Absent]
    /\ qpc = [q \in Querier |-> "idle"]
    /\ qarea = [q \in Querier |-> {}] /\ qtodo = [q \in Querier |-> {}]
    /\ qlist = [q \in Querier |-> {}] /\ qres = [q \in Querier |-> {}]
    /\ filed = Nobody
    /\ qseen = [q \in Querier |-> Nobody]
    /\ qraced = [q \in Querier |-> FALSE]
    /\ sent = 0
    /\ overlapped = FALSE
    /\ crashed = FALSE

(* init(): the configured origin and cell size.                            *)
SetGrid(g) ==
    /\ grid' = g
    /\ UNCHANGED <<cells, objs, updaters, queriers, ghosts, crashed>>
-----------------------------------------------------------------------------
(* update() by thread u.                                                   *)

(* Mutant of CellId: the cell the device was last filed in is used again.  *)
OldCellId(u) == LET old == filed[uloc[u].dev]
                IN  IF old = None THEN grid[uloc[u].pos] ELSE grid[old.pos]

CellId(u) == grid[uloc[u].pos]

Creating(t)   == upc[t] \in {"link", "assign"}
Rebuilding(t) == \E u \in Updater \ {t} : upc[u] = "link"

(* What a find() by t may come to see of cell c.                           *)
Seen(t, c) == {cells[c]} \union (IF Rebuilding(t) THEN {Absent} ELSE {})

(* A thread that works on a tree another one rebuilds may fault.           *)
Fault(t) ==
    /\ ~crashed
    /\ Rebuilding(t)
    /\ crashed' = TRUE
    /\ UNCHANGED <<index, updaters, queriers, ghosts>>

Update(u, loc) ==
    /\ ~crashed
    /\ upc[u] = "idle"
    /\ loc.n = sent + 1
    /\ sent' = sent + 1
    /\ upc' = [upc EXCEPT ![u] = "find"]
    /\ uloc' = [uloc EXCEPT ![u] = loc]
    /\ UNCHANGED <<index, uobj, queriers, filed, overlapped, crashed>>

Return(u) ==
    /\ upc' = [upc EXCEPT ![u] = "idle"]
    /\ uloc' = [uloc EXCEPT ![u] = None]
    /\ uobj' = [uobj EXCEPT ![u] = Absent]

NewCell == Append(objs, Nobody)

(* find(); when there is no entry a MapCell is made.  An entry that still  *)
(* holds a null pointer makes update() return without a word.              *)
Find(u) ==
    /\ ~crashed
    /\ upc[u] = "find"
    /\ overlapped' = (overlapped \/ \E v \in Updater : Creating(v))
    /\ \E seen \in Seen(u, CellId(u)) :
          \/ /\ seen = Absent
             /\ objs' = NewCell
             /\ uobj' = [uobj EXCEPT ![u] = Len(objs) + 1]
             /\ upc' = [upc EXCEPT ![u] = "link"]
             /\ UNCHANGED <<uloc, filed>>
          \/ /\ seen = Null
             /\ Return(u)
             /\ filed' = [filed EXCEPT ![uloc[u].dev] = uloc[u]]
             /\ UNCHANGED objs
          \/ /\ seen \notin {Absent, Null}
             /\ uobj' = [uobj EXCEPT ![u] = seen]
             /\ upc' = [upc EXCEPT ![u] = "cell"]
             /\ UNCHANGED <<objs, uloc, filed>>
    /\ UNCHANGED <<grid, cells, queriers, sent, crashed>>

(* _cells[cid]: the entry, made with a null pointer when there is none.    *)
(* Two rebuildings at a time may lose it.                                  *)
Link(u) ==
    /\ ~crashed
    /\ upc[u] = "link"
    /\ \/ cells' = [cells EXCEPT ![CellId(u)] = IF @ = Absent THEN Null ELSE @]
       \/ Rebuilding(u) /\ UNCHANGED cells
    /\ upc' = [upc EXCEPT ![u] = "assign"]
    /\ UNCHANGED <<grid, objs, uloc, uobj, queriers, ghosts, crashed>>

Assign(u) ==
    /\ ~crashed
    /\ upc[u] = "assign"
    /\ cells' = [cells EXCEPT ![CellId(u)] = IF @ = Absent THEN @ ELSE uobj[u]]
    /\ upc' = [upc EXCEPT ![u] = "cell"]
    /\ UNCHANGED <<grid, objs, uloc, uobj, queriers, ghosts, crashed>>

(* MapCell::update, under the lock of the cell.                            *)
Store(u) ==
    /\ ~crashed
    /\ upc[u] = "cell"
    /\ objs' = [objs EXCEPT ![uobj[u]][uloc[u].dev] = uloc[u]]
    /\ filed' = [filed EXCEPT ![uloc[u].dev] = uloc[u]]
    /\ Return(u)
    /\ UNCHANGED <<grid, cells, queriers, overlapped, sent, crashed>>

(* update() as a whole, for a caller no other thread runs beside.          *)
Place(loc) ==
    LET c == grid[loc.pos]
    IN  /\ IF cells[c] = Absent
           THEN /\ objs' = Append(objs, [Nobody EXCEPT ![loc.dev] = loc])
                /\ cells' = [cells EXCEPT ![c] = Len(objs) + 1]
           ELSE /\ objs' = [objs EXCEPT ![cells[c]][loc.dev] = loc]
                /\ UNCHANGED cells
        /\ filed' = [filed EXCEPT ![loc.dev] = loc]
        /\ UNCHANGED <<grid, updaters, queriers, overlapped, sent, crashed>>

UpdateStep(u) ==
    \/ Find(u) \/ Link(u) \/ Assign(u) \/ Store(u)
    \/ upc[u] \in {"find", "link"} /\ Fault(u)
-----------------------------------------------------------------------------
(* spatialQuery() by thread q, for the positions of an area.               *)

(* Mutant of CellsOf: the loop looks at one cell only.                     *)
OneCellOf(area) == {grid[CHOOSE p \in area : TRUE]}

CellsOf(area) == {grid[p] : p \in area}

Query(q, area) ==
    /\ ~crashed
    /\ qpc[q] = "idle"
    /\ qpc' = [qpc EXCEPT ![q] = "cells"]
    /\ qarea' = [qarea EXCEPT ![q] = area]
    /\ qtodo' = [qtodo EXCEPT ![q] = CellsOf(area)]
    /\ qseen' = [qseen EXCEPT ![q] = filed]
    /\ UNCHANGED <<index, updaters, qlist, qres, qraced, ghosts, crashed>>

(* getCells(): one find().  The loop's order of cells is left open.        *)
LookUp(q, c) ==
    /\ ~crashed
    /\ qpc[q] = "cells"
    /\ c \in qtodo[q]
    /\ qtodo' = [qtodo EXCEPT ![q] = @ \ {c}]
    /\ \E seen \in Seen(q, c) :
          qlist' = [qlist EXCEPT ![q] = @ \union ({seen} \ {Absent})]
    /\ qraced' = [qraced EXCEPT ![q] = @ \/ Rebuilding(q)]
    /\ UNCHANGED <<index, updaters, qpc, qarea, qres, qseen, ghosts, crashed>>

LookedUp(q) ==
    /\ ~crashed
    /\ qpc[q] = "cells"
    /\ qtodo[q] = {}
    /\ qpc' = [qpc EXCEPT ![q] = "visit"]
    /\ UNCHANGED <<index, updaters, qarea, qtodo, qlist, qres, qseen, qraced,
                   ghosts, crashed>>

(* MapCell::doQuery, under the lock of the cell; a null pointer faults.    *)
Visit(q, o) ==
    /\ ~crashed
    /\ qpc[q] = "visit"
    /\ o \in qlist[q]
    /\ IF o = Null
       THEN crashed' = TRUE /\ UNCHANGED <<qlist, qres>>
       ELSE /\ qlist' = [qlist EXCEPT ![q] = @ \ {o}]
            /\ qres' = [qres EXCEPT ![q] = @ \union
                  {r \in {objs[o][d] : d \in Device} \ {None} :
                      r.pos \in qarea[q]}]
            /\ UNCHANGED crashed
    /\ UNCHANGED <<index, updaters, qpc, qarea, qtodo, qseen, qraced, ghosts>>

(* The answer is given, and the locals of the call end with it.            *)
Answer(q) ==
    /\ ~crashed
    /\ qpc[q] = "visit"
    /\ qlist[q] = {}
    /\ qpc' = [qpc EXCEPT ![q] = "idle"]
    /\ qarea' = [qarea EXCEPT ![q] = {}]
    /\ qres' = [qres EXCEPT ![q] = {}]
    /\ qseen' = [qseen EXCEPT ![q] = Nobody]
    /\ qraced' = [qraced EXCEPT ![q] = FALSE]
    /\ UNCHANGED <<index, updaters, qtodo, qlist, ghosts, crashed>>

QueryStep(q) ==
    \/ \E c \in Cell : LookUp(q, c)
    \/ LookedUp(q)
    \/ \E o \in qlist[q] : Visit(q, o)
    \/ Answer(q)
    \/ qpc[q] = "cells" /\ Fault(q)
-----------------------------------------------------------------------------
Next ==
    \/ \E u \in Updater : UpdateStep(u) \/ \E loc \in Report : Update(u, loc)
    \/ \E q \in Querier : QueryStep(q)
                          \/ \E area \in SUBSET Pos \ {{}} : Query(q, area)

Spec == Init /\ [][Next]_vars
-----------------------------------------------------------------------------
(* What a query that visits cell c finds of device d.                      *)
InCell(c, d) == IF cells[c] \in {Absent, Null} THEN None ELSE objs[cells[c]][d]

(* The last report of a device is found where its position is looked for,  *)
(* as long as no update() ran into another one's creation of a cell: then  *)
(* a MapCell, and what was put into it, may be out of reach of every query,*)
(* or a report may have met a null pointer and been left out.              *)
FiledIsFound ==
    ~overlapped =>
        \A d \in Device :
            filed[d] # None => InCell(grid[filed[d].pos], d) = filed[d]

(* A spatial query returns the last report of every device that lay in its *)
(* area when the query began and has not reported since, unless it ran     *)
(* beside the creation of a cell.                                          *)
QueryFinds ==
    ~overlapped =>
        \A q \in Querier :
            qpc[q] = "visit" /\ qlist[q] = {} /\ ~qraced[q] =>
                \A d \in Device :
                    /\ qseen[q][d] # None /\ qseen[q][d].pos \in qarea[q]
                    /\ filed[d] = qseen[q][d]
                    => qseen[q][d] \in qres[q]
=============================================================================
