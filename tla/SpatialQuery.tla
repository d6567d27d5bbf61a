---------------------------- MODULE SpatialQuery ----------------------------
(***************************************************************************)
(* The query interface: the parameters of /spatial_query (src/src/http.cpp,*)
(* src/src/geo.cpp), the grid and the answer (src/src/map.cpp).  Sequential*)
(* code: the interleavings of queries with updates are in GlobalMap.       *)
(*                                                                         *)
(* Degrees are integers here, so that a cell is a few units wide; indices  *)
(* keep the 16 bits of the code.  A report is a record with fields dev,    *)
(* lon, lat, time and groups.                                              *)
(***************************************************************************)
EXTENDS Integers, Sequences, FiniteSets, SequencesExt, FiniteSetsExt

CONSTANTS
    Origin,     \* _props.origin, lon and lat
    CellSize,   \* _props.cell, width and height
    MaxRegion,  \* spatialquery_restrict_maxregion.min()
    Bad         \* what lexical_cast does not take for a number

ASSUME GridAssumption ==
    /\ Origin.lon \in Int /\ Origin.lat \in Int
    /\ CellSize.width \in Nat \ {0} /\ CellSize.height \in Nat \ {0}

Unlimited  == 0
ByTime     == 1
ByDistance == 2
Unsorted   == 3
-----------------------------------------------------------------------------
(* The grid.                                                               *)

(* A float is converted to an integer towards 0.                           *)
Truncated(n, w) == IF n >= 0 THEN n \div w ELSE -((-n) \div w)

(* makeCellId(), one coordinate.  Out of range the conversion to uint16_t  *)
(* keeps the low bits, as the build does.                                  *)
CellIndex(p, origin, w) ==
    (Truncated(p - origin, w) + (IF p = origin THEN 0 ELSE 1)) % 2^16

MakeCellId(lon, lat) ==
    [x |-> CellIndex(lon, Origin.lon, CellSize.width),
     y |-> CellIndex(lat, Origin.lat, CellSize.height)]

(* The cells after updates: what each holds of each device.  A report is   *)
(* replaced by the next one of the device from the same cell only.         *)
Filed(updates) ==
    LET CellOf(i) == MakeCellId(updates[i].lon, updates[i].lat)
        Newest(i) == \A j \in i + 1 .. Len(updates) :
                      updates[j].dev = updates[i].dev => CellOf(j) # CellOf(i)
    IN  {[cell |-> CellOf(i), report |-> updates[i]] : i \in {k \in DOMAIN updates : Newest(k)}}

(* getCells(): from the cell of one corner to that of the other.           *)
InCells(cell, rect) ==
    LET sw == MakeCellId(rect.x, rect.y)
        ne == MakeCellId(rect.x + rect.width, rect.y + rect.height)
    IN  cell.x \in sw.x .. ne.x /\ cell.y \in sw.y .. ne.y
-----------------------------------------------------------------------------
(* A query has circle, rect, and sqt that tells which of them counts.      *)

Square(n) == n * n
Distance2(r, p) == Square(r.lon - p.lon) + Square(r.lat - p.lat)

Within(r, rect) ==
    /\ r.lon >= rect.x /\ r.lon <= rect.x + rect.width
    /\ r.lat >= rect.y /\ r.lat <= rect.y + rect.height

InRegion(r, qc) ==
    IF qc.sqt = "distance"
    THEN qc.circle.radius >= 0 /\ Distance2(r, qc.circle) <= Square(qc.circle.radius)
    ELSE Within(r, qc.rect)

(* The age is unsigned: a report from the future is older than any.        *)
Recent(r, qc, now) ==
    qc.elapsed # Unlimited => r.time <= now /\ now - r.time <= qc.elapsed

(* MapCell::doQuery() of one report.                                       *)
Accepted(r, qc, now) ==
    /\ InRegion(r, qc)
    /\ qc.group_id # "" => qc.group_id \in r.groups
    /\ Recent(r, qc, now)

(* Mutant of Area: the radius is taken for the diameter.                   *)
SmallArea(qc) ==
    IF qc.sqt = "rectangle" THEN qc.rect
    ELSE [x |-> qc.circle.lon, y |-> qc.circle.lat,
          width |-> qc.circle.radius, height |-> qc.circle.radius]

(* doQueryByDistance(), doQueryByRectangle(): what is looked through.      *)
Area(qc) ==
    IF qc.sqt = "rectangle" THEN qc.rect
    ELSE [x |-> qc.circle.lon - qc.circle.radius,
          y |-> qc.circle.lat - qc.circle.radius,
          width |-> qc.circle.radius * 2, height |-> qc.circle.radius * 2]

(* The list before it is sorted: row by row, in a cell by device.          *)
VisitedBefore(a, b) ==
    \/ a.cell.y < b.cell.y
    \/ a.cell.y = b.cell.y /\ a.cell.x < b.cell.x
    \/ a.cell = b.cell /\ a.report.dev < b.report.dev

(* CompareOrderQuery; list::sort keeps the order of what is equal.         *)
SortedBefore(a, b, qc) ==
    LET key(e) == CASE qc.qot = ByTime     -> e.report.time
                    [] qc.qot = ByDistance -> Distance2(e.report, qc.circle)
                    [] qc.qot = Unsorted   -> 0
    IN  \/ key(a) < key(b)
        \/ key(a) = key(b) /\ VisitedBefore(a, b)

Found(cells, qc, now) ==
    {e \in cells : InCells(e.cell, Area(qc)) /\ Accepted(e.report, qc, now)}

(* Mutant of Limited: the end of the list is kept.                         *)
LimitedToLast(list, n) == IF Len(list) > n THEN SubSeq(list, Len(list) - n + 1, Len(list)) ELSE list

Limited(list, n) == IF Len(list) > n THEN SubSeq(list, 1, n) ELSE list

(* GlobalMap::spatialQuery().                                              *)
Answer(cells, qc, now) ==
    LET list == SetToSortSeq(Found(cells, qc, now), LAMBDA a, b : SortedBefore(a, b, qc))
        kept == Limited(list, qc.maxnum)
    IN  [i \in DOMAIN kept |-> kept[i].report]
-----------------------------------------------------------------------------
(* HttpService.  A parameter is a sequence of numbers, Bad among them.     *)

(* fromText(): n numbers; those before one that is Bad are assigned.       *)
FromText(values, n) ==
    LET bad == {i \in DOMAIN values : values[i] = Bad}
        assigned == IF Len(values) # n THEN 0
                    ELSE IF bad = {} THEN n ELSE Min(bad) - 1
    IN  [ok |-> assigned = n,
         v  |-> [i \in 1 .. n |-> IF i <= assigned THEN values[i] ELSE 0]]

(* handle_spatialQuery(), the query its parameters ask for.                *)
QueryCase(p) ==
    LET c == FromText(p.circle, 3)
        r == IF c.ok THEN FromText(<< >>, 4) ELSE FromText(p.rect, 4)
    IN  [ok  |-> (c.ok \/ r.ok) /\ Bad \notin {p.elapsed, p.limit, p.order},
         sqt |-> IF c.ok THEN "distance" ELSE "rectangle",
         circle |-> [lon |-> c.v[1], lat |-> c.v[2], radius |-> c.v[3]],
         rect |-> [x |-> r.v[1], y |-> r.v[2], width |-> r.v[3], height |-> r.v[4]],
         qot |-> p.order, elapsed |-> p.elapsed, maxnum |-> p.limit,
         group_id |-> p.group_id]

TooWide(qc) ==
    \/ qc.circle.radius * 2 > MaxRegion
    \/ qc.rect.width > MaxRegion \/ qc.rect.height > MaxRegion

(* The answer as text: to_xml() of query.cpp, spatialQuery_return() and    *)
(* error_return().                                                         *)
Field(name, value) == <<" ", name, "=", "\"", ToString(value), "\"">>

LocationXml(r) ==
    <<"<", "location">> \o Field("dev_id", r.dev) \o Field("lon", r.lon)
    \o Field("lat", r.lat) \o Field("time", r.time) \o <<"/", ">">>

ListXml(list) ==
    <<"<", "locations", ">">>
    \o FlattenSeq([i \in DOMAIN list |-> LocationXml(list[i]) \o <<"\n">>])
    \o <<"<", "/", "locations", ">">>

ResultXml(code, inner) ==
    <<"<", "result", " ", "code", " ", "=", "\"", code, "\"", ">">>
    \o inner \o <<"<", "/", "result", ">">>

ReturnXml(res) ==
    IF res.error = "none" THEN ResultXml("0", ListXml(res.list))
    ELSE ResultXml("1", <<"<", "error">> \o Field("code", res.error) \o <<"/", ">">>)

HandleSpatialQuery(cells, p, now) ==
    LET qc == QueryCase(p)
    IN  IF ~qc.ok THEN [error |-> "param_dirty"]
        ELSE IF TooWide(qc) THEN [error |-> "region_too_wide"]
        ELSE [error |-> "none", list |-> Answer(cells, qc, now)]
=============================================================================
