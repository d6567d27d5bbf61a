------------------------------ MODULE LocServer ------------------------------
(***************************************************************************)
(* LocServer (src/src/server.cpp) with AO_Pool (src/src/pool.cpp): the     *)
(* spatial index, the pool of last reports and the write-behind buffer put *)
(* together.  A decoding thread takes a report and LocServer::update hands *)
(* it to the map, the pool and the buffer, one after the other and without *)
(* a lock around the three; the ios thread's salfCheck() writes the buffer *)
(* out at the same time.  At the start the snapshot table is read back     *)
(* through the same update(), and only then is the map given the origin    *)
(* and cell size of the configuration.                                     *)
(*                                                                         *)
(* Reports are numbered (n) in the order in which they are taken; that no  *)
(* report comes twice is what MessageQueue gives without a reconnect.      *)
(* Queries, which change nothing, are in GlobalMap.                        *)
(***************************************************************************)
EXTENDS Integers, Sequences, FiniteSets

CONSTANTS
    Device, Pos, Cell, Report, None,
    Updater,         \* decoding threads
    DefaultGrid,     \* the map's _props before init()
    Configured,      \* and after it
    DbSync,          \* values the setting dbsync may have at a start
    Unacknowledged, MaxReports, MaxLosses, MaxCrashes    \* see DBSyncer

ASSUME DbSyncAssumption == DbSync \subseteq BOOLEAN /\ DbSync # {}
ASSUME ReportAssumption ==
    /\ None \notin Report
    /\ \A r \in Report : r.dev \in Device /\ r.pos \in Pos /\ r.n \in Nat
ASSUME GridsAssumption ==
    DefaultGrid \in [Pos -> Cell] /\ Configured \in [Pos -> Cell]
ASSUME UnacknowledgedAssumption == Unacknowledged \in BOOLEAN
ASSUME BoundsAssumption ==
    MaxReports \in Nat /\ MaxLosses \in Nat /\ MaxCrashes \in Nat

VARIABLES
    pc, locs, batch, found, succ, err, toload, conn, snapshot, history,
    accepted, losses, crashes,                              \* DBSyncer
    grid, cells, objs, upc, uloc, uobj, filed, sent, overlapped, crashed,
                                                            \* GlobalMap
    pool,       \* AO_Pool::_aos
    lpc, lloc,  \* LocServer::update: place and report, per decoder
    dbsync,     \* _props.dbsync
    restored,   \* history: devices read back that have not reported since
    partial     \* history: prepare() stopped before it had read everything

NoQuerier == {}
Nobody == [d \in Device |-> None]

DB  == INSTANCE DBSyncer WITH Loc <- Report
Map == INSTANCE GlobalMap WITH Querier <- NoQuerier,
          qpc <- << >>, qarea <- << >>, qtodo <- << >>, qlist <- << >>,
          qres <- << >>, qseen <- << >>, qraced <- << >>

dbvars  == <<pc, locs, batch, found, succ, err, toload, conn, snapshot,
             history, accepted, losses, crashes>>
mapvars == <<grid, cells, objs, upc, uloc, uobj, filed, sent, overlapped,
             crashed>>
starts  == <<dbsync, partial>>
vars    == <<dbvars, mapvars, pool, lpc, lloc, restored, starts>>

Init ==
    /\ DB!Init
    /\ grid = DefaultGrid
    /\ cells = [c \in Cell |-> Map!Absent] /\ objs = << >>
    /\ upc = [u \in Updater |-> "idle"]
    /\ uloc = [u \in Updater |-> None]
    /\ uobj = [u \in Updater |-> Map!Absent]
    /\ filed = Nobody /\ sent = 0 /\ overlapped = FALSE /\ crashed = FALSE
    /\ pool = Nobody
    /\ lpc = [u \in Updater |-> "idle"]
    /\ lloc = [u \in Updater |-> None]
    /\ dbsync = FALSE /\ restored = {} /\ partial = FALSE

Serving == pc \notin {"down", "loading"} /\ ~crashed
-----------------------------------------------------------------------------
(* Mutant of PoolStore: std::map::insert, which keeps an entry that is     *)
(* there.                                                                  *)
PoolInsert(loc) ==
    pool' = [pool EXCEPT ![loc.dev] = IF @ = None THEN loc ELSE @]
(* AO_Pool::update(), under the lock of the pool.                          *)
PoolStore(loc) == pool' = [pool EXCEPT ![loc.dev] = loc]

(* prepare(): _syncer.open(), whose prepare() calls update(loc, false).    *)
Open ==
    /\ DB!Open
    /\ dbsync' \in DbSync
    /\ UNCHANGED <<mapvars, pool, lpc, lloc, restored, partial>>

Restore(doc) ==
    /\ DB!Load(doc)
    /\ Map!Place(doc.loc)
    /\ PoolStore(doc.loc)
    /\ restored' = restored \union {doc.loc.dev}
    /\ UNCHANGED <<lpc, lloc, starts>>

(* The rest of prepare(): _map.init(), then the threads are started.       *)
Start ==
    /\ DB!LoadDone \/ DB!LoadFail
    /\ Map!SetGrid(Configured)
    /\ partial' = (toload # {})
    /\ UNCHANGED <<pool, lpc, lloc, restored, dbsync>>
-----------------------------------------------------------------------------
(* update(loc) by decoder u.                                               *)
Take(u, loc) ==
    /\ Serving
    /\ lpc[u] = "idle"
    /\ Map!Update(u, loc)
    /\ lpc' = [lpc EXCEPT ![u] = "map"]
    /\ lloc' = [lloc EXCEPT ![u] = loc]
    /\ UNCHANGED <<dbvars, pool, restored, starts>>

MapUpdate(u) ==
    /\ lpc[u] = "map"
    /\ Map!UpdateStep(u)
    /\ lpc' = [lpc EXCEPT ![u] = IF upc'[u] = "idle" THEN "pool" ELSE "map"]
    /\ UNCHANGED <<dbvars, pool, lloc, restored, starts>>

PoolUpdate(u) ==
    /\ Serving
    /\ lpc[u] = "pool"
    /\ PoolStore(lloc[u])
    /\ lpc' = [lpc EXCEPT ![u] = IF dbsync THEN "sync" ELSE "idle"]
    /\ restored' = restored \ {lloc[u].dev}
    /\ UNCHANGED <<dbvars, mapvars, lloc, starts>>

SyncUpdate(u) ==
    /\ Serving
    /\ lpc[u] = "sync"
    /\ DB!Update(lloc[u])
    /\ lpc' = [lpc EXCEPT ![u] = "idle"]
    /\ UNCHANGED <<mapvars, pool, lloc, restored, starts>>

Decoder(u) == MapUpdate(u) \/ PoolUpdate(u) \/ SyncUpdate(u)
-----------------------------------------------------------------------------
(* salfCheck() on the ios thread; map and pool have nothing to do in it.   *)
Check ==
    /\ Serving
    /\ DB!Check
    /\ UNCHANGED <<mapvars, pool, lpc, lloc, restored, starts>>

Sync2db ==
    /\ Serving
    /\ DB!Sync2db
    /\ UNCHANGED <<mapvars, pool, lpc, lloc, restored, starts>>

ConnLost ==
    /\ DB!ConnLost
    /\ UNCHANGED <<mapvars, pool, lpc, lloc, restored, starts>>

(* The end of the process takes everything but the tables.                 *)
Crash ==
    /\ DB!Crash
    /\ grid' = DefaultGrid
    /\ cells' = [c \in Cell |-> Map!Absent] /\ objs' = << >>
    /\ upc' = [u \in Updater |-> "idle"]
    /\ uloc' = [u \in Updater |-> None]
    /\ uobj' = [u \in Updater |-> Map!Absent]
    /\ filed' = Nobody /\ overlapped' = FALSE /\ crashed' = FALSE
    /\ pool' = Nobody
    /\ lpc' = [u \in Updater |-> "idle"]
    /\ lloc' = [u \in Updater |-> None]
    /\ restored' = {} /\ partial' = FALSE
    /\ UNCHANGED <<sent, dbsync>>

Starting == Open \/ (\E doc \in toload : Restore(doc)) \/ Start

Next ==
    \/ Starting
    \/ \E u \in Updater : Decoder(u) \/ \E loc \in Report : Take(u, loc)
    \/ Check
    \/ Sync2db
    \/ ConnLost
    \/ Crash

Spec == Init /\ [][Next]_vars

-----------------------------------------------------------------------------
OneDecoder == \A u, v \in Updater : u = v

(* What whereis() tells, a spatial query finds where it looks for it, or a *)
(* newer report: update() calls the map before the pool.  Excepted is what *)
(* was read back before the map got the configured grid and has not        *)
(* reported since, if the two grids differ in its cell.                    *)
PoolInMap ==
    Serving /\ OneDecoder =>
        \A d \in Device :
            LET loc == pool[d]
            IN  loc # None =>
                   \/ /\ d \in restored
                      /\ DefaultGrid[loc.pos] # Configured[loc.pos]
                   \/ LET there == Map!InCell(grid[loc.pos], d)
                      IN  there # None /\ there.n >= loc.n

(* Everything that waits for the tables, or is in them, whereis() tells, or*)
(* something newer, also after a restart: the pool is updated before the   *)
(* buffer, and the snapshot is written before the log.  A start that could *)
(* not read the snapshots to their end is excepted.                        *)
PoolCoversTables ==
    Serving /\ OneDecoder /\ ~partial =>
        LET told(entry) == LET loc == pool[entry.loc.dev]
                           IN  loc # None /\ loc.n >= entry.loc.n
        IN  /\ \A i \in DOMAIN locs : told(locs[i])
            /\ \A i \in DOMAIN batch : told(batch[i])
            /\ \A i \in DOMAIN history : told(history[i])
            /\ \A doc \in snapshot : told(doc)

(* Once the decoder rests and the buffer is written out, the snapshot      *)
(* table holds just what the pool holds, if there was no fault and dbsync  *)
(* is on: no report was skipped, and none overtook another.                *)
TablesAgreeAtRest ==
    /\ pc = "idle" /\ locs = << >>
    /\ losses = 0 /\ crashes = 0 /\ dbsync /\ OneDecoder
    /\ \A u \in Updater : lpc[u] = "idle"
    => {doc.loc : doc \in snapshot} = {pool[d] : d \in Device} \ {None}

-----------------------------------------------------------------------------
(* LocServer implements LastLocation.  While the snapshots are read back   *)
(* nobody can ask yet, and the answer is what they hold.                   *)
SavedOf(d) ==
    LET docs == {doc \in snapshot : doc.loc.dev = d}
    IN  IF docs = {} THEN None ELSE (CHOOSE doc \in docs : TRUE).loc

Saved == [d \in Device |-> SavedOf(d)]

Last == INSTANCE LastLocation WITH
            last  <- IF pc \in {"down", "loading"} THEN Saved ELSE pool,
            saved <- Saved

(* Every step of the server, faults included, is one that LastLocation     *)
(* allows, or changes nothing it speaks of.                                *)
ImplementsLastLocation == Last!Spec
=============================================================================
