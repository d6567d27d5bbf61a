------------------------------ MODULE DBSyncer ------------------------------
(***************************************************************************)
(* DBSyncer (src/src/sync.cpp): the write-behind buffer between the        *)
(* in-memory location store and MongoDB.                                   *)
(*                                                                         *)
(* LocServer::update pushes every report on _locs under _mtx.  The ios     *)
(* thread runs check() every few seconds: sync(true) swaps _locs out under *)
(* the mutex, and sync2db writes the swapped batch one report at a time    *)
(* without it: findOne on the snapshot table, insert or update there, then *)
(* insert into the log table.  The first DBException ends the batch.       *)
(* open() connects and reads the snapshot table back through prepare().    *)
(*                                                                         *)
(* MongoDB and its client are external.  A connection that was lost makes  *)
(* every later call throw, for DBClientConnection is built without         *)
(* auto-reconnect; a write is a send without an answer, so one issued on a *)
(* connection that has just gone may also return as if it had been stored  *)
(* (Unacknowledged).                                                       *)
(***************************************************************************)
EXTENDS Naturals, Sequences, FiniteSets

CONSTANTS
    Device,          \* device identifiers (dev_id)
    Loc,             \* location reports: records with at least a field dev
    Unacknowledged,  \* writes are sent without waiting for their outcome
    MaxReports,      \* bound: reports update() receives
    MaxLosses,       \* bound: connections lost
    MaxCrashes       \* bound: ends of the process

ASSUME LocAssumption == \A l \in Loc : l.dev \in Device
ASSUME UnacknowledgedAssumption == Unacknowledged \in BOOLEAN
ASSUME BoundsAssumption ==
    MaxReports \in Nat /\ MaxLosses \in Nat /\ MaxCrashes \in Nat

VARIABLES
    pc,         \* where the thread that talks to MongoDB is
    locs,       \* _locs: buffered reports
    batch,      \* what sync2db still has to write, its current report first
    found,      \* res.isEmpty() of the last findOne, negated
    succ,       \* _sync_succ_num
    err,        \* _sync_error_num
    toload,     \* the cursor of prepare(): documents not read yet
    conn,       \* _db: "ok", "broken" (lost, not noticed yet), "failed"
    snapshot,   \* location.gpsloc_shortcut, a set of documents
    history,    \* location.gpsloc_log
    accepted,   \* history variable: number of reports update() received
    losses,     \* history variable: number of connections lost
    crashes     \* history variable: number of ends of the process

memory == <<locs, batch, found, succ, err, toload>>
tables == <<snapshot, history>>
ghosts == <<accepted, losses, crashes>>
vars   == <<pc, memory, conn, tables, ghosts>>

(* A report as the buffer and the tables hold it.  no is not in the code:  *)
(* it numbers the reports in the order update() received them.             *)
Entry   == [loc : Loc, no : Nat \ {0}]
Conns   == {"ok", "broken", "failed"}
Writing == {"find", "snapshot", "log"}       \* inside sync2db
Pcs     == {"down", "loading", "idle"} \union Writing

Docs(d) == {doc \in snapshot : doc.loc.dev = d}
Current == Head(batch)
-----------------------------------------------------------------------------
Init ==
    /\ pc = "down"
    /\ locs = << >> /\ batch = << >> /\ toload = {}
    /\ found = FALSE /\ succ = 0 /\ err = 0
    /\ conn = "failed"
    /\ snapshot = {} /\ history = << >>
    /\ accepted = 0 /\ losses = 0 /\ crashes = 0

(* open(): connect, then prepare() queries the snapshot table.  When the   *)
(* connect throws the process exits, and is as it was: not running.        *)
Open ==
    /\ pc = "down"
    /\ pc' = "loading"
    /\ conn' = "ok"
    /\ toload' = snapshot
    /\ UNCHANGED <<locs, batch, found, succ, err, tables, ghosts>>

(* prepare(): one turn of the cursor loop, LocServer::update(loc, false).  *)
Load(doc) ==
    /\ pc = "loading"
    /\ doc \in toload
    /\ toload' = toload \ {doc}
    /\ UNCHANGED <<pc, locs, batch, found, succ, err, conn, tables, ghosts>>

LoadDone ==
    /\ pc = "loading"
    /\ toload = {}
    /\ pc' = "idle"
    /\ UNCHANGED <<memory, conn, tables, ghosts>>

(* A DBException ends prepare() early; it returns false, open() does not   *)
(* look at it and the server starts with what was read.                    *)
LoadFail ==
    /\ pc = "loading"
    /\ conn # "ok"
    /\ conn' = "failed"
    /\ toload' = {}
    /\ pc' = "idle"
    /\ UNCHANGED <<locs, batch, found, succ, err, tables, ghosts>>
-----------------------------------------------------------------------------
(* update(), called by LocServer::update for a report from the queue.      *)
Update(loc) ==
    /\ pc \notin {"down", "loading"}
    /\ accepted < MaxReports
    /\ locs' = Append(locs, [loc |-> loc, no |-> accepted + 1])
    /\ accepted' = accepted + 1
    /\ UNCHANGED <<pc, batch, found, succ, err, toload, conn, tables,
                   losses, crashes>>

(* Mutants of Swap: it takes one report and forgets the others; it leaves  *)
(* the buffer as it is; it waits for two reports, as sync(false) would.    *)
SwapOne  == /\ batch' = IF locs = << >> THEN << >> ELSE << Head(locs) >>
            /\ locs' = << >>
SwapCopy == batch' = locs /\ UNCHANGED locs
SwapTwo  == IF Len(locs) >= 2 THEN batch' = locs /\ locs' = << >>
                              ELSE UNCHANGED <<batch, locs>>

Swap == batch' = locs /\ locs' = << >>

(* check() -> sync(true): the swap, whatever the number of reports.        *)
Check ==
    /\ pc = "idle"
    /\ Swap
    /\ pc' = IF batch' = << >> THEN "idle" ELSE "find"
    /\ UNCHANGED <<found, succ, err, toload, conn, tables, ghosts>>

FindOne ==
    /\ pc = "find"
    /\ conn = "ok"
    /\ found' = (Docs(Current.loc.dev) # {})
    /\ pc' = "snapshot"
    /\ UNCHANGED <<locs, batch, succ, err, toload, conn, tables, ghosts>>

(* On a working connection a write takes effect; sent on one that is gone  *)
(* and that nobody has noticed to be gone, it may vanish without a word.   *)
Stored   == conn = "ok"
Vanished == conn = "broken" /\ Unacknowledged

InsertDoc(entry) == snapshot' = snapshot \union {entry}

(* Mutants of ReplaceDoc: the query matches the document of any device, or *)
(* none at all.                                                            *)
ReplaceAny(entry) ==
    \E doc \in snapshot : snapshot' = (snapshot \ {doc}) \union {entry}
ReplaceNone(entry) == UNCHANGED snapshot

(* update(), upsert off, replaces one document of the device, if any.      *)
ReplaceDoc(entry) ==
    \/ /\ Docs(entry.loc.dev) = {}
       /\ UNCHANGED snapshot
    \/ \E doc \in Docs(entry.loc.dev) :
          snapshot' = (snapshot \ {doc}) \union {entry}

WriteSnapshot ==
    /\ pc = "snapshot"
    /\ \/ Stored /\ found /\ ReplaceDoc(Current)
       \/ Stored /\ ~found /\ InsertDoc(Current)
       \/ Vanished /\ UNCHANGED snapshot
    /\ pc' = "log"
    /\ UNCHANGED <<memory, conn, history, ghosts>>

(* Mutant of AddToLog: only a device that is new is logged.                *)
AddIfNew == IF found THEN UNCHANGED history ELSE history' = Append(history, Current)

AddToLog == history' = Append(history, Current)

Count == succ' = succ + 1

WriteLog ==
    /\ pc = "log"
    /\ \/ Stored /\ AddToLog
       \/ Vanished /\ UNCHANGED history
    /\ Count
    /\ batch' = Tail(batch)
    /\ pc' = IF Tail(batch) = << >> THEN "idle" ELSE "find"
    /\ UNCHANGED <<locs, found, err, toload, conn, snapshot, ghosts>>

(* Mutant of GiveUp: the batch stays for later.                            *)
GiveUpLater == UNCHANGED batch

GiveUp == batch' = << >>

(* catch(DBException&): count it and return; the rest of the batch, a      *)
(* local of sync(), goes with the call.                                    *)
Throw ==
    /\ pc \in Writing
    /\ conn # "ok"
    /\ conn' = "failed"
    /\ err' = err + 1
    /\ GiveUp
    /\ pc' = "idle"
    /\ UNCHANGED <<locs, found, succ, toload, tables, ghosts>>
-----------------------------------------------------------------------------
(* Environment.  The process ends by a crash or by LocServer::exec         *)
(* returning, which never calls DBSyncer::close(): both drop the memory.   *)
ConnLost ==
    /\ conn = "ok"
    /\ losses < MaxLosses
    /\ conn' = "broken"
    /\ losses' = losses + 1
    /\ UNCHANGED <<pc, memory, tables, accepted, crashes>>

Crash ==
    /\ pc # "down"
    /\ crashes < MaxCrashes
    /\ pc' = "down"
    /\ conn' = "failed"
    /\ locs' = << >> /\ batch' = << >> /\ toload' = {}
    /\ found' = FALSE /\ succ' = 0 /\ err' = 0
    /\ crashes' = crashes + 1
    /\ UNCHANGED <<tables, accepted, losses>>

Sync2db == FindOne \/ WriteSnapshot \/ WriteLog \/ Throw
Opening == Open \/ (\E doc \in toload : Load(doc)) \/ LoadDone \/ LoadFail

Next ==
    \/ Opening
    \/ \E loc \in Loc : Update(loc)
    \/ Check
    \/ Sync2db
    \/ ConnLost
    \/ Crash

Spec == Init /\ [][Next]_vars

(* The timer of the ios thread re-arms itself after every check, and the   *)
(* thread runs whenever it can.  Nothing obliges reports or faults to come.*)
Fairness == WF_vars(Opening) /\ WF_vars(Check) /\ WF_vars(Sync2db)

FairSpec == Spec /\ Fairness
-----------------------------------------------------------------------------
(* The types of the state, and that sync2db runs on a non-empty rest.      *)
TypeOK ==
    /\ pc \in Pcs
    /\ locs \in Seq(Entry) /\ batch \in Seq(Entry) /\ history \in Seq(Entry)
    /\ snapshot \subseteq Entry /\ toload \subseteq Entry
    /\ found \in BOOLEAN
    /\ succ \in Nat /\ err \in Nat
    /\ accepted \in Nat /\ losses \in Nat /\ crashes \in Nat
    /\ conn \in Conns
    /\ batch # << >> <=> pc \in Writing

(* s lists reports in the order update() received them, none twice.        *)
Ordered(s) == \A i, j \in DOMAIN s : i < j => s[i].no < s[j].no

(* Every report of s came before every report of t.                        *)
Before(s, t) == \A i \in DOMAIN s, j \in DOMAIN t : s[i].no < t[j].no

(* The log is written in the order of update(), without repetition, across *)
(* batches, failures and restarts, and what is buffered is newer still:    *)
(* swapping the buffer out and writing it without the mutex neither        *)
(* reorders nor repeats a report.                                          *)
InOrder ==
    /\ Ordered(history) /\ Ordered(batch) /\ Ordered(locs)
    /\ Before(history, batch) /\ Before(history, locs) /\ Before(batch, locs)

(* The findOne and the write that depends on it are two calls; still there *)
(* is never more than one snapshot document per device.                    *)
OneSnapshot == \A d \in Device : \A s, t \in Docs(d) : s = t

(* The snapshot of a device is at least as new as everything logged of it: *)
(* sync2db writes it first.  A restart, which loads the snapshots only,    *)
(* therefore never shows a device older than the log says it was.          *)
SnapshotCoversLog ==
    \A i \in DOMAIN history :
        \E doc \in Docs(history[i].loc.dev) : doc.no >= history[i].no

(* No step takes a snapshot away or replaces it by an older report.        *)
SnapshotMonotone ==
    [][\A old \in snapshot : \E new \in snapshot' :
          new.loc.dev = old.loc.dev /\ new.no >= old.no]_vars

(* As long as neither the connection nor the process went, every report    *)
(* update() received is in the log, in the batch or in the buffer, once    *)
(* and in its place: an emptied batch has been written to the end.         *)
NothingDropped ==
    losses = 0 /\ crashes = 0 =>
        LET all == history \o batch \o locs
        IN  /\ Len(all) = accepted
            /\ \A i \in DOMAIN all : all[i].no = i

(* Reports that are nowhere any more and are not in the log.               *)
Lost ==
    {n \in 1 .. accepted :
        \A s \in {history, batch, locs} : \A i \in DOMAIN s : s[i].no # n}

(* The first exception gives up the rest of the batch, and the batches     *)
(* after it fail as well: all the same what a fault costs are reports that *)
(* came one after the other, and no fault costs two such runs.  Between    *)
(* two reports in the log none is missing but for a fault of its own.      *)
LostInRuns ==
    Cardinality({n \in Lost : n - 1 \notin Lost}) <= losses + crashes

(* Reports are dropped by faults only, and by each in one stretch.         *)
DroppedByFaults == NothingDropped /\ LostInRuns

(* Snapshot and log are two writes.  A device whose snapshot is newer than *)
(* its log is the report being written or the trace of one fault: a lost   *)
(* connection or a crash separates at most one pair of writes.             *)
Ahead ==
    {doc \in snapshot : \A i \in DOMAIN history : history[i] # doc}

AheadIsAFault ==
    Cardinality(Ahead) <= losses + crashes + (IF pc = "log" THEN 1 ELSE 0)

(* Every report is written to the log in the end if neither connection nor *)
(* process goes: the timer's check() finds whatever update() buffered, and *)
(* the batch it takes is written to its end.                               *)
EventuallyWritten ==
    \A n \in 1 .. MaxReports :
        accepted >= n ~> \/ \E i \in DOMAIN history : history[i].no = n
                         \/ losses + crashes > 0

(* src/src/sync.cpp:39: when a disconnected database is detected, the      *)
(* connection has to be made again.                                        *)
Reconnects == conn = "failed" ~> conn = "ok"
=============================================================================
