----------------------------- MODULE EventStore -----------------------------
(***************************************************************************)
(* The server's events table and what it keeps beside it (src/server/db.ts, *)
(* class Store): the per-day rollup every dashboard number is read from,   *)
(* the queue of rollup cells a delete invalidated, and the cached row      *)
(* count behind /health.                                                   *)
(*                                                                         *)
(* The server is one thread and each method runs to its end, but only      *)
(* insertMany and the clears of rows are transactions: the process may die *)
(* between two statements of clearFull.                                    *)
(*                                                                         *)
(* A rollup cell holds sums.  A sum is modelled by what is in it: how many *)
(* times each event has been added to the cell of a given day.             *)
(***************************************************************************)
EXTENDS RollWindow, FiniteSets, FiniteSetsExt

CONSTANTS
    Events,     \* every event a batch may hold, a set of records
    Users, Models, Keys,
    NoTime,     \* the latest timestamp of an empty cell
    Null,       \* cachedCount, when it must be read again from the table
    WindowEdges, \* bound: the ends of the windows read
    MaxBatch,   \* bound: events per batch
    MaxCount    \* bound: the cached count

\* A key stands for (user, source, messageId, requestId, messageType), a model
\* for a model with or without a cost of its own (hasStored).
EventType ==
    [user : Users, source : {"cursor", "cursor_local", "other"},
     type : {"assistant", "user"}, model : Models, key : Keys, time : Int]

ASSUME StoreAssumption ==
    /\ Events \subseteq EventType
    /\ IsFiniteSet(Events)
    /\ \A e, f \in Events : e.key = f.key =>
          e.user = f.user /\ e.source = f.source /\ e.type = f.type
    /\ NoTime \in Int /\ \A e \in Events : NoTime < e.time
    /\ Null \notin Int
    /\ WindowEdges \subseteq Int
    /\ MaxBatch \in Nat
    /\ MaxCount \in Nat

VARIABLES
    rows,           \* the events table
    roll,           \* events_roll_day: roll[day][event], times it was summed
    latest,         \* its maxTimestamp column, by cell
    dirty,          \* events_roll_dirty: (user, day) pairs
    cachedCount,
    pc              \* "down", "up", or the next statement of clearFull

vars == <<rows, roll, latest, dirty, cachedCount, pc>>

Days  == {rollDayOf(e.time) : e \in Events} \cup {rollDaySql(e.time) : e \in Events}
Cells == [day : Days, user : Users, type : {"assistant", "user"}, model : Models]

CellOf(d, e) == [day |-> d, user |-> e.user, type |-> e.type, model |-> e.model]

OnePerKey(R) == \A e, f \in R : e.key = f.key => e = f

-----------------------------------------------------------------------------
(* The rollup.                                                             *)

NoRoll   == [d \in Days |-> [e \in Events |-> 0]]
NoLatest == [c \in Cells |-> NoTime]

latestOf(T) == Max(T \cup {NoTime})

\* rebuildRollup: from the raw rows, user by user.
Rebuilt(R) ==
    [d \in Days |-> [e \in Events |->
        IF e \in R /\ d = rollDaySql(e.time) THEN 1 ELSE 0]]
RebuiltLatest(R) ==
    [c \in Cells |->
        latestOf({e.time : e \in {r \in R : CellOf(rollDaySql(r.time), r) = c}})]

\* The UPSERTs of a batch whose rows N were inserted: one delta per cell, under
\* the day of the event itself.
Upserted(r, N) ==
    [d \in Days |-> [e \in Events |->
        r[d][e] + IF e \in N /\ d = rollDayOf(e.time) THEN 1 ELSE 0]]
UpsertedLatest(l, N) ==
    [c \in Cells |->
        latestOf({l[c]} \cup {e.time : e \in {n \in N : CellOf(rollDayOf(n.time), n) = c}})]

\* The rows the rebuild of the queued cells Q reads.
Rescanned(Q, R) ==
    {e \in R : \E q \in Q : /\ q[1] = e.user
                            /\ q[2] * DAY_MS <= e.time
                            /\ e.time < (q[2] + 1) * DAY_MS}

\* Mutant: what was summed is taken off the cell, as if it held every event.
RepairedByDelta(r, Q, R) ==
    LET back == Rebuilt(Rescanned(Q, R))
    IN  [d \in Days |-> [e \in Events |->
            r[d][e] + back[d][e] - IF <<e.user, d>> \in Q THEN 1 ELSE 0]]

\* repairRollupInTx: drop each queued cell and recompute it from the raw rows.
Repaired(r, Q, R) ==
    LET back == Rebuilt(Rescanned(Q, R))
    IN  [d \in Days |-> [e \in Events |->
            (IF <<e.user, d>> \in Q THEN 0 ELSE r[d][e]) + back[d][e]]]
\* Mutant: the latest timestamp of a repaired cell can only grow.
RepairedLatestGrows(l, Q, R) ==
    LET back == RebuiltLatest(Rescanned(Q, R))
    IN  [c \in Cells |-> latestOf({l[c], back[c]})]
RepairedLatest(l, Q, R) ==
    LET back == RebuiltLatest(Rescanned(Q, R))
    IN  [c \in Cells |-> IF <<c.user, c.day>> \in Q THEN back[c] ELSE l[c]]

-----------------------------------------------------------------------------
\* The database of an earlier run, with its rollup or from before there was one.
Init ==
    /\ rows \in {R \in SUBSET Events : OnePerKey(R)}
    /\ \/ roll = Rebuilt(rows) /\ latest = RebuiltLatest(rows)
       \/ roll = NoRoll /\ latest = NoLatest
    /\ dirty = {}
    /\ cachedCount = Null
    /\ pc = "down"

\* repairRollup: what the boot, the audit and every rollup read do first.
repairRollup ==
    /\ roll' = Repaired(roll, dirty, rows)
    /\ latest' = RepairedLatest(latest, dirty, rows)
    /\ dirty' = {}

\* auditRollup({ repair: true }): drain the queue, compare, rebuild if they differ.
auditRollup ==
    /\ dirty' = {}
    /\ LET drained == Repaired(roll, dirty, rows)
       IN  IF drained = Rebuilt(rows)
             THEN roll' = drained /\ latest' = RepairedLatest(latest, dirty, rows)
             ELSE roll' = Rebuilt(rows) /\ latest' = RebuiltLatest(rows)

\* The constructor, up to the primed count cache.
Boot ==
    /\ pc = "down"
    /\ auditRollup
    /\ cachedCount' = Cardinality(rows)
    /\ pc' = "up"
    /\ UNCHANGED rows

\* Rows of the local fallback inside the span of the batch's cloud events.
Superseded(B) ==
    {r \in rows : /\ r.source = "cursor_local" /\ r.type = "assistant"
                  /\ \E a, b \in B : /\ a.source = "cursor" /\ a.user = r.user
                                     /\ b.source = "cursor" /\ b.user = r.user
                                     /\ a.time <= r.time /\ r.time <= b.time}

\* What ON CONFLICT DO NOTHING lets in: one event for each key not in R.
Inserted(R, B) ==
    {N \in SUBSET B :
        /\ OnePerKey(N)
        /\ {n.key : n \in N} = {b.key : b \in B} \ {r.key : r \in R}}

insertMany(B) ==
    /\ pc = "up"
    /\ cachedCount # Null => cachedCount <= MaxCount
    /\ LET gone   == Superseded(B)
           queued == dirty \cup {<<r.user, rollDaySql(r.time)>> : r \in gone}
       IN  \E N \in Inserted(rows \ gone, B) :
             /\ rows' = (rows \ gone) \cup N
             /\ roll' = Repaired(Upserted(roll, N), queued, rows')
             /\ latest' = RepairedLatest(UpsertedLatest(latest, N), queued, rows')
             /\ cachedCount' = IF cachedCount = Null THEN Null
                               ELSE cachedCount + Cardinality(N)
    /\ dirty' = {}
    /\ UNCHANGED pc

count ==
    /\ pc = "up"
    /\ cachedCount' = IF cachedCount = Null THEN Cardinality(rows) ELSE cachedCount
    /\ UNCHANGED <<rows, roll, latest, dirty, pc>>

\* Any rollup-backed read.
rollArgs ==
    /\ pc = "up"
    /\ repairRollup
    /\ UNCHANGED <<rows, cachedCount, pc>>

\* POST /admin/rollup-audit, with and without {"rebuild": true}.
AdminAudit(force) ==
    /\ pc = "up"
    /\ IF force
         THEN roll' = Rebuilt(rows) /\ latest' = RebuiltLatest(rows) /\ dirty' = {}
         ELSE auditRollup
    /\ UNCHANGED <<rows, cachedCount, pc>>

clearAllEvents ==
    /\ pc = "up"
    /\ rows' = {}
    /\ roll' = NoRoll
    /\ latest' = NoLatest
    /\ dirty' = {}
    /\ cachedCount' = Null
    /\ UNCHANGED pc

\* Mutant: the cached count is zeroed, as if every row had gone.
clearUserEventsZero(u) ==
    /\ pc = "up"
    /\ rows' = {r \in rows : r.user # u}
    /\ roll' = [d \in Days |-> [e \in Events |-> IF e.user = u THEN 0 ELSE roll[d][e]]]
    /\ latest' = [c \in Cells |-> IF c.user = u THEN NoTime ELSE latest[c]]
    /\ dirty' = {q \in dirty : q[1] # u}
    /\ cachedCount' = 0
    /\ UNCHANGED pc

clearUserEvents(u) ==
    /\ pc = "up"
    /\ rows' = {r \in rows : r.user # u}
    /\ roll' = [d \in Days |-> [e \in Events |-> IF e.user = u THEN 0 ELSE roll[d][e]]]
    /\ latest' = [c \in Cells |-> IF c.user = u THEN NoTime ELSE latest[c]]
    /\ dirty' = {q \in dirty : q[1] # u}
    /\ cachedCount' = Null
    /\ UNCHANGED pc

\* clearFull: one statement after another, each committed by itself.
clearFull ==
    /\ pc = "up"
    /\ cachedCount' = Null
    /\ roll' = NoRoll
    /\ latest' = NoLatest
    /\ pc' = "dropDirty"
    /\ UNCHANGED <<rows, dirty>>

DropDirty ==
    /\ pc = "dropDirty"
    /\ dirty' = {}
    /\ pc' = "dropEvents"
    /\ UNCHANGED <<rows, roll, latest, cachedCount>>

DropEvents ==
    /\ pc = "dropEvents"
    /\ rows' = {}
    /\ pc' = "up"
    /\ UNCHANGED <<roll, latest, dirty, cachedCount>>

Crash ==
    /\ pc # "down"
    /\ pc' = "down"
    /\ cachedCount' = Null
    /\ UNCHANGED <<rows, roll, latest, dirty>>

Batches == {B \in SUBSET Events : Cardinality(B) <= MaxBatch}

Next ==
    \/ Boot
    \/ \E B \in Batches : insertMany(B)
    \/ count
    \/ rollArgs
    \/ \E force \in BOOLEAN : AdminAudit(force)
    \/ clearAllEvents
    \/ \E u \in Users : clearUserEvents(u)
    \/ clearFull
    \/ DropDirty
    \/ DropEvents
    \/ Crash

Spec == Init /\ [][Next]_vars

-----------------------------------------------------------------------------
TypeOK ==
    /\ rows \subseteq Events
    /\ roll \in [Days -> [Events -> Nat]]
    /\ latest \in [Cells -> Int]
    /\ dirty \subseteq Users \X Days
    /\ cachedCount \in Nat \cup {Null}
    /\ pc \in {"down", "up", "dropDirty", "dropEvents"}

\* The rollup a serving server reads sums exactly the rows of the table, each
\* once and under its own day: SCHEMA's invariant 1, "authoritative".
SumsExact == pc = "up" => roll = Rebuilt(rows) /\ dirty = {}

\* And the maxTimestamp of a cell is that of its latest row, deletes included.
LatestExact == pc = "up" => latest = RebuiltLatest(rows)

\* The cached row count behind /health is never short of the table.  (It may
\* exceed it: rows a cloud batch supersedes are not taken off the cache.)
CountCovers == cachedCount = Null \/ cachedCount >= Cardinality(rows)
=============================================================================
