------------------------------- MODULE Stats -------------------------------
(***************************************************************************)
(* What the dashboard and the API are told (src/server/main.ts, api-v1.ts  *)
(* and the read methods of db.ts) and the response cache in front of it.   *)
(*                                                                         *)
(* Every number comes from one source: the rollup for the whole days of    *)
(* the window and raw rows for the slivers around them.  Answers to        *)
(* /stats/admin and /stats/timeseries are cached; those of a window that   *)
(* ended in the past are "frozen" and kept for a day, so that every write  *)
(* that reaches back into one has to drop it.                              *)
(*                                                                         *)
(* A sum over rows is modelled by what was summed: how often each event    *)
(* was counted.  A cost is two such sums: what was charged at its own      *)
(* (stored) cost, and what was charged from the price list.  A cache entry has no  *)
(* body: FrozenKept compares the answer its reader would have been given.  *)
(* A count() at the end of a handler is left to the action count: only     *)
(* count() itself sees whether the cached count is primed.                 *)
(***************************************************************************)
EXTENDS EventStore, Sequences, SequencesExt

CONSTANTS
    Names, NameOf,      \* model strings, and that of each model
    Stored,             \* the models whose rows carry a cost of their own
    PriceNames,         \* the names a price list may have
    Spellings,          \* those looked up for a model string
    Alias,              \* PRICE_ALIASES: name to the name whose price it takes
    Fallback,           \* the bundled price list
    Bucket, DaysPer,    \* the grains, and days per bucket of each
    Reports,            \* the <<user, company>> pairs machines report
    Categories, Labels, \* what an admin may create, and call it
    Assignable,         \* the <<user, category>> pairs an admin may make
    MaxTs,              \* MAX_TS_MS
    Requests,           \* the requests made of the cached routes
    STATS_CACHE_MAX_ENTRIES

Companies == {r[2] : r \in Reports}

RequestType ==
    [route : {"admin", "timeseries"}, since : Int, until : Int, bucket : Bucket,
     user : Users \cup {Null}, company : Companies \cup {Null},
     category : Categories \cup {Null}, model : Names \cup {Null}]

ASSUME StatsAssumption ==
    /\ NameOf \in [Models -> Names]
    /\ Stored \subseteq Models
    /\ Spellings \in [Names -> SUBSET PriceNames]
    /\ Fallback \subseteq PriceNames /\ Fallback # {}
    /\ DaysPer \in [Bucket -> Nat \ {0}]
    /\ Reports \subseteq Users \X Companies
    /\ Assignable \subseteq Users \X Categories
    /\ \A e \in Events : e.time < MaxTs
    /\ Requests \subseteq RequestType
    /\ \A q \in Requests : 0 <= q.since /\ q.since <= q.until
    /\ STATS_CACHE_MAX_ENTRIES \in Nat \ {0}

VARIABLES
    company,        \* user_secrets.company
    category,       \* user_secrets.category_id
    categories,     \* the categories table: label of each, Null if there is none
    prices,         \* PricingCache.map: the names it has a price for
    statsCache      \* oldest first

groups    == <<company, category, categories>>
statsVars == <<vars, company, category, categories, prices, statsCache>>

-----------------------------------------------------------------------------
(* The rows of a window, as lines summed by day.                           *)

\* The pre-aggregated interior and the two slivers, in one column shape.
rollSource(since, until) ==
    LET w   == rollWindow(since, until)
        raw == {e \in rows : InSliver(w, e.time)}
    IN  [times |-> [d \in Days |-> [e \in Events |->
             (IF InInterior(w, d) THEN roll[d][e] ELSE 0)
                 + IF e \in raw /\ d = rollDaySql(e.time) THEN 1 ELSE 0]],
         latest |-> [c \in Cells |->
             latestOf((IF InInterior(w, c.day) THEN {latest[c]} ELSE {})
                 \cup {e.time : e \in {r \in raw : CellOf(rollDaySql(r.time), r) = c}})]]

\* What the half-open window [since, until) holds, from the table alone.
WindowRows(since, until) ==
    LET R == {e \in rows : since <= e.time /\ e.time < until}
    IN  [times |-> [d \in Days |-> [e \in Events |->
             IF e \in R /\ d * DAY_MS <= e.time /\ e.time < (d + 1) * DAY_MS
               THEN 1 ELSE 0]],
         latest |-> [c \in Cells |->
             latestOf({e.time : e \in {r \in R : CellOf(r.time \div DAY_MS, r) = c}})]]

bucketKey(b, d) == d \div DaysPer[b]

Of(U)     == {e \in Events : e.user \in U}
Assistant == {e \in Events : e.type = "assistant"}
Named(n)  == {e \in Assistant : NameOf[e.model] = n}

\* SUM(col) over the lines of S on the days D whose event is in E.
Sum(S, D, E)     == [e \in E |-> MapThenSumSet(LAMBDA d : S.times[d][e], D)]
Count(S, D, E)   == MapThenSumSet(LAMBDA e : Sum(S, D, E)[e], E)
Present(S, D, E) == {e \in E : \E d \in D : S.times[d][e] > 0}

\* The keys GROUP BY finds.
usersIn(S, D, E)  == {e.user : e \in Present(S, D, E)}
modelsIn(S, D, E) == {NameOf[e.model] : e \in Present(S, D, E \cap Assistant)}
bucketsIn(S, b, E) == {bucketKey(b, d) : d \in {x \in Days : Present(S, {x}, E) # {}}}

-----------------------------------------------------------------------------
(* The statements.                                                         *)

MessageCounts(S, D, E) ==
    [userMessages |-> Count(S, D, E \ Assistant),
     assistantMessages |-> Count(S, D, E \cap Assistant)]

userTotals(S, u)  == Sum(S, Days, Of({u}) \cap Assistant)
userByModel(S, u) ==
    [n \in modelsIn(S, Days, Of({u})) |-> Sum(S, Days, Of({u}) \cap Named(n))]
leaderboard(S)    == [u \in usersIn(S, Days, Assistant) |-> userTotals(S, u)]

\* Who a filter covers: a category wins over a company.
InScope(com, cat) ==
    {u \in Users : IF cat # Null THEN category[u] = cat
                   ELSE com # Null => company[u] = com}

adminLeaderboard(S, U) ==
    [u \in usersIn(S, Days, Of(U)) |->
        [totals |-> userTotals(S, u),
         messages |-> MessageCounts(S, Days, Of({u})),
         lastEventAt |-> latestOf({S.latest[c] : c \in {x \in Cells : x.user = u}}),
         modelCount |-> Cardinality(modelsIn(S, Days, Of({u}))),
         company |-> company[u], category |-> category[u]]]

\* Per (user, model), every user's; the callers intersect.
adminUserModel(S) ==
    [x \in {<<e.user, NameOf[e.model]>> : e \in Present(S, Days, Assistant)} |->
        Sum(S, Days, Of({x[1]}) \cap Named(x[2]))]

timeseriesByModel(S, b, U) ==
    [x \in {y \in bucketsIn(S, b, Of(U)) \X Names :
                y[2] \in modelsIn(S, {d \in Days : bucketKey(b, d) = y[1]}, Of(U))} |->
        Sum(S, {d \in Days : bucketKey(b, d) = x[1]}, Of(U) \cap Named(x[2]))]

timeseriesCountsByBucket(S, b, U) ==
    [k \in bucketsIn(S, b, Of(U)) |->
        MessageCounts(S, {d \in Days : bucketKey(b, d) = k}, Of(U))]

-----------------------------------------------------------------------------
(* Prices and costs.                                                       *)

\* The aliases apply only where the list has no price of its own.
buildMap(raw) == raw \cup {a \in DOMAIN Alias : Alias[a] \in raw}

lookup(n) == Spellings[n] \cap prices # {}

Carrying(E) == {e \in E : e.model \in Stored}

\* What a set of groups (disjoint sets of events) costs on the days D: the sums
\* charged at their own cost, and those charged by the list.
Cost(S, D, own, list) == [own |-> Sum(S, D, own), list |-> Sum(S, D, list)]

\* "Stored cost wins": any stored cost in a group is the cost of the group.
\* The group of an event is that of its model string, of its user or of all U.
costWins(S, D, U, perUser) ==
    LET peers(e) == Of(IF perUser THEN {e.user} ELSE U) \cap Named(NameOf[e.model])
        won(e)   == Present(S, D, Carrying(peers(e))) # {}
        E        == Of(U) \cap Assistant
    IN  Cost(S, D, Carrying(E), {e \in E : ~won(e) /\ lookup(NameOf[e.model])})

\* Stored and derived are summed, each over the rows it is about.
costSummed(S, D, E) ==
    Cost(S, D, Carrying(E), {e \in E \ Carrying(E) : lookup(NameOf[e.model])})

\* Models the user is told have no price.
unpriced(S, D, E) ==
    {n \in modelsIn(S, D, E \ Carrying(E)) : ~lookup(n)}

-----------------------------------------------------------------------------
(* The routes.                                                             *)

\* GET /stats?user=
getStats(S, u) ==
    [totals |-> userTotals(S, u), byModel |-> userByModel(S, u),
     messages |-> MessageCounts(S, Days, Of({u})),
     cost |-> costWins(S, Days, {u}, TRUE),
     unknown |-> {n \in unpriced(S, Days, Of({u})) :
                    Present(S, Days, Carrying(Of({u}) \cap Named(n))) = {}}]

\* GET /stats/leaderboard
getLeaderboard(S) ==
    [u \in usersIn(S, Days, Assistant) |->
        [totals |-> leaderboard(S)[u], cost |-> costWins(S, Days, {u}, TRUE)]]

\* GET /api/v1/usage
computeApiUsage(S) ==
    [u \in {x[1] : x \in DOMAIN adminUserModel(S)} |->
        [totals |-> userTotals(S, u), cost |-> costWins(S, Days, {u}, TRUE)]]

\* A leaderboard row under model=: that model's slice of it.
sliceRow(S, row, u, n) ==
    [row EXCEPT !.totals = adminUserModel(S)[<<u, n>>],
                !.messages = [userMessages |-> 0,
                              assistantMessages |-> Count(S, Days, Of({u}) \cap Named(n))],
                !.modelCount = 1]

\* GET /stats/admin, for the users U of the filter.
getAdmin(S, U, model) ==
    LET leaderRows == adminLeaderboard(S, U)
        found      == Of(DOMAIN leaderRows)
        priced     == IF model = Null THEN Assistant ELSE Named(model)
        shown      == IF model = Null THEN DOMAIN leaderRows
                      ELSE usersIn(S, Days, found \cap priced)
    IN  [leaderboard |-> [u \in shown |->
             [row |-> IF model = Null THEN leaderRows[u]
                      ELSE sliceRow(S, leaderRows[u], u, model),
              cost |-> costSummed(S, Days, Of({u}) \cap priced)]],
         byModel |-> [n \in modelsIn(S, Days, found) |->
             [sum |-> Sum(S, Days, found \cap Named(n)),
              cost |-> costSummed(S, Days, found \cap Named(n)),
              unknownPrice |-> n \in unpriced(S, Days, found)]],
         companies |-> {company[u] : u \in Users} \ {Null},
         categories |-> [k \in Categories |->
             <<categories[k], Cardinality({u \in Users : category[u] = k})>>]]

\* One bucket's breakdown: there is none under a user filter.
byUserRows(S, D, U) ==
    {[user |-> u, messages |-> MessageCounts(S, D, Of({u})),
      cost |-> costWins(S, D, {u}, TRUE)] : u \in usersIn(S, D, Of(U))}

\* GET /stats/timeseries, for the users U of the filter.
getTimeseries(S, b, U, byUser) ==
    LET modelRows == timeseriesByModel(S, b, U)
        counts    == timeseriesCountsByBucket(S, b, U)
        daysOf(k) == {d \in Days : bucketKey(b, d) = k}
    IN  [k \in DOMAIN counts |->
            [sums |-> [n \in modelsIn(S, daysOf(k), Of(U)) |-> modelRows[<<k, n>>]],
             messages |-> counts[k],
             cost |-> costWins(S, daysOf(k), U, FALSE),
             byUser |-> IF byUser THEN byUserRows(S, daysOf(k), U) ELSE {}]]

\* The body of a cached route.  A user filter wins over a company.
body(S, q) ==
    IF q.route = "admin" THEN getAdmin(S, InScope(q.company, q.category), q.model)
    ELSE getTimeseries(S, q.bucket,
                       IF q.user # Null THEN {q.user} ELSE InScope(q.company, Null),
                       q.user = Null)

-----------------------------------------------------------------------------
(* The response cache.                                                     *)

Cached == {x.key : x \in Range(statsCache)}

\* The window of a request the clock has not reached is not frozen.
writeStatsCache(q, frozen) ==
    statsCache' =
        Append(IF Len(statsCache) < STATS_CACHE_MAX_ENTRIES THEN statsCache
               ELSE Tail(statsCache),
               [key |-> q, frozen |-> frozen])

\* The entries at the positions K, in their order.
entriesAt(K) ==
    [j \in 1 .. Cardinality(K) |->
        statsCache[CHOOSE i \in K : Cardinality({h \in K : h <= i}) = j]]

\* Mutant: by the newest event of the batch.
keptByIngestNewest(B) ==
    entriesAt({i \in DOMAIN statsCache :
        ~(/\ statsCache[i].frozen
          /\ statsCache[i].key.until > Max({e.time : e \in B}))})

\* What invalidateStatsCacheForIngest leaves: the live entries, and the frozen
\* ones that end before the oldest event of the batch.
keptByIngest(B) ==
    entriesAt({i \in DOMAIN statsCache :
        ~(/\ statsCache[i].frozen
          /\ statsCache[i].key.until > Min({e.time : e \in B}))})

invalidateStatsCache == statsCache' = <<>>

\* A request that misses: the answer is read and cached.
Ask(q) ==
    /\ q \notin Cached
    /\ rollArgs
    /\ \E frozen \in BOOLEAN :
          /\ frozen => 0 < q.until /\ q.until < MaxTs
          /\ writeStatsCache(q, frozen)
    /\ UNCHANGED <<groups, prices>>

\* An entry's time runs out: the sweep, or the next reader, drops it.
Expire(i) ==
    /\ statsCache' = RemoveAt(statsCache, i)
    /\ UNCHANGED <<vars, groups, prices>>

-----------------------------------------------------------------------------
(* The writers.                                                            *)

\* insertMany reported at least one row inserted.
Inserts(B) == ~({b.key : b \in B} \subseteq {r.key : r \in rows \ Superseded(B)})

setUserCompany(u, c) == company' = IF c = Null THEN company ELSE [company EXCEPT ![u] = c]

\* POST /ingest: one user's events, with or without a company header.
Ingest(u, B, c) ==
    /\ B # {} /\ B \subseteq Of({u})
    /\ c # Null => <<u, c>> \in Reports
    /\ setUserCompany(u, c)
    /\ insertMany(B)
    /\ statsCache' = IF company' # company THEN <<>>
                     ELSE IF Inserts(B) THEN keptByIngest(B) ELSE statsCache
    /\ UNCHANGED <<category, categories, prices>>

\* A tick of the Cursor mirror.
MirrorInsert(B) ==
    /\ B # {} /\ \A e \in B : e.source = "cursor"
    /\ insertMany(B)
    /\ IF Inserts(B) THEN invalidateStatsCache ELSE UNCHANGED statsCache
    /\ UNCHANGED <<groups, prices>>

\* POST /admin/rollup-audit
RollupAudit(force) ==
    /\ AdminAudit(force)
    /\ IF force \/ Repaired(roll, dirty, rows) # Rebuilt(rows)
         THEN invalidateStatsCache ELSE UNCHANGED statsCache
    /\ UNCHANGED <<groups, prices>>

\* POST /admin/clear, scopes all, user and reset-user.
ClearAll ==
    /\ clearAllEvents
    /\ invalidateStatsCache
    /\ UNCHANGED <<groups, prices>>

ClearUser(u, reset) ==
    /\ clearUserEvents(u)
    /\ company' = IF reset THEN [company EXCEPT ![u] = Null] ELSE company
    /\ category' = IF reset THEN [category EXCEPT ![u] = Null] ELSE category
    /\ invalidateStatsCache
    /\ UNCHANGED <<categories, prices>>

\* Scope full: clearFull's statements, and the cache once they are done.
ClearFull ==
    \/ (clearFull \/ DropDirty) /\ UNCHANGED <<groups, prices, statsCache>>
    \/ /\ DropEvents
       /\ company' = [u \in Users |-> Null]
       /\ category' = [u \in Users |-> Null]
       /\ categories' = [k \in Categories |-> Null]
       /\ invalidateStatsCache
       /\ UNCHANGED prices

-----------------------------------------------------------------------------
(* Categories.                                                             *)

createCategory(k, l) ==
    /\ categories[k] = Null
    /\ \A j \in Categories : categories[j] # l
    /\ categories' = [categories EXCEPT ![k] = l]
    /\ UNCHANGED <<company, category>>

renameCategory(k, l) ==
    /\ categories[k] # Null
    /\ \A j \in Categories \ {k} : categories[j] # l
    /\ categories' = [categories EXCEPT ![k] = l]
    /\ UNCHANGED <<company, category>>

\* Its assignments go with it.
deleteCategory(k) ==
    /\ categories[k] # Null
    /\ categories' = [categories EXCEPT ![k] = Null]
    /\ category' = [u \in Users |-> IF category[u] = k THEN Null ELSE category[u]]
    /\ UNCHANGED company

setUserCategory(u, k) ==
    /\ k # Null => <<u, k>> \in Assignable /\ categories[k] # Null
    /\ category' = [category EXCEPT ![u] = k]
    /\ UNCHANGED <<company, categories>>

\* The admin routes over them; each drops the cache.
Regroup ==
    /\ pc = "up"
    /\ \/ \E k \in Categories, l \in Labels : createCategory(k, l) \/ renameCategory(k, l)
       \/ \E k \in Categories : deleteCategory(k)
       \/ \E u \in Users, k \in Categories \cup {Null} : setUserCategory(u, k)
    /\ invalidateStatsCache
    /\ UNCHANGED <<vars, prices>>

-----------------------------------------------------------------------------
\* The daily fetch of the price list.  A failed one, or one with no price in
\* it, changes nothing.
refreshFromUpstream(raw) ==
    /\ pc = "up"
    /\ raw # {}
    /\ prices' = buildMap(raw)
    /\ UNCHANGED <<vars, groups, statsCache>>

StatsInit ==
    /\ Init
    /\ company = [u \in Users |-> Null]
    /\ category = [u \in Users |-> Null]
    /\ categories = [k \in Categories |-> Null]
    /\ prices = buildMap(Fallback)
    /\ statsCache = <<>>

\* The server starts, or dies: the cache and the prices are memory.
Restart ==
    /\ Boot \/ Crash
    /\ prices' = buildMap(Fallback)
    /\ invalidateStatsCache
    /\ UNCHANGED groups

\* GET /stats, /stats/leaderboard, /api/v1/usage and /health.
UncachedRead ==
    /\ rollArgs \/ count
    /\ UNCHANGED <<groups, prices, statsCache>>

StatsNext ==
    \/ \E q \in Requests : Ask(q)
    \/ \E i \in DOMAIN statsCache : Expire(i)
    \/ UncachedRead
    \/ \E u \in Users, B \in Batches, c \in Companies \cup {Null} : Ingest(u, B, c)
    \/ \E B \in Batches : MirrorInsert(B)
    \/ \E force \in BOOLEAN : RollupAudit(force)
    \/ ClearAll
    \/ \E u \in Users, reset \in BOOLEAN : ClearUser(u, reset)
    \/ ClearFull
    \/ Regroup
    \/ \E raw \in SUBSET PriceNames : refreshFromUpstream(raw)
    \/ Restart

StatsSpec == StatsInit /\ [][StatsNext]_statsVars

-----------------------------------------------------------------------------
\* "The transform is mechanical and it is EXACT" (db.ts): while the server
\* serves, the answer computed from the rollup, the slivers and the unscoped
\* statements the routes regroup is the answer over the rows of the window,
\* for every route, scope and grain.
StatsExact ==
    pc = "up" =>
        /\ \A q \in Requests :
              body(rollSource(q.since, q.until), q)
                  = body(WindowRows(q.since, q.until), q)
        /\ \A since, until \in WindowEdges :
              rollSource(since, until) = WindowRows(since, until)

\* "Windows ending in the past are frozen - no future write changes their
\* answer until a backfill" (main.ts): no step leaves a frozen entry in the
\* cache that would be answered otherwise from then on.  Two writers do not
\* tell the cache: a refresh of the price list, and a batch that only removes
\* rows of the local fallback, whose events were all there already.
Unannounced ==
    /\ rows' \subseteq rows /\ rows' # rows
    /\ \A e \in rows \ rows' : e.source = "cursor_local"

FrozenKept ==
    [][\A x \in Range(statsCache) \cap Range(statsCache)' :
          x.frozen /\ <<rows, groups>>' # <<rows, groups>> /\ ~Unannounced =>
              body(WindowRows(x.key.since, x.key.until), x.key)
                  = body(WindowRows(x.key.since, x.key.until), x.key)']_statsVars

\* "The same reconciliation /stats/admin and /stats/leaderboard apply, so the
\* dashboard's focus mode agrees with the leaderboard row" (main.ts).  What a user
\* cost over all time is the same wherever it is shown.
CostsReconcile ==
    pc = "up" =>
        \A u \in Users :
            LET S     == rollSource(0, MaxTs)
                board == getAdmin(S, Users, Null).leaderboard
            IN  u \in DOMAIN getLeaderboard(S) =>
                    /\ getLeaderboard(S)[u].cost = getStats(S, u).cost
                    /\ computeApiUsage(S)[u].cost = getStats(S, u).cost
                    /\ board[u].cost = getStats(S, u).cost
=============================================================================
