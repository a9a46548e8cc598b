----------------------------- MODULE CursorSync -----------------------------
(***************************************************************************)
(* Cursor usage as the daemon and the CLI of one machine collect it        *)
(* (src/daemon/cursor-sync.ts, tick.ts, cli.ts, cursor-token.ts and the    *)
(* parsers cursor-api.ts and cursor-local.ts): paged walks over Cursor's   *)
(* dashboard, newest first, resumed across ticks; the session token that   *)
(* opens it; the fall back to Cursor's local database; and the one         *)
(* state.json both processes read and write.                               *)
(*                                                                         *)
(* Usage event e happens at time e and leaves bubble e in the local        *)
(* database.  Cursor lists it at once or up to OVERLAP later.  Of a        *)
(* session is told whether Cursor still accepts it.  Every await ends a    *)
(* step.                                                                   *)
(***************************************************************************)
EXTENDS Integers, FiniteSets, FiniteSetsExt

CONSTANTS
    MaxTime,            \* bound: the last event's time
    PageSize,
    Batch,              \* events of one POST
    IncrementalPages,   \* CURSOR_SYNC_INCREMENTAL_MAX_PAGES
    BackfillPages,      \* CURSOR_SYNC_BACKFILL_MAX_PAGES
    FullPages,          \* CURSOR_SYNC_FULL_MAX_PAGES, of the CLI
    OVERLAP,            \* CURSOR_SYNC_OVERLAP_MS
    MonthStart,         \* of the one month that begins in these times
    LocalTime,          \* the time a bubble carries: its composer's creation
    LocalEnabled,       \* TOKENLEADER_CURSOR_LOCAL
    MaxTrouble          \* bound: expiries, commands and crashes together

Usage == 1 .. MaxTime

ASSUME SyncAssumption ==
    /\ {MaxTime, PageSize, Batch, IncrementalPages, BackfillPages, FullPages} \subseteq Nat \ {0}
    /\ OVERLAP \in Nat /\ MonthStart \in Usage
    /\ LocalTime \in [Usage -> Usage] /\ \A e \in Usage : LocalTime[e] <= e
    /\ LocalEnabled \in BOOLEAN
    /\ MaxTrouble \in Nat

VARIABLES
    now,        \* the time, which is the latest event
    listed,     \* events the dashboard lists
    cut,        \* what month walks cut off the walks of later ticks
    cloud,      \* rows with source cursor
    localRows,  \* rows with source cursor_local, by their bubbles
    token,      \* the session in cursor_token
    tokenBy,    \* who wrote it last, "none" for neither
    creds,      \* does the session in cursor_credentials.json equal it?
    disk,       \* cursorCloud and cursorLocal in state.json
    mem,        \* the same in the daemon's memory, while disk has none
    walk,       \* what daemon and CLI are doing
    expiries, runs, crashes     \* bound counters

dashboard == <<now, listed, cut>>
server == <<cloud, localRows>>
session == <<token, tokenBy, creds>>
bounds == <<expiries, runs, crashes>>
vars == <<dashboard, server, session, disk, mem, walk, bounds>>

Processes == {"daemon", "cli"}
SessionType == {"none", "good", "expired"}

\* lastEventTimestamp, lastSyncAt, fullSyncDone, resumePage, resumeStartDate.
NoCloud == [last |-> 0, sync |-> 0, done |-> FALSE, page |-> 0, start |-> 0]
NoState == [cloud |-> NoCloud, rowid |-> 0]

Idle == [step |-> "idle", mode |-> "full", basis |-> NoState, start |-> 0, end |-> 0, page |-> 0,
         left |-> 0, got |-> {}, todo |-> {}, complete |-> FALSE, kind |-> "cloud",
         session |-> "none", refresh |-> FALSE, refreshed |-> "none"]

Init ==
    /\ now = 1
    /\ listed = {1}
    /\ cut = {}
    /\ cloud = {}
    /\ localRows = {}
    /\ token \in {"none", "good"} /\ tokenBy = "none"
    /\ creds \in {"none", "fits"} /\ (creds = "fits" => token # "none")
    /\ disk = NoState
    /\ mem = NoState
    /\ walk = [w \in Processes |-> Idle]
    /\ expiries = 0 /\ runs = 0 /\ crashes = 0

-----------------------------------------------------------------------------
(* Cursor.                                                                 *)

\* The user works; what is late is listed before it is later than OVERLAP.
Use ==
    /\ now < MaxTime
    /\ \A e \in 1 .. now \ listed : now + 1 <= e + OVERLAP
    /\ now' = now + 1
    /\ listed' \in {listed, listed \cup {now + 1}}
    /\ UNCHANGED <<cut, server, session, disk, mem, walk, bounds>>

List(e) ==
    /\ e \in 1 .. now \ listed
    /\ listed' = listed \cup {e}
    /\ UNCHANGED <<now, cut, server, session, disk, mem, walk, bounds>>

Expired(x) == IF x = "good" THEN "expired" ELSE x

\* All sessions of the account.
Expire ==
    /\ expiries + runs + crashes < MaxTrouble
    /\ expiries' = expiries + 1
    /\ token' = Expired(token)
    /\ walk' = [w \in Processes |->
           [walk[w] EXCEPT !.session = Expired(@), !.refreshed = Expired(@)]]
    /\ UNCHANGED <<dashboard, server, tokenBy, creds, disk, mem, runs, crashes>>

\* Events of the window, and how many of them precede e in the listing.  At any time
\* the latest event has happened.
Window(start, end) == {e \in listed : e >= start /\ e <= end}
Before(e, start, end) == Cardinality({f \in Window(start, end) : f > e})
PageOf(e, start, end) == 1 + Before(e, start, end) \div PageSize
Page(p, start, end) == {e \in Window(start, end) : PageOf(e, start, end) = p}

-----------------------------------------------------------------------------
(* Where a walk starts, and what it leaves behind.                         *)

Never == MaxTime    \* no endDate

computeCursorSyncStartDate(c, mode) ==
    CASE mode = "full"  -> 0
      [] mode = "month" -> IF now >= MonthStart THEN MonthStart ELSE 1
      [] OTHER -> IF c.page # 0 THEN c.start
                  ELSE Max({0, (IF c.last > 0 THEN c.last ELSE c.sync) - OVERLAP})

\* Mutant: a complete month counts as the backfill.
nextCursorCloudStateLatch(c, mode, got, complete, page, start) ==
    [last |-> IF mode = "incremental" /\ ~complete THEN c.last ELSE Max(got \cup {c.last}),
     sync |-> now,
     done |-> (mode # "incremental" /\ complete) \/ c.done,
     page |-> IF complete THEN 0 ELSE page,
     start |-> IF complete THEN 0 ELSE start]

nextCursorCloudState(c, mode, got, complete, page, start) ==
    [last |-> IF mode = "incremental" /\ ~complete THEN c.last ELSE Max(got \cup {c.last}),
     sync |-> now,
     done |-> (mode = "full" /\ complete) \/ c.done,
     page |-> IF complete THEN 0 ELSE page,
     start |-> IF complete THEN 0 ELSE start]

\* The page a truncated walk of the same window stopped before.
ResumePage(c, start) == IF c.page # 0 /\ c.start = start THEN c.page ELSE 1

\* fetchCursorCloudEvents up to its first await of the dashboard.
StartWalk(basis, mode, pages, credentials) ==
    LET start == computeCursorSyncStartDate(basis.cloud, mode)
    IN  [Idle EXCEPT !.step = "page", !.mode = mode, !.basis = basis,
                     !.start = start,
                     !.end = IF mode = "month" THEN now ELSE Never,
                     !.page = ResumePage(basis.cloud, start),
                     !.left = pages,
                     !.session = token, !.refresh = (credentials = "fits")]

-----------------------------------------------------------------------------
(* The daemon's tick and the commands.                                     *)

\* What the CLI wrote to disk counts, what the daemon remembers only without it.
\* Without a token there is nothing to ask the dashboard.
StartTick ==
    /\ walk["daemon"].step = "idle"
    /\ LET cc == IF disk.cloud.sync > 0 THEN disk.cloud ELSE mem.cloud
           basis == [cloud |-> cc, rowid |-> IF disk.rowid > 0 THEN disk.rowid ELSE mem.rowid]
       IN  walk' = [walk EXCEPT !["daemon"] =
               IF token = "none" THEN [Idle EXCEPT !.step = "local", !.basis = basis]
               ELSE IF cc.done THEN StartWalk(basis, "incremental", IncrementalPages, creds)
               ELSE StartWalk(basis, "full", BackfillPages, creds)]
    /\ UNCHANGED <<dashboard, server, session, disk, mem, bounds>>

\* `sync-cursor`.
runSyncCursor ==
    /\ walk["cli"].step = "idle"
    /\ expiries + runs + crashes < MaxTrouble
    /\ runs' = runs + 1
    /\ token # "none"
    /\ walk' = [walk EXCEPT !["cli"] = StartWalk(disk, "full", FullPages, creds)]
    /\ UNCHANGED <<dashboard, server, session, disk, mem, expiries, crashes>>

\* Another session is in cursor_token now.
Outdated == IF creds = "fits" THEN "other" ELSE creds

\* `login-cursor`: a new session from the user's IDE (auto), or pasted.
runLoginCursor(auto) ==
    /\ walk["cli"].step = "idle"
    /\ expiries + runs + crashes < MaxTrouble
    /\ runs' = runs + 1
    /\ token' = "good" /\ tokenBy' = "cli" /\ creds' = Outdated
    /\ walk' = [walk EXCEPT !["cli"] =
           [Idle EXCEPT !.step = IF auto THEN "creds" ELSE "unlink", !.kind = "login"]]
    /\ UNCHANGED <<dashboard, server, disk, mem, expiries, crashes>>

\* A 401 is answered with a refreshed session, if the credentials fit the token.
refreshSessionAuth(w) ==
    /\ walk[w].step = "page"
    /\ walk[w].session = "expired"
    /\ walk[w].refresh
    /\ walk' = [walk EXCEPT ![w].session = "good", ![w].refreshed = "good"]
    /\ UNCHANGED <<dashboard, server, session, disk, mem, bounds>>

\* An empty page ends the walk, and a short one unless the answer says otherwise;
\* a full last page does if the answer says so.
Ends(w) ==
    LET x == walk[w]
        evs == Page(x.page, x.start, x.end)
        rest == Page(x.page + 1, x.start, x.end)
    IN  IF Cardinality(evs) < PageSize THEN {TRUE}
        ELSE IF rest = {} THEN BOOLEAN
        ELSE {FALSE}

\* Mutant: the next call resumes at the last page fetched.
FetchedSamePage(x) ==
    [x EXCEPT !.step = IF x.got = {} THEN "save" ELSE "post",
              !.session = "none", !.refresh = FALSE, !.refreshed = "none",
              !.left = 0, !.page = IF x.complete THEN 0 ELSE @ - 1]

\* What was fetched is posted; without events there is only the state to save.
Fetched(x) ==
    [x EXCEPT !.step = IF x.got = {} THEN "save" ELSE "post",
              !.session = "none", !.refresh = FALSE, !.refreshed = "none",
              !.left = 0, !.page = IF x.complete THEN 0 ELSE @]

fetchFilteredUsageEvents(w) ==
    /\ walk[w].step = "page"
    /\ walk[w].session = "good"
    /\ \E complete \in Ends(w) :
         LET x == walk[w]
             got == x.got \cup Page(x.page, x.start, x.end)
             y == [x EXCEPT !.got = got, !.todo = got, !.complete = complete,
                            !.page = @ + 1, !.left = @ - 1]
         IN  walk' = [walk EXCEPT ![w] =
                 IF ~complete /\ y.left > 0 THEN y
                 ELSE IF y.refreshed # "none" THEN [y EXCEPT !.step = "token"]
                 ELSE Fetched(y)]
    /\ UNCHANGED <<dashboard, server, session, disk, mem, bounds>>

\* The daemon turns to the local sources, the CLI gives up.
fetchFails(w) ==
    /\ walk[w].step = "page"
    /\ walk' = [walk EXCEPT ![w] =
           IF w = "daemon" THEN [Idle EXCEPT !.step = "local", !.basis = walk[w].basis] ELSE Idle]
    /\ UNCHANGED <<dashboard, server, session, disk, mem, bounds>>

-----------------------------------------------------------------------------
(* The two files of the session.                                           *)

\* The token first: it shadows the credentials.
saveToken(w) ==
    /\ walk[w].step = "token"
    /\ token' = walk[w].refreshed /\ tokenBy' = w /\ creds' = Outdated
    /\ walk' = [walk EXCEPT ![w].step = IF creds # "none" THEN "creds" ELSE "unlink"]
    /\ UNCHANGED <<dashboard, server, disk, mem, bounds>>

\* After `login-cursor --auto` the month is walked, if the daemon is set up.
saveCreds(w) ==
    /\ walk[w].step = "creds"
    /\ creds' = IF tokenBy = w THEN "fits" ELSE "other"
    /\ \E month \in BOOLEAN :
         /\ month => walk[w].kind = "login"
         /\ walk' = [walk EXCEPT ![w] =
                IF month THEN StartWalk(disk, "month", FullPages, creds')
                ELSE IF @.kind = "login" THEN Idle
                ELSE Fetched(@)]
    /\ UNCHANGED <<dashboard, server, token, tokenBy, disk, mem, bounds>>

removeCredentialsFile(w) ==
    /\ walk[w].step = "unlink"
    /\ creds' = "none"
    /\ walk' = [walk EXCEPT ![w] =
           IF @.kind = "login" THEN Idle
           ELSE Fetched(@)]
    /\ UNCHANGED <<dashboard, server, token, tokenBy, disk, mem, bounds>>

-----------------------------------------------------------------------------
(* Local bubbles, the POST, the watermarks.                                *)

\* Bubbles past the rowid watermark; with none, or disabled, there is nothing to post.
parseCursorLocal ==
    /\ walk["daemon"].step = "local"
    /\ walk' = [walk EXCEPT !["daemon"] =
           LET new == IF LocalEnabled THEN @.basis.rowid + 1 .. now ELSE {}
           IN  [@ EXCEPT !.kind = "local", !.got = new, !.todo = new,
                         !.step = IF new = {} THEN "save" ELSE "post"]]
    /\ UNCHANGED <<dashboard, server, session, disk, mem, bounds>>

\* The newest of what is still to post.
Next1(todo) == {e \in todo : Cardinality({f \in todo : f > e}) < Batch}

\* Local rows inside the span of a batch of cloud events are deleted.
Reconciled(rows, batch) ==
    {b \in rows : ~(LocalTime[b] >= Min(batch) /\ LocalTime[b] <= Max(batch))}

Insert(x, batch) ==
    IF x.kind = "local"
      THEN localRows' = localRows \cup batch /\ UNCHANGED cloud
      ELSE cloud' = cloud \cup batch /\ localRows' = Reconciled(localRows, batch)

postBatch(w) ==
    /\ walk[w].step = "post"
    /\ LET batch == Next1(walk[w].todo)
           rest == walk[w].todo \ batch
       IN  /\ Insert(walk[w], batch)
           /\ walk' = [walk EXCEPT ![w].todo = rest,
                                   ![w].step = IF rest = {} THEN "save" ELSE "post"]
    /\ UNCHANGED <<dashboard, session, disk, mem, bounds>>

\* A request or its answer is lost: the tick ends without a word to disk or memory.
postFails(w) ==
    /\ walk[w].step = "post"
    /\ UNCHANGED server \/ Insert(walk[w], Next1(walk[w].todo))
    /\ walk' = [walk EXCEPT ![w] = Idle]
    /\ UNCHANGED <<dashboard, session, disk, mem, bounds>>

NextState(x) ==
    IF x.kind = "local"
      THEN [x.basis EXCEPT !.rowid = Max(x.got \cup {@})]
      ELSE [x.basis EXCEPT !.cloud =
                nextCursorCloudState(@, x.mode, x.got, x.complete, x.page, x.start)]

\* What is on disk is never read from memory again.
Unsaved(state) ==
    [cloud |-> IF disk'.cloud.sync > 0 THEN NoCloud ELSE state.cloud,
     rowid |-> IF disk'.rowid > 0 THEN 0 ELSE state.rowid]

\* The tick's end; a state that cannot be saved stays in memory.
saveState ==
    /\ walk["daemon"].step = "save"
    /\ disk' \in {NextState(walk["daemon"]), disk}
    /\ mem' = Unsaved(NextState(walk["daemon"]))
    /\ walk' = [walk EXCEPT !["daemon"] = Idle]
    /\ UNCHANGED <<dashboard, server, session, bounds>>

\* What a tick from c would have asked for, and a month walk from the same state has
\* not: the part of it that is not imported.
CutOff(c, start) ==
    {e \in Usage : e < start /\ e >= computeCursorSyncStartDate(c, "incremental")} \ cloud

\* The CLI goes on until a full walk is complete, then writes the state it loaded
\* at the start, with its own watermarks.
saveCliState ==
    /\ walk["cli"].step = "save"
    /\ LET x == walk["cli"]
       IN  IF x.mode = "full" /\ ~x.complete
             THEN /\ walk' = [walk EXCEPT !["cli"] =
                        IF token = "none" THEN Idle ELSE StartWalk(NextState(x), "full", FullPages, creds)]
                  /\ UNCHANGED <<cut, disk>>
             ELSE /\ disk' = NextState(x)
                  /\ cut' = IF x.mode = "month" /\ x.basis.cloud.done
                              THEN cut \cup CutOff(x.basis.cloud, x.start) ELSE cut
                  /\ walk' = [walk EXCEPT !["cli"] = Idle]
    /\ mem' = Unsaved(mem)
    /\ UNCHANGED <<now, listed, server, session, bounds>>

\* A process dies; the daemon's memory goes with it.
Crash(w) ==
    /\ walk[w].step # "idle"
    /\ expiries + runs + crashes < MaxTrouble
    /\ crashes' = crashes + 1
    /\ walk' = [walk EXCEPT ![w] = Idle]
    /\ mem' = IF w = "daemon" THEN NoState ELSE mem
    /\ UNCHANGED <<dashboard, server, session, disk, expiries, runs>>

-----------------------------------------------------------------------------
Daemon ==
    \/ StartTick
    \/ parseCursorLocal
    \/ saveState

Cli ==
    \/ runSyncCursor
    \/ \E auto \in BOOLEAN : runLoginCursor(auto)
    \/ saveCliState

Step(w) ==
    \/ refreshSessionAuth(w)
    \/ fetchFilteredUsageEvents(w)
    \/ fetchFails(w)
    \/ saveToken(w)
    \/ saveCreds(w)
    \/ removeCredentialsFile(w)
    \/ postBatch(w)
    \/ postFails(w)
    \/ Crash(w)

Next ==
    \/ Use
    \/ \E e \in Usage : List(e)
    \/ Expire
    \/ Daemon
    \/ Cli
    \/ \E w \in Processes : Step(w)

Spec == Init /\ [][Next]_vars

\* The daemon's loop goes round.  A page, a refresh, a request, a save that is tried
\* again and again succeeds at last, and what Cursor owes the listing it lists.
FairSpec ==
    /\ Spec
    /\ \A e \in Usage : WF_vars(List(e))
    /\ WF_vars(StartTick) /\ WF_vars(parseCursorLocal)
    /\ SF_vars(saveState /\ disk' # disk)
    /\ WF_vars(saveState)
    /\ SF_vars(refreshSessionAuth("daemon"))
    /\ SF_vars(fetchFilteredUsageEvents("daemon"))
    /\ WF_vars(saveToken("daemon")) /\ WF_vars(saveCreds("daemon"))
    /\ WF_vars(removeCredentialsFile("daemon"))
    /\ SF_vars(postBatch("daemon"))

-----------------------------------------------------------------------------
CloudType ==
    [last : 0 .. MaxTime, sync : 0 .. MaxTime, done : BOOLEAN, page : 0 .. MaxTime + 1,
     start : 0 .. MaxTime]
StateType == [cloud : CloudType, rowid : 0 .. MaxTime]

TypeOK ==
    /\ now \in Usage /\ listed \subseteq 1 .. now /\ cut \subseteq Usage
    /\ cloud \subseteq listed /\ localRows \subseteq 1 .. now
    /\ token \in SessionType /\ tokenBy \in Processes \cup {"none"}
    /\ creds \in {"none", "fits", "other"}
    /\ disk \in StateType /\ mem \in StateType
    /\ \A w \in Processes :
         /\ walk[w].step \in {"idle", "page", "local", "token", "creds", "unlink", "post", "save"}
         /\ walk[w].basis \in StateType
         /\ walk[w].got \subseteq 1 .. now /\ walk[w].todo \subseteq walk[w].got

\* What no walk from a state would ask for any more.
Behind(c, e) == e < computeCursorSyncStartDate(c, "incremental")

\* "otherwise ... the unfetched tail of the original window would be skipped
\* permanently" (computeCursorSyncStartDate): once the backfill is done, what the
\* watermarks on disk leave behind is on the server, whoever wrote them last, from
\* whichever copy.  Exempt is what `login-cursor --auto` cut off by walking a month
\* after the backfill (MonthsSkipNothing).
NothingSkipped ==
    disk.cloud.done => \A e \in listed : Behind(disk.cloud, e) => e \in cloud \cup cut

\* "month [uses] a fixed startDate and can advance the running max freely, resuming
\* the unfetched tail via resumePage" (nextCursorCloudState): a month walk leaves
\* nothing behind either.
\* The code does otherwise: what no tick had fetched of the month before is gone
\* (README, Divergences).
MonthsSkipNothing ==
    disk.cloud.done => \A e \in listed : Behind(disk.cloud, e) => e \in cloud

\* While, again and again, the session on disk is one Cursor accepts or can be
\* refreshed, all usage ends up imported, but for what a month walk cut off.
Imported ==
    []<>(token = "good" \/ creds = "fits") => <>[](1 .. now \subseteq cloud \cup cut)

\* "avoids double-counting the same usage via cloud + local, but falls back to local
\* when the cloud path fails" (tick): what the cloud has is not counted from the
\* bubbles as well, once the backfill has made the cloud the record.
\* The code does otherwise (README, Divergences).
CountedOnce == disk.cloud.done => cloud \cap localRows = {}
=============================================================================
