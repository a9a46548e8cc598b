---------------------------- MODULE CursorMirror ----------------------------
(***************************************************************************)
(* The server's import of the team's Cursor usage (class CursorMirror,     *)
(* src/server/cursor-mirror.ts): a walk over a paged, newest-first listing *)
(* that may take several ticks and survives errors and restarts, and the   *)
(* watermark that lets the next walk skip what was covered.                *)
(*                                                                         *)
(* Each page is an await: between two pages the usage grows, an admin may  *)
(* clear the events (POST /admin/clear), and the server may die.           *)
(*                                                                         *)
(* The usage events are numbered in the order Cursor lists them.           *)
(***************************************************************************)
EXTENDS Integers, FiniteSets, FiniteSetsExt

CONSTANTS
    TimeOf,             \* the timestamp of each usage event, oldest first
    Owned,              \* the users of the user map, each as the set of its events
    PageSize,           \* events per page
    MaxPages,           \* pages per tick
    MaxEvents,          \* bound: usage events
    MaxCrashes,         \* bound: restarts
    MaxClears           \* bound: admin clears

Usage == 1 .. MaxEvents

\* Events of e-mail addresses outside the map are dropped.
Mapped == UNION Owned

ASSUME MirrorAssumption ==
    /\ MaxEvents \in Nat
    /\ TimeOf \in [Usage -> Nat \ {0}]
    /\ \A e, f \in Usage : e < f => TimeOf[e] < TimeOf[f]
    /\ Owned \subseteq SUBSET Usage
    /\ \A U, V \in Owned : U # V => U \cap V = {}
    /\ PageSize \in Nat \ {0}
    /\ MaxPages \in Nat \ {0}
    /\ MaxCrashes \in Nat
    /\ MaxClears \in Nat

VARIABLES
    n,              \* usage events so far
    rows,           \* those in the events table
    forgotten,      \* those last removed by a clear that left the watermark, or
                    \* that came while a tick was awaiting a page (history)
    watermark,      \* the persisted watermark, 0 if there is none
    loaded,         \* watermarkLoaded
    maxSeen,        \* maxSeenTimestamp
    resumePage,
    pendingMax,     \* pendingMaxTs
    pc,             \* "idle", or "walk": a tick awaits a page
    since, firstPage, page, got,    \* locals of the tick
    crashes, clears \* bound counters

progress == <<maxSeen, resumePage, pendingMax>>
locals   == <<since, firstPage, page, got>>
stored   == <<rows, forgotten>>
vars == <<n, rows, forgotten, watermark, loaded, maxSeen, resumePage, pendingMax, pc,
          since, firstPage, page, got, crashes, clears>>

Init ==
    /\ n = 0
    /\ rows = {}
    /\ forgotten = {}
    /\ watermark = 0
    /\ loaded = FALSE
    /\ maxSeen = 0
    /\ resumePage = 1
    /\ pendingMax = 0
    /\ pc = "idle"
    /\ since = 0
    /\ firstPage = 1
    /\ page = 1
    /\ got = {}
    /\ crashes = 0
    /\ clears = 0

-----------------------------------------------------------------------------
\* Cursor's listing: the events not older than since, newest first.
Listed(s)   == {e \in 1 .. n : TimeOf[e] >= s}
Page(s, p)  == {e \in Listed(s) : n - p * PageSize < e /\ e <= n - (p - 1) * PageSize}
HasNext(s, p) == \E e \in Listed(s) : e <= n - p * PageSize

Arrive ==
    /\ n < MaxEvents
    /\ n' = n + 1
    /\ UNCHANGED <<stored, watermark, loaded, progress, pc, locals, crashes, clears>>

-----------------------------------------------------------------------------
\* A tick, up to its first await.  One already in flight would be skipped.
StartTick ==
    /\ pc = "idle"
    /\ maxSeen' = IF loaded THEN maxSeen ELSE watermark
    /\ loaded' = TRUE
    /\ since' = IF maxSeen' > 0 THEN maxSeen' + 1 ELSE 0
    /\ firstPage' = resumePage
    /\ page' = resumePage
    /\ got' = {}
    /\ pc' = "walk"
    /\ UNCHANGED <<n, stored, watermark, resumePage, pendingMax, crashes, clears>>

EndTick ==
    /\ pc' = "idle"
    /\ since' = 0
    /\ firstPage' = 1
    /\ page' = 1
    /\ got' = {}

Insert(events) ==
    /\ rows' = rows \cup events
    /\ forgotten' = forgotten \ events

\* Mutant: a truncated tick moves the watermark too.
TruncateMarks(events, next) ==
    /\ Insert(events)
    /\ resumePage' = next
    /\ EndTick
    /\ maxSeen' = Max({maxSeen, pendingMax})
    /\ watermark' = maxSeen'

\* The rest of a tick that stops before the end of the listing.
Truncate(events, next) ==
    /\ Insert(events)
    /\ resumePage' = next
    /\ EndTick
    /\ UNCHANGED <<watermark, maxSeen>>

\* The rest of a tick that reached the end: the watermark may move.
Complete(events, newest) ==
    /\ Insert(events)
    /\ maxSeen' = IF newest > maxSeen THEN newest ELSE maxSeen
    /\ watermark' = maxSeen'
    /\ pendingMax' = 0
    /\ resumePage' = 1
    /\ EndTick

\* A page arrives and is handled up to the next await.
GetPage ==
    /\ pc = "walk"
    /\ LET shown  == Page(since, page)
           events == got \cup (shown \cap Mapped)
           newest == Max({pendingMax} \cup {TimeOf[e] : e \in shown})
       IN  IF ~HasNext(since, page)
           THEN Complete(events, newest)
           ELSE /\ pendingMax' = newest
                /\ IF page + 1 = firstPage + MaxPages
                     THEN Truncate(events, page + 1)
                     ELSE /\ page' = page + 1
                          /\ got' = events
                          /\ UNCHANGED <<stored, watermark, maxSeen, resumePage, pc,
                                         since, firstPage>>
    /\ UNCHANGED <<n, loaded, crashes, clears>>

\* Mutants: the walk resumes after the failed page, or before it.
PageFailsAhead ==
    /\ pc = "walk"
    /\ Truncate(got, page + 1)
    /\ UNCHANGED <<n, loaded, pendingMax, crashes, clears>>

PageFailsBack ==
    /\ pc = "walk"
    /\ Truncate(got, page - 1)
    /\ UNCHANGED <<n, loaded, pendingMax, crashes, clears>>

\* The fetch fails: keep what the tick has and resume at this page.
PageFails ==
    /\ pc = "walk"
    /\ Truncate(got, page)
    /\ UNCHANGED <<n, loaded, pendingMax, crashes, clears>>

\* insertMany throws, after a failed fetch or after the last page of the tick:
\* nothing but pendingMaxTs is kept.
InsertFails ==
    /\ pc = "walk"
    /\ \/ got # {} /\ UNCHANGED pendingMax
       \/ LET shown == Page(since, page)
          IN  /\ (got \cup shown) \cap Mapped # {}
              /\ HasNext(since, page) => page + 1 = firstPage + MaxPages
              /\ pendingMax' = Max({pendingMax} \cup {TimeOf[e] : e \in shown})
    /\ EndTick
    /\ UNCHANGED <<n, stored, watermark, loaded, maxSeen, resumePage, crashes, clears>>

\* setMeta throws after the last page was inserted: the watermark has moved in
\* memory alone, and the walk's page and maximum stay.
MarkFails ==
    /\ pc = "walk"
    /\ ~HasNext(since, page)
    /\ LET shown == Page(since, page)
       IN  /\ Insert(got \cup (shown \cap Mapped))
           /\ pendingMax' = Max({pendingMax} \cup {TimeOf[e] : e \in shown})
    /\ maxSeen' = Max({maxSeen, pendingMax'})
    /\ EndTick
    /\ UNCHANGED <<n, watermark, loaded, resumePage, crashes, clears>>

-----------------------------------------------------------------------------
\* POST /admin/clear, scope all or full, in one callback: the events go, and
\* then the watermark.
Clear ==
    /\ clears < MaxClears
    /\ clears' = clears + 1
    /\ rows' = {}
    /\ forgotten' = IF pc = "walk" THEN forgotten \cup rows ELSE {}
    /\ maxSeen' = 0
    /\ pendingMax' = 0
    /\ resumePage' = 1
    /\ loaded' = TRUE
    /\ watermark' = 0
    /\ UNCHANGED <<n, pc, locals, crashes>>

\* Scope user or reset-user: that user's events go, the watermark stays.
ClearUser(U) ==
    /\ clears < MaxClears
    /\ clears' = clears + 1
    /\ rows' = rows \ U
    /\ forgotten' = forgotten \cup (rows \cap U)
    /\ UNCHANGED <<n, watermark, loaded, progress, pc, locals, crashes>>

Restart ==
    /\ loaded' = FALSE
    /\ maxSeen' = 0
    /\ resumePage' = 1
    /\ pendingMax' = 0
    /\ EndTick
    /\ crashes < MaxCrashes
    /\ crashes' = crashes + 1

Crash ==
    /\ Restart
    /\ UNCHANGED <<n, stored, watermark, clears>>

\* The server dies after clearAllEvents committed and before resetWatermark.
CrashInClear ==
    /\ clears < MaxClears
    /\ clears' = clears + 1
    /\ rows' = {}
    /\ forgotten' = forgotten \cup rows
    /\ Restart
    /\ UNCHANGED <<n, watermark>>

Next ==
    \/ Arrive
    \/ StartTick
    \/ GetPage
    \/ PageFails
    \/ InsertFails
    \/ MarkFails
    \/ Clear
    \/ \E U \in Owned : ClearUser(U)
    \/ Crash
    \/ CrashInClear

Spec == Init /\ [][Next]_vars

\* The timer ticks for ever; a page that is asked for again and again is got in
\* the end, and so is the last of a tick together with the insert after it.
Fairness ==
    /\ WF_vars(StartTick)
    /\ SF_vars(GetPage)
    /\ SF_vars(GetPage /\ pc' = "idle")

FairSpec == Spec /\ Fairness

-----------------------------------------------------------------------------
TypeOK ==
    /\ n \in 0 .. MaxEvents
    /\ rows \subseteq Mapped
    /\ forgotten \subseteq Mapped \ rows
    /\ watermark \in Nat
    /\ loaded \in BOOLEAN
    /\ maxSeen \in Nat
    /\ resumePage \in Nat \ {0}
    /\ pendingMax \in Nat
    /\ pc \in {"idle", "walk"}
    /\ since \in Nat
    /\ firstPage \in Nat \ {0}
    /\ page \in firstPage .. firstPage + MaxPages - 1
    /\ got \subseteq Mapped
    /\ crashes \in 0 .. MaxCrashes
    /\ clears \in 0 .. MaxClears

\* What the watermark covers is in the table, in however many ticks it was
\* walked, however the listing shifted under the walk, and whatever failed on
\* the way: the next walk asks only for newer events, so an older one that is
\* not there is missing for ever.  main.ts relies on it when it clears the
\* events: "reset the watermark or the mirror never re-imports the cleared
\* history".  What may stay away are rows that were imported and then removed
\* with one user, or by a clear that a tick in flight or a crash got across.
WatermarkCovered ==
    \A e \in Mapped :
        e <= n /\ TimeOf[e] <= watermark => e \in rows \cup forgotten

\* Every usage event of a mapped user is imported in the end, and once more
\* after a clear of all events.
Imported == \A e \in Mapped : e <= n ~> e \in rows \cup forgotten
=============================================================================
