------------------------- MODULE CursorMirrorProofs -------------------------
(***************************************************************************)
(* Proofs about CursorMirror: what a watermark covers has been imported.   *)
(*                                                                         *)
(* The listing is newest first and only grows at its head, so an event     *)
(* moves to later pages and never to an earlier one: a walk that goes on   *)
(* at the page where it stopped may see an event twice and never misses    *)
(* one.  The invariant says so of every event not newer than the walk's    *)
(* maximum: it is stored, in the hands of the tick, or on a page ahead.    *)
(*                                                                         *)
(* The second part proves the same kind of thing about the other import of *)
(* Cursor usage, CursorSync, which is instantiated there as Sync.          *)
(***************************************************************************)
EXTENDS CursorMirror, FiniteSetTheorems, WellFoundedInduction, TLAPS

\* The usage events of mapped users so far, and those that need not come again.
Come    == {e \in Mapped : e <= n}
Safe(e) == e \in rows \cup forgotten

\* The newest event page p can show.
Top(p) == n - (p - 1) * PageSize

\* WatermarkCovered, and the same of the watermark in memory and of what the
\* tick in flight does not ask for.
Covered ==
    \A e \in Come :
        \/ TimeOf[e] <= watermark
        \/ TimeOf[e] <= maxSeen
        \/ TimeOf[e] < since
        => Safe(e)

\* The unfinished walk.
Walked ==
    \A e \in Come :
        TimeOf[e] <= pendingMax =>
            \/ Safe(e)
            \/ e \in got
            \/ e <= Top(IF pc = "walk" THEN page ELSE resumePage)

\* No timestamp kept is newer than the events there are.
Beyond ==
    \A e \in Usage : e > n =>
        TimeOf[e] > watermark /\ TimeOf[e] > maxSeen /\ TimeOf[e] > pendingMax /\ TimeOf[e] >= since

\* The tick in flight is at or past the page a failed insert goes back to.
Resumable ==
    /\ pc = "walk" => resumePage <= firstPage
    /\ pc = "idle" => since = 0 /\ got = {}
    /\ \A e \in got : e <= Top(resumePage)

\* The inductive invariant.
MirrorInv == TypeOK /\ Covered /\ Walked /\ Beyond /\ Resumable

-----------------------------------------------------------------------------
\* The greatest of some numbers none of which exceeds b.
LEMMA MaxMember ==
    ASSUME NEW S, S \subseteq Nat, S # {}, NEW b \in Nat, \A x \in S : x <= b
    PROVE  Max(S) \in S /\ \A x \in S : x <= Max(S)
<1> DEFINE Gaps == {b - x : x \in S}
<1>1. Gaps \subseteq Nat /\ Gaps # {}
  <2>1. \A x \in S : b - x \in Nat
    OBVIOUS
  <2>2. PICK x \in S : TRUE
    OBVIOUS
  <2>3. b - x \in Gaps
    OBVIOUS
  <2> QED BY <2>1, <2>3
<1>2. PICK g \in Gaps : \A h \in Gaps : ~(<<h, g>> \in OpToRel(<, Nat))
  BY <1>1, NatLessThanWellFounded, WFMin
<1>3. PICK m \in S : g = b - m
  OBVIOUS
<1>4. ASSUME NEW x \in S PROVE m >= x
  <2> SUFFICES ASSUME x > m PROVE FALSE
    OBVIOUS
  <2>1. b - x \in Gaps /\ g \in Nat /\ b - x \in Nat /\ b - x < g
    BY <1>1, <1>3
  <2> HIDE DEF Gaps
  <2>2. <<b - x, g>> \in Nat \X Nat /\ <<b - x, g>>[1] < <<b - x, g>>[2]
    BY <2>1
  <2>3. <<b - x, g>> \in OpToRel(<, Nat)
    BY <2>2 DEF OpToRel
  <2> QED BY <1>2, <2>1, <2>3
<1> HIDE DEF Gaps
<1>5. Max(S) \in S /\ \A x \in S : Max(S) >= x
  BY <1>4 DEF Max
<1> QED BY <1>5

LEMMA TimesForm ==
    /\ Mapped \subseteq Usage
    /\ \A e \in Usage : e \in Nat \ {0} /\ TimeOf[e] \in Nat \ {0}
BY MirrorAssumption DEF Mapped, Usage

\* Later pages show older events.
LEMMA TopForm ==
    ASSUME TypeOK
    PROVE  /\ Top(1) = n
           /\ \A p \in Nat : Top(p) \in Int /\ Top(p + 1) = n - p * PageSize
           /\ \A p, q \in Nat : p <= q => Top(q) <= Top(p)
<1>1. PageSize \in Nat /\ n \in Nat
  BY MirrorAssumption DEF TypeOK
<1>2. ASSUME NEW p \in Nat PROVE Top(p) \in Int /\ Top(p + 1) = n - p * PageSize
  <2>1. p * PageSize \in Int /\ (p - 1) * PageSize \in Int
    BY <1>1
  <2> QED BY <1>1, <2>1 DEF Top
<1>3. ASSUME NEW p \in Nat, NEW q \in Nat, p <= q PROVE Top(q) <= Top(p)
  <2>1. (q - 1) * PageSize = (p - 1) * PageSize + (q - p) * PageSize
    BY <1>1
  <2>2. (q - p) * PageSize >= 0
    BY <1>1, <1>3
  <2>3. (q - 1) * PageSize \in Int /\ (p - 1) * PageSize \in Int /\ (q - p) * PageSize \in Int
    BY <1>1
  <2> QED BY <1>1, <2>1, <2>2, <2>3 DEF Top
<1> QED BY <1>1, <1>2, <1>3 DEF Top

Shown  == Page(since, page)
Newest == Max({pendingMax} \cup {TimeOf[e] : e \in Shown})

LEMMA ShownForm ==
    ASSUME TypeOK
    PROVE  /\ Shown \subseteq Usage
           /\ \A e \in Shown : e <= n /\ e <= Top(page)
           /\ \A e \in Usage : e <= n /\ TimeOf[e] >= since /\ e <= Top(page) =>
                 e \in Shown \/ (e <= Top(page + 1) /\ HasNext(since, page))
<1>1. page \in Nat /\ n \in Nat /\ n <= MaxEvents /\ MaxEvents \in Nat
  BY MirrorAssumption DEF TypeOK
<1>2. Top(page) = n - (page - 1) * PageSize /\ Top(page) \in Int
      /\ Top(page + 1) = n - page * PageSize /\ Top(page + 1) \in Int
  BY <1>1, TopForm DEF Top
<1> QED BY <1>1, <1>2 DEF Shown, Page, Listed, HasNext, Usage

LEMMA NewestForm ==
    ASSUME TypeOK
    PROVE  /\ Newest \in Nat /\ Newest >= pendingMax
           /\ \/ Newest = pendingMax
              \/ \E f \in Shown : Newest = TimeOf[f]
<1> DEFINE S == {pendingMax} \cup {TimeOf[e] : e \in Shown}
<1>1. \A e \in Usage : TimeOf[e] \in Nat
  BY MirrorAssumption
<1>2. S \subseteq Nat /\ S # {}
  BY <1>1, ShownForm DEF TypeOK
<1>3. PICK b \in Nat : \A x \in S : x <= b
  <2>1. CASE n = 0
    <3>1. Shown = {}
      BY <2>1, ShownForm DEF Usage
    <3> QED BY <3>1 DEF TypeOK
  <2>2. CASE n # 0
    <3>1. n \in Usage /\ pendingMax \in Nat
      BY <2>2, MirrorAssumption DEF TypeOK, Usage
    <3>2. \A e \in Shown : TimeOf[e] <= TimeOf[n]
      <4> TAKE e \in Shown
      <4>1. e \in Usage /\ e <= n
        BY ShownForm
      <4>2. e = n \/ e < n
        BY <3>1, <4>1 DEF Usage
      <4> QED BY <1>1, <3>1, <4>1, <4>2, MirrorAssumption
    <3>3. \A x \in S : x <= pendingMax + TimeOf[n]
      BY <1>1, <3>1, <3>2, ShownForm
    <3>4. pendingMax + TimeOf[n] \in Nat
      BY <1>1, <3>1
    <3> HIDE DEF S
    <3> QED BY <3>3, <3>4
  <2> QED BY <2>1, <2>2
<1>4. Max(S) \in S /\ \A x \in S : x <= Max(S)
  BY <1>2, <1>3, MaxMember
<1> QED BY <1>2, <1>4 DEF Newest

\* What a page settles: with it an event not newer than the walk's new maximum is
\* stored, in hand or on a later page, of which there is none after the last.
LEMMA Passed ==
    ASSUME MirrorInv, pc = "walk", NEW e \in Come, TimeOf[e] <= Newest
    PROVE  \/ Safe(e)
           \/ e \in got \cup (Shown \cap Mapped)
           \/ e <= Top(page + 1) /\ HasNext(since, page)
<1> SUFFICES ASSUME ~Safe(e), e \notin got
             PROVE  e \in Shown \/ (e <= Top(page + 1) /\ HasNext(since, page))
  BY DEF Come
<1>1. e \in Usage /\ e \in Mapped /\ e <= n /\ TimeOf[e] \in Nat /\ e \in Int
  BY MirrorAssumption DEF Come, Mapped, Usage
<1>2. TypeOK /\ page \in Nat /\ Top(page) \in Int /\ since \in Nat /\ pendingMax \in Nat
  BY TopForm, MirrorAssumption DEF MirrorInv, TypeOK
<1>3. TimeOf[e] >= since
  BY <1>1, <1>2 DEF MirrorInv, Covered
<1>4. e <= Top(page)
  <2>1. CASE TimeOf[e] <= pendingMax
    BY <2>1 DEF MirrorInv, Walked
  <2>2. CASE TimeOf[e] > pendingMax
    <3>1. PICK f \in Shown : Newest = TimeOf[f]
      BY <1>1, <1>2, <2>2, NewestForm
    <3>2. f \in Usage /\ f <= Top(page) /\ f \in Int /\ TimeOf[f] \in Nat
      BY <1>2, ShownForm, MirrorAssumption DEF Usage
    <3>3. ~(f < e)
      BY <1>1, <3>1, <3>2, MirrorAssumption
    <3> QED BY <1>1, <1>2, <3>2, <3>3
  <2> QED BY <1>1, <1>2, <2>1, <2>2
<1> QED BY <1>1, <1>2, <1>3, <1>4, ShownForm

-----------------------------------------------------------------------------
(* The steps.  In each, what is stored never shrinks but for a clear.      *)

LEMMA InvInit ==
    ASSUME Init
    PROVE  MirrorInv
<1>1. TypeOK
  <2>1. loaded \in BOOLEAN
    BY Zenon DEF Init
  <2>2. page \in firstPage .. firstPage + MaxPages - 1
    BY MirrorAssumption DEF Init
  <2> QED BY <2>1, <2>2, MirrorAssumption DEF Init, TypeOK
<1>2. \A e \in Usage : TimeOf[e] \in Nat \ {0} /\ e > 0
  BY MirrorAssumption DEF Usage
<1>3. Come = {}
  <2>1. Mapped \subseteq Usage
    BY MirrorAssumption DEF Mapped
  <2>2. \A e \in Usage : ~(e <= n)
    BY DEF Init, Usage
  <2> QED BY <2>1, <2>2 DEF Come
<1>4. Covered /\ Walked
  BY <1>3 DEF Covered, Walked
<1>5. Beyond /\ Resumable
  BY <1>2 DEF Init, Beyond, Resumable
<1> QED BY <1>1, <1>4, <1>5 DEF MirrorInv

\* A new event is newer than everything noted, and pushes the others back.
LEMMA ArriveStep ==
    ASSUME MirrorInv, Arrive
    PROVE  MirrorInv'
<1> USE DEF MirrorInv
<1>1. TypeOK'
  <2>1. loaded' \in BOOLEAN
    BY Zenon DEF Arrive, TypeOK
  <2>2. n' \in 0 .. MaxEvents
    BY MirrorAssumption DEF Arrive, TypeOK
  <2> QED BY <2>1, <2>2 DEF Arrive, TypeOK, stored, progress, locals
<1>2. /\ n \in Nat /\ n' = n + 1 /\ UNCHANGED <<rows, forgotten, watermark, maxSeen, resumePage,
                                              pendingMax, pc, since, firstPage, page, got>>
      /\ watermark \in Nat /\ maxSeen \in Nat /\ pendingMax \in Nat /\ since \in Nat
      /\ page \in Nat /\ resumePage \in Nat
  BY MirrorAssumption DEF Arrive, TypeOK, stored, progress, locals
<1>3. \A e \in Mapped : e \in Usage /\ e \in Int /\ TimeOf[e] \in Nat
  BY TimesForm
<1>4. \A e \in Come' : e \in Come \/ (e \in Usage /\ e > n)
  BY <1>2, <1>3 DEF Come
<1>5. Beyond'
  BY <1>2, MirrorAssumption DEF Beyond, Usage
<1>6. \A p \in Nat : Top(p)' = Top(p) + 1 /\ Top(p) \in Int
  <2> TAKE p \in Nat
  <2>1. (p - 1) * PageSize \in Int
    BY MirrorAssumption
  <2> QED BY <1>2, <2>1 DEF Top
<1>7. Covered'
  BY <1>2, <1>3, <1>4 DEF Covered, Beyond, Safe, Come
<1>8. Walked'
  <2> SUFFICES ASSUME NEW e \in Come', TimeOf[e] <= pendingMax,
                      ~Safe(e), e \notin got
               PROVE  e <= Top(IF pc = "walk" THEN page ELSE resumePage)'
    BY <1>2 DEF Walked, Safe
  <2>1. e \in Come /\ e \in Int
    BY <1>2, <1>3, <1>4 DEF Beyond, Come
  <2>2. PICK p \in Nat : p = IF pc = "walk" THEN page ELSE resumePage
    BY <1>2
  <2>3. e <= Top(p)
    BY <2>1, <2>2 DEF Walked
  <2>4. e <= Top(p)'
    BY <1>6, <2>1, <2>3
  <2> QED BY <1>2, <2>2, <2>4 DEF Top
<1>9. Resumable'
  <2>1. \A e \in got : e \in Int /\ e <= Top(resumePage)
    BY <1>3 DEF Resumable, TypeOK
  <2>2. Top(resumePage)' = Top(resumePage) + 1 /\ Top(resumePage) \in Int
    BY <1>2, <1>6 DEF Top
  <2>3. \A e \in got : e <= Top(resumePage)'
    BY <2>1, <2>2
  <2> QED BY <1>2, <2>3 DEF Resumable
<1> QED BY <1>1, <1>5, <1>7, <1>8, <1>9

LEMMA StartTickStep ==
    ASSUME MirrorInv, StartTick
    PROVE  MirrorInv'
<1> USE DEF MirrorInv
<1>1. /\ pc = "idle" /\ pc' = "walk" /\ got = {} /\ got' = {}
      /\ UNCHANGED <<n, rows, forgotten, watermark, resumePage, pendingMax>>
      /\ maxSeen' \in {maxSeen, watermark}
      /\ since' = IF maxSeen' > 0 THEN maxSeen' + 1 ELSE 0
      /\ firstPage' = resumePage /\ page' = resumePage
      /\ watermark \in Nat /\ maxSeen \in Nat
  BY DEF StartTick, Resumable, TypeOK, stored
<1>2. TypeOK'
  BY MirrorAssumption DEF StartTick, TypeOK, stored
<1>3. Covered'
  <2> SUFFICES ASSUME NEW e \in Come, TimeOf[e] <= watermark \/ TimeOf[e] <= maxSeen' \/ TimeOf[e] < since'
               PROVE  Safe(e)
    BY <1>1 DEF Covered, Come, Safe
  <2>1. TimeOf[e] \in Nat \ {0}
    BY TimesForm DEF Come
  <2>2. TimeOf[e] <= watermark \/ TimeOf[e] <= maxSeen
    BY <1>1, <2>1
  <2> QED BY <2>2 DEF Covered
<1>4. Beyond'
  BY <1>1, TimesForm DEF Beyond
<1>5. Walked' /\ Resumable'
  BY <1>1, <1>2 DEF Walked, Resumable, Safe, Come, Top, TypeOK
<1> QED BY <1>2, <1>3, <1>4, <1>5

\* An insert settles the events it is given.
LEMMA InsertForm ==
    ASSUME TypeOK, NEW E, E \subseteq Mapped, Insert(E)
    PROVE  /\ rows' \subseteq Mapped /\ forgotten' \subseteq Mapped \ rows'
           /\ \A e \in Mapped : Safe(e)' <=> Safe(e) \/ e \in E
BY DEF TypeOK, Insert, Safe

LEMMA NewestBeyond ==
    ASSUME MirrorInv
    PROVE  \A e \in Usage : e > n => TimeOf[e] > Newest
<1> SUFFICES ASSUME NEW e \in Usage, e > n PROVE TimeOf[e] > Newest
  OBVIOUS
<1>1. TypeOK
  BY DEF MirrorInv
<1>2. CASE Newest = pendingMax
  BY <1>2 DEF MirrorInv, Beyond
<1>3. ASSUME NEW f \in Shown, Newest = TimeOf[f] PROVE TimeOf[e] > Newest
  <2>1. f \in Usage /\ f <= n /\ n \in Nat
    BY <1>1, ShownForm DEF TypeOK
  <2>2. f < e
    BY <2>1, TimesForm
  <2> QED BY <1>3, <2>1, <2>2, TimesForm, MirrorAssumption
<1> QED BY <1>1, <1>2, <1>3, NewestForm

\* A tick that stops on the way, with E in the table and the walk to go on at page p.
LEMMA TruncateStep ==
    ASSUME MirrorInv, NEW E, E \subseteq Mapped, NEW p \in Nat \ {0}, Truncate(E, p),
           UNCHANGED <<n, loaded, crashes, clears>>,
           pendingMax' \in Nat, \A e \in Usage : e > n => TimeOf[e] > pendingMax',
           \A e \in Come : TimeOf[e] <= pendingMax' => Safe(e) \/ e \in E \/ e <= Top(p)
    PROVE  MirrorInv'
<1> USE DEF MirrorInv
<1>1. /\ pc' = "idle" /\ since' = 0 /\ firstPage' = 1 /\ page' = 1 /\ got' = {}
      /\ resumePage' = p /\ watermark' = watermark /\ maxSeen' = maxSeen
      /\ Insert(E)
  BY DEF Truncate, EndTick
<1>2. /\ rows' \subseteq Mapped /\ forgotten' \subseteq Mapped \ rows'
      /\ \A e \in Mapped : Safe(e)' <=> Safe(e) \/ e \in E
  BY <1>1, InsertForm
<1>3. TypeOK'
  <2>1. loaded' \in BOOLEAN
    BY Zenon DEF TypeOK
  <2>2. page' \in firstPage' .. firstPage' + MaxPages - 1
    BY <1>1, MirrorAssumption
  <2> QED BY <1>1, <1>2, <2>1, <2>2 DEF TypeOK
<1>4. Come' = Come /\ Come \subseteq Mapped
  BY DEF Come
<1>5. Covered'
  <2> SUFFICES ASSUME NEW e \in Come,
                      TimeOf[e] <= watermark \/ TimeOf[e] <= maxSeen \/ TimeOf[e] < 0
               PROVE  Safe(e)'
    BY <1>1, <1>4 DEF Covered, Safe
  <2>1. Safe(e)
    BY <1>4, TimesForm DEF Covered
  <2> QED BY <1>2, <1>4, <2>1
<1>6. Walked'
  <2> SUFFICES ASSUME NEW e \in Come, TimeOf[e] <= pendingMax'
               PROVE  Safe(e)' \/ e <= Top(p)'
    BY <1>1, <1>4 DEF Walked, Safe, Top
  <2>1. Top(p)' = Top(p)
    BY DEF Top
  <2> QED BY <1>2, <1>4, <2>1
<1>7. Beyond' /\ Resumable'
  BY <1>1, TimesForm DEF Beyond, Resumable
<1> QED BY <1>3, <1>5, <1>6, <1>7

\* A tick that reached the end of the listing with E in the table: nothing not newer
\* than the walk's maximum is missing.
LEMMA LastPage ==
    ASSUME MirrorInv, pc = "walk", ~HasNext(since, page), NEW e \in Come, TimeOf[e] <= Newest
    PROVE  Safe(e) \/ e \in got \cup (Shown \cap Mapped)
BY Passed

LEMMA CompleteStep ==
    ASSUME MirrorInv, pc = "walk", ~HasNext(since, page),
           Complete(got \cup (Shown \cap Mapped), Newest),
           UNCHANGED <<n, loaded, crashes, clears>>
    PROVE  MirrorInv'
<1> USE DEF MirrorInv
<1> DEFINE E == got \cup (Shown \cap Mapped)
<1>1. /\ pc' = "idle" /\ since' = 0 /\ firstPage' = 1 /\ page' = 1 /\ got' = {}
      /\ resumePage' = 1 /\ pendingMax' = 0 /\ watermark' = maxSeen'
      /\ maxSeen' \in {Newest, maxSeen} /\ Insert(E)
  BY DEF Complete, EndTick
<1>2. E \subseteq Mapped
  BY DEF TypeOK
<1>3. \A e \in Come : TimeOf[e] <= Newest => Safe(e) \/ e \in E
  BY LastPage
<1> HIDE DEF E
<1>4. /\ rows' \subseteq Mapped /\ forgotten' \subseteq Mapped \ rows'
      /\ \A e \in Mapped : Safe(e)' <=> Safe(e) \/ e \in E
  BY <1>1, <1>2, InsertForm
<1>5. TypeOK'
  <2>1. loaded' \in BOOLEAN
    BY Zenon DEF TypeOK
  <2>2. page' \in firstPage' .. firstPage' + MaxPages - 1
    BY <1>1, MirrorAssumption
  <2>3. maxSeen' \in Nat
    BY <1>1, NewestForm DEF TypeOK
  <2> QED BY <1>1, <1>4, <2>1, <2>2, <2>3 DEF TypeOK
<1>6. Come' = Come /\ Come \subseteq Mapped
  BY DEF Come
<1>7. Covered'
  <2> SUFFICES ASSUME NEW e \in Come, TimeOf[e] <= maxSeen' \/ TimeOf[e] < 0
               PROVE  Safe(e)'
    BY <1>1, <1>6 DEF Covered, Safe
  <2>1. Safe(e) \/ e \in E
    BY <1>1, <1>3, <1>6, TimesForm DEF Covered
  <2> QED BY <1>4, <1>6, <2>1
<1>8. Walked'
  BY <1>1, <1>6, TimesForm DEF Walked
<1>9. Beyond'
  BY <1>1, NewestBeyond, TimesForm DEF Beyond
<1>10. Resumable'
  BY <1>1 DEF Resumable
<1> QED BY <1>5, <1>7, <1>8, <1>9, <1>10

\* Whatever a tick has shown or has ahead of it is on the page a failed insert goes
\* back to, or later.
LEMMA Ahead ==
    ASSUME MirrorInv, pc = "walk"
    PROVE  /\ \A e \in Usage : e <= Top(page) => e <= Top(resumePage)
           /\ \A e \in Usage : e <= Top(page + 1) => e <= Top(resumePage)
           /\ \A e \in Shown : e <= Top(resumePage)
<1>1. /\ TypeOK /\ page \in Nat /\ page + 1 \in Nat /\ resumePage \in Nat
      /\ resumePage <= page /\ resumePage <= page + 1
  BY MirrorAssumption DEF MirrorInv, TypeOK, Resumable
<1>2. /\ Top(page) <= Top(resumePage) /\ Top(page + 1) <= Top(resumePage)
      /\ Top(page) \in Int /\ Top(page + 1) \in Int /\ Top(resumePage) \in Int
  BY <1>1, TopForm
<1>3. \A e \in Usage : e \in Int
  BY TimesForm
<1> QED BY <1>1, <1>2, <1>3, ShownForm

\* The next page of the same tick.
LEMMA NextPageStep ==
    ASSUME MirrorInv, pc = "walk", HasNext(since, page), page + 1 # firstPage + MaxPages,
           pendingMax' = Newest, page' = page + 1, got' = got \cup (Shown \cap Mapped),
           UNCHANGED <<n, rows, forgotten, watermark, loaded, maxSeen, resumePage, pc, since,
                       firstPage, crashes, clears>>
    PROVE  MirrorInv'
<1> USE DEF MirrorInv
<1>1. TypeOK'
  <2>1. loaded' \in BOOLEAN
    BY Zenon DEF TypeOK
  <2>2. page' \in firstPage .. firstPage + MaxPages - 1
    BY MirrorAssumption DEF TypeOK
  <2>3. pendingMax' \in Nat
    BY NewestForm
  <2> QED BY <2>1, <2>2, <2>3 DEF TypeOK
<1>2. Come' = Come /\ Come \subseteq Mapped
  BY DEF Come
<1>3. Covered'
  BY <1>2 DEF Covered, Safe
<1>4. Walked'
  <2> SUFFICES ASSUME NEW e \in Come, TimeOf[e] <= Newest
               PROVE  Safe(e) \/ e \in got' \/ e <= Top(page + 1)
    BY <1>2 DEF Walked, Safe, Top
  <2> QED BY Passed
<1>5. Beyond'
  BY NewestBeyond DEF Beyond
<1>6. Resumable'
  <2>1. \A e \in got' : e <= Top(resumePage)
    BY Ahead DEF Resumable
  <2> QED BY <2>1 DEF Resumable, Top
<1> QED BY <1>1, <1>3, <1>4, <1>5, <1>6

LEMMA GetPageStep ==
    ASSUME MirrorInv, GetPage
    PROVE  MirrorInv'
<1> DEFINE E == got \cup (Shown \cap Mapped)
<1>1. pc = "walk" /\ UNCHANGED <<n, loaded, crashes, clears>>
  BY DEF GetPage
<1>2. CASE ~HasNext(since, page)
  <2>1. Complete(E, Newest)
    BY <1>2 DEF GetPage, Shown, Newest
  <2> QED BY <1>1, <1>2, <2>1, CompleteStep
<1>3. CASE HasNext(since, page) /\ page + 1 = firstPage + MaxPages
  <2>1. pendingMax' = Newest /\ Truncate(E, page + 1)
    BY <1>3 DEF GetPage, Shown, Newest
  <2>2. E \subseteq Mapped /\ page + 1 \in Nat \ {0} /\ Newest \in Nat
    BY MirrorAssumption, NewestForm DEF MirrorInv, TypeOK
  <2>3. \A e \in Come : TimeOf[e] <= Newest => Safe(e) \/ e \in E \/ e <= Top(page + 1)
    BY <1>1, Passed
  <2> HIDE DEF E
  <2> QED BY <1>1, <2>1, <2>2, <2>3, NewestBeyond, TruncateStep
<1>4. CASE HasNext(since, page) /\ page + 1 # firstPage + MaxPages
  <2>1. /\ pendingMax' = Newest /\ page' = page + 1 /\ got' = E
        /\ UNCHANGED <<rows, forgotten, watermark, maxSeen, resumePage, pc, since, firstPage>>
    BY <1>4 DEF GetPage, Shown, Newest, stored
  <2> QED BY <1>1, <1>4, <2>1, NextPageStep
<1> QED BY <1>2, <1>3, <1>4

LEMMA PageFailsStep ==
    ASSUME MirrorInv, PageFails
    PROVE  MirrorInv'
<1>1. /\ pc = "walk" /\ UNCHANGED <<n, loaded, pendingMax, crashes, clears>>
      /\ Truncate(got, page)
  BY DEF PageFails
<1>2. got \subseteq Mapped /\ page \in Nat \ {0} /\ pendingMax \in Nat
  BY MirrorAssumption DEF MirrorInv, TypeOK
<1>3. \A e \in Come : TimeOf[e] <= pendingMax => Safe(e) \/ e \in got \/ e <= Top(page)
  BY <1>1 DEF MirrorInv, Walked
<1>4. \A e \in Usage : e > n => TimeOf[e] > pendingMax
  BY DEF MirrorInv, Beyond
<1> QED BY <1>1, <1>2, <1>3, <1>4, TruncateStep

\* A tick that ends and leaves the page it began at: what it had in hand is ahead of
\* the next one, or in the table.
LEMMA AbortStep ==
    ASSUME MirrorInv, pc = "walk", EndTick, UNCHANGED <<n, watermark, loaded, resumePage, crashes, clears>>,
           rows' \subseteq Mapped, forgotten' \subseteq Mapped \ rows',
           \A e \in Mapped : Safe(e) => Safe(e)',
           pendingMax' \in {pendingMax, Newest},
           maxSeen' \in Nat,
           maxSeen' = maxSeen \/ (maxSeen' \in {maxSeen, Newest}
                                  /\ \A e \in Come : TimeOf[e] <= Newest => Safe(e)')
    PROVE  MirrorInv'
<1> USE DEF MirrorInv
<1>1. pc' = "idle" /\ since' = 0 /\ firstPage' = 1 /\ page' = 1 /\ got' = {}
  BY DEF EndTick
<1>2. TypeOK'
  <2>1. loaded' \in BOOLEAN
    BY Zenon DEF TypeOK
  <2>2. page' \in firstPage' .. firstPage' + MaxPages - 1
    BY <1>1, MirrorAssumption
  <2>3. pendingMax' \in Nat
    BY NewestForm DEF TypeOK
  <2> QED BY <1>1, <2>1, <2>2, <2>3 DEF TypeOK
<1>3. Come' = Come /\ Come \subseteq Mapped
  BY DEF Come
<1>4. Covered'
  <2> SUFFICES ASSUME NEW e \in Come,
                      TimeOf[e] <= watermark \/ TimeOf[e] <= maxSeen' \/ TimeOf[e] < 0
               PROVE  Safe(e)'
    BY <1>1, <1>3 DEF Covered, Safe
  <2>1. TimeOf[e] <= watermark \/ TimeOf[e] <= maxSeen => Safe(e)
    BY DEF Covered
  <2> QED BY <1>3, <2>1, TimesForm
<1>5. Walked'
  <2> SUFFICES ASSUME NEW e \in Come, TimeOf[e] <= pendingMax', ~Safe(e)
               PROVE  e <= Top(resumePage)
    BY <1>1, <1>3 DEF Walked, Safe, Top
  <2>1. e \in Usage
    BY <1>3, TimesForm
  <2>2. CASE pendingMax' = pendingMax
    BY <2>1, <2>2, Ahead DEF Walked, Resumable
  <2>3. CASE pendingMax' = Newest
    BY <2>1, <2>3, Passed, Ahead DEF Resumable
  <2> QED BY <2>2, <2>3
<1>6. Beyond' /\ Resumable'
  BY <1>1, NewestBeyond, TimesForm DEF Beyond, Resumable
<1> QED BY <1>2, <1>4, <1>5, <1>6

LEMMA InsertFailsStep ==
    ASSUME MirrorInv, InsertFails
    PROVE  MirrorInv'
<1>1. /\ pc = "walk" /\ EndTick /\ pendingMax' \in {pendingMax, Newest}
      /\ UNCHANGED <<n, rows, forgotten, watermark, loaded, maxSeen, resumePage, crashes, clears>>
  BY DEF InsertFails, Shown, Newest, stored
<1>2. /\ rows' \subseteq Mapped /\ forgotten' \subseteq Mapped \ rows' /\ maxSeen' \in Nat
      /\ \A e \in Mapped : Safe(e) => Safe(e)'
  BY <1>1 DEF MirrorInv, TypeOK, Safe
<1> QED BY <1>1, <1>2, AbortStep

LEMMA MarkFailsStep ==
    ASSUME MirrorInv, MarkFails
    PROVE  MirrorInv'
<1> DEFINE E == got \cup (Shown \cap Mapped)
<1>1. /\ pc = "walk" /\ ~HasNext(since, page) /\ EndTick /\ pendingMax' = Newest
      /\ Insert(E) /\ maxSeen' = Max({maxSeen, pendingMax'})
      /\ UNCHANGED <<n, watermark, loaded, resumePage, crashes, clears>>
  BY DEF MarkFails, Shown, Newest
<1>2. E \subseteq Mapped /\ TypeOK /\ maxSeen \in Nat
  BY DEF MirrorInv, TypeOK
<1>3. \A e \in Come : TimeOf[e] <= Newest => Safe(e) \/ e \in E
  BY <1>1, LastPage
<1> HIDE DEF E
<1>4. /\ rows' \subseteq Mapped /\ forgotten' \subseteq Mapped \ rows'
      /\ \A e \in Mapped : Safe(e)' <=> Safe(e) \/ e \in E
  BY <1>1, <1>2, InsertForm
<1>5. maxSeen' \in {maxSeen, Newest} /\ maxSeen' \in Nat
  <2>1. Newest \in Nat
    BY <1>2, NewestForm
  <2>2. \A x \in {maxSeen, Newest} : x <= maxSeen + Newest
    BY <1>2, <2>1
  <2>3. maxSeen + Newest \in Nat /\ {maxSeen, Newest} \subseteq Nat
    BY <1>2, <2>1
  <2>4. Max({maxSeen, Newest}) \in {maxSeen, Newest}
    BY <2>2, <2>3, MaxMember
  <2> QED BY <1>1, <1>2, <2>1, <2>4
<1>6. \A e \in Come : TimeOf[e] <= Newest => Safe(e)'
  BY <1>3, <1>4 DEF Come
<1> QED BY <1>1, <1>4, <1>5, <1>6, AbortStep

LEMMA ClearStep ==
    ASSUME MirrorInv, Clear
    PROVE  MirrorInv'
<1> USE DEF MirrorInv
<1>1. /\ rows' = {} /\ forgotten' = IF pc = "walk" THEN forgotten \cup rows ELSE {}
      /\ maxSeen' = 0 /\ pendingMax' = 0 /\ resumePage' = 1 /\ watermark' = 0
      /\ UNCHANGED <<n, pc, since, firstPage, page, got, crashes>>
  BY DEF Clear, locals
<1>2. TypeOK'
  <2>1. loaded' \in BOOLEAN
    BY Zenon DEF Clear
  <2>2. clears' \in 0 .. MaxClears
    BY MirrorAssumption DEF Clear, TypeOK
  <2> QED BY <1>1, <2>1, <2>2 DEF TypeOK
<1>3. Come' = Come /\ Come \subseteq Mapped
  BY <1>1 DEF Come
<1>4. Covered'
  <2> SUFFICES ASSUME NEW e \in Come, TimeOf[e] <= 0 \/ TimeOf[e] < since
               PROVE  Safe(e)'
    BY <1>1, <1>3 DEF Covered, Safe
  <2>1. TimeOf[e] < since /\ since # 0
    BY <1>3, TimesForm DEF TypeOK
  <2>2. pc = "walk" /\ Safe(e)
    BY <2>1 DEF TypeOK, Resumable, Covered
  <2> QED BY <1>1, <2>2 DEF Safe
<1>5. Walked' /\ Beyond'
  BY <1>1, <1>3, TimesForm DEF Walked, Beyond
<1>6. Resumable'
  <2>1. Top(resumePage) <= n
    BY TopForm DEF TypeOK
  <2>2. \A e \in got : e <= n
    <3> TAKE e \in got
    <3>1. e <= Top(resumePage) /\ e \in Int /\ Top(resumePage) \in Int /\ n \in Int
      BY TopForm, TimesForm DEF Resumable, TypeOK
    <3> QED BY <2>1, <3>1
  <2>3. Top(1)' = n
    BY <1>1, <1>2, MirrorAssumption DEF Top, TypeOK
  <2>4. \A e \in got' : e <= Top(resumePage)'
    BY <1>1, <2>2, <2>3 DEF Top
  <2>5. pc' = "walk" => resumePage' <= firstPage'
    BY <1>1 DEF TypeOK
  <2> QED BY <1>1, <2>4, <2>5 DEF Resumable
<1> QED BY <1>2, <1>4, <1>5, <1>6

\* A user's rows go where the invariant still sees them.
LEMMA ClearUserStep ==
    ASSUME MirrorInv, NEW U \in Owned, ClearUser(U)
    PROVE  MirrorInv'
<1> USE DEF MirrorInv
<1>1. /\ rows' = rows \ U /\ forgotten' = forgotten \cup (rows \cap U)
      /\ UNCHANGED <<n, watermark, loaded, maxSeen, resumePage, pendingMax, pc, since, firstPage,
                     page, got, crashes>>
  BY DEF ClearUser, progress, locals
<1>2. TypeOK'
  <2>1. loaded' \in BOOLEAN
    BY Zenon DEF ClearUser, TypeOK
  <2>2. clears' \in 0 .. MaxClears
    BY MirrorAssumption DEF ClearUser, TypeOK
  <2> QED BY <1>1, <2>1, <2>2 DEF TypeOK
<1>3. Come' = Come /\ \A e \in Come : Safe(e)' <=> Safe(e)
  BY <1>1 DEF Come, Safe
<1>4. Covered' /\ Walked' /\ Beyond' /\ Resumable'
  BY <1>1, <1>3 DEF Covered, Walked, Beyond, Resumable, Top
<1> QED BY <1>2, <1>4

\* A restart forgets the walk and reads the watermark back.
LEMMA RestartStep ==
    ASSUME MirrorInv, Restart, UNCHANGED <<n, watermark>>,
           rows' \subseteq Mapped, forgotten' \subseteq Mapped \ rows',
           \A e \in Mapped : Safe(e) => Safe(e)',
           clears' \in 0 .. MaxClears
    PROVE  MirrorInv'
<1> USE DEF MirrorInv
<1>1. /\ maxSeen' = 0 /\ resumePage' = 1 /\ pendingMax' = 0
      /\ pc' = "idle" /\ since' = 0 /\ firstPage' = 1 /\ page' = 1 /\ got' = {}
  BY DEF Restart, EndTick
<1>2. TypeOK'
  <2>1. loaded' \in BOOLEAN
    BY Zenon DEF Restart
  <2>2. page' \in firstPage' .. firstPage' + MaxPages - 1
    BY <1>1, MirrorAssumption
  <2>3. crashes' \in 0 .. MaxCrashes
    BY MirrorAssumption DEF Restart, TypeOK
  <2> QED BY <1>1, <2>1, <2>2, <2>3 DEF TypeOK
<1>3. Come' = Come /\ Come \subseteq Mapped
  BY DEF Come
<1>4. Covered'
  <2> SUFFICES ASSUME NEW e \in Come,
                      TimeOf[e] <= watermark \/ TimeOf[e] <= 0 \/ TimeOf[e] < 0
               PROVE  Safe(e)'
    BY <1>1, <1>3 DEF Covered, Safe
  <2>1. TimeOf[e] <= watermark
    BY <1>3, TimesForm
  <2> QED BY <1>3, <2>1 DEF Covered
<1>5. Walked' /\ Beyond' /\ Resumable'
  BY <1>1, <1>3, TimesForm DEF Walked, Beyond, Resumable
<1> QED BY <1>2, <1>4, <1>5

LEMMA CrashStep ==
    ASSUME MirrorInv, Crash \/ CrashInClear
    PROVE  MirrorInv'
<1>1. CASE Crash
  <2>1. Restart /\ UNCHANGED <<n, rows, forgotten, watermark, clears>>
    BY <1>1 DEF Crash, stored
  <2> QED BY <2>1, RestartStep DEF MirrorInv, TypeOK, Safe
<1>2. CASE CrashInClear
  <2>1. /\ Restart /\ UNCHANGED <<n, watermark>> /\ rows' = {} /\ forgotten' = forgotten \cup rows
        /\ clears < MaxClears /\ clears' = clears + 1
    BY <1>2 DEF CrashInClear
  <2>2. clears' \in 0 .. MaxClears
    BY <2>1, MirrorAssumption DEF MirrorInv, TypeOK
  <2>3. rows' \subseteq Mapped /\ forgotten' \subseteq Mapped \ rows'
        /\ \A e \in Mapped : Safe(e) => Safe(e)'
    BY <2>1 DEF MirrorInv, TypeOK, Safe
  <2> QED BY <2>1, <2>2, <2>3, RestartStep
<1> QED BY <1>1, <1>2

LEMMA InvStep ==
    ASSUME MirrorInv, [Next]_vars
    PROVE  MirrorInv'
<1>1. CASE UNCHANGED vars
  <2>1. TypeOK'
    BY <1>1 DEF MirrorInv, TypeOK, vars
  <2>2. Come' = Come /\ \A e \in Come : Safe(e)' <=> Safe(e)
    BY <1>1 DEF Come, Safe, vars
  <2>3. Covered' /\ Walked' /\ Beyond' /\ Resumable'
    BY <1>1, <2>2 DEF MirrorInv, vars, Covered, Walked, Beyond, Resumable, Top
  <2> QED BY <2>1, <2>3 DEF MirrorInv
<1>2. ASSUME NEW U \in Owned, ClearUser(U) PROVE MirrorInv'
  BY <1>2, ClearUserStep
<1> QED BY <1>1, <1>2, ArriveStep, StartTickStep, GetPageStep, PageFailsStep, InsertFailsStep,
           MarkFailsStep, ClearStep, CrashStep DEF Next

LEMMA InvCorrect == Spec => []MirrorInv
<1>1. Init => MirrorInv
  BY InvInit
<1>2. MirrorInv /\ [Next]_vars => MirrorInv'
  BY InvStep
<1> QED BY <1>1, <1>2, PTL DEF Spec

\* States are well typed: a tick stays within its pages, an event is never both
\* stored and forgotten.
THEOREM TypeCorrect == Spec => []TypeOK
<1>1. MirrorInv => TypeOK
  BY DEF MirrorInv
<1> QED BY <1>1, InvCorrect, PTL

\* Nothing the watermark covers is missing, for every page size, number of pages in
\* a tick, assignment of events to users, and however often the server dies or the
\* table is cleared.
THEOREM WatermarkCorrect == Spec => []WatermarkCovered
<1>1. MirrorInv => WatermarkCovered
  BY DEF MirrorInv, Covered, Come, Safe, WatermarkCovered
<1> QED BY <1>1, InvCorrect, PTL

-----------------------------------------------------------------------------
(***************************************************************************)
(* The other import of Cursor usage, by the daemon and the CLI of one      *)
(* machine (CursorSync): nothing they leave behind is lost, but for what a *)
(* month walk after the backfill cuts off.                                 *)
(*                                                                         *)
(* Two processes walk the same listing and save the same watermarks, each  *)
(* from the copy it loaded.  The invariant therefore speaks of every copy: *)
(* of a saved state (Good), that what its watermark leaves behind is on    *)
(* the server and that its resume page was reached by a walk that imported *)
(* what it passed; of a walk (WalkPassed), that it holds what it passed.   *)
(* Rows are never removed and the listing only grows, at times before its  *)
(* head, so that pages move back: what is said of an old copy stays true.  *)
(***************************************************************************)
CONSTANTS MaxTime, SyncPageSize, Batch, IncrementalPages, BackfillPages, FullPages, OVERLAP,
          MonthStart, LocalTime, LocalEnabled, MaxTrouble

VARIABLES now, listed, cut, cloud, localRows, token, tokenBy, creds, disk, mem, walk, expiries,
          runs, syncCrashes

Sync == INSTANCE CursorSync WITH PageSize <- SyncPageSize, crashes <- syncCrashes

-----------------------------------------------------------------------------
(* The inductive invariant of CursorSync.  What it says of a state and of  *)
(* a walk it says for any listing L, any imported rows C and any time.     *)

\* Where an event stands in the listing, whatever the window begins with.
Later(L, e) == {f \in L : f > e}
PageIn(L, e) == 1 + Cardinality(Later(L, e)) \div SyncPageSize

\* No later window from a watermark t has to begin after e.
Recent(e, t) == t <= e + OVERLAP

\* What a saved state leaves behind is kept, and its resume page was reached by a
\* walk that imported what it passed.
Settled(c, L, C) ==
    c.done =>
        /\ c.last > 0
        /\ \A e \in L :
              Recent(e, c.last) \/ e \in C \/ (c.page # 0 /\ e >= c.start /\ PageIn(L, e) >= c.page)
        /\ c.page # 0 => \A e \in Sync!Usage : e < c.start => e \in C
ResumeOK(c, L, C) ==
    c.page # 0 /\ c.start = 0 =>
        /\ c.last > 0
        /\ \A e \in L : PageIn(L, e) < c.page => Recent(e, c.last) \/ e \in C
Good(c, L, C, time) == c.last <= time /\ Settled(c, L, C) /\ ResumeOK(c, L, C)

\* A walk of the dashboard, from its first page to the save, and what it is shown.
InWalk(x) == x.kind = "cloud" /\ x.step \notin {"idle", "local"}

Until(L, end) == {e \in L : e <= end}
Asked(x, L) == Until(L, x.end)

\* Before the backfill is done, nothing relies on what a month walk saves.
Matters(x) == x.mode = "month" => x.basis.cloud.done

\* What a walk has passed it holds, or it was imported before, or it will be asked
\* for again.
WalkPassed(x, L, C) ==
    \A e \in Asked(x, L) :
        e >= x.start /\ (x.complete \/ PageIn(Asked(x, L), e) < x.page) =>
            \/ e \in x.got \cup C
            \/ \A f \in x.got \cup {x.basis.cloud.last} : Recent(e, f)

FromWindow(x, C) ==
    CASE x.mode = "full" -> x.start = 0
      [] x.mode = "month" -> x.start > 0
      [] OTHER -> x.basis.cloud.done /\ \A e \in Sync!Usage : e < x.start => e \in C

Walking(x, L, C) ==
    /\ x.got \subseteq Asked(x, L) /\ x.basis.cloud.last <= x.end
    /\ FromWindow(x, C)
    /\ x.mode # "month" => x.end = Sync!Never
    /\ Matters(x) => WalkPassed(x, L, C)
    /\ x.mode # "month" =>
          (x.step = "page" /\ x.page = 1) \/ x.got # {} \/ x.basis.cloud.last > 0
    /\ x.step = "page" => ~x.complete
    /\ ~x.complete => x.page > 0
    /\ x.step \notin {"post", "save"} => x.todo = x.got
    /\ x.step = "post" => x.got \ x.todo \subseteq C
    /\ x.step = "save" => x.got \subseteq C

WalkOK(w, x, L, C, time) ==
    /\ x.basis.cloud.last <= time
    /\ x.got \subseteq 1 .. time /\ x.todo \subseteq x.got
    /\ w = "daemon" \/ x.mode = "month" => Good(x.basis.cloud, L, C, time)
    /\ w = "cli" => x.mode # "incremental" /\ x.kind # "local" /\ x.step # "local"
    /\ w = "daemon" => x.mode # "month" /\ x.kind # "login"
    /\ x.kind = "login" => x.step \in {"creds", "unlink"}
    /\ x.kind = "local" => x.step \in {"post", "save"}
    /\ InWalk(x) => Walking(x, L, C)
    /\ InWalk(x) /\ w = "daemon" /\ x.mode = "full" => ~x.basis.cloud.done

\* What is late is not later than OVERLAP.
Late(L, time) == \A e \in 1 .. time \ L : time <= e + OVERLAP

CloudRec == [last : Nat, sync : Nat, done : BOOLEAN, page : Nat, start : Nat]
StateRec == [cloud : CloudRec, rowid : Nat]
WalkRec ==
    [step : {"idle", "page", "local", "token", "creds", "unlink", "post", "save"},
     mode : {"full", "month", "incremental"}, basis : StateRec, start : Nat, end : Nat,
     page : Nat, left : Int, got : SUBSET Sync!Usage, todo : SUBSET Sync!Usage, complete : BOOLEAN,
     kind : {"cloud", "local", "login"}, session : Sync!SessionType, refresh : BOOLEAN,
     refreshed : Sync!SessionType]

SyncType ==
    /\ now \in Sync!Usage /\ listed \subseteq 1 .. now /\ 1 \in listed
    /\ token \in Sync!SessionType
    /\ disk \in StateRec /\ mem \in StateRec
    /\ walk \in [Sync!Processes -> WalkRec]

\* Imported, or cut off by a month walk after the backfill.
Kept == cloud \cup cut

SyncInv ==
    /\ SyncType
    /\ Late(listed, now)
    /\ Good(disk.cloud, listed, Kept, now) /\ Good(mem.cloud, listed, Kept, now)
    /\ \A w \in Sync!Processes : WalkOK(w, walk[w], listed, Kept, now)

-----------------------------------------------------------------------------
(* Pages of a listing.                                                     *)

LEMMA DivForm ==
    ASSUME NEW D \in Nat \ {0}, NEW t \in Nat
    PROVE  /\ t \div D \in Nat
           /\ (t \div D) * D <= t /\ t < (t \div D) * D + D
OBVIOUS

\* Pages by the numbers of the events they hold.
LEMMA DivLess ==
    ASSUME NEW D \in Nat \ {0}, NEW t \in Nat, NEW q \in Nat
    PROVE  t \div D < q <=> t < q * D
<1> DEFINE p == t \div D
<1>1. p \in Nat /\ p * D <= t /\ t < p * D + D
  BY DivForm
<1> HIDE DEF p
<1>2. ASSUME p < q PROVE t < q * D
  <2>1. (p + 1) * D <= q * D /\ (p + 1) * D = p * D + D
    BY <1>1, <1>2
  <2>2. p * D \in Nat /\ q * D \in Nat
    BY <1>1
  <2> QED BY <1>1, <2>1, <2>2
<1>3. ASSUME t < q * D PROVE p < q
  <2> SUFFICES ASSUME q <= p PROVE FALSE
    BY <1>1
  <2>1. q * D <= p * D
    BY <1>1
  <2>2. p * D \in Nat /\ q * D \in Nat
    BY <1>1
  <2> QED BY <1>1, <1>3, <2>1, <2>2
<1>4. p < q <=> t < q * D
  BY <1>2, <1>3
<1> QED BY <1>4 DEF p

\* Finite sets of times, and their least and greatest elements.
LEMMA UsageForm ==
    ASSUME Sync!SyncAssumption
    PROVE  /\ MaxTime \in Nat /\ Sync!Usage \subseteq Nat \ {0} /\ IsFiniteSet(Sync!Usage)
           /\ SyncPageSize \in Nat \ {0} /\ OVERLAP \in Nat
           /\ Sync!Never = MaxTime /\ \A e \in Sync!Usage : e <= MaxTime
<1>1. MaxTime \in Nat /\ SyncPageSize \in Nat \ {0} /\ OVERLAP \in Nat
  BY DEF Sync!SyncAssumption
<1>2. IsFiniteSet(1 .. MaxTime)
  BY <1>1, FS_Interval
<1> QED BY <1>1, <1>2 DEF Sync!Usage, Sync!Never

LEMMA LeastOf ==
    ASSUME NEW S, S \subseteq Nat, S # {}
    PROVE  \E m \in S : \A x \in S : m <= x
<1>1. PICK m \in S : \A x \in S : ~(<<x, m>> \in OpToRel(<, Nat))
  BY NatLessThanWellFounded, WFMin
<1>2. ASSUME NEW x \in S PROVE m <= x
  <2> SUFFICES ASSUME x < m PROVE FALSE
    OBVIOUS
  <2>1. <<x, m>> \in Nat \X Nat /\ <<x, m>>[1] < <<x, m>>[2]
    OBVIOUS
  <2>2. <<x, m>> \in OpToRel(<, Nat)
    BY <2>1 DEF OpToRel
  <2> QED BY <1>1, <2>2
<1> QED BY <1>2

LEMMA GreatestOf ==
    ASSUME NEW S, S \subseteq Nat, S # {}, NEW b \in Nat, \A x \in S : x <= b
    PROVE  \E m \in S : \A x \in S : x <= m
<1> DEFINE Gaps == {b - x : x \in S}
<1>1. Gaps \subseteq Nat /\ Gaps # {}
  <2>1. \A x \in S : b - x \in Nat
    OBVIOUS
  <2>2. PICK x \in S : TRUE
    OBVIOUS
  <2>3. b - x \in Gaps
    OBVIOUS
  <2> QED BY <2>1, <2>3
<1>2. PICK g \in Gaps : \A h \in Gaps : g <= h
  <2> HIDE DEF Gaps
  <2> QED BY <1>1, LeastOf
<1>3. PICK m \in S : g = b - m
  OBVIOUS
<1>4. \A x \in S : g <= b - x
  BY <1>2
<1>5. \A x \in S : x <= m
  BY <1>3, <1>4
<1> QED BY <1>5

LEMMA MaxForm ==
    ASSUME NEW S, S \subseteq Nat, S # {}, NEW b \in Nat, \A x \in S : x <= b
    PROVE  Sync!Max(S) \in S /\ \A x \in S : x <= Sync!Max(S)
<1>1. PICK m \in S : \A x \in S : x <= m
  BY GreatestOf
<1>2. \E y \in S : \A x \in S : y >= x
  BY <1>1
<1>3. Sync!Max(S) \in S /\ \A x \in S : Sync!Max(S) >= x
  BY <1>2 DEF Sync!Max
<1>4. \A x \in S : x \in Nat /\ Sync!Max(S) \in Nat
  BY <1>3
<1> QED BY <1>3, <1>4

LEMMA LaterForm ==
    ASSUME Sync!SyncAssumption, NEW L, L \subseteq Sync!Usage, NEW e
    PROVE  /\ IsFiniteSet(Later(L, e)) /\ Cardinality(Later(L, e)) \in Nat
           /\ PageIn(L, e) \in Nat \ {0}
<1>1. Later(L, e) \in SUBSET Sync!Usage
  BY DEF Later
<1>2. IsFiniteSet(Later(L, e))
  BY <1>1, UsageForm, FS_Subset
<1>3. Cardinality(Later(L, e)) \in Nat
  BY <1>2, FS_CardinalityType
<1>4. Cardinality(Later(L, e)) \div SyncPageSize \in Nat
  BY <1>3, UsageForm, DivForm
<1> QED BY <1>2, <1>3, <1>4 DEF PageIn

\* An event is on a page before q when fewer than q - 1 pages of events are later.
LEMMA PageBefore ==
    ASSUME Sync!SyncAssumption, NEW L, L \subseteq Sync!Usage, NEW e, NEW q \in Nat \ {0}
    PROVE  PageIn(L, e) <= q <=> Cardinality(Later(L, e)) < q * SyncPageSize
<1>1. Cardinality(Later(L, e)) \in Nat
  BY LaterForm
<1> DEFINE t == Cardinality(Later(L, e))
<1>2. t \div SyncPageSize \in Nat
  BY <1>1, UsageForm, DivForm
<1>3. t \div SyncPageSize < q <=> t < q * SyncPageSize
  BY <1>1, UsageForm, DivLess
<1>4. PageIn(L, e) <= q <=> t \div SyncPageSize < q
  BY <1>2 DEF PageIn
<1> QED BY <1>3, <1>4

\* Older events are on later pages, and a longer listing moves an event back.
LEMMA PagesOrdered ==
    ASSUME Sync!SyncAssumption,
           NEW L, L \subseteq Sync!Usage, NEW M, M \subseteq L, NEW d \in Nat, NEW e \in Nat, d <= e
    PROVE  PageIn(M, e) <= PageIn(L, d)
<1>0. \A x \in L : x \in Nat
  BY UsageForm
<1>1. Later(M, e) \in SUBSET Later(L, d)
  BY <1>0 DEF Later
<1>2. Cardinality(Later(M, e)) <= Cardinality(Later(L, d))
  BY <1>1, LaterForm, FS_Subset
<1>3. PageIn(L, d) \in Nat \ {0} /\ M \subseteq Sync!Usage
  BY LaterForm
<1>4. Cardinality(Later(L, d)) < PageIn(L, d) * SyncPageSize
  BY <1>3, PageBefore
<1>5. Cardinality(Later(M, e)) \in Nat /\ Cardinality(Later(L, d)) \in Nat
  BY <1>3, LaterForm
<1>7. PageIn(L, d) * SyncPageSize \in Nat
  BY <1>3, UsageForm
<1>6. Cardinality(Later(M, e)) < PageIn(L, d) * SyncPageSize
  BY <1>2, <1>4, <1>5, <1>7
<1> QED BY <1>3, <1>6, PageBefore

\* The newest event is on the first page.
LEMMA FirstPage ==
    ASSUME Sync!SyncAssumption, NEW L, L \subseteq Sync!Usage, L # {}
    PROVE  \E m \in L : PageIn(L, m) = 1
<1>1. PICK m \in L : \A x \in L : x <= m
  BY UsageForm, GreatestOf
<1>2. Later(L, m) = {}
  <2>1. \A x \in L : x \in Nat /\ ~(x > m)
    BY <1>1, UsageForm
  <2> QED BY <2>1 DEF Later
<1>3. Cardinality(Later(L, m)) = 0
  BY <1>2, FS_EmptySet
<1>4. 0 < 1 * SyncPageSize
  BY UsageForm
<1>5. PageIn(L, m) <= 1
  BY <1>3, <1>4, PageBefore
<1> QED BY <1>5, LaterForm

\* Before an event in the listing stand events of every lower number.
LEMMA EveryNumber ==
    ASSUME Sync!SyncAssumption, NEW L, L \subseteq Sync!Usage, NEW e \in L, NEW r \in Nat,
           r <= Cardinality(Later(L, e))
    PROVE  \E f \in L : Cardinality(Later(L, f)) = r
<1> DEFINE N(f) == Cardinality(Later(L, f))
           S == {k \in Nat : k >= r /\ \E f \in L : N(f) = k}
<1>1. \A f \in L : N(f) \in Nat
  BY LaterForm
<1>2. N(e) \in S
  BY <1>1
<1>3. PICK k \in S : \A x \in S : k <= x
  <2>1. S \subseteq Nat /\ S # {}
    BY <1>2
  <2> HIDE DEF S
  <2> QED BY <2>1, LeastOf
<1>4. PICK f \in L : N(f) = k
  BY <1>3
<1>5. k = r
  <2> SUFFICES ASSUME k > r PROVE FALSE
    BY <1>3
  <2>1. Later(L, f) # {}
    <3>1. N(f) # 0
      BY <1>3, <1>4
    <3> QED BY <3>1, FS_EmptySet
  <2>2. Later(L, f) \subseteq Nat
    BY UsageForm DEF Later
  <2>3. PICK g \in Later(L, f) : \A x \in Later(L, f) : g <= x
    BY <2>1, <2>2, LeastOf
  <2>4. g \in L /\ g > f
    BY <2>3 DEF Later
  <2>5. Later(L, g) = Later(L, f) \ {g}
    <3>1. \A x \in L : x \in Nat
      BY UsageForm
    <3>2. \A x \in L : x > g <=> x > f /\ x # g
      BY <2>3, <2>4, <3>1 DEF Later
    <3> QED BY <3>2 DEF Later
  <2>6. N(g) = N(f) - 1
    <3>1. IsFiniteSet(Later(L, f))
      BY LaterForm
    <3>2. Cardinality(Later(L, f) \ {g}) = Cardinality(Later(L, f)) - 1
      BY <2>3, <3>1, FS_RemoveElement
    <3> QED BY <2>5, <3>2
  <2>7. N(g) \in S /\ N(g) < k
    BY <1>1, <1>3, <1>4, <2>4, <2>6
  <2> QED BY <1>3, <2>7
<1> QED BY <1>4, <1>5

LEMMA NumbersOrdered ==
    ASSUME Sync!SyncAssumption, NEW L, L \subseteq Sync!Usage, NEW d \in L, NEW e \in L
    PROVE  d < e <=> Cardinality(Later(L, e)) < Cardinality(Later(L, d))
<1>1. ASSUME NEW f \in L, NEW g \in L, f < g
      PROVE  Cardinality(Later(L, g)) < Cardinality(Later(L, f))
  <2>1. \A x \in L : x \in Nat
    BY UsageForm
  <2>2. Later(L, g) \cup {g} \in SUBSET Later(L, f) /\ g \notin Later(L, g)
    BY <1>1, <2>1 DEF Later
  <2>3. IsFiniteSet(Later(L, g)) /\ IsFiniteSet(Later(L, f))
        /\ Cardinality(Later(L, g)) \in Nat /\ Cardinality(Later(L, f)) \in Nat
    BY LaterForm
  <2>4. Cardinality(Later(L, g) \cup {g}) = Cardinality(Later(L, g)) + 1
    BY <2>2, <2>3, FS_AddElement
  <2>5. Cardinality(Later(L, g) \cup {g}) <= Cardinality(Later(L, f))
    BY <2>2, <2>3, FS_Subset
  <2> QED BY <2>3, <2>4, <2>5
<1>2. Cardinality(Later(L, e)) \in Nat /\ Cardinality(Later(L, d)) \in Nat
  BY LaterForm
<1>3. d \in Nat /\ e \in Nat
  BY UsageForm
<1>4. CASE d < e
  BY <1>1, <1>4
<1>5. CASE e < d
  <2>1. Cardinality(Later(L, d)) < Cardinality(Later(L, e))
    BY <1>1, <1>5
  <2> QED BY <1>2, <1>3, <1>5, <2>1
<1>6. CASE d = e
  BY <1>2, <1>3, <1>6
<1> QED BY <1>3, <1>4, <1>5, <1>6

\* Page p of the window from s on.
PageFrom(L, s, p) == {e \in L : e >= s /\ PageIn(L, e) = p}

\* A page before another is full, and the next one is not empty.
LEMMA FullPage ==
    ASSUME Sync!SyncAssumption, NEW L, L \subseteq Sync!Usage, NEW s \in Nat, NEW p \in Nat \ {0},
           NEW e \in L, e >= s, PageIn(L, e) > p
    PROVE  /\ Cardinality(PageFrom(L, s, p)) >= SyncPageSize
           /\ PageFrom(L, s, p + 1) # {}
<1> DEFINE N(f) == Cardinality(Later(L, f))
           a == p * SyncPageSize
           b == (p - 1) * SyncPageSize
<1>1. a \in Nat /\ b \in Nat /\ a = b + SyncPageSize /\ SyncPageSize \in Nat \ {0}
  <2>1. SyncPageSize \in Nat \ {0}
    BY UsageForm
  <2>2. a = b + SyncPageSize
    BY <2>1
  <2>3. p - 1 \in Nat
    OBVIOUS
  <2>4. b \in Nat /\ a \in Nat
    BY <2>1, <2>3
  <2> QED BY <2>1, <2>2, <2>4
<1>2. \A f \in L : f \in Nat /\ N(f) \in Nat /\ PageIn(L, f) \in Nat \ {0}
  BY UsageForm, LaterForm
<1>3. \A f \in L : PageIn(L, f) <= p <=> N(f) < a
  BY PageBefore
<1>4. \A f \in L : PageIn(L, f) < p <=> N(f) < b
  <2>1. CASE p = 1
    <3>1. b = 0
      BY <2>1, <1>1
    <3> QED BY <2>1, <3>1, <1>2
  <2>2. CASE p # 1
    <3>1. p - 1 \in Nat \ {0}
      BY <2>2
    <3>2. \A f \in L : PageIn(L, f) <= p - 1 <=> N(f) < b
      BY <3>1, PageBefore
    <3> QED BY <3>2, <1>2
  <2> QED BY <2>1, <2>2
<1>5. \A f \in L : PageIn(L, f) <= p + 1 <=> N(f) < a + SyncPageSize
  <2>1. p + 1 \in Nat \ {0} /\ (p + 1) * SyncPageSize = a + SyncPageSize
    BY UsageForm
  <2> QED BY <2>1, PageBefore
<1>6. \A f, g \in L : f < g <=> N(g) < N(f)
  BY NumbersOrdered
<1> HIDE DEF N, a, b
<1>7. a <= N(e) /\ b <= N(e)
  BY <1>1, <1>2, <1>3
<1>8. PICK q \in L : N(q) = a
  BY <1>1, <1>7, EveryNumber DEF N
<1>9. PICK t \in L : N(t) = b
  BY <1>1, <1>7, EveryNumber DEF N
<1>10. q >= s /\ q \in Nat /\ e <= q
  <2>1. ~(N(e) < N(q))
    BY <1>1, <1>2, <1>7, <1>8
  <2> QED BY <1>2, <1>6, <2>1
<1>11. PageIn(L, q) = p + 1
  BY <1>1, <1>2, <1>3, <1>5, <1>8
<1>12. q \in PageFrom(L, s, p + 1)
  BY <1>10, <1>11 DEF PageFrom
<1>13. Later(L, q) \ Later(L, t) \in SUBSET PageFrom(L, s, p)
  <2> SUFFICES ASSUME NEW f \in L, f > q, ~(f > t) PROVE f >= s /\ PageIn(L, f) = p
    BY DEF Later, PageFrom
  <2>1. N(f) < a /\ ~(N(f) < b)
    BY <1>6, <1>8, <1>9, <1>2
  <2> QED BY <1>2, <1>3, <1>4, <1>10, <2>1
<1>14. Later(L, t) \subseteq Later(L, q)
  <2>1. q < t
    BY <1>1, <1>6, <1>8, <1>9
  <2> QED BY <1>2, <2>1 DEF Later
<1>15. Cardinality(Later(L, q) \ Later(L, t)) = SyncPageSize
  <2>1. Later(L, q) \cap Later(L, t) = Later(L, t) /\ IsFiniteSet(Later(L, q))
    BY <1>14, LaterForm
  <2>2. Cardinality(Later(L, q) \ Later(L, t)) = N(q) - N(t)
    BY <2>1, FS_Difference DEF N
  <2> QED BY <1>1, <1>8, <1>9, <2>2
<1>16. IsFiniteSet(PageFrom(L, s, p))
  <2>1. PageFrom(L, s, p) \in SUBSET Sync!Usage
    BY DEF PageFrom
  <2> QED BY <2>1, UsageForm, FS_Subset
<1>17. SyncPageSize <= Cardinality(PageFrom(L, s, p))
  BY <1>13, <1>15, <1>16, FS_Subset
<1>18. Cardinality(PageFrom(L, s, p)) \in Nat
  BY <1>16, FS_CardinalityType
<1> QED BY <1>1, <1>12, <1>17, <1>18

\* The instance has its own name for what FiniteSets defines.
LEMMA SameCardinality == \A S : Sync!Cardinality(S) = Cardinality(S)
BY DEF Sync!Cardinality, Cardinality

\* The dashboard's pages, and what it may answer of the last.
LEMMA UntilForm ==
    ASSUME Sync!SyncAssumption, NEW L, L \subseteq Sync!Usage
    PROVE  /\ \A end : Until(L, end) \subseteq L /\ Until(L, end) \subseteq Sync!Usage
           /\ Until(L, Sync!Never) = L
BY UsageForm DEF Until

LEMMA PageForm ==
    ASSUME Sync!SyncAssumption, listed \subseteq Sync!Usage, NEW s \in Nat, NEW p, NEW end \in Nat
    PROVE  Sync!Page(p, s, end) = PageFrom(Until(listed, end), s, p)
<1> DEFINE U == Until(listed, end)
<1>1. Sync!Window(s, end) = {e \in U : e >= s}
  BY DEF Sync!Window, Until
<1>2. \A e \in U : e >= s => Sync!PageOf(e, s, end) = PageIn(U, e)
  <2> TAKE e \in U
  <2> SUFFICES ASSUME e >= s PROVE Sync!PageOf(e, s, end) = PageIn(U, e)
    OBVIOUS
  <2>1. \A f \in U : f \in Nat
    BY UsageForm, UntilForm
  <2>2. {f \in Sync!Window(s, end) : f > e} = Later(U, e)
    <3> HIDE DEF U
    <3> QED BY <1>1, <2>1 DEF Later
  <2> QED BY <2>2, SameCardinality DEF Sync!PageOf, Sync!Before, PageIn
<1> QED BY <1>1, <1>2 DEF Sync!Page, PageFrom

LEMMA EndsForm ==
    ASSUME Sync!SyncAssumption, listed \subseteq Sync!Usage,
           NEW w, walk[w].page \in Nat \ {0}, walk[w].start \in Nat, walk[w].end \in Nat,
           NEW complete \in Sync!Ends(w)
    PROVE  /\ complete \in BOOLEAN
           /\ complete =>
                 \A e \in Until(listed, walk[w].end) :
                     e >= walk[w].start => PageIn(Until(listed, walk[w].end), e) <= walk[w].page
<1> DEFINE s == walk[w].start
           p == walk[w].page
           U == Until(listed, walk[w].end)
           evs == Sync!Page(p, s, walk[w].end)
           rest == Sync!Page(p + 1, s, walk[w].end)
<1>0. U \subseteq Sync!Usage
  BY UntilForm
<1>1. complete \in IF Cardinality(evs) < SyncPageSize THEN {TRUE}
                   ELSE IF rest = {} THEN BOOLEAN ELSE {FALSE}
  <2>1. complete \in IF Sync!Cardinality(evs) < SyncPageSize THEN {TRUE}
                     ELSE IF rest = {} THEN BOOLEAN ELSE {FALSE}
    BY Zenon DEF Sync!Ends
  <2>2. Sync!Cardinality(evs) = Cardinality(evs)
    BY SameCardinality
  <2> HIDE DEF evs, rest
  <2> QED BY <2>1, <2>2
<1>2. complete \in BOOLEAN
  BY <1>1
<1>3. evs = PageFrom(U, s, p) /\ rest = PageFrom(U, s, p + 1)
  BY PageForm
<1> HIDE DEF U, evs, rest
<1>4. ASSUME complete, NEW e \in U, e >= s PROVE PageIn(U, e) <= p
  <2> SUFFICES ASSUME PageIn(U, e) > p PROVE FALSE
    BY <1>0, LaterForm
  <2>1. Cardinality(PageFrom(U, s, p)) >= SyncPageSize /\ PageFrom(U, s, p + 1) # {}
    BY <1>0, <1>4, FullPage
  <2>2. Cardinality(PageFrom(U, s, p)) \in Nat /\ SyncPageSize \in Nat
    <3>1. PageFrom(U, s, p) \in SUBSET Sync!Usage
      BY <1>0 DEF PageFrom
    <3> QED BY <3>1, UsageForm, FS_Subset, FS_CardinalityType
  <2>3. ~(Cardinality(evs) < SyncPageSize) /\ rest # {}
    BY <1>3, <2>1, <2>2
  <2>4. complete \in {FALSE}
    BY <1>1, <2>3
  <2> QED BY <1>4, <2>4
<1> QED BY <1>2, <1>4 DEF U

-----------------------------------------------------------------------------
(* How the steps of a walk change its record.                              *)

Paged(x, more, complete) ==
    [x EXCEPT !.got = more, !.todo = more, !.complete = complete, !.page = @ + 1, !.left = @ - 1]
ToPost(x, new, step) == [x EXCEPT !.kind = "local", !.got = new, !.todo = new, !.step = step]
Posted(x, rest, step) == [x EXCEPT !.todo = rest, !.step = step]

LEMMA PagedRec ==
    ASSUME NEW x \in WalkRec, NEW more \in SUBSET Sync!Usage, NEW complete \in BOOLEAN,
           NEW y, y = Paged(x, more, complete)
    PROVE  /\ y \in WalkRec
           /\ y.mode = x.mode /\ y.basis = x.basis /\ y.start = x.start /\ y.end = x.end
           /\ y.kind = x.kind /\ y.step = x.step /\ y.page = x.page + 1
           /\ y.got = more /\ y.todo = more /\ y.complete = complete
<1> DEFINE a == [x EXCEPT !.got = more]
           b == [a EXCEPT !.todo = more]
           c == [b EXCEPT !.complete = complete]
           d == [c EXCEPT !.page = x.page + 1]
           e == [d EXCEPT !.left = x.left - 1]
<1>1. a \in WalkRec /\ b \in WalkRec
  BY DEF WalkRec
<1>2. x.page + 1 \in Nat /\ x.left - 1 \in Int
  BY DEF WalkRec
<1>3. c \in WalkRec /\ d \in WalkRec
  <2> HIDE DEF a, b
  <2>1. c \in WalkRec
    BY <1>1 DEF WalkRec
  <2> HIDE DEF c
  <2> QED BY <1>2, <2>1 DEF WalkRec
<1>4. e \in WalkRec
  <2> HIDE DEF d
  <2> QED BY <1>2, <1>3 DEF WalkRec
<1>5. e = y
  BY DEF Paged, WalkRec
<1>6. /\ y.mode = x.mode /\ y.basis = x.basis /\ y.start = x.start /\ y.end = x.end
      /\ y.kind = x.kind /\ y.step = x.step /\ y.page = x.page + 1
      /\ y.got = more /\ y.todo = more
  BY DEF Paged, WalkRec
<1>7. y.complete = complete
  BY DEF Paged, WalkRec
<1> HIDE DEF e
<1> QED BY <1>4, <1>5, <1>6, <1>7

LEMMA LocalRec ==
    ASSUME NEW x \in WalkRec, NEW new \in SUBSET Sync!Usage, NEW step \in {"save", "post"},
           NEW y, y = ToPost(x, new, step)
    PROVE  /\ y \in WalkRec
           /\ y.step = step /\ y.kind = "local" /\ y.basis = x.basis /\ y.got = new
           /\ y.todo = new /\ y.mode = x.mode
BY DEF ToPost, WalkRec

LEMMA PostedRec ==
    ASSUME NEW x \in WalkRec, NEW rest \in SUBSET Sync!Usage, NEW step \in {"save", "post"},
           NEW y, y = Posted(x, rest, step)
    PROVE  /\ y \in WalkRec
           /\ y.step = step /\ y.mode = x.mode /\ y.basis = x.basis /\ y.start = x.start
           /\ y.page = x.page /\ y.got = x.got /\ y.todo = rest /\ y.complete = x.complete
           /\ y.kind = x.kind /\ y.end = x.end
BY DEF Posted, WalkRec
-----------------------------------------------------------------------------
\* A walk is its fields.
LEMMA WalkFields ==
    ASSUME NEW x \in WalkRec
    PROVE  x = [step |-> x.step, mode |-> x.mode, basis |-> x.basis, start |-> x.start,
                end |-> x.end, page |-> x.page, left |-> x.left, got |-> x.got, todo |-> x.todo,
                complete |-> x.complete, kind |-> x.kind, session |-> x.session,
                refresh |-> x.refresh, refreshed |-> x.refreshed]
BY DEF WalkRec

-----------------------------------------------------------------------------
(* What stays true while events are listed and rows inserted.              *)

LEMMA PageGrows ==
    ASSUME Sync!SyncAssumption,
           NEW L, L \subseteq Sync!Usage, NEW M, M \subseteq L, NEW e \in Sync!Usage
    PROVE  PageIn(M, e) <= PageIn(L, e)
<1>1. e \in Nat /\ e <= e
  BY UsageForm
<1> QED BY <1>1, PagesOrdered

LEMMA PassedGrows ==
    ASSUME Sync!SyncAssumption,
           NEW L, NEW L2, L \subseteq L2, L2 \subseteq Sync!Usage, NEW C, NEW C2, C \subseteq C2,
           NEW time \in Nat, \A e \in L2 \ L : time <= e + OVERLAP,
           NEW x \in WalkRec, x.got \subseteq 1 .. time, x.basis.cloud.last <= time,
           WalkPassed(x, L, C)
    PROVE  WalkPassed(x, L2, C2)
<1> DEFINE U == Asked(x, L)
           V == Asked(x, L2)
<1>0. U \subseteq V /\ V \subseteq Sync!Usage /\ V \ U \subseteq L2 \ L
  BY DEF Asked, Until
<1> SUFFICES ASSUME NEW e \in V, e >= x.start, x.complete \/ PageIn(V, e) < x.page,
                    e \notin x.got \cup C2, NEW f \in x.got \cup {x.basis.cloud.last}
             PROVE  Recent(e, f)
  BY DEF WalkPassed
<1>1. /\ e \in Nat /\ OVERLAP \in Nat
      /\ e \in U /\ (x.complete \/ PageIn(U, e) < x.page) => Recent(e, f)
  BY <1>0, UsageForm DEF WalkPassed
<1> HIDE DEF U, V
<1>2. x.basis.cloud.last \in Nat /\ x.page \in Nat
  BY DEF WalkRec, StateRec, CloudRec
<1>3. f \in Nat /\ f <= time
  BY <1>2
<1>4. CASE e \in U
  <2>1. PageIn(U, e) <= PageIn(V, e)
    BY <1>0, PageGrows
  <2>2. PageIn(U, e) \in Nat /\ PageIn(V, e) \in Nat
    BY <1>0, LaterForm
  <2>3. x.complete \/ PageIn(U, e) < x.page
    BY <1>2, <2>1, <2>2
  <2> QED BY <1>1, <1>4, <2>3
<1>5. CASE e \notin U
  BY <1>0, <1>1, <1>3, <1>5 DEF Recent
<1> QED BY <1>4, <1>5

LEMMA GoodGrows ==
    ASSUME Sync!SyncAssumption,
           NEW L, NEW L2, L \subseteq L2, L2 \subseteq Sync!Usage, NEW C, NEW C2, C \subseteq C2,
           NEW time \in Nat, NEW m \in Nat, time <= m, \A e \in L2 \ L : time <= e + OVERLAP,
           NEW c \in CloudRec, Good(c, L, C, time)
    PROVE  Good(c, L2, C2, m)
<1>1. c.last \in Nat /\ c.page \in Nat /\ c.last <= time
  BY DEF CloudRec, Good
<1>2. \A e \in L2 \ L : Recent(e, c.last)
  BY <1>1, UsageForm DEF Recent
<1>3. Settled(c, L2, C2)
  <2>1. ASSUME NEW e \in L, PageIn(L, e) >= c.page PROVE PageIn(L2, e) >= c.page
    <3>1. PageIn(L, e) <= PageIn(L2, e)
      BY PageGrows
    <3>2. PageIn(L, e) \in Nat /\ PageIn(L2, e) \in Nat
      BY LaterForm
    <3> QED BY <1>1, <2>1, <3>1, <3>2
  <2> QED BY <1>2, <2>1 DEF Settled, Good
<1>4. ResumeOK(c, L2, C2)
  <2> SUFFICES ASSUME c.page # 0, c.start = 0
               PROVE  /\ c.last > 0
                      /\ \A e \in L2 : PageIn(L2, e) < c.page => Recent(e, c.last) \/ e \in C2
    BY DEF ResumeOK
  <2>1. ASSUME NEW e \in L, PageIn(L2, e) < c.page PROVE PageIn(L, e) < c.page
    <3>1. PageIn(L, e) <= PageIn(L2, e)
      BY PageGrows
    <3>2. PageIn(L, e) \in Nat /\ PageIn(L2, e) \in Nat
      BY LaterForm
    <3> QED BY <1>1, <2>1, <3>1, <3>2
  <2> QED BY <1>2, <2>1 DEF Good, ResumeOK
<1> QED BY <1>1, <1>3, <1>4 DEF Good

LEMMA WalkGrows ==
    ASSUME Sync!SyncAssumption,
           NEW L, NEW L2, L \subseteq L2, L2 \subseteq Sync!Usage, NEW C, NEW C2, C \subseteq C2,
           NEW time \in Nat, NEW m \in Nat, time <= m, \A e \in L2 \ L : time <= e + OVERLAP,
           NEW w, NEW x \in WalkRec, WalkOK(w, x, L, C, time)
    PROVE  WalkOK(w, x, L2, C2, m)
<1>1. x.basis.cloud \in CloudRec /\ x.basis.cloud.last \in Nat
  BY DEF WalkRec, StateRec, CloudRec
<1>2. x.basis.cloud.last <= time /\ x.got \subseteq 1 .. time
  BY DEF WalkOK
<1>3. x.basis.cloud.last <= m /\ x.got \subseteq 1 .. m
  BY <1>1, <1>2
<1>4. w = "daemon" \/ x.mode = "month" => Good(x.basis.cloud, L2, C2, m)
  BY <1>1, GoodGrows DEF WalkOK
<1>5. ASSUME InWalk(x) PROVE Walking(x, L2, C2)
  <2>1. Walking(x, L, C)
    BY <1>5 DEF WalkOK
  <2>2. Matters(x) => WalkPassed(x, L2, C2)
    BY <1>2, <2>1, PassedGrows DEF Walking
  <2>3. FromWindow(x, C2) /\ x.got \subseteq Asked(x, L2)
    BY <2>1 DEF Walking, FromWindow, Asked, Until
  <2> QED BY <2>1, <2>2, <2>3 DEF Walking
<1> QED BY <1>3, <1>4, <1>5 DEF WalkOK

-----------------------------------------------------------------------------
(* Where a walk starts and what it saves.                                  *)

LEMMA MaxWith ==
    ASSUME Sync!SyncAssumption, NEW S, S \subseteq Sync!Usage, NEW t \in Nat
    PROVE  /\ Sync!Max(S \cup {t}) \in S \cup {t} /\ Sync!Max(S \cup {t}) \in Nat
           /\ \A x \in S \cup {t} : x <= Sync!Max(S \cup {t})
<1>1. S \cup {t} \subseteq Nat /\ S \cup {t} # {}
  BY UsageForm
<1>2. MaxTime + t \in Nat /\ \A x \in S \cup {t} : x <= MaxTime + t
  BY UsageForm
<1> QED BY <1>1, <1>2, MaxForm

LEMMA StartForm ==
    ASSUME Sync!SyncAssumption, NEW c \in CloudRec, c.last > 0
    PROVE  LET s == Sync!computeCursorSyncStartDate(c, "incremental")
           IN  /\ s \in Nat
               /\ c.page # 0 => s = c.start
               /\ c.page = 0 => s = 0 \/ s + OVERLAP = c.last
<1>1. c.last \in Nat /\ c.start \in Nat /\ c.page \in Nat /\ OVERLAP \in Nat
  BY UsageForm DEF CloudRec
<1> DEFINE s == Sync!computeCursorSyncStartDate(c, "incremental")
           k == c.last - OVERLAP
<1>2. s = IF c.page # 0 THEN c.start ELSE Sync!Max({0, k})
  BY DEF Sync!computeCursorSyncStartDate
<1>3. k \in Int
  BY <1>1
<1>4. Sync!Max({0, k}) \in {0, k} /\ Sync!Max({0, k}) >= 0
  <2> DEFINE S == {0, k}
  <2>1. \E x \in S : \A y \in S : x >= y
    BY <1>3
  <2> HIDE DEF S
  <2>2. Sync!Max(S) \in S /\ \A y \in S : Sync!Max(S) >= y
    BY <2>1 DEF Sync!Max
  <2> QED BY <2>2 DEF S
<1> HIDE DEF s
<1>5. Sync!Max({0, k}) \in Nat
  BY <1>3, <1>4
<1>6. k + OVERLAP = c.last
  BY <1>1
<1>7. s \in Nat /\ (c.page # 0 => s = c.start) /\ (c.page = 0 => s = 0 \/ s + OVERLAP = c.last)
  BY <1>1, <1>2, <1>4, <1>5, <1>6
<1> QED BY <1>7 DEF s

\* What the next window begins after is kept.
LEMMA BehindKept ==
    ASSUME Sync!SyncAssumption, NEW L, L \subseteq Sync!Usage, NEW C, NEW time \in Nat, Late(L, time),
           NEW c \in CloudRec, c.done, Good(c, L, C, time), NEW e \in Sync!Usage,
           e < Sync!computeCursorSyncStartDate(c, "incremental")
    PROVE  e \in C
<1> DEFINE s == Sync!computeCursorSyncStartDate(c, "incremental")
<1>1. /\ c.last > 0 /\ c.last <= time /\ c.last \in Nat
      /\ c.page = 0 => \A f \in L : Recent(f, c.last) \/ f \in C
      /\ c.page # 0 => \A f \in Sync!Usage : f < c.start => f \in C
  BY DEF Good, Settled, CloudRec
<1>2. s \in Nat /\ (c.page # 0 => s = c.start) /\ (c.page = 0 => s = 0 \/ s + OVERLAP = c.last)
  BY <1>1, StartForm
<1>3. e \in Nat \ {0} /\ OVERLAP \in Nat /\ e < s
  BY UsageForm
<1> HIDE DEF s
<1>4. CASE c.page # 0
  BY <1>1, <1>2, <1>3, <1>4
<1>5. CASE c.page = 0
  <2>1. e + OVERLAP < c.last
    BY <1>1, <1>2, <1>3, <1>5
  <2>2. e \in 1 .. time /\ ~(time <= e + OVERLAP)
    BY <1>1, <1>3, <2>1
  <2>3. e \in L
    BY <2>2 DEF Late
  <2>4. ~Recent(e, c.last)
    BY <1>1, <1>3, <2>1 DEF Recent
  <2> QED BY <1>1, <1>5, <2>3, <2>4
<1> QED BY <1>4, <1>5

LEMMA StartedForm ==
    ASSUME Sync!SyncAssumption,
           now \in Sync!Usage, token \in Sync!SessionType, NEW basis \in StateRec,
           NEW mode \in {"full", "month", "incremental"}, NEW pages \in Int, NEW credentials,
           mode = "incremental" => basis.cloud.last > 0,
           NEW x, x = Sync!StartWalk(basis, mode, pages, credentials)
    PROVE  /\ x \in WalkRec
           /\ x.step = "page" /\ x.kind = "cloud" /\ x.mode = mode /\ x.basis = basis
           /\ x.start = Sync!computeCursorSyncStartDate(basis.cloud, mode)
           /\ x.page = Sync!ResumePage(basis.cloud, x.start) /\ x.page > 0
           /\ x.got = {} /\ x.todo = {} /\ ~x.complete
           /\ x.end = IF mode = "month" THEN now ELSE Sync!Never
<1> DEFINE s == Sync!computeCursorSyncStartDate(basis.cloud, mode)
           g == Sync!ResumePage(basis.cloud, s)
           fits == (credentials = "fits")
           until == IF mode = "month" THEN now ELSE Sync!Never
<1>1. basis.cloud \in CloudRec
  BY DEF StateRec
<1>2. s \in Nat
  <2>1. CASE mode = "incremental"
    BY <1>1, <2>1, StartForm
  <2>2. CASE mode # "incremental"
    BY <2>2, UsageForm DEF Sync!computeCursorSyncStartDate, Sync!SyncAssumption
  <2> QED BY <2>1, <2>2
<1>3. g \in Nat /\ g > 0
  BY <1>1 DEF Sync!ResumePage, CloudRec
<1>4. fits \in BOOLEAN
  OBVIOUS
<1>5. until \in Nat
  BY UsageForm
<1>6. x = [step |-> "page", mode |-> mode, basis |-> basis, start |-> s, end |-> until,
           page |-> g, left |-> pages, got |-> {}, todo |-> {}, complete |-> FALSE,
           kind |-> "cloud", session |-> token, refresh |-> fits, refreshed |-> "none"]
  BY DEF Sync!StartWalk, Sync!Idle
<1> HIDE DEF s, g, fits, until
<1>7. x \in WalkRec
  <2>1. "none" \in Sync!SessionType
    BY DEF Sync!SessionType
  <2> QED BY <1>2, <1>3, <1>4, <1>5, <1>6, <2>1 DEF WalkRec
<1>8. /\ x.step = "page" /\ x.kind = "cloud" /\ x.mode = mode /\ x.basis = basis
      /\ x.start = s /\ x.page = g /\ x.got = {} /\ x.todo = {} /\ ~x.complete
      /\ x.end = until
  BY <1>6
<1> QED BY <1>3, <1>7, <1>8 DEF s, g, until

LEMMA Started ==
    ASSUME Sync!SyncAssumption,
           now \in Sync!Usage, token \in Sync!SessionType, NEW basis \in StateRec,
           NEW mode \in {"full", "month", "incremental"}, NEW pages \in Int, NEW credentials,
           NEW w \in Sync!Processes, NEW L, NEW C, L \subseteq 1 .. now, Late(L, now),
           basis.cloud.last <= now,
           w = "daemon" \/ mode = "month" => Good(basis.cloud, L, C, now),
           mode = "full" => ResumeOK(basis.cloud, L, C) /\ (w = "daemon" => ~basis.cloud.done),
           mode = "incremental" => w = "daemon" /\ basis.cloud.done,
           mode = "month" => w = "cli",
           NEW x, x = Sync!StartWalk(basis, mode, pages, credentials)
    PROVE  x \in WalkRec /\ WalkOK(w, x, L, C, now)
<1> DEFINE c == basis.cloud
           s == Sync!computeCursorSyncStartDate(c, mode)
<1>0. L \subseteq Sync!Usage /\ now \in Nat /\ Sync!Never \in Nat /\ now <= Sync!Never
  BY UsageForm DEF Sync!Usage
<1>1. c \in CloudRec /\ c.last \in Nat /\ c.page \in Nat /\ c.start \in Nat
  BY DEF StateRec, CloudRec
<1>2. mode = "incremental" => Settled(c, L, C) /\ c.done /\ c.last > 0
  BY DEF Good, Settled
<1>3. /\ x \in WalkRec
      /\ x.step = "page" /\ x.kind = "cloud" /\ x.mode = mode /\ x.basis = basis
      /\ x.start = s /\ x.page = Sync!ResumePage(c, s) /\ x.page > 0
      /\ x.got = {} /\ x.todo = {} /\ ~x.complete
      /\ x.end = IF mode = "month" THEN now ELSE Sync!Never
  <2>1. mode = "incremental" => basis.cloud.last > 0
    BY <1>2
  <2> QED BY <2>1, StartedForm
<1>4. /\ mode = "full" => s = 0
      /\ mode = "month" => s > 0
      /\ mode = "incremental" => \A e \in Sync!Usage : e < s => e \in C
  <2>1. CASE mode = "full"
    BY <2>1 DEF Sync!computeCursorSyncStartDate
  <2>2. CASE mode = "month"
    BY <2>2, UsageForm DEF Sync!computeCursorSyncStartDate, Sync!SyncAssumption
  <2>3. CASE mode = "incremental"
    BY <1>0, <1>1, <1>2, <2>3, BehindKept
  <2> QED BY <2>1, <2>2, <2>3
<1> HIDE DEF s
<1>5. FromWindow(x, C)
  BY <1>2, <1>3, <1>4 DEF FromWindow
<1>6. Asked(x, L) = L /\ c.last <= x.end
  <2>1. \A e \in L : e <= x.end
    BY <1>0, <1>3
  <2>2. Asked(x, L) = L
    BY <2>1 DEF Asked, Until
  <2>3. c.last <= x.end
    BY <1>0, <1>1, <1>3
  <2> QED BY <2>2, <2>3
<1>7. ASSUME Matters(x) PROVE WalkPassed(x, L, C)
  <2> SUFFICES ASSUME NEW e \in L, PageIn(L, e) < x.page PROVE Recent(e, c.last) \/ e \in C
    BY <1>3, <1>6 DEF WalkPassed
  <2>1. PageIn(L, e) \in Nat \ {0}
    BY <1>0, LaterForm
  <2>2. x.page # 1
    BY <2>1
  <2>3. c.page # 0 /\ c.start = s /\ x.page = c.page
    BY <1>3, <2>2 DEF Sync!ResumePage
  <2>4. CASE mode = "full"
    BY <1>4, <2>3, <2>4 DEF ResumeOK
  <2>5. CASE mode # "full"
    <3>1. Settled(c, L, C) /\ c.done
      BY <1>2, <1>3, <1>7, <2>5 DEF Matters, Good
    <3>2. ~(PageIn(L, e) >= c.page)
      BY <1>1, <2>1, <2>3
    <3> QED BY <3>1, <3>2 DEF Settled
  <2> QED BY <2>4, <2>5
<1>8. ASSUME mode # "month" PROVE x.page = 1 \/ c.last > 0
  <2>1. CASE mode = "full"
    BY <1>3, <1>4, <2>1 DEF Sync!ResumePage, ResumeOK
  <2>2. CASE mode = "incremental"
    BY <1>2, <2>2
  <2> QED BY <1>8, <2>1, <2>2
<1>9. Walking(x, L, C)
  BY <1>3, <1>5, <1>6, <1>7, <1>8 DEF Walking
<1>10. x.basis.cloud.last <= now /\ (w = "daemon" \/ x.mode = "month" => Good(x.basis.cloud, L, C, now))
  BY <1>3
<1>11. /\ w = "cli" => x.mode # "incremental" /\ x.kind # "local" /\ x.step # "local"
       /\ w = "daemon" => x.mode # "month" /\ x.kind # "login"
  BY <1>3
<1> QED BY <1>3, <1>9, <1>10, <1>11 DEF WalkOK

-----------------------------------------------------------------------------
(* A page more.                                                            *)

\* x before, y after the page of the window that x is at.
PageMore(x, y, complete) ==
    /\ y.mode = x.mode /\ y.basis = x.basis /\ y.start = x.start /\ y.end = x.end
    /\ y.kind = x.kind /\ y.page = x.page + 1 /\ y.complete = complete
    /\ y.got = x.got \cup Sync!Page(x.page, x.start, x.end) /\ y.todo = y.got

LEMMA PageMorePassed ==
    ASSUME Sync!SyncAssumption, listed \subseteq Sync!Usage, NEW w, NEW x \in WalkRec, x = walk[w],
           x.page > 0, NEW C, WalkPassed(x, listed, C), ~x.complete,
           NEW complete \in Sync!Ends(w), NEW y \in WalkRec, PageMore(x, y, complete)
    PROVE  WalkPassed(y, listed, C)
<1> DEFINE U == Asked(x, listed)
<1>0. U \subseteq Sync!Usage /\ U = Until(listed, x.end)
  BY DEF Asked, Until
<1>1. /\ y.start = x.start /\ y.basis = x.basis /\ y.complete = complete /\ y.page = x.page + 1
      /\ y.got = x.got \cup Sync!Page(x.page, x.start, x.end) /\ Asked(y, listed) = U
  BY DEF PageMore, Asked
<1>2. x.page \in Nat \ {0} /\ x.start \in Nat /\ x.end \in Nat /\ x.basis.cloud.last \in Nat
  BY DEF WalkRec, StateRec, CloudRec
<1>3. Sync!Page(x.page, x.start, x.end) = PageFrom(U, x.start, x.page)
  BY <1>0, <1>2, PageForm
<1>4. complete => \A e \in U : e >= x.start => PageIn(U, e) <= x.page
  BY <1>0, <1>2, EndsForm
<1> SUFFICES ASSUME NEW e \in U, e >= x.start, complete \/ PageIn(U, e) < x.page + 1,
                    e \notin y.got \cup C
             PROVE  \A f \in y.got \cup {x.basis.cloud.last} : Recent(e, f)
  BY <1>1 DEF WalkPassed
<1>5. PageIn(U, e) \in Nat \ {0} /\ e \in Nat /\ OVERLAP \in Nat
  BY <1>0, UsageForm, LaterForm
<1>6. PageIn(U, e) <= x.page
  BY <1>2, <1>4, <1>5
<1>7. PageIn(U, e) # x.page
  BY <1>1, <1>3 DEF PageFrom
<1>8. PageIn(U, e) < x.page
  BY <1>2, <1>5, <1>6, <1>7
<1>9. \A f \in x.got \cup {x.basis.cloud.last} : Recent(e, f)
  BY <1>1, <1>8 DEF WalkPassed
<1> HIDE DEF U
<1>10. ASSUME NEW f \in PageFrom(U, x.start, x.page) PROVE Recent(e, f)
  <2>1. f \in U /\ f \in Nat /\ PageIn(U, f) = x.page
    BY <1>0, <1>10, UsageForm DEF PageFrom
  <2>2. ~(e <= f)
    <3> SUFFICES ASSUME e <= f PROVE FALSE
      OBVIOUS
    <3>1. PageIn(U, f) <= PageIn(U, e)
      BY <1>0, <1>5, <2>1, PagesOrdered
    <3> QED BY <1>2, <1>5, <1>8, <2>1, <3>1
  <2> QED BY <1>5, <2>1, <2>2 DEF Recent
<1> QED BY <1>1, <1>3, <1>9, <1>10

LEMMA PageMoreOK ==
    ASSUME Sync!SyncAssumption, now \in Sync!Usage, listed \subseteq 1 .. now, 1 \in listed,
           NEW w \in Sync!Processes, NEW x \in WalkRec, x = walk[w],
           x.step = "page", WalkOK(w, x, listed, Kept, now),
           NEW complete \in Sync!Ends(w), NEW y \in WalkRec, PageMore(x, y, complete),
           y.step = "token" \/ (y.step = "page" /\ ~complete)
    PROVE  WalkOK(w, y, listed, Kept, now)
<1>1. /\ y.mode = x.mode /\ y.basis = x.basis /\ y.start = x.start /\ y.end = x.end
      /\ y.kind = x.kind /\ y.page = x.page + 1 /\ y.complete = complete
      /\ y.got = x.got \cup Sync!Page(x.page, x.start, x.end) /\ y.todo = y.got
  BY DEF PageMore
<1>2. listed \subseteq Sync!Usage
  BY UsageForm DEF Sync!Usage
<1>3. x.kind = "cloud"
  BY DEF WalkOK, WalkRec
<1>4. Walking(x, listed, Kept)
  BY <1>3 DEF WalkOK, InWalk
<1>5. /\ x.page \in Nat \ {0} /\ x.start \in Nat /\ x.end \in Nat
      /\ x.got \subseteq Asked(x, listed) /\ ~x.complete
      /\ x.mode # "month" => x.end = Sync!Never
  BY <1>4 DEF Walking, WalkRec
<1>6. /\ Sync!Page(x.page, x.start, x.end) \subseteq Asked(x, listed)
      /\ Asked(x, listed) \subseteq listed /\ Asked(y, listed) = Asked(x, listed)
  BY <1>1 DEF Sync!Page, Sync!Window, Asked, Until
<1>7. Matters(y) => WalkPassed(y, listed, Kept)
  <2>1. Matters(y) = Matters(x)
    BY <1>1 DEF Matters
  <2> QED BY <1>2, <1>4, <1>5, <2>1, PageMorePassed DEF Walking
<1>8. ASSUME x.mode # "month" PROVE y.got # {} \/ y.basis.cloud.last > 0
  <2>1. CASE x.page = 1 /\ x.mode = "full"
    <3>1. x.start = 0
      BY <1>4, <2>1 DEF Walking, FromWindow
    <3>2. PICK m \in listed : PageIn(listed, m) = 1
      BY <1>2, FirstPage
    <3>3. m >= 0
      BY <1>2, UsageForm
    <3>4. m \in PageFrom(listed, x.start, x.page)
      BY <2>1, <3>1, <3>2, <3>3 DEF PageFrom
    <3>5. Sync!Page(x.page, x.start, x.end) = PageFrom(listed, x.start, x.page)
      <4>1. x.end = Sync!Never /\ Until(listed, Sync!Never) = listed
        BY <1>2, <1>5, <1>8, UntilForm
      <4>2. Sync!Page(x.page, x.start, x.end) = PageFrom(Until(listed, x.end), x.start, x.page)
        BY <1>2, <1>5, PageForm
      <4> QED BY <4>1, <4>2
    <3> QED BY <1>1, <3>4, <3>5
  <2>2. CASE x.mode = "incremental"
    <3>1. w = "daemon"
      BY <2>2 DEF WalkOK, Sync!Processes
    <3>2. Settled(x.basis.cloud, listed, Kept) /\ x.basis.cloud.done
      BY <1>4, <2>2, <3>1 DEF WalkOK, Good, Walking, FromWindow
    <3> QED BY <1>1, <3>2 DEF Settled
  <2>3. CASE x.page # 1
    BY <1>1, <1>4, <1>8, <2>3 DEF Walking
  <2>4. x.mode \in {"full", "incremental"}
    BY <1>8 DEF WalkRec
  <2> QED BY <2>1, <2>2, <2>3, <2>4
<1>9. FromWindow(y, Kept)
  BY <1>1, <1>4 DEF Walking, FromWindow
<1>10. Walking(y, listed, Kept)
  BY <1>1, <1>4, <1>5, <1>6, <1>7, <1>8, <1>9 DEF Walking
<1>11. y.got \subseteq 1 .. now
  BY <1>1, <1>5, <1>6
<1>12. w = "daemon" /\ y.mode = "full" => ~y.basis.cloud.done
  BY <1>1, <1>3 DEF WalkOK, InWalk
<1> QED BY <1>1, <1>3, <1>10, <1>11, <1>12 DEF WalkOK

LEMMA FetchedOK ==
    ASSUME NEW w, NEW x \in WalkRec, NEW L, NEW C, NEW time, WalkOK(w, x, L, C, time),
           InWalk(x), x.step \in {"token", "creds", "unlink"},
           NEW y, y = Sync!Fetched(x)
    PROVE  y \in WalkRec /\ WalkOK(w, y, L, C, time)
<1> DEFINE step == IF x.got = {} THEN "save" ELSE "post"
           next == IF x.complete THEN 0 ELSE x.page
<1>1. /\ y \in WalkRec
      /\ y.step = step /\ y.mode = x.mode /\ y.basis = x.basis /\ y.start = x.start
      /\ y.page = next /\ y.got = x.got /\ y.todo = x.todo /\ y.complete = x.complete
      /\ y.kind = x.kind /\ y.end = x.end
  <2>1. y = [step |-> step, mode |-> x.mode, basis |-> x.basis, start |-> x.start,
             end |-> x.end, page |-> next, left |-> 0, got |-> x.got, todo |-> x.todo,
             complete |-> x.complete, kind |-> x.kind, session |-> "none",
             refresh |-> FALSE, refreshed |-> "none"]
    BY DEF Sync!Fetched, WalkRec
  <2> HIDE DEF step, next
  <2>2. /\ y.step = step /\ y.mode = x.mode /\ y.basis = x.basis /\ y.start = x.start
        /\ y.page = next /\ y.got = x.got /\ y.todo = x.todo /\ y.complete = x.complete
        /\ y.kind = x.kind /\ y.end = x.end
    BY <2>1
  <2>3. step \in {"save", "post"} /\ next \in Nat /\ "none" \in Sync!SessionType
    BY DEF step, next, Sync!SessionType, WalkRec
  <2>4. y \in WalkRec
    BY <2>1, <2>3 DEF WalkRec
  <2> QED BY <2>2, <2>4
<1>2. Walking(x, L, C) /\ x.kind = "cloud"
  BY DEF WalkOK, InWalk
<1>3. FromWindow(y, C) /\ Asked(y, L) = Asked(x, L)
  BY <1>1, <1>2 DEF Walking, FromWindow, Asked
<1>4. Matters(y) => WalkPassed(y, L, C)
  BY <1>1, <1>2, <1>3 DEF Walking, WalkPassed, Matters
<1>5. /\ x.got \subseteq Asked(x, L) /\ x.todo = x.got
      /\ x.mode # "month" => x.got # {} \/ x.basis.cloud.last > 0
  BY <1>2 DEF Walking
<1>6. Walking(y, L, C)
  BY <1>1, <1>2, <1>3, <1>4, <1>5 DEF Walking
<1> QED BY <1>1, <1>2, <1>6 DEF WalkOK

-----------------------------------------------------------------------------
(* What a save writes.                                                     *)

LEMMA SavedForm ==
    ASSUME Sync!SyncAssumption,
           now \in Nat, NEW x \in WalkRec, x.kind = "cloud", NEW s, s = Sync!NextState(x)
    PROVE  LET c == x.basis.cloud
           IN  /\ s \in StateRec
               /\ s.cloud.sync = now
               /\ s.cloud.last \in Nat /\ s.cloud.last \in x.got \cup {c.last}
               /\ s.cloud.last >= c.last
               /\ x.mode # "incremental" /\ x.got # {} => s.cloud.last > 0
               /\ x.mode = "incremental" /\ ~x.complete => s.cloud.last = c.last
               /\ s.cloud.done <=> (x.mode = "full" /\ x.complete) \/ c.done
               /\ s.cloud.page = IF x.complete THEN 0 ELSE x.page
               /\ s.cloud.start = IF x.complete THEN 0 ELSE x.start
<1> DEFINE c == x.basis.cloud
           top == IF x.mode = "incremental" /\ ~x.complete THEN c.last
                  ELSE Sync!Max(x.got \cup {c.last})
           done == (x.mode = "full" /\ x.complete) \/ c.done
           next == IF x.complete THEN 0 ELSE x.page
           start == IF x.complete THEN 0 ELSE x.start
<1>1. /\ x.basis \in StateRec /\ c \in CloudRec /\ c.last \in Nat /\ x.page \in Nat
      /\ x.start \in Nat /\ x.got \subseteq Sync!Usage
  BY DEF WalkRec, StateRec, CloudRec
<1>2. /\ top \in Nat /\ top \in x.got \cup {c.last} /\ top >= c.last
      /\ x.mode # "incremental" /\ x.got # {} => top > 0
  <2>1. CASE x.mode = "incremental" /\ ~x.complete
    BY <1>1, <2>1
  <2>2. CASE ~(x.mode = "incremental" /\ ~x.complete)
    <3>1. top = Sync!Max(x.got \cup {c.last})
      BY <2>2
    <3> HIDE DEF top, c
    <3>2. x.got \subseteq Sync!Usage /\ c.last \in Nat
      BY <1>1
    <3>3. top \in x.got \cup {c.last} /\ top \in Nat /\ \A f \in x.got \cup {c.last} : f <= top
      BY <3>1, <3>2, MaxWith
    <3>4. \A f \in x.got : f \in Nat /\ f > 0
      <4>1. \A f \in Sync!Usage : f \in Nat /\ f > 0
        BY UsageForm
      <4> QED BY <3>2, <4>1
    <3> QED BY <3>2, <3>3, <3>4
  <2> QED BY <2>1, <2>2
<1>3. done \in BOOLEAN
  BY Zenon
<1>4. s = [x.basis EXCEPT !.cloud = [last |-> top, sync |-> now, done |-> done,
                                     page |-> next, start |-> start]]
  BY DEF Sync!NextState, Sync!nextCursorCloudState
<1> HIDE DEF top, done, next, start
<1>5. next \in Nat /\ start \in Nat
  BY <1>1 DEF next, start
<1>6. s = [cloud |-> [last |-> top, sync |-> now, done |-> done, page |-> next, start |-> start],
           rowid |-> x.basis.rowid]
  BY <1>1, <1>4 DEF StateRec
<1>7. s \in StateRec
  BY <1>1, <1>2, <1>3, <1>5, <1>6 DEF StateRec, CloudRec
<1>8. /\ s.cloud.last = top /\ s.cloud.sync = now /\ s.cloud.page = next /\ s.cloud.start = start
  BY <1>6
<1>9. s.cloud.done = done
  BY <1>6
<1>10. s.cloud.done <=> (x.mode = "full" /\ x.complete) \/ c.done
  BY <1>9, Zenon DEF done
<1>11. x.mode = "incremental" /\ ~x.complete => top = c.last
  BY DEF top
<1> QED BY <1>2, <1>7, <1>8, <1>10, <1>11 DEF next, start

LEMMA SavedOK ==
    ASSUME Sync!SyncAssumption, now \in Sync!Usage, listed \subseteq 1 .. now, Late(listed, now),
           NEW w \in Sync!Processes, NEW x \in WalkRec, x.step = "save", x.kind = "cloud",
           NEW C, WalkOK(w, x, listed, C, now),
           x.mode = "month" /\ x.basis.cloud.done =>
               \A e \in Sync!Usage :
                   /\ e < x.start
                   /\ ~(e < Sync!computeCursorSyncStartDate(x.basis.cloud, "incremental"))
                   => e \in C,
           NEW s, s = Sync!NextState(x)
    PROVE  /\ s \in StateRec /\ s.cloud.last <= now
           /\ x.mode = "full" => ResumeOK(s.cloud, listed, C)
           /\ w = "daemon" \/ x.complete \/ x.mode = "month" => Good(s.cloud, listed, C, now)
<1> DEFINE c == x.basis.cloud
           t == s.cloud
           U == Asked(x, listed)
<1>1. /\ now \in Nat /\ listed \subseteq Sync!Usage /\ OVERLAP \in Nat
      /\ \A e \in Sync!Usage : e \in Nat \ {0}
  BY UsageForm DEF Sync!Usage
<1>2. /\ s \in StateRec
      /\ t.last \in Nat /\ t.last \in x.got \cup {c.last}
      /\ t.last >= c.last
      /\ x.mode # "incremental" /\ x.got # {} => t.last > 0
      /\ x.mode = "incremental" /\ ~x.complete => t.last = c.last
      /\ t.done <=> (x.mode = "full" /\ x.complete) \/ c.done
      /\ t.page = IF x.complete THEN 0 ELSE x.page
      /\ t.start = IF x.complete THEN 0 ELSE x.start
  BY <1>1, SavedForm
<1>3. c \in CloudRec /\ c.last \in Nat /\ x.page \in Nat /\ x.start \in Nat /\ x.end \in Nat
  BY DEF WalkRec, StateRec, CloudRec
<1>4. /\ c.last <= now /\ x.got \subseteq 1 .. now
      /\ Walking(x, listed, C)
      /\ w = "daemon" \/ x.mode = "month" => Good(c, listed, C, now)
      /\ w = "daemon" /\ x.mode = "full" => ~c.done
      /\ w = "cli" => x.mode # "incremental"
  BY DEF WalkOK, InWalk
<1>5. /\ FromWindow(x, C) /\ x.got \subseteq C
      /\ x.mode # "month" => x.got # {} \/ c.last > 0
      /\ Matters(x) => WalkPassed(x, listed, C)
      /\ ~x.complete => x.page > 0
  BY <1>4 DEF Walking
<1>6. /\ U \subseteq listed /\ U \subseteq Sync!Usage /\ \A e \in listed : e \in U \/ e > x.end
      /\ c.last <= x.end /\ x.got \subseteq U /\ \A e \in U : e <= x.end
  <2>1. c.last <= x.end /\ x.got \subseteq U
    BY <1>4, Zenon DEF Walking
  <2>2. U = {e \in listed : e <= x.end}
    BY DEF Asked, Until
  <2> HIDE DEF U
  <2>3. \A e \in listed : e \in Nat
    BY <1>1
  <2>4. \A e \in listed : e \in U \/ e > x.end
    BY <1>3, <2>2, <2>3
  <2>5. U \subseteq listed /\ U \subseteq Sync!Usage /\ \A e \in U : e <= x.end
    BY <1>1, <2>2
  <2> QED BY <2>1, <2>4, <2>5
<1>7. ASSUME Matters(x), NEW e \in U, e >= x.start, x.complete \/ PageIn(U, e) < x.page
      PROVE  Recent(e, t.last) \/ e \in C
  BY <1>2, <1>5, <1>7 DEF WalkPassed
<1> HIDE DEF c, t, U
<1>8. t.last <= now
  BY <1>1, <1>2, <1>4
\* What is after the window is recent, and what is before it is kept.
<1>9. ASSUME Matters(x), t.last > 0, \A e \in Sync!Usage : e < x.start => e \in C
      PROVE  Settled(t, listed, C)
  <2>1. \A e \in Sync!Usage : t.page # 0 /\ e < t.start => e \in C
    BY <1>2, <1>9
  <2>2. ASSUME NEW e \in listed
        PROVE  Recent(e, t.last) \/ e \in C \/ (t.page # 0 /\ e >= t.start /\ PageIn(listed, e) >= t.page)
    <3>1. e \in Nat /\ e \in Sync!Usage
      BY <1>1
    <3>2. CASE e < x.start
      BY <1>9, <3>1, <3>2
    <3>3. CASE e \notin U
      <4>1. t.last <= x.end /\ e > x.end
        BY <1>2, <1>6, <3>3
      <4> QED BY <1>1, <1>2, <1>3, <3>1, <4>1 DEF Recent
    <3>4. CASE e \in U /\ ~(e < x.start)
      <4>1. e >= x.start
        BY <1>3, <3>1, <3>4
      <4>2. CASE x.complete \/ PageIn(U, e) < x.page
        BY <1>7, <1>9, <3>4, <4>1, <4>2
      <4>3. CASE ~x.complete /\ ~(PageIn(U, e) < x.page)
        <5>1. PageIn(U, e) <= PageIn(listed, e)
          BY <1>1, <1>6, <3>1, PageGrows
        <5>2. PageIn(U, e) \in Nat \ {0} /\ PageIn(listed, e) \in Nat \ {0}
          BY <1>1, <1>6, LaterForm
        <5>3. t.page = x.page /\ t.start = x.start
          BY <1>2, <4>3
        <5>4. x.page > 0
          BY <1>5, <4>3
        <5> QED BY <1>3, <4>1, <4>3, <5>1, <5>2, <5>3, <5>4
      <4> QED BY <4>2, <4>3
    <3> QED BY <3>2, <3>3, <3>4
  <2> QED BY <1>9, <2>1, <2>2 DEF Settled
<1>10. CASE x.mode = "month"
  <2>1. x.start > 0
    BY <1>5, <1>10 DEF FromWindow
  <2>2. t.done <=> c.done
    BY <1>2, <1>10
  <2>3. ResumeOK(t, listed, C)
    BY <1>2, <1>3, <2>1 DEF ResumeOK
  <2>4. Settled(t, listed, C)
    <3>1. CASE ~c.done
      BY <2>2, <3>1 DEF Settled
    <3>2. CASE c.done
      <4>1. Good(c, listed, C, now) /\ c.last > 0 /\ Matters(x)
        BY <1>4, <1>10, <3>2 DEF Good, Settled, Matters, c
      <4>2. t.last > 0
        BY <1>2, <1>3, <4>1
      <4>3. ASSUME NEW e \in Sync!Usage, e < x.start PROVE e \in C
        <5>1. CASE e < Sync!computeCursorSyncStartDate(c, "incremental")
          BY <1>1, <1>3, <3>2, <4>1, <5>1, BehindKept
        <5>2. CASE ~(e < Sync!computeCursorSyncStartDate(c, "incremental"))
          BY <1>10, <3>2, <4>3, <5>2 DEF c
        <5> QED BY <5>1, <5>2
      <4> QED BY <1>9, <4>1, <4>2, <4>3
    <3> QED BY <3>1, <3>2
  <2> QED BY <1>2, <1>8, <1>10, <2>3, <2>4 DEF Good, t
<1>11. CASE x.mode = "full"
  <2>1. x.start = 0 /\ t.start = 0 /\ Matters(x)
    BY <1>2, <1>5, <1>11 DEF FromWindow, Matters
  <2>2. t.last > 0
    BY <1>2, <1>3, <1>5, <1>11
  <2>3. Settled(t, listed, C)
    BY <1>1, <1>9, <2>1, <2>2
  <2>4. ResumeOK(t, listed, C)
    <3> SUFFICES ASSUME t.page # 0, NEW e \in listed, PageIn(listed, e) < t.page
                 PROVE  Recent(e, t.last) \/ e \in C
      BY <2>2 DEF ResumeOK
    <3>1. ~(PageIn(listed, e) >= t.page)
      <4>1. PageIn(listed, e) \in Nat /\ t.page \in Nat
        BY <1>1, <1>2, <1>3, LaterForm
      <4> QED BY <4>1
    <3>2. ~x.complete /\ t.page = x.page
      BY <1>2
    <3>3. listed = U
      BY <1>1, <1>4, <1>11, UntilForm DEF Walking, Asked, U
    <3> QED BY <1>1, <1>7, <2>1, <3>2, <3>3
  <2> QED BY <1>2, <1>8, <1>11, <2>3, <2>4 DEF Good, t
<1>12. CASE x.mode = "incremental"
  <2>1. w = "daemon"
    BY <1>4, <1>12 DEF Sync!Processes
  <2>2. c.done /\ Matters(x) /\ \A e \in Sync!Usage : e < x.start => e \in C
    BY <1>5, <1>12 DEF FromWindow, Matters, c
  <2>3. Good(c, listed, C, now) /\ c.last > 0
    BY <1>4, <2>1, <2>2 DEF Good, Settled
  <2>4. t.last > 0
    BY <1>2, <1>3, <2>3
  <2>5. Settled(t, listed, C)
    BY <1>9, <2>2, <2>4
  <2>6. ResumeOK(t, listed, C)
    <3> SUFFICES ASSUME t.page # 0, t.start = 0, NEW e \in listed, PageIn(listed, e) < t.page
                 PROVE  Recent(e, t.last) \/ e \in C
      BY <2>4 DEF ResumeOK
    <3>1. PageIn(listed, e) \in Nat /\ t.page \in Nat
      BY <1>1, <1>2, <1>3, LaterForm
    <3>2. ~(PageIn(listed, e) >= t.page) /\ t.done
      BY <1>2, <2>2, <3>1
    <3> QED BY <2>5, <3>2 DEF Settled
  <2> QED BY <1>2, <1>8, <1>12, <2>5, <2>6 DEF Good, t
<1> QED BY <1>10, <1>11, <1>12 DEF WalkRec, t

\* A save after the local step keeps what was read at the start of the tick.
LEMMA SavedLocal ==
    ASSUME Sync!SyncAssumption, NEW x \in WalkRec, x.kind = "local", NEW s, s = Sync!NextState(x)
    PROVE  s \in StateRec /\ s.cloud = x.basis.cloud
<1>1. x.basis \in StateRec /\ x.basis.rowid \in Nat /\ x.got \subseteq Sync!Usage
  BY DEF WalkRec, StateRec
<1> DEFINE top == Sync!Max(x.got \cup {x.basis.rowid})
<1>2. top \in Nat
  BY <1>1, MaxWith
<1>3. s = [x.basis EXCEPT !.rowid = top]
  BY DEF Sync!NextState
<1> HIDE DEF top
<1> QED BY <1>1, <1>2, <1>3 DEF StateRec

-----------------------------------------------------------------------------
(* The steps.                                                              *)

LEMMA IdleForm ==
    ASSUME NEW time \in Nat, NEW L, NEW C
    PROVE  /\ Sync!Idle \in WalkRec /\ Sync!NoState \in StateRec /\ Sync!NoCloud \in CloudRec
           /\ Good(Sync!NoCloud, L, C, time) /\ Sync!NoState.cloud = Sync!NoCloud
           /\ \A w : WalkOK(w, Sync!Idle, L, C, time)
<1>1. Sync!NoCloud \in CloudRec
  BY DEF Sync!NoCloud, CloudRec
<1>2. Sync!NoState \in StateRec /\ Sync!NoState.cloud = Sync!NoCloud
  BY <1>1 DEF Sync!NoState, StateRec
<1>3. Good(Sync!NoCloud, L, C, time)
  BY DEF Sync!NoCloud, Good, Settled, ResumeOK
<1>4. /\ Sync!Idle.step = "idle" /\ Sync!Idle.mode = "full" /\ Sync!Idle.basis = Sync!NoState
      /\ Sync!Idle.got = {}
      /\ Sync!Idle.todo = {} /\ Sync!Idle.kind = "cloud"
  BY DEF Sync!Idle
<1>5. Sync!Idle \in WalkRec
  BY <1>2 DEF Sync!Idle, WalkRec, Sync!SessionType
<1>6. Sync!Idle.basis.cloud = Sync!NoCloud /\ Sync!NoCloud.last = 0
  BY <1>2, <1>4 DEF Sync!NoCloud
<1>7. \A w : WalkOK(w, Sync!Idle, L, C, time)
  BY <1>3, <1>4, <1>6 DEF WalkOK, InWalk
<1> QED BY <1>1, <1>2, <1>3, <1>5, <1>7

\* The session a walk uses is not what it knows; and steps between the last page
\* and the POST change nothing of it either.
LEMMA SameWalk ==
    ASSUME NEW w, NEW x \in WalkRec, NEW y \in WalkRec, NEW L, NEW C, NEW time,
           WalkOK(w, x, L, C, time),
           y.mode = x.mode, y.basis = x.basis, y.start = x.start, y.end = x.end, y.page = x.page,
           y.got = x.got, y.todo = x.todo, y.complete = x.complete, y.kind = x.kind,
           y.step = x.step \/ (x.step = "token" /\ y.step \in {"creds", "unlink"})
    PROVE  WalkOK(w, y, L, C, time)
<1>1. ASSUME InWalk(y) PROVE Walking(y, L, C)
  <2>1. Walking(x, L, C)
    BY <1>1 DEF WalkOK, InWalk
  <2>2. FromWindow(y, C) /\ Asked(y, L) = Asked(x, L)
    BY <2>1 DEF Walking, FromWindow, Asked
  <2>3. Matters(y) => WalkPassed(y, L, C)
    BY <2>1, <2>2 DEF Walking, WalkPassed, Matters
  <2> QED BY <2>1, <2>2, <2>3 DEF Walking
<1>2. InWalk(y) /\ w = "daemon" /\ y.mode = "full" => ~y.basis.cloud.done
  BY DEF WalkOK, InWalk
<1> QED BY <1>1, <1>2 DEF WalkOK

\* In which the listing and the rows only grow, and each state and each walk is
\* right before the step or after it.
LEMMA Frame ==
    ASSUME Sync!SyncAssumption,
           SyncInv, now' \in Sync!Usage, now <= now', listed' \subseteq 1 .. now',
           listed \subseteq listed', Kept \subseteq Kept', Late(listed', now'),
           \A e \in listed' \ listed : now <= e + OVERLAP,
           token' \in Sync!SessionType, disk' \in StateRec, mem' \in StateRec,
           \/ Good(disk'.cloud, listed, Kept, now)
           \/ Good(disk'.cloud, listed', Kept', now'),
           Good(mem'.cloud, listed, Kept, now),
           walk' \in [Sync!Processes -> WalkRec],
           \A w \in Sync!Processes : \/ WalkOK(w, walk'[w], listed, Kept, now)
                                \/ WalkOK(w, walk'[w], listed', Kept', now')
    PROVE  SyncInv'
<1>1. now \in Nat /\ now' \in Nat /\ listed' \subseteq Sync!Usage
  BY UsageForm DEF SyncInv, SyncType, Sync!Usage
<1>2. disk'.cloud \in CloudRec /\ mem'.cloud \in CloudRec
  BY DEF StateRec
<1>3. Good(disk'.cloud, listed', Kept', now') /\ Good(mem'.cloud, listed', Kept', now')
  <2> DEFINE K2 == Kept'
  <2>1. Kept \subseteq K2
    OBVIOUS
  <2> HIDE DEF K2
  <2>2. Good(mem'.cloud, listed', K2, now')
    BY <1>1, <1>2, <2>1, GoodGrows
  <2>3. Good(disk'.cloud, listed, Kept, now) => Good(disk'.cloud, listed', K2, now')
    BY <1>1, <1>2, <2>1, GoodGrows
  <2> QED BY <2>2, <2>3 DEF K2
<1>4. ASSUME NEW w \in Sync!Processes PROVE WalkOK(w, walk'[w], listed', Kept', now')
  <2>1. walk'[w] \in WalkRec
    OBVIOUS
  <2>2. CASE WalkOK(w, walk'[w], listed, Kept, now)
    <3> DEFINE K2 == Kept'
    <3>1. Kept \subseteq K2
      OBVIOUS
    <3> HIDE DEF K2
    <3>2. WalkOK(w, walk'[w], listed', K2, now')
      BY <1>1, <2>1, <2>2, <3>1, WalkGrows
    <3> QED BY <3>2 DEF K2
  <2> QED BY <2>2
<1>5. 1 \in listed'
  BY DEF SyncInv, SyncType
<1> QED BY <1>3, <1>4, <1>5 DEF SyncInv, SyncType

\* Steps of one process that leave dashboard and server alone.
LEMMA LocalFrame ==
    ASSUME Sync!SyncAssumption,
           SyncInv, UNCHANGED <<Sync!dashboard, Sync!server>>, NEW w \in Sync!Processes,
           NEW y \in WalkRec,
           WalkOK(w, y, listed, Kept, now), walk' = [walk EXCEPT ![w] = y],
           token' \in Sync!SessionType, disk' \in StateRec, mem' \in StateRec,
           Good(disk'.cloud, listed, Kept, now), Good(mem'.cloud, listed, Kept, now)
    PROVE  SyncInv'
<1>1. /\ now' = now /\ listed' = listed /\ Kept' = Kept /\ now \in Sync!Usage
      /\ listed \subseteq 1 .. now /\ Late(listed, now) /\ walk \in [Sync!Processes -> WalkRec]
  BY DEF SyncInv, SyncType, Sync!dashboard, Sync!server, Kept
<1>2. now <= now
  BY <1>1, UsageForm
<1>3. walk' \in [Sync!Processes -> WalkRec]
  BY <1>1
<1>4. \A v \in Sync!Processes : WalkOK(v, walk'[v], listed, Kept, now)
  BY <1>1 DEF SyncInv
<1> QED BY <1>1, <1>2, <1>3, <1>4, Frame

\* ... and the files, and memory.
LEMMA WalkFrame ==
    ASSUME Sync!SyncAssumption,
           SyncInv, UNCHANGED <<Sync!dashboard, Sync!server, disk, mem>>, NEW w \in Sync!Processes,
           NEW y \in WalkRec, WalkOK(w, y, listed, Kept, now), walk' = [walk EXCEPT ![w] = y],
           token' \in Sync!SessionType
    PROVE  SyncInv'
<1>1. /\ disk' = disk /\ mem' = mem /\ disk \in StateRec /\ mem \in StateRec
      /\ Good(disk.cloud, listed, Kept, now) /\ Good(mem.cloud, listed, Kept, now)
  BY DEF SyncInv, SyncType
<1> QED BY <1>1, LocalFrame

LEMMA InvForm ==
    ASSUME Sync!SyncAssumption, SyncInv
    PROVE  /\ now \in Sync!Usage /\ now \in Nat /\ listed \subseteq 1 .. now /\ 1 \in listed
           /\ Late(listed, now)
           /\ token \in Sync!SessionType
           /\ disk \in StateRec /\ mem \in StateRec
           /\ disk.cloud \in CloudRec /\ mem.cloud \in CloudRec
           /\ Good(disk.cloud, listed, Kept, now) /\ Good(mem.cloud, listed, Kept, now)
           /\ walk \in [Sync!Processes -> WalkRec]
           /\ \A w \in Sync!Processes :
                 walk[w] \in WalkRec /\ WalkOK(w, walk[w], listed, Kept, now)
BY UsageForm DEF SyncInv, SyncType, StateRec

LEMMA UseStep ==
    ASSUME Sync!SyncAssumption, SyncInv, Sync!Use
    PROVE  SyncInv'
<1>1. /\ now < MaxTime /\ now' = now + 1 /\ listed' \in {listed, listed \cup {now + 1}}
      /\ \A e \in 1 .. now \ listed : now + 1 <= e + OVERLAP
      /\ Kept' = Kept /\ UNCHANGED <<token, disk, mem, walk>>
  BY DEF Sync!Use, Sync!server, Sync!session, Kept
<1>2. now \in 1 .. MaxTime /\ MaxTime \in Nat /\ OVERLAP \in Nat
  BY InvForm, UsageForm DEF Sync!Usage
<1>3. now' \in Sync!Usage /\ now <= now'
  BY <1>1, <1>2 DEF Sync!Usage
<1>4. listed' \subseteq 1 .. now' /\ listed \subseteq listed'
  BY <1>1, <1>2, InvForm
<1>5. \A e \in listed' \ listed : now <= e + OVERLAP
  BY <1>1, <1>2
<1>6. Late(listed', now')
  <2> SUFFICES ASSUME NEW e \in 1 .. now + 1, e \notin listed PROVE now + 1 <= e + OVERLAP
    BY <1>1 DEF Late
  <2>1. CASE e = now + 1
    BY <1>2, <2>1
  <2>2. CASE e # now + 1
    BY <1>1, <1>2, <2>2
  <2> QED BY <2>1, <2>2
<1> QED BY <1>1, <1>3, <1>4, <1>5, <1>6, InvForm, Frame

LEMMA ListStep ==
    ASSUME Sync!SyncAssumption, SyncInv, NEW e \in Sync!Usage, Sync!List(e)
    PROVE  SyncInv'
<1>1. /\ e \in 1 .. now /\ e \notin listed /\ listed' = listed \cup {e}
      /\ Kept' = Kept /\ UNCHANGED <<now, token, disk, mem, walk>>
  BY DEF Sync!List, Sync!server, Sync!session, Kept
<1>2. now \in Nat /\ now <= now /\ Late(listed, now)
  BY InvForm DEF SyncInv
<1>3. Late(listed', now')
  BY <1>1, <1>2 DEF Late
<1>4. \A f \in listed' \ listed : now <= f + OVERLAP
  BY <1>1, <1>2 DEF Late
<1>5. listed' \subseteq 1 .. now' /\ listed \subseteq listed' /\ Kept \subseteq Kept'
  BY <1>1, InvForm
<1> QED BY <1>1, <1>2, <1>3, <1>4, <1>5, InvForm, Frame

LEMMA ExpireStep ==
    ASSUME Sync!SyncAssumption, SyncInv, Sync!Expire
    PROVE  SyncInv'
<1>1. /\ token' = Sync!Expired(token)
      /\ UNCHANGED <<now, listed, Kept, disk, mem>>
      /\ walk' = [w \in Sync!Processes |->
             [walk[w] EXCEPT !.session = Sync!Expired(@), !.refreshed = Sync!Expired(@)]]
  BY DEF Sync!Expire, Sync!dashboard, Sync!server, Kept
<1>2. \A x \in Sync!SessionType : Sync!Expired(x) \in Sync!SessionType
  BY DEF Sync!Expired, Sync!SessionType
<1>3. ASSUME NEW w \in Sync!Processes
      PROVE  walk'[w] \in WalkRec /\ WalkOK(w, walk'[w], listed, Kept, now)
  <2> DEFINE x == walk[w]
             y == [x EXCEPT !.session = Sync!Expired(@), !.refreshed = Sync!Expired(@)]
  <2>1. x \in WalkRec /\ WalkOK(w, x, listed, Kept, now)
    BY InvForm
  <2>2. walk'[w] = y
    BY <1>1
  <2> HIDE DEF x
  <2>3. y \in WalkRec
    BY <1>2, <2>1 DEF WalkRec
  <2>4. /\ y.mode = x.mode /\ y.basis = x.basis /\ y.start = x.start /\ y.end = x.end
        /\ y.page = x.page /\ y.got = x.got /\ y.todo = x.todo /\ y.complete = x.complete
        /\ y.kind = x.kind /\ y.step = x.step
    BY <2>1 DEF WalkRec
  <2> HIDE DEF y
  <2>5. WalkOK(w, y, listed, Kept, now)
    BY <2>1, <2>3, <2>4, SameWalk
  <2> QED BY <2>2, <2>3, <2>5
<1>4. token' \in Sync!SessionType
  BY <1>1, <1>2, InvForm
<1>5. walk' \in [Sync!Processes -> WalkRec]
  BY <1>1, <1>3
<1>6. now <= now /\ Late(listed, now)
  BY InvForm DEF SyncInv
<1>7. now <= now' /\ listed \subseteq listed' /\ Kept \subseteq Kept' /\ Late(listed', now')
  BY <1>1, <1>6
<1> QED BY <1>1, <1>3, <1>4, <1>5, <1>7, InvForm, Frame

LEMMA SyncTickStep ==
    ASSUME Sync!SyncAssumption, SyncInv, Sync!StartTick
    PROVE  SyncInv'
<1> DEFINE cc == IF disk.cloud.sync > 0 THEN disk.cloud ELSE mem.cloud
           rowid == IF disk.rowid > 0 THEN disk.rowid ELSE mem.rowid
           basis == [cloud |-> cc, rowid |-> rowid]
           y == IF token = "none" THEN [Sync!Idle EXCEPT !.step = "local", !.basis = basis]
                ELSE IF cc.done THEN Sync!StartWalk(basis, "incremental", IncrementalPages, creds)
                ELSE Sync!StartWalk(basis, "full", BackfillPages, creds)
<1>1. /\ walk' = [walk EXCEPT !["daemon"] = y]
      /\ UNCHANGED <<Sync!dashboard, Sync!server, disk, mem, token>>
  BY Zenon DEF Sync!StartTick, Sync!session
<1>2. cc \in CloudRec /\ Good(cc, listed, Kept, now)
  BY InvForm
<1>3. rowid \in Nat
  BY InvForm DEF StateRec
<1> HIDE DEF cc, rowid
<1>4. basis \in StateRec /\ basis.cloud = cc
  BY <1>2, <1>3 DEF StateRec
<1>5. "daemon" \in Sync!Processes /\ IncrementalPages \in Int /\ BackfillPages \in Int
  BY DEF Sync!Processes, Sync!SyncAssumption
<1>6. now \in Nat /\ Sync!Idle \in WalkRec
  BY InvForm, IdleForm
<1> HIDE DEF basis
<1>7. cc.last <= now /\ ResumeOK(cc, listed, Kept)
  BY <1>2 DEF Good
<1>8. y \in WalkRec /\ WalkOK("daemon", y, listed, Kept, now)
  <2>1. CASE token = "none"
    <3>1. y = [Sync!Idle EXCEPT !.step = "local", !.basis = basis]
      BY <2>1
    <3> HIDE DEF y
    <3>2. y \in WalkRec
      BY <1>4, <1>6, <3>1 DEF WalkRec
    <3>3. y.step = "local" /\ y.kind = "cloud" /\ y.basis = basis /\ y.got = {} /\ y.todo = {}
          /\ y.mode = "full"
      BY <3>1 DEF Sync!Idle
    <3> QED BY <1>2, <1>4, <1>7, <3>2, <3>3 DEF WalkOK, InWalk
  <2>2. CASE token # "none" /\ cc.done
    <3>1. y = Sync!StartWalk(basis, "incremental", IncrementalPages, creds)
      BY <2>2
    <3> HIDE DEF y
    <3> QED BY <1>2, <1>4, <1>5, <1>7, <2>2, <3>1, InvForm, Started
  <2>3. CASE token # "none" /\ ~cc.done
    <3>1. y = Sync!StartWalk(basis, "full", BackfillPages, creds)
      BY <2>3
    <3> HIDE DEF y
    <3> QED BY <1>2, <1>4, <1>5, <1>7, <2>3, <3>1, InvForm, Started
  <2> QED BY <2>1, <2>2, <2>3
<1> HIDE DEF y
<1> QED BY <1>1, <1>5, <1>8, InvForm, WalkFrame

LEMMA SyncCursorStep ==
    ASSUME Sync!SyncAssumption, SyncInv, Sync!runSyncCursor
    PROVE  SyncInv'
<1> DEFINE y == Sync!StartWalk(disk, "full", FullPages, creds)
<1>1. /\ walk' = [walk EXCEPT !["cli"] = y]
      /\ UNCHANGED <<Sync!dashboard, Sync!server, disk, mem, token>>
  BY DEF Sync!runSyncCursor, Sync!session
<1>2. "cli" \in Sync!Processes /\ FullPages \in Int
  BY DEF Sync!Processes, Sync!SyncAssumption
<1>3. disk.cloud.last <= now /\ ResumeOK(disk.cloud, listed, Kept)
  BY InvForm DEF Good
<1> HIDE DEF y
<1>4. y \in WalkRec /\ WalkOK("cli", y, listed, Kept, now)
  BY <1>2, <1>3, InvForm, Started DEF y
<1> QED BY <1>1, <1>2, <1>4, InvForm, WalkFrame

LEMMA LoginStep ==
    ASSUME Sync!SyncAssumption, SyncInv, NEW auto \in BOOLEAN, Sync!runLoginCursor(auto)
    PROVE  SyncInv'
<1> DEFINE step == IF auto THEN "creds" ELSE "unlink"
           y == [Sync!Idle EXCEPT !.step = step, !.kind = "login"]
<1>1. /\ walk' = [walk EXCEPT !["cli"] = y]
      /\ UNCHANGED <<Sync!dashboard, Sync!server, disk, mem>> /\ token' = "good"
  BY DEF Sync!runLoginCursor
<1>2. step \in {"creds", "unlink"}
  OBVIOUS
<1> HIDE DEF step
<1>3. /\ Sync!Idle \in WalkRec /\ Sync!Idle.basis = Sync!NoState
      /\ Sync!NoState.cloud.last = 0 /\ now \in Nat
  BY InvForm, IdleForm DEF Sync!Idle, Sync!NoState, Sync!NoCloud
<1>4. y \in WalkRec
  BY <1>2, <1>3 DEF WalkRec
<1>5. /\ y.step = step /\ y.kind = "login" /\ y.basis = Sync!NoState /\ y.got = {} /\ y.todo = {}
      /\ y.mode = "full"
  BY DEF Sync!Idle
<1> HIDE DEF y
<1>6. WalkOK("cli", y, listed, Kept, now)
  BY <1>2, <1>3, <1>5 DEF WalkOK, InWalk
<1>7. "cli" \in Sync!Processes /\ token' \in Sync!SessionType
  BY <1>1 DEF Sync!Processes, Sync!SessionType
<1> QED BY <1>1, <1>4, <1>6, <1>7, WalkFrame

LEMMA RefreshStep ==
    ASSUME Sync!SyncAssumption, SyncInv, NEW w \in Sync!Processes, Sync!refreshSessionAuth(w)
    PROVE  SyncInv'
<1> DEFINE x == walk[w]
           y == [x EXCEPT !.session = "good", !.refreshed = "good"]
<1>1. /\ walk' = [walk EXCEPT ![w] = y]
      /\ UNCHANGED <<Sync!dashboard, Sync!server, disk, mem, token>>
  BY InvForm DEF Sync!refreshSessionAuth, Sync!session
<1>2. x \in WalkRec /\ WalkOK(w, x, listed, Kept, now)
  BY InvForm
<1> HIDE DEF x
<1>3. y \in WalkRec
  BY <1>2 DEF WalkRec, Sync!SessionType
<1>4. /\ y.mode = x.mode /\ y.basis = x.basis /\ y.start = x.start /\ y.end = x.end
      /\ y.page = x.page /\ y.got = x.got /\ y.todo = x.todo /\ y.complete = x.complete
      /\ y.kind = x.kind /\ y.step = x.step
  BY <1>2 DEF WalkRec
<1> HIDE DEF y
<1>5. WalkOK(w, y, listed, Kept, now)
  BY <1>2, <1>3, <1>4, SameWalk
<1> QED BY <1>1, <1>3, <1>5, InvForm, WalkFrame

LEMMA FetchStep ==
    ASSUME Sync!SyncAssumption, SyncInv, NEW w \in Sync!Processes, Sync!fetchFilteredUsageEvents(w)
    PROVE  SyncInv'
<1> DEFINE x == walk[w]
           more == x.got \cup Sync!Page(x.page, x.start, x.end)
<1>1. /\ x.step = "page"
      /\ UNCHANGED <<Sync!dashboard, Sync!server, disk, mem, token>>
  BY DEF Sync!fetchFilteredUsageEvents, Sync!session
<1>2. PICK complete \in Sync!Ends(w) :
        LET y == [x EXCEPT !.got = more, !.todo = more, !.complete = complete,
                           !.page = @ + 1, !.left = @ - 1]
        IN  walk' = [walk EXCEPT ![w] =
                IF ~complete /\ y.left > 0 THEN y
                ELSE IF y.refreshed # "none" THEN [y EXCEPT !.step = "token"]
                ELSE Sync!Fetched(y)]
  BY DEF Sync!fetchFilteredUsageEvents
<1> DEFINE y == [x EXCEPT !.got = more, !.todo = more, !.complete = complete,
                          !.page = @ + 1, !.left = @ - 1]
           z == [y EXCEPT !.step = "token"]
<1>3. x \in WalkRec /\ WalkOK(w, x, listed, Kept, now)
  BY InvForm
<1>4. more \subseteq Sync!Usage /\ listed \subseteq Sync!Usage
  <2>1. listed \subseteq Sync!Usage
    BY InvForm, UsageForm DEF Sync!Usage
  <2> QED BY <1>3, <2>1 DEF WalkRec, Sync!Page, Sync!Window
<1>5. complete \in BOOLEAN
  <2>1. Walking(x, listed, Kept)
    BY <1>1, <1>3 DEF WalkOK, InWalk, WalkRec
  <2>2. x.page \in Nat \ {0} /\ x.start \in Nat /\ x.end \in Nat
    BY <1>1, <1>3, <2>1 DEF Walking, WalkRec
  <2> QED BY <1>4, <2>2, EndsForm
<1> HIDE DEF x
<1>6. y \in WalkRec /\ y.step = "page" /\ PageMore(x, y, complete)
  <2> HIDE DEF more
  <2>1. more \in SUBSET Sync!Usage
    BY <1>4
  <2>2. y = Paged(x, more, complete)
    BY DEF Paged
  <2> HIDE DEF y
  <2>3. /\ y \in WalkRec
        /\ y.mode = x.mode /\ y.basis = x.basis /\ y.start = x.start /\ y.end = x.end
        /\ y.kind = x.kind /\ y.step = x.step /\ y.page = x.page + 1 /\ y.got = more
        /\ y.todo = more /\ y.complete = complete
    BY <1>3, <1>5, <2>1, <2>2, PagedRec
  <2> QED BY <1>1, <2>3 DEF PageMore, more, x
<1> HIDE DEF y
<1>7. z \in WalkRec /\ z.step = "token" /\ PageMore(x, z, complete)
  <2>1. z \in WalkRec
    BY <1>6 DEF WalkRec
  <2>2. /\ z.mode = y.mode /\ z.basis = y.basis /\ z.start = y.start /\ z.end = y.end
        /\ z.kind = y.kind /\ z.page = y.page /\ z.got = y.got /\ z.todo = y.todo
        /\ z.complete = y.complete /\ z.step = "token"
    BY <1>6 DEF WalkRec
  <2> QED BY <1>6, <2>1, <2>2 DEF PageMore
<1> HIDE DEF z
<1>8. WalkOK(w, z, listed, Kept, now)
  BY <1>1, <1>3, <1>7, InvForm, PageMoreOK DEF x
<1>9. CASE ~complete /\ y.left > 0
  <2>1. walk' = [walk EXCEPT ![w] = y]
    BY <1>2, <1>9 DEF y, x
  <2>2. WalkOK(w, y, listed, Kept, now)
    BY <1>1, <1>3, <1>6, <1>9, InvForm, PageMoreOK DEF x
  <2> QED BY <1>1, <1>6, <2>1, <2>2, InvForm, WalkFrame
<1>10. CASE ~(~complete /\ y.left > 0) /\ y.refreshed # "none"
  <2>1. walk' = [walk EXCEPT ![w] = z]
    BY <1>2, <1>10 DEF y, x, z
  <2> QED BY <1>1, <1>7, <1>8, <2>1, InvForm, WalkFrame
<1>11. CASE ~(~complete /\ y.left > 0) /\ y.refreshed = "none"
  <2>1. walk' = [walk EXCEPT ![w] = Sync!Fetched(y)]
    BY <1>2, <1>11 DEF y, x
  <2>2. Sync!Fetched(z) = Sync!Fetched(y)
    BY <1>6 DEF Sync!Fetched, z, WalkRec
  <2>3. z.kind = "cloud"
    BY <1>1, <1>3, <1>7 DEF PageMore, WalkOK, WalkRec
  <2>4. InWalk(z)
    BY <1>7, <2>3 DEF InWalk
  <2>5. Sync!Fetched(z) \in WalkRec /\ WalkOK(w, Sync!Fetched(z), listed, Kept, now)
    BY <1>7, <1>8, <2>4, FetchedOK
  <2> QED BY <1>1, <2>1, <2>2, <2>5, InvForm, WalkFrame
<1> QED BY <1>9, <1>10, <1>11

LEMMA FetchFailsStep ==
    ASSUME Sync!SyncAssumption, SyncInv, NEW w \in Sync!Processes, Sync!fetchFails(w)
    PROVE  SyncInv'
<1> DEFINE x == walk[w]
           y == IF w = "daemon" THEN [Sync!Idle EXCEPT !.step = "local", !.basis = x.basis]
                ELSE Sync!Idle
<1>1. /\ walk' = [walk EXCEPT ![w] = y]
      /\ UNCHANGED <<Sync!dashboard, Sync!server, disk, mem, token>>
  BY DEF Sync!fetchFails, Sync!session
<1>2. x \in WalkRec /\ WalkOK(w, x, listed, Kept, now)
  BY InvForm
<1>3. now \in Nat /\ Sync!Idle \in WalkRec /\ WalkOK(w, Sync!Idle, listed, Kept, now)
  BY InvForm, IdleForm
<1> HIDE DEF x
<1>4. y \in WalkRec /\ WalkOK(w, y, listed, Kept, now)
  <2>1. CASE w = "daemon"
    <3>1. y = [Sync!Idle EXCEPT !.step = "local", !.basis = x.basis]
      BY <2>1
    <3> HIDE DEF y
    <3>2. y \in WalkRec
      BY <1>2, <1>3, <3>1 DEF WalkRec
    <3>3. y.step = "local" /\ y.kind = "cloud" /\ y.basis = x.basis /\ y.got = {} /\ y.todo = {}
          /\ y.mode = "full"
      BY <3>1 DEF Sync!Idle
    <3> QED BY <1>2, <2>1, <3>2, <3>3 DEF WalkOK, InWalk
  <2>2. CASE w # "daemon"
    BY <1>3, <2>2
  <2> QED BY <2>1, <2>2
<1> HIDE DEF y
<1> QED BY <1>1, <1>4, InvForm, WalkFrame

LEMMA SaveTokenStep ==
    ASSUME Sync!SyncAssumption, SyncInv, NEW w \in Sync!Processes, Sync!saveToken(w)
    PROVE  SyncInv'
<1> DEFINE x == walk[w]
           step == IF creds # "none" THEN "creds" ELSE "unlink"
           y == [x EXCEPT !.step = step]
<1>1. /\ walk' = [walk EXCEPT ![w] = y]
      /\ UNCHANGED <<Sync!dashboard, Sync!server, disk, mem>> /\ token' = x.refreshed
      /\ x.step = "token"
  BY DEF Sync!saveToken
<1>2. x \in WalkRec /\ WalkOK(w, x, listed, Kept, now)
  BY InvForm
<1>3. step \in {"creds", "unlink"} /\ x.refreshed \in Sync!SessionType
  BY <1>2 DEF WalkRec
<1> HIDE DEF x, step
<1>4. y \in WalkRec
  BY <1>2, <1>3 DEF WalkRec
<1>5. /\ y.mode = x.mode /\ y.basis = x.basis /\ y.start = x.start /\ y.end = x.end
      /\ y.page = x.page /\ y.got = x.got /\ y.todo = x.todo /\ y.complete = x.complete
      /\ y.kind = x.kind /\ y.step = step
  BY <1>2 DEF WalkRec
<1> HIDE DEF y
<1>6. WalkOK(w, y, listed, Kept, now)
  BY <1>1, <1>2, <1>3, <1>4, <1>5, SameWalk
<1> QED BY <1>1, <1>3, <1>4, <1>6, WalkFrame

\* After the files of the session a walk goes on to its POST, and a login ends.
LEMMA AfterFiles ==
    ASSUME Sync!SyncAssumption,
           SyncInv, NEW w \in Sync!Processes, walk[w].step \in {"creds", "unlink"},
           NEW y, y = IF walk[w].kind = "login" THEN Sync!Idle ELSE Sync!Fetched(walk[w])
    PROVE  y \in WalkRec /\ WalkOK(w, y, listed, Kept, now)
<1>1. walk[w] \in WalkRec /\ WalkOK(w, walk[w], listed, Kept, now) /\ now \in Nat
  BY InvForm
<1>2. CASE walk[w].kind = "login"
  BY <1>1, <1>2, IdleForm
<1>3. CASE walk[w].kind # "login"
  <2>1. InWalk(walk[w])
    BY <1>1, <1>3 DEF InWalk, WalkOK, WalkRec
  <2>2. y = Sync!Fetched(walk[w])
    BY <1>3
  <2> QED BY <1>1, <2>1, <2>2, FetchedOK
<1> QED BY <1>2, <1>3

LEMMA SaveCredsStep ==
    ASSUME Sync!SyncAssumption,
           SyncInv, NEW w \in Sync!Processes, Sync!saveCreds(w)
    PROVE  SyncInv'
<1>1. /\ walk[w].step = "creds"
      /\ UNCHANGED <<Sync!dashboard, Sync!server, disk, mem, token>>
  BY DEF Sync!saveCreds
<1>2. PICK month \in BOOLEAN :
         /\ month => walk[w].kind = "login"
         /\ walk' = [walk EXCEPT ![w] =
                IF month THEN Sync!StartWalk(disk, "month", FullPages, creds')
                ELSE IF @.kind = "login" THEN Sync!Idle
                ELSE Sync!Fetched(@)]
  BY DEF Sync!saveCreds
<1>3. CASE month
  <2> DEFINE y == Sync!StartWalk(disk, "month", FullPages, creds')
  <2>1. walk' = [walk EXCEPT ![w] = y]
    BY <1>2, <1>3
  <2>2. w = "cli"
    BY <1>2, <1>3, InvForm DEF WalkOK, Sync!Processes
  <2>3. disk.cloud.last <= now /\ FullPages \in Int
    BY InvForm DEF Good, Sync!SyncAssumption
  <2>4. y \in WalkRec /\ WalkOK(w, y, listed, Kept, now)
    BY <2>2, <2>3, InvForm, Started
  <2> HIDE DEF y
  <2> QED BY <1>1, <2>1, <2>4, InvForm, WalkFrame
<1>4. CASE ~month
  <2> DEFINE y == IF walk[w].kind = "login" THEN Sync!Idle ELSE Sync!Fetched(walk[w])
  <2>1. walk' = [walk EXCEPT ![w] = y]
    BY <1>2, <1>4, InvForm
  <2>2. y \in WalkRec /\ WalkOK(w, y, listed, Kept, now)
    BY <1>1, AfterFiles
  <2> HIDE DEF y
  <2> QED BY <1>1, <2>1, <2>2, InvForm, WalkFrame
<1> QED BY <1>3, <1>4

LEMMA UnlinkStep ==
    ASSUME Sync!SyncAssumption, SyncInv, NEW w \in Sync!Processes, Sync!removeCredentialsFile(w)
    PROVE  SyncInv'
<1> DEFINE y == IF walk[w].kind = "login" THEN Sync!Idle ELSE Sync!Fetched(walk[w])
<1>1. /\ walk[w].step = "unlink" /\ walk' = [walk EXCEPT ![w] = y]
      /\ UNCHANGED <<Sync!dashboard, Sync!server, disk, mem, token>>
  BY InvForm DEF Sync!removeCredentialsFile
<1>2. y \in WalkRec /\ WalkOK(w, y, listed, Kept, now)
  BY <1>1, AfterFiles
<1> HIDE DEF y
<1> QED BY <1>1, <1>2, InvForm, WalkFrame

LEMMA LocalStep ==
    ASSUME Sync!SyncAssumption, SyncInv, Sync!parseCursorLocal
    PROVE  SyncInv'
<1> DEFINE x == walk["daemon"]
           new == IF LocalEnabled THEN x.basis.rowid + 1 .. now ELSE {}
           step == IF new = {} THEN "save" ELSE "post"
           y == [x EXCEPT !.kind = "local", !.got = new, !.todo = new, !.step = step]
<1>1. "daemon" \in Sync!Processes
  BY DEF Sync!Processes
<1>2. x \in WalkRec /\ WalkOK("daemon", x, listed, Kept, now) /\ now \in Sync!Usage
  BY <1>1, InvForm
<1>3. /\ walk' = [walk EXCEPT !["daemon"] = y]
      /\ UNCHANGED <<Sync!dashboard, Sync!server, disk, mem, token>>
  BY <1>1, InvForm DEF Sync!parseCursorLocal, Sync!session
<1>4. new \subseteq 1 .. now /\ new \subseteq Sync!Usage
  <2>1. x.basis.rowid \in Nat
    BY <1>2 DEF WalkRec, StateRec
  <2>2. new \subseteq 1 .. now
    BY <1>2, <2>1, UsageForm
  <2> QED BY <1>2, <2>2, UsageForm DEF Sync!Usage
<1>5. step \in {"save", "post"}
  OBVIOUS
<1> HIDE DEF x, new, step
<1>6. new \in SUBSET Sync!Usage
      /\ y = ToPost(x, new, step)
  BY <1>4 DEF ToPost
<1> HIDE DEF y
<1>7. y \in WalkRec
  BY <1>2, <1>5, <1>6, LocalRec
<1>8. y.step = step /\ y.kind = "local" /\ y.basis = x.basis /\ y.got = new /\ y.todo = new
      /\ y.mode = x.mode
  BY <1>2, <1>5, <1>6, LocalRec
<1>9. WalkOK("daemon", y, listed, Kept, now)
  BY <1>2, <1>4, <1>5, <1>8 DEF WalkOK, InWalk
<1> QED BY <1>1, <1>3, <1>7, <1>9, InvForm, WalkFrame

\* Rows inserted: what of a walk is in its batches arrives.
LEMMA InsertedForm ==
    ASSUME NEW x, NEW batch, Sync!Insert(x, batch), cut' = cut
    PROVE  /\ Kept \subseteq Kept'
           /\ x.kind # "local" => Kept' = Kept \cup batch
BY DEF Sync!Insert, Kept

LEMMA PostStep ==
    ASSUME Sync!SyncAssumption, SyncInv, NEW w \in Sync!Processes, Sync!postBatch(w)
    PROVE  SyncInv'
<1> DEFINE x == walk[w]
           batch == Sync!Next1(x.todo)
           rest == x.todo \ batch
           step == IF rest = {} THEN "save" ELSE "post"
           y == [x EXCEPT !.todo = rest, !.step = step]
<1>1. x \in WalkRec /\ WalkOK(w, x, listed, Kept, now) /\ now \in Nat /\ now \in Sync!Usage
  BY InvForm
<1>2. /\ x.step = "post" /\ Sync!Insert(x, batch)
      /\ UNCHANGED <<now, listed, cut, disk, mem, token>>
  BY DEF Sync!postBatch, Sync!dashboard, Sync!session
<1>3. walk' = [walk EXCEPT ![w] = y]
  BY InvForm DEF Sync!postBatch
<1>4. rest \subseteq x.todo /\ x.todo \subseteq rest \cup batch /\ step \in {"save", "post"}
      /\ (step = "save" => rest = {})
  BY DEF Sync!Next1
<1> HIDE DEF x, batch, rest, step
<1>5. rest \in SUBSET Sync!Usage /\ y = Posted(x, rest, step)
  BY <1>1, <1>4 DEF WalkRec, Posted
<1> HIDE DEF y
<1>6. y \in WalkRec
  BY <1>1, <1>4, <1>5, PostedRec
<1>7. /\ y.step = step /\ y.mode = x.mode /\ y.basis = x.basis /\ y.start = x.start
      /\ y.page = x.page /\ y.got = x.got /\ y.todo = rest /\ y.complete = x.complete
      /\ y.kind = x.kind /\ y.end = x.end
  BY <1>1, <1>4, <1>5, PostedRec
<1> DEFINE K2 == Kept'
<1>8. Kept \subseteq K2 /\ (x.kind # "local" => K2 = Kept \cup batch)
  BY <1>2, InsertedForm
<1> HIDE DEF K2
<1>9. WalkOK(w, x, listed, K2, now)
  <2>1. listed \subseteq Sync!Usage
    BY InvForm, UsageForm DEF Sync!Usage
  <2>2. now <= now
    BY <1>1
  <2> QED BY <1>1, <1>8, <2>1, <2>2, WalkGrows
<1>10. ASSUME InWalk(y) PROVE Walking(y, listed, K2)
  <2>1. x.kind = "cloud" /\ InWalk(x)
    BY <1>2, <1>7, <1>10 DEF InWalk
  <2>2. Walking(x, listed, K2) /\ Walking(x, listed, Kept)
    BY <1>1, <1>9, <2>1 DEF WalkOK
  <2>3. FromWindow(y, K2) /\ Asked(y, listed) = Asked(x, listed)
    BY <1>7, <2>2 DEF Walking, FromWindow, Asked
  <2>4. Matters(y) => WalkPassed(y, listed, K2)
    BY <1>7, <2>2, <2>3 DEF Walking, WalkPassed, Matters
  <2>5. x.got \ rest \subseteq K2
    BY <1>2, <1>4, <1>8, <2>1, <2>2 DEF Walking
  <2> QED BY <1>2, <1>4, <1>7, <2>2, <2>3, <2>4, <2>5 DEF Walking
<1>11. WalkOK(w, y, listed, K2, now)
  <2>1. InWalk(y) => InWalk(x)
    BY <1>2, <1>7 DEF InWalk
  <2> QED BY <1>2, <1>4, <1>7, <1>9, <1>10, <2>1 DEF WalkOK
<1>12. walk' \in [Sync!Processes -> WalkRec]
  BY <1>3, <1>6, InvForm
<1>13. ASSUME NEW v \in Sync!Processes
       PROVE  \/ WalkOK(v, walk'[v], listed, Kept, now)
              \/ WalkOK(v, walk'[v], listed', Kept', now')
  <2>1. CASE v = w
    BY <1>2, <1>3, <1>11, <2>1, InvForm DEF K2
  <2>2. CASE v # w
    BY <1>3, <2>2, InvForm
  <2> QED BY <2>1, <2>2
<1>14. now <= now /\ Late(listed, now)
  BY <1>1 DEF SyncInv
<1>15. now <= now' /\ listed \subseteq listed' /\ Late(listed', now')
  BY <1>2, <1>14
<1> QED BY <1>2, <1>8, <1>12, <1>13, <1>15, InvForm, Frame DEF K2

LEMMA PostFailsStep ==
    ASSUME Sync!SyncAssumption, SyncInv, NEW w \in Sync!Processes, Sync!postFails(w)
    PROVE  SyncInv'
<1>1. /\ walk' = [walk EXCEPT ![w] = Sync!Idle]
      /\ UNCHANGED <<now, listed, cut, disk, mem, token>>
  BY DEF Sync!postFails, Sync!dashboard, Sync!session
<1>2. Kept \subseteq Kept'
  BY <1>1, InsertedForm DEF Sync!postFails, Sync!server, Kept
<1>3. now \in Nat /\ Sync!Idle \in WalkRec /\ WalkOK(w, Sync!Idle, listed, Kept, now)
  BY InvForm, IdleForm
<1>4. walk' \in [Sync!Processes -> WalkRec]
  BY <1>1, <1>3, InvForm
<1>5. \A v \in Sync!Processes : WalkOK(v, walk'[v], listed, Kept, now)
  BY <1>1, <1>3, InvForm
<1>6. now <= now /\ Late(listed, now)
  BY <1>3 DEF SyncInv
<1>7. now <= now' /\ listed \subseteq listed' /\ Late(listed', now')
  BY <1>1, <1>6
<1> QED BY <1>1, <1>2, <1>4, <1>5, <1>7, InvForm, Frame

\* Memory is as good as what it is made from.
LEMMA UnsavedForm ==
    ASSUME NEW L, NEW C, NEW time \in Nat, NEW s \in StateRec, Good(s.cloud, L, C, time)
    PROVE  /\ Sync!Unsaved(s) \in StateRec
           /\ Good(Sync!Unsaved(s).cloud, L, C, time)
<1> DEFINE c == IF disk'.cloud.sync > 0 THEN Sync!NoCloud ELSE s.cloud
           rowid == IF disk'.rowid > 0 THEN 0 ELSE s.rowid
<1>1. c \in CloudRec /\ Good(c, L, C, time)
  BY IdleForm DEF StateRec
<1>2. rowid \in Nat
  BY DEF StateRec
<1>3. Sync!Unsaved(s) = [cloud |-> c, rowid |-> rowid]
  BY DEF Sync!Unsaved
<1> HIDE DEF c, rowid
<1> QED BY <1>1, <1>2, <1>3 DEF StateRec

LEMMA SaveStep ==
    ASSUME Sync!SyncAssumption, SyncInv, Sync!saveState
    PROVE  SyncInv'
<1> DEFINE x == walk["daemon"]
           s == Sync!NextState(x)
<1>1. "daemon" \in Sync!Processes
  BY DEF Sync!Processes
<1>2. /\ x.step = "save" /\ disk' \in {s, disk} /\ mem' = Sync!Unsaved(s)
      /\ walk' = [walk EXCEPT !["daemon"] = Sync!Idle]
      /\ UNCHANGED <<Sync!dashboard, Sync!server, token>>
  BY DEF Sync!saveState, Sync!session
<1>3. x \in WalkRec /\ WalkOK("daemon", x, listed, Kept, now)
  BY <1>1, InvForm
<1> HIDE DEF x, s
<1>4. s \in StateRec /\ Good(s.cloud, listed, Kept, now)
  <2>1. CASE x.kind = "local"
    BY <1>3, <2>1, SavedLocal DEF WalkOK, s
  <2>2. CASE x.kind = "cloud"
    <3>1. x.mode # "month"
      BY <1>2, <1>3, <2>2 DEF WalkOK, InWalk
    <3> QED BY <1>1, <1>2, <1>3, <2>2, <3>1, InvForm, SavedOK DEF s
  <2>3. x.kind # "login"
    BY <1>2, <1>3 DEF WalkOK
  <2> QED BY <1>3, <2>1, <2>2, <2>3 DEF WalkRec
<1>5. now \in Nat /\ Sync!Idle \in WalkRec /\ WalkOK("daemon", Sync!Idle, listed, Kept, now)
  BY InvForm, IdleForm
<1>6. mem' \in StateRec /\ Good(mem'.cloud, listed, Kept, now)
  BY <1>2, <1>4, <1>5, UnsavedForm
<1>7. disk' \in StateRec /\ Good(disk'.cloud, listed, Kept, now)
  BY <1>2, <1>4, InvForm
<1> QED BY <1>1, <1>2, <1>5, <1>6, <1>7, InvForm, LocalFrame

LEMMA SaveCliStep ==
    ASSUME Sync!SyncAssumption, SyncInv, Sync!saveCliState
    PROVE  SyncInv'
<1> DEFINE x == walk["cli"]
           s == Sync!NextState(x)
           y == IF token = "none" THEN Sync!Idle ELSE Sync!StartWalk(s, "full", FullPages, creds)
<1>1. "cli" \in Sync!Processes /\ FullPages \in Int
  BY DEF Sync!Processes, Sync!SyncAssumption
<1>2. /\ x.step = "save" /\ mem' = Sync!Unsaved(mem)
      /\ UNCHANGED <<now, listed, cloud, token>>
      /\ IF x.mode = "full" /\ ~x.complete
           THEN /\ walk' = [walk EXCEPT !["cli"] = y]
                /\ UNCHANGED <<Sync!dashboard, Sync!server, disk>>
           ELSE /\ disk' = s /\ walk' = [walk EXCEPT !["cli"] = Sync!Idle]
                /\ cut' = IF x.mode = "month" /\ x.basis.cloud.done
                            THEN cut \cup Sync!CutOff(x.basis.cloud, x.start) ELSE cut
  BY DEF Sync!saveCliState, Sync!session, Sync!server, Sync!dashboard
<1>3. x \in WalkRec /\ WalkOK("cli", x, listed, Kept, now)
  BY <1>1, InvForm
<1> HIDE DEF x, s
<1>4. x.kind = "cloud" /\ x.mode # "incremental"
  BY <1>2, <1>3 DEF WalkOK, WalkRec
<1>5. x.mode = "full" =>
          s \in StateRec /\ s.cloud.last <= now /\ ResumeOK(s.cloud, listed, Kept)
  BY <1>1, <1>2, <1>3, <1>4, InvForm, SavedOK DEF s
<1>6. now \in Nat /\ Sync!Idle \in WalkRec /\ WalkOK("cli", Sync!Idle, listed, Kept, now)
  BY InvForm, IdleForm
<1>7. mem' \in StateRec /\ Good(mem'.cloud, listed, Kept, now)
  BY <1>2, <1>6, InvForm, UnsavedForm
<1>8. CASE x.mode = "full" /\ ~x.complete
  <2>1. y \in WalkRec /\ WalkOK("cli", y, listed, Kept, now)
    <3>1. CASE token = "none"
      BY <1>6, <3>1
    <3>2. CASE token # "none"
      <4>1. y = Sync!StartWalk(s, "full", FullPages, creds)
        BY <3>2
      <4> HIDE DEF y
      <4> QED BY <1>1, <1>5, <1>8, <4>1, InvForm, Started
    <3> QED BY <3>1, <3>2
  <2> HIDE DEF y
  <2>2. /\ disk' = disk /\ walk' = [walk EXCEPT !["cli"] = y]
        /\ UNCHANGED <<Sync!dashboard, Sync!server>>
    BY <1>2, <1>8
  <2>3. token' \in Sync!SessionType
    BY <1>2, InvForm
  <2> QED BY <1>1, <1>7, <2>1, <2>2, <2>3, InvForm, LocalFrame
<1> HIDE DEF y
<1>9. CASE ~(x.mode = "full" /\ ~x.complete)
  <2> DEFINE K2 == Kept'
  <2>1. /\ disk' = s /\ walk' = [walk EXCEPT !["cli"] = Sync!Idle]
        /\ Kept \subseteq K2 /\ now' = now /\ listed' = listed /\ token' = token
    BY <1>2, <1>9 DEF Kept
  <2>2. ASSUME x.mode = "month", x.basis.cloud.done, NEW e \in Sync!Usage, e < x.start,
               ~(e < Sync!computeCursorSyncStartDate(x.basis.cloud, "incremental"))
        PROVE  e \in K2
    <3>1. Sync!computeCursorSyncStartDate(x.basis.cloud, "incremental") \in Nat
      <4>1. x.basis.cloud \in CloudRec /\ x.basis.cloud.last > 0
        BY <1>3, <2>2 DEF WalkOK, Good, Settled, WalkRec, StateRec
      <4> QED BY <4>1, StartForm
    <3>2. e >= Sync!computeCursorSyncStartDate(x.basis.cloud, "incremental")
      BY <2>2, <3>1, UsageForm
    <3>3. e \in cloud \/ e \in Sync!CutOff(x.basis.cloud, x.start)
      BY <2>2, <3>2 DEF Sync!CutOff
    <3> QED BY <1>2, <1>9, <2>2, <3>3 DEF Kept
  <2> HIDE DEF K2
  <2>3. WalkOK("cli", x, listed, K2, now)
    <3>1. listed \subseteq Sync!Usage /\ now <= now
      BY InvForm, UsageForm DEF Sync!Usage
    <3> QED BY <1>3, <1>6, <2>1, <3>1, WalkGrows
  <2>4. x.complete \/ x.mode = "month"
    BY <1>3, <1>4, <1>9 DEF WalkRec
  <2>5. s \in StateRec /\ Good(s.cloud, listed, K2, now)
    BY <1>1, <1>2, <1>3, <1>4, <2>2, <2>3, <2>4, InvForm, SavedOK DEF s
  <2>6. walk' \in [Sync!Processes -> WalkRec]
    BY <1>6, <2>1, InvForm
  <2>7. \A v \in Sync!Processes : WalkOK(v, walk'[v], listed, Kept, now)
    BY <1>6, <2>1, InvForm
  <2>8. now <= now'
    BY <1>6, <2>1
  <2> QED BY <1>6, <1>7, <2>1, <2>5, <2>6, <2>7, <2>8, InvForm, Frame DEF K2
<1> QED BY <1>8, <1>9

LEMMA SyncCrashStep ==
    ASSUME Sync!SyncAssumption, SyncInv, NEW w \in Sync!Processes, Sync!Crash(w)
    PROVE  SyncInv'
<1>1. /\ walk' = [walk EXCEPT ![w] = Sync!Idle] /\ mem' \in {Sync!NoState, mem} /\ disk' = disk
      /\ UNCHANGED <<Sync!dashboard, Sync!server, token>>
  BY DEF Sync!Crash, Sync!session
<1>2. /\ now \in Nat /\ Sync!Idle \in WalkRec /\ WalkOK(w, Sync!Idle, listed, Kept, now)
      /\ Sync!NoState \in StateRec /\ Good(Sync!NoState.cloud, listed, Kept, now)
  BY InvForm, IdleForm
<1>3. mem' \in StateRec /\ Good(mem'.cloud, listed, Kept, now)
  BY <1>1, <1>2, InvForm
<1> QED BY <1>1, <1>2, <1>3, InvForm, LocalFrame

-----------------------------------------------------------------------------

LEMMA SyncInit ==
    ASSUME Sync!SyncAssumption
    PROVE  Sync!Init => SyncInv
<1> SUFFICES ASSUME Sync!Init PROVE SyncInv
  OBVIOUS
<1>1. /\ now = 1 /\ listed = {1} /\ token \in {"none", "good"}
      /\ disk = Sync!NoState /\ mem = Sync!NoState
      /\ walk = [w \in Sync!Processes |-> Sync!Idle]
  BY DEF Sync!Init
<1>2. 1 \in Sync!Usage
  <2>1. MaxTime \in Nat \ {0}
    BY DEF Sync!SyncAssumption
  <2> QED BY <2>1 DEF Sync!Usage
<1>3. /\ Sync!Idle \in WalkRec /\ Sync!NoState \in StateRec
      /\ Good(Sync!NoState.cloud, listed, Kept, now)
      /\ \A w : WalkOK(w, Sync!Idle, listed, Kept, now)
  <2>1. now \in Nat
    BY <1>1
  <2> QED BY <2>1, IdleForm
<1>4. SyncType
  BY <1>1, <1>2, <1>3 DEF SyncType, Sync!SessionType
<1>5. Late(listed, now)
  BY <1>1 DEF Late
<1> QED BY <1>1, <1>3, <1>4, <1>5 DEF SyncInv

LEMMA SyncStep ==
    ASSUME Sync!SyncAssumption
    PROVE  SyncInv /\ [Sync!Next]_Sync!vars => SyncInv'
<1> SUFFICES ASSUME SyncInv, [Sync!Next]_Sync!vars PROVE SyncInv'
  OBVIOUS
<1>1. CASE UNCHANGED Sync!vars
  <2>1. UNCHANGED <<now, listed, Kept, token, disk, mem, walk>>
    BY <1>1 DEF Sync!vars, Sync!dashboard, Sync!server, Sync!session, Kept
  <2> QED BY <2>1 DEF SyncInv, SyncType
<1>2. CASE Sync!Next
  <2>1. CASE Sync!Daemon
    BY <2>1, SyncTickStep, LocalStep, SaveStep DEF Sync!Daemon
  <2>2. CASE Sync!Cli
    BY <2>2, SyncCursorStep, LoginStep, SaveCliStep DEF Sync!Cli
  <2>3. ASSUME NEW w \in Sync!Processes, Sync!Step(w) PROVE SyncInv'
    BY <2>3, RefreshStep, FetchStep, FetchFailsStep, SaveTokenStep, SaveCredsStep, UnlinkStep,
       PostStep, PostFailsStep, SyncCrashStep DEF Sync!Step
  <2> QED BY <1>2, <2>1, <2>2, <2>3, UseStep, ListStep, ExpireStep DEF Sync!Next
<1> QED BY <1>1, <1>2

LEMMA InvSkips ==
    ASSUME Sync!SyncAssumption
    PROVE  SyncInv => Sync!NothingSkipped
<1> SUFFICES ASSUME SyncInv, disk.cloud.done, NEW e \in listed, Sync!Behind(disk.cloud, e)
             PROVE  e \in cloud \cup cut
  BY DEF Sync!NothingSkipped
<1>1. listed \subseteq Sync!Usage
  BY InvForm, UsageForm DEF Sync!Usage
<1>2. e \in Kept
  BY <1>1, InvForm, BehindKept DEF Sync!Behind
<1> QED BY <1>2 DEF Kept

\* "otherwise ... the unfetched tail of the original window would be skipped permanently"
\* (computeCursorSyncStartDate): once the backfill is done, every event the dashboard lists
\* that is older than the next incremental window is on the server; whichever of daemon and
\* CLI saved the watermarks last, from whichever copy, and whatever was truncated, failed,
\* or killed on the way.  Only what `login-cursor --auto` cuts off, by walking a month after
\* the backfill, is excepted.
THEOREM SkippedCorrect == Sync!SyncAssumption /\ Sync!Spec => []Sync!NothingSkipped
<1> SUFFICES ASSUME Sync!SyncAssumption PROVE Sync!Spec => []Sync!NothingSkipped
  OBVIOUS
<1>1. SyncInv /\ [Sync!Next]_Sync!vars => SyncInv'
  BY SyncStep
<1>2. Sync!Init => SyncInv
  BY SyncInit
<1>3. SyncInv => Sync!NothingSkipped
  BY InvSkips
<1> QED BY <1>1, <1>2, <1>3, PTL DEF Sync!Spec
=============================================================================
