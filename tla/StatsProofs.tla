---------------------------- MODULE StatsProofs ----------------------------
(***************************************************************************)
(* Proofs about EventStore, and about Stats, which extends it.             *)
(*                                                                         *)
(* The store, for any length of a day, any events and any batches:         *)
(* SQLite's day and the server's are the same day, a read window is        *)
(* partitioned by its interior and its slivers, rollup and count agree     *)
(* with the stored rows.                                                   *)
(*                                                                         *)
(* The statistics: each step is one of the store or leaves it alone, the   *)
(* answers are those of the rows, and the frozen ones stay so.             *)
(***************************************************************************)
EXTENDS Stats, FiniteSetTheorems, SequenceTheorems, WellFoundedInduction, TLAPS

-----------------------------------------------------------------------------
(* Days.                                                                   *)

\* What \div is, for a day of any length.
LEMMA DivBounds ==
    ASSUME NEW D \in Int, D > 0, NEW t \in Int
    PROVE  /\ t \div D \in Int
           /\ (t \div D) * D <= t
           /\ t < (t \div D) * D + D
  OBVIOUS

\* A timestamp lies in the ticks of one day only.
LEMMA DivUnique ==
    ASSUME NEW D \in Int, D > 0, NEW t \in Int, NEW q \in Int,
           q * D <= t, t < q * D + D
    PROVE  t \div D = q
<1> DEFINE p == t \div D
<1>1. p \in Int /\ p * D <= t /\ t < p * D + D
  BY DivBounds
<1> HIDE DEF p
<1>2. ASSUME NEW x \in Int, NEW y \in Int, x * D <= t, t < y * D + D PROVE x <= y
  <2>1. x * D < (y + 1) * D
    BY <1>2
  <2>2. ASSUME x >= y + 1 PROVE x * D >= (y + 1) * D
    BY <2>2
  <2> QED
    BY <2>1, <2>2
<1>3. p <= q /\ q <= p
  BY <1>1, <1>2
<1>4. p = q
  BY <1>1, <1>3
<1> QED
  BY <1>4 DEF p

\* The day SQLite computes is the day the server computes, before the epoch as
\* after it (db.ts rollDayOf and rollDaySql).
THEOREM DaysAgree ==
    \A t \in Int : rollDaySql(t) = rollDayOf(t)
<1> SUFFICES ASSUME NEW t \in Int PROVE rollDaySql(t) = rollDayOf(t)
  OBVIOUS
<1> DEFINE D == DAY_MS
           q == t \div D
           r == sqlMod(t, D) + D
<1>1. D \in Int /\ D > 0
  BY DayAssumption
<1>2. q \in Int /\ q * D <= t /\ t < q * D + D
  BY <1>1, DivBounds
<1>3. r \in Int /\ 0 <= r /\ sqlMod(r, D) = t - q * D
  <2>1. CASE t >= 0
    <3>1. r = t - q * D + D
      BY <1>1, <1>2, <2>1 DEF sqlMod, sqlDiv
    <3>2. r >= 0 /\ r \div D = 1
      BY <1>1, <1>2, <3>1, DivUnique
    <3> QED
      BY <1>1, <1>2, <3>1, <3>2 DEF sqlMod, sqlDiv
  <2>2. CASE t < 0
    <3> DEFINE p == (-t) \div D
    <3>1. p \in Int /\ p * D <= -t /\ -t < p * D + D
      BY <1>1, DivBounds
    <3>2. r = t + p * D + D
      BY <1>1, <2>2, <3>1 DEF sqlMod, sqlDiv
    <3>3. r \in Int /\ 0 < r /\ r <= D
      BY <1>1, <3>1, <3>2
    <3> HIDE DEF p, r
    <3>4. CASE r = D
      <4>1. q = -p
        <5>1. (-p) * D = -(p * D) /\ -p \in Int
          BY <1>1, <3>1
        <5> QED
          BY <1>1, <3>1, <3>2, <3>4, <5>1, DivUnique
      <4>2. r \div D = 1
        BY <1>1, <3>3, <3>4, DivUnique
      <4> QED
        BY <1>1, <3>1, <3>2, <3>3, <3>4, <4>1, <4>2 DEF sqlMod, sqlDiv
    <3>5. CASE r < D
      <4>1. q = -p - 1
        <5>1. (-p - 1) * D = -(p * D) - D /\ -p - 1 \in Int
          BY <1>1, <3>1
        <5> QED
          BY <1>1, <3>1, <3>2, <3>3, <3>5, <5>1, DivUnique
      <4>2. r \div D = 0
        BY <1>1, <3>3, <3>5, DivUnique
      <4>3. sqlMod(r, D) = r
        BY <1>1, <3>3, <4>2 DEF sqlMod, sqlDiv
      <4>4. q * D = -(p * D) - D
        BY <1>1, <3>1, <4>1
      <4> QED
        BY <1>1, <3>1, <3>2, <3>3, <4>3, <4>4
    <3> QED
      BY <1>1, <3>3, <3>4, <3>5
  <2> QED
    BY <2>1, <2>2
<1>4. sqlDiv(q * D, D) = q
  <2> HIDE DEF q
  <2>1. q * D \in Int
    BY <1>1, <1>2
  <2>2. CASE q >= 0
    <3>1. q * D >= 0
      BY <1>1, <1>2, <2>2
    <3>2. (q * D) \div D = q
      BY <1>1, <1>2, <2>1, DivUnique
    <3> QED
      BY <3>1, <3>2 DEF sqlDiv
  <2>3. CASE q < 0
    <3>1. q * D < 0 /\ -(q * D) = (-q) * D
      BY <1>1, <1>2, <2>3
    <3>2. (-(q * D)) \div D = -q
      BY <1>1, <1>2, <2>1, <3>1, DivUnique
    <3> QED
      BY <1>2, <2>1, <3>1, <3>2 DEF sqlDiv
  <2> QED
    BY <1>2, <2>2, <2>3
<1> QED
  BY <1>1, <1>2, <1>3, <1>4 DEF rollDaySql, rollDayOf

\* A read window is cut without overlap and without a gap: a timestamp is in
\* the window exactly if its day is in the interior or it is in a sliver, and
\* it is never in both (db.ts rollWindow, the half-open contract).
THEOREM WindowPartition ==
    ASSUME NEW since \in Int, NEW until \in Int, NEW t \in Int
    PROVE  LET w == rollWindow(since, until)
           IN  /\ since <= t /\ t < until
                    <=> InInterior(w, rollDayOf(t)) \/ InSliver(w, t)
               /\ ~(InInterior(w, rollDayOf(t)) /\ InSliver(w, t))
<1> DEFINE D  == DAY_MS
           d  == rollDayOf(t)
           lo == -((-since) \div D)
           hi == until \div D
           w  == rollWindow(since, until)
<1>1. D \in Int /\ D > 0
  BY DayAssumption
<1>2. d \in Int /\ d * D <= t /\ t < d * D + D
  BY <1>1, DivBounds DEF rollDayOf
<1>3. lo \in Int /\ lo * D - D < since /\ since <= lo * D
  <2>1. /\ (-since) \div D \in Int
        /\ ((-since) \div D) * D <= -since
        /\ -since < ((-since) \div D) * D + D
    BY <1>1, DivBounds
  <2>2. lo * D = -(((-since) \div D) * D)
    BY <1>1, <2>1
  <2> QED
    BY <1>1, <2>1, <2>2
<1>4. hi \in Int /\ hi * D <= until /\ until < hi * D + D
  BY <1>1, DivBounds
<1>5. w = IF hi <= lo
          THEN [dayLo |-> 0, dayHi |-> 0, from1 |-> since,
                to1 |-> IF until >= since THEN until ELSE since,
                from2 |-> 0, to2 |-> 0]
          ELSE [dayLo |-> lo, dayHi |-> hi, from1 |-> since, to1 |-> lo * D,
                from2 |-> hi * D, to2 |-> until]
  BY DEF rollWindow
<1> HIDE DEF d, lo, hi, w
<1>6. CASE hi <= lo
  BY <1>2, <1>5, <1>6 DEF InInterior, InSliver, d, w
<1>7. CASE hi > lo
  <2>1. w = [dayLo |-> lo, dayHi |-> hi, from1 |-> since, to1 |-> lo * D,
             from2 |-> hi * D, to2 |-> until]
    BY <1>3, <1>4, <1>5, <1>7
  <2>2. ASSUME NEW x \in Int, NEW y \in Int, x <= y PROVE x * D <= y * D
    BY <1>1, <2>2
  <2>3. d < lo <=> t < lo * D
    <3>1. d < lo => d + 1 <= lo /\ (d + 1) * D = d * D + D
      BY <1>1, <1>2, <1>3
    <3>2. d < lo => d * D + D <= lo * D
      BY <1>2, <1>3, <2>2, <3>1
    <3>3. lo <= d => lo * D <= d * D
      BY <1>2, <1>3, <2>2
    <3>4. d * D \in Int /\ lo * D \in Int
      BY <1>1, <1>2, <1>3
    <3> QED
      BY <1>1, <1>2, <1>3, <3>2, <3>3, <3>4
  <2>4. d < hi <=> t < hi * D
    <3>1. d < hi => d + 1 <= hi /\ (d + 1) * D = d * D + D
      BY <1>1, <1>2, <1>4
    <3>2. d < hi => d * D + D <= hi * D
      BY <1>2, <1>4, <2>2, <3>1
    <3>3. hi <= d => hi * D <= d * D
      BY <1>2, <1>4, <2>2
    <3>4. d * D \in Int /\ hi * D \in Int
      BY <1>1, <1>2, <1>4
    <3> QED
      BY <1>1, <1>2, <1>4, <3>2, <3>3, <3>4
  <2>5. lo * D <= hi * D /\ lo * D \in Int /\ hi * D \in Int
    BY <1>1, <1>3, <1>4, <1>7, <2>2
  <2>6. InInterior(w, d) <=> lo * D <= t /\ t < hi * D
    BY <1>2, <1>3, <2>1, <2>3, <2>4, <2>5 DEF InInterior
  <2>7. InSliver(w, t) <=> (since <= t /\ t < lo * D) \/ (hi * D <= t /\ t < until)
    BY <2>1 DEF InSliver
  <2> QED
    BY <1>1, <1>3, <1>4, <2>5, <2>6, <2>7 DEF d, w
<1> QED
  BY <1>3, <1>4, <1>6, <1>7 DEF d, w

-----------------------------------------------------------------------------
(* The rollup.                                                             *)

\* The timestamps of events are integers, also before the epoch.
LEMMA EventTime == \A e \in Events : e.time \in Int
  BY StoreAssumption DEF EventType

\* The midnights around a timestamp are those of its own day.
LEMMA DayTicks ==
    ASSUME NEW t \in Int, NEW d \in Int
    PROVE  d * DAY_MS <= t /\ t < (d + 1) * DAY_MS <=> d = rollDayOf(t)
<1>1. DAY_MS \in Int /\ DAY_MS > 0 /\ (d + 1) * DAY_MS = d * DAY_MS + DAY_MS
  BY DayAssumption
<1>2. ASSUME d * DAY_MS <= t, t < (d + 1) * DAY_MS PROVE d = rollDayOf(t)
  BY <1>1, <1>2, DivUnique DEF rollDayOf
<1>3. ASSUME d = rollDayOf(t) PROVE d * DAY_MS <= t /\ t < (d + 1) * DAY_MS
  BY <1>1, <1>3, DivBounds DEF rollDayOf
<1> QED
  BY <1>2, <1>3

\* One batch: the deltas of the inserted rows, then the recomputed cells of the
\* deleted ones, leave the sums of what the table now holds.
LEMMA InsertSums ==
    ASSUME NEW R \in SUBSET Events, NEW gone \in SUBSET R, NEW B \in SUBSET Events,
           NEW N \in Inserted(R \ gone, B)
    PROVE  LET queued == {<<r.user, rollDaySql(r.time)>> : r \in gone}
               after  == (R \ gone) \cup N
           IN  Repaired(Upserted(Rebuilt(R), N), queued, after) = Rebuilt(after)
<1> DEFINE queued == {<<r.user, rollDaySql(r.time)>> : r \in gone}
           after  == (R \ gone) \cup N
           back   == Rebuilt(Rescanned(queued, after))
           up     == Upserted(Rebuilt(R), N)
<1>1. N \subseteq Events /\ \A n \in N, r \in R \ gone : n # r
  BY DEF Inserted
<1>2. SUFFICES ASSUME NEW d \in Days, NEW e \in Events
               PROVE  (IF <<e.user, d>> \in queued THEN 0 ELSE up[d][e]) + back[d][e]
                        = IF e \in after /\ d = rollDaySql(e.time) THEN 1 ELSE 0
  BY DEF Repaired, Rebuilt
<1>3. e.time \in Int /\ rollDaySql(e.time) = rollDayOf(e.time)
      /\ rollDayOf(e.time) \in Int
  BY EventTime, DaysAgree, DivBounds, DayAssumption DEF rollDayOf
<1>4. \A q \in queued : q = <<q[1], q[2]>> /\ q[2] \in Int
  BY EventTime, DaysAgree, DivBounds, DayAssumption DEF rollDayOf
<1>5. e \in Rescanned(queued, after)
        <=> e \in after /\ <<e.user, rollDayOf(e.time)>> \in queued
  <2>1. \A q \in queued : q[2] * DAY_MS <= e.time /\ e.time < (q[2] + 1) * DAY_MS
                            <=> q[2] = rollDayOf(e.time)
    BY <1>3, <1>4, DayTicks
  <2>2. e \in Rescanned(queued, after)
          <=> e \in after /\ \E q \in queued : q[1] = e.user /\ q[2] = rollDayOf(e.time)
    BY <2>1 DEF Rescanned
  <2> QED
    BY <1>4, <2>2
<1>6. back[d][e] = IF e \in Rescanned(queued, after) /\ d = rollDayOf(e.time) THEN 1 ELSE 0
  BY <1>3 DEF Rebuilt
<1>7. up[d][e] = (IF e \in R /\ d = rollDayOf(e.time) THEN 1 ELSE 0)
                   + (IF e \in N /\ d = rollDayOf(e.time) THEN 1 ELSE 0)
  BY <1>3 DEF Upserted, Rebuilt
<1>8. e \in gone => <<e.user, rollDayOf(e.time)>> \in queued
  BY <1>3
<1> HIDE DEF queued, back, up
<1>9. CASE d # rollDayOf(e.time)
  BY <1>3, <1>6, <1>7, <1>9
<1>10. CASE d = rollDayOf(e.time) /\ <<e.user, d>> \in queued
  BY <1>3, <1>5, <1>6, <1>10
<1>11. CASE d = rollDayOf(e.time) /\ <<e.user, d>> \notin queued
  BY <1>1, <1>3, <1>5, <1>6, <1>7, <1>8, <1>11
<1> QED
  BY <1>9, <1>10, <1>11

\* The invariant behind SumsExact: nothing waits in the queue between two
\* methods, and clearFull empties the rollup before the table.
SumsInv ==
    /\ rows \subseteq Events
    /\ dirty = {}
    /\ pc = "up" => roll = Rebuilt(rows)
    /\ pc \in {"dropDirty", "dropEvents"} => roll = NoRoll

\* Draining an empty queue changes no sum.
LEMMA NothingQueued ==
    ASSUME SumsInv
    PROVE  Repaired(Rebuilt(rows), dirty, rows) = Rebuilt(rows)
<1>1. Repaired(Rebuilt(rows), dirty, rows)
        = [d \in Days |-> [e \in Events |-> Rebuilt(rows)[d][e] + 0]]
  BY DEF SumsInv, Repaired, Rescanned, Rebuilt
<1>2. ASSUME NEW d \in Days, NEW e \in Events
      PROVE  Rebuilt(rows)[d][e] + 0 = IF e \in rows /\ d = rollDaySql(e.time) THEN 1 ELSE 0
  BY DEF Rebuilt
<1> QED
  BY <1>1, <1>2 DEF Rebuilt

\* No statement of the store, batch, clear, audit or crash breaks the sums.
LEMMA SumsStep ==
    ASSUME SumsInv, [Next]_vars
    PROVE  SumsInv'
<1>1. ASSUME auditRollup, UNCHANGED rows PROVE roll' = Rebuilt(rows') /\ dirty' = {}
  BY <1>1 DEF auditRollup
<1>2. CASE Boot
  BY <1>1, <1>2 DEF Boot, SumsInv
<1>3. ASSUME NEW B \in Batches, insertMany(B) PROVE SumsInv'
  <2> DEFINE gone   == Superseded(B)
             queued == {<<r.user, rollDaySql(r.time)>> : r \in gone}
  <2>1. PICK N \in Inserted(rows \ gone, B) :
           /\ rows' = (rows \ gone) \cup N
           /\ roll' = Repaired(Upserted(roll, N), dirty \cup queued, rows')
    BY <1>3 DEF insertMany
  <2>2. dirty \cup queued = queued /\ pc = "up" /\ roll = Rebuilt(rows)
    BY <1>3 DEF SumsInv, insertMany
  <2>3. B \in SUBSET Events /\ rows \in SUBSET Events /\ gone \in SUBSET rows
    BY DEF Batches, SumsInv, Superseded
  <2>4. roll' = Rebuilt(rows')
    BY <2>1, <2>2, <2>3, InsertSums
  <2>5. rows' \subseteq Events
    BY <2>1, <2>3 DEF Inserted
  <2> QED
    BY <1>3, <2>4, <2>5 DEF insertMany, SumsInv
<1>4. CASE count
  BY <1>4 DEF count, SumsInv
<1>5. CASE rollArgs
  BY <1>5, NothingQueued DEF rollArgs, repairRollup, SumsInv
<1>6. ASSUME NEW force \in BOOLEAN, AdminAudit(force) PROVE SumsInv'
  <2>1. roll' = Rebuilt(rows') /\ dirty' = {}
    BY <1>1, <1>6 DEF AdminAudit
  <2> QED
    BY <1>6, <2>1 DEF AdminAudit, SumsInv
<1>7. CASE clearAllEvents
  <2>1. Rebuilt({}) = NoRoll
    BY DEF Rebuilt, NoRoll
  <2> QED
    BY <1>7, <2>1 DEF clearAllEvents, SumsInv
<1>8. ASSUME NEW u \in Users, clearUserEvents(u) PROVE SumsInv'
  <2>1. roll' = Rebuilt(rows')
    BY <1>8 DEF clearUserEvents, SumsInv, Rebuilt
  <2> QED
    BY <1>8, <2>1 DEF clearUserEvents, SumsInv
<1>9. CASE clearFull
  BY <1>9 DEF clearFull, SumsInv
<1>10. CASE DropDirty
  BY <1>10 DEF DropDirty, SumsInv
<1>11. CASE DropEvents
  <2>1. Rebuilt({}) = NoRoll
    BY DEF Rebuilt, NoRoll
  <2> QED
    BY <1>11, <2>1 DEF DropEvents, SumsInv
<1>12. CASE Crash
  BY <1>12 DEF Crash, SumsInv
<1>13. CASE UNCHANGED vars
  BY <1>13 DEF vars, SumsInv
<1> QED
  BY <1>2, <1>3, <1>4, <1>5, <1>6, <1>7, <1>8, <1>9, <1>10, <1>11, <1>12, <1>13 DEF Next

\* Whatever is inserted, superseded, cleared or interrupted, the sums a serving
\* server reads from the rollup are those of the rows of its table.
THEOREM SumsCorrect == Spec => []SumsExact
<1>1. Init => SumsInv
  BY DEF Init, SumsInv
<1>2. SumsInv /\ [Next]_vars => SumsInv'
  BY SumsStep
<1>3. SumsInv => SumsExact
  BY DEF SumsInv, SumsExact
<1> QED
  BY <1>1, <1>2, <1>3, PTL DEF Spec

-----------------------------------------------------------------------------
(* The latest timestamp of a cell.                                         *)

\* Of some events one is ranked highest: of the sets of events without such a
\* one, take a smallest; without one of its events it has one, and so has it.
LEMMA HighestExists ==
    ASSUME NEW h \in [Events -> Int], NEW X \in SUBSET Events, X # {}
    PROVE  \E e \in X : \A f \in X : h[f] <= h[e]
<1> DEFINE HasHighest(S) == \E e \in S : \A f \in S : h[f] <= h[e]
           Without == {S \in SUBSET Events : S # {} /\ ~HasHighest(S)}
           Sizes   == {Cardinality(S) : S \in Without}
<1>1. \A S \in SUBSET Events : IsFiniteSet(S) /\ Cardinality(S) \in Nat
  BY StoreAssumption, FS_Subset, FS_CardinalityType
<1>2. SUFFICES ASSUME Without # {} PROVE FALSE
  OBVIOUS
<1>3. Sizes \subseteq Nat /\ Sizes # {}
  BY <1>1, <1>2
<1>4. PICK k \in Sizes : \A n \in Sizes : ~(<<n, k>> \in OpToRel(<, Nat))
  BY <1>3, NatLessThanWellFounded, WFMin
<1>5. PICK S \in Without : k = Cardinality(S)
  OBVIOUS
<1>6. PICK x \in S : TRUE
  OBVIOUS
<1> DEFINE T == S \ {x}
<1>7. T \in SUBSET Events /\ Cardinality(T) = k - 1 /\ k \in Nat /\ k - 1 \in Nat
  <2>1. S \in SUBSET Events /\ x \in S /\ IsFiniteSet(S) /\ Cardinality(S) \in Nat
    BY <1>1, <1>5, <1>6
  <2>2. Cardinality(S \ {x}) = Cardinality(S) - 1 /\ S \ {x} \in SUBSET Events
    BY <2>1, FS_RemoveElement
  <2>3. Cardinality(S \ {x}) \in Nat
    BY <1>1, <2>2
  <2> QED
    BY <1>5, <2>1, <2>2, <2>3
<1>8. T \notin Without
  <2> SUFFICES ASSUME T \in Without PROVE FALSE
    OBVIOUS
  <2>1. k - 1 \in Sizes
    BY <1>7
  <2> HIDE DEF Sizes, T, Without
  <2>2. <<k - 1, k>> \in Nat \X Nat /\ <<k - 1, k>>[1] < <<k - 1, k>>[2]
    BY <1>7
  <2>3. <<k - 1, k>> \in OpToRel(<, Nat)
    BY <2>2 DEF OpToRel
  <2> QED
    BY <1>4, <2>1, <2>3
<1>9. \A e \in S : h[e] \in Int
  OBVIOUS
<1>10. CASE T = {}
  <2>1. S = {x}
    BY <1>6, <1>10
  <2> QED
    BY <1>5, <1>9, <2>1
<1>11. CASE T # {}
  <2>1. PICK m \in T : \A f \in T : h[f] <= h[m]
    BY <1>7, <1>8, <1>11
  <2>2. HasHighest(S)
    <3>1. CASE h[x] <= h[m]
      BY <1>6, <2>1, <3>1
    <3>2. CASE h[m] <= h[x]
      <4>1. \A f \in S : h[f] <= h[x]
        BY <1>6, <1>9, <2>1, <3>2
      <4> QED
        BY <1>6, <4>1
    <3> QED
      BY <1>6, <1>9, <2>1, <3>1, <3>2
  <2> QED
    BY <1>5, <2>2
<1> QED
  BY <1>10, <1>11

\* Some event is the latest, and some event is the oldest.
LEMMA LatestExists ==
    ASSUME NEW X \in SUBSET Events, X # {}
    PROVE  /\ \E e \in X : \A f \in X : f.time <= e.time
           /\ \E e \in X : \A f \in X : e.time <= f.time
<1> DEFINE later  == [e \in Events |-> e.time]
           sooner == [e \in Events |-> -e.time]
<1>1. \A e \in Events : e.time \in Int
  BY EventTime
<1>2. later \in [Events -> Int] /\ sooner \in [Events -> Int]
  BY <1>1
<1>3. \A e \in Events : later[e] = e.time /\ sooner[e] = -e.time
  OBVIOUS
<1> HIDE DEF later, sooner
<1>4. PICK e \in X : \A f \in X : later[f] <= later[e]
  BY <1>2, HighestExists
<1>5. PICK d \in X : \A f \in X : sooner[f] <= sooner[d]
  BY <1>2, HighestExists
<1>6. \A f \in X : f.time <= e.time
  BY <1>1, <1>3, <1>4
<1>7. \A f \in X : d.time <= f.time
  BY <1>1, <1>3, <1>5
<1> QED
  BY <1>6, <1>7

\* A set of integers has one maximum.
LEMMA MaxIs ==
    ASSUME NEW S, S \subseteq Int, NEW m \in S, \A x \in S : x <= m
    PROVE  Max(S) = m
<1>1. \A y \in S : m >= y
  OBVIOUS
<1>2. Max(S) \in S /\ \A y \in S : Max(S) >= y
  BY <1>1 DEF Max
<1>3. Max(S) \in Int /\ m \in Int /\ Max(S) >= m /\ m >= Max(S)
  BY <1>1, <1>2
<1> QED
  BY <1>3

\* What latestOf returns: the timestamp of some event no other is later than,
\* or NoTime when there is none.
LEMMA LatestIs ==
    ASSUME NEW X \in SUBSET Events
    PROVE  LET T == {e.time : e \in X}
           IN  /\ latestOf(T) \in Int
               /\ latestOf(T) \in T \cup {NoTime}
               /\ \A t \in T \cup {NoTime} : t <= latestOf(T)
<1> DEFINE T == {e.time : e \in X}
<1>1. NoTime \in Int /\ \A e \in X : e.time \in Int /\ NoTime < e.time
  BY EventTime, StoreAssumption
<1>2. T \cup {NoTime} \subseteq Int
  BY <1>1
<1>3. CASE X = {}
  <2>1. T \cup {NoTime} = {NoTime}
    BY <1>3
  <2>2. Max({NoTime}) = NoTime
    BY <1>1, MaxIs
  <2>3. latestOf(T) = NoTime
    BY <2>1, <2>2 DEF latestOf
  <2> QED
    BY <1>1, <2>1, <2>3
<1>4. CASE X # {}
  <2>1. PICK m \in X : \A f \in X : f.time <= m.time
    BY <1>4, LatestExists
  <2>2. \A t \in T \cup {NoTime} : t <= m.time
    BY <1>1, <2>1
  <2>3. latestOf(T) = m.time
    BY <1>2, <2>2, MaxIs DEF latestOf
  <2> QED
    BY <1>1, <2>2, <2>3
<1> QED
  BY <1>3, <1>4

\* The UPSERT keeps the later of what the cell had and what the batch brings.
LEMMA LatestUnion ==
    ASSUME NEW X \in SUBSET Events, NEW Y \in SUBSET Events
    PROVE  latestOf({latestOf({e.time : e \in X})} \cup {e.time : e \in Y})
             = latestOf({e.time : e \in X \cup Y})
<1> DEFINE S == {e.time : e \in X}
           T == {e.time : e \in Y}
           U == {e.time : e \in X \cup Y}
           s == latestOf(S)
           u == latestOf(U)
<1>1. U = S \cup T
  OBVIOUS
<1>2. /\ s \in Int /\ s \in S \cup {NoTime} /\ \A t \in S \cup {NoTime} : t <= s
      /\ u \in Int /\ u \in U \cup {NoTime} /\ \A t \in U \cup {NoTime} : t <= u
  <2>1. X \cup Y \in SUBSET Events
    OBVIOUS
  <2> QED
    BY <2>1, LatestIs
<1>3. S \subseteq Int /\ T \subseteq Int /\ NoTime \in Int
  BY EventTime, StoreAssumption
<1> HIDE DEF S, T, U, s, u
<1>4. u \in {s} \cup T \cup {NoTime}
  <2>1. CASE u \in S
    BY <1>1, <1>2, <2>1
  <2> QED
    BY <1>1, <1>2, <2>1
<1>5. \A t \in {s} \cup T \cup {NoTime} : t <= u
  BY <1>1, <1>2
<1>6. Max({s} \cup T \cup {NoTime}) = u
  BY <1>2, <1>3, <1>4, <1>5, MaxIs
<1> QED
  BY <1>6 DEF latestOf, s, T, u, S, U

\* The events a rebuild finds for a cell.
InCell(R, c) == {r \in R : CellOf(rollDaySql(r.time), r) = c}

\* One batch: the deltas of the inserted rows, then the recomputed cells of the
\* deleted ones, leave the latest timestamps of what the table now holds.
LEMMA InsertLatest ==
    ASSUME NEW R \in SUBSET Events, NEW gone \in SUBSET R, NEW B \in SUBSET Events,
           NEW N \in Inserted(R \ gone, B)
    PROVE  LET queued == {<<r.user, rollDaySql(r.time)>> : r \in gone}
               after  == (R \ gone) \cup N
           IN  RepairedLatest(UpsertedLatest(RebuiltLatest(R), N), queued, after)
                 = RebuiltLatest(after)
<1> DEFINE queued == {<<r.user, rollDaySql(r.time)>> : r \in gone}
           after  == (R \ gone) \cup N
           back   == RebuiltLatest(Rescanned(queued, after))
           up     == UpsertedLatest(RebuiltLatest(R), N)
<1>1. N \subseteq Events /\ after \subseteq Events
  BY DEF Inserted
<1>2. SUFFICES ASSUME NEW c \in Cells
               PROVE  (IF <<c.user, c.day>> \in queued THEN back[c] ELSE up[c])
                        = latestOf({e.time : e \in InCell(after, c)})
  BY DEF RepairedLatest, RebuiltLatest, InCell
<1>3. \A e \in Events : rollDaySql(e.time) = rollDayOf(e.time) /\ rollDayOf(e.time) \in Int
  BY EventTime, DaysAgree, DivBounds, DayAssumption DEF rollDayOf
<1>4. \A e \in Events : \A d : CellOf(d, e) = c => e.user = c.user /\ d = c.day
  BY DEF CellOf
<1>5. CASE <<c.user, c.day>> \in queued
  <2>1. back[c] = latestOf({e.time : e \in InCell(Rescanned(queued, after), c)})
    BY DEF RebuiltLatest, InCell
  <2>2. ASSUME NEW e \in InCell(after, c) PROVE e \in Rescanned(queued, after)
    <3>1. /\ e \in after /\ e.user = c.user /\ rollDaySql(e.time) = c.day
          /\ e \in Events /\ e.time \in Int /\ c.day \in Int
      BY <1>1, <1>3, <1>4, <2>2, EventTime DEF InCell
    <3>2. c.day * DAY_MS <= e.time /\ e.time < (c.day + 1) * DAY_MS
      BY <1>3, <3>1, DayTicks
    <3> DEFINE q == <<c.user, c.day>>
    <3>3. q \in queued /\ q[1] = e.user /\ q[2] = c.day
      BY <1>5, <3>1
    <3> HIDE DEF q, queued, after
    <3> QED
      BY <3>1, <3>2, <3>3 DEF Rescanned
  <2>3. InCell(Rescanned(queued, after), c) = InCell(after, c)
    BY <2>2 DEF InCell, Rescanned
  <2> QED
    BY <1>5, <2>1, <2>3
<1>6. CASE <<c.user, c.day>> \notin queued
  <2>1. InCell(after, c) = InCell(R, c) \cup InCell(N, c)
    <3>1. ASSUME NEW e \in gone PROVE CellOf(rollDaySql(e.time), e) # c
      BY <1>4, <1>6, <3>1
    <3> QED
      BY <3>1 DEF InCell
  <2>2. {n \in N : CellOf(rollDayOf(n.time), n) = c} = InCell(N, c)
    BY <1>1, <1>3 DEF InCell
  <2>3. up[c] = latestOf({latestOf({e.time : e \in InCell(R, c)})}
                           \cup {e.time : e \in InCell(N, c)})
    BY <2>2 DEF UpsertedLatest, RebuiltLatest, InCell
  <2>4. InCell(R, c) \in SUBSET Events /\ InCell(N, c) \in SUBSET Events
    BY <1>1 DEF InCell
  <2>5. latestOf({latestOf({e.time : e \in InCell(R, c)})}
                   \cup {e.time : e \in InCell(N, c)})
          = latestOf({e.time : e \in InCell(R, c) \cup InCell(N, c)})
    BY <2>4, LatestUnion
  <2> HIDE DEF up, back, queued
  <2> QED
    BY <1>6, <2>1, <2>3, <2>5
<1> QED
  BY <1>5, <1>6

\* The invariant behind LatestExact.  A boot keeps the timestamps it finds when
\* the sums are right, so the two must have been written, or cleared, together.
LatestInv ==
    /\ SumsInv
    /\ pc \in {"down", "up", "dropDirty", "dropEvents"}
    /\ pc = "up" => latest = RebuiltLatest(rows)
    /\ pc \in {"dropDirty", "dropEvents"} => latest = NoLatest
    /\ pc = "down" => \/ latest = RebuiltLatest(rows)
                      \/ roll = NoRoll /\ latest = NoLatest

\* An empty cell has the timestamp of no event.
LEMMA LatestOfNone == latestOf({}) = NoTime /\ RebuiltLatest({}) = NoLatest
<1>1. {} \cup {NoTime} = {NoTime} /\ NoTime \in Int
  BY StoreAssumption
<1>2. Max({NoTime}) = NoTime
  BY <1>1, MaxIs
<1>3. latestOf({}) = NoTime
  BY <1>1, <1>2 DEF latestOf
<1>4. ASSUME NEW c \in Cells
      PROVE  {e.time : e \in {r \in {} : CellOf(rollDaySql(r.time), r) = c}} = {}
  OBVIOUS
<1> QED
  BY <1>3, <1>4 DEF RebuiltLatest, NoLatest

\* Draining an empty queue changes no timestamp.
LEMMA NothingLater ==
    ASSUME NEW l \in {RebuiltLatest(rows), NoLatest}
    PROVE  RepairedLatest(l, {}, rows) = l
<1>1. RepairedLatest(l, {}, rows) = [c \in Cells |-> l[c]]
  BY DEF RepairedLatest
<1> QED
  BY <1>1 DEF RebuiltLatest, NoLatest

\* Whatever the audit decides, it leaves the timestamps of the stored rows: a
\* rollup that was never built differs in its sums unless there are no rows.
LEMMA AuditLatest ==
    ASSUME LatestInv, pc \in {"down", "up"}, auditRollup
    PROVE  latest' = RebuiltLatest(rows)
<1> DEFINE drained == Repaired(roll, dirty, rows)
<1>1. dirty = {} /\ rows \subseteq Events
  BY DEF LatestInv, SumsInv
<1>2. CASE drained # Rebuilt(rows)
  BY <1>2 DEF auditRollup
<1>3. CASE drained = Rebuilt(rows) /\ latest = RebuiltLatest(rows)
  BY <1>1, <1>3, NothingLater DEF auditRollup
<1>4. CASE drained = Rebuilt(rows) /\ roll = NoRoll /\ latest = NoLatest
  <2>1. rows = {}
    <3> SUFFICES ASSUME NEW e \in rows PROVE FALSE
      OBVIOUS
    <3> DEFINE d == rollDaySql(e.time)
    <3>1. e \in Events /\ d \in Days
      BY <1>1 DEF Days
    <3>2. Rebuilt(rows)[d][e] = 1
      BY <3>1 DEF Rebuilt
    <3>3. Rebuilt(Rescanned(dirty, rows))[d][e] = 0
      BY <1>1, <3>1 DEF Rebuilt, Rescanned
    <3>4. drained[d][e] = 0
      BY <1>1, <1>4, <3>1, <3>3 DEF Repaired, NoRoll
    <3> QED
      BY <1>4, <3>2, <3>4
  <2>2. latest' = RepairedLatest(latest, dirty, rows)
    BY <1>4 DEF auditRollup
  <2> QED
    BY <1>1, <1>4, <2>1, <2>2, NothingLater, LatestOfNone
<1> QED
  BY <1>2, <1>3, <1>4 DEF LatestInv

\* No statement of the store breaks the timestamps.
LEMMA LatestStep ==
    ASSUME LatestInv, [Next]_vars
    PROVE  LatestInv'
<1>1. SumsInv'
  BY SumsStep DEF LatestInv
<1>2. CASE Boot
  <2>1. latest' = RebuiltLatest(rows)
    BY <1>2, AuditLatest DEF Boot
  <2> QED
    BY <1>1, <1>2, <2>1 DEF Boot, LatestInv
<1>3. ASSUME NEW B \in Batches, insertMany(B) PROVE LatestInv'
  <2> DEFINE gone   == Superseded(B)
             queued == {<<r.user, rollDaySql(r.time)>> : r \in gone}
  <2>1. PICK N \in Inserted(rows \ gone, B) :
           /\ rows' = (rows \ gone) \cup N
           /\ latest' = RepairedLatest(UpsertedLatest(latest, N), dirty \cup queued, rows')
    BY <1>3 DEF insertMany
  <2>2. dirty \cup queued = queued /\ latest = RebuiltLatest(rows)
    BY <1>3 DEF LatestInv, SumsInv, insertMany
  <2>3. B \in SUBSET Events /\ rows \in SUBSET Events /\ gone \in SUBSET rows
    BY DEF Batches, LatestInv, SumsInv, Superseded
  <2>4. latest' = RebuiltLatest(rows')
    BY <2>1, <2>2, <2>3, InsertLatest
  <2> QED
    BY <1>1, <1>3, <2>4 DEF insertMany, LatestInv
<1>4. CASE count
  BY <1>1, <1>4 DEF count, LatestInv
<1>5. CASE rollArgs
  <2>1. dirty = {} /\ latest = RebuiltLatest(rows)
    BY <1>5 DEF rollArgs, LatestInv, SumsInv
  <2>2. latest' = RebuiltLatest(rows)
    BY <1>5, <2>1, NothingLater DEF rollArgs, repairRollup
  <2> QED
    BY <1>1, <1>5, <2>2 DEF rollArgs, LatestInv
<1>6. ASSUME NEW force \in BOOLEAN, AdminAudit(force) PROVE LatestInv'
  <2>1. latest' = RebuiltLatest(rows)
    BY <1>6, AuditLatest DEF AdminAudit
  <2> QED
    BY <1>1, <1>6, <2>1 DEF AdminAudit, LatestInv
<1>7. CASE clearAllEvents
  BY <1>1, <1>7, LatestOfNone DEF clearAllEvents, LatestInv
<1>8. ASSUME NEW u \in Users, clearUserEvents(u) PROVE LatestInv'
  <2>1. ASSUME NEW c \in Cells
        PROVE  (IF c.user = u THEN NoTime ELSE RebuiltLatest(rows)[c])
                 = latestOf({e.time : e \in InCell(rows', c)})
    <3>1. RebuiltLatest(rows)[c] = latestOf({e.time : e \in InCell(rows, c)})
      BY DEF RebuiltLatest, InCell
    <3>2. \A e \in InCell(rows, c) : e.user = c.user
      BY DEF InCell, CellOf
    <3>3. rows' = {r \in rows : r.user # u}
      BY <1>8 DEF clearUserEvents
    <3>4. CASE c.user = u
      <4>1. {e.time : e \in InCell(rows', c)} = {}
        BY <3>2, <3>3, <3>4 DEF InCell
      <4> QED
        BY <3>4, <4>1, LatestOfNone
    <3>5. CASE c.user # u
      <4>1. InCell(rows', c) = InCell(rows, c)
        BY <3>2, <3>3, <3>5 DEF InCell
      <4> QED
        BY <3>1, <3>5, <4>1
    <3> QED
      BY <3>4, <3>5
  <2>2. latest' = [c \in Cells |-> IF c.user = u THEN NoTime ELSE RebuiltLatest(rows)[c]]
    BY <1>8 DEF clearUserEvents, LatestInv
  <2>3. RebuiltLatest(rows')
          = [c \in Cells |-> latestOf({e.time : e \in InCell(rows', c)})]
    BY DEF RebuiltLatest, InCell
  <2>4. latest' = RebuiltLatest(rows')
    BY <2>1, <2>2, <2>3
  <2> QED
    BY <1>1, <1>8, <2>4 DEF clearUserEvents, LatestInv
<1>9. CASE clearFull
  BY <1>1, <1>9 DEF clearFull, LatestInv
<1>10. CASE DropDirty
  BY <1>1, <1>10 DEF DropDirty, LatestInv
<1>11. CASE DropEvents
  BY <1>1, <1>11, LatestOfNone DEF DropEvents, LatestInv
<1>12. CASE Crash
  BY <1>1, <1>12 DEF Crash, LatestInv, SumsInv
<1>13. CASE UNCHANGED vars
  BY <1>1, <1>13 DEF vars, LatestInv
<1> QED
  BY <1>2, <1>3, <1>4, <1>5, <1>6, <1>7, <1>8, <1>9, <1>10, <1>11, <1>12, <1>13 DEF Next

\* The latest timestamp a serving server reads for a cell of the rollup is that
\* of the cell's latest row, after rows were superseded and cleared as well.
THEOREM LatestCorrect == Spec => []LatestExact
<1>1. Init => LatestInv
  BY DEF Init, LatestInv, SumsInv
<1>2. LatestInv /\ [Next]_vars => LatestInv'
  BY LatestStep
<1>3. LatestInv => LatestExact
  BY DEF LatestInv, LatestExact
<1> QED
  BY <1>1, <1>2, <1>3, PTL DEF Spec

-----------------------------------------------------------------------------
(* The cached row count.                                                   *)

CountInv ==
    /\ rows \subseteq Events
    /\ cachedCount \in Nat \cup {Null}
    /\ CountCovers

\* A batch adds what it inserted to the cache; the table gains no more.
LEMMA CountStep ==
    ASSUME CountInv, [Next]_vars
    PROVE  CountInv'
<1> USE StoreAssumption
<1>1. \A R \in SUBSET Events : IsFiniteSet(R) /\ Cardinality(R) \in Nat
  BY FS_Subset, FS_CardinalityType
<1>2. CASE Boot
  BY <1>1, <1>2 DEF Boot, CountInv, CountCovers
<1>3. ASSUME NEW B \in Batches, insertMany(B) PROVE CountInv'
  <2> DEFINE left == rows \ Superseded(B)
  <2>1. PICK N \in Inserted(left, B) :
           /\ rows' = left \cup N
           /\ cachedCount' = IF cachedCount = Null THEN Null
                             ELSE cachedCount + Cardinality(N)
    BY <1>3 DEF insertMany
  <2>2. N \in SUBSET Events /\ left \in SUBSET Events /\ left \in SUBSET rows
    BY <2>1 DEF Inserted, Batches, CountInv
  <2>3. left \cap N \in SUBSET Events
    BY <2>2
  <2>4. /\ IsFiniteSet(left) /\ IsFiniteSet(N) /\ IsFiniteSet(rows)
        /\ Cardinality(left) \in Nat /\ Cardinality(N) \in Nat
        /\ Cardinality(rows) \in Nat /\ Cardinality(left \cap N) \in Nat
    BY <1>1, <2>2, <2>3 DEF CountInv
  <2>5. Cardinality(rows') <= Cardinality(left) + Cardinality(N)
    <3>1. Cardinality(left \cup N)
            = Cardinality(left) + Cardinality(N) - Cardinality(left \cap N)
      BY <2>4, FS_Union
    <3> HIDE DEF left
    <3> QED
      BY <2>1, <2>4, <3>1
  <2>6. Cardinality(left) <= Cardinality(rows)
    BY <2>2, <2>4, FS_Subset
  <2>7. rows' \in SUBSET Events /\ Cardinality(rows') \in Nat
    BY <1>1, <2>1, <2>2
  <2> HIDE DEF left
  <2> QED
    BY <2>1, <2>4, <2>5, <2>6, <2>7 DEF CountInv, CountCovers
<1>4. CASE count
  BY <1>1, <1>4 DEF count, CountInv, CountCovers
<1>5. CASE rollArgs
  BY <1>5 DEF rollArgs, CountInv, CountCovers
<1>6. ASSUME NEW force \in BOOLEAN, AdminAudit(force) PROVE CountInv'
  BY <1>6 DEF AdminAudit, CountInv, CountCovers
<1>7. CASE clearAllEvents
  BY <1>7 DEF clearAllEvents, CountInv, CountCovers
<1>8. ASSUME NEW u \in Users, clearUserEvents(u) PROVE CountInv'
  BY <1>8 DEF clearUserEvents, CountInv, CountCovers
<1>9. CASE clearFull
  BY <1>9 DEF clearFull, CountInv, CountCovers
<1>10. CASE DropDirty
  BY <1>10 DEF DropDirty, CountInv, CountCovers
<1>11. CASE DropEvents
  <2>1. Cardinality(rows') = 0 /\ rows' \subseteq Events
    BY <1>11, FS_EmptySet DEF DropEvents
  <2> QED
    BY <1>11, <2>1 DEF DropEvents, CountInv, CountCovers
<1>12. CASE Crash
  BY <1>12 DEF Crash, CountInv, CountCovers
<1>13. CASE UNCHANGED vars
  BY <1>13 DEF vars, CountInv, CountCovers
<1> QED
  BY <1>2, <1>3, <1>4, <1>5, <1>6, <1>7, <1>8, <1>9, <1>10, <1>11, <1>12, <1>13 DEF Next

\* The row count behind /health is never short of the table, whatever was
\* inserted, superseded, cleared or interrupted since it was cached.
THEOREM CountCorrect == Spec => []CountCovers
<1>1. Init => CountInv
  BY DEF Init, CountInv, CountCovers
<1>2. CountInv /\ [Next]_vars => CountInv'
  BY CountStep
<1>3. CountInv => CountCovers
  BY DEF CountInv
<1> QED
  BY <1>1, <1>2, <1>3, PTL DEF Spec

-----------------------------------------------------------------------------
(* The statistics implement the store.                                     *)

\* What the routes and the cache add changes no step of the store: ingest, the
\* mirror, the admin's clears and audits do there what the store's methods do.
LEMMA StoreStep == [StatsNext]_statsVars => [Next]_vars
<1> SUFFICES ASSUME [StatsNext]_statsVars PROVE [Next]_vars
  OBVIOUS
<1>1. CASE \E q \in Requests : Ask(q)
  BY <1>1 DEF Ask, Next
<1>2. CASE \E i \in DOMAIN statsCache : Expire(i)
  BY <1>2 DEF Expire
<1>3. CASE UncachedRead
  BY <1>3 DEF UncachedRead, Next
<1>4. CASE \E u \in Users, B \in Batches, c \in Companies \cup {Null} : Ingest(u, B, c)
  BY <1>4 DEF Ingest, Next
<1>5. CASE \E B \in Batches : MirrorInsert(B)
  BY <1>5 DEF MirrorInsert, Next
<1>6. CASE \E force \in BOOLEAN : RollupAudit(force)
  BY <1>6 DEF RollupAudit, Next
<1>7. CASE ClearAll
  BY <1>7 DEF ClearAll, Next
<1>8. CASE \E u \in Users, reset \in BOOLEAN : ClearUser(u, reset)
  BY <1>8 DEF ClearUser, Next
<1>9. CASE ClearFull
  BY <1>9 DEF ClearFull, Next
<1>10. CASE Regroup
  BY <1>10 DEF Regroup
<1>11. CASE \E raw \in SUBSET PriceNames : refreshFromUpstream(raw)
  BY <1>11 DEF refreshFromUpstream
<1>12. CASE Restart
  BY <1>12 DEF Restart, Next
<1>13. CASE UNCHANGED statsVars
  BY <1>13 DEF statsVars
<1> QED
  BY <1>1, <1>2, <1>3, <1>4, <1>5, <1>6, <1>7, <1>8, <1>9, <1>10, <1>11, <1>12, <1>13
  DEF StatsNext

\* The statistics implement the event store.
THEOREM ImplementsStore == StatsSpec => Spec
<1>1. StatsInit => Init
  BY DEF StatsInit
<1> QED
  BY <1>1, StoreStep, PTL DEF StatsSpec, Spec

\* The rollup every route reads sums exactly the rows of the table, whatever
\* writers, groupings and answers go on around it.
THEOREM StatsSums == StatsSpec => []SumsExact
BY ImplementsStore, SumsCorrect, PTL

\* So it does for the latest timestamps and for the row count behind /health.
THEOREM StatsLatest == StatsSpec => []LatestExact
BY ImplementsStore, LatestCorrect, PTL

THEOREM StatsCount == StatsSpec => []CountCovers
BY ImplementsStore, CountCorrect, PTL

-----------------------------------------------------------------------------
(* Answers.                                                                *)

\* The whole days of a window from the rollup and its slivers from the table
\* make the window's rows: a day in the interior has no row in a sliver, and
\* another day's rows are all in one.
LEMMA SourceExact ==
    ASSUME rows \subseteq Events, roll = Rebuilt(rows), latest = RebuiltLatest(rows),
           NEW since \in Int, NEW until \in Int
    PROVE  rollSource(since, until) = WindowRows(since, until)
<1> DEFINE w   == rollWindow(since, until)
           raw == {e \in rows : InSliver(w, e.time)}
           R   == {e \in rows : since <= e.time /\ e.time < until}
<1>1. ASSUME NEW e \in rows
      PROVE  /\ e.time \in Int /\ rollDayOf(e.time) \in Int
             /\ rollDaySql(e.time) = rollDayOf(e.time)
             /\ e \in R <=> InInterior(w, rollDayOf(e.time)) \/ e \in raw
             /\ ~(InInterior(w, rollDayOf(e.time)) /\ e \in raw)
  <2>1. e.time \in Int
    BY EventTime
  <2>2. rollDayOf(e.time) \in Int /\ rollDaySql(e.time) = rollDayOf(e.time)
    BY <2>1, DaysAgree, DivBounds, DayAssumption DEF rollDayOf
  <2>3. /\ e \in R <=> InInterior(w, rollDayOf(e.time)) \/ InSliver(w, e.time)
        /\ ~(InInterior(w, rollDayOf(e.time)) /\ InSliver(w, e.time))
    BY <2>1, WindowPartition
  <2> QED
    BY <2>1, <2>2, <2>3
<1> HIDE DEF w
<1>2. ASSUME NEW d \in Days, NEW e \in Events
      PROVE  (IF InInterior(w, d) THEN roll[d][e] ELSE 0)
                 + (IF e \in raw /\ d = rollDaySql(e.time) THEN 1 ELSE 0)
               = IF e \in R /\ d * DAY_MS <= e.time /\ e.time < (d + 1) * DAY_MS
                   THEN 1 ELSE 0
  <2>1. d \in Int
    BY EventTime, DaysAgree, DivBounds, DayAssumption DEF Days, rollDayOf
  <2>2. roll[d][e] = IF e \in rows /\ d = rollDaySql(e.time) THEN 1 ELSE 0
    BY DEF Rebuilt
  <2>3. e \in rows => (d * DAY_MS <= e.time /\ e.time < (d + 1) * DAY_MS
                         <=> d = rollDayOf(e.time))
    BY <1>1, <2>1, DayTicks
  <2>4. e \notin rows => e \notin raw /\ e \notin R
    OBVIOUS
  <2> HIDE DEF raw, R
  <2>5. CASE e \in rows /\ d = rollDayOf(e.time)
    BY <1>1, <2>2, <2>3, <2>5
  <2>6. CASE ~(e \in rows /\ d = rollDayOf(e.time))
    BY <1>1, <2>2, <2>3, <2>4, <2>6
  <2> QED
    BY <2>5, <2>6
<1>3. ASSUME NEW c \in Cells
      PROVE  latestOf((IF InInterior(w, c.day) THEN {latest[c]} ELSE {})
                 \cup {e.time : e \in {r \in raw : CellOf(rollDaySql(r.time), r) = c}})
               = latestOf({e.time : e \in {r \in R : CellOf(r.time \div DAY_MS, r) = c}})
  <2>1. {r \in R : CellOf(r.time \div DAY_MS, r) = c} = InCell(R, c)
    BY <1>1 DEF InCell, rollDayOf
  <2>2. \A e \in rows : CellOf(rollDaySql(e.time), e) = c => rollDayOf(e.time) = c.day
    BY <1>1 DEF CellOf
  <2>3. InCell(rows, c) \in SUBSET Events /\ InCell(raw, c) \in SUBSET Events
    BY DEF InCell
  <2>4. CASE InInterior(w, c.day)
    <3>1. InCell(R, c) = InCell(rows, c) /\ InCell(raw, c) = {}
      BY <1>1, <2>2, <2>4 DEF InCell
    <3>2. latest[c] = latestOf({e.time : e \in InCell(rows, c)})
      BY DEF RebuiltLatest, InCell
    <3>3. latestOf({latest[c]} \cup {e.time : e \in InCell(raw, c)})
            = latestOf({e.time : e \in InCell(rows, c) \cup InCell(raw, c)})
      BY <2>3, <3>2, LatestUnion
    <3> QED
      BY <2>1, <2>4, <3>1, <3>3 DEF InCell
  <2>5. CASE ~InInterior(w, c.day)
    <3>1. InCell(R, c) = InCell(raw, c)
      BY <1>1, <2>2, <2>5 DEF InCell
    <3> QED
      BY <2>1, <2>5, <3>1 DEF InCell
  <2> QED
    BY <2>4, <2>5
<1> QED
  BY <1>2, <1>3 DEF rollSource, WindowRows, w

\* What the store promises a read: its rows are events, and the rollup is theirs.
ServedInv == pc = "up" =>
    /\ rows \subseteq Events
    /\ roll = Rebuilt(rows)
    /\ latest = RebuiltLatest(rows)

\* While the server serves, every answer read from the rollup is the answer
\* over the rows of the table: for any window, route, scope, grain and price list.
THEOREM AnswersExact == StatsSpec => []StatsExact
<1>1. Spec => []ServedInv
  <2>1. Init => LatestInv
    BY DEF Init, LatestInv, SumsInv
  <2>2. LatestInv /\ [Next]_vars => LatestInv'
    BY LatestStep
  <2>3. LatestInv => ServedInv
    BY DEF LatestInv, SumsInv, ServedInv
  <2> QED
    BY <2>1, <2>2, <2>3, PTL DEF Spec
<1>2. ServedInv => StatsExact
  <2> SUFFICES ASSUME ServedInv, pc = "up" PROVE StatsExact
    BY DEF StatsExact
  <2>1. \A since, until \in Int : rollSource(since, until) = WindowRows(since, until)
    BY SourceExact DEF ServedInv
  <2>2. \A q \in Requests : q.since \in Int /\ q.until \in Int
    BY StatsAssumption DEF RequestType
  <2>3. WindowEdges \subseteq Int
    BY StoreAssumption
  <2> QED
    BY <2>1, <2>2, <2>3 DEF StatsExact
<1> QED
  BY <1>1, <1>2, ImplementsStore, PTL

-----------------------------------------------------------------------------
(* The response cache.                                                     *)

\* The positions up to i.
Upto(K, i) == {h \in K : h <= i}

LEMMA UptoNext ==
    ASSUME NEW K \in SUBSET Nat, NEW i \in Nat, i # 0
    PROVE  /\ i \notin Upto(K, i - 1)
           /\ i \in K => Upto(K, i) = Upto(K, i - 1) \cup {i}
           /\ i \notin K => Upto(K, i) = Upto(K, i - 1)
<1>1. \A h \in K : h <= i <=> h <= i - 1 \/ h = i
  OBVIOUS
<1>2. ~(i <= i - 1)
  OBVIOUS
<1> QED
  BY <1>1, <1>2 DEF Upto

\* The j-th of some positions: the first up to which there are j of them.
LEMMA NthExists ==
    ASSUME NEW n \in Nat, NEW K \in SUBSET (1 .. n), NEW j \in 1 .. Cardinality(K)
    PROVE  \E i \in K : Cardinality(Upto(K, i)) = j
<1> DEFINE Enough == {i \in Nat : Cardinality(Upto(K, i)) >= j}
<1>1. K \in SUBSET Nat /\ \A h \in K : 1 <= h /\ h <= n
  OBVIOUS
<1>2. IsFiniteSet(K) /\ Cardinality(K) \in Nat
  <2>1. IsFiniteSet(1 .. n)
    BY FS_Interval
  <2> QED
    BY <2>1, FS_Subset, FS_CardinalityType
<1>3. j \in Nat /\ 1 <= j /\ j <= Cardinality(K)
  BY <1>2
<1>4. \A i \in Nat : IsFiniteSet(Upto(K, i)) /\ Cardinality(Upto(K, i)) \in Nat
  <2>1. \A i \in Nat : Upto(K, i) \in SUBSET K
    BY DEF Upto
  <2> QED
    BY <1>2, <2>1, FS_Subset, FS_CardinalityType
<1>5. n \in Enough
  <2>1. Upto(K, n) = K
    BY <1>1 DEF Upto
  <2> QED
    BY <1>2, <1>3, <2>1
<1>6. Cardinality(Upto(K, 0)) = 0
  <2>1. \A h \in K : ~(h <= 0)
    BY <1>1
  <2>2. Upto(K, 0) = {}
    BY <2>1 DEF Upto
  <2> QED
    BY <2>2, FS_EmptySet
<1>7. PICK i \in Enough : \A m \in Enough : ~(<<m, i>> \in OpToRel(<, Nat))
  <2>1. Enough \subseteq Nat /\ Enough # {}
    BY <1>5
  <2> QED
    BY <2>1, NatLessThanWellFounded, WFMin
<1>8. i \in Nat /\ Cardinality(Upto(K, i)) >= j
  BY <1>7
<1>9. i # 0 /\ i - 1 \in Nat
  BY <1>3, <1>6, <1>8
<1>10. i - 1 \notin Enough
  <2>1. <<i - 1, i>> \in Nat \X Nat /\ <<i - 1, i>>[1] < <<i - 1, i>>[2]
    BY <1>8, <1>9
  <2>2. <<i - 1, i>> \in OpToRel(<, Nat)
    BY <2>1 DEF OpToRel
  <2> HIDE DEF Enough
  <2> QED
    BY <1>7, <2>2
<1>11. /\ Cardinality(Upto(K, i - 1)) < j
       /\ Cardinality(Upto(K, i - 1)) \in Nat /\ IsFiniteSet(Upto(K, i - 1))
  BY <1>3, <1>4, <1>9, <1>10
<1> HIDE DEF Enough
<1>12. CASE i \in K
  <2>1. Upto(K, i) = Upto(K, i - 1) \cup {i} /\ i \notin Upto(K, i - 1)
    BY <1>1, <1>8, <1>9, <1>12, UptoNext
  <2>2. Cardinality(Upto(K, i)) = Cardinality(Upto(K, i - 1)) + 1
    BY <1>11, <2>1, FS_AddElement
  <2>3. Cardinality(Upto(K, i)) = j
    BY <1>3, <1>8, <1>11, <2>2
  <2> QED
    BY <1>12, <2>3
<1>13. CASE i \notin K
  <2>1. Upto(K, i) = Upto(K, i - 1)
    BY <1>1, <1>8, <1>9, <1>13, UptoNext
  <2> QED
    BY <1>3, <1>8, <1>11, <2>1
<1> QED
  BY <1>12, <1>13

EntryType == [key : Requests, frozen : BOOLEAN]

\* What is left of the cache are the entries at the positions asked for.
LEMMA EntriesKept ==
    ASSUME statsCache \in Seq(EntryType), NEW K \in SUBSET DOMAIN statsCache
    PROVE  /\ entriesAt(K) \in Seq(EntryType)
           /\ \A x \in Range(entriesAt(K)) : \E i \in K : x = statsCache[i]
<1> DEFINE n == Len(statsCache)
           at(j) == CHOOSE i \in K : Cardinality({h \in K : h <= i}) = j
<1>1. n \in Nat /\ DOMAIN statsCache = 1 .. n
  OBVIOUS
<1>2. Cardinality(K) \in Nat
  <2>1. IsFiniteSet(1 .. n) /\ K \in SUBSET (1 .. n)
    BY <1>1, FS_Interval
  <2> QED
    BY <2>1, FS_Subset, FS_CardinalityType
<1>3. ASSUME NEW j \in 1 .. Cardinality(K) PROVE at(j) \in K
  <2>1. \E i \in K : Cardinality(Upto(K, i)) = j
    BY <1>1, NthExists
  <2> QED
    BY <2>1 DEF Upto
<1>4. entriesAt(K) = [j \in 1 .. Cardinality(K) |-> statsCache[at(j)]]
  BY DEF entriesAt
<1> HIDE DEF at, n
<1>5. \A j \in 1 .. Cardinality(K) : statsCache[at(j)] \in EntryType
  BY <1>1, <1>3
<1>6. entriesAt(K) \in Seq(EntryType)
  BY <1>2, <1>4, <1>5, IsASeq
<1> QED
  BY <1>3, <1>4, <1>6 DEF Range

\* An answer depends on nothing but the lines it is read from, the groups and
\* the prices.
LEMMA BodySteady ==
    ASSUME UNCHANGED <<groups, prices>>, NEW W, NEW q
    PROVE  body(W, q)' = body(W, q)
<1>1. company' = company /\ category' = category /\ categories' = categories
      /\ prices' = prices
  BY DEF groups
<1>2. \A com, cat : InScope(com, cat)' = InScope(com, cat)
  BY <1>1 DEF InScope
<1>3. \A n : lookup(n)' = lookup(n)
  BY <1>1 DEF lookup
<1>4. \A D, E : costSummed(W, D, E)' = costSummed(W, D, E)
  BY <1>3 DEF costSummed
<1>5. \A D, U, p : costWins(W, D, U, p)' = costWins(W, D, U, p)
  BY <1>3 DEF costWins
<1>6. \A D, E : unpriced(W, D, E)' = unpriced(W, D, E)
  BY <1>3 DEF unpriced
<1>7. \A U : adminLeaderboard(W, U)' = adminLeaderboard(W, U)
  BY <1>1 DEF adminLeaderboard
<1>8. \A U, n : getAdmin(W, U, n)' = getAdmin(W, U, n)
  <2> SUFFICES ASSUME NEW U, NEW n PROVE getAdmin(W, U, n)' = getAdmin(W, U, n)
    OBVIOUS
  <2> DEFINE rowsOf == adminLeaderboard(W, U)
             found  == Of(DOMAIN rowsOf)
             priced == IF n = Null THEN Assistant ELSE Named(n)
             shown  == IF n = Null THEN DOMAIN rowsOf
                       ELSE usersIn(W, Days, found \cap priced)
             board  == [u \in shown |->
                          [row |-> IF n = Null THEN rowsOf[u]
                                   ELSE sliceRow(W, rowsOf[u], u, n),
                           cost |-> costSummed(W, Days, Of({u}) \cap priced)]]
             models == [m \in modelsIn(W, Days, found) |->
                          [sum |-> Sum(W, Days, found \cap Named(m)),
                           cost |-> costSummed(W, Days, found \cap Named(m)),
                           unknownPrice |-> m \in unpriced(W, Days, found)]]
             comps  == {company[u] : u \in Users} \ {Null}
             cats   == [k \in Categories |->
                          <<categories[k], Cardinality({u \in Users : category[u] = k})>>]
  <2>1. getAdmin(W, U, n) = [leaderboard |-> board, byModel |-> models,
                             companies |-> comps, categories |-> cats]
    BY DEF getAdmin
  <2>2. getAdmin(W, U, n)' = [leaderboard |-> board, byModel |-> models,
                              companies |-> comps, categories |-> cats]'
    BY DEF getAdmin
  <2>3. rowsOf' = rowsOf
    BY <1>7
  <2>4. comps' = comps /\ cats' = cats
    BY <1>1
  <2> HIDE DEF rowsOf
  <2>5. found' = found /\ shown' = shown
    BY <2>3
  <2>6. board' = board
    BY <1>4, <2>3, <2>5
  <2>7. models' = models
    BY <1>4, <1>6, <2>5
  <2> HIDE DEF board, models, comps, cats
  <2> QED
    BY <2>1, <2>2, <2>4, <2>6, <2>7
<1>9. \A D, U : byUserRows(W, D, U)' = byUserRows(W, D, U)
  BY <1>5 DEF byUserRows
<1>10. \A b, U, u : getTimeseries(W, b, U, u)' = getTimeseries(W, b, U, u)
  <2> SUFFICES ASSUME NEW b, NEW U, NEW u
               PROVE  getTimeseries(W, b, U, u)' = getTimeseries(W, b, U, u)
    OBVIOUS
  <2> DEFINE modelRows == timeseriesByModel(W, b, U)
             counts    == timeseriesCountsByBucket(W, b, U)
             daysOf(k) == {d \in Days : bucketKey(b, d) = k}
             at(k)     == [sums |-> [n \in modelsIn(W, daysOf(k), Of(U)) |->
                                       modelRows[<<k, n>>]],
                           messages |-> counts[k],
                           cost |-> costWins(W, daysOf(k), U, FALSE),
                           byUser |-> IF u THEN byUserRows(W, daysOf(k), U) ELSE {}]
  <2>1. getTimeseries(W, b, U, u) = [k \in DOMAIN counts |-> at(k)]
    BY DEF getTimeseries
  <2>2. getTimeseries(W, b, U, u)' = [k \in DOMAIN counts |-> at(k)']
    BY DEF getTimeseries
  <2>3. ASSUME NEW k PROVE at(k)' = at(k)
    BY <1>5, <1>9
  <2> QED
    BY <2>1, <2>2, <2>3
<1> QED
  BY <1>2, <1>8, <1>10 DEF body

\* The oldest event of a batch, and that it is.
LEMMA OldestTime ==
    ASSUME NEW B \in Batches, B # {}
    PROVE  /\ Min({e.time : e \in B}) \in Int
           /\ \A e \in B : e.time \in Int /\ Min({f.time : f \in B}) <= e.time
<1> DEFINE T == {e.time : e \in B}
<1>1. B \subseteq Events /\ \A e \in Events : e.time \in Int
  BY EventTime DEF Batches
<1>2. PICK m \in B : \A e \in B : m.time <= e.time
  BY <1>1, LatestExists
<1>3. m.time \in T /\ \A t \in T : m.time <= t
  BY <1>2
<1>4. T \subseteq Int /\ \A e \in B : e.time \in T
  BY <1>1
<1> HIDE DEF T
<1>5. Min(T) \in T /\ \A t \in T : Min(T) <= t
  BY <1>3 DEF Min
<1>6. Min(T) \in Int /\ \A e \in B : e.time \in Int /\ Min(T) <= e.time
  BY <1>4, <1>5
<1> QED
  BY <1>6 DEF T

\* A batch that lands in no frozen window left in the cache changes the rows of
\* none: what it adds is no older than its oldest event, nor is what it drops.
LEMMA BatchElsewhere ==
    ASSUME rows \subseteq Events, NEW B \in Batches, B # {}, insertMany(B),
           NEW since \in Int, NEW until \in Int, until <= Min({e.time : e \in B})
    PROVE  WindowRows(since, until)' = WindowRows(since, until)
<1> DEFINE gone == Superseded(B)
           m    == Min({e.time : e \in B})
<1>1. m \in Int /\ until <= m /\ \A e \in B : e.time \in Int /\ m <= e.time
  BY OldestTime
<1> HIDE DEF m
<1>2. \A e \in rows : e.time \in Int
  BY EventTime
<1>3. \A e \in B : until <= e.time
  BY <1>1
<1>4. \A r \in gone : until <= r.time
  BY <1>1, <1>2, <1>3 DEF Superseded
<1>5. PICK N \in SUBSET B : rows' = (rows \ gone) \cup N
  BY DEF insertMany, Inserted
<1> HIDE DEF gone
<1>6. {e \in rows' : since <= e.time /\ e.time < until}
        = {e \in rows : since <= e.time /\ e.time < until}
  <2>1. \A e \in gone : e \in rows => ~(e.time < until)
    BY <1>2, <1>4
  <2>2. \A e \in N : ~(e.time < until)
    BY <1>1, <1>3
  <2> QED
    BY <1>5, <2>1, <2>2
<1> QED
  BY <1>6 DEF WindowRows

\* What the cache holds: requests and whether they were frozen.
CacheInv ==
    /\ rows \subseteq Events
    /\ statsCache \in Seq(EntryType)

\* The cache is appended to, cut, or left alone.
LEMMA CacheStep ==
    ASSUME CacheInv, [StatsNext]_statsVars
    PROVE  CacheInv'
<1>1. rows' \subseteq Events
  <2>1. [Next]_vars
    BY StoreStep
  <2>2. rows' \subseteq rows \/ \E B \in Batches : insertMany(B)
    BY <2>1 DEF Next, Boot, count, rollArgs, AdminAudit, clearAllEvents, clearUserEvents,
                clearFull, DropDirty, DropEvents, Crash, vars
  <2> QED
    BY <2>2 DEF CacheInv, insertMany, Inserted, Batches
<1>2. statsCache' \in Seq(EntryType)
  <2>1. <<>> \in Seq(EntryType) /\ statsCache \in Seq(EntryType)
    BY DEF CacheInv
  <2>2. ASSUME NEW q \in Requests, Ask(q) PROVE statsCache' \in Seq(EntryType)
    <3>1. PICK frozen \in BOOLEAN : writeStatsCache(q, frozen)
      BY <2>2 DEF Ask
    <3>2. [key |-> q, frozen |-> frozen] \in EntryType
      BY Zenon DEF EntryType
    <3>3. Len(statsCache) >= STATS_CACHE_MAX_ENTRIES => Tail(statsCache) \in Seq(EntryType)
      BY <2>1, StatsAssumption
    <3>4. Len(statsCache) \in Nat /\ STATS_CACHE_MAX_ENTRIES \in Nat
      BY <2>1, StatsAssumption
    <3> HIDE DEF EntryType
    <3> QED
      BY <2>1, <3>1, <3>2, <3>3, <3>4 DEF writeStatsCache
  <2>3. ASSUME NEW i \in DOMAIN statsCache, Expire(i)
        PROVE  statsCache' \in Seq(EntryType)
    <3>1. Len(statsCache) \in Nat /\ i \in 1 .. Len(statsCache)
      BY <2>1
    <3>2. /\ SubSeq(statsCache, 1, i - 1) \in Seq(EntryType)
          /\ SubSeq(statsCache, i + 1, Len(statsCache)) \in Seq(EntryType)
      <4>1. /\ \A j \in 1 .. (i - 1) : statsCache[j] \in EntryType
            /\ \A j \in (i + 1) .. Len(statsCache) : statsCache[j] \in EntryType
        BY <2>1, <3>1
      <4> QED
        BY <3>1, <4>1, SubSeqProperties
    <3> QED
      BY <2>3, <3>2, ConcatProperties DEF Expire, RemoveAt
  <2>4. ASSUME NEW B PROVE keptByIngest(B) \in Seq(EntryType)
    BY <2>1, EntriesKept DEF keptByIngest
  <2>5. CASE \E u \in Users, B \in Batches, c \in Companies \cup {Null} : Ingest(u, B, c)
    BY <2>1, <2>4, <2>5 DEF Ingest
  <2>6. CASE UncachedRead \/ \E B \in Batches : MirrorInsert(B)
    BY <2>1, <2>6 DEF UncachedRead, MirrorInsert, invalidateStatsCache
  <2>7. CASE \/ \E force \in BOOLEAN : RollupAudit(force)
             \/ ClearAll
             \/ \E u \in Users, reset \in BOOLEAN : ClearUser(u, reset)
             \/ ClearFull
    BY <2>1, <2>7 DEF RollupAudit, ClearAll, ClearUser, ClearFull, invalidateStatsCache
  <2>8. CASE Regroup \/ Restart \/ \E raw \in SUBSET PriceNames : refreshFromUpstream(raw)
    BY <2>1, <2>8 DEF Regroup, Restart, refreshFromUpstream, invalidateStatsCache
  <2>9. CASE UNCHANGED statsVars
    BY <2>1, <2>9 DEF statsVars
  <2> QED
    BY <2>2, <2>3, <2>5, <2>6, <2>7, <2>8, <2>9 DEF StatsNext
<1> QED
  BY <1>1, <1>2 DEF CacheInv

\* A batch whose events were all there already only drops rows, and those of the
\* local fallback.
LEMMA NothingInserted ==
    ASSUME NEW B \in Batches, insertMany(B), ~Inserts(B), rows' # rows
    PROVE  Unannounced
<1> DEFINE gone == Superseded(B)
<1>1. PICK N \in Inserted(rows \ gone, B) : rows' = (rows \ gone) \cup N
  BY DEF insertMany
<1>2. {n.key : n \in N} = {b.key : b \in B} \ {r.key : r \in rows \ gone}
  BY <1>1 DEF Inserted
<1>3. {b.key : b \in B} \subseteq {r.key : r \in rows \ gone}
  BY DEF Inserts
<1>4. N = {}
  <2>1. {n.key : n \in N} = {}
    BY <1>2, <1>3
  <2> QED
    BY <2>1
<1>5. \A r \in gone : r.source = "cursor_local"
  BY DEF Superseded
<1> HIDE DEF gone
<1> QED
  BY <1>1, <1>4, <1>5 DEF Unannounced

\* The entry x, if it is frozen and kept, is still the answer.
StillTrue(x) ==
    x.frozen /\ <<rows, groups>>' # <<rows, groups>> /\ ~Unannounced =>
        body(WindowRows(x.key.since, x.key.until), x.key)
            = body(WindowRows(x.key.since, x.key.until), x.key)'

\* Only an ingest changes rows or groups and keeps an entry, and it keeps those
\* whose windows it does not land in.
LEMMA FrozenStep ==
    ASSUME CacheInv, [StatsNext]_statsVars,
           NEW x \in Range(statsCache) \cap Range(statsCache)'
    PROVE  StillTrue(x)
<1>1. statsCache' # <<>>
  BY DEF Range
<1>2. PICK p \in DOMAIN statsCache : x = statsCache[p]
  BY DEF Range
<1>3. x.key \in Requests /\ x.key.since \in Int /\ x.key.until \in Int
  <2>1. x \in EntryType
    BY <1>2 DEF CacheInv
  <2> QED
    BY <2>1, StatsAssumption DEF EntryType, RequestType
<1>4. CASE UNCHANGED <<rows, groups>>
  BY <1>4 DEF StillTrue
<1>5. ASSUME NEW B \in Batches, MirrorInsert(B) PROVE StillTrue(x)
  <2>1. ~Inserts(B) /\ insertMany(B) /\ UNCHANGED groups
    BY <1>1, <1>5 DEF MirrorInsert, invalidateStatsCache
  <2>2. rows' # rows => Unannounced
    BY <2>1, NothingInserted
  <2> QED
    BY <2>1, <2>2 DEF StillTrue
<1>6. ASSUME NEW u \in Users, NEW B \in Batches, NEW c \in Companies \cup {Null},
             Ingest(u, B, c)
      PROVE  StillTrue(x)
  <2>1. /\ insertMany(B) /\ B # {}
        /\ UNCHANGED <<groups, prices>>
    BY <1>1, <1>6 DEF Ingest, groups
  <2>2. CASE ~Inserts(B)
    BY <2>1, <2>2, NothingInserted DEF StillTrue
  <2>3. CASE Inserts(B) /\ x.frozen
    <3>1. statsCache' = keptByIngest(B)
      BY <1>1, <1>6, <2>3 DEF Ingest
    <3>2. PICK i \in DOMAIN statsCache :
             /\ x = statsCache[i]
             /\ ~(statsCache[i].frozen
                    /\ statsCache[i].key.until > Min({e.time : e \in B}))
      <4> DEFINE K == {i \in DOMAIN statsCache :
                         ~(/\ statsCache[i].frozen
                           /\ statsCache[i].key.until > Min({e.time : e \in B}))}
      <4>1. \A y \in Range(entriesAt(K)) : \E i \in K : y = statsCache[i]
        BY EntriesKept DEF CacheInv
      <4>2. x \in Range(entriesAt(K))
        BY <3>1 DEF keptByIngest, Range
      <4> QED
        BY <4>1, <4>2
    <3>3. ~(x.key.until > Min({e.time : e \in B}))
      BY <2>3, <3>2
    <3>4. Min({e.time : e \in B}) \in Int
      BY <2>1, OldestTime
    <3>5. x.key.until <= Min({e.time : e \in B})
      BY <1>3, <3>3, <3>4
    <3>6. WindowRows(x.key.since, x.key.until)' = WindowRows(x.key.since, x.key.until)
      BY <1>3, <2>1, <3>5, BatchElsewhere DEF CacheInv
    <3>7. PICK W : W = WindowRows(x.key.since, x.key.until)
      OBVIOUS
    <3>8. body(W, x.key)' = body(W, x.key)
      BY <2>1, BodySteady
    <3> QED
      BY <3>6, <3>7, <3>8 DEF StillTrue
  <2> QED
    BY <2>2, <2>3 DEF StillTrue
<1>7. CASE \/ \E q \in Requests : Ask(q)
           \/ \E i \in DOMAIN statsCache : Expire(i)
           \/ UncachedRead
           \/ \E force \in BOOLEAN : RollupAudit(force)
           \/ \E raw \in SUBSET PriceNames : refreshFromUpstream(raw)
  BY <1>4, <1>7 DEF Ask, Expire, UncachedRead, RollupAudit, AdminAudit,
                    refreshFromUpstream, rollArgs, count, vars
<1>8. CASE ClearFull
  BY <1>1, <1>4, <1>8 DEF ClearFull, clearFull, DropDirty, invalidateStatsCache
<1>9. CASE \/ ClearAll
           \/ \E u \in Users, reset \in BOOLEAN : ClearUser(u, reset)
           \/ Regroup
           \/ Restart
  BY <1>1, <1>9 DEF ClearAll, ClearUser, Regroup, Restart, invalidateStatsCache
<1>10. CASE UNCHANGED statsVars
  BY <1>4, <1>10 DEF statsVars, vars, groups
<1> QED
  BY <1>5, <1>6, <1>7, <1>8, <1>9, <1>10 DEF StatsNext

\* A frozen answer that stays in the cache stays true, whoever writes: ingest,
\* the mirror, an audit, a clear or a change of groups (but for the two writers
\* FrozenKept names, who do not tell the cache).
THEOREM FrozenCorrect == StatsSpec => FrozenKept
<1>1. StatsInit => CacheInv
  BY DEF StatsInit, Init, CacheInv
<1>2. CacheInv /\ [StatsNext]_statsVars => CacheInv'
  BY CacheStep
<1>3. CacheInv /\ [StatsNext]_statsVars =>
        [\A x \in Range(statsCache) \cap Range(statsCache)' :
            x.frozen /\ <<rows, groups>>' # <<rows, groups>> /\ ~Unannounced =>
              body(WindowRows(x.key.since, x.key.until), x.key)
                  = body(WindowRows(x.key.since, x.key.until), x.key)']_statsVars
  BY FrozenStep DEF StillTrue
<1> QED
  BY <1>1, <1>2, <1>3, PTL DEF StatsSpec, FrozenKept
=============================================================================
