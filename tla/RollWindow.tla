----------------------------- MODULE RollWindow -----------------------------
(***************************************************************************)
(* How src/server/db.ts cuts time into UTC days: the day of a timestamp as *)
(* the server computes it when it adds a row to the rollup, the same day   *)
(* as SQLite computes it when it rebuilds a cell, and the split of a read  *)
(* window into whole days and at most two slivers of raw rows.             *)
(***************************************************************************)
EXTENDS Integers

CONSTANT DAY_MS     \* timestamps per day

ASSUME DayAssumption == DAY_MS \in Nat \ {0}

\* Math.floor(tsMs / DAY_MS)
rollDayOf(t) == t \div DAY_MS

\* SQLite's operators truncate toward zero, so that the remainder has the sign
\* of the dividend.
sqlDiv(a, b) == IF a >= 0 THEN a \div b ELSE -((-a) \div b)
sqlMod(a, b) == a - b * sqlDiv(a, b)

\* Mutant: the division alone, which truncates toward zero.
rollDaySqlTruncated(t) == sqlDiv(t, DAY_MS)

rollDaySql(t) == sqlDiv(t - sqlMod(sqlMod(t, DAY_MS) + DAY_MS, DAY_MS), DAY_MS)

\* Mutant: the interior starts at the day the window starts in.
rollWindowEarly(since, until) ==
    LET lo == since \div DAY_MS
        hi == until \div DAY_MS
    IN  [dayLo |-> lo, dayHi |-> hi, from1 |-> since, to1 |-> lo * DAY_MS,
         from2 |-> hi * DAY_MS, to2 |-> until]

\* The whole days [dayLo, dayHi) of the window [since, until), and the two
\* slivers [from1, to1) and [from2, to2) of raw rows around them.
rollWindow(since, until) ==
    LET lo == -((-since) \div DAY_MS)
        hi == until \div DAY_MS
    IN  IF hi <= lo
        THEN [dayLo |-> 0, dayHi |-> 0, from1 |-> since,
              to1 |-> IF until >= since THEN until ELSE since,
              from2 |-> 0, to2 |-> 0]
        ELSE [dayLo |-> lo, dayHi |-> hi, from1 |-> since, to1 |-> lo * DAY_MS,
              from2 |-> hi * DAY_MS, to2 |-> until]

InInterior(w, d) == w.dayLo <= d /\ d < w.dayHi
InSliver(w, t)   == \/ w.from1 <= t /\ t < w.to1
                    \/ w.from2 <= t /\ t < w.to2
=============================================================================
