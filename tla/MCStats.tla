------------------------------ MODULE MCStats ------------------------------
(* A small instance of Stats: days of four ticks, two users; a row of the    *)
(* local fallback and two cloud rows, with a cost of their own, whose span   *)
(* covers it and the midnight between them; a row of another source under    *)
(* the cloud rows' model string, before the epoch and in a second version    *)
(* under the same key; and a user message.                                   *)
EXTENDS Stats

CONSTANTS a, b, cloud, listed, none, gpt, review, blank, acme, team

Ev(u, s, t, mod, k, time) ==
    [user |-> u, source |-> s, type |-> t, model |-> mod, key |-> k, time |-> time]

MCEvents == {Ev(a, "cursor_local", "assistant", listed, 1, 1),
             Ev(a, "cursor", "assistant", cloud, 2, 0),
             Ev(a, "cursor", "assistant", cloud, 3, 6),
             Ev(a, "other", "assistant", listed, 4, -1),
             Ev(a, "other", "assistant", listed, 4, 2),
             Ev(b, "other", "user", none, 5, 4)}
MCKeys      == 1 .. 5
MCNoTime    == -100
MCWindowEdges == {-2, 0, 1, 4, 6, 8}

MCNameOf    == [m \in Models |-> IF m = none THEN blank ELSE gpt]
MCSpellings == [n \in Names |-> IF n = gpt THEN {gpt} ELSE {}]
MCAlias     == [n \in {review} |-> gpt]
MCDaysPer   == [g \in Bucket |-> IF g = "day" THEN 1 ELSE 2]

Req(r, since, until, g, u, com, cat, mod) ==
    [route |-> r, since |-> since, until |-> until, bucket |-> g, user |-> u,
     company |-> com, category |-> cat, model |-> mod]

MCRequests == {Req("admin", 1, 6, "day", Null, acme, Null, Null),
               Req("admin", 0, 20, "day", Null, Null, team, gpt),
               Req("timeseries", 0, 8, "week", Null, Null, Null, Null)}
MCReports    == {<<a, acme>>}
MCAssignable == {<<b, team>>}
=============================================================================
