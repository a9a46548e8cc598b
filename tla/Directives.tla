----------------------------- MODULE Directives -----------------------------
(***************************************************************************)
(* Remote directives of one user: the pending_directives queue             *)
(* (src/server/db.ts), the three responses a directive rides on            *)
(* (/ingest, /checkin, /watchdog-checkin in src/server/main.ts), the       *)
(* daemon loop and the watchdog that execute and acknowledge them          *)
(* (src/daemon/main.ts, transport.ts, directives.ts, watchdog.ts), and the *)
(* sweep that queues heals (src/server/fleet.ts).                          *)
(*                                                                         *)
(* A response may be lost after the server has claimed a directive for it, *)
(* a request may be served after its sender stopped waiting, and an        *)
(* executor may die, or sleep past the TTL, while it holds a directive.    *)
(***************************************************************************)
EXTENDS Integers, Sequences, FiniteSets, FiniteSetsExt

CONSTANTS
    Devices,        \* the user's machines
    AnyDevice,      \* device_id NULL: whichever asks first
    Verbs,          \* DIRECTIVE_VERBS
    WatchdogOnly,   \* WATCHDOG_ONLY_VERBS
    Restart,        \* the verb that ends the daemon, and the one that heals it
    TTL,            \* DIRECTIVE_TTL_MS
    RecentMs,       \* ALERT_DEDUP_MS
    MaxDirectives,  \* bound: rows ever queued
    MaxBatches,     \* bound: /ingest batches in a tick
    MaxWire,        \* bound: abandoned requests the server may still serve
    MaxTime         \* bound: the clock

ASSUME DirectivesAssumption ==
    /\ AnyDevice \notin Devices
    /\ WatchdogOnly \subseteq Verbs
    /\ Restart \in Verbs \ WatchdogOnly
    /\ TTL \in Nat \ {0} /\ RecentMs \in Nat
    /\ MaxDirectives \in Nat /\ MaxBatches \in Nat /\ MaxWire \in Nat
    /\ MaxTime \in Nat

VARIABLES
    now,        \* the server's clock
    table,      \* pending_directives, by id
    daemon,     \* the daemon of each device: where its loop is, what it holds
    dog,        \* the watchdog of each device, likewise
    wire,       \* requests their sender gave up on
    handed,     \* history: how often each directive left the server
    setAside,   \* history: directives a flush received but did not keep
    ran         \* history: <<directive, device, channel>> executions

vars == <<now, table, daemon, dog, wire, handed, setAside, ran>>

Channels == {"daemon", "watchdog"}
Never == -1
None  == 0      \* ids start at 1
Ids   == 1 .. MaxDirectives
Time  == {Never} \cup (0 .. MaxTime)

Row == [verb : Verbs, device : Devices \cup {AnyDevice}, created : 0 .. MaxTime,
        delivered : Time, requeued : Time, executed : Time,
        by : Channels \cup {"nobody"}]
Loop == [pc : {"idle", "flush", "checkin", "execute", "ack"},
         held : {None} \cup Ids, left : 0 .. MaxBatches]
Resting == [pc |-> "idle", held |-> None, left |-> 0]

Ask(d, ch)    == [op |-> "ask", device |-> d, channel |-> ch]
Ack(i, ch)    == [op |-> "ack", id |-> i, channel |-> ch]
Request == [op : {"ask"}, device : Devices, channel : Channels]
             \cup [op : {"ack"}, id : Ids, channel : Channels]

Init ==
    /\ now = 0
    /\ table = <<>>
    /\ daemon = [d \in Devices |-> Resting]
    /\ dog = [d \in Devices |-> Resting]
    /\ wire = {}
    /\ handed = [i \in Ids |-> 0]
    /\ setAside = {}
    /\ ran = {}

-----------------------------------------------------------------------------
(* The server.                                                             *)

\* When the current eligibility window of a row began.
windowStart(r) == IF r.requeued # Never THEN r.requeued ELSE r.created

newRow(verb, dev) ==
    [verb |-> verb, device |-> dev, created |-> now, delivered |-> Never,
     requeued |-> Never, executed |-> Never, by |-> "nobody"]

enqueueDirective(verb, dev) ==
    /\ Len(table) < MaxDirectives
    /\ table' = Append(table, newRow(verb, dev))
    /\ UNCHANGED <<now, daemon, dog, wire, handed, setAside, ran>>

\* The one-shot re-queue of what was delivered and never acknowledged.
Requeued(r) ==
    IF /\ r.delivered # Never
       /\ r.executed = Never
       /\ r.requeued = Never
       /\ r.delivered <= now - TTL
      THEN [r EXCEPT !.delivered = Never, !.requeued = now]
      ELSE r

\* Mutants: a delivered row is eligible still; any channel gets any verb.
EligibleTwice(r, d, ch) ==
    /\ r.executed = Never
    /\ r.device \in {AnyDevice, d}
    /\ r.verb \in WatchdogOnly => ch = "watchdog"
    /\ windowStart(r) > now - TTL

EligibleAnywhere(r, d, ch) ==
    /\ r.delivered = Never
    /\ r.executed = Never
    /\ r.device \in {AnyDevice, d}
    /\ windowStart(r) > now - TTL

Eligible(r, d, ch) ==
    /\ r.delivered = Never
    /\ r.executed = Never
    /\ r.device \in {AnyDevice, d}
    /\ r.verb \in WatchdogOnly => ch = "watchdog"
    /\ windowStart(r) > now - TTL

\* One transaction: re-queue, then claim the oldest eligible row.
takeDirective(d, ch) ==
    LET swept == [i \in DOMAIN table |-> Requeued(table[i])]
        open  == {i \in DOMAIN table : Eligible(swept[i], d, ch)}
        id    == IF open = {} THEN None ELSE Min(open)
    IN  [id    |-> id,
         table |-> [i \in DOMAIN table |->
                      IF i = id THEN [swept[i] EXCEPT !.delivered = now] ELSE swept[i]]]

\* The server's side of a response: the claim, and the count of hand-outs.
Serve(d, ch, take) ==
    /\ take = takeDirective(d, ch)
    /\ table' = take.table
    /\ handed' = IF take.id = None THEN handed ELSE [handed EXCEPT ![take.id] = @ + 1]

\* First ack wins; a replay changes nothing.
ackDirective(i, ch) ==
    IF table[i].executed # Never THEN table
    ELSE [table EXCEPT ![i].executed = now, ![i].by = ch]

hasRecentDirective(d, verb) ==
    \E i \in DOMAIN table :
        /\ table[i].verb = verb
        /\ table[i].device \in {AnyDevice, d}
        /\ \/ table[i].executed = Never /\ windowStart(table[i]) > now - TTL
           \/ table[i].executed > now - RecentMs /\ table[i].executed # Never

\* sweepFleetAlerts, for a device it finds WEDGED.
HealSweep(d) ==
    /\ ~hasRecentDirective(d, Restart)
    /\ enqueueDirective(Restart, d)

\* The server gets to a request nobody waits for any more: what it claims for
\* an ask is lost, an acknowledgement counts.
LateRequest(m) ==
    /\ wire' = wire \ {m}
    /\ IF m.op = "ask"
         THEN \E take \in {takeDirective(m.device, m.channel)} :
                Serve(m.device, m.channel, take)
         ELSE table' = ackDirective(m.id, m.channel) /\ UNCHANGED handed
    /\ UNCHANGED <<now, daemon, dog, setAside, ran>>

\* Its sender gives up on m, which may never arrive or arrive late.
GiveUp(m) == wire' \in {w \in {wire, wire \cup {m}} : Cardinality(w) <= MaxWire}

Clock ==
    /\ now < MaxTime
    /\ now' = now + 1
    /\ UNCHANGED <<table, daemon, dog, wire, handed, setAside, ran>>

-----------------------------------------------------------------------------
(* The daemon's loop: flush, check in, look for an update, execute.        *)

\* Mutant: one batch more than there are chunks.
StartTickExtra(d, n) ==
    /\ daemon[d].pc = "idle"
    /\ daemon' = [daemon EXCEPT ![d] = [pc |-> "flush", held |-> None, left |-> n + 1]]
    /\ UNCHANGED <<now, table, dog, wire, handed, setAside, ran>>

StartTick(d, n) ==
    /\ daemon[d].pc = "idle"
    /\ daemon' = [daemon EXCEPT ![d] =
                    [pc |-> IF n = 0 THEN "checkin" ELSE "flush", held |-> None, left |-> n]]
    /\ UNCHANGED <<now, table, dog, wire, handed, setAside, ran>>

\* directive ??= the new one: the first one received is kept.
Kept(d, take) == IF daemon[d].held = None THEN take.id ELSE daemon[d].held

BatchAnswered(d) ==
    /\ daemon[d].pc = "flush"
    /\ \E take \in {takeDirective(d, "daemon")} :
        /\ Serve(d, "daemon", take)
        /\ setAside' = setAside \cup ({take.id} \ {None, Kept(d, take)})
        /\ daemon' = [daemon EXCEPT ![d] =
                [pc   |-> IF @.left = 1 THEN "checkin" ELSE "flush",
                 held |-> Kept(d, take), left |-> @.left - 1]]
    /\ UNCHANGED <<now, dog, wire, ran>>

\* An attempt goes unanswered or is refused.  Another one follows, or the
\* whole flush has failed, and with it goes the directive it had received.
BatchFails(d) ==
    /\ daemon[d].pc = "flush"
    /\ GiveUp(Ask(d, "daemon"))
    /\ daemon' \in {daemon,
            [daemon EXCEPT ![d] = [pc |-> "checkin", held |-> None, left |-> 0]]}
    /\ UNCHANGED <<now, table, dog, handed, setAside, ran>>

CheckinAnswered(d) ==
    /\ daemon[d].pc = "checkin"
    /\ \E take \in {takeDirective(d, "daemon")} :
        /\ Serve(d, "daemon", take)
        /\ daemon' = [daemon EXCEPT ![d].pc = "execute", ![d].held = Kept(d, take)]
    /\ UNCHANGED <<now, dog, wire, setAside, ran>>

CheckinFails(d) ==
    /\ daemon[d].pc = "checkin"
    /\ GiveUp(Ask(d, "daemon"))
    /\ daemon' = [daemon EXCEPT ![d].pc = "execute"]
    /\ UNCHANGED <<now, table, dog, handed, setAside, ran>>

\* executeDirective up to its ack; a restart acknowledges before it exits.
Execute(d) ==
    /\ daemon[d].pc = "execute"
    /\ IF daemon[d].held = None
         THEN daemon' = [daemon EXCEPT ![d] = Resting] /\ UNCHANGED ran
         ELSE /\ daemon' = [daemon EXCEPT ![d].pc = "ack"]
              /\ ran' = IF table[daemon[d].held].verb = Restart THEN ran
                        ELSE ran \cup {<<daemon[d].held, d, "daemon">>}
    /\ UNCHANGED <<now, table, dog, wire, handed, setAside>>

\* postDirectiveAck is tried once.  A restart then exits, answered or not.
Acknowledge(d, answered) ==
    /\ daemon[d].pc = "ack"
    /\ LET i == daemon[d].held
       IN  /\ IF answered THEN table' = ackDirective(i, "daemon") /\ UNCHANGED wire
                          ELSE GiveUp(Ack(i, "daemon")) /\ UNCHANGED table
           /\ ran' = IF table[i].verb = Restart THEN ran \cup {<<i, d, "daemon">>} ELSE ran
    /\ daemon' = [daemon EXCEPT ![d] = Resting]
    /\ UNCHANGED <<now, dog, handed, setAside>>

\* An installed update, a signal, a recycle or a crash: what is held is gone.
DaemonExits(d) ==
    /\ daemon[d].pc # "idle"
    /\ daemon' = [daemon EXCEPT ![d] = Resting]
    /\ UNCHANGED <<now, table, dog, wire, handed, setAside, ran>>

-----------------------------------------------------------------------------
(* The watchdog: check in, execute what came back, acknowledge.            *)

WatchdogCheckin(d) ==
    /\ dog[d].pc = "idle"
    /\ \E take \in {takeDirective(d, "watchdog")} :
        /\ Serve(d, "watchdog", take)
        /\ dog' = IF take.id = None THEN dog
                  ELSE [dog EXCEPT ![d].pc = "execute", ![d].held = take.id]
    /\ UNCHANGED <<now, daemon, wire, setAside, ran>>

WatchdogCheckinFails(d) ==
    /\ dog[d].pc = "idle"
    /\ GiveUp(Ask(d, "watchdog"))
    /\ UNCHANGED <<now, table, daemon, dog, handed, setAside, ran>>

\* A restart signals the daemon, which drops what it holds and comes back.
WatchdogExecute(d) ==
    /\ dog[d].pc = "execute"
    /\ ran' = ran \cup {<<dog[d].held, d, "watchdog">>}
    /\ dog' = [dog EXCEPT ![d].pc = "ack"]
    /\ daemon' = IF table[dog[d].held].verb = Restart
                   THEN [daemon EXCEPT ![d] = Resting] ELSE daemon
    /\ UNCHANGED <<now, table, wire, handed, setAside>>

WatchdogAck(d, answered) ==
    /\ dog[d].pc = "ack"
    /\ IF answered THEN table' = ackDirective(dog[d].held, "watchdog") /\ UNCHANGED wire
                   ELSE GiveUp(Ack(dog[d].held, "watchdog")) /\ UNCHANGED table
    /\ dog' = [dog EXCEPT ![d] = Resting]
    /\ UNCHANGED <<now, daemon, handed, setAside, ran>>

WatchdogDies(d) ==
    /\ dog[d].pc # "idle"
    /\ dog' = [dog EXCEPT ![d] = Resting]
    /\ UNCHANGED <<now, table, daemon, wire, handed, setAside, ran>>

-----------------------------------------------------------------------------
Next ==
    \/ Clock
    \/ \E v \in Verbs, dev \in Devices \cup {AnyDevice} : enqueueDirective(v, dev)
    \/ \E m \in wire : LateRequest(m)
    \/ \E d \in Devices :
        \/ HealSweep(d)
        \/ \E n \in 0 .. MaxBatches : StartTick(d, n)
        \/ BatchAnswered(d)
        \/ BatchFails(d)
        \/ CheckinAnswered(d)
        \/ CheckinFails(d)
        \/ Execute(d)
        \/ \E answered \in BOOLEAN : Acknowledge(d, answered)
        \/ DaemonExits(d)
        \/ WatchdogCheckin(d)
        \/ WatchdogCheckinFails(d)
        \/ WatchdogExecute(d)
        \/ \E answered \in BOOLEAN : WatchdogAck(d, answered)
        \/ WatchdogDies(d)

Spec == Init /\ [][Next]_vars

-----------------------------------------------------------------------------
TypeOK ==
    /\ now \in 0 .. MaxTime
    /\ table \in Seq(Row) /\ Len(table) <= MaxDirectives
    /\ daemon \in [Devices -> Loop]
    /\ dog \in [Devices -> Loop]
    /\ wire \subseteq Request
    /\ handed \in [Ids -> Nat]
    /\ setAside \subseteq DOMAIN table
    /\ ran \subseteq (DOMAIN table) \X Devices \X Channels

\* However many machines and channels ask at once, and whatever is lost, each
\* directive leaves the server once, and once more after its single re-queue
\* (db.ts: "exactly one of them receives each directive").
HandedOnce ==
    \A i \in DOMAIN table : handed[i] <= IF table[i].requeued = Never THEN 1 ELSE 2

\* A directive recorded as executed really was, by an executor of the channel
\* on record, on the machine it was aimed at, which can run its verb.  (The
\* daemon's own restart is recorded just before it exits.)
AckedWasRun ==
    /\ \A i \in DOMAIN table :
        table[i].executed # Never =>
            \/ table[i].verb = Restart
            \/ \E d \in Devices : <<i, d, table[i].by>> \in ran
    /\ \A i \in DOMAIN table, d \in Devices, ch \in Channels :
        <<i, d, ch>> \in ran =>
            /\ table[i].device \in {AnyDevice, d}
            /\ table[i].verb \in WatchdogOnly => ch = "watchdog"

\* "Keep the first directive seen this flush; anything else still queued
\* arrives on a later tick's response" (transport.ts): what a flush receives
\* and does not keep is still queued.
\* The code does otherwise (README, Divergences).
LaterOnesStayQueued ==
    \A i \in setAside : table[i].delivered = Never \/ table[i].executed # Never
=============================================================================
