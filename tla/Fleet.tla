-------------------------------- MODULE Fleet --------------------------------
(***************************************************************************)
(* What the server makes of a device's silence: classifyDevice and the     *)
(* sweep of src/server/fleet.ts, with the rows /checkin and                *)
(* /watchdog-checkin leave and the ones the sweep keeps for itself.        *)
(*                                                                         *)
(* One device.  A sweep takes its snapshot of all devices at once and      *)
(* comes to this one after the pages of others, so time may pass between   *)
(* begin and visit; within visit nothing else runs until a page is         *)
(* awaited.  Times are ages in units of the bars, each saturating past the *)
(* largest bar it is compared with; what the sweep calls now is its        *)
(* beginning, `elapsed` ago.  Whether the heartbeat file is frozen is the  *)
(* watchdog's count against the device's own bar.                          *)
(***************************************************************************)
EXTENDS Naturals, FiniteSetsExt

CONSTANTS
    Sweeps,                 \* sweeps that may be under way together
    HasWatchdog,            \* the device's platform (devicePlatformHasWatchdog)
    Capable,                \* its build has the watchdog role (watchdogCapableVersion)
    Interval,               \* interval_s of its daemon, in units
    Missed,                 \* check-ins of a running daemon lost in a row, at most
    DAEMON_LATE, DAEMON_WEDGE, WATCHDOG_FRESH, DUAL_DARK, PRE_WATCHDOG_DARK,
    BORN_DARK_SLOP, CRASH_LOOP_THRESHOLD, ALERT_STATE_MIN_AGE, ALERT_DEDUP,
    Never,                  \* NULL of a time
    MaxPost,                \* bound: units a page is awaited
    MaxUpsets               \* bound: changes of the machine, suppressions, restarts, pages that fail

\* "Daemon silent past 3 missed ticks = worth a second look" (DAEMON_LATE_MS): of a
\* daemon that works at most two check-ins in a row are lost.
ASSUME FleetAssumption ==
    /\ {MaxPost, MaxUpsets, BORN_DARK_SLOP} \subseteq Nat
    /\ Interval \in Nat \ {0} /\ Missed \in 0 .. 2
    /\ {CRASH_LOOP_THRESHOLD, ALERT_STATE_MIN_AGE, WATCHDOG_FRESH} \subseteq Nat \ {0}
    /\ {DAEMON_LATE, DAEMON_WEDGE, DUAL_DARK, PRE_WATCHDOG_DARK, ALERT_DEDUP} \subseteq Nat \ {0}
    /\ DAEMON_LATE <= DAEMON_WEDGE /\ DUAL_DARK <= PRE_WATCHDOG_DARK
    /\ {HasWatchdog, Capable} \subseteq BOOLEAN

VARIABLES
    machine,        \* what is true of the machine
    row,            \* user_devices: ages of last_seen and watchdog_last_seen
    body,           \* device_checkin_state: the latest of both channels
    resets,         \* checkin_history: restarts in the window no journal entry explains
    streak,         \* device_fleet_state: the state, its age, and whether it began long dark
    missingAge,     \* device_flag_state: WATCHDOG_MISSING
    alertAge,       \* fleet_alerts: the latest of each key
    orders,         \* verbs of the device's directives that are live or ran lately
    sweep,          \* the sweeps under way
    suppressed,     \* TOKENLEADER_ALERT_SUPPRESS
    swept,          \* the timer fired in this unit of time
    told,           \* what was paged since the machine last changed (history)
    workingFor,     \* how long the daemon has been running (history)
    upsets          \* bound counter

store == <<row, body, resets, streak, missingAge, alertAge, orders>>
history == <<told, workingFor, upsets>>
vars == <<machine, store, sweep, suppressed, swept, history>>

ALERT_STATES == {"WEDGED", "DEGRADED", "DARK", "HEARTBEAT_IO"}
AlertKeys == ALERT_STATES \cup {"WATCHDOG_MISSING"}
Idle == [pc |-> "idle"]

\* Mutant: the bars forget the device's cadence and are the floors.
tickIntervalFloor == 0

\* What every check-in reports.  The default of a build that reports none is a third
\* of DAEMON_LATE, for which the bars are the floors.
tickIntervalS == Interval

lateThreshold == Max({DAEMON_LATE, 3 * tickIntervalS})
wedgeThreshold == Max({DAEMON_WEDGE, 3 * tickIntervalS + (DAEMON_WEDGE - DAEMON_LATE)})

\* No silence is compared with more, of the daemon's and of the watchdog's.
SilenceCap == 1 + Max({lateThreshold, wedgeThreshold, DUAL_DARK, PRE_WATCHDOG_DARK + BORN_DARK_SLOP})
DogCap == 1 + Max({WATCHDOG_FRESH, DUAL_DARK})
Older(age, cap) == IF age = Never THEN Never ELSE Min({age + 1, cap})
Within(age, bar) == age # Never /\ age <= bar

Init ==
    /\ machine = [daemon |-> "up", dog |-> FALSE, disk |-> TRUE, fuse |-> FALSE, listed |-> TRUE]
    /\ row = [silence |-> 0, dog |-> Never]
    /\ body = [installed |-> TRUE, frozen |-> FALSE, degraded |-> FALSE]
    /\ resets = 0
    /\ streak = [state |-> "none", age |-> 0, longDark |-> FALSE]
    /\ missingAge = Never
    /\ alertAge = [k \in AlertKeys |-> Never]
    /\ orders = {}
    /\ sweep = [s \in Sweeps |-> Idle]
    /\ suppressed = FALSE /\ swept = FALSE
    /\ told = {} /\ workingFor = 0
    /\ upsets = 0

-----------------------------------------------------------------------------
(* The machine and its check-ins.                                          *)

\* The disk matters to a running pair, the fuse is the watchdog's, and a watchdog
\* that is not registered does not run.
Machines ==
    {m \in [daemon : {"up", "crashing", "down"}, dog : BOOLEAN, disk : BOOLEAN, fuse : BOOLEAN,
            listed : BOOLEAN] :
        /\ m.dog => HasWatchdog /\ m.listed
        /\ m.fuse => m.dog
        /\ ~m.disk => m.dog /\ m.daemon = "up"
        /\ ~m.listed => HasWatchdog /\ m.daemon # "down"}

\* It breaks down, sleeps, wakes, crashes, is repaired or updated.
Upset ==
    /\ upsets < MaxUpsets /\ upsets' = upsets + 1
    /\ machine' \in Machines
    /\ machine' # machine
    /\ told' = {}
    /\ workingFor' = IF machine.daemon = "up" /\ machine'.daemon = "up" THEN workingFor ELSE 0
    /\ UNCHANGED <<store, sweep, suppressed, swept>>

\* Restarts show as a shorter uptime than before; those near an exit journal entry
\* do not count, and old ones leave the window (Unit).
countUnexplainedResets ==
    IF machine.daemon = "crashing" THEN Min({resets + 1, CRASH_LOOP_THRESHOLD}) ELSE resets

\* The daemon's; an /ingest stamps the same.
checkin ==
    /\ machine.daemon # "down"
    /\ row' = [row EXCEPT !.silence = 0]
    /\ body' = [body EXCEPT !.installed = machine.listed]
    /\ <<row, body>>' # <<row, body>>
    /\ resets' = countUnexplainedResets
    /\ UNCHANGED <<machine, streak, missingAge, alertAge, orders, sweep, suppressed, swept, history>>

watchdogCheckin ==
    /\ machine.dog
    /\ row' = [row EXCEPT !.dog = 0]
    /\ body' = [body EXCEPT !.frozen = machine.daemon = "down" \/ ~machine.disk,
                            !.degraded = machine.fuse]
    /\ <<row, body>>' # <<row, body>>
    /\ UNCHANGED <<machine, resets, streak, missingAge, alertAge, orders, sweep, suppressed, swept,
                   history>>

-----------------------------------------------------------------------------
(* classifyDevice, of a snapshot d of the row, and of the bodies as they are. *)

daemonFresh(d) == d.silence <= lateThreshold
watchdogFresh(d) == Within(d.dog, WATCHDOG_FRESH)
staleHeartbeat(d) == watchdogFresh(d) /\ body.frozen
lastAny(d) == IF d.dog = Never THEN d.silence ELSE Min({d.silence, d.dog})

\* A platform with a watchdog whose device never used it sleeps unseen.
darkBar(d) == IF d.dog = Never /\ HasWatchdog THEN PRE_WATCHDOG_DARK ELSE DUAL_DARK

classifyDevice(d) ==
    IF daemonFresh(d) /\ staleHeartbeat(d) THEN "HEARTBEAT_IO"
    ELSE IF resets >= CRASH_LOOP_THRESHOLD THEN "CRASH_LOOPING"
    ELSE IF watchdogFresh(d) /\ body.degraded THEN "DEGRADED"
    ELSE IF daemonFresh(d) THEN "HEALTHY"
    ELSE IF watchdogFresh(d) /\ (staleHeartbeat(d) \/ d.silence > wedgeThreshold) THEN "WEDGED"
    ELSE IF ~watchdogFresh(d) /\ lastAny(d) > darkBar(d) THEN "DARK"
    ELSE "LATE"

-----------------------------------------------------------------------------
(* The sweep.                                                              *)

\* The snapshot, listFleetDevices.  Suppression skips the whole sweep.  (One sweep
\* a unit is enough to see every state; the real timer fires more often.)
begin(s) ==
    /\ sweep[s] = Idle /\ ~suppressed /\ ~swept
    /\ sweep' = [sweep EXCEPT ![s] = [pc |-> "begun", row |-> row, elapsed |-> 0]]
    /\ swept' = TRUE
    /\ UNCHANGED <<machine, store, suppressed, history>>

\* Mutant: the first sight of a state leaves its clock unset.
observeDeviceFleetStateUnset(state, w) ==
    IF streak.state = state THEN streak ELSE [state |-> state, age |-> Never, longDark |-> FALSE]

\* Mutant: every sight of a state starts its clock.
observeDeviceFleetStateAnew(state, w) == [state |-> state, age |-> w.elapsed, longDark |-> FALSE]

\* The first sight of a state starts its clock at the beginning of the sweep; how
\* long the daemon was silent then decides bornDark.
observeDeviceFleetState(state, w) ==
    IF streak.state = state THEN streak
    ELSE [state |-> state, age |-> IF state \in ALERT_STATES THEN w.elapsed ELSE 0,
          longDark |-> state = "DARK" /\ w.row.silence > PRE_WATCHDOG_DARK + BORN_DARK_SLOP]

\* Mutant: what the daemon says counts whatever the watchdog does.
missingLoud(w) == daemonFresh(w.row) /\ ~body.installed

\* WATCHDOG_MISSING: a fresh daemon says so and nothing is heard from the watchdog.
missing(w) == daemonFresh(w.row) /\ ~watchdogFresh(w.row) /\ ~body.installed

observeDeviceFlag(present, w) ==
    IF ~present THEN Never ELSE IF missingAge = Never THEN w.elapsed ELSE missingAge

held(age, w) == age # Never /\ age >= ALERT_STATE_MIN_AGE + w.elapsed

\* A device without a watchdog that was long dark before it was first seen so.
bornDark(w, since) == since.longDark /\ w.row.dog = Never

\* What is to be paged: held, and not paged inside its window.
pages(w, since, flagAge) ==
    LET due == {k \in {since.state} \cap ALERT_STATES : held(since.age, w)}
                 \cup {k \in {"WATCHDOG_MISSING"} : held(flagAge, w)}
    IN  {k \in due : \/ alertAge[k] = Never
                     \/ alertAge[k] >= ALERT_DEDUP + w.elapsed /\ ~(k = since.state /\ bornDark(w, since))}

\* Mutant: whatever alerts is healed.
nudgesEvery(w, since) == {v \in {"restart"} : since.state \in ALERT_STATES /\ held(since.age, w)}

\* Only WEDGED is restarted: HEARTBEAT_IO alerts and never kills.  A fresh daemon of
\* a build with a watchdog that is silent has it installed again.
nudges(w, since) ==
    {v \in {"restart"} : since.state = "WEDGED" /\ held(since.age, w)}
      \cup {v \in {"reinstall_watchdog"} :
              daemonFresh(w.row) /\ HasWatchdog /\ Capable /\ ~Within(w.row.dog, 0)}

hasRecentDirective(v) == v \in orders

\* The two pages of a device exclude one another (OnePage), so the sweep awaits at
\* most one.
visit(s) ==
    /\ sweep[s].pc = "begun"
    /\ LET w == sweep[s]
           since == observeDeviceFleetState(classifyDevice(w.row), w)
           flagAge == observeDeviceFlag(missing(w), w)
           due == pages(w, since, flagAge)
       IN  /\ streak' = since /\ missingAge' = flagAge
           /\ orders' = orders \cup {v \in nudges(w, since) : ~hasRecentDirective(v)}
           /\ sweep' = [sweep EXCEPT ![s] =
                          IF due = {} THEN Idle
                          ELSE [pc |-> "posting", keys |-> due, elapsed |-> w.elapsed]]
    /\ UNCHANGED <<machine, row, body, resets, alertAge, suppressed, swept, history>>

\* Recorded when the webhook said so, at the beginning of the sweep.
recordFleetAlert(s) ==
    /\ sweep[s].pc = "posting"
    /\ alertAge' = [k \in AlertKeys |-> IF k \in sweep[s].keys THEN sweep[s].elapsed ELSE alertAge[k]]
    /\ told' = told \cup sweep[s].keys
    /\ sweep' = [sweep EXCEPT ![s] = Idle]
    /\ UNCHANGED <<machine, row, body, resets, streak, missingAge, orders, suppressed, swept,
                   workingFor, upsets>>

\* Refused, or its answer lost: the next sweep tries again.
webhookFails(s) ==
    /\ sweep[s].pc = "posting"
    /\ upsets < MaxUpsets /\ upsets' = upsets + 1
    /\ sweep' = [sweep EXCEPT ![s] = Idle]
    /\ UNCHANGED <<machine, store, suppressed, swept, told, workingFor>>

-----------------------------------------------------------------------------
(* Orders, time, the operator.                                             *)

\* Its time to live, or the window after it ran, is over (Directives has its way).
Lapse(v) ==
    /\ v \in orders
    /\ orders' = orders \ {v}
    /\ UNCHANGED <<machine, row, body, resets, streak, missingAge, alertAge, sweep, suppressed, swept,
                   history>>

\* A unit of time.  A running daemon checks in at its own interval, whatever the
\* server makes of it, with at most Missed lost in a row; what has just started is
\* heard before the unit ends.  The watchdog's interval is below a unit; the sweep's
\* timer fires.
Unit ==
    /\ machine.daemon # "down" => row.silence < (1 + Missed) * Interval
    /\ machine.dog => row.dog = 0
    /\ swept \/ suppressed
    /\ \A s \in Sweeps : sweep[s] # Idle => sweep[s].elapsed < MaxPost
    /\ row' = [row EXCEPT !.silence = Older(@, SilenceCap), !.dog = Older(@, DogCap)]
    /\ resets' = IF machine.daemon = "crashing" \/ resets = 0 THEN resets ELSE resets - 1
    /\ streak' = IF streak.state \in ALERT_STATES
                   THEN [streak EXCEPT !.age = Older(@, ALERT_STATE_MIN_AGE + MaxPost)] ELSE streak
    /\ missingAge' = Older(missingAge, ALERT_STATE_MIN_AGE + MaxPost)
    /\ alertAge' = [k \in AlertKeys |-> Older(alertAge[k], ALERT_DEDUP + MaxPost)]
    /\ sweep' = [s \in Sweeps |-> IF sweep[s] = Idle THEN Idle ELSE [sweep[s] EXCEPT !.elapsed = @ + 1]]
    /\ swept' = FALSE
    /\ workingFor' = IF machine.daemon = "up" THEN Min({workingFor + 1, MaxPost + 1}) ELSE 0
    /\ UNCHANGED <<machine, body, orders, suppressed, told, upsets>>

\* The operator suppresses the sweeps, or the server is down.
Suppress ==
    /\ ~suppressed /\ suppressed' = TRUE
    /\ upsets < MaxUpsets /\ upsets' = upsets + 1
    /\ UNCHANGED <<machine, store, sweep, swept, told, workingFor>>

Unsuppress ==
    /\ suppressed /\ suppressed' = FALSE
    /\ UNCHANGED <<machine, store, sweep, swept, history>>

\* The server restarts: the sweeps under way are gone, the tables are not.
Boot ==
    /\ upsets < MaxUpsets /\ upsets' = upsets + 1
    /\ sweep' = [s \in Sweeps |-> Idle]
    /\ sweep' # sweep
    /\ UNCHANGED <<machine, store, suppressed, swept, told, workingFor>>

Next ==
    \/ Upset
    \/ checkin
    \/ watchdogCheckin
    \/ \E s \in Sweeps : begin(s) \/ visit(s) \/ recordFleetAlert(s) \/ webhookFails(s)
    \/ \E v \in orders : Lapse(v)
    \/ Unit
    \/ Suppress
    \/ Unsuppress
    \/ Boot

Spec == Init /\ [][Next]_vars

\* What the timers of the machine and of the server would do.
Due ==
    \/ checkin \/ watchdogCheckin
    \/ \E s \in Sweeps : begin(s) \/ visit(s) \/ recordFleetAlert(s)
    \/ Unit

\* Time passes, and not before what is due (Unit); suppression ends.
FairSpec == Spec /\ WF_vars(Due) /\ WF_vars(Unsuppress)

-----------------------------------------------------------------------------
Rows == [silence : 0 .. SilenceCap, dog : (0 .. DogCap) \cup {Never}]
FleetStates == ALERT_STATES \cup {"none", "HEALTHY", "LATE", "CRASH_LOOPING"}
StateAges == 0 .. ALERT_STATE_MIN_AGE + MaxPost
AlertAges == 0 .. ALERT_DEDUP + MaxPost
SweepStates ==
    {Idle} \cup [pc : {"begun"}, row : Rows, elapsed : 0 .. MaxPost]
           \cup [pc : {"posting"}, keys : SUBSET AlertKeys, elapsed : 0 .. MaxPost]

\* Every age stops at the cap of what it is compared with, and a sweep is one of
\* three: idle, with a snapshot, or with a page on its way.
TypeOK ==
    /\ machine \in Machines
    /\ row \in Rows
    /\ body \in [installed : BOOLEAN, frozen : BOOLEAN, degraded : BOOLEAN]
    /\ resets \in 0 .. CRASH_LOOP_THRESHOLD
    /\ streak \in [state : FleetStates, age : StateAges, longDark : BOOLEAN]
    /\ missingAge \in StateAges \cup {Never}
    /\ alertAge \in [AlertKeys -> AlertAges \cup {Never}]
    /\ orders \subseteq {"restart", "reinstall_watchdog"}
    /\ sweep \in [Sweeps -> SweepStates]
    /\ {suppressed, swept} \subseteq BOOLEAN
    /\ told \subseteq AlertKeys
    /\ workingFor \in 0 .. MaxPost + 1
    /\ upsets \in 0 .. MaxUpsets

\* A sweep never pages one device twice: what pages for its state excludes what
\* pages for a missing watchdog.
OnePage ==
    \A s \in Sweeps : sweep[s].pc = "posting" => \E k \in AlertKeys : sweep[s].keys = {k}

\* "A healthy slow-cadence daemon must never classify WEDGED - that state auto-heals
\* with a restart" (wedgeThresholdMs), and HEARTBEAT_IO "alerts and never kills": no
\* restart is queued for a daemon that has run for longer than a sweep may wait, at
\* whatever cadence it reports, while no three of its check-ins are lost in a row.
WorkingNotRestarted ==
    [][~hasRecentDirective("restart") /\ hasRecentDirective("restart")'
         => machine.daemon # "up" \/ workingFor <= MaxPost]_vars

\* "Never page the same (device, state) twice within this window" (ALERT_DEDUP_MS).
\* The code does otherwise: the timer waits for no sweep, and two that overlap both do.
NoDoublePage ==
    [][\A s \in Sweeps : recordFleetAlert(s) =>
          \A k \in sweep[s].keys :
            alertAge[k] = Never \/ alertAge[k] >= ALERT_DEDUP + sweep[s].elapsed]_vars

\* What is wrong with the machine, as the page should call it.
ails(k) ==
    LET m == machine
    IN  CASE k = "HEARTBEAT_IO" -> m.daemon = "up" /\ m.dog /\ ~m.disk
          [] k = "DEGRADED" -> m.dog /\ m.fuse /\ (m.daemon = "up" => m.disk) /\ m.daemon # "crashing"
          [] k = "WEDGED" -> m.daemon = "down" /\ m.dog /\ ~m.fuse
          [] k = "DARK" -> m.daemon = "down" /\ ~m.dog
          [] k = "WATCHDOG_MISSING" -> m.daemon = "up" /\ ~m.dog /\ ~m.listed

\* An infinite window that an alert of an earlier outage keeps shut.
shutOut(k) ==
    k = "DARK" /\ alertAge["DARK"] # Never /\ streak.longDark /\ row.dog = Never

\* Nothing stays broken unseen: as long as it lasts, whatever was paged before, some
\* sweep pages it.
SickIsPaged == \A k \in AlertKeys : ails(k) ~> (k \in told \/ ~ails(k) \/ shutOut(k))

\* "the local fuse (degraded marker) escalates it to DEGRADED" (ALERT_STATES): a
\* crash loop pages once the watchdog's fuse has blown.
\* The code does otherwise (README, Divergences).
FusedIsPaged ==
    LET fused == machine.daemon = "crashing" /\ machine.dog /\ machine.fuse /\ machine.disk
    IN  fused ~> ("DEGRADED" \in told \/ ~fused)

\* "its (device, DARK) dedup never expires until a fresh checkin revives it"
\* (BORN_DARK_SLOP_MS): a device that was heard since its last page is paged again.
\* The code does otherwise (README, Divergences).
DarkIsPaged == ails("DARK") ~> ("DARK" \in told \/ ~ails("DARK"))
=============================================================================
