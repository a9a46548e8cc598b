------------------------------ MODULE Watchdog ------------------------------
(***************************************************************************)
(* The out-of-process liveness checker of one machine: the daemon's        *)
(* heartbeat file and exit journal (src/daemon/heartbeat.ts), the          *)
(* periodic watchdog run over them (src/daemon/watchdog.ts) and launchd    *)
(* between the two.                                                        *)
(*                                                                         *)
(* Time is counted in watchdog intervals and every stored timestamp is     *)
(* kept as its age, which stops growing at the limit the code compares it  *)
(* with.  A run has two steps: it reads the heartbeat and the label's pid  *)
(* and decides, then it signals, heals and saves; the daemon runs on       *)
(* between them.  The signature tick_seq:wall_ms:pid differs after every   *)
(* write, so all that is kept of it is whether the file was written since  *)
(* the run that last saved.                                                *)
(* A write of the heartbeat may fail, and the daemon goes on without it.   *)
(* Left out: failures to write the other files (the exit journal, the      *)
(* update marker, watchdog.json), the rollback of a bad binary, forensics, *)
(* check-in and spool.                                                     *)
(***************************************************************************)
EXTENDS Integers, FiniteSets

CONSTANTS
    Pids,           \* process ids
    NoPid,          \* not a pid
    StaleRuns,      \* staleRunsFor(tick interval)
    GraceRuns,      \* UPDATE_GRACE_RUNS
    MarkerIgnore,   \* UPDATE_MARKER_IGNORE_MS
    FuseRespawns,   \* FUSE_RESPAWNS
    FuseWindow,     \* FUSE_WINDOW_MS
    UnlatchFresh,   \* UNLATCH_FRESH_MS
    Slop,           \* JOURNAL_EXPLAIN_SLOP_MS
    KickstartRuns,  \* KICKSTART_NO_PID_RUNS
    TickRuns,       \* runs a healthy daemon may let pass between two writes
    UpdateRuns,     \* the same while it downloads an update
    Legacy,         \* does launchd leave the label idle after an exit(0)?
    Sleeps,         \* intervals that may pass between two runs
    JournalAge,     \* bound: where the ages of journal and last run saturate
    MaxFaults       \* bound: runs killed, corrupt state files, spells of failing writes

ASSUME WatchdogAssumption ==
    /\ NoPid \notin Pids
    /\ StaleRuns \in Nat \ {0} /\ GraceRuns \in Nat /\ MarkerIgnore \in Nat
    /\ FuseRespawns \in Nat \ {0} /\ FuseWindow \in Nat /\ UnlatchFresh \in Nat
    /\ Slop \in Nat /\ KickstartRuns \in Nat /\ MaxFaults \in Nat
    /\ TickRuns \in Nat /\ TickRuns + 1 < StaleRuns
    /\ UpdateRuns \in Nat /\ UpdateRuns + 1 < GraceRuns /\ GraceRuns <= MarkerIgnore
    /\ Legacy \in BOOLEAN
    /\ Sleeps \subseteq Nat \ {0}
    /\ JournalAge \in Nat /\ Slop < JournalAge

VARIABLES
    mode,       \* what the daemon is doing
    pid,        \* the label's live process
    warned,     \* has that process been sent SIGTERM?
    job,        \* how launchd holds the label
    beat,       \* the outcome of its ticks, as the daemon holds it in memory
    hb,         \* heartbeat.json
    unwritten,  \* did the last write of it fail?
    wrote,      \* written since the run in progress read it?
    unseen,     \* written since the run that last saved read it?
    quiet,      \* runs since the daemon last got on, as far as OnTime asks
    exitAge,    \* age of the newest exit-journal entry
    marker,     \* age of update-in-progress.json, MarkerIgnore if none
    saved,      \* watchdog.json
    w,          \* the state of the run in progress
    signal,     \* what that run decided
    faults      \* bound counter

daemonVars == <<mode, pid, warned, beat, job>>
fileVars == <<unwritten, hb, wrote, unseen, quiet>>
vars == <<mode, pid, warned, job, beat, unwritten, hb, wrote, unseen, quiet,
          exitAge, marker, saved, w, signal, faults>>

AnyPid == Pids \cup {NoPid}
Outcome == [ticked : BOOLEAN, failing : BOOLEAN]
NoOutcome == [ticked |-> FALSE, failing |-> FALSE]
NoBeat == [pid |-> NoPid, ticked |-> FALSE, failing |-> FALSE]

WatchdogState ==
    [consecUnchanged : Nat, freshSince : -1 .. UnlatchFresh, termedPid : AnyPid,
     lastLabelPid : AnyPid, lastHbPid : AnyPid, lastRunAt : 0 .. JournalAge,
     respawns : SUBSET (0 .. FuseWindow), noPidRuns : Nat, degraded : BOOLEAN,
     degradedAt : 0 .. UnlatchFresh]

emptyWatchdogState ==
    [consecUnchanged |-> 0, freshSince |-> -1, termedPid |-> NoPid,
     lastLabelPid |-> NoPid, lastHbPid |-> NoPid, lastRunAt |-> 1,
     respawns |-> {}, noPidRuns |-> 0, degraded |-> FALSE, degradedAt |-> UnlatchFresh]

Least(a, b) == IF a < b THEN a ELSE b
Older(a, n, limit) == IF a = -1 THEN -1 ELSE Least(a + n, limit)

\* The count of stale runs beyond which no threshold lies.
LastRung == IF GraceRuns < StaleRuns THEN StaleRuns ELSE GraceRuns

Init ==
    /\ mode = "down"
    /\ pid = NoPid
    /\ warned = FALSE
    /\ job = "keepalive"
    /\ beat = NoOutcome
    /\ unwritten = FALSE
    /\ hb = NoBeat
    /\ wrote = FALSE
    /\ unseen = FALSE
    /\ quiet = 0
    /\ exitAge = JournalAge
    /\ marker = MarkerIgnore
    /\ saved = emptyWatchdogState
    /\ w = emptyWatchdogState
    /\ signal = "waiting"
    /\ faults = 0

-----------------------------------------------------------------------------
(* The daemon.                                                             *)

\* An atomic rewrite of heartbeat.json by the live process.
Written(outcome) ==
    /\ hb' = [pid |-> pid, ticked |-> outcome.ticked, failing |-> outcome.failing]
    /\ wrote' = TRUE
    /\ unseen' = TRUE
    /\ unwritten' = FALSE
    /\ UNCHANGED faults

\* The state directory is full, or not ours.  The failure is counted and the daemon
\* goes on.
WriteFails ==
    /\ unwritten \/ faults < MaxFaults
    /\ faults' = IF unwritten THEN faults ELSE faults + 1
    /\ unwritten' = TRUE
    /\ UNCHANGED <<hb, wrote, unseen>>

Write(outcome) ==
    /\ quiet' = 0
    /\ Written(outcome) \/ WriteFails

Beat(ticked, failing) ==
    /\ beat' = [ticked |-> ticked, failing |-> failing]
    /\ Write(beat')

\* launchd starts the label's process; a pid is not reused right away, nor while
\* the heartbeat names it.
Launch(p) ==
    /\ mode' = "boot"
    /\ pid' = p
    /\ warned' = FALSE
    /\ job' = "keepalive"

FreshPid(p) == p \notin {hb.pid, w.lastLabelPid}

Respawn(p) ==
    /\ job = "keepalive"
    /\ mode = "down"
    /\ FreshPid(p)
    /\ Launch(p)
    /\ quiet' = 0
    /\ UNCHANGED <<beat, unwritten, hb, wrote, unseen, exitAge, marker, saved, w, signal,
                   faults>>

\* The boot heartbeat; marker debris of a dead update is swept.
Boot ==
    /\ mode = "boot"
    /\ mode' = "wait"
    /\ Beat(FALSE, FALSE)
    /\ marker' = MarkerIgnore
    /\ UNCHANGED <<pid, warned, job, exitAge, saved, w, signal>>

\* tick_seq goes up when the tick starts; consec_failures is still the last one.
TickStart ==
    /\ mode \in {"wait", "resume"}
    /\ ~warned
    /\ mode' = "tick"
    /\ Beat(TRUE, beat.failing)
    /\ UNCHANGED <<pid, warned, job, exitAge, marker, saved, w, signal>>

Progress ==
    /\ mode = "tick"
    /\ Write(beat)
    /\ UNCHANGED <<daemonVars, exitAge, marker, saved, w, signal>>

TickEnd(ok) ==
    /\ mode = "tick"
    /\ mode' = "wait"
    /\ Beat(TRUE, ~ok)
    /\ UNCHANGED <<pid, warned, job, exitAge, marker, saved, w, signal>>

StartUpdate ==
    /\ mode = "wait"
    /\ ~warned
    /\ mode' = "update"
    /\ marker' = 0
    /\ UNCHANGED <<pid, warned, beat, job, fileVars, exitAge, saved, w, signal,
                   faults>>

\* No swap: the marker is cleared.  At boot the first tick follows at once; after
\* a tick the loop sleeps a whole interval first, and nothing is written till then.
UpdateDone ==
    /\ mode = "update"
    /\ marker' = MarkerIgnore
    /\ IF beat.ticked \/ warned
         THEN /\ mode' = "resume" /\ quiet' = 0
              /\ UNCHANGED <<beat, unwritten, hb, wrote, unseen, faults>>
         ELSE mode' = "tick" /\ Beat(TRUE, beat.failing)
    /\ UNCHANGED <<pid, warned, job, exitAge, saved, w, signal>>

\* Mutant: the label keeps showing the dead process.
GoneUnseen(clean) ==
    /\ mode' = "down"
    /\ pid' = pid
    /\ warned' = FALSE
    /\ beat' = NoOutcome
    /\ job' = IF clean /\ Legacy THEN "idle" ELSE job

\* The process is gone; launchd will respawn it, unless it exited with 0 under
\* a legacy registration.
Gone(clean) ==
    /\ mode' = "down"
    /\ pid' = NoPid
    /\ warned' = FALSE
    /\ beat' = NoOutcome
    /\ job' = IF clean /\ Legacy THEN "idle" ELSE job

\* Journaled: a recycle or clock drift (with a last heartbeat), a restart
\* directive, an installed update, or the shutdown a SIGTERM asks for, which even
\* a wedged daemon may still manage.  Only that one exits with 0.
DeliberateExit(clean) ==
    /\ mode \notin {"down", "boot"}
    /\ IF clean THEN warned ELSE mode \in {"wait", "resume", "update"}
    /\ Gone(clean)
    /\ exitAge' = 0
    /\ marker' = IF mode = "update" THEN MarkerIgnore ELSE marker
    /\ \/ UNCHANGED <<fileVars, faults>>
       \/ ~clean /\ mode \in {"wait", "resume"} /\ Write(beat)
    /\ UNCHANGED <<saved, w, signal>>

Crash ==
    /\ mode # "down"
    /\ Gone(FALSE)
    /\ UNCHANGED <<fileVars, exitAge, marker, saved, w, signal, faults>>

\* Timers or sockets die: the process lives and writes nothing any more.
Wedge ==
    /\ mode \in {"wait", "tick", "update", "resume"}
    /\ mode' = "wedged"
    /\ UNCHANGED <<pid, warned, beat, job, fileVars, exitAge, marker, saved, w,
                   signal, faults>>

\* The label is booted out from outside.
Unload ==
    /\ mode = "down"
    /\ job # "unloaded"
    /\ job' = "unloaded"
    /\ UNCHANGED <<mode, pid, warned, beat, fileVars, exitAge, marker, saved, w, signal,
                   faults>>

-----------------------------------------------------------------------------
(* The watchdog run.  A healthy daemon does not let too many pass unwritten. *)

OnTime ==
    /\ mode \in {"boot", "wait", "tick", "resume"} => quiet < TickRuns
    /\ mode = "update" => quiet < UpdateRuns

Aged(s, n) ==
    [s EXCEPT !.freshSince = Older(@, n, UnlatchFresh),
              !.degradedAt = Older(@, n, UnlatchFresh),
              !.lastRunAt = Older(@, n, JournalAge),
              !.respawns = {Older(a, n, FuseWindow) : a \in @}]

\* Respawn accounting: another heartbeat author or label pid, with no journal
\* entry since the previous run to explain it.
Respawned(s, age) ==
    /\ \/ hb # NoBeat /\ s.lastHbPid # NoPid /\ hb.pid # s.lastHbPid
       \/ pid # NoPid /\ s.lastLabelPid # NoPid /\ pid # s.lastLabelPid
    /\ ~(age <= s.lastRunAt + Slop /\ age < JournalAge)

InWindow(ages) == {a \in ages : a < FuseWindow}

Accounted(s, age) ==
    [s EXCEPT !.respawns = InWindow(IF Respawned(s, age) THEN @ \cup {0} ELSE @),
              !.lastLabelPid = pid,
              !.lastHbPid = IF hb = NoBeat THEN @ ELSE hb.pid,
              !.lastRunAt = 0,
              !.noPidRuns = IF pid = NoPid THEN Least(@ + 1, KickstartRuns) ELSE 0]

\* "A daemon that completes a healthy tick is recovered": as the code tells.
Recovered == hb.ticked /\ ~hb.failing

\* Mutant: a heartbeat seen does not take back the SIGTERM remembered.
ComparedGrudging(s, corrupt) ==
    IF corrupt /\ hb # NoBeat THEN [s EXCEPT !.consecUnchanged = 1]
    ELSE IF hb = NoBeat THEN [s EXCEPT !.consecUnchanged = 0]
    ELSE IF unseen
      THEN [s EXCEPT !.consecUnchanged = 0,
                     !.freshSince = IF s.consecUnchanged >= StaleRuns \/ @ = -1 THEN 0 ELSE @,
                     !.respawns = IF Recovered THEN {} ELSE @]
    ELSE [s EXCEPT !.consecUnchanged = Least(@ + 1, LastRung)]

\* Mutant: a corrupt file counts as a whole stale stretch.
ComparedCondemning(s, corrupt) ==
    IF corrupt /\ hb # NoBeat THEN [s EXCEPT !.consecUnchanged = StaleRuns]
    ELSE IF hb = NoBeat THEN [s EXCEPT !.consecUnchanged = 0]
    ELSE IF unseen
      THEN [s EXCEPT !.consecUnchanged = 0,
                     !.freshSince = IF s.consecUnchanged >= StaleRuns \/ @ = -1 THEN 0 ELSE @,
                     !.termedPid = NoPid,
                     !.respawns = IF Recovered THEN {} ELSE @]
    ELSE [s EXCEPT !.consecUnchanged = Least(@ + 1, LastRung)]

\* Staleness counts runs, not time; a corrupt file counts as one stale run.
Compared(s, corrupt) ==
    IF corrupt /\ hb # NoBeat THEN [s EXCEPT !.consecUnchanged = 1]
    ELSE IF hb = NoBeat THEN [s EXCEPT !.consecUnchanged = 0]
    ELSE IF unseen
      THEN [s EXCEPT !.consecUnchanged = 0,
                     !.freshSince = IF s.consecUnchanged >= StaleRuns \/ @ = -1 THEN 0 ELSE @,
                     !.termedPid = NoPid,
                     !.respawns = IF Recovered THEN {} ELSE @]
    ELSE [s EXCEPT !.consecUnchanged = Least(@ + 1, LastRung)]

Unlatched(s) ==
    IF /\ s.degraded /\ s.consecUnchanged = 0
       /\ s.freshSince # -1 /\ s.freshSince >= UnlatchFresh
      THEN [s EXCEPT !.degraded = FALSE, !.degradedAt = UnlatchFresh, !.respawns = {}]
      ELSE s

Fused(s) ==
    IF ~s.degraded /\ Cardinality(s.respawns) >= FuseRespawns
      THEN [s EXCEPT !.degraded = TRUE, !.degradedAt = 0]
      ELSE s

\* A fresh update marker widens the threshold.
Stale(s, markerAge) ==
    s.consecUnchanged >= IF markerAge < MarkerIgnore THEN GraceRuns ELSE StaleRuns

\* Only the heartbeat's author, while launchd says it is the label's process.
Killable(s, markerAge) ==
    hb # NoBeat /\ Stale(s, markerAge) /\ pid # NoPid /\ pid = hb.pid /\ ~s.degraded

\* SIGTERM first; SIGKILL when the process an earlier run sent it to is as stale.
Escalated(s) == IF s.termedPid = hb.pid THEN "SIGKILL" ELSE "SIGTERM"

\* The local decisions of a run, n intervals after the previous one.
Decide(n, corrupt) ==
    /\ signal = "waiting"
    /\ OnTime
    /\ corrupt => faults < MaxFaults
    /\ faults' = IF corrupt THEN faults + 1 ELSE faults
    /\ exitAge' = Older(exitAge, n, JournalAge)
    /\ marker' = Older(marker, n, MarkerIgnore)
    /\ quiet' = IF mode \in {"down", "wedged"} THEN 0 ELSE quiet + 1
    /\ saved' = Aged(saved, n)
    /\ LET loaded == IF corrupt THEN emptyWatchdogState ELSE saved'
           s == Fused(Unlatched(Compared(Accounted(loaded, exitAge'), corrupt)))
           kill == Killable(s, marker')
       IN  /\ w' = [s EXCEPT !.termedPid =
                      IF ~kill THEN @ ELSE IF @ = hb.pid THEN NoPid ELSE hb.pid]
           /\ signal' = IF kill THEN Escalated(s) ELSE "none"
    /\ wrote' = FALSE
    /\ UNCHANGED <<daemonVars, unwritten, hb, unseen>>

\* Mutant: an idle label is left alone.
HealsUnloaded == w.lastLabelPid = NoPid /\ job = "unloaded"

\* healDaemonArtifacts, for a label the run found without a process: bootstrap
\* an unloaded job, kickstart one that stays idle.
Heals ==
    /\ w.lastLabelPid = NoPid
    /\ \/ job = "unloaded"
       \/ job # "unloaded" /\ ~w.degraded /\ w.noPidRuns >= KickstartRuns

\* The signal reaches the process the run read, if that one still lives.
Signalled(sig) == signal = sig /\ pid # NoPid /\ pid = w.lastLabelPid

Act(p) ==
    /\ signal # "waiting"
    /\ IF Signalled("SIGKILL") THEN Gone(FALSE)
       ELSE IF Heals /\ mode = "down" THEN FreshPid(p) /\ Launch(p) /\ beat' = beat
       ELSE /\ warned' = (warned \/ Signalled("SIGTERM"))
            /\ UNCHANGED <<mode, pid, job, beat>>
    /\ quiet' = IF mode = "down" THEN 0 ELSE quiet
    /\ saved' = w
    /\ unseen' = wrote
    /\ signal' = "waiting"
    /\ UNCHANGED <<unwritten, hb, wrote, exitAge, marker, w, faults>>

\* The run dies before it acts: what it decided is lost.
RunDies ==
    /\ signal # "waiting"
    /\ faults < MaxFaults
    /\ faults' = faults + 1
    /\ signal' = "waiting"
    /\ w' = saved
    /\ UNCHANGED <<daemonVars, fileVars, exitAge, marker, saved>>

-----------------------------------------------------------------------------
Daemon ==
    \/ \E p \in Pids : Respawn(p)
    \/ Boot
    \/ TickStart
    \/ Progress
    \/ \E ok \in BOOLEAN : TickEnd(ok)
    \/ StartUpdate
    \/ UpdateDone
    \/ \E clean \in BOOLEAN : DeliberateExit(clean)
    \/ Crash
    \/ Wedge
    \/ Unload

Next ==
    \/ Daemon
    \/ \E n \in Sleeps, corrupt \in BOOLEAN : Decide(n, corrupt)
    \/ \E p \in Pids : Act(p)
    \/ RunDies

Spec == Init /\ [][Next]_vars

\* launchd fires the watchdog for ever (StartInterval) and respawns what it
\* keeps alive; a run that starts gets to its end unless it is killed.
FairSpec ==
    /\ Spec
    /\ WF_vars(\E n \in Sleeps : Decide(n, FALSE))
    /\ WF_vars(\E p \in Pids : Act(p))
    /\ WF_vars(\E p \in Pids : Respawn(p))

-----------------------------------------------------------------------------
TypeOK ==
    /\ mode \in {"down", "boot", "wait", "tick", "update", "resume", "wedged"}
    /\ pid \in AnyPid /\ (pid = NoPid <=> mode = "down")
    /\ warned \in BOOLEAN
    /\ job \in {"keepalive", "idle", "unloaded"}
    /\ beat \in Outcome /\ hb \in [pid : AnyPid, ticked : BOOLEAN, failing : BOOLEAN]
    /\ unwritten \in BOOLEAN /\ wrote \in BOOLEAN /\ unseen \in BOOLEAN
    /\ quiet \in Nat
    /\ exitAge \in 0 .. JournalAge /\ marker \in 0 .. MarkerIgnore
    /\ saved \in WatchdogState /\ w \in WatchdogState
    /\ signal \in {"waiting", "none", "SIGTERM", "SIGKILL"}
    /\ faults \in 0 .. MaxFaults

Condemned == signal = "waiting" /\ signal' \in {"SIGTERM", "SIGKILL"}

\* A run decides against a process only if that has wedged: not in a long tick,
\* nor over a corrupt state file, a sleep or a lost run.  Three are exempt: a
\* daemon whose last write of the heartbeat failed (UnwrittenSpared), an update
\* whose marker has expired (the machine slept), and the interval after an update
\* that installed nothing, which has neither marker nor heartbeat.
HealthySpared ==
    [][Condemned => \/ mode \in {"wedged", "resume"}
                    \/ mode = "update" /\ marker' = MarkerIgnore
                    \/ unwritten]_vars

\* "server alerts instead of the watchdog killing a healthy daemon that merely
\* can't write" (heartbeat.ts): a daemon that goes on ticking while its heartbeat
\* cannot be written is not told to stop.
\* The code does otherwise: the watchdog knows of no failed write (README, Divergences).
UnwrittenSpared == [][Condemned /\ mode \in {"wait", "tick"} => ~unwritten]_vars

\* "The update marker widens the watchdog's deadline for the duration - a
\* slow-link download can legitimately take most of the 3 x 600s budget, far past
\* the normal staleness threshold" (update.ts): a daemon that has done no more
\* than download for that long is not told to stop.
\* The code does otherwise (README, Divergences).
UpdateSpared == [][Condemned => mode \notin {"update", "resume"}]_vars

\* No process is killed outright: SIGKILL is only meant for one that an earlier
\* run sent SIGTERM, also when launchd has reused a pid the watchdog remembers.
WarnedFirst == Signalled("SIGKILL") => warned

\* A daemon that is down, whatever launchd thinks of its label, or wedged after it
\* has written a heartbeat of its own, works again in the end, or the fuse has
\* blown.  One that never managed to write is only observed.
OutageEnds ==
    mode = "down" \/ (mode = "wedged" /\ hb.pid = pid)
        ~> (mode \notin {"wedged", "down"} \/ saved.degraded)

\* "30 min of fresh heartbeats unlatches" (watchdog.ts): a blown fuse holds at
\* least that long.
\* The code does otherwise (README, Divergences).
LatchHolds ==
    [][saved.degraded /\ signal = "none" /\ saved' = w /\ ~w.degraded
          => saved.degradedAt >= UnlatchFresh]_vars
=============================================================================
