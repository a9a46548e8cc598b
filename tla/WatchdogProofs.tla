--------------------------- MODULE WatchdogProofs ---------------------------
(***************************************************************************)
(* Proofs about Watchdog: who is told to stop, and how.                    *)
(*                                                                         *)
(* Both arguments rest on pids.  launchd does not give a process the pid   *)
(* the heartbeat or the run in progress names, so while the label's pid is *)
(* the heartbeat's, the heartbeat is that process's own, and what a run    *)
(* remembers of the pid is about that process, unless the file was written *)
(* since: then the run that reads it forgets.  A daemon whose last write   *)
(* failed is left out of the second argument: its heartbeat is an old one. *)
(***************************************************************************)
EXTENDS Watchdog, TLAPS

\* The label's process is alive, and the heartbeat is its own.
Author == pid # NoPid /\ hb.pid = pid

\* It has not beaten yet while it boots; an update has a marker, a daemon at work
\* has none.
Launched ==
    /\ mode = "boot" => hb.pid # pid
    /\ mode \in {"wait", "tick", "resume"} => marker = MarkerIgnore

\* A process remembered as told to stop has been, unless it wrote since; the run in
\* progress may be about to tell it.
Told ==
    /\ Author /\ saved.termedPid = pid /\ ~unseen => warned
    /\ signal # "waiting" /\ Author /\ w.termedPid = pid /\ ~wrote =>
          warned \/ (signal = "SIGTERM" /\ w.lastLabelPid = pid)

\* A count of unchanged runs is no more than the runs a working daemon has been silent,
\* as long as its heartbeat can be written.
AtWork == Author /\ ~unwritten /\ mode \in {"wait", "tick", "update"}
Silent(c) == c <= quiet

Counted ==
    /\ AtWork /\ ~unseen => Silent(saved.consecUnchanged)
    /\ signal # "waiting" /\ AtWork /\ ~wrote => Silent(w.consecUnchanged)

\* The inductive invariant.
WatchdogInv == TypeOK /\ Launched /\ Told /\ Counted /\ WarnedFirst

-----------------------------------------------------------------------------
(* What the parts of a decision make of the state they are given.          *)

\* What the two arguments need of it.
Same(s, t) ==
    /\ t.termedPid = s.termedPid
    /\ t.lastLabelPid = s.lastLabelPid
    /\ t.consecUnchanged = s.consecUnchanged

LEMMA OlderForm ==
    ASSUME NEW limit \in Nat, NEW k \in Nat, NEW a \in -1 .. limit
    PROVE  /\ Older(a, k, limit) \in -1 .. limit
           /\ a # -1 => Older(a, k, limit) \in 0 .. limit
           /\ a = limit => Older(a, k, limit) = limit
BY DEF Older, Least

LEMMA AgedForm ==
    ASSUME NEW s \in WatchdogState, NEW k \in Nat
    PROVE  Aged(s, k) \in WatchdogState /\ Same(s, Aged(s, k))
<1> DEFINE f == Older(s.freshSince, k, UnlatchFresh)
           g == Older(s.degradedAt, k, UnlatchFresh)
           r == Older(s.lastRunAt, k, JournalAge)
           S == {Older(a, k, FuseWindow) : a \in s.respawns}
<1>a. /\ UnlatchFresh \in Nat /\ JournalAge \in Nat
      /\ s.freshSince \in -1 .. UnlatchFresh /\ s.degradedAt \in 0 .. UnlatchFresh
      /\ s.lastRunAt \in 0 .. JournalAge
  BY WatchdogAssumption DEF WatchdogState
<1>b. /\ s.degradedAt \in -1 .. UnlatchFresh /\ s.degradedAt # -1
      /\ s.lastRunAt \in -1 .. JournalAge /\ s.lastRunAt # -1
  BY <1>a
<1>1. f \in -1 .. UnlatchFresh /\ g \in 0 .. UnlatchFresh
  BY <1>a, <1>b, OlderForm
<1>2. r \in 0 .. JournalAge
  BY <1>a, <1>b, OlderForm
<1>3. S \in SUBSET (0 .. FuseWindow)
  <2>1. \A a \in s.respawns : a \in 0 .. FuseWindow
    BY DEF WatchdogState
  <2>2. \A a \in s.respawns : a \in -1 .. FuseWindow /\ a # -1
    BY <2>1
  <2>3. FuseWindow \in Nat
    BY WatchdogAssumption
  <2>4. \A a \in s.respawns : Older(a, k, FuseWindow) \in 0 .. FuseWindow
    BY <2>2, <2>3, OlderForm
  <2> QED BY <2>4
<1>4. Aged(s, k) = [s EXCEPT !.freshSince = f, !.degradedAt = g, !.lastRunAt = r, !.respawns = S]
  BY DEF Aged
<1> HIDE DEF f, g, r, S
<1> QED BY <1>1, <1>2, <1>3, <1>4 DEF WatchdogState, Same

LEMMA EmptyForm ==
    /\ emptyWatchdogState \in WatchdogState
    /\ emptyWatchdogState.termedPid = NoPid /\ emptyWatchdogState.consecUnchanged = 0
BY WatchdogAssumption DEF emptyWatchdogState, WatchdogState, AnyPid

LEMMA AccountedForm ==
    ASSUME TypeOK, NEW s \in WatchdogState, NEW age \in 0 .. JournalAge
    PROVE  LET t == Accounted(s, age)
           IN  /\ t \in WatchdogState /\ t.lastLabelPid = pid
               /\ t.termedPid = s.termedPid /\ t.consecUnchanged = s.consecUnchanged
<1> DEFINE S == InWindow(IF Respawned(s, age) THEN s.respawns \cup {0} ELSE s.respawns)
           h == IF hb = NoBeat THEN s.lastHbPid ELSE hb.pid
           c == IF pid = NoPid THEN Least(s.noPidRuns + 1, KickstartRuns) ELSE 0
<1>1. S \in SUBSET (0 .. FuseWindow)
  BY WatchdogAssumption DEF InWindow, WatchdogState
<1>2. h \in AnyPid /\ pid \in AnyPid
  BY DEF TypeOK, WatchdogState
<1>3. c \in Nat
  BY WatchdogAssumption DEF Least, WatchdogState
<1>4. 0 \in 0 .. JournalAge
  BY WatchdogAssumption
<1>5. Accounted(s, age) = [s EXCEPT !.respawns = S, !.lastLabelPid = pid, !.lastHbPid = h,
                                     !.lastRunAt = 0, !.noPidRuns = c]
  BY DEF Accounted
<1> HIDE DEF S, h, c
<1> QED BY <1>1, <1>2, <1>3, <1>4, <1>5 DEF WatchdogState

\* The count that staleness is read from, and what a heartbeat seen takes back.
LEMMA ComparedForm ==
    ASSUME TypeOK, NEW s \in WatchdogState, NEW corrupt \in BOOLEAN
    PROVE  LET t == Compared(s, corrupt)
           IN  /\ t \in WatchdogState /\ t.lastLabelPid = s.lastLabelPid
               /\ t.termedPid = s.termedPid \/ t.termedPid = NoPid
               /\ t.termedPid # NoPid => corrupt \/ hb = NoBeat \/ ~unseen
               /\ hb = NoBeat => t.consecUnchanged = 0
               /\ corrupt => t.consecUnchanged <= 1
               /\ unseen => t.consecUnchanged <= 1
               /\ ~corrupt /\ unseen => t.consecUnchanged = 0
               /\ t.consecUnchanged <= s.consecUnchanged + 1
<1> DEFINE fr == IF s.consecUnchanged >= StaleRuns \/ s.freshSince = -1 THEN 0 ELSE s.freshSince
           rs == IF Recovered THEN {} ELSE s.respawns
           c  == Least(s.consecUnchanged + 1, LastRung)
<1>1. fr \in -1 .. UnlatchFresh /\ rs \in SUBSET (0 .. FuseWindow)
  BY WatchdogAssumption DEF WatchdogState
<1>2. c \in Nat /\ c <= s.consecUnchanged + 1 /\ s.consecUnchanged \in Nat
  BY WatchdogAssumption DEF WatchdogState, Least, LastRung
<1>3. NoPid \in AnyPid
  BY DEF AnyPid
<1>4. Compared(s, corrupt) =
        IF corrupt /\ hb # NoBeat THEN [s EXCEPT !.consecUnchanged = 1]
        ELSE IF hb = NoBeat THEN [s EXCEPT !.consecUnchanged = 0]
        ELSE IF unseen THEN [s EXCEPT !.consecUnchanged = 0, !.freshSince = fr,
                                      !.termedPid = NoPid, !.respawns = rs]
        ELSE [s EXCEPT !.consecUnchanged = c]
  BY DEF Compared
<1> HIDE DEF fr, rs, c
<1>5. CASE corrupt /\ hb # NoBeat
  BY <1>2, <1>4, <1>5 DEF WatchdogState
<1>6. CASE hb = NoBeat
  BY <1>2, <1>4, <1>6 DEF WatchdogState
<1>7. CASE ~corrupt /\ hb # NoBeat /\ unseen
  <2> DEFINE t == [s EXCEPT !.consecUnchanged = 0, !.freshSince = fr,
                            !.termedPid = NoPid, !.respawns = rs]
  <2>1. Compared(s, corrupt) = t
    BY <1>4, <1>7
  <2>2. t \in WatchdogState
    BY <1>1, <1>3 DEF WatchdogState
  <2>3. t.lastLabelPid = s.lastLabelPid /\ t.termedPid = NoPid /\ t.consecUnchanged = 0
    BY DEF WatchdogState
  <2> HIDE DEF t
  <2> QED BY <1>2, <1>7, <2>1, <2>2, <2>3
<1>8. CASE ~corrupt /\ hb # NoBeat /\ ~unseen
  BY <1>2, <1>4, <1>8 DEF WatchdogState
<1> QED BY <1>5, <1>6, <1>7, <1>8

LEMMA LatchForm ==
    ASSUME NEW s \in WatchdogState
    PROVE  /\ Unlatched(s) \in WatchdogState /\ Same(s, Unlatched(s))
           /\ Fused(s) \in WatchdogState /\ Same(s, Fused(s))
<1>1. UnlatchFresh \in 0 .. UnlatchFresh /\ 0 \in 0 .. UnlatchFresh
  BY WatchdogAssumption
<1>2. Unlatched(s) \in WatchdogState /\ Same(s, Unlatched(s))
  BY <1>1 DEF Unlatched, WatchdogState, Same
<1>3. Fused(s) \in WatchdogState /\ Same(s, Fused(s))
  BY <1>1 DEF Fused, WatchdogState, Same
<1> QED BY <1>2, <1>3

\* A decision: the state s it is taken on, and what it makes of it.
LEMMA Decision ==
    ASSUME WatchdogInv, NEW k \in Sleeps, NEW corrupt \in BOOLEAN, Decide(k, corrupt)
    PROVE  \E s \in WatchdogState :
              /\ s.lastLabelPid = pid
              /\ s.termedPid # NoPid /\ hb # NoBeat => s.termedPid = saved.termedPid /\ ~unseen
              /\ \/ s.consecUnchanged <= 1
                 \/ ~unseen /\ s.consecUnchanged <= saved.consecUnchanged + 1
              /\ IF Killable(s, marker')
                   THEN /\ signal' = Escalated(s)
                        /\ w' = [s EXCEPT !.termedPid = IF s.termedPid = hb.pid THEN NoPid ELSE hb.pid]
                   ELSE signal' = "none" /\ w' = s
<1>1. TypeOK /\ k \in Nat /\ saved \in WatchdogState
  BY WatchdogAssumption DEF WatchdogInv, TypeOK
<1>2. exitAge' \in 0 .. JournalAge
  <2>1. exitAge \in -1 .. JournalAge /\ exitAge # -1 /\ JournalAge \in Nat
    BY <1>1, WatchdogAssumption DEF TypeOK
  <2> QED BY <1>1, <2>1, OlderForm DEF Decide
<1> DEFINE old == Aged(saved, k)
           loaded == IF corrupt THEN emptyWatchdogState ELSE saved'
           acc == Accounted(loaded, exitAge')
           cmp == Compared(acc, corrupt)
           s == Fused(Unlatched(cmp))
<1>3. loaded \in WatchdogState
  BY <1>1, AgedForm, EmptyForm DEF Decide
<1>4. corrupt => loaded.termedPid = NoPid /\ loaded.consecUnchanged = 0
  BY EmptyForm
<1>5. ~corrupt => /\ loaded.termedPid = saved.termedPid
                  /\ loaded.consecUnchanged = saved.consecUnchanged
  BY <1>1, AgedForm DEF Decide, Same
<1> HIDE DEF loaded
<1>6. /\ acc \in WatchdogState /\ acc.lastLabelPid = pid
      /\ acc.termedPid = loaded.termedPid /\ acc.consecUnchanged = loaded.consecUnchanged
  BY <1>1, <1>2, <1>3, AccountedForm
<1> HIDE DEF acc
<1>7. /\ cmp \in WatchdogState /\ cmp.lastLabelPid = acc.lastLabelPid
      /\ cmp.termedPid = acc.termedPid \/ cmp.termedPid = NoPid
      /\ cmp.termedPid # NoPid => corrupt \/ hb = NoBeat \/ ~unseen
      /\ corrupt => cmp.consecUnchanged <= 1
      /\ unseen => cmp.consecUnchanged <= 1
      /\ cmp.consecUnchanged <= acc.consecUnchanged + 1
  BY <1>1, <1>6, ComparedForm
<1> HIDE DEF cmp
<1>8. s \in WatchdogState /\ Same(cmp, s)
  BY <1>7, LatchForm DEF Same
<1>9. IF Killable(s, marker')
        THEN /\ signal' = Escalated(s)
             /\ w' = [s EXCEPT !.termedPid = IF s.termedPid = hb.pid THEN NoPid ELSE hb.pid]
        ELSE signal' = "none" /\ w' = [s EXCEPT !.termedPid = s.termedPid]
  BY DEF Decide, loaded, acc, cmp
<1> HIDE DEF s
<1>10. [s EXCEPT !.termedPid = s.termedPid] = s
  BY <1>8 DEF WatchdogState
<1>11. s.lastLabelPid = pid
  BY <1>6, <1>7, <1>8 DEF Same
<1>12. s.termedPid # NoPid /\ hb # NoBeat => s.termedPid = saved.termedPid /\ ~unseen
  BY <1>4, <1>5, <1>6, <1>7, <1>8 DEF Same
<1>13. s.consecUnchanged <= 1 \/ (~unseen /\ s.consecUnchanged <= saved.consecUnchanged + 1)
  BY <1>4, <1>5, <1>6, <1>7, <1>8 DEF Same
<1> QED BY <1>8, <1>9, <1>10, <1>11, <1>12, <1>13

-----------------------------------------------------------------------------
(* Types, in three parts.                                                  *)

Flags  == /\ warned \in BOOLEAN /\ wrote \in BOOLEAN /\ unseen \in BOOLEAN
          /\ unwritten \in BOOLEAN
Beats  == beat \in Outcome /\ hb \in [pid : AnyPid, ticked : BOOLEAN, failing : BOOLEAN]
Values ==
    /\ mode \in {"down", "boot", "wait", "tick", "update", "resume", "wedged"}
    /\ pid \in AnyPid /\ (pid = NoPid <=> mode = "down")
    /\ job \in {"keepalive", "idle", "unloaded"}
    /\ quiet \in Nat
    /\ exitAge \in 0 .. JournalAge /\ marker \in 0 .. MarkerIgnore
    /\ saved \in WatchdogState /\ w \in WatchdogState
    /\ signal \in {"waiting", "none", "SIGTERM", "SIGKILL"}
    /\ faults \in 0 .. MaxFaults

LEMMA TypeParts == TypeOK <=> Flags /\ Beats /\ Values
BY Zenon DEF TypeOK, Flags, Beats, Values

LEMMA TypePartsNext == TypeOK' <=> Flags' /\ Beats' /\ Values'
BY Zenon DEF TypeOK, Flags, Beats, Values

\* An outcome, and what a write makes of it.
LEMMA NoOutcomeForm == NoOutcome \in Outcome
<1>1. PICK no \in BOOLEAN : ~no
  OBVIOUS
<1>2. no = FALSE
  BY <1>1, Zenon
<1>3. NoOutcome = [ticked |-> no, failing |-> no]
  BY <1>2, Zenon DEF NoOutcome
<1> QED BY <1>3 DEF Outcome

LEMMA WriteForm ==
    ASSUME Flags, Beats, Values, NEW o \in Outcome, Write(o)
    PROVE  /\ wrote' \in BOOLEAN /\ unseen' \in BOOLEAN /\ unwritten' \in BOOLEAN
           /\ hb' \in [pid : AnyPid, ticked : BOOLEAN, failing : BOOLEAN]
           /\ quiet' = 0 /\ faults' \in 0 .. MaxFaults
           /\ unwritten' \/ (wrote' /\ unseen' /\ hb'.pid = pid)
           /\ (wrote' /\ unseen' /\ hb'.pid = pid) \/ UNCHANGED <<hb, wrote, unseen>>
<1>1. o.ticked \in BOOLEAN /\ o.failing \in BOOLEAN /\ pid \in AnyPid
  BY Zenon DEF Outcome, Values
<1>2. quiet' = 0
  BY Zenon DEF Write
<1>3. CASE Written(o)
  <2>1. /\ hb' = [pid |-> pid, ticked |-> o.ticked, failing |-> o.failing]
        /\ wrote' = TRUE /\ unseen' = TRUE /\ unwritten' = FALSE /\ faults' = faults
    BY <1>3, Zenon DEF Written
  <2>2. hb' \in [pid : AnyPid, ticked : BOOLEAN, failing : BOOLEAN] /\ hb'.pid = pid
    BY <1>1, <2>1
  <2>3. wrote' /\ unseen' /\ wrote' \in BOOLEAN /\ unseen' \in BOOLEAN /\ unwritten' \in BOOLEAN
    BY <2>1, Zenon
  <2>4. faults' \in 0 .. MaxFaults
    BY <2>1 DEF Values
  <2> QED BY <1>2, <2>2, <2>3, <2>4
<1>4. CASE WriteFails
  <2>1. UNCHANGED <<hb, wrote, unseen>> /\ unwritten' = TRUE
    BY <1>4, Zenon DEF WriteFails
  <2>2. unwritten' /\ unwritten' \in BOOLEAN
    BY <2>1, Zenon
  <2>3. wrote' \in BOOLEAN /\ unseen' \in BOOLEAN
    BY <2>1, Zenon DEF Flags
  <2>4. hb' \in [pid : AnyPid, ticked : BOOLEAN, failing : BOOLEAN]
    BY <2>1 DEF Beats
  <2>5. faults' \in 0 .. MaxFaults
    BY <1>4, WatchdogAssumption DEF WriteFails, Values
  <2> QED BY <1>2, <2>1, <2>2, <2>3, <2>4, <2>5
<1> QED BY <1>3, <1>4, Zenon DEF Write

\* The daemon gets on.  When it writes, everything remembered of it is void; when it
\* cannot, it is no longer one whose heartbeat tells.
LEMMA BeatStep ==
    ASSUME WatchdogInv, NEW o \in Outcome, Write(o), beat' \in Outcome, mode # "down",
           UNCHANGED <<pid, warned, job, exitAge, saved, w, signal>>,
           mode' \in {"wait", "tick"}, marker' = MarkerIgnore
    PROVE  WatchdogInv'
<1> USE DEF WatchdogInv
<1>0. Flags /\ Beats /\ Values
  BY TypeParts
<1>1. /\ wrote' \in BOOLEAN /\ unseen' \in BOOLEAN /\ unwritten' \in BOOLEAN
      /\ hb' \in [pid : AnyPid, ticked : BOOLEAN, failing : BOOLEAN]
      /\ quiet' = 0 /\ faults' \in 0 .. MaxFaults
      /\ unwritten' \/ (wrote' /\ unseen' /\ hb'.pid = pid)
      /\ (wrote' /\ unseen' /\ hb'.pid = pid) \/ UNCHANGED <<hb, wrote, unseen>>
  BY <1>0, WriteForm
<1>2. Flags'
  BY <1>0, <1>1, Zenon DEF Flags
<1>3. Beats'
  BY <1>1 DEF Beats
<1>4. Values'
  BY <1>0, <1>1, WatchdogAssumption DEF Values
<1>5. Launched'
  BY DEF Launched
<1>6. Told'
  BY <1>1 DEF Told, Author
<1>7. Counted'
  BY <1>1 DEF Counted, AtWork
<1>8. WarnedFirst'
  BY DEF WarnedFirst, Signalled
<1> QED BY <1>2, <1>3, <1>4, <1>5, <1>6, <1>7, <1>8, TypePartsNext

\* The process is gone, and nothing is said of it any more.
LEMMA GoneStep ==
    ASSUME WatchdogInv, NEW clean \in BOOLEAN, Gone(clean), Flags', Beats', quiet' \in Nat,
           exitAge' \in 0 .. JournalAge, marker' \in 0 .. MarkerIgnore,
           saved' \in WatchdogState,
           faults' \in 0 .. MaxFaults,
           signal' \in {"waiting", signal}, UNCHANGED w
    PROVE  WatchdogInv'
<1> USE DEF WatchdogInv
<1>1. pid' = NoPid /\ mode' = "down" /\ job' \in {"idle", job}
  BY DEF Gone
<1>2. Values'
  BY <1>1, TypeParts DEF Values, AnyPid
<1>3. Launched' /\ Told' /\ Counted' /\ WarnedFirst'
  BY <1>1 DEF Launched, Told, Counted, Author, AtWork, WarnedFirst, Signalled
<1> QED BY <1>2, <1>3, TypePartsNext

\* A new process is not the author of the heartbeat, nor the one a run has read.
LEMMA LaunchStep ==
    ASSUME WatchdogInv, NEW p \in Pids, Launch(p), FreshPid(p),
           UNCHANGED <<beat, unwritten, hb, w, exitAge, marker, faults>>,
           wrote' = wrote, unseen' \in {unseen, wrote}, quiet' \in Nat, saved' \in {saved, w},
           signal' \in {"waiting", signal}
    PROVE  WatchdogInv'
<1> USE DEF WatchdogInv
<1>1. pid' = p /\ mode' = "boot" /\ job' = "keepalive" /\ hb'.pid # p /\ w'.lastLabelPid # p
  BY DEF Launch, FreshPid
<1>2. Flags'
  BY TypeParts, Zenon DEF Flags, Launch
<1>3. Beats'
  BY TypeParts DEF Beats
<1>4. Values'
  BY <1>1, TypeParts, WatchdogAssumption DEF Values, AnyPid
<1>5. Launched' /\ Told' /\ Counted' /\ WarnedFirst'
  BY <1>1 DEF Launched, Told, Counted, Author, AtWork, WarnedFirst, Signalled
<1> QED BY <1>2, <1>3, <1>4, <1>5, TypePartsNext

\* The process goes on, or hangs, without writing.
LEMMA MuteStep ==
    ASSUME WatchdogInv, mode # "down", mode' # "down",
           UNCHANGED <<pid, warned, beat, job, unwritten, hb, wrote, unseen>>,
           UNCHANGED <<exitAge, saved, w, signal, faults>>,
           mode' \in {"update", "resume", "wedged"},
           mode' = "update" => mode = "wait" /\ quiet' = quiet,
           mode' = "resume" => marker' = MarkerIgnore,
           marker' \in 0 .. MarkerIgnore, quiet' \in Nat
    PROVE  WatchdogInv'
<1> USE DEF WatchdogInv
<1>1. Flags'
  BY TypeParts, Zenon DEF Flags
<1>2. Beats'
  BY TypeParts DEF Beats
<1>3. Values'
  BY TypeParts DEF Values
<1>4. Launched' /\ Told' /\ WarnedFirst'
  BY DEF Launched, Told, Author, WarnedFirst, Signalled
<1>5. Counted'
  BY DEF Counted, Silent, AtWork, Author
<1> QED BY <1>1, <1>2, <1>3, <1>4, <1>5, TypePartsNext

LEMMA DaemonStep ==
    ASSUME WatchdogInv, Daemon
    PROVE  WatchdogInv'
<1> USE DEF WatchdogInv
<1>0. /\ Flags /\ Beats /\ Values /\ MarkerIgnore \in Nat
      /\ pid # NoPid <=> mode # "down"
      /\ quiet \in Nat /\ 0 \in Nat /\ marker \in 0 .. MarkerIgnore
      /\ MarkerIgnore \in 0 .. MarkerIgnore /\ 0 \in 0 .. MarkerIgnore
      /\ exitAge \in 0 .. JournalAge /\ 0 \in 0 .. JournalAge /\ saved \in WatchdogState
  BY TypeParts, WatchdogAssumption DEF Values
<1>1. ASSUME NEW p \in Pids, Respawn(p) PROVE WatchdogInv'
  BY <1>0, <1>1, LaunchStep DEF Respawn
<1>b. beat \in Outcome /\ beat.ticked \in BOOLEAN /\ beat.failing \in BOOLEAN
  BY <1>0, Zenon DEF Beats, Outcome
<1>2. PICK no \in BOOLEAN : ~no
  OBVIOUS
<1>3. PICK yes \in BOOLEAN : yes
  OBVIOUS
<1>4. no = FALSE /\ yes = TRUE
  BY <1>2, <1>3, Zenon
<1>c. ASSUME NEW a \in BOOLEAN, NEW b \in BOOLEAN, Beat(a, b)
      PROVE  \E o \in Outcome : beat' = o /\ Write(o)
  <2> DEFINE o == [ticked |-> a, failing |-> b]
  <2>1. o \in Outcome
    BY DEF Outcome
  <2>2. beat' = o /\ Write(beat')
    BY <1>c, Zenon DEF Beat
  <2>3. Write(o)
    BY <2>2, Zenon DEF Write
  <2> HIDE DEF o
  <2> QED BY <2>1, <2>2, <2>3, Zenon
<1>5. CASE Boot
  <2>1. Beat(no, no) /\ mode = "boot" /\ mode' = "wait" /\ marker' = MarkerIgnore
        /\ UNCHANGED <<pid, warned, job, exitAge, saved, w, signal>>
    BY <1>4, <1>5, Zenon DEF Boot
  <2>2. PICK o \in Outcome : beat' = o /\ Write(o)
    BY <1>c, <2>1
  <2> QED BY <2>1, <2>2, BeatStep
<1>6. CASE TickStart
  <2>1. Beat(yes, beat.failing) /\ mode \in {"wait", "resume"} /\ mode' = "tick"
        /\ UNCHANGED <<pid, warned, job, exitAge, marker, saved, w, signal>>
    BY <1>4, <1>6, Zenon DEF TickStart
  <2>2. marker' = MarkerIgnore
    BY <2>1 DEF Launched
  <2>3. PICK o \in Outcome : beat' = o /\ Write(o)
    BY <1>b, <1>c, <2>1
  <2> QED BY <2>1, <2>2, <2>3, BeatStep
<1>7. CASE Progress
  <2>1. marker' = MarkerIgnore
    BY <1>7 DEF Launched, Progress
  <2>2. Write(beat) /\ mode = "tick"
        /\ UNCHANGED <<mode, pid, warned, beat, job, exitAge, saved, w, signal>>
    BY <1>7, Zenon DEF Progress, daemonVars
  <2> QED BY <1>b, <2>1, <2>2, BeatStep
<1>8. ASSUME NEW ok \in BOOLEAN, TickEnd(ok) PROVE WatchdogInv'
  <2>1. PICK f \in BOOLEAN : f = ~ok
    BY Zenon
  <2>2. Beat(yes, f) /\ mode = "tick" /\ mode' = "wait"
        /\ UNCHANGED <<pid, warned, job, exitAge, marker, saved, w, signal>>
    BY <1>4, <1>8, <2>1, Zenon DEF TickEnd
  <2>3. marker' = MarkerIgnore
    BY <2>2 DEF Launched
  <2>4. PICK o \in Outcome : beat' = o /\ Write(o)
    BY <1>c, <2>2
  <2> QED BY <2>2, <2>3, <2>4, BeatStep
<1>9. CASE StartUpdate
  BY <1>0, <1>9, MuteStep DEF StartUpdate, fileVars
<1>10. CASE UpdateDone
  <2>1. CASE beat.ticked \/ warned
    <3>1. /\ mode = "update" /\ mode' = "resume" /\ quiet' = 0 /\ marker' = MarkerIgnore
          /\ UNCHANGED <<pid, warned, beat, job, unwritten, hb, wrote, unseen>>
          /\ UNCHANGED <<exitAge, saved, w, signal, faults>>
      BY <1>10, <2>1, Zenon DEF UpdateDone
    <3> QED BY <1>0, <3>1, MuteStep
  <2>2. CASE ~(beat.ticked \/ warned)
    <3>1. Beat(yes, beat.failing) /\ mode = "update" /\ mode' = "tick" /\ marker' = MarkerIgnore
          /\ UNCHANGED <<pid, warned, job, exitAge, saved, w, signal>>
      BY <1>4, <1>10, <2>2, Zenon DEF UpdateDone
    <3>2. PICK o \in Outcome : beat' = o /\ Write(o)
      BY <1>b, <1>c, <3>1
    <3> QED BY <3>1, <3>2, BeatStep
  <2> QED BY <2>1, <2>2
<1>11. ASSUME NEW clean \in BOOLEAN, DeliberateExit(clean) PROVE WatchdogInv'
  <2>1. Gone(clean) /\ exitAge' = 0 /\ marker' \in {MarkerIgnore, marker}
        /\ UNCHANGED <<saved, w, signal>>
    BY <1>11 DEF DeliberateExit
  <2>2. warned' \in BOOLEAN /\ beat' \in Outcome
    BY <2>1, NoOutcomeForm, Zenon DEF Gone
  <2>3. UNCHANGED <<unwritten, hb, wrote, unseen, quiet, faults>> \/ Write(beat)
    BY <1>11, Zenon DEF DeliberateExit, fileVars
  <2>4. CASE UNCHANGED <<unwritten, hb, wrote, unseen, quiet, faults>>
    <3>1. Flags'
      BY <1>0, <2>1, <2>2, <2>4, Zenon DEF Flags
    <3>2. Beats'
      BY <1>0, <2>2, <2>4 DEF Beats
    <3>3. faults' \in 0 .. MaxFaults
      BY <1>0, <2>4 DEF Values
    <3> QED BY <1>0, <2>1, <2>4, <3>1, <3>2, <3>3, GoneStep
  <2>5. CASE Write(beat)
    <3>b. /\ wrote' \in BOOLEAN /\ unseen' \in BOOLEAN /\ unwritten' \in BOOLEAN
          /\ hb' \in [pid : AnyPid, ticked : BOOLEAN, failing : BOOLEAN]
          /\ quiet' = 0 /\ faults' \in 0 .. MaxFaults
      BY <1>0, <1>b, <2>5, WriteForm
    <3>1. Flags'
      BY <1>0, <2>1, <2>2, <3>b, Zenon DEF Flags
    <3>2. Beats'
      BY <2>2, <3>b DEF Beats
    <3> QED BY <1>0, <2>1, <3>b, <3>1, <3>2, GoneStep
  <2> QED BY <2>3, <2>4, <2>5
<1>12. CASE Crash
  <2>1. /\ Gone(no)
        /\ UNCHANGED <<unwritten, hb, wrote, unseen, quiet, exitAge, marker>>
        /\ UNCHANGED <<saved, w, signal, faults>>
    BY <1>4, <1>12, Zenon DEF Crash, fileVars
  <2>a. faults' \in 0 .. MaxFaults
    BY <1>0, <2>1 DEF Values
  <2>2. Flags'
    BY <1>0, <2>1, Zenon DEF Flags, Gone
  <2>3. Beats'
    <3>1. beat' \in Outcome
      BY <2>1, NoOutcomeForm, Zenon DEF Gone
    <3> QED BY <1>0, <2>1, <3>1 DEF Beats
  <2> QED BY <1>0, <2>a, <2>1, <2>2, <2>3, GoneStep
<1>13. CASE Wedge
  BY <1>0, <1>13, MuteStep DEF Wedge, fileVars
<1>14. CASE Unload
  <2>1. Flags'
    BY <1>0, <1>14, Zenon DEF Flags, Unload, fileVars
  <2>2. Beats' /\ Values'
    BY <1>0, <1>14 DEF Beats, Values, Unload, fileVars
  <2>3. Launched' /\ Told' /\ Counted' /\ WarnedFirst'
    BY <1>0, <1>14 DEF Unload, fileVars, Launched, Told, Counted, AtWork, Author, WarnedFirst, Signalled, Silent
  <2> QED BY <2>1, <2>2, <2>3, TypePartsNext
<1> QED BY <1>1, <1>5, <1>6, <1>7, <1>8, <1>9, <1>10, <1>11, <1>12, <1>13, <1>14 DEF Daemon

-----------------------------------------------------------------------------
(* The watchdog's own steps.                                               *)

\* A run decides against the heartbeat's author alone, and kills nobody it has not
\* warned.
LEMMA DecideStep ==
    ASSUME WatchdogInv, NEW k \in Sleeps, NEW corrupt \in BOOLEAN, Decide(k, corrupt)
    PROVE  WatchdogInv'
<1> USE DEF WatchdogInv
<1>0. /\ Flags /\ Beats /\ Values /\ k \in Nat /\ TickRuns \in Nat /\ UpdateRuns \in Nat
      /\ hb.pid \in AnyPid
      /\ hb.pid # NoPid => hb # NoBeat
      /\ UNCHANGED <<mode, pid, warned, beat, job, unwritten, hb, unseen>>
  BY TypeParts, WatchdogAssumption DEF Decide, daemonVars, NoBeat, Beats
<1>1. PICK s \in WatchdogState :
              /\ s.lastLabelPid = pid
              /\ s.termedPid # NoPid /\ hb # NoBeat => s.termedPid = saved.termedPid /\ ~unseen
              /\ \/ s.consecUnchanged <= 1
                 \/ ~unseen /\ s.consecUnchanged <= saved.consecUnchanged + 1
              /\ IF Killable(s, marker')
                   THEN /\ signal' = Escalated(s)
                        /\ w' = [s EXCEPT !.termedPid = IF s.termedPid = hb.pid THEN NoPid ELSE hb.pid]
                   ELSE signal' = "none" /\ w' = s
  BY Decision
<1>2. /\ w' \in WatchdogState
      /\ w'.lastLabelPid = pid /\ w'.consecUnchanged = s.consecUnchanged
      /\ signal' \in {"none", "SIGTERM", "SIGKILL"}
  <2>1. CASE Killable(s, marker')
    <3> DEFINE q == IF s.termedPid = hb.pid THEN NoPid ELSE hb.pid
    <3>a. q \in AnyPid
      BY <1>0 DEF AnyPid
    <3>b. w' = [s EXCEPT !.termedPid = q]
      BY <1>1, <2>1
    <3> HIDE DEF q
    <3>1. PICK p \in AnyPid : w' = [s EXCEPT !.termedPid = p]
      BY <3>a, <3>b
    <3> QED BY <1>1, <2>1, <3>1 DEF WatchdogState, Escalated
  <2>2. CASE ~Killable(s, marker')
    BY <1>1, <2>2
  <2> QED BY <2>1, <2>2
<1>3. saved' \in WatchdogState /\ Same(saved, saved')
  BY <1>0, AgedForm DEF Decide, Values
<1>4. marker' \in 0 .. MarkerIgnore /\ (marker = MarkerIgnore => marker' = MarkerIgnore)
  <2>1. marker \in -1 .. MarkerIgnore /\ marker # -1 /\ MarkerIgnore \in Nat
    BY <1>0, WatchdogAssumption DEF Values
  <2> QED BY <1>0, <2>1, OlderForm DEF Decide
<1>5. exitAge' \in 0 .. JournalAge
  <2>1. exitAge \in -1 .. JournalAge /\ exitAge # -1 /\ JournalAge \in Nat
    BY <1>0, WatchdogAssumption DEF Values
  <2> QED BY <1>0, <2>1, OlderForm DEF Decide
<1>6. /\ AtWork => quiet' = quiet + 1
      /\ quiet' \in Nat /\ quiet \in Nat /\ faults' \in 0 .. MaxFaults
  <2>1. quiet' = (IF mode \in {"down", "wedged"} THEN 0 ELSE quiet + 1) /\ quiet \in Nat
    BY <1>0 DEF Decide, Values
  <2>2. faults' \in 0 .. MaxFaults
    BY <1>0, WatchdogAssumption DEF Decide, Values
  <2> QED BY <2>1, <2>2 DEF AtWork
<1>7. Flags'
  BY <1>0, Zenon DEF Flags, Decide
<1>8. Beats' /\ Values'
  <2>1. Beats'
    BY <1>0 DEF Beats
  <2>2. Values'
    BY <1>0, <1>2, <1>3, <1>4, <1>5, <1>6 DEF Values
  <2> QED BY <2>1, <2>2
<1>9. Launched'
  BY <1>0, <1>4 DEF Launched
<1>10. Author /\ s.termedPid = pid => warned
  <2> SUFFICES ASSUME Author, s.termedPid = pid PROVE warned
    OBVIOUS
  <2>1. s.termedPid # NoPid /\ hb # NoBeat
    BY <1>0 DEF Author
  <2>2. saved.termedPid = pid /\ ~unseen
    BY <1>1, <2>1, Zenon
  <2> QED BY <2>2, Zenon DEF Told
<1>11. Told'
  <2>1. Author' <=> Author
    BY <1>0 DEF Author
  <2>2. Author /\ saved'.termedPid = pid /\ ~unseen => warned
    BY <1>3 DEF Told, Same
  <2>3. Author /\ w'.termedPid = pid => warned \/ (signal' = "SIGTERM" /\ w'.lastLabelPid = pid)
    <3> SUFFICES ASSUME Author, w'.termedPid = pid, ~warned
                 PROVE  signal' = "SIGTERM"
      BY <1>2
    <3>1. s.termedPid # pid
      BY <1>10
    <3>2. Killable(s, marker')
      BY <1>1, <3>1
    <3>3. s.termedPid # hb.pid
      BY <3>1 DEF Author
    <3> QED BY <1>1, <3>2, <3>3 DEF Escalated
  <2> QED BY <1>0, <2>1, <2>2, <2>3 DEF Told
<1>12. WarnedFirst'
  <2> SUFFICES ASSUME signal' = "SIGKILL", pid # NoPid PROVE warned
    BY <1>0 DEF WarnedFirst, Signalled
  <2>1. Killable(s, marker')
    BY <1>1
  <2>2. s.termedPid = hb.pid /\ hb.pid = pid
    BY <1>1, <2>1 DEF Escalated, Killable
  <2> QED BY <1>10, <2>2 DEF Author
<1>13. Counted'
  <2>1. AtWork' <=> AtWork
    BY <1>0 DEF AtWork, Author
  <2>2. saved.consecUnchanged \in Nat /\ s.consecUnchanged \in Nat
    BY <1>0 DEF Values, WatchdogState
  <2>3. AtWork /\ ~unseen => saved'.consecUnchanged <= quiet'
    BY <1>3, <1>6, <2>2 DEF Counted, Silent, Same
  <2>4. AtWork => w'.consecUnchanged <= quiet'
    BY <1>1, <1>2, <1>6, <2>2 DEF Counted, Silent
  <2> QED BY <1>0, <2>1, <2>3, <2>4 DEF Counted, Silent
<1> QED BY <1>7, <1>8, <1>9, <1>11, <1>12, <1>13, TypePartsNext

LEMMA ActStep ==
    ASSUME WatchdogInv, NEW p \in Pids, Act(p)
    PROVE  WatchdogInv'
<1> USE DEF WatchdogInv
<1>0. /\ Flags /\ Beats /\ Values
      /\ signal # "waiting" /\ signal' = "waiting" /\ saved' = w
      /\ quiet' \in Nat
      /\ UNCHANGED <<unwritten, hb, wrote, exitAge, marker, w, faults>>
  BY TypeParts DEF Act, Values
<1>1. unseen' = wrote
  BY Zenon DEF Act
<1>2. beat' \in Outcome => Beats'
  BY <1>0 DEF Beats
<1>3. CASE Signalled("SIGKILL")
  <2>1. PICK no \in BOOLEAN : ~no
    OBVIOUS
  <2>2. no = FALSE
    BY <2>1, Zenon
  <2>3. Gone(no)
    BY <1>3, <2>2, Zenon DEF Act
  <2>4. Flags'
    BY <1>0, <1>1, <2>3, Zenon DEF Flags, Gone, Act
  <2>5. beat' \in Outcome
    BY <2>3, NoOutcomeForm, Zenon DEF Gone
  <2>6. faults' \in 0 .. MaxFaults /\ exitAge' \in 0 .. JournalAge /\ marker' \in 0 .. MarkerIgnore
        /\ saved' \in WatchdogState
    BY <1>0 DEF Values
  <2> QED BY <1>0, <1>2, <2>3, <2>4, <2>5, <2>6, GoneStep
<1>4. CASE ~Signalled("SIGKILL") /\ Heals /\ mode = "down"
  <2>1. Launch(p) /\ FreshPid(p) /\ beat' = beat
    BY <1>4 DEF Act
  <2>2. wrote' = wrote /\ unseen' \in {unseen, wrote}
    BY <1>0, <1>1
  <2> QED BY <1>0, <2>1, <2>2, LaunchStep
<1>5. CASE ~Signalled("SIGKILL") /\ ~(Heals /\ mode = "down")
  <2>1. UNCHANGED <<mode, pid, job, beat>>
    BY <1>5 DEF Act
  <2>2. warned' <=> (warned \/ Signalled("SIGTERM"))
    BY <1>5, Zenon DEF Act
  <2>3. Flags'
    <3>1. warned' \in BOOLEAN
      BY <1>0, <1>5, Zenon DEF Flags, Act, Signalled
    <3> QED BY <1>0, <1>1, <2>1, <3>1, Zenon DEF Flags, Act
  <2>4. Values'
    BY <1>0, <2>1 DEF Values
  <2>5. Launched'
    BY <1>0, <2>1 DEF Launched
  <2>6. Told'
    <3>1. Author' <=> Author
      BY <1>0, <2>1 DEF Author
    <3>2. ASSUME Author, w.termedPid = pid, ~wrote PROVE warned'
      <4>1. warned \/ (signal = "SIGTERM" /\ w.lastLabelPid = pid)
        BY <1>0, <3>2 DEF Told
      <4>2. signal = "SIGTERM" /\ w.lastLabelPid = pid => Signalled("SIGTERM")
        BY <3>2 DEF Signalled, Author
      <4> QED BY <2>2, <4>1, <4>2
    <3>3. unseen' <=> wrote
      BY <1>1
    <3> QED BY <1>0, <2>1, <3>1, <3>2, <3>3 DEF Told
  <2>7. Counted'
    <3>1. AtWork' <=> AtWork
      BY <1>0, <2>1 DEF AtWork, Author
    <3>2. AtWork => quiet' = quiet
      BY <1>0 DEF Act, AtWork, Author, Values
    <3>3. unseen' <=> wrote
      BY <1>1
    <3> QED BY <1>0, <2>1, <3>1, <3>2, <3>3 DEF Counted, Silent
  <2>8. WarnedFirst'
    BY <1>0 DEF WarnedFirst, Signalled
  <2>9. Beats'
    BY <1>0, <1>2, <2>1 DEF Beats
  <2> QED BY <2>3, <2>4, <2>5, <2>6, <2>7, <2>8, <2>9, TypePartsNext
<1> QED BY <1>3, <1>4, <1>5

LEMMA RunDiesStep ==
    ASSUME WatchdogInv, RunDies
    PROVE  WatchdogInv'
<1> USE DEF WatchdogInv
<1>0. /\ Flags /\ Beats /\ Values /\ signal' = "waiting" /\ w' = saved
      /\ UNCHANGED <<mode, pid, warned, beat, job, unwritten, hb, wrote, unseen, quiet>>
      /\ UNCHANGED <<exitAge, marker, saved>>
  BY TypeParts DEF RunDies, daemonVars, fileVars
<1>1. Flags'
  BY <1>0, Zenon DEF Flags
<1>2. Beats'
  BY <1>0 DEF Beats
<1>3. faults' \in 0 .. MaxFaults
  BY <1>0, WatchdogAssumption DEF RunDies, Values
<1>4. Values'
  BY <1>0, <1>3 DEF Values
<1>5. Launched' /\ WarnedFirst'
  BY <1>0 DEF Launched, WarnedFirst, Signalled
<1>6. Told' /\ Counted'
  BY <1>0 DEF Told, Counted, Author, AtWork, Silent
<1> QED BY <1>1, <1>2, <1>4, <1>5, <1>6, TypePartsNext

LEMMA InvInit ==
    ASSUME Init
    PROVE  WatchdogInv
<1>1. Flags
  BY Zenon DEF Init, Flags
<1>2. PICK no \in BOOLEAN : ~no
  OBVIOUS
<1>3. no = FALSE
  BY <1>2, Zenon
<1>4. hb = [pid |-> NoPid, ticked |-> no, failing |-> no]
  BY <1>3, Zenon DEF Init, NoBeat
<1>5. Beats
  BY <1>4, NoOutcomeForm DEF Beats, AnyPid, Init
<1>6. Values
  BY EmptyForm, WatchdogAssumption DEF Init, Values, AnyPid
<1>7. Launched /\ Told /\ Counted /\ WarnedFirst
  BY DEF Init, Launched, Told, Counted, Author, AtWork, WarnedFirst, Signalled
<1> QED BY <1>1, <1>5, <1>6, <1>7, TypeParts DEF WatchdogInv

LEMMA InvStep ==
    ASSUME WatchdogInv, [Next]_vars
    PROVE  WatchdogInv'
<1>1. ASSUME NEW k \in Sleeps, NEW corrupt \in BOOLEAN, Decide(k, corrupt) PROVE WatchdogInv'
  BY <1>1, DecideStep
<1>2. ASSUME NEW p \in Pids, Act(p) PROVE WatchdogInv'
  BY <1>2, ActStep
<1>3. CASE UNCHANGED vars
  <2>1. /\ UNCHANGED <<mode, pid, warned, beat, job, unwritten, hb, wrote, unseen>>
        /\ UNCHANGED <<quiet, exitAge, marker, saved, w, signal, faults>>
    BY <1>3 DEF vars
  <2>2. Flags /\ Beats /\ Values
    BY TypeParts DEF WatchdogInv
  <2>3. Flags'
    BY <2>1, <2>2, Zenon DEF Flags
  <2>4. Beats' /\ Values'
    BY <2>1, <2>2 DEF Beats, Values
  <2>5. Launched' /\ WarnedFirst' /\ Told' /\ Counted'
    BY <2>1 DEF WatchdogInv, Launched, WarnedFirst, Signalled, Told, Counted, Author, AtWork, Silent
  <2> QED BY <2>3, <2>4, <2>5, TypePartsNext DEF WatchdogInv
<1> QED BY <1>1, <1>2, <1>3, DaemonStep, RunDiesStep DEF Next

LEMMA InvCorrect == Spec => []WatchdogInv
<1>1. Init => WatchdogInv
  BY InvInit
<1>2. WatchdogInv /\ [Next]_vars => WatchdogInv'
  BY InvStep
<1> QED BY <1>1, <1>2, PTL DEF Spec

\* States are well typed: the label has a process exactly when the daemon is up.
THEOREM TypeCorrect == Spec => []TypeOK
<1>1. WatchdogInv => TypeOK
  BY DEF WatchdogInv
<1> QED BY <1>1, InvCorrect, PTL

\* SIGKILL reaches only a process that an earlier run sent SIGTERM, however pids are
\* reused, runs are lost and the state file is corrupted.
THEOREM WarnedCorrect == Spec => []WarnedFirst
<1>1. WatchdogInv => WarnedFirst
  BY DEF WatchdogInv
<1> QED BY <1>1, InvCorrect, PTL

-----------------------------------------------------------------------------
\* What a run that decides against a process may have found it doing.
Spared ==
    Condemned => \/ mode \in {"wedged", "resume"}
                 \/ mode = "update" /\ marker' = MarkerIgnore
                 \/ unwritten

LEMMA SparedStep ==
    ASSUME WatchdogInv, [Next]_vars
    PROVE  Spared
<1> USE DEF WatchdogInv
<1> SUFFICES ASSUME signal = "waiting", signal' \in {"SIGTERM", "SIGKILL"},
                    mode \notin {"wedged", "resume"},
                    mode = "update" => marker' # MarkerIgnore,
                    ~unwritten
             PROVE  FALSE
  BY DEF Spared, Condemned
<1>1. PICK k \in Sleeps, corrupt \in BOOLEAN : Decide(k, corrupt)
  BY DEF Next, vars, Daemon, Respawn, Boot, TickStart, Progress, TickEnd, StartUpdate, UpdateDone,
         DeliberateExit, Crash, Wedge, Unload, Act, RunDies
<1>2. PICK s \in WatchdogState :
              /\ \/ s.consecUnchanged <= 1
                 \/ ~unseen /\ s.consecUnchanged <= saved.consecUnchanged + 1
              /\ Killable(s, marker')
  BY <1>1, Decision
<1>3. /\ Values /\ MarkerIgnore \in Nat /\ k \in Nat
      /\ StaleRuns \in Nat /\ TickRuns \in Nat /\ TickRuns + 1 < StaleRuns
      /\ GraceRuns \in Nat /\ UpdateRuns \in Nat /\ UpdateRuns + 1 < GraceRuns
  BY TypeParts, WatchdogAssumption
<1>4. pid # NoPid /\ pid = hb.pid /\ Author
  BY <1>2 DEF Killable, Author
<1>5. mode \in {"wait", "tick", "update"} /\ AtWork
  BY <1>3, <1>4 DEF Values, Launched, AtWork
<1>6. marker = MarkerIgnore => marker' = MarkerIgnore
  BY <1>1, <1>3, OlderForm DEF Decide
<1>7. /\ mode \in {"wait", "tick"} => quiet < TickRuns /\ marker' = MarkerIgnore
      /\ mode = "update" => quiet < UpdateRuns /\ marker' # MarkerIgnore
  BY <1>1, <1>6 DEF Decide, OnTime, Launched
<1>8. quiet \in Nat /\ saved.consecUnchanged \in Nat /\ s.consecUnchanged \in Nat
  BY <1>3, <1>5, <1>7 DEF Values, WatchdogState
<1>9. s.consecUnchanged <= quiet + 1 \/ s.consecUnchanged <= 1
  BY <1>2, <1>5, <1>8, <1>3 DEF Counted, Silent
<1>10. s.consecUnchanged >= IF marker' < MarkerIgnore THEN GraceRuns ELSE StaleRuns
  BY <1>2 DEF Killable, Stale
<1>11. CASE mode \in {"wait", "tick"}
  BY <1>3, <1>7, <1>8, <1>9, <1>10, <1>11
<1>12. CASE mode = "update"
  <2>1. marker' < MarkerIgnore
    <3>1. marker \in -1 .. MarkerIgnore /\ marker # -1
      BY <1>3 DEF Values
    <3>2. marker' \in 0 .. MarkerIgnore
      BY <1>1, <1>3, <3>1, OlderForm DEF Decide
    <3> QED BY <1>3, <1>7, <1>12, <3>2
  <2> QED BY <1>3, <1>7, <1>8, <1>9, <1>10, <1>12, <2>1
<1> QED BY <1>5, <1>11, <1>12

\* No run decides against a daemon at work whose last write of the heartbeat succeeded:
\* not in a long tick, over a corrupt state file, after a sleep, after a lost run or
\* after a spell of failing writes, for all thresholds that leave it its time.
THEOREM HealthyCorrect == Spec => HealthySpared
<1>1. WatchdogInv /\ [Next]_vars => [Spared]_vars
  BY SparedStep
<1>2. [Spared]_vars <=> [Condemned => \/ mode \in {"wedged", "resume"}
                                      \/ mode = "update" /\ marker' = MarkerIgnore
                                      \/ unwritten]_vars
  BY DEF Spared
<1> QED BY <1>1, <1>2, InvCorrect, PTL DEF Spec, HealthySpared
=============================================================================
