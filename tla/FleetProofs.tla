----------------------------- MODULE FleetProofs -----------------------------
(***************************************************************************)
(* Proofs about Fleet: what a sweep pages and whom it restarts.            *)
(*                                                                         *)
(* A sweep judges a snapshot that ages while it pages others.  Whom it     *)
(* restarts rests on two facts: a daemon that runs is heard within three   *)
(* of its own intervals, which the bars scale with, and the snapshot of a  *)
(* sweep is no older than the sweep itself.                                *)
(***************************************************************************)
EXTENDS Fleet, TLAPS

\* TypeOK in two parts: what the server keeps of the device, and the rest.
StoreTypes ==
    /\ row \in Rows
    /\ body \in [installed : BOOLEAN, frozen : BOOLEAN, degraded : BOOLEAN]
    /\ resets \in 0 .. CRASH_LOOP_THRESHOLD
    /\ streak \in [state : FleetStates, age : StateAges, longDark : BOOLEAN]
    /\ missingAge \in StateAges \cup {Never}
    /\ alertAge \in [AlertKeys -> AlertAges \cup {Never}]
    /\ orders \subseteq {"restart", "reinstall_watchdog"}

OtherTypes ==
    /\ machine \in Machines
    /\ sweep \in [Sweeps -> SweepStates]
    /\ {suppressed, swept} \subseteq BOOLEAN
    /\ told \subseteq AlertKeys
    /\ workingFor \in 0 .. MaxPost + 1
    /\ upsets \in 0 .. MaxUpsets

\* A daemon that runs has been heard: now, and at the beginning of every sweep that
\* is younger than the daemon.
Heard ==
    machine.daemon = "up" =>
        /\ workingFor > 0 => row.silence <= lateThreshold
        /\ \A s \in Sweeps : sweep[s].pc = "begun" /\ workingFor > sweep[s].elapsed
              => sweep[s].row.silence <= lateThreshold

\* The inductive invariant.
FleetInv == TypeOK /\ Heard /\ OnePage

\* What a visit finds, as visit defines it.
Since(s) == observeDeviceFleetState(classifyDevice(sweep[s].row), sweep[s])
FlagAge(s) == observeDeviceFlag(missing(sweep[s]), sweep[s])
ToPage(s) == pages(sweep[s], Since(s), FlagAge(s))

-----------------------------------------------------------------------------
(* Caps and ages.                                                          *)

LEMMA MinOfTwo ==
    ASSUME NEW a \in Int, NEW b \in Int
    PROVE  Min({a, b}) = IF a <= b THEN a ELSE b
BY DEF Min

LEMMA MaxOfTwo ==
    ASSUME NEW a \in Int, NEW b \in Int
    PROVE  Max({a, b}) = IF a >= b THEN a ELSE b
BY DEF Max

LEMMA MaxOfFour ==
    ASSUME NEW a \in Nat, NEW b \in Nat, NEW c \in Nat, NEW d \in Nat
    PROVE  Max({a, b, c, d}) \in Nat
<1> DEFINE m == IF a >= b THEN a ELSE b
           n == IF c >= d THEN c ELSE d
           top == IF m >= n THEN m ELSE n
<1>1. top \in {a, b, c, d} /\ \A y \in {a, b, c, d} : top >= y
  OBVIOUS
<1> QED
  BY <1>1 DEF Max

LEMMA CapsNat == lateThreshold \in Nat /\ SilenceCap \in Nat /\ DogCap \in Nat
<1>1. /\ DAEMON_LATE \in Nat /\ DAEMON_WEDGE \in Nat /\ Interval \in Nat /\ WATCHDOG_FRESH \in Nat
      /\ DUAL_DARK \in Nat /\ PRE_WATCHDOG_DARK \in Nat /\ BORN_DARK_SLOP \in Nat
      /\ DAEMON_LATE <= DAEMON_WEDGE
  BY FleetAssumption
<1>2. lateThreshold \in Nat
  BY <1>1, MaxOfTwo DEF lateThreshold, tickIntervalS
<1>3. wedgeThreshold \in Nat
  <2>1. 3 * Interval + (DAEMON_WEDGE - DAEMON_LATE) \in Nat
    BY <1>1
  <2> QED
    BY <1>1, <2>1, MaxOfTwo DEF wedgeThreshold, tickIntervalS
<1>4. PRE_WATCHDOG_DARK + BORN_DARK_SLOP \in Nat
  BY <1>1
<1>5. SilenceCap \in Nat
  BY <1>1, <1>2, <1>3, <1>4, MaxOfFour DEF SilenceCap
<1>6. DogCap \in Nat
  BY <1>1, MaxOfTwo DEF DogCap
<1> QED
  BY <1>2, <1>5, <1>6

\* An age that is set grows by one, up to its cap.
LEMMA OlderIs ==
    ASSUME NEW cap \in Nat, NEW age \in Nat \cup {Never}
    PROVE  /\ age = Never => Older(age, cap) = Never
           /\ age # Never => /\ Older(age, cap) \in 0 .. cap
                             /\ Older(age, cap) <= age + 1
                             /\ Older(age, cap) = age + 1 \/ Older(age, cap) = cap
<1>1. age # Never => age + 1 \in Int /\ cap \in Int
  OBVIOUS
<1>2. age # Never => Older(age, cap) = IF age + 1 <= cap THEN age + 1 ELSE cap
  BY <1>1, MinOfTwo DEF Older
<1> QED
  BY <1>2 DEF Older

-----------------------------------------------------------------------------
(* A visit.                                                                *)

\* A device whose watchdog is missing is in no state that pages: its daemon is fresh
\* and its watchdog is not.
LEMMA QuietState ==
    ASSUME NEW w, missing(w)
    PROVE  classifyDevice(w.row) \in {"CRASH_LOOPING", "HEALTHY"}
BY DEF missing, classifyDevice, staleHeartbeat

LEMMA SinceState ==
    ASSUME NEW s
    PROVE  Since(s).state = classifyDevice(sweep[s].row)
BY DEF Since, observeDeviceFleetState

\* At most one page.
LEMMA ToPageIs ==
    ASSUME NEW s
    PROVE  /\ ToPage(s) \subseteq AlertKeys
           /\ ToPage(s) = {} \/ \E k \in AlertKeys : ToPage(s) = {k}
<1> DEFINE st == Since(s).state
<1>1. ToPage(s) \subseteq ({st} \cap ALERT_STATES) \cup {"WATCHDOG_MISSING"}
  BY DEF ToPage, pages
<1>2. "WATCHDOG_MISSING" \in ToPage(s) => st \notin ALERT_STATES
  <2>1. SUFFICES ASSUME "WATCHDOG_MISSING" \in ToPage(s) PROVE st \notin ALERT_STATES
    OBVIOUS
  <2>2. held(FlagAge(s), sweep[s])
    BY <2>1 DEF ToPage, pages, ALERT_STATES
  <2>3. missing(sweep[s])
    BY <2>2 DEF held, FlagAge, observeDeviceFlag
  <2> QED
    BY <2>3, QuietState, SinceState DEF ALERT_STATES
<1>3. ToPage(s) \subseteq AlertKeys
  BY <1>1 DEF AlertKeys
<1>4. \A k, l \in ToPage(s) : k = l
  BY <1>1, <1>2
<1> HIDE DEF st
<1> QED
  BY <1>3, <1>4

\* What a visit leaves of the streak and of the flag.
LEMMA SeenTypes ==
    ASSUME TypeOK, NEW s \in Sweeps, sweep[s].pc = "begun", sweep[s].elapsed \in 0 .. MaxPost
    PROVE  /\ Since(s) \in [state : FleetStates, age : StateAges, longDark : BOOLEAN]
           /\ FlagAge(s) \in StateAges \cup {Never}
<1> DEFINE c == classifyDevice(sweep[s].row)
           long == c = "DARK" /\ sweep[s].row.silence > PRE_WATCHDOG_DARK + BORN_DARK_SLOP
           age == IF c \in ALERT_STATES THEN sweep[s].elapsed ELSE 0
<1>1. sweep[s].elapsed \in StateAges /\ 0 \in StateAges
  BY FleetAssumption DEF StateAges
<1>2. c \in FleetStates
  BY DEF classifyDevice, FleetStates, ALERT_STATES
<1>3. long \in BOOLEAN
  OBVIOUS
<1>4. age \in StateAges
  BY <1>1
<1>5. Since(s) = IF streak.state = c THEN streak ELSE [state |-> c, age |-> age, longDark |-> long]
  BY DEF Since, observeDeviceFleetState
<1> HIDE DEF c, long, age
<1>6. Since(s) \in [state : FleetStates, age : StateAges, longDark : BOOLEAN]
  BY <1>2, <1>3, <1>4, <1>5 DEF TypeOK
<1>7. FlagAge(s) \in StateAges \cup {Never}
  BY <1>1 DEF FlagAge, observeDeviceFlag, TypeOK
<1> QED
  BY <1>6, <1>7

LEMMA VisitIs ==
    ASSUME NEW s, visit(s)
    PROVE  /\ sweep[s].pc = "begun"
           /\ streak' = Since(s) /\ missingAge' = FlagAge(s)
           /\ orders' = orders \cup {v \in nudges(sweep[s], Since(s)) : ~hasRecentDirective(v)}
           /\ sweep' = [sweep EXCEPT ![s] =
                          IF ToPage(s) = {} THEN Idle
                          ELSE [pc |-> "posting", keys |-> ToPage(s), elapsed |-> sweep[s].elapsed]]
           /\ UNCHANGED <<machine, row, body, resets, alertAge, suppressed, swept, history>>
BY DEF visit, Since, FlagAge, ToPage
-----------------------------------------------------------------------------
(* The invariant.                                                          *)

LEMMA InParts == TypeOK <=> StoreTypes /\ OtherTypes
BY DEF TypeOK, StoreTypes, OtherTypes

LEMMA InitInv == Init => FleetInv
<1> SUFFICES ASSUME Init PROVE FleetInv
  OBVIOUS
<1>1. 0 \in StateAges /\ Never \in AlertAges \cup {Never}
  BY FleetAssumption DEF StateAges
<1>2. StoreTypes
  BY <1>1, CapsNat, FleetAssumption DEF Init, StoreTypes, Rows, FleetStates
<1>3. OtherTypes
  <2>1. machine \in Machines
    BY DEF Init, Machines
  <2>2. sweep \in [Sweeps -> SweepStates]
    BY DEF Init, SweepStates
  <2>3. told = {} /\ workingFor \in 0 .. MaxPost + 1 /\ upsets \in 0 .. MaxUpsets
    BY FleetAssumption DEF Init
  <2>4. suppressed = FALSE /\ swept = FALSE
    BY DEF Init
  <2> QED
    BY <2>1, <2>2, <2>3, <2>4 DEF OtherTypes
<1>4. Heard
  BY CapsNat DEF Init, Heard, Idle
<1>5. OnePage
  BY DEF Init, OnePage, Idle
<1> QED
  BY <1>2, <1>3, <1>4, <1>5, InParts DEF FleetInv

\* A state of one sweep, by what it is doing.
LEMMA SweepIs ==
    ASSUME TypeOK, NEW s \in Sweeps
    PROVE  /\ sweep[s] \in SweepStates
           /\ sweep[s] = Idle \/ sweep[s].pc \in {"begun", "posting"}
           /\ sweep[s].pc \in {"begun", "posting"} => sweep[s].elapsed \in 0 .. MaxPost
           /\ sweep[s].pc = "begun" => sweep[s] \in [pc : {"begun"}, row : Rows, elapsed : 0 .. MaxPost]
           /\ sweep[s].pc = "posting" =>
                 sweep[s] \in [pc : {"posting"}, keys : SUBSET AlertKeys, elapsed : 0 .. MaxPost]
BY DEF TypeOK, SweepStates, Idle

LEMMA UpsetStep ==
    ASSUME FleetInv, Upset
    PROVE  FleetInv'
<1>1. StoreTypes'
  BY InParts DEF FleetInv, StoreTypes, Upset, store
<1>2. OtherTypes'
  <2>1. upsets' \in 0 .. MaxUpsets
    BY FleetAssumption DEF FleetInv, TypeOK, Upset
  <2>2. workingFor' \in 0 .. MaxPost + 1
    BY FleetAssumption DEF FleetInv, TypeOK, Upset
  <2> QED
    BY <2>1, <2>2 DEF FleetInv, TypeOK, OtherTypes, Upset
<1>3. Heard'
  <2>1. workingFor' > 0 /\ machine'.daemon = "up" => machine.daemon = "up" /\ workingFor' = workingFor
    BY DEF Upset
  <2>2. workingFor' = 0 \/ workingFor' > 0
    BY <1>2, FleetAssumption DEF OtherTypes
  <2>3. \A s \in Sweeps : sweep[s].pc = "begun" => sweep[s].elapsed \in Nat
    BY SweepIs, FleetAssumption DEF FleetInv
  <2> QED
    BY <2>1, <2>2, <2>3 DEF FleetInv, Heard, Upset, store
<1>4. OnePage'
  BY DEF FleetInv, OnePage, Upset
<1> QED
  BY <1>1, <1>2, <1>3, <1>4 DEF FleetInv, StoreTypes, OtherTypes, TypeOK

LEMMA CheckinStep ==
    ASSUME FleetInv, checkin \/ watchdogCheckin
    PROVE  FleetInv'
<1>1. StoreTypes'
  <2>1. row' \in Rows
    BY CapsNat DEF FleetInv, TypeOK, Rows, checkin, watchdogCheckin
  <2>2. resets' \in 0 .. CRASH_LOOP_THRESHOLD
    <3>1. CRASH_LOOP_THRESHOLD \in Int /\ resets \in Nat /\ resets + 1 \in Int /\ resets <= CRASH_LOOP_THRESHOLD
      BY FleetAssumption DEF FleetInv, TypeOK
    <3>2. countUnexplainedResets \in 0 .. CRASH_LOOP_THRESHOLD
      BY <3>1, MinOfTwo DEF countUnexplainedResets
    <3> QED
      BY <3>1, <3>2 DEF FleetInv, TypeOK, checkin, watchdogCheckin
  <2>3. body' \in [installed : BOOLEAN, frozen : BOOLEAN, degraded : BOOLEAN]
    <3>1. machine.listed \in BOOLEAN /\ machine.fuse \in BOOLEAN
      BY DEF FleetInv, TypeOK, Machines
    <3>2. (machine.daemon = "down" \/ ~machine.disk) \in BOOLEAN
      OBVIOUS
    <3> QED
      BY <3>1, <3>2 DEF FleetInv, TypeOK, checkin, watchdogCheckin
  <2> QED
    BY <2>1, <2>2, <2>3 DEF FleetInv, TypeOK, StoreTypes, checkin, watchdogCheckin
<1>2. OtherTypes'
  BY DEF FleetInv, TypeOK, OtherTypes, checkin, watchdogCheckin, history
<1>3. Heard'
  <2>1. row'.silence = 0 \/ row'.silence = row.silence
    BY DEF FleetInv, TypeOK, Rows, checkin, watchdogCheckin
  <2> QED
    BY <2>1, CapsNat DEF FleetInv, Heard, checkin, watchdogCheckin, history
<1>4. OnePage'
  BY DEF FleetInv, OnePage, checkin, watchdogCheckin
<1> QED
  BY <1>1, <1>2, <1>3, <1>4 DEF FleetInv, StoreTypes, OtherTypes, TypeOK

LEMMA BeginStep ==
    ASSUME FleetInv, NEW s \in Sweeps, begin(s)
    PROVE  FleetInv'
<1> DEFINE b == [pc |-> "begun", row |-> row, elapsed |-> 0]
<1>1. sweep' = [sweep EXCEPT ![s] = b] /\ sweep \in [Sweeps -> SweepStates]
  BY DEF begin, FleetInv, TypeOK
<1>2. b \in SweepStates
  BY FleetAssumption DEF FleetInv, TypeOK, SweepStates
<1>3. \A t \in Sweeps : sweep'[t] = IF t = s THEN b ELSE sweep[t]
  BY <1>1
<1>4. b.pc = "begun" /\ b.row = row /\ b.elapsed = 0
  OBVIOUS
<1> HIDE DEF b
<1>5. StoreTypes'
  BY DEF FleetInv, TypeOK, StoreTypes, begin, store
<1>6. OtherTypes'
  <2>1. sweep' \in [Sweeps -> SweepStates]
    BY <1>1, <1>2
  <2> QED
    BY <2>1 DEF FleetInv, TypeOK, OtherTypes, begin, history
<1>7. Heard'
  BY <1>3, <1>4 DEF FleetInv, Heard, begin, store, history
<1>8. OnePage'
  BY <1>3, <1>4 DEF FleetInv, OnePage
<1> QED
  BY <1>5, <1>6, <1>7, <1>8 DEF FleetInv, StoreTypes, OtherTypes, TypeOK

LEMMA VisitStep ==
    ASSUME FleetInv, NEW s \in Sweeps, visit(s)
    PROVE  FleetInv'
<1> DEFINE p == [pc |-> "posting", keys |-> ToPage(s), elapsed |-> sweep[s].elapsed]
           n == IF ToPage(s) = {} THEN Idle ELSE p
<1>1. sweep' = [sweep EXCEPT ![s] = n] /\ sweep \in [Sweeps -> SweepStates]
  BY VisitIs DEF FleetInv, TypeOK
<1>2. sweep[s].elapsed \in 0 .. MaxPost
  BY VisitIs, SweepIs DEF FleetInv
<1>3. n \in SweepStates
  BY <1>2, ToPageIs DEF SweepStates
<1>4. n.pc \in {"idle", "posting"} /\ (n.pc = "posting" => n.keys = ToPage(s) /\ ToPage(s) # {})
  BY DEF Idle
<1>5. \A t \in Sweeps : sweep'[t] = IF t = s THEN n ELSE sweep[t]
  BY <1>1
<1> HIDE DEF n
<1>6. UNCHANGED <<machine, row, body, resets, alertAge, suppressed, swept, told, workingFor, upsets>>
  BY VisitIs DEF history
<1>7. StoreTypes'
  <2>1. streak' \in [state : FleetStates, age : StateAges, longDark : BOOLEAN]
    BY <1>2, VisitIs, SeenTypes DEF FleetInv
  <2>2. missingAge' \in StateAges \cup {Never}
    BY <1>2, VisitIs, SeenTypes DEF FleetInv
  <2>3. nudges(sweep[s], Since(s)) \subseteq {"restart", "reinstall_watchdog"}
    BY DEF nudges
  <2>4. orders' \subseteq {"restart", "reinstall_watchdog"}
    <3>1. orders' = orders \cup {v \in nudges(sweep[s], Since(s)) : ~hasRecentDirective(v)}
      BY VisitIs
    <3> QED
      BY <2>3, <3>1 DEF FleetInv, TypeOK
  <2> QED
    BY <1>6, <2>1, <2>2, <2>4 DEF FleetInv, TypeOK, StoreTypes
<1>8. OtherTypes'
  <2>1. sweep' \in [Sweeps -> SweepStates]
    BY <1>1, <1>3
  <2> QED
    BY <1>6, <2>1 DEF FleetInv, TypeOK, OtherTypes
<1>9. Heard'
  BY <1>4, <1>5, <1>6 DEF FleetInv, Heard
<1>10. OnePage'
  BY <1>4, <1>5, ToPageIs DEF FleetInv, OnePage
<1> QED
  BY <1>7, <1>8, <1>9, <1>10 DEF FleetInv, StoreTypes, OtherTypes, TypeOK

\* A page's answer, or none.
LEMMA AnswerStep ==
    ASSUME FleetInv, NEW s \in Sweeps, recordFleetAlert(s) \/ webhookFails(s)
    PROVE  FleetInv'
<1>1. sweep' = [sweep EXCEPT ![s] = Idle] /\ sweep \in [Sweeps -> SweepStates] /\ sweep[s].pc = "posting"
  BY DEF recordFleetAlert, webhookFails, FleetInv, TypeOK
<1>2. \A t \in Sweeps : sweep'[t] = IF t = s THEN Idle ELSE sweep[t]
  BY <1>1
<1>3. sweep[s].keys \subseteq AlertKeys /\ sweep[s].elapsed \in AlertAges
  <2>1. sweep[s].keys \subseteq AlertKeys /\ sweep[s].elapsed \in 0 .. MaxPost
    BY <1>1, SweepIs DEF FleetInv
  <2> QED
    BY <2>1, FleetAssumption DEF AlertAges
<1>4. UNCHANGED <<machine, row, body, resets, streak, missingAge, orders, suppressed, swept, workingFor>>
  BY DEF recordFleetAlert, webhookFails, store
<1>5. StoreTypes'
  <2>1. alertAge' \in [AlertKeys -> AlertAges \cup {Never}]
    BY <1>3 DEF FleetInv, TypeOK, recordFleetAlert, webhookFails, store
  <2> QED
    BY <1>4, <2>1 DEF FleetInv, TypeOK, StoreTypes
<1>6. OtherTypes'
  <2>1. sweep' \in [Sweeps -> SweepStates]
    BY <1>1 DEF SweepStates
  <2>2. told' \subseteq AlertKeys
    BY <1>3 DEF FleetInv, TypeOK, recordFleetAlert, webhookFails
  <2>3. upsets' \in 0 .. MaxUpsets
    BY FleetAssumption DEF FleetInv, TypeOK, recordFleetAlert, webhookFails
  <2> QED
    BY <1>4, <2>1, <2>2, <2>3 DEF FleetInv, TypeOK, OtherTypes
<1>7. Heard'
  BY <1>2, <1>4 DEF FleetInv, Heard, Idle
<1>8. OnePage'
  BY <1>2 DEF FleetInv, OnePage, Idle
<1> QED
  BY <1>5, <1>6, <1>7, <1>8 DEF FleetInv, StoreTypes, OtherTypes, TypeOK

\* Everything ages alike.
LEMMA UnitSweeps ==
    ASSUME TypeOK, Unit, NEW s \in Sweeps
    PROVE  \/ sweep[s] = Idle /\ sweep'[s] = Idle
           \/ /\ sweep[s].pc \in {"begun", "posting"}
              /\ sweep[s].elapsed \in Nat /\ sweep[s].elapsed < MaxPost
              /\ sweep'[s] \in SweepStates
              /\ sweep'[s].pc = sweep[s].pc /\ sweep'[s].elapsed = sweep[s].elapsed + 1
              /\ sweep[s].pc = "begun" => sweep'[s].row = sweep[s].row
              /\ sweep[s].pc = "posting" => sweep'[s].keys = sweep[s].keys
<1>1. sweep'[s] = IF sweep[s] = Idle THEN Idle ELSE [sweep[s] EXCEPT !.elapsed = @ + 1]
  BY DEF Unit
<1>2. CASE sweep[s] = Idle
  BY <1>1, <1>2
<1>3. CASE sweep[s] # Idle
  <2> DEFINE e == sweep[s].elapsed
  <2>1. sweep[s].pc \in {"begun", "posting"} /\ e \in 0 .. MaxPost /\ e < MaxPost
    BY <1>3, SweepIs DEF Unit
  <2>2. e + 1 \in 0 .. MaxPost /\ MaxPost \in Nat
    BY <2>1, FleetAssumption
  <2>3. CASE sweep[s].pc = "begun"
    <3>1. sweep[s] \in [pc : {"begun"}, row : Rows, elapsed : 0 .. MaxPost]
      BY <2>3, SweepIs
    <3> QED
      BY <1>1, <1>3, <2>1, <2>2, <2>3, <3>1 DEF SweepStates
  <2>4. CASE sweep[s].pc = "posting"
    <3>1. sweep[s] \in [pc : {"posting"}, keys : SUBSET AlertKeys, elapsed : 0 .. MaxPost]
      BY <2>4, SweepIs
    <3> QED
      BY <1>1, <1>3, <2>1, <2>2, <2>4, <3>1 DEF SweepStates
  <2> QED
    BY <2>1, <2>3, <2>4
<1> QED
  BY <1>2, <1>3

\* A daemon that runs is heard often enough for the bar of its own cadence.
LEMMA HeardInTime ==
    ASSUME TypeOK, Unit, machine.daemon = "up"
    PROVE  row.silence + 1 <= lateThreshold
<1>1. Interval \in Nat /\ Missed \in Nat /\ Missed <= 2 /\ DAEMON_LATE \in Nat
  BY FleetAssumption
<1>2. row.silence \in Nat /\ row.silence < (1 + Missed) * Interval
  BY CapsNat DEF TypeOK, Rows, Unit
<1>3. (1 + Missed) * Interval <= 3 * Interval
  <2>1. CASE Missed = 0
    BY <1>1, <2>1
  <2>2. CASE Missed = 1
    BY <1>1, <2>2
  <2>3. CASE Missed = 2
    BY <1>1, <2>3
  <2> QED
    BY <1>1, <2>1, <2>2, <2>3
<1>4. 3 * Interval <= lateThreshold /\ lateThreshold \in Nat
  BY <1>1, CapsNat, MaxOfTwo DEF lateThreshold, tickIntervalS
<1>5. (1 + Missed) * Interval \in Int /\ 3 * Interval \in Int
  BY <1>1
<1> QED
  BY <1>2, <1>3, <1>4, <1>5

LEMMA UnitStep ==
    ASSUME FleetInv, Unit
    PROVE  FleetInv'
<1>1. StoreTypes'
  <2>1. row \in Rows /\ SilenceCap \in Nat /\ DogCap \in Nat
    BY CapsNat DEF FleetInv, TypeOK
  <2>2. row' = [row EXCEPT !.silence = Older(@, SilenceCap), !.dog = Older(@, DogCap)]
    BY DEF Unit
  <2>3. Older(row.silence, SilenceCap) \in 0 .. SilenceCap
    BY <2>1, OlderIs DEF Rows
  <2>4. Older(row.dog, DogCap) \in (0 .. DogCap) \cup {Never}
    <3>1. row.dog \in Nat \cup {Never}
      BY <2>1 DEF Rows
    <3> QED
      BY <2>1, <3>1, OlderIs
  <2>5. row' \in Rows
    BY <2>1, <2>2, <2>3, <2>4 DEF Rows
  <2>6. resets' \in 0 .. CRASH_LOOP_THRESHOLD
    BY FleetAssumption DEF FleetInv, TypeOK, Unit
  <2>7. streak' \in [state : FleetStates, age : StateAges, longDark : BOOLEAN]
    <3>1. streak.age \in StateAges /\ ALERT_STATE_MIN_AGE + MaxPost \in Nat
      BY FleetAssumption DEF FleetInv, TypeOK
    <3>2. Older(streak.age, ALERT_STATE_MIN_AGE + MaxPost) \in StateAges
      BY <3>1, OlderIs DEF StateAges
    <3> QED
      BY <3>2 DEF FleetInv, TypeOK, Unit
  <2>8. missingAge' \in StateAges \cup {Never}
    <3>1. missingAge \in Nat \cup {Never} /\ ALERT_STATE_MIN_AGE + MaxPost \in Nat
      BY FleetAssumption DEF FleetInv, TypeOK, StateAges
    <3>2. missingAge' = Older(missingAge, ALERT_STATE_MIN_AGE + MaxPost)
      BY DEF Unit
    <3> QED
      BY <3>1, <3>2, OlderIs DEF StateAges
  <2>9. alertAge' \in [AlertKeys -> AlertAges \cup {Never}]
    <3>1. ALERT_DEDUP + MaxPost \in Nat
      BY FleetAssumption
    <3>2. ASSUME NEW k \in AlertKeys PROVE Older(alertAge[k], ALERT_DEDUP + MaxPost) \in AlertAges \cup {Never}
      <4>1. alertAge[k] \in Nat \cup {Never}
        BY <3>1 DEF FleetInv, TypeOK, AlertAges
      <4> QED
        BY <3>1, <4>1, OlderIs DEF AlertAges
    <3>3. alertAge' = [k \in AlertKeys |-> Older(alertAge[k], ALERT_DEDUP + MaxPost)]
      BY DEF Unit
    <3> QED
      BY <3>2, <3>3
  <2> QED
    BY <2>5, <2>6, <2>7, <2>8, <2>9 DEF FleetInv, TypeOK, StoreTypes, Unit
<1>2. OtherTypes'
  <2>1. sweep' \in [Sweeps -> SweepStates]
    <3>1. \A s \in Sweeps : sweep'[s] \in SweepStates
      BY UnitSweeps DEF FleetInv, SweepStates
    <3>2. sweep' = [s \in Sweeps |-> sweep'[s]]
      BY DEF Unit
    <3> QED
      BY <3>1, <3>2
  <2>2. workingFor' \in 0 .. MaxPost + 1
    <3>1. workingFor + 1 \in Nat /\ MaxPost + 1 \in Nat
      BY FleetAssumption DEF FleetInv, TypeOK
    <3>2. Min({workingFor + 1, MaxPost + 1}) \in 0 .. MaxPost + 1
      BY <3>1, MinOfTwo
    <3> QED
      BY <3>1, <3>2 DEF Unit
  <2>3. swept' = FALSE /\ UNCHANGED <<machine, suppressed, told, upsets>>
    BY DEF Unit
  <2> QED
    BY <2>1, <2>2, <2>3 DEF FleetInv, TypeOK, OtherTypes
<1>3. Heard'
  <2> SUFFICES ASSUME machine'.daemon = "up" PROVE
          /\ row'.silence <= lateThreshold
          /\ \A s \in Sweeps : sweep'[s].pc = "begun" /\ workingFor' > sweep'[s].elapsed
                => sweep'[s].row.silence <= lateThreshold
    BY DEF Heard
  <2>1. machine.daemon = "up"
    BY DEF Unit
  <2>2. row'.silence <= lateThreshold
    <3>1. row \in Rows /\ SilenceCap \in Nat /\ lateThreshold \in Nat
      BY CapsNat DEF FleetInv, TypeOK
    <3>2. row.silence \in Nat /\ row.silence + 1 <= lateThreshold
      BY <2>1, <3>1, HeardInTime DEF FleetInv, Rows
    <3>3. row'.silence = Older(row.silence, SilenceCap)
      BY <3>1 DEF Unit, Rows
    <3>4. row'.silence = row.silence \/ (row'.silence \in 0 .. SilenceCap /\ row'.silence <= row.silence + 1)
      BY <3>1, <3>2, <3>3, OlderIs
    <3> QED
      BY <3>1, <3>2, <3>4
  <2>3. ASSUME NEW s \in Sweeps, sweep'[s].pc = "begun", workingFor' > sweep'[s].elapsed
        PROVE  sweep'[s].row.silence <= lateThreshold
    <3>1. /\ sweep[s].pc = "begun" /\ sweep[s].elapsed \in Nat
          /\ sweep'[s].elapsed = sweep[s].elapsed + 1 /\ sweep'[s].row = sweep[s].row
      <4>1. TypeOK /\ sweep'[s].pc # "idle"
        BY <2>3 DEF FleetInv
      <4> QED
        BY <2>3, <4>1, UnitSweeps DEF Idle
    <3>2. workingFor' <= workingFor + 1 /\ workingFor \in Nat /\ workingFor' \in Nat
      <4>1. workingFor + 1 \in Int /\ MaxPost + 1 \in Int /\ workingFor \in Nat /\ MaxPost \in Nat
        BY FleetAssumption DEF FleetInv, TypeOK
      <4>2. Min({workingFor + 1, MaxPost + 1}) \in Nat /\ Min({workingFor + 1, MaxPost + 1}) <= workingFor + 1
        BY <4>1, MinOfTwo
      <4>3. workingFor' = Min({workingFor + 1, MaxPost + 1})
        BY <2>1 DEF Unit
      <4> QED
        BY <4>1, <4>2, <4>3
    <3>3. workingFor > sweep[s].elapsed
      BY <2>3, <3>1, <3>2
    <3> QED
      BY <2>1, <3>1, <3>3 DEF FleetInv, Heard
  <2> QED
    BY <2>2, <2>3
<1>4. OnePage'
  <2> SUFFICES ASSUME NEW s \in Sweeps, sweep'[s].pc = "posting"
               PROVE  \E k \in AlertKeys : sweep'[s].keys = {k}
    BY DEF OnePage
  <2>1. TypeOK /\ OnePage
    BY DEF FleetInv
  <2>2. sweep[s].pc = "posting" /\ sweep'[s].keys = sweep[s].keys
    BY <2>1, UnitSweeps DEF Idle
  <2> QED
    BY <2>1, <2>2 DEF OnePage
<1> QED
  BY <1>1, <1>2, <1>3, <1>4 DEF FleetInv, StoreTypes, OtherTypes, TypeOK

\* The operator, the server's restarts, orders that lapse.
LEMMA OtherStep ==
    ASSUME FleetInv, Suppress \/ Unsuppress \/ Boot \/ (\E v \in orders : Lapse(v)) \/ UNCHANGED vars
    PROVE  FleetInv'
<1>1. UNCHANGED <<machine, row, body, resets, streak, missingAge, alertAge, swept, told, workingFor>>
  BY DEF Suppress, Unsuppress, Boot, Lapse, vars, store, history
<1>2. \A s \in Sweeps : sweep'[s] = sweep[s] \/ sweep'[s] = Idle
  BY DEF Suppress, Unsuppress, Boot, Lapse, vars
<1>3. sweep' \in [Sweeps -> SweepStates]
  BY DEF FleetInv, TypeOK, SweepStates, Suppress, Unsuppress, Boot, Lapse, vars
<1>4. StoreTypes'
  <2>1. orders' \subseteq orders
    BY DEF Suppress, Unsuppress, Boot, Lapse, vars, store
  <2> QED
    BY <1>1, <2>1 DEF FleetInv, TypeOK, StoreTypes
<1>5. OtherTypes'
  <2>1. upsets' \in 0 .. MaxUpsets
    BY FleetAssumption DEF FleetInv, TypeOK, Suppress, Unsuppress, Boot, Lapse, vars, store, history
  <2>2. suppressed' = suppressed \/ suppressed' = TRUE \/ suppressed' = FALSE
    BY DEF Suppress, Unsuppress, Boot, Lapse, vars, store, history
  <2>3. suppressed' \in BOOLEAN
    BY <2>2 DEF FleetInv, TypeOK
  <2> QED
    BY <1>1, <1>3, <2>1, <2>3 DEF FleetInv, TypeOK, OtherTypes
<1>6. Heard'
  BY <1>1, <1>2 DEF FleetInv, Heard, Idle
<1>7. OnePage'
  BY <1>2 DEF FleetInv, OnePage, Idle
<1> QED
  BY <1>4, <1>5, <1>6, <1>7 DEF FleetInv, StoreTypes, OtherTypes, TypeOK

LEMMA FleetStep == FleetInv /\ [Next]_vars => FleetInv'
BY UpsetStep, CheckinStep, BeginStep, VisitStep, AnswerStep, UnitStep, OtherStep DEF Next

LEMMA FleetHolds == Spec => []FleetInv
<1>1. Init => FleetInv
  BY InitInv
<1>2. FleetInv /\ [Next]_vars => FleetInv'
  BY FleetStep
<1> QED
  BY <1>1, <1>2, PTL DEF Spec

-----------------------------------------------------------------------------
(* The theorems.                                                           *)

\* Every variable keeps its type: the ages of the server's tables and of a sweep's
\* snapshot stop at their caps, and a sweep is in one of its three states.
THEOREM TypeCorrect == Spec => []TypeOK
<1>1. FleetInv => TypeOK
  BY DEF FleetInv
<1> QED
  BY <1>1, FleetHolds, PTL

\* A sweep pages a device once: for its state or for its missing watchdog
\* (sweepFleetAlerts awaits two pages, one after the other).
THEOREM PageCorrect == Spec => []OnePage
<1>1. FleetInv => OnePage
  BY DEF FleetInv
<1> QED
  BY <1>1, FleetHolds, PTL

\* No restart is queued for a daemon that has run for longer than the sweep that
\* queues it may have waited: for every interval and all floors of the bars, with two
\* check-ins of three lost, and sweeps that overlap (lateThresholdMs, wedgeThresholdMs;
\* HEARTBEAT_IO "never kills").
THEOREM WorkingCorrect == Spec => WorkingNotRestarted
<1>1. ASSUME FleetInv, [Next]_vars, ~hasRecentDirective("restart"), hasRecentDirective("restart")'
      PROVE  machine.daemon # "up" \/ workingFor <= MaxPost
  <2>1. PICK s \in Sweeps : visit(s)
    <3>1. orders' # orders /\ "restart" \notin orders /\ "restart" \in orders'
      BY <1>1 DEF hasRecentDirective
    <3> QED
      BY <1>1, <3>1 DEF Next, vars, store, Upset, checkin, watchdogCheckin, begin, recordFleetAlert,
                        webhookFails, Lapse, Unit, Suppress, Unsuppress, Boot
  <2>2. sweep[s].pc = "begun" /\ sweep[s].elapsed \in 0 .. MaxPost
    BY <1>1, <2>1, VisitIs, SweepIs DEF FleetInv
  <2>3. "restart" \in nudges(sweep[s], Since(s))
    BY <1>1, <2>1, VisitIs DEF hasRecentDirective
  <2>4. Since(s).state = "WEDGED"
    BY <2>3 DEF nudges
  <2>5. ~daemonFresh(sweep[s].row)
    BY <2>4, SinceState DEF classifyDevice
  <2>6. ~(sweep[s].row.silence <= lateThreshold)
    BY <2>5 DEF daemonFresh
  <2>7. machine.daemon # "up" \/ ~(workingFor > sweep[s].elapsed)
    BY <1>1, <2>2, <2>6 DEF FleetInv, Heard
  <2> QED
    BY <1>1, <2>2, <2>7, FleetAssumption DEF FleetInv, TypeOK
<1>2. FleetInv /\ [Next]_vars =>
        [~hasRecentDirective("restart") /\ hasRecentDirective("restart")'
           => machine.daemon # "up" \/ workingFor <= MaxPost]_vars
  BY <1>1
<1> QED
  BY <1>2, FleetHolds, PTL DEF Spec, WorkingNotRestarted
=============================================================================
