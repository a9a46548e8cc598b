-------------------------- MODULE DirectivesProofs --------------------------
(***************************************************************************)
(* Proofs about Directives: what the claim, the re-queue and the           *)
(* acknowledgement make of a row, whoever asks and whatever is lost.       *)
(*                                                                         *)
(* The queue changes by three operations: a row is appended, a response is *)
(* served (re-queue, then claim), an acknowledgement is recorded.  Each    *)
(* has a lemma saying what it keeps of every row; the steps of daemon,     *)
(* watchdog and wire then only have to say whom they hand it to.           *)
(***************************************************************************)
EXTENDS Directives, WellFoundedInduction, TLAPS

\* What the two stamps of a row say of the times it left the server.
HandOuts(r) == (IF r.requeued = Never THEN 0 ELSE 1) + (IF r.delivered = Never THEN 0 ELSE 1)

\* HandedOnce, made inductive: the stamps count the hand-outs exactly.
Counted ==
    \A i \in Ids : handed[i] = IF i \in DOMAIN table THEN HandOuts(table[i]) ELSE 0

\* Row i may be executed on device d by the executor of channel ch.
Aimed(i, d, ch) ==
    /\ i \in DOMAIN table
    /\ table[i].device \in {AnyDevice, d}
    /\ table[i].verb \in WatchdogOnly => ch = "watchdog"

\* An acknowledgement of row i over ch tells the truth.
Done(i, ch) ==
    table[i].verb = Restart \/ \E d \in Devices : <<i, d, ch>> \in ran

\* An executor holds only what was meant for it, and acknowledges what it ran.
DaemonFit(d) ==
    /\ daemon[d].held # None => Aimed(daemon[d].held, d, "daemon")
    /\ daemon[d].pc = "ack" => daemon[d].held # None /\ Done(daemon[d].held, "daemon")
    /\ daemon[d].pc = "flush" => daemon[d].left > 0

DogFit(d) ==
    /\ dog[d].held # None => Aimed(dog[d].held, d, "watchdog")
    /\ dog[d].pc = "execute" => dog[d].held # None
    /\ dog[d].pc = "ack" => dog[d].held # None /\ Done(dog[d].held, "watchdog")

Holding == \A d \in Devices : DaemonFit(d) /\ DogFit(d)

\* So does an acknowledgement its sender gave up on.
OnTheWire ==
    \A m \in wire : m.op = "ack" => m.id \in DOMAIN table /\ Done(m.id, m.channel)

\* What is on record: rows executed, and executions.
Recorded ==
    /\ \A i \in DOMAIN table : table[i].executed # Never => Done(i, table[i].by)
    /\ \A x \in ran : Aimed(x[1], x[2], x[3])

\* The inductive invariant.
DirectivesInv == TypeOK /\ Counted /\ Holding /\ OnTheWire /\ Recorded

-----------------------------------------------------------------------------
\* The oldest of some ids is one of them.
LEMMA MinMember ==
    ASSUME NEW S, S \subseteq Nat, S # {}
    PROVE  Min(S) \in S
<1>1. PICK i \in S : \A j \in S : ~(<<j, i>> \in OpToRel(<, Nat))
  BY NatLessThanWellFounded, WFMin
<1>2. ASSUME NEW j \in S PROVE i <= j
  <2> SUFFICES ASSUME j < i PROVE FALSE
    OBVIOUS
  <2>1. <<j, i>> \in Nat \X Nat /\ <<j, i>>[1] < <<j, i>>[2]
    OBVIOUS
  <2>2. <<j, i>> \in OpToRel(<, Nat)
    BY <2>1 DEF OpToRel
  <2> QED BY <1>1, <2>2
<1> QED BY <1>2 DEF Min

\* A row after the re-queue is the row, aimed as it was, with as many hand-outs
\* on its stamps.
LEMMA RequeuedForm ==
    ASSUME TypeOK, NEW r \in Row
    PROVE  /\ Requeued(r) \in Row
           /\ Requeued(r).verb = r.verb /\ Requeued(r).device = r.device
           /\ Requeued(r).executed = r.executed /\ Requeued(r).by = r.by
           /\ HandOuts(Requeued(r)) = HandOuts(r)
<1> USE DirectivesAssumption
<1>1. now \in 0 .. MaxTime
  BY DEF TypeOK
<1>2. CASE Requeued(r) = r
  BY <1>2
<1>3. CASE r.delivered # Never /\ r.requeued = Never
           /\ Requeued(r) = [r EXCEPT !.delivered = Never, !.requeued = now]
  <2> DEFINE s == [r EXCEPT !.delivered = Never, !.requeued = now]
  <2>1. now \in Time /\ now # Never /\ Never \in Time
    BY <1>1 DEF Time, Never
  <2>2. s \in Row
    BY <2>1 DEF Row
  <2>3. /\ s.verb = r.verb /\ s.device = r.device /\ s.executed = r.executed /\ s.by = r.by
        /\ s.delivered = Never /\ s.requeued = now
    BY DEF Row
  <2> HIDE DEF s
  <2>4. HandOuts(s) = HandOuts(r)
    BY <1>3, <2>1, <2>3 DEF HandOuts
  <2> QED BY <1>3, <2>2, <2>3, <2>4 DEF s
<1> QED BY <1>2, <1>3 DEF Requeued

\* So is a row that is then claimed, but for one hand-out.
LEMMA ClaimedForm ==
    ASSUME TypeOK, NEW r \in Row, r.delivered = Never
    PROVE  LET s == [r EXCEPT !.delivered = now]
           IN  /\ s \in Row
               /\ s.verb = r.verb /\ s.device = r.device
               /\ s.executed = r.executed /\ s.by = r.by
               /\ HandOuts(s) = HandOuts(r) + 1
<1> DEFINE s == [r EXCEPT !.delivered = now]
<1>1. now \in Time /\ now # Never
  BY DirectivesAssumption DEF TypeOK, Time, Never
<1>2. s \in Row
  BY <1>1 DEF Row
<1>3. /\ s.verb = r.verb /\ s.device = r.device /\ s.executed = r.executed /\ s.by = r.by
      /\ s.delivered = now /\ s.requeued = r.requeued
  BY DEF Row
<1> HIDE DEF s
<1>4. HandOuts(s) = HandOuts(r) + 1
  BY <1>1, <1>3 DEF HandOuts
<1> QED BY <1>2, <1>3, <1>4 DEF s

\* Rows are there still, with the verb and the device they were queued with.
Lasting ==
    /\ DOMAIN table \subseteq DOMAIN table'
    /\ \A i \in DOMAIN table :
          table'[i].verb = table[i].verb /\ table'[i].device = table[i].device
    /\ ran \subseteq ran'

\* takeDirective claims at most one row, which is meant for who asks.
LEMMA TakenForm ==
    ASSUME TypeOK, NEW d \in Devices, NEW ch \in Channels,
           NEW take, take = takeDirective(d, ch)
    PROVE  /\ take.table \in Seq(Row) /\ Len(take.table) = Len(table)
           /\ take.id # None => Aimed(take.id, d, ch)
           /\ \A i \in DOMAIN table :
                 /\ take.table[i].verb = table[i].verb
                 /\ take.table[i].device = table[i].device
                 /\ take.table[i].executed = table[i].executed
                 /\ take.table[i].by = table[i].by
                 /\ HandOuts(take.table[i]) = HandOuts(table[i]) + (IF i = take.id THEN 1 ELSE 0)
<1> DEFINE swept == [i \in DOMAIN table |-> Requeued(table[i])]
           open  == {i \in DOMAIN table : Eligible(swept[i], d, ch)}
           id    == IF open = {} THEN None ELSE Min(open)
           T     == [i \in DOMAIN table |->
                        IF i = id THEN [swept[i] EXCEPT !.delivered = now] ELSE swept[i]]
<1>1. take.id = id /\ take.table = T
  BY DEF takeDirective
<1>2. table \in Seq(Row) /\ DOMAIN table = 1 .. Len(table) /\ Len(table) \in Nat
  BY DEF TypeOK
<1>3. \A i \in DOMAIN table :
        /\ swept[i] \in Row
        /\ swept[i].verb = table[i].verb /\ swept[i].device = table[i].device
        /\ swept[i].executed = table[i].executed /\ swept[i].by = table[i].by
        /\ HandOuts(swept[i]) = HandOuts(table[i])
  BY <1>2, RequeuedForm
<1>4. id # None => id \in DOMAIN table /\ Eligible(swept[id], d, ch)
  <2>1. open \subseteq Nat
    BY <1>2
  <2> QED BY <2>1, MinMember
<1>5. \A i \in DOMAIN table : HandOuts(table[i]) \in Nat
  BY DEF HandOuts
<1> HIDE DEF swept, id
<1>6. \A i \in DOMAIN table :
        /\ T[i] \in Row
        /\ T[i].verb = table[i].verb /\ T[i].device = table[i].device
        /\ T[i].executed = table[i].executed /\ T[i].by = table[i].by
        /\ HandOuts(T[i]) = HandOuts(table[i]) + (IF i = id THEN 1 ELSE 0)
  <2> SUFFICES ASSUME NEW i \in DOMAIN table
               PROVE  /\ T[i] \in Row
                      /\ T[i].verb = table[i].verb /\ T[i].device = table[i].device
                      /\ T[i].executed = table[i].executed /\ T[i].by = table[i].by
                      /\ HandOuts(T[i]) = HandOuts(table[i]) + (IF i = id THEN 1 ELSE 0)
    OBVIOUS
  <2>1. CASE i # id
    <3>1. T[i] = swept[i]
      BY <2>1
    <3> QED BY <2>1, <3>1, <1>3, <1>5
  <2>2. CASE i = id
    <3>1. T[i] = [swept[i] EXCEPT !.delivered = now]
      BY <2>2
    <3>2. swept[i].delivered = Never
      BY <2>2, <1>2, <1>4 DEF Eligible, None
    <3> HIDE DEF T
    <3> QED BY <2>2, <3>1, <3>2, <1>3, ClaimedForm
  <2> QED BY <2>1, <2>2
<1>7. T \in Seq(Row) /\ Len(T) = Len(table)
  <2>1. T \in [1 .. Len(table) -> Row]
    BY <1>2, <1>6
  <2> HIDE DEF T
  <2> QED BY <2>1, <1>2
<1>8. id # None => Aimed(id, d, ch)
  BY <1>3, <1>4 DEF Aimed, Eligible
<1> QED BY <1>1, <1>6, <1>7, <1>8

\* What serving a response does to the queue.
LEMMA ServeStep ==
    ASSUME TypeOK, Counted, Recorded, NEW d \in Devices, NEW ch \in Channels,
           NEW take, Serve(d, ch, take), ran' = ran
    PROVE  /\ table' \in Seq(Row) /\ Len(table') = Len(table)
           /\ handed' \in [Ids -> Nat]
           /\ take.id # None => Aimed(take.id, d, ch)'
           /\ Counted' /\ Recorded' /\ Lasting
<1>1. table \in Seq(Row) /\ DOMAIN table = 1 .. Len(table) /\ Len(table) \in Nat
      /\ Len(table) <= MaxDirectives /\ MaxDirectives \in Nat /\ handed \in [Ids -> Nat]
  BY DirectivesAssumption DEF TypeOK
<1>2. /\ table' \in Seq(Row) /\ Len(table') = Len(table)
      /\ take.id # None => Aimed(take.id, d, ch)
      /\ \A i \in DOMAIN table :
            /\ table'[i].verb = table[i].verb
            /\ table'[i].device = table[i].device
            /\ table'[i].executed = table[i].executed
            /\ table'[i].by = table[i].by
            /\ HandOuts(table'[i]) = HandOuts(table[i]) + (IF i = take.id THEN 1 ELSE 0)
  BY TakenForm DEF Serve
<1>3. DOMAIN table' = DOMAIN table
  BY <1>1, <1>2
<1>4. Lasting
  BY <1>2, <1>3 DEF Lasting
<1>5. take.id # None => Aimed(take.id, d, ch)'
  BY <1>2, <1>3 DEF Aimed
<1>6. Recorded'
  BY <1>2, <1>3 DEF Recorded, Done, Aimed
<1>7. take.id # None => take.id \in Ids
  BY <1>1, <1>2 DEF Aimed, Ids
<1>8. handed' \in [Ids -> Nat]
  BY <1>1, <1>7 DEF Serve
<1>9. \A i \in Ids : handed'[i] = handed[i] + (IF i = take.id THEN 1 ELSE 0)
  BY <1>1, <1>7 DEF Serve, Ids, None
<1>10. take.id \in DOMAIN table \/ take.id = None
  BY <1>2 DEF Aimed
<1>11. Counted'
  <2> SUFFICES ASSUME NEW i \in Ids
               PROVE  handed'[i] = IF i \in DOMAIN table' THEN HandOuts(table'[i]) ELSE 0
    BY DEF Counted, HandOuts
  <2>1. i # None
    BY DEF Ids, None
  <2>2. i \in DOMAIN table => HandOuts(table[i]) \in Nat
    BY DEF HandOuts
  <2> QED BY <1>2, <1>3, <1>9, <1>10, <2>1, <2>2 DEF Counted
<1> QED BY <1>2, <1>4, <1>5, <1>6, <1>8, <1>11

LEMMA AckKeepsVerb ==
    ASSUME TypeOK, NEW i \in DOMAIN table, NEW ch \in Channels
    PROVE  ackDirective(i, ch)[i].verb = table[i].verb
BY DEF ackDirective, TypeOK, Row

\* What an acknowledgement that tells the truth does to it.
LEMMA AckStep ==
    ASSUME TypeOK, Counted, Recorded, NEW i \in DOMAIN table, NEW ch \in Channels,
           table' = ackDirective(i, ch), handed' = handed, ran \subseteq ran',
           Done(i, ch)', \A x \in ran' : x \in ran \/ Aimed(x[1], x[2], x[3])
    PROVE  /\ table' \in Seq(Row) /\ Len(table') = Len(table)
           /\ Counted' /\ Recorded' /\ Lasting
<1>1. table \in Seq(Row) /\ DOMAIN table = 1 .. Len(table) /\ Len(table) \in Nat
      /\ now \in 0 .. MaxTime
  BY DEF TypeOK
<1>2. CASE table[i].executed # Never
  <2>1. table' = table
    BY <1>2 DEF ackDirective
  <2> QED BY <1>1, <2>1 DEF Counted, Recorded, Lasting, Done, Aimed
<1>3. CASE table[i].executed = Never
  <2>1. table' = [table EXCEPT ![i] = [table[i] EXCEPT !.executed = now, !.by = ch]]
    BY <1>3 DEF ackDirective
  <2>2. table[i] \in Row
    BY <1>1
  <2> DEFINE r == [table[i] EXCEPT !.executed = now, !.by = ch]
  <2>3. /\ r \in Row
        /\ r.verb = table[i].verb /\ r.device = table[i].device
        /\ r.by = ch /\ HandOuts(r) = HandOuts(table[i])
    BY <1>1, <2>2 DEF Row, Time, HandOuts
  <2> HIDE DEF r
  <2>4. table' = [table EXCEPT ![i] = r]
    BY <2>1 DEF r
  <2>5. /\ table' \in Seq(Row) /\ Len(table') = Len(table) /\ DOMAIN table' = DOMAIN table
        /\ \A j \in DOMAIN table : table'[j] = IF j = i THEN r ELSE table[j]
    BY <1>1, <2>3, <2>4
  <2>6. Lasting
    BY <2>3, <2>5 DEF Lasting
  <2>7. Counted'
    BY <2>3, <2>5 DEF Counted, HandOuts
  <2>8. Recorded'
    BY <2>3, <2>5 DEF Recorded, Done, Aimed
  <2> QED BY <2>5, <2>6, <2>7, <2>8
<1> QED BY <1>2, <1>3

\* A new row has not been out.
LEMMA EnqueueStep ==
    ASSUME TypeOK, Counted, Recorded, NEW verb \in Verbs, NEW dev \in Devices \cup {AnyDevice},
           enqueueDirective(verb, dev)
    PROVE  /\ table' \in Seq(Row) /\ Len(table') <= MaxDirectives
           /\ Counted' /\ Recorded' /\ Lasting
<1>1. /\ table \in Seq(Row) /\ DOMAIN table = 1 .. Len(table) /\ Len(table) \in Nat
      /\ now \in 0 .. MaxTime /\ Len(table) + 1 <= MaxDirectives /\ MaxDirectives \in Nat
      /\ table' = Append(table, newRow(verb, dev))
      /\ handed' = handed /\ ran' = ran
  BY DirectivesAssumption DEF TypeOK, enqueueDirective
<1>2. newRow(verb, dev) \in Row
  BY <1>1 DEF newRow, Row, Time, Never
<1>3. /\ newRow(verb, dev).executed = Never
      /\ HandOuts(newRow(verb, dev)) = 0
  BY DEF newRow, HandOuts
<1>4. /\ table' \in Seq(Row) /\ Len(table') = Len(table) + 1
      /\ DOMAIN table' = DOMAIN table \cup {Len(table) + 1}
      /\ table'[Len(table) + 1] = newRow(verb, dev)
      /\ \A i \in DOMAIN table : table'[i] = table[i]
  BY <1>1, <1>2
<1>5. Lasting
  BY <1>1, <1>4 DEF Lasting
<1>6. Recorded'
  BY <1>1, <1>3, <1>4 DEF Recorded, Done, Aimed
<1>7. Counted'
  <2> SUFFICES ASSUME NEW i \in Ids
               PROVE  handed'[i] = IF i \in DOMAIN table' THEN HandOuts(table'[i]) ELSE 0
    BY DEF Counted, HandOuts
  <2>1. CASE i = Len(table) + 1
    BY <1>1, <1>3, <1>4, <2>1 DEF Counted
  <2>2. CASE i # Len(table) + 1
    BY <1>1, <1>4, <2>2 DEF Counted
  <2> QED BY <2>1, <2>2
<1> QED BY <1>1, <1>4, <1>5, <1>6, <1>7

LEMMA QueueKept ==
    ASSUME Counted, Recorded, table' = table, handed' = handed, ran' = ran
    PROVE  Counted' /\ Recorded' /\ Lasting
BY DEF Counted, Recorded, Lasting, HandOuts, Done, Aimed

\* Whoever keeps what it held still holds what was meant for it.
LEMMA HoldingKept ==
    ASSUME Holding, Lasting,
           \A d \in Devices : /\ daemon'[d] = daemon[d] \/ DaemonFit(d)'
                              /\ dog'[d] = dog[d] \/ DogFit(d)'
    PROVE  Holding'
<1> SUFFICES ASSUME NEW d \in Devices PROVE DaemonFit(d)' /\ DogFit(d)'
  BY DEF Holding
<1>1. ASSUME daemon'[d] = daemon[d] PROVE DaemonFit(d)'
  <2>1. DaemonFit(d)
    BY DEF Holding
  <2>2. PICK i : i = daemon[d].held
    OBVIOUS
  <2>3. i # None => Aimed(i, d, "daemon")'
    BY <2>1, <2>2 DEF DaemonFit, Aimed, Lasting
  <2>4. daemon[d].pc = "ack" => i # None /\ Done(i, "daemon")'
    BY <2>1, <2>2 DEF DaemonFit, Aimed, Done, Lasting
  <2>5. /\ daemon'[d].held = i /\ daemon'[d].pc = daemon[d].pc
        /\ daemon'[d].pc = "flush" => daemon'[d].left > 0
    BY <1>1, <2>1, <2>2 DEF DaemonFit
  <2> QED BY <2>3, <2>4, <2>5 DEF DaemonFit, Aimed, Done
<1>2. ASSUME dog'[d] = dog[d] PROVE DogFit(d)'
  BY <1>2 DEF Holding, DogFit, Aimed, Done, Lasting
<1> QED BY <1>1, <1>2

LEMMA WireKept ==
    ASSUME OnTheWire, Lasting,
           \A m \in wire' : \/ m \in wire
                            \/ m.op # "ack"
                            \/ m.id \in DOMAIN table' /\ Done(m.id, m.channel)'
    PROVE  OnTheWire'
BY DEF OnTheWire, Lasting, Done

-----------------------------------------------------------------------------
(* The server's steps.                                                     *)

LEMMA ClockStep ==
    ASSUME DirectivesInv, Clock
    PROVE  DirectivesInv'
<1>1. Counted' /\ Recorded' /\ Lasting
  BY QueueKept DEF DirectivesInv, Clock
<1>2. Holding' /\ OnTheWire'
  BY <1>1, HoldingKept, WireKept DEF DirectivesInv, Clock
<1>3. TypeOK'
  BY DirectivesAssumption DEF DirectivesInv, TypeOK, Clock
<1> QED BY <1>1, <1>2, <1>3 DEF DirectivesInv

LEMMA QueueStep ==
    ASSUME DirectivesInv, NEW verb \in Verbs, NEW dev \in Devices \cup {AnyDevice},
           enqueueDirective(verb, dev)
    PROVE  DirectivesInv'
<1>1. /\ table' \in Seq(Row) /\ Len(table') <= MaxDirectives
      /\ Counted' /\ Recorded' /\ Lasting
  BY EnqueueStep DEF DirectivesInv
<1>2. Holding' /\ OnTheWire'
  BY <1>1, HoldingKept, WireKept DEF DirectivesInv, enqueueDirective
<1>3. TypeOK'
  BY <1>1 DEF DirectivesInv, TypeOK, enqueueDirective, Lasting
<1> QED BY <1>1, <1>2, <1>3 DEF DirectivesInv

LEMMA LateStep ==
    ASSUME DirectivesInv, NEW m \in wire, LateRequest(m)
    PROVE  DirectivesInv'
<1> USE DEF DirectivesInv
<1>1. m \in Request /\ wire' \subseteq wire
  BY DEF TypeOK, LateRequest
<1>2. /\ table' \in Seq(Row) /\ Len(table') = Len(table) /\ handed' \in [Ids -> Nat]
      /\ Counted' /\ Recorded' /\ Lasting
  <2>1. CASE m.op = "ask"
    <3>1. m.device \in Devices /\ m.channel \in Channels
      BY <1>1, <2>1 DEF Request
    <3>2. PICK take : Serve(m.device, m.channel, take) /\ ran' = ran
      BY <2>1 DEF LateRequest
    <3> QED BY <3>1, <3>2, ServeStep
  <2>2. CASE m.op # "ask"
    <3>1. m.op = "ack" /\ m.channel \in Channels
      BY <1>1, <2>2 DEF Request
    <3>2. m.id \in DOMAIN table /\ Done(m.id, m.channel)
      BY <3>1 DEF OnTheWire
    <3>3. table' = ackDirective(m.id, m.channel) /\ handed' = handed /\ ran' = ran
      BY <2>2 DEF LateRequest
    <3>4. Done(m.id, m.channel)'
      BY <3>1, <3>2, <3>3, AckKeepsVerb DEF Done
    <3>5. handed' \in [Ids -> Nat]
      BY <3>3 DEF TypeOK
    <3> QED BY <3>1, <3>2, <3>3, <3>4, <3>5, AckStep
  <2> QED BY <2>1, <2>2
<1>3. Holding' /\ OnTheWire'
  BY <1>1, <1>2, HoldingKept, WireKept DEF LateRequest
<1>4. TypeOK'
  BY <1>1, <1>2 DEF TypeOK, LateRequest
<1> QED BY <1>2, <1>3, <1>4

-----------------------------------------------------------------------------
(* The daemon's steps and the watchdog's.                                  *)

\* A step of one machine's executors that leaves the queue to itself.
LEMMA QuietStep ==
    ASSUME DirectivesInv, NEW d \in Devices, NEW a \in Loop, NEW b \in Loop,
           UNCHANGED <<now, table, handed, setAside, ran>>,
           daemon' = [daemon EXCEPT ![d] = a], dog' = [dog EXCEPT ![d] = b],
           a.held # None => Aimed(a.held, d, "daemon"),
           a.pc = "ack" => a.held # None /\ Done(a.held, "daemon"),
           a.pc = "flush" => a.left > 0,
           b.held # None => Aimed(b.held, d, "watchdog"),
           b.pc = "execute" => b.held # None,
           b.pc = "ack" => b.held # None /\ Done(b.held, "watchdog"),
           wire' \subseteq Request,
           \A m \in wire' : m \in wire \/ m.op # "ack"
    PROVE  DirectivesInv'
<1> USE DEF DirectivesInv
<1>1. Counted' /\ Recorded' /\ Lasting
  BY QueueKept
<1>2. /\ daemon' \in [Devices -> Loop] /\ daemon'[d] = a
      /\ dog' \in [Devices -> Loop] /\ dog'[d] = b
      /\ \A e \in Devices \ {d} : daemon'[e] = daemon[e] /\ dog'[e] = dog[e]
  BY DEF TypeOK
<1>3. DaemonFit(d)'
  BY <1>2 DEF DaemonFit, Aimed, Done
<1>4. DogFit(d)'
  BY <1>2 DEF DogFit, Aimed, Done
<1>5. Holding' /\ OnTheWire'
  BY <1>1, <1>2, <1>3, <1>4, HoldingKept, WireKept
<1>6. TypeOK'
  BY <1>2 DEF TypeOK
<1> QED BY <1>1, <1>5, <1>6

\* Neither holds anything at rest; nothing asked for is an acknowledgement.
LEMMA RestingForm == Resting \in Loop /\ Resting.held = None /\ Resting.pc = "idle"
BY DirectivesAssumption DEF Resting, Loop

LEMMA AskForm ==
    ASSUME TypeOK, NEW d \in Devices, NEW ch \in Channels, GiveUp(Ask(d, ch))
    PROVE  wire' \subseteq Request /\ \A m \in wire' : m \in wire \/ m.op # "ack"
<1>1. Ask(d, ch) \in Request /\ Ask(d, ch).op # "ack"
  BY DEF Ask, Request
<1> QED BY <1>1 DEF TypeOK, GiveUp

\* What each machine's loops hold now.
LEMMA FitNow ==
    ASSUME DirectivesInv, NEW d \in Devices
    PROVE  /\ daemon[d] \in Loop /\ dog[d] \in Loop
           /\ daemon = [daemon EXCEPT ![d] = daemon[d]] /\ dog = [dog EXCEPT ![d] = dog[d]]
           /\ DaemonFit(d) /\ DogFit(d)
BY DEF DirectivesInv, TypeOK, Holding

LEMMA StartTickStep ==
    ASSUME DirectivesInv, NEW d \in Devices, NEW n \in 0 .. MaxBatches, StartTick(d, n)
    PROVE  DirectivesInv'
<1> DEFINE a == [pc |-> IF n = 0 THEN "checkin" ELSE "flush", held |-> None, left |-> n]
<1>1. a \in Loop /\ a.held = None /\ a.pc # "ack" /\ (a.pc = "flush" => a.left > 0)
  BY DirectivesAssumption DEF Loop
<1>2. /\ daemon' = [daemon EXCEPT ![d] = a] /\ dog' = [dog EXCEPT ![d] = dog[d]]
      /\ wire' = wire /\ wire \subseteq Request
      /\ UNCHANGED <<now, table, handed, setAside, ran>>
  BY FitNow DEF StartTick, DirectivesInv, TypeOK
<1> HIDE DEF a
<1> QED BY <1>1, <1>2, FitNow, QuietStep DEF DogFit

LEMMA BatchFailsStep ==
    ASSUME DirectivesInv, NEW d \in Devices, BatchFails(d)
    PROVE  DirectivesInv'
<1> DEFINE a == [pc |-> "checkin", held |-> None, left |-> 0]
<1>1. a \in Loop /\ a.held = None /\ a.pc = "checkin"
  BY DirectivesAssumption DEF Loop
<1>2. PICK l \in {daemon[d], a} : daemon' = [daemon EXCEPT ![d] = l]
  BY FitNow DEF BatchFails
<1>3. /\ dog' = [dog EXCEPT ![d] = dog[d]] /\ UNCHANGED <<now, table, handed, setAside, ran>>
      /\ wire' \subseteq Request /\ \A m \in wire' : m \in wire \/ m.op # "ack"
  BY FitNow, AskForm DEF BatchFails, DirectivesInv, Channels
<1> HIDE DEF a
<1> QED BY <1>1, <1>2, <1>3, FitNow, QuietStep DEF DogFit, DaemonFit

LEMMA CheckinFailsStep ==
    ASSUME DirectivesInv, NEW d \in Devices, CheckinFails(d)
    PROVE  DirectivesInv'
<1> DEFINE a == [daemon[d] EXCEPT !.pc = "execute"]
<1>1. a \in Loop /\ a.held = daemon[d].held /\ a.pc = "execute"
  BY FitNow DEF Loop
<1>2. /\ daemon' = [daemon EXCEPT ![d] = a] /\ dog' = [dog EXCEPT ![d] = dog[d]]
      /\ UNCHANGED <<now, table, handed, setAside, ran>>
      /\ wire' \subseteq Request /\ \A m \in wire' : m \in wire \/ m.op # "ack"
  BY FitNow, AskForm DEF CheckinFails, DirectivesInv, Channels
<1> HIDE DEF a
<1> QED BY <1>1, <1>2, FitNow, QuietStep DEF DogFit, DaemonFit

LEMMA DaemonExitsStep ==
    ASSUME DirectivesInv, NEW d \in Devices, DaemonExits(d)
    PROVE  DirectivesInv'
<1>1. /\ daemon' = [daemon EXCEPT ![d] = Resting] /\ dog' = [dog EXCEPT ![d] = dog[d]]
      /\ wire' = wire /\ wire \subseteq Request
      /\ UNCHANGED <<now, table, handed, setAside, ran>>
  BY FitNow DEF DaemonExits, DirectivesInv, TypeOK
<1> QED BY <1>1, FitNow, RestingForm, QuietStep DEF DogFit

LEMMA DogFailsStep ==
    ASSUME DirectivesInv, NEW d \in Devices, WatchdogCheckinFails(d)
    PROVE  DirectivesInv'
<1>1. /\ daemon' = [daemon EXCEPT ![d] = daemon[d]] /\ dog' = [dog EXCEPT ![d] = dog[d]]
      /\ UNCHANGED <<now, table, handed, setAside, ran>>
      /\ wire' \subseteq Request /\ \A m \in wire' : m \in wire \/ m.op # "ack"
  BY FitNow, AskForm DEF WatchdogCheckinFails, DirectivesInv, Channels
<1> QED BY <1>1, FitNow, QuietStep DEF DogFit, DaemonFit

LEMMA DogDiesStep ==
    ASSUME DirectivesInv, NEW d \in Devices, WatchdogDies(d)
    PROVE  DirectivesInv'
<1>1. /\ daemon' = [daemon EXCEPT ![d] = daemon[d]] /\ dog' = [dog EXCEPT ![d] = Resting]
      /\ wire' = wire /\ wire \subseteq Request
      /\ UNCHANGED <<now, table, handed, setAside, ran>>
  BY FitNow DEF WatchdogDies, DirectivesInv, TypeOK
<1> QED BY <1>1, FitNow, RestingForm, QuietStep DEF DaemonFit

\* A response somebody waited for.
LEMMA ServedStep ==
    ASSUME DirectivesInv, NEW d \in Devices, NEW ch \in Channels, NEW take,
           Serve(d, ch, take), NEW a \in Loop, NEW b \in Loop,
           UNCHANGED <<now, wire, ran>>,
           setAside' \subseteq setAside \cup ({take.id} \ {None}),
           daemon' = [daemon EXCEPT ![d] = a], dog' = [dog EXCEPT ![d] = b],
           \/ ch = "daemon" /\ a.pc # "ack" /\ (a.pc = "flush" => a.left > 0)
              /\ a.held \in {take.id, daemon[d].held, None}
              /\ b = dog[d]
           \/ ch = "watchdog" /\ b.pc = "execute" /\ b.held = take.id /\ b.held # None
              /\ a = daemon[d]
           \/ a = daemon[d] /\ b = dog[d]
    PROVE  DirectivesInv'
<1> USE DEF DirectivesInv
<1>1. /\ table' \in Seq(Row) /\ Len(table') = Len(table)
      /\ handed' \in [Ids -> Nat]
      /\ take.id # None => Aimed(take.id, d, ch)'
      /\ Counted' /\ Recorded' /\ Lasting
  BY ServeStep
<1>2. /\ daemon' \in [Devices -> Loop] /\ daemon'[d] = a
      /\ dog' \in [Devices -> Loop] /\ dog'[d] = b
      /\ \A e \in Devices \ {d} : daemon'[e] = daemon[e] /\ dog'[e] = dog[e]
  BY DEF TypeOK
<1>3. a = daemon[d] \/ DaemonFit(d)'
  <2> SUFFICES ASSUME ch = "daemon", a.pc # "ack", a.pc = "flush" => a.left > 0,
                      a.held \in {take.id, daemon[d].held, None}
               PROVE  DaemonFit(d)'
    BY FitNow
  <2>1. PICK i : i = daemon[d].held
    OBVIOUS
  <2>2. i # None => Aimed(i, d, "daemon")'
    BY <1>1, <2>1, FitNow DEF DaemonFit, Aimed, Lasting
  <2> QED BY <1>1, <1>2, <2>1, <2>2 DEF DaemonFit, Aimed
<1>4. b = dog[d] \/ DogFit(d)'
  BY <1>1, <1>2 DEF DogFit, Aimed
<1>5. Holding' /\ OnTheWire'
  BY <1>1, <1>2, <1>3, <1>4, HoldingKept, WireKept
<1>6. TypeOK'
  <2>1. DOMAIN table' = DOMAIN table
    BY <1>1 DEF TypeOK
  <2>2. setAside' \subseteq DOMAIN table'
    BY <1>1, <2>1 DEF TypeOK, Aimed
  <2> QED BY <1>1, <1>2, <2>1, <2>2 DEF TypeOK
<1> QED BY <1>1, <1>5, <1>6

LEMMA BatchAnsweredStep ==
    ASSUME DirectivesInv, NEW d \in Devices, BatchAnswered(d)
    PROVE  DirectivesInv'
<1>1. PICK take : /\ take = takeDirective(d, "daemon")
                  /\ Serve(d, "daemon", take)
                  /\ setAside' = setAside \cup ({take.id} \ {None, Kept(d, take)})
                  /\ daemon' = [daemon EXCEPT ![d] =
                        [pc   |-> IF @.left = 1 THEN "checkin" ELSE "flush",
                         held |-> Kept(d, take), left |-> @.left - 1]]
  BY DEF BatchAnswered
<1> DEFINE a == [pc   |-> IF daemon[d].left = 1 THEN "checkin" ELSE "flush",
                 held |-> Kept(d, take), left |-> daemon[d].left - 1]
<1>2. take.id \in {None} \cup Ids
  BY <1>1, TakenForm, DirectivesAssumption DEF DirectivesInv, Channels, Aimed, Ids, TypeOK
<1>3. daemon[d] \in Loop /\ daemon[d].left > 0
  BY FitNow DEF BatchAnswered, DaemonFit
<1>4. a.held \in {take.id, daemon[d].held} /\ a.held \in {None} \cup Ids
  BY <1>2, <1>3 DEF Kept, Loop
<1>5. a \in Loop /\ a.pc # "ack" /\ (a.pc = "flush" => a.left > 0)
  <2>1. daemon[d].left - 1 \in 0 .. MaxBatches
    BY <1>3, DirectivesAssumption DEF Loop
  <2>2. daemon[d].left # 1 => daemon[d].left - 1 > 0
    BY <1>3, DirectivesAssumption DEF Loop
  <2> QED BY <1>4, <2>1, <2>2 DEF Loop
<1>6. /\ daemon' = [daemon EXCEPT ![d] = a] /\ dog' = [dog EXCEPT ![d] = dog[d]]
      /\ UNCHANGED <<now, wire, ran>> /\ setAside' \subseteq setAside \cup ({take.id} \ {None})
  BY <1>1, FitNow DEF BatchAnswered
<1> HIDE DEF a
<1> QED BY <1>1, <1>4, <1>5, <1>6, FitNow, ServedStep DEF Channels

LEMMA CheckinAnsweredStep ==
    ASSUME DirectivesInv, NEW d \in Devices, CheckinAnswered(d)
    PROVE  DirectivesInv'
<1>1. PICK take : /\ take = takeDirective(d, "daemon")
                  /\ Serve(d, "daemon", take)
                  /\ daemon' = [daemon EXCEPT ![d].pc = "execute", ![d].held = Kept(d, take)]
  BY DEF CheckinAnswered
<1> DEFINE a == [daemon[d] EXCEPT !.pc = "execute", !.held = Kept(d, take)]
<1>2. take.id \in {None} \cup Ids
  BY <1>1, TakenForm, DirectivesAssumption DEF DirectivesInv, Channels, Aimed, Ids, TypeOK
<1>3. Kept(d, take) \in {take.id, daemon[d].held} /\ Kept(d, take) \in {None} \cup Ids
  BY <1>2, FitNow DEF Kept, Loop
<1>4. a \in Loop /\ a.pc # "ack" /\ a.pc # "flush" /\ a.held \in {take.id, daemon[d].held, None}
  BY <1>3, FitNow DEF Loop
<1>5. /\ daemon' = [daemon EXCEPT ![d] = a] /\ dog' = [dog EXCEPT ![d] = dog[d]]
      /\ UNCHANGED <<now, wire, ran>> /\ setAside' \subseteq setAside \cup ({take.id} \ {None})
  BY <1>1, FitNow DEF CheckinAnswered, DirectivesInv, TypeOK, Ids, None
<1> HIDE DEF a
<1> QED BY <1>1, <1>4, <1>5, FitNow, ServedStep DEF Channels

LEMMA DogAnsweredStep ==
    ASSUME DirectivesInv, NEW d \in Devices, WatchdogCheckin(d)
    PROVE  DirectivesInv'
<1>1. PICK take : /\ take = takeDirective(d, "watchdog")
                  /\ Serve(d, "watchdog", take)
                  /\ dog' = IF take.id = None THEN dog
                            ELSE [dog EXCEPT ![d].pc = "execute", ![d].held = take.id]
  BY DEF WatchdogCheckin
<1> DEFINE b == IF take.id = None THEN dog[d]
                ELSE [dog[d] EXCEPT !.pc = "execute", !.held = take.id]
<1>2. take.id \in {None} \cup Ids
  BY <1>1, TakenForm, DirectivesAssumption DEF DirectivesInv, Channels, Aimed, Ids, TypeOK
<1>3. b \in Loop /\ (b = dog[d] \/ (b.pc = "execute" /\ b.held = take.id /\ b.held # None))
  <2>1. CASE take.id = None
    BY <2>1, FitNow
  <2>2. CASE take.id # None
    <3>1. b = [dog[d] EXCEPT !.pc = "execute", !.held = take.id]
      BY <2>2
    <3> HIDE DEF b
    <3> QED BY <1>2, <2>2, <3>1, FitNow DEF Loop
  <2> QED BY <2>1, <2>2
<1>4. /\ daemon' = [daemon EXCEPT ![d] = daemon[d]] /\ dog' = [dog EXCEPT ![d] = b]
      /\ UNCHANGED <<now, wire, ran>> /\ setAside' \subseteq setAside \cup ({take.id} \ {None})
  BY <1>1, FitNow DEF WatchdogCheckin, DirectivesInv, TypeOK, Ids, None
<1> HIDE DEF b
<1> QED BY <1>1, <1>3, <1>4, FitNow, ServedStep DEF Channels

\* Something was executed: the queue is as it was, the record says so.
LEMMA RanKept ==
    ASSUME TypeOK, Counted, Recorded, table' = table, handed' = handed, ran \subseteq ran',
           \A x \in ran' : x \in ran \/ Aimed(x[1], x[2], x[3])
    PROVE  Counted' /\ Recorded' /\ Lasting
<1>1. Counted' /\ Lasting
  BY DEF Counted, Lasting, HandOuts
<1>2. \A i \in DOMAIN table : table[i].executed # Never => Done(i, table[i].by)'
  BY DEF Recorded, Done
<1>3. \A x \in ran' : Aimed(x[1], x[2], x[3])'
  BY DEF Recorded, Aimed
<1> QED BY <1>1, <1>2, <1>3 DEF Recorded, Done, Aimed

LEMMA ExecuteStep ==
    ASSUME DirectivesInv, NEW d \in Devices, Execute(d)
    PROVE  DirectivesInv'
<1> USE DEF DirectivesInv
<1>1. CASE daemon[d].held = None
  <2>1. /\ daemon' = [daemon EXCEPT ![d] = Resting] /\ dog' = [dog EXCEPT ![d] = dog[d]]
        /\ wire' = wire /\ wire \subseteq Request
        /\ UNCHANGED <<now, table, handed, setAside, ran>>
    BY <1>1, FitNow DEF Execute, TypeOK
  <2> QED BY <2>1, FitNow, RestingForm, QuietStep DEF DogFit
<1>2. CASE daemon[d].held # None
  <2>1. PICK i : i = daemon[d].held
    OBVIOUS
  <2>2. i # None /\ Aimed(i, d, "daemon")
    BY <1>2, <2>1, FitNow DEF DaemonFit
  <2> DEFINE a == [daemon[d] EXCEPT !.pc = "ack"]
  <2>3. a \in Loop /\ a.held = i /\ a.pc = "ack"
    BY <2>1, FitNow DEF Loop
  <2>4. /\ daemon' = [daemon EXCEPT ![d] = a]
        /\ ran' = IF table[i].verb = Restart THEN ran ELSE ran \cup {<<i, d, "daemon">>}
        /\ UNCHANGED <<now, table, dog, wire, handed, setAside>>
    BY <1>2, <2>1, FitNow DEF Execute
  <2> HIDE DEF a
  <2>5. Counted' /\ Recorded' /\ Lasting
    BY <2>2, <2>4, RanKept
  <2>6. /\ daemon' \in [Devices -> Loop] /\ daemon'[d] = a
        /\ \A e \in Devices \ {d} : daemon'[e] = daemon[e]
    BY <2>3, <2>4 DEF TypeOK
  <2>7. Aimed(i, d, "daemon")' /\ Done(i, "daemon")'
    BY <2>2, <2>4 DEF Aimed, Done
  <2>8. DaemonFit(d)'
    BY <2>2, <2>3, <2>6, <2>7 DEF DaemonFit, Aimed, Done
  <2>9. Holding' /\ OnTheWire'
    BY <2>4, <2>5, <2>6, <2>8, HoldingKept, WireKept
  <2>10. ran' \subseteq (DOMAIN table) \X Devices \X Channels
    BY <2>2, <2>4 DEF TypeOK, Aimed, Channels
  <2>11. TypeOK'
    BY <2>4, <2>6, <2>10 DEF TypeOK
  <2> QED BY <2>5, <2>9, <2>11
<1> QED BY <1>1, <1>2

\* An acknowledgement, answered or given up on.
LEMMA AckedStep ==
    ASSUME DirectivesInv, NEW d \in Devices, NEW ch \in Channels, NEW i,
           Aimed(i, d, ch), Done(i, ch)',
           NEW answered \in BOOLEAN,
           IF answered THEN table' = ackDirective(i, ch) /\ UNCHANGED wire
                       ELSE GiveUp(Ack(i, ch)) /\ UNCHANGED table,
           ran \subseteq ran', ran' \subseteq ran \cup {<<i, d, ch>>},
           NEW a \in Loop, NEW b \in Loop,
           a = daemon[d] \/ a = Resting, b = dog[d] \/ b = Resting,
           daemon' = [daemon EXCEPT ![d] = a], dog' = [dog EXCEPT ![d] = b],
           UNCHANGED <<now, handed, setAside>>
    PROVE  DirectivesInv'
<1> USE DEF DirectivesInv
<1>1. i \in DOMAIN table /\ i \in Ids
  BY DirectivesAssumption DEF Aimed, TypeOK, Ids
<1>2. \A x \in ran' : x \in ran \/ Aimed(x[1], x[2], x[3])
  OBVIOUS
<1>3. /\ table' \in Seq(Row) /\ Len(table') = Len(table)
      /\ Counted' /\ Recorded' /\ Lasting
  <2>1. CASE answered
    BY <1>1, <1>2, <2>1, AckStep
  <2>2. CASE ~answered
    BY <1>2, <2>2, RanKept DEF TypeOK
  <2> QED BY <2>1, <2>2
<1>4. DOMAIN table' = DOMAIN table
  BY <1>3 DEF TypeOK
<1>5. Ack(i, ch) \in Request /\ Ack(i, ch).id = i /\ Ack(i, ch).channel = ch
  BY <1>1 DEF Ack, Request
<1>6. wire' \subseteq wire \cup {Ack(i, ch)}
  <2>1. CASE answered
    BY <2>1
  <2>2. CASE ~answered
    BY <2>2 DEF GiveUp
  <2> QED BY <2>1, <2>2
<1>7. OnTheWire'
  <2>1. ASSUME NEW m \in wire', m \notin wire
        PROVE  m.id \in DOMAIN table' /\ Done(m.id, m.channel)'
    <3>1. m = Ack(i, ch)
      BY <1>6, <2>1
    <3> QED BY <1>1, <1>4, <1>5, <3>1 DEF Done
  <2> QED BY <1>3, <2>1, WireKept
<1>8. /\ daemon' \in [Devices -> Loop] /\ daemon'[d] = a
      /\ dog' \in [Devices -> Loop] /\ dog'[d] = b
      /\ \A e \in Devices \ {d} : daemon'[e] = daemon[e] /\ dog'[e] = dog[e]
  BY DEF TypeOK
<1>9. (a = daemon[d] \/ DaemonFit(d)') /\ (b = dog[d] \/ DogFit(d)')
  BY <1>8, RestingForm DEF DaemonFit, DogFit
<1>10. Holding'
  BY <1>3, <1>8, <1>9, HoldingKept
<1>11. TypeOK'
  <2>1. ran' \subseteq (DOMAIN table) \X Devices \X Channels
    BY <1>1 DEF TypeOK
  <2>2. wire' \subseteq Request
    BY <1>5, <1>6 DEF TypeOK
  <2> QED BY <1>3, <1>4, <1>8, <2>1, <2>2 DEF TypeOK
<1> QED BY <1>3, <1>7, <1>10, <1>11

LEMMA AcknowledgeStep ==
    ASSUME DirectivesInv, NEW d \in Devices, NEW answered \in BOOLEAN, Acknowledge(d, answered)
    PROVE  DirectivesInv'
<1>1. PICK i : i = daemon[d].held
  OBVIOUS
<1>2. i # None /\ Aimed(i, d, "daemon") /\ Done(i, "daemon")
  BY <1>1, FitNow DEF DaemonFit, Acknowledge
<1>3. /\ IF answered THEN table' = ackDirective(i, "daemon") /\ UNCHANGED wire
                     ELSE GiveUp(Ack(i, "daemon")) /\ UNCHANGED table
      /\ ran' = IF table[i].verb = Restart THEN ran \cup {<<i, d, "daemon">>} ELSE ran
      /\ daemon' = [daemon EXCEPT ![d] = Resting] /\ dog' = [dog EXCEPT ![d] = dog[d]]
      /\ UNCHANGED <<now, handed, setAside>>
  BY <1>1, FitNow DEF Acknowledge
<1>4. ran \subseteq ran' /\ ran' \subseteq ran \cup {<<i, d, "daemon">>}
  BY <1>3
<1>5. table'[i].verb = table[i].verb
  BY <1>2, <1>3, AckKeepsVerb DEF Aimed, DirectivesInv, Channels
<1>6. Done(i, "daemon")'
  BY <1>2, <1>4, <1>5 DEF Done
<1> QED BY <1>2, <1>3, <1>4, <1>6, FitNow, RestingForm, AckedStep DEF Channels

LEMMA DogExecuteStep ==
    ASSUME DirectivesInv, NEW d \in Devices, WatchdogExecute(d)
    PROVE  DirectivesInv'
<1> USE DEF DirectivesInv
<1>1. PICK i : i = dog[d].held
  OBVIOUS
<1>2. i # None /\ Aimed(i, d, "watchdog")
  BY <1>1, FitNow DEF DogFit, WatchdogExecute
<1> DEFINE b == [dog[d] EXCEPT !.pc = "ack"]
<1>3. b \in Loop /\ b.held = i /\ b.pc = "ack"
  BY <1>1, FitNow DEF Loop
<1>4. /\ ran' = ran \cup {<<i, d, "watchdog">>}
      /\ dog' = [dog EXCEPT ![d] = b]
      /\ daemon' = daemon \/ daemon' = [daemon EXCEPT ![d] = Resting]
      /\ UNCHANGED <<now, table, wire, handed, setAside>>
  BY <1>1, FitNow DEF WatchdogExecute
<1> HIDE DEF b
<1>5. Counted' /\ Recorded' /\ Lasting
  BY <1>2, <1>4, RanKept
<1>6. /\ daemon' \in [Devices -> Loop] /\ dog' \in [Devices -> Loop] /\ dog'[d] = b
      /\ daemon'[d] = daemon[d] \/ daemon'[d] = Resting
      /\ \A e \in Devices \ {d} : daemon'[e] = daemon[e] /\ dog'[e] = dog[e]
  BY <1>3, <1>4, RestingForm DEF TypeOK
<1>7. Aimed(i, d, "watchdog")' /\ Done(i, "watchdog")'
  BY <1>2, <1>4 DEF Aimed, Done
<1>8. DogFit(d)'
  BY <1>2, <1>3, <1>6, <1>7 DEF DogFit, Aimed, Done
<1>9. daemon'[d] = daemon[d] \/ DaemonFit(d)'
  BY <1>6, RestingForm DEF DaemonFit
<1>10. Holding' /\ OnTheWire'
  BY <1>4, <1>5, <1>6, <1>8, <1>9, HoldingKept, WireKept
<1>11. ran' \subseteq (DOMAIN table) \X Devices \X Channels
  BY <1>2, <1>4 DEF TypeOK, Aimed, Channels
<1>12. TypeOK'
  BY <1>4, <1>6, <1>11 DEF TypeOK
<1> QED BY <1>5, <1>10, <1>12

LEMMA DogAckStep ==
    ASSUME DirectivesInv, NEW d \in Devices, NEW answered \in BOOLEAN, WatchdogAck(d, answered)
    PROVE  DirectivesInv'
<1>1. PICK i : i = dog[d].held
  OBVIOUS
<1>2. i # None /\ Aimed(i, d, "watchdog") /\ Done(i, "watchdog")
  BY <1>1, FitNow DEF DogFit, WatchdogAck
<1>3. /\ IF answered THEN table' = ackDirective(i, "watchdog") /\ UNCHANGED wire
                     ELSE GiveUp(Ack(i, "watchdog")) /\ UNCHANGED table
      /\ ran' = ran
      /\ daemon' = [daemon EXCEPT ![d] = daemon[d]] /\ dog' = [dog EXCEPT ![d] = Resting]
      /\ UNCHANGED <<now, handed, setAside>>
  BY <1>1, FitNow DEF WatchdogAck
<1>4. table'[i].verb = table[i].verb
  BY <1>2, <1>3, AckKeepsVerb DEF Aimed, DirectivesInv, Channels
<1>5. Done(i, "watchdog")'
  BY <1>2, <1>3, <1>4 DEF Done
<1> QED BY <1>2, <1>3, <1>5, FitNow, RestingForm, AckedStep DEF Channels

-----------------------------------------------------------------------------
LEMMA InvInit ==
    ASSUME Init
    PROVE  DirectivesInv
<1>1. TypeOK
  BY DirectivesAssumption, RestingForm DEF Init, TypeOK
<1>2. Counted /\ OnTheWire /\ Recorded
  BY DEF Init, Counted, OnTheWire, Recorded
<1>3. Holding
  BY RestingForm DEF Init, Holding, DaemonFit, DogFit
<1> QED BY <1>1, <1>2, <1>3 DEF DirectivesInv

LEMMA InvStep ==
    ASSUME DirectivesInv, [Next]_vars
    PROVE  DirectivesInv'
<1>1. CASE Clock
  BY <1>1, ClockStep
<1>2. ASSUME NEW v \in Verbs, NEW dev \in Devices \cup {AnyDevice}, enqueueDirective(v, dev)
      PROVE  DirectivesInv'
  BY <1>2, QueueStep
<1>3. ASSUME NEW m \in wire, LateRequest(m) PROVE DirectivesInv'
  BY <1>3, LateStep
<1>4. ASSUME NEW d \in Devices, HealSweep(d) PROVE DirectivesInv'
  BY <1>4, QueueStep, DirectivesAssumption DEF HealSweep
<1>5. ASSUME NEW d \in Devices, NEW n \in 0 .. MaxBatches, StartTick(d, n) PROVE DirectivesInv'
  BY <1>5, StartTickStep
<1>6. ASSUME NEW d \in Devices, BatchAnswered(d) PROVE DirectivesInv'
  BY <1>6, BatchAnsweredStep
<1>7. ASSUME NEW d \in Devices, BatchFails(d) PROVE DirectivesInv'
  BY <1>7, BatchFailsStep
<1>8. ASSUME NEW d \in Devices, CheckinAnswered(d) PROVE DirectivesInv'
  BY <1>8, CheckinAnsweredStep
<1>9. ASSUME NEW d \in Devices, CheckinFails(d) PROVE DirectivesInv'
  BY <1>9, CheckinFailsStep
<1>10. ASSUME NEW d \in Devices, Execute(d) PROVE DirectivesInv'
  BY <1>10, ExecuteStep
<1>11. ASSUME NEW d \in Devices, NEW answered \in BOOLEAN, Acknowledge(d, answered)
       PROVE  DirectivesInv'
  BY <1>11, AcknowledgeStep
<1>12. ASSUME NEW d \in Devices, DaemonExits(d) PROVE DirectivesInv'
  BY <1>12, DaemonExitsStep
<1>13. ASSUME NEW d \in Devices, WatchdogCheckin(d) PROVE DirectivesInv'
  BY <1>13, DogAnsweredStep
<1>14. ASSUME NEW d \in Devices, WatchdogCheckinFails(d) PROVE DirectivesInv'
  BY <1>14, DogFailsStep
<1>15. ASSUME NEW d \in Devices, WatchdogExecute(d) PROVE DirectivesInv'
  BY <1>15, DogExecuteStep
<1>16. ASSUME NEW d \in Devices, NEW answered \in BOOLEAN, WatchdogAck(d, answered)
       PROVE  DirectivesInv'
  BY <1>16, DogAckStep
<1>17. ASSUME NEW d \in Devices, WatchdogDies(d) PROVE DirectivesInv'
  BY <1>17, DogDiesStep
<1>18. CASE UNCHANGED vars
  <2>1. Counted' /\ Recorded' /\ Lasting
    BY <1>18, QueueKept DEF vars, DirectivesInv
  <2>2. Holding' /\ OnTheWire' /\ TypeOK'
    BY <1>18, <2>1, HoldingKept, WireKept DEF vars, DirectivesInv, TypeOK
  <2> QED BY <2>1, <2>2 DEF DirectivesInv
<1> QED BY <1>1, <1>2, <1>3, <1>4, <1>5, <1>6, <1>7, <1>8, <1>9, <1>10, <1>11, <1>12,
           <1>13, <1>14, <1>15, <1>16, <1>17, <1>18 DEF Next

LEMMA InvCorrect == Spec => []DirectivesInv
<1>1. Init => DirectivesInv
  BY InvInit
<1>2. DirectivesInv /\ [Next]_vars => DirectivesInv'
  BY InvStep
<1> QED BY <1>1, <1>2, PTL DEF Spec

\* States are well typed: in particular what an executor holds, an execution
\* names and an acknowledgement quotes is a row of the queue.
THEOREM TypeCorrect == Spec => []TypeOK
<1>1. DirectivesInv => TypeOK
  BY DEF DirectivesInv
<1> QED BY <1>1, InvCorrect, PTL

\* Each directive leaves the server once, and once more after its re-queue, for
\* any number of machines asking over any number of channels.
THEOREM HandedCorrect == Spec => []HandedOnce
<1>1. DirectivesInv => HandedOnce
  <2> SUFFICES ASSUME DirectivesInv, NEW i \in DOMAIN table
               PROVE  handed[i] <= IF table[i].requeued = Never THEN 1 ELSE 2
    BY DEF HandedOnce
  <2>1. i \in Ids
    BY DirectivesAssumption DEF DirectivesInv, TypeOK, Ids
  <2>2. handed[i] = HandOuts(table[i])
    BY <2>1 DEF DirectivesInv, Counted
  <2> QED BY <2>2 DEF HandOuts
<1> QED BY <1>1, InvCorrect, PTL

\* What is recorded as executed was run where it was meant to be.
THEOREM AckedCorrect == Spec => []AckedWasRun
<1>1. DirectivesInv => AckedWasRun
  <2> SUFFICES ASSUME DirectivesInv PROVE AckedWasRun
    OBVIOUS
  <2>1. \A i \in DOMAIN table, d \in Devices, ch \in Channels :
          <<i, d, ch>> \in ran => Aimed(i, d, ch)
    BY DEF DirectivesInv, Recorded
  <2> QED BY <2>1 DEF AckedWasRun, DirectivesInv, Recorded, Done, Aimed
<1> QED BY <1>1, InvCorrect, PTL
=============================================================================
