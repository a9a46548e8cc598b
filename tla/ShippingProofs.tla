--------------------------- MODULE ShippingProofs ---------------------------
(***************************************************************************)
(* What Shipping guarantees for any logs, batch size, number of tries and  *)
(* bounds: its type invariant and, for builds that only move forward, that *)
(* no offset passes a record the server lacks and no record is hidden      *)
(* behind a current mtime; and what the events it ships are made of, for   *)
(* a Codex rollout: every call billed as the API did, line by line.        *)
(***************************************************************************)
EXTENDS Shipping, TLAPS

\* The state a missing state.json loads as is a well-typed one.
LEMMA EmptyStateType == emptyState \in State /\ NoFiles \in [Files -> FileState]
  BY DEF emptyState, State, NoFiles, FileState, Unseen

\* Starting the daemon leaves well-typed states behind, rescanned or not.
LEMMA StartType ==
    ASSUME ShippingAssumption, TypeOK, NEW readable \in BOOLEAN, Start(readable)
    PROVE  TypeOK'
<1> DEFINE st == loadState(readable)
           rescan == applyRescanGeneration(st)
<1>1. st \in State
  BY EmptyStateType DEF TypeOK, loadState
<1>2. rescan \in State
  BY <1>1, EmptyStateType DEF applyRescanGeneration, State, TypeOK, ShippingAssumption
<1>3. disk' \in State /\ mem' \in State
  BY <1>1, <1>2 DEF Start, TypeOK
<1>4. crashes' \in 0 .. MaxCrashes
  BY DEF Start, TypeOK, ShippingAssumption
<1> QED
  BY <1>3, <1>4 DEF Start, TypeOK, envVars, tickVars, postVars

\* A tick that ends, however it ends, leaves well-typed locals.
LEMMA AbandonType ==
    ASSUME ShippingAssumption, AbandonTick
    PROVE  /\ unsent' \subseteq Keys /\ batch' \subseteq Keys
           /\ tries' \in 0 .. Attempts
           /\ present' \subseteq Files /\ todo' \subseteq Files
           /\ cur' \in Files \cup {NoFile} /\ curMtime' \in Nat
           /\ pending' \in [Files -> FileState] /\ collected' \subseteq Keys
  BY EmptyStateType DEF AbandonTick, ShippingAssumption

\* Whatever request is given up on is a set of keys.
LEMMA AbandonedType ==
    ASSUME TypeOK, NEW w \in Abandoned
    PROVE  w \subseteq SUBSET Keys
  BY DEF TypeOK, Abandoned

\* A machine on which nothing was logged or shipped yet is well-typed.
LEMMA TypeInit == Init => TypeOK
<1> USE ShippingAssumption
<1> SUFFICES ASSUME Init PROVE TypeOK
  OBVIOUS
<1>1. content \in [Files -> Seq(Keys)]
  BY DEF Init
<1>2. disk \in State /\ mem \in State
  BY EmptyStateType DEF Init
<1>3. mtime \in [Files -> Nat] /\ build \in 1 .. MaxGen
  BY DEF Init, ShippingAssumption
<1>4. tries \in 0 .. Attempts /\ crashes \in 0 .. MaxCrashes
  BY DEF Init, ShippingAssumption
<1>5. pc \in {"down", "idle", "scan", "post", "save"} /\ aborted \in BOOLEAN
  BY DEF Init
<1> QED
  BY <1>1, <1>2, <1>3, <1>4, <1>5, EmptyStateType DEF Init, TypeOK

\* Every action preserves the type invariant.
LEMMA TypeStep == TypeOK /\ [Next]_vars => TypeOK'
<1> USE ShippingAssumption
<1> SUFFICES ASSUME TypeOK, [Next]_vars PROVE TypeOK'
  OBVIOUS
<1>1. ASSUME NEW f \in Files, NEW k \in Keys, AppendRecord(f, k) PROVE TypeOK'
  <2>1. content' \in [Files -> Seq(Keys)]
    BY <1>1 DEF TypeOK, AppendRecord
  <2> QED
    BY <1>1, <2>1 DEF TypeOK, AppendRecord, tickVars, postVars
<1>2. ASSUME NEW f \in Files, DeleteFile(f) PROVE TypeOK'
  BY <1>2 DEF TypeOK, DeleteFile, tickVars, postVars
<1>3. ASSUME NEW readable \in BOOLEAN, Start(readable) PROVE TypeOK'
  BY <1>3, StartType
<1>4. ASSUME NEW g \in 1 .. MaxGen, Deploy(g) PROVE TypeOK'
  BY <1>4 DEF TypeOK, Deploy, envVars, tickVars, postVars
<1>5. ASSUME NEW failed \in SUBSET Sources, StartTick(failed) PROVE TypeOK'
  BY <1>5 DEF TypeOK, StartTick, State, envVars, postVars
<1>6. ASSUME NEW f \in Files, StatFile(f) PROVE TypeOK'
  BY <1>6 DEF TypeOK, StatFile, envVars, postVars
<1>7. ASSUME ParseFile PROVE TypeOK'
  <2>1. cur \in Files /\ Len(content[cur]) \in Nat /\ Unread(cur) \subseteq Keys
    <3>1. cur \in Files /\ content[cur] \in Seq(Keys)
      BY <1>7 DEF TypeOK, ParseFile
    <3>2. mem.files[cur].offset \in Nat
      BY <3>1 DEF TypeOK, State, FileState
    <3> QED
      BY <3>1, <3>2 DEF Unread
  <2>2. collected' \subseteq Keys
    BY <1>7, <2>1 DEF TypeOK, ParseFile, Emitted
  <2>3. pending' \in [Files -> FileState]
    <3>1. curMtime \in Nat /\ pending \in [Files -> FileState]
      BY DEF TypeOK
    <3>2. /\ [mtime |-> curMtime, offset |-> Len(content[cur])] \in FileState
          /\ [mtime |-> curMtime, offset |-> 0] \in FileState
      BY <2>1, <3>1 DEF FileState
    <3> QED
      BY <1>7, <2>1, <3>1, <3>2 DEF ParseFile
  <2> QED
    BY <1>7, <2>2, <2>3 DEF TypeOK, ParseFile, envVars, postVars
<1>8. CASE ParseFails
  BY <1>8 DEF TypeOK, ParseFails, envVars, postVars
<1>9. CASE EndScan
  BY <1>9 DEF TypeOK, EndScan, envVars
<1>10. ASSUME NEW B \in SUBSET unsent, SendBatch(B) PROVE TypeOK'
  BY <1>10 DEF TypeOK, SendBatch, envVars, tickVars
<1>11. CASE BatchAcked
  BY <1>11 DEF TypeOK, BatchAcked, insertMany, envVars, tickVars
<1>12. CASE AttemptFails
  <2>1. wire' \subseteq SUBSET Keys
    BY <1>12, AbandonedType DEF AttemptFails
  <2>2. CASE tries < Attempts /\ ~aborted
    <3>1. tries' \in 0 .. Attempts
      BY <1>12, <2>2 DEF AttemptFails, TypeOK, ShippingAssumption
    <3> QED
      BY <1>12, <2>1, <2>2, <3>1 DEF TypeOK, AttemptFails, envVars, tickVars
  <2>3. CASE ~(tries < Attempts /\ ~aborted)
    BY <1>12, <2>1, <2>3, AbandonType DEF TypeOK, AttemptFails, envVars
  <2> QED
    BY <2>2, <2>3
<1>13. CASE PostFails
  BY <1>13, AbandonType DEF TypeOK, PostFails, envVars
<1>14. ASSUME NEW B \in wire, LateIngest(B) PROVE TypeOK'
  BY <1>14 DEF TypeOK, LateIngest, insertMany, envVars, tickVars, postVars
<1>15. ASSUME NEW saved \in BOOLEAN, SaveState(saved) PROVE TypeOK'
  <2>1. pruneMissingFiles \in [Files -> FileState]
    BY DEF TypeOK, pruneMissingFiles, FileState, Unseen
  <2>2. mem' \in State /\ disk' \in State
    BY <1>15, <2>1 DEF TypeOK, SaveState, State
  <2> QED
    BY <1>15, <2>2, AbandonType DEF TypeOK, SaveState, envVars
<1>16. CASE Sigterm
  BY <1>16 DEF TypeOK, Sigterm, ShippingAssumption, envVars, tickVars, postVars
<1>17. CASE Exit
  BY <1>17, EmptyStateType DEF TypeOK, Exit, envVars, tickVars, postVars
<1>18. CASE Crash
  <2>1. wire' \subseteq SUBSET Keys
    BY <1>18, AbandonedType DEF Crash, TypeOK
  <2>2. crashes' \in 0 .. MaxCrashes
    BY <1>18 DEF Crash, TypeOK, ShippingAssumption
  <2> QED
    BY <1>18, <2>1, <2>2, AbandonType, EmptyStateType DEF TypeOK, Crash, envVars
<1>19. CASE UNCHANGED vars
  BY <1>19 DEF TypeOK, vars
<1> QED
  BY <1>1, <1>2, <1>3, <1>4, <1>5, <1>6, <1>7, <1>8, <1>9, <1>10, <1>11, <1>12,
     <1>13, <1>14, <1>15, <1>16, <1>17, <1>18, <1>19 DEF Next

\* The state of the daemon, its requests and the table are always well-typed.
THEOREM TypeCorrect == Spec => []TypeOK
  BY TypeInit, TypeStep, PTL DEF Spec

-----------------------------------------------------------------------------
(* The inductive step of IInv.                                              *)

\* The conjuncts of IInv but its type invariant.
Linked ==
    /\ GenOrdered
    /\ \A f \in Files : mtime[f] = 0 => content[f] = <<>>
    /\ Within(disk.files) /\ Within(mem.files)
    /\ Covered(disk.files, {}, disk.gen) /\ Covered(mem.files, {}, mem.gen)
    /\ TickAccounted

\* The empty file states lie within any logs and cover anything.
LEMMA NoFilesFits ==
    ASSUME TypeOK, \A f \in Files : mtime[f] = 0 => content[f] = <<>>
    PROVE  /\ Within(NoFiles)
           /\ \A C, g : Covered(NoFiles, C, g)
<1>1. ASSUME NEW f \in Files PROVE NoFiles[f].offset = 0 /\ NoFiles[f].mtime = 0
  BY DEF NoFiles, Unseen
<1>2. ASSUME NEW f \in Files PROVE content[f] \in Seq(Keys) /\ mtime[f] \in Nat
  BY DEF TypeOK
<1>3. Within(NoFiles)
  BY <1>1, <1>2 DEF Within
<1>4. \A C, g : Covered(NoFiles, C, g)
  BY <1>1 DEF Covered
<1> QED
  BY <1>3, <1>4

\* An append moves no record and outdates every file state.
LEMMA AppendLinked ==
    ASSUME TypeOK, TypeOK', Linked, NEW f \in Files, NEW k \in Keys, AppendRecord(f, k)
    PROVE  Linked'
<1>1. \A g \in Files : /\ Len(content[g]) \in Nat
                       /\ Len(content[g]) <= Len(content'[g])
                       /\ mtime[g] \in Nat /\ mtime[g] <= mtime'[g]
                       /\ \A i \in 1 .. Len(content[g]) : content'[g][i] = content[g][i]
                       /\ g # f => content'[g] = content[g] /\ mtime'[g] = mtime[g]
  BY DEF AppendRecord, TypeOK
<1>2. /\ mtime'[f] = mtime[f] + 1
      /\ onDisk' = onDisk \cup {f}
  BY DEF AppendRecord, TypeOK
<1>3. UNCHANGED <<disk, mem, pending, build, pc, rows, batch, unsent, collected, cur, curMtime>>
  BY DEF AppendRecord, tickVars, postVars
<1>4. disk.files \in [Files -> FileState] /\ mem.files \in [Files -> FileState]
      /\ pending \in [Files -> FileState]
  BY DEF TypeOK, State
<1>5. /\ Within(disk.files)' /\ Within(mem.files)' /\ Within(pending)'
  <2>1. ASSUME NEW R \in [Files -> FileState],
               NEW g \in Files,
               R[g].offset <= Len(content[g]), R[g].mtime <= mtime[g],
               g \in onDisk /\ R[g].mtime = mtime[g] => R[g].offset = Len(content[g])
        PROVE  /\ R[g].offset <= Len(content'[g])
               /\ R[g].mtime <= mtime'[g]
               /\ g \in onDisk' /\ R[g].mtime = mtime'[g] => R[g].offset = Len(content'[g])
    <3>1. R[g].offset \in Nat /\ R[g].mtime \in Nat /\ Len(content'[g]) \in Nat
      <4>1. R[g] \in FileState /\ content'[g] \in Seq(Keys)
        BY <2>1 DEF TypeOK
      <4> QED
        BY <4>1 DEF FileState
    <3>2. CASE g = f
      BY <1>1, <1>2, <2>1, <3>1, <3>2
    <3>3. CASE g # f
      BY <1>1, <1>2, <2>1, <3>1, <3>3
    <3> QED
      BY <3>2, <3>3
  <2>2. Within(disk.files)'
    BY <1>3, <1>4, <2>1 DEF Within, Linked
  <2>3. Within(mem.files)'
    BY <1>3, <1>4, <2>1 DEF Within, Linked
  <2>4. Within(pending)'
    BY <1>3, <1>4, <2>1 DEF Within, Linked, TickAccounted
  <2> QED
    BY <2>2, <2>3, <2>4
<1>6. /\ Covered(disk.files, {}, disk.gen)' /\ Covered(mem.files, {}, mem.gen)'
      /\ (pc \notin {"down", "idle"} => Covered(pending, collected, build))'
  <2>1. ASSUME NEW R \in [Files -> FileState],
               NEW g \in Files, R[g].offset <= Len(content[g]),
               NEW i \in 1 .. R[g].offset
        PROVE  content'[g][i] = content[g][i]
    <3>1. R[g].offset \in Nat /\ i \in 1 .. Len(content[g])
      BY <1>1, <2>1 DEF FileState
    <3> QED
      BY <1>1, <3>1
  <2>2. Covered(disk.files, {}, disk.gen)'
    BY <1>3, <1>4, <2>1 DEF Covered, Settled, Within, Linked
  <2>3. Covered(mem.files, {}, mem.gen)'
    BY <1>3, <1>4, <2>1 DEF Covered, Settled, Within, Linked
  <2>4. (pc \notin {"down", "idle"} => Covered(pending, collected, build))'
    BY <1>3, <1>4, <2>1 DEF Covered, Settled, Within, Linked, TickAccounted
  <2> QED
    BY <2>2, <2>3, <2>4
<1>7. \A g \in Files : mtime'[g] = 0 => content'[g] = <<>>
  BY <1>1, <1>2 DEF Linked
<1>8. GenOrdered'
  BY <1>3 DEF GenOrdered, Linked
<1>9. /\ (cur # NoFile => curMtime <= mtime[cur])'
  BY <1>1, <1>3 DEF Linked, TickAccounted, TypeOK
<1> QED
  BY <1>3, <1>5, <1>6, <1>7, <1>8, <1>9 DEF Linked, TickAccounted

\* A start holds the saved file states, or none when a rescan is due.
LEMMA StartLinked ==
    ASSUME ShippingAssumption, TypeOK, TypeOK', Linked,
           NEW readable \in BOOLEAN, Start(readable)
    PROVE  Linked'
<1> DEFINE st == loadState(readable)
           rescan == applyRescanGeneration(st)
<1>1. /\ UNCHANGED <<content, onDisk, mtime, build, rows, pending, collected, unsent,
                     batch, cur, curMtime>>
      /\ pc = "down" /\ pc' = "idle"
      /\ mem' = rescan /\ (disk' = rescan \/ disk' = disk)
  BY DEF Start, envVars, tickVars, postVars
<1>2. /\ emptyState.files = NoFiles /\ emptyState.gen = 0
      /\ build \in Nat \ {0} /\ disk.gen \in Nat /\ disk.gen <= build
  BY DEF emptyState, TypeOK, State, Linked, GenOrdered, ShippingAssumption
<1>3. \/ rescan = disk /\ disk.gen = build
      \/ rescan = [files |-> NoFiles, gen |-> build]
  BY <1>2 DEF loadState, applyRescanGeneration
<1>4. /\ Within(NoFiles) /\ Within(disk.files)
      /\ Covered(NoFiles, {}, build) /\ Covered(disk.files, {}, disk.gen)
  BY NoFilesFits DEF Linked
<1>5. /\ Within(rescan.files) /\ Covered(rescan.files, {}, rescan.gen)
      /\ rescan.gen = build
  BY <1>3, <1>4
<1>6. Within(mem.files)' /\ Covered(mem.files, {}, mem.gen)' /\ mem'.gen = build
  BY <1>1, <1>5 DEF Within, Covered, Settled
<1>7. Within(disk.files)' /\ Covered(disk.files, {}, disk.gen)' /\ disk'.gen <= build
  BY <1>1, <1>2, <1>4, <1>5 DEF Within, Covered, Settled
<1>8. TickAccounted'
  BY <1>1 DEF Linked, TickAccounted, Within
<1> QED
  BY <1>1, <1>6, <1>7, <1>8 DEF Linked, GenOrdered

\* A parse reads from a covered offset to the end of the log, and every record
\* it reads is collected or not for this build.
LEMMA ParseLinked ==
    ASSUME ShippingAssumption, TypeOK, TypeOK', Linked, ParseFile
    PROVE  Linked'
<1>1. /\ UNCHANGED <<content, onDisk, mtime, build, disk, mem, pc, rows, unsent, batch>>
      /\ pc = "scan" /\ cur \in Files /\ cur' = NoFile
      /\ mem.gen = build /\ curMtime <= mtime[cur] /\ Covered(pending, collected, build)
      /\ unsent = {}
  BY DEF ParseFile, envVars, postVars, TypeOK, Linked, TickAccounted, GenOrdered
<1>2. /\ content[cur] \in Seq(Keys) /\ mem.files[cur].offset \in Nat
      /\ mem.files[cur].offset <= Len(content[cur])
      /\ mtime[cur] \in Nat /\ curMtime \in Nat /\ build \in Nat
      /\ pending \in [Files -> FileState]
  <2>1. mem.files[cur] \in FileState
    BY <1>1 DEF TypeOK, State
  <2> QED
    BY <1>1, <2>1 DEF TypeOK, FileState, Linked, Within
<1>3. /\ collected \subseteq collected'
      /\ \A f \in Files \ {cur} : pending'[f] = pending[f]
      /\ pending'[cur].mtime = curMtime
      /\ IF cur \in onDisk THEN pending'[cur].offset = Len(content[cur])
                           ELSE pending'[cur].offset = 0
  BY <1>1, <1>2 DEF ParseFile
<1>4. Within(pending)'
  BY <1>1, <1>2, <1>3 DEF Within, Linked, TickAccounted
<1>5. ASSUME NEW i \in 1 .. pending'[cur].offset
      PROVE  Settled(content[cur][i], build) \/ content[cur][i] \in collected'
  <2>1. cur \in onDisk /\ i \in 1 .. Len(content[cur])
    BY <1>2, <1>3
  <2>2. CASE i <= mem.files[cur].offset
    BY <1>1, <1>2, <2>1, <2>2 DEF Linked, Covered
  <2>3. CASE i > mem.files[cur].offset
    <3>1. content[cur][i] \in Unread(cur) /\ content[cur][i] \in Keys
      BY <1>2, <2>1, <2>3 DEF Unread
    <3>2. MinGen[content[cur][i]] \in Nat
      BY <3>1 DEF ShippingAssumption
    <3>3. CASE MinGen[content[cur][i]] <= build
      BY <2>1, <3>1, <3>3 DEF Emitted, ParseFile
    <3>4. CASE MinGen[content[cur][i]] > build
      BY <3>4 DEF Settled
    <3> QED
      BY <1>2, <3>2, <3>3, <3>4
  <2> QED
    BY <1>2, <2>1, <2>2, <2>3
<1>6. Covered(pending, collected, build)'
  BY <1>1, <1>3, <1>5 DEF Covered, Settled
<1>7. TickAccounted'
  BY <1>1, <1>3, <1>4, <1>6, TypeOK' DEF TickAccounted, Linked, TypeOK, ShippingAssumption
<1> QED
  BY <1>1, <1>7 DEF Linked, GenOrdered, Within, Covered, Settled

\* A tick that ends leaves nothing to account for.
LEMMA AbandonLinked ==
    ASSUME TypeOK, TypeOK', Linked, AbandonTick, pc' \in {"down", "idle"},
           UNCHANGED <<content, onDisk, mtime>>
    PROVE  TickAccounted'
<1>1. Within(NoFiles)
  BY NoFilesFits DEF Linked
<1>2. Within(pending)'
  BY <1>1 DEF AbandonTick, Within
<1> QED
  BY <1>2 DEF AbandonTick, TickAccounted

\* The end of a successful tick: every collected record is settled, so the
\* pending offsets are covered without the tick's collection.
LEMMA SaveLinked ==
    ASSUME ShippingAssumption, TypeOK, TypeOK', Linked,
           NEW saved \in BOOLEAN, SaveState(saved)
    PROVE  Linked'
<1>1. /\ UNCHANGED <<content, onDisk, mtime, build, rows>>
      /\ pc = "save" /\ pc' = "idle" /\ AbandonTick
      /\ mem' = [mem EXCEPT !.files = pruneMissingFiles]
      /\ disk' = mem' \/ disk' = disk
  BY DEF SaveState, envVars
<1>2. mem.gen = build /\ disk.gen <= build /\ build \in Nat
  BY <1>1 DEF Linked, GenOrdered, TypeOK
<1>3. Within(pending) /\ Covered(pending, {}, build)
  BY <1>1 DEF Linked, TickAccounted, Covered, Settled
<1>4. Within(NoFiles) /\ Covered(NoFiles, {}, build)
  BY NoFilesFits DEF Linked
<1>5. mem'.files = pruneMissingFiles /\ mem'.gen = build
  BY <1>1, <1>2 DEF TypeOK, State
<1>6. Within(pruneMissingFiles) /\ Covered(pruneMissingFiles, {}, build)
  BY <1>3, <1>4 DEF Within, Covered, pruneMissingFiles, NoFiles
<1>7. Within(mem.files)' /\ Covered(mem.files, {}, mem.gen)'
  BY <1>1, <1>5, <1>6 DEF Within, Covered, Settled
<1>8. Within(disk.files)' /\ Covered(disk.files, {}, disk.gen)' /\ disk'.gen <= build
  <2>1. CASE disk' = mem'
    BY <1>2, <1>5, <1>7, <2>1 DEF Within, Covered, Settled
  <2>2. CASE disk' = disk
    BY <1>1, <1>2, <2>2 DEF Linked, Within, Covered, Settled
  <2> QED
    BY <1>1, <2>1, <2>2
<1>9. TickAccounted'
  BY <1>1, AbandonLinked
<1> QED
  BY <1>1, <1>5, <1>7, <1>8, <1>9 DEF Linked, GenOrdered

\* An action that leaves the logs, the build and the held states alone and
\* forgets no row preserves what those states cover.
LEMMA QuietLinked ==
    ASSUME TypeOK, TypeOK', Linked,
           UNCHANGED <<content, mtime, build, disk>>, onDisk' \subseteq onDisk,
           rows \subseteq rows', mem' = mem \/ mem' = emptyState,
           pc' = "down" => mem' = emptyState,
           pc' # "down" => pc # "down" /\ mem' = mem,
           TickAccounted'
    PROVE  Linked'
<1>1. Within(NoFiles) /\ Covered(NoFiles, {}, 0)
  BY NoFilesFits DEF Linked
<1>2. Within(mem.files) /\ Covered(mem.files, {}, mem.gen)
  BY DEF Linked
<1>3. emptyState.files = NoFiles /\ emptyState.gen = 0
  BY DEF emptyState
<1>4. Within(mem.files)' /\ Covered(mem.files, {}, mem.gen)'
  <2>1. CASE mem' = mem
    BY <1>2, <2>1 DEF Within, Covered, Settled
  <2>2. CASE mem' = emptyState
    BY <1>1, <1>3, <2>2 DEF Within, Covered, Settled
  <2> QED
    BY <2>1, <2>2
<1>5. Within(disk.files)' /\ Covered(disk.files, {}, disk.gen)'
  BY DEF Linked, Within, Covered, Settled
<1> QED
  BY <1>4, <1>5 DEF Linked, GenOrdered

\* With empty offsets and no tick there is nothing to account for.
LEMMA LinkedInit == Init => Linked
<1> SUFFICES ASSUME Init PROVE Linked
  OBVIOUS
<1>1. TypeOK
  BY TypeInit
<1>2. /\ \A f \in Files : mtime[f] = 0 => content[f] = <<>>
      /\ emptyState.files = NoFiles /\ emptyState.gen = 0
  BY DEF Init, emptyState
<1>3. Within(NoFiles) /\ Covered(NoFiles, {}, 0)
  BY <1>1, <1>2, NoFilesFits
<1> QED
  BY <1>2, <1>3 DEF Init, Linked, GenOrdered, TickAccounted

\* Every action but the installation of an older build preserves the links
\* between offsets, collection, requests and rows.
LEMMA LinkedStep ==
    ASSUME ~AllowRollback, TypeOK, TypeOK', Linked, [Next]_vars
    PROVE  Linked'
<1> USE ShippingAssumption
<1>1. ASSUME NEW f \in Files, NEW k \in Keys, AppendRecord(f, k) PROVE Linked'
  BY <1>1, AppendLinked
<1>2. ASSUME NEW f \in Files, DeleteFile(f) PROVE Linked'
  <2>1. TickAccounted'
    BY <1>2 DEF DeleteFile, tickVars, postVars, Linked, TickAccounted, Within, Covered, Settled
  <2> QED
    BY <1>2, <2>1, QuietLinked DEF DeleteFile, Linked, GenOrdered
<1>3. ASSUME NEW readable \in BOOLEAN, Start(readable) PROVE Linked'
  BY <1>3, StartLinked
<1>4. ASSUME NEW g \in 1 .. MaxGen, Deploy(g) PROVE Linked'
  <2>1. g > build /\ build \in Nat /\ disk.gen \in Nat /\ build' = g
    BY <1>4 DEF Deploy, TypeOK, State
  <2> QED
    BY <1>4, <2>1 DEF Deploy, envVars, tickVars, postVars, Linked, GenOrdered,
                      TickAccounted, Within, Covered, Settled
<1>5. ASSUME NEW failed \in SUBSET Sources, StartTick(failed) PROVE Linked'
  <2>1. TickAccounted'
    BY <1>5 DEF StartTick, envVars, postVars, Linked, GenOrdered, TickAccounted, Within,
                Covered, Settled
  <2> QED
    BY <1>5, <2>1, QuietLinked DEF StartTick, envVars, Linked, GenOrdered
<1>6. ASSUME NEW f \in Files, StatFile(f) PROVE Linked'
  <2>1. mtime[f] \in Nat /\ (cur' # NoFile => curMtime' <= mtime'[cur'])
    BY <1>6 DEF StatFile, envVars, TypeOK, Linked, TickAccounted
  <2>2. TickAccounted'
    BY <1>6, <2>1 DEF StatFile, envVars, postVars, Linked, TickAccounted, Within,
                      Covered, Settled
  <2> QED
    BY <1>6, <2>2, QuietLinked DEF StatFile, envVars, Linked, GenOrdered
<1>7. CASE ParseFile
  BY <1>7, ParseLinked
<1>8. CASE ParseFails
  <2>1. TickAccounted'
    BY <1>8 DEF ParseFails, envVars, postVars, Linked, TickAccounted, Within, Covered,
                Settled
  <2> QED
    BY <1>8, <2>1, QuietLinked DEF ParseFails, envVars, Linked, GenOrdered
<1>9. CASE EndScan
  <2>1. TickAccounted'
    BY <1>9 DEF EndScan, envVars, Linked, TickAccounted, Within, Covered, Settled
  <2> QED
    BY <1>9, <2>1, QuietLinked DEF EndScan, envVars, Linked, GenOrdered
<1>10. ASSUME NEW B \in SUBSET unsent, SendBatch(B) PROVE Linked'
  <2>1. TickAccounted'
    BY <1>10 DEF SendBatch, envVars, tickVars, Linked, TickAccounted, Within, Covered,
                 Settled
  <2> QED
    BY <1>10, <2>1, QuietLinked DEF SendBatch, envVars, Linked, GenOrdered
<1>11. CASE BatchAcked
  <2>1. rows \subseteq rows' /\ batch \subseteq rows' \cup Invalid
    BY <1>11 DEF BatchAcked, insertMany
  <2>2. TickAccounted'
    BY <1>11, <2>1 DEF BatchAcked, envVars, tickVars, Linked, TickAccounted, Within,
                       Covered, Settled
  <2> QED
    BY <1>11, <2>1, <2>2, QuietLinked DEF BatchAcked, envVars, Linked, GenOrdered
<1>12. CASE AttemptFails
  <2>1. CASE tries < Attempts /\ ~aborted
    <3>1. TickAccounted'
      BY <1>12, <2>1 DEF AttemptFails, envVars, tickVars, Linked, TickAccounted, Within,
                         Covered, Settled
    <3> QED
      BY <1>12, <2>1, <3>1, QuietLinked DEF AttemptFails, envVars, Linked, GenOrdered
  <2>2. CASE ~(tries < Attempts /\ ~aborted)
    <3>1. TickAccounted'
      BY <1>12, <2>2, AbandonLinked DEF AttemptFails, envVars
    <3> QED
      BY <1>12, <2>2, <3>1, QuietLinked DEF AttemptFails, envVars, Linked, GenOrdered
  <2> QED
    BY <2>1, <2>2
<1>13. CASE PostFails
  <2>1. TickAccounted'
    BY <1>13, AbandonLinked DEF PostFails, envVars
  <2> QED
    BY <1>13, <2>1, QuietLinked DEF PostFails, envVars, Linked, GenOrdered
<1>14. ASSUME NEW B \in wire, LateIngest(B) PROVE Linked'
  <2>1. rows \subseteq rows'
    BY <1>14 DEF LateIngest, insertMany
  <2>2. TickAccounted'
    BY <1>14, <2>1 DEF LateIngest, envVars, tickVars, postVars, Linked, TickAccounted,
                       Within, Covered, Settled
  <2> QED
    BY <1>14, <2>1, <2>2, QuietLinked DEF LateIngest, envVars, Linked, GenOrdered
<1>15. ASSUME NEW saved \in BOOLEAN, SaveState(saved) PROVE Linked'
  BY <1>15, SaveLinked
<1>16. CASE Sigterm
  <2>1. TickAccounted'
    BY <1>16 DEF Sigterm, envVars, tickVars, postVars, Linked, TickAccounted, Within,
                 Covered, Settled
  <2> QED
    BY <1>16, <2>1, QuietLinked DEF Sigterm, envVars, Linked, GenOrdered
<1>17. CASE Exit
  <2>1. TickAccounted'
    BY <1>17 DEF Exit, envVars, tickVars, postVars, Linked, TickAccounted, Within, Covered,
                 Settled
  <2> QED
    BY <1>17, <2>1, QuietLinked DEF Exit, envVars, Linked, GenOrdered
<1>18. CASE Crash
  <2>1. TickAccounted'
    BY <1>18, AbandonLinked DEF Crash, envVars
  <2> QED
    BY <1>18, <2>1, QuietLinked DEF Crash, envVars, Linked, GenOrdered
<1>19. CASE UNCHANGED vars
  BY <1>19 DEF vars, Linked, GenOrdered, TickAccounted, Within, Covered, Settled
<1> QED
  BY <1>1, <1>2, <1>3, <1>4, <1>5, <1>6, <1>7, <1>8, <1>9, <1>10, <1>11, <1>12, <1>13,
     <1>14, <1>15, <1>16, <1>17, <1>18, <1>19 DEF Next

\* IInv is inductive as long as no older build is installed.
THEOREM LinkedCorrect ==
    ASSUME ~AllowRollback
    PROVE  Spec => []IInv
<1>1. Init => TypeOK /\ Linked
  BY TypeInit, LinkedInit
<1>2. (TypeOK /\ Linked) /\ [Next]_vars => (TypeOK /\ Linked)'
  BY TypeStep, LinkedStep
<1>3. TypeOK /\ Linked => IInv
  BY DEF Linked, IInv
<1> QED
  BY <1>1, <1>2, <1>3, PTL DEF Spec

\* No offset, saved or held, is ever past a record the server still lacks.
THEOREM OffsetsCorrect ==
    ASSUME ~AllowRollback
    PROVE  Spec => []OffsetsCovered
<1>1. IInv => OffsetsCovered
  BY DEF IInv, Covered, OffsetsCovered
<1> QED
  BY <1>1, LinkedCorrect, PTL

\* No record is ever hidden from the tick behind a current mtime.
THEOREM HiddenCorrect ==
    ASSUME ~AllowRollback
    PROVE  Spec => []NothingHidden
<1>1. IInv => NothingHidden
  <2> SUFFICES ASSUME IInv, NEW st \in {disk, mem}, NEW f \in onDisk,
                      st.files[f].mtime >= mtime[f]
               PROVE  st.files[f].offset = Len(content[f])
    BY DEF NothingHidden
  <2>1. f \in Files /\ st.files[f] \in FileState /\ mtime[f] \in Nat
    BY DEF IInv, TypeOK, State
  <2>2. st.files[f].mtime <= mtime[f] /\ st.files[f].mtime \in Nat
    BY <2>1 DEF IInv, Within, FileState
  <2> QED
    BY <2>1, <2>2 DEF IInv, Within
<1> QED
  BY <1>1, LinkedCorrect, PTL

-----------------------------------------------------------------------------
(* The refinement of the ledger.  Unlike IInv it needs no assumption on     *)
(* which builds are installed.                                              *)

\* The records of one log.
Records(f) == {content[f][i] : i \in 1 .. Len(content[f])}

\* The records some surviving log holds.
Held == UNION {Records(f) : f \in onDisk}

\* The records a tick may have in hand or on the wire: written by a tool, and
\* parsed by a build there is.
Sendable == {k \in Logged : MinGen[k] <= MaxGen}

\* Whatever a tick collected or sent was logged.
SentInv ==
    /\ TypeOK
    /\ collected \subseteq Sendable
    /\ unsent \subseteq Sendable
    /\ batch \subseteq Sendable
    /\ \A w \in wire : w \subseteq Sendable

\* An append adds its record to what was logged and to what is on disk, where
\* the log, if it was not there, had none before.
LEMMA AppendLogs ==
    ASSUME TypeOK, NEW f \in Files, NEW k \in Keys, AppendRecord(f, k)
    PROVE  /\ Logged' = Logged \cup {k}
           /\ Held' = Held \cup {k}
<1>1. content \in [Files -> Seq(Keys)] /\ onDisk \subseteq Files
  BY DEF TypeOK
<1>2. /\ content' = [content EXCEPT ![f] = Append(@, k)]
      /\ onDisk' = onDisk \cup {f}
      /\ f \in onDisk \/ content[f] = <<>>
  BY DEF AppendRecord
<1>3. Records(f)' = Records(f) \cup {k}
  <2>1. content[f] \in Seq(Keys) /\ content'[f] = Append(content[f], k)
    BY <1>1, <1>2
  <2>2. ASSUME NEW s \in Seq(Keys)
        PROVE  {Append(s, k)[i] : i \in 1 .. Len(Append(s, k))}
                 = {s[i] : i \in 1 .. Len(s)} \cup {k}
    <3>1. Len(s) \in Nat /\ Len(Append(s, k)) = Len(s) + 1
      OBVIOUS
    <3>2. \A i \in 1 .. Len(s) : Append(s, k)[i] = s[i]
      OBVIOUS
    <3>3. Append(s, k)[Len(s) + 1] = k
      OBVIOUS
    <3>4. 1 .. (Len(s) + 1) = (1 .. Len(s)) \cup {Len(s) + 1}
      BY <3>1
    <3> QED
      BY <3>1, <3>2, <3>3, <3>4
  <2> QED
    BY <2>1, <2>2 DEF Records
<1>4. ASSUME NEW g \in Files, g # f PROVE Records(g)' = Records(g)
  BY <1>1, <1>2, <1>4 DEF Records
<1>5. content[f] = <<>> => Records(f) = {}
  BY DEF Records
<1>6. Logged = UNION {Records(g) : g \in Files} /\ Logged' = UNION {Records(g)' : g \in Files}
  BY DEF Logged, Records
<1>7. Logged' = Logged \cup {k}
  BY <1>3, <1>4, <1>6
<1>8. Held' = Held \cup {k}
  <2>1. Held' = UNION {Records(g)' : g \in onDisk \cup {f}}
    BY <1>2 DEF Held, Records
  <2>2. \A g \in onDisk : g # f => Records(g)' = Records(g)
    BY <1>1, <1>4
  <2>3. f \in onDisk \/ Records(f) = {}
    BY <1>2, <1>5
  <2>4. ASSUME NEW x
        PROVE  (\E g \in onDisk \cup {f} : x \in Records(g)')
                 <=> (\E g \in onDisk : x \in Records(g)) \/ x = k
    <3>1. CASE f \in onDisk
      BY <1>3, <2>2, <3>1
    <3>2. CASE f \notin onDisk
      BY <1>3, <2>2, <2>3, <3>2
    <3> QED
      BY <3>1, <3>2
  <2> QED
    BY <2>1, <2>4 DEF Held
<1> QED
  BY <1>7, <1>8

\* What the parser emits was logged, and is parsed by the build installed.
LEMMA EmittedSendable ==
    ASSUME ShippingAssumption, TypeOK, NEW f \in Files
    PROVE  Emitted(f) \subseteq Sendable
<1>1. /\ content[f] \in Seq(Keys) /\ mem.files[f].offset \in Nat
      /\ build \in Int /\ build <= MaxGen /\ MaxGen \in Nat
  BY DEF TypeOK, State, FileState, ShippingAssumption
<1>2. Unread(f) \subseteq Logged
  <2>1. \A i \in (mem.files[f].offset + 1) .. Len(content[f]) : i \in 1 .. Len(content[f])
    BY <1>1
  <2> QED
    BY <2>1 DEF Unread, Logged
<1>3. \A k \in Unread(f) : k \in Keys
  <2>1. \A i \in 1 .. Len(content[f]) : content[f][i] \in Keys
    BY <1>1
  <2>2. \A i \in (mem.files[f].offset + 1) .. Len(content[f]) : i \in 1 .. Len(content[f])
    BY <1>1
  <2> QED
    BY <2>1, <2>2 DEF Unread
<1>4. \A k \in Keys : MinGen[k] \in Nat
  BY DEF ShippingAssumption
<1> QED
  BY <1>1, <1>2, <1>3, <1>4 DEF Emitted, Sendable

\* Nothing comes into a tick's hands, or onto the wire, but through a parse.
LEMMA SentStep ==
    ASSUME ShippingAssumption, SentInv, [Next]_vars
    PROVE  SentInv'
<1>1. TypeOK'
  BY TypeStep DEF SentInv
<1>2. TypeOK
  BY DEF SentInv
<1>3. CASE \E f \in Files, k \in Keys : AppendRecord(f, k)
  <2>1. PICK f \in Files, k \in Keys : AppendRecord(f, k)
    BY <1>3
  <2>2. Logged \subseteq Logged'
    BY <1>2, <2>1, AppendLogs
  <2>3. Sendable \subseteq Sendable'
    BY <2>2 DEF Sendable
  <2>4. UNCHANGED <<collected, unsent, batch, wire>>
    BY <2>1 DEF AppendRecord, tickVars, postVars
  <2> QED
    BY <1>1, <2>3, <2>4 DEF SentInv
<1>4. CASE UNCHANGED content
  <2>1. Sendable' = Sendable
    BY <1>4 DEF Sendable, Logged
  <2>2. ASSUME NEW w \in Abandoned PROVE \A B \in w : B \subseteq Sendable
    BY DEF SentInv, Abandoned
  <2>3. ASSUME AbandonTick
        PROVE  collected' = {} /\ unsent' = {} /\ batch' = {}
    BY <2>3 DEF AbandonTick
  <2>4. CASE UNCHANGED <<collected, unsent, batch, wire>>
    BY <1>1, <2>1, <2>4 DEF SentInv
  <2>5. CASE ParseFile
    <3>1. UNCHANGED <<unsent, batch, wire>> /\ collected' \subseteq Sendable
      BY <1>2, <2>5, EmittedSendable DEF ParseFile, postVars, SentInv, TypeOK
    <3> QED
      BY <1>1, <2>1, <3>1 DEF SentInv
  <2>6. CASE \E failed \in SUBSET Sources : StartTick(failed)
    BY <1>1, <2>1, <2>6 DEF StartTick, postVars, SentInv
  <2>7. CASE EndScan
    BY <1>1, <2>1, <2>7 DEF EndScan, SentInv
  <2>8. CASE \E B \in SUBSET unsent : SendBatch(B)
    BY <1>1, <2>1, <2>8 DEF SendBatch, tickVars, SentInv
  <2>9. CASE BatchAcked
    BY <1>1, <2>1, <2>9 DEF BatchAcked, tickVars, SentInv
  <2>10. CASE AttemptFails
    <3>1. \A w \in wire' : w \subseteq Sendable
      BY <2>2, <2>10 DEF AttemptFails
    <3>2. UNCHANGED <<collected, unsent, batch>> \/ AbandonTick
      BY <2>10 DEF AttemptFails, tickVars
    <3> QED
      BY <1>1, <2>1, <2>3, <3>1, <3>2 DEF SentInv
  <2>11. CASE PostFails
    BY <1>1, <2>1, <2>3, <2>11 DEF PostFails, SentInv
  <2>12. CASE \E B \in wire : LateIngest(B)
    BY <1>1, <2>1, <2>12 DEF LateIngest, tickVars, postVars, SentInv
  <2>13. CASE \E saved \in BOOLEAN : SaveState(saved)
    BY <1>1, <2>1, <2>3, <2>13 DEF SaveState, SentInv
  <2>14. CASE Crash
    <3>1. \A w \in wire' : w \subseteq Sendable
      BY <2>2, <2>14 DEF Crash, SentInv
    <3> QED
      BY <1>1, <2>1, <2>3, <2>14, <3>1 DEF Crash, SentInv
  <2>15. CASE \E f \in Files : DeleteFile(f)
    BY <2>4, <2>15 DEF DeleteFile, tickVars, postVars
  <2>16. CASE \E readable \in BOOLEAN : Start(readable)
    BY <2>4, <2>16 DEF Start, tickVars, postVars
  <2>17. CASE \E g \in 1 .. MaxGen : Deploy(g)
    BY <2>4, <2>17 DEF Deploy, tickVars, postVars
  <2>18. CASE \E f \in Files : StatFile(f)
    BY <2>4, <2>18 DEF StatFile, postVars
  <2>19. CASE ParseFails
    BY <2>4, <2>19 DEF ParseFails, postVars
  <2>20. CASE Sigterm \/ Exit
    BY <2>4, <2>20 DEF Sigterm, Exit, tickVars, postVars
  <2>21. CASE UNCHANGED vars
    BY <2>4, <2>21 DEF vars
  <2>22. CASE \E f \in Files, k \in Keys : AppendRecord(f, k)
    BY <1>3, <2>22
  <2> QED
    BY <2>5, <2>6, <2>7, <2>8, <2>9, <2>10, <2>11, <2>12, <2>13, <2>14, <2>15, <2>16,
       <2>17, <2>18, <2>19, <2>20, <2>21, <2>22 DEF Next
<1>5. (\E f \in Files, k \in Keys : AppendRecord(f, k)) \/ UNCHANGED content
  BY DEF Next, DeleteFile, Start, Deploy, StartTick, StatFile, ParseFile, ParseFails,
         EndScan, SendBatch, BatchAcked, AttemptFails, PostFails, LateIngest, SaveState,
         Sigterm, Exit, Crash, envVars, vars
<1> QED
  BY <1>3, <1>4, <1>5

\* Each step of the daemon, the tools or the network is a step of the ledger or
\* leaves it alone.
LEMMA LedgerStep ==
    ASSUME ShippingAssumption, SentInv, [Next]_vars
    PROVE  [L!LedgerNext]_L!ledgerVars
<1> DEFINE ok == {k \in Keys \ Invalid : MinGen[k] <= MaxGen}
<1>1. Held = UNION {{content[f][i] : i \in 1 .. Len(content[f])} : f \in onDisk}
  BY DEF Held, Records
<1>2. Held' = UNION {{content'[f][i] : i \in 1 .. Len(content'[f])} : f \in onDisk'}
  BY DEF Held, Records
<1>3. \A f \in Files : Records(f) \subseteq Keys
  BY DEF SentInv, TypeOK, Records
<1>4. ASSUME NEW f \in Files, NEW k \in Keys, AppendRecord(f, k)
      PROVE  L!LedgerNext
  <2>1. Logged' = Logged \cup {k} /\ Held' = Held \cup {k}
    BY <1>4, AppendLogs DEF SentInv
  <2>2. rows' = rows
    BY <1>4 DEF AppendRecord
  <2>3. L!Log(k)
    BY <1>1, <1>2, <2>1, <2>2 DEF L!Log
  <2> QED
    BY <2>3 DEF L!LedgerNext
<1>5. ASSUME NEW f \in Files, DeleteFile(f)
      PROVE  L!LedgerNext
  <2>1. UNCHANGED <<content, rows>> /\ onDisk' = onDisk \ {f} /\ onDisk \subseteq Files
    BY <1>5 DEF DeleteFile, SentInv, TypeOK
  <2>2. Logged' = Logged
    BY <2>1 DEF Logged
  <2>3. Held' \subseteq Held
    BY <2>1 DEF Held, Records
  <2>4. Held \ Held' \in SUBSET Keys
    BY <1>3, <2>1 DEF Held
  <2>5. PICK K \in SUBSET Keys : K \subseteq Held /\ Held' = Held \ K
    BY <2>3, <2>4
  <2>6. L!Forget(K)
    BY <1>1, <1>2, <2>1, <2>2, <2>5 DEF L!Forget
  <2> QED
    BY <2>6 DEF L!LedgerNext
<1>6. ASSUME UNCHANGED <<content, onDisk>>, NEW B, B \subseteq Sendable,
             rows' = insertMany(B)
      PROVE  L!LedgerNext
  <2> DEFINE K == B \ Invalid
  <2>1. Logged' = Logged /\ Held' = Held
    BY <1>6 DEF Logged, Held, Records
  <2>2. Sendable \subseteq Logged /\ Logged \subseteq Keys
    BY <1>3 DEF Sendable, Logged, Records
  <2>3. K \in SUBSET Keys /\ K \subseteq Logged \cap ok /\ rows' = rows \cup K
    BY <1>6, <2>2 DEF Sendable, insertMany
  <2> HIDE DEF K, ok
  <2>4. L!Count(K)
    BY <1>1, <1>2, <2>1, <2>3 DEF L!Count, ok
  <2> QED
    BY <2>3, <2>4 DEF L!LedgerNext
<1>7. CASE BatchAcked
  <2>1. batch \subseteq Sendable /\ rows' = insertMany(batch)
    BY <1>7 DEF BatchAcked, SentInv
  <2> QED
    BY <1>6, <1>7, <2>1 DEF BatchAcked, envVars
<1>8. ASSUME NEW B \in wire, LateIngest(B) PROVE L!LedgerNext
  <2>1. B \subseteq Sendable /\ rows' = insertMany(B)
    BY <1>8 DEF LateIngest, SentInv
  <2> QED
    BY <1>6, <1>8, <2>1 DEF LateIngest, envVars
<1>9. CASE UNCHANGED <<content, onDisk, rows>>
  BY <1>9 DEF L!ledgerVars, Logged
<1>10. \/ \E f \in Files, k \in Keys : AppendRecord(f, k)
       \/ \E f \in Files : DeleteFile(f)
       \/ BatchAcked
       \/ \E B \in wire : LateIngest(B)
       \/ UNCHANGED <<content, onDisk, rows>>
  BY DEF Next, Start, Deploy, StartTick, StatFile, ParseFile, ParseFails,
         EndScan, SendBatch, AttemptFails, PostFails, SaveState, Sigterm, Exit, Crash,
         envVars, vars
<1> QED
  BY <1>4, <1>5, <1>7, <1>8, <1>9, <1>10

\* Shipping implements the ledger: only logged records are counted, each once
\* however often it is sent, and nothing is ever un-counted.
THEOREM LedgerCorrect == Spec => RefinesLedger
<1> USE ShippingAssumption
<1>1. Init => SentInv
  BY TypeInit DEF Init, SentInv
<1>2. Init => L!LedgerInit
  <2>1. Init => Logged = {}
    BY DEF Init, Logged
  <2> QED
    BY <2>1 DEF Init, L!LedgerInit
<1>3. SentInv /\ [Next]_vars => SentInv'
  BY SentStep
<1>4. SentInv /\ [Next]_vars => [L!LedgerNext]_L!ledgerVars
  BY LedgerStep
<1> QED
  BY <1>1, <1>2, <1>3, <1>4, PTL DEF Spec, RefinesLedger, L!LedgerSpec

-----------------------------------------------------------------------------
(***************************************************************************)
(* One line of a Codex rollout (Codex), whatever Codex wrote before it: a  *)
(* read that has got to it bills the call it is of exactly, and has got to *)
(* the next.  The constants and variables are those of the module.         *)
(***************************************************************************)
CONSTANTS Models, LEGACY_FALLBACK_MODEL, Usages, MAX_READ_BYTES, PeekMax, PeekWindow,
          OtherLengths, TornKinds, MaxLines, MaxMishaps

VARIABLES log, writing, file, ledger, mishaps

Log == INSTANCE Codex

\* What one line of a rollout makes of the counters, given the line before it (a blank
\* one before the first).
LineBefore(R, n) == IF n = 1 THEN Log!BlankLine ELSE R[n - 1]

\* The lines a fork is seeded with have the time 0.
Copied(line) == line.ts = 0

Plain(prev, line) ==
    /\ line.kind # "token_count"
    /\ line.total = prev.total /\ line.cum = << >> /\ line.real = Log!Nothing
    /\ line.reset = "no"
    /\ line.kind = "session_meta" => Copied(line) /\ line.forked

\* Which counters start over: none, the written tokens alone, or all.
Fresh(how, b) == how = "all" \/ (how = "written" /\ b = "write")

CallOf(prev, line, u, how) ==
    /\ line.kind = "token_count" /\ line.model = Log!NoModel /\ line.real = u
    /\ line.total = [b \in Log!Buckets |-> IF Fresh(how, b) THEN u[b] ELSE prev.total[b] + u[b]]
    /\ line.last \in {<< >>, <<u>>} /\ line.cum \in {<< >>, <<line.total>>}
    /\ line.last # << >> \/ line.cum # << >>
    /\ how # "none" \/ line.reset = "unseen" => line.cum # << >>
    /\ line.reset # "unseen" /\ how # "none" =>
          IF line.last # << >>
            THEN \E b \in Log!Buckets \ {"write"} : line.total[b] # prev.total[b]
            ELSE \/ how = "written" /\ line.total["write"] < prev.total["write"]
                 \/ \E b \in Log!Buckets \ {"write"} : line.total[b] < prev.total[b]

Call(prev, line) ==
    \E u \in Usages, how \in {"none", "written", "all"} : CallOf(prev, line, u, how)

Replay(prev, line) ==
    /\ line.kind = "token_count" /\ line.model = Log!NoModel /\ line.real = Log!Nothing
    /\ line.cum = <<line.total>> /\ line.last # << >>
    /\ line.total = prev.total

CopiedCall(prev, line) ==
    /\ line.kind = "token_count" /\ line.model = Log!NoModel /\ line.real = Log!Nothing
    /\ prev.total = Log!Nothing
    /\ \E u \in Usages : line.last = <<u>> /\ line.cum = <<u>> /\ line.total = u

LineOK(prev, line) ==
    /\ line.total \in Log!Usage /\ line.ts \in Nat /\ line.model \in Models \cup {Log!NoModel}
    /\ line.ts >= prev.ts
    /\ Copied(line) => Plain(prev, line) \/ CopiedCall(prev, line)
    /\ ~Copied(line) => /\ prev.ts + 1 < line.ts \/ (~Copied(prev) /\ line.kind = "prompt")
                        /\ line.kind # "session_meta"
                        /\ Plain(prev, line) \/ Call(prev, line) \/ Replay(prev, line)

\* Does the log up to n hold a counter, is the last one of a reset that no counter showed,
\* and which line named the model?
Counters(R, n) == \E k \in 1 .. n : R[k].cum # << >>
Unnoted(R, n) ==
    \E k \in 1 .. n : R[k].reset = "unseen" /\ \A j \in k + 1 .. n : R[j].kind # "token_count"
Names(line) == line.kind = "turn_context" /\ line.model # Log!NoModel
LastNaming(R, k, n) == k \in 1 .. n /\ Names(R[k]) /\ \A j \in k + 1 .. n : ~Names(R[j])

\* A line that may follow the first m lines of R.
Follows(R, m, line) ==
    /\ LineOK(LineBefore(R, m + 1), line)
    /\ line.kind = "token_count" /\ line.real = Log!Nothing /\ ~Copied(line) =>
          Counters(R, m) /\ (Unnoted(R, m) => line.reset = "unseen")
    /\ line.kind = "token_count" =>
          line.cum = <<line.total>> \/ (line.cum = << >> /\ ~Counters(R, m))
    /\ line.reset = "unseen" => line.kind = "token_count" /\ line.cum # << >>

LogOK(R) ==
    /\ R \in Seq(Log!LineType)
    /\ \A n \in DOMAIN R :
         /\ Follows(R, n - 1, R[n])
         /\ R[n].kind = "session_meta" <=> n = 1 /\ Copied(R[n])
         /\ (\A k \in n + 1 .. Len(R) : R[k].kind # "token_count") => R[n].total = R[Len(R)].total
    /\ R # << >> /\ Copied(R[Len(R)]) => R[Len(R)].kind # "prompt"

\* A line Codex may be writing.
NextOK(R, line) == line \in Log!LineType /\ Follows(R, Len(R), line) /\ ~Copied(line)

RolloutInv ==
    /\ LogOK(log)
    /\ writing = << >> \/ \E line \in Log!LineType : writing = <<line>> /\ NextOK(log, line)

\* A read that has got to line n of R.
Row == [id : {"assistant", "user"} \X Nat \X Nat, usage : Log!Usage,
        model : Models \cup {LEGACY_FALLBACK_MODEL, Log!lookAheadFirstTurnModel}]
ReadState ==
    [offset : Nat, totals : Log!Usage, seenCumulative : BOOLEAN,
     model : Models \cup {Log!NoModel, Log!lookAheadFirstTurnModel}, peeked : BOOLEAN,
     seedActive : BOOLEAN, prevLineTs : Int, lastTs : Int, ixForTs : Nat, events : Seq(Row)]

At(R, n, st) ==
    /\ st \in ReadState
    /\ \A b \in Log!Buckets :
          b # "write" \/ ~Unnoted(R, n - 1) => st.totals[b] = LineBefore(R, n).total[b]
    /\ Counters(R, n - 1) => st.seenCumulative
    /\ \A k \in 1 .. n - 1 : LastNaming(R, k, n - 1) => st.model = R[k].model
    /\ st.lastTs <= LineBefore(R, n).ts
    /\ st.seedActive <=> n > 1 /\ st.prevLineTs = 0 /\ Copied(R[n - 1])
    /\ st.prevLineTs \in {-1, LineBefore(R, n).ts}
    /\ st.prevLineTs = -1 => n = 1 \/ n > Len(R) \/ ~Copied(R[n])

\* One event more, which carries the model of the last turn, if one is known.
EmittedRow(st, s, line, type, usage) ==
    /\ s \in ReadState
    /\ s.totals = st.totals /\ s.lastTs = line.ts /\ s.prevLineTs = st.prevLineTs
    /\ (s.seenCumulative <=> st.seenCumulative) /\ (s.seedActive <=> st.seedActive)
    /\ st.model # Log!NoModel => s.model = st.model
    /\ \E row \in Row : /\ s.events = Append(st.events, row)
                        /\ row.id[1] = type
                        /\ line.ts # st.lastTs => row.id = <<type, line.ts, 0>>
                        /\ row.usage = usage
                        /\ st.model # Log!NoModel => row.model = st.model

\* What a read makes of a line: a call is billed as the API did.
Exact(R, n, st, s) ==
    LET line == R[n]
    IN  CASE line.kind = "token_count" /\ line.real # Log!Nothing ->
               LET new(row) ==
                     /\ s.events = Append(st.events, row)
                     /\ row.id = <<"assistant", line.ts, 0>>
                     /\ \A k \in 1 .. n : LastNaming(R, k, n) => row.model = R[k].model
                     /\ line.reset # "unseen" =>
                           /\ Log!Whole(row.usage) = Log!Whole(Log!Split(line.real))
                           /\ ~Unnoted(R, n - 1) => row.usage = Log!Split(line.real)
               IN  (\E row \in Row : new(row)) \/ (line.reset = "unseen" /\ s.events = st.events)
          [] line.kind = "prompt" ->
               \/ s.events = st.events
               \/ \E row \in Row : row.id[1] = "user" /\ s.events = Append(st.events, row)
          [] OTHER -> s.events = st.events
-----------------------------------------------------------------------------
\* The counters of a call, and what CodexAssumption says of them.
LEMMA BucketForm ==
    ASSUME Log!CodexAssumption
    PROVE  /\ Log!Buckets = {"input", "cached", "write", "output"}
           /\ Log!Nothing \in Log!Usage /\ \A b \in Log!Buckets : Log!Nothing[b] = 0
           /\ \A u \in Usages : u \in Log!Usage /\ u["cached"] + u["write"] <= u["input"] /\ u["input"] > 0
BY DEF Log!Buckets, Log!Nothing, Log!Usage, Log!CodexAssumption

\* The blank line that stands before the first one.
LEMMA BlankForm ==
    ASSUME Log!CodexAssumption
    PROVE  /\ Log!BlankLine \in Log!LineType /\ Log!BlankLine.kind = "other" /\ Log!BlankLine.ts = 0
           /\ Log!BlankLine.model = Log!NoModel /\ Log!BlankLine.total = Log!Nothing /\ Log!BlankLine.cum = << >>
           /\ Log!BlankLine.real = Log!Nothing
BY BucketForm DEF Log!BlankLine, Log!LineType

\* How the steps of a line change the state of a read.
WithSeed(st, b, t) == [st EXCEPT !.seedActive = b, !.prevLineTs = t]
WithStamp(st, t, ix) == [st EXCEPT !.lastTs = t, !.ixForTs = ix]

\* What a write to the seed fields leaves alone.
LEMMA SetSeed ==
    ASSUME NEW st \in ReadState, NEW b \in BOOLEAN, NEW t \in Int,
           NEW s, s = WithSeed(st, b, t)
    PROVE  /\ s \in ReadState
           /\ s.totals = st.totals /\ s.model = st.model /\ s.lastTs = st.lastTs
           /\ s.ixForTs = st.ixForTs /\ s.events = st.events /\ s.prevLineTs = t
           /\ (s.seenCumulative <=> st.seenCumulative) /\ (s.seedActive <=> b)
<1>1. /\ s \in ReadState
      /\ s.totals = st.totals /\ s.model = st.model /\ s.lastTs = st.lastTs
      /\ s.ixForTs = st.ixForTs /\ s.events = st.events /\ s.prevLineTs = t
  BY DEF ReadState, WithSeed
<1>2. s.seenCumulative <=> st.seenCumulative
  BY DEF ReadState, WithSeed
<1>3. s.seedActive <=> b
  BY DEF ReadState, WithSeed
<1> QED BY <1>1, <1>2, <1>3

\* The seed ends at the first gap of over a second, and nothing else changes.
LEMMA TrackedForm ==
    ASSUME NEW st \in ReadState, NEW line, line.ts \in Nat, NEW s, s = Log!SeedTracked(st, line)
    PROVE  /\ s \in ReadState
           /\ s.totals = st.totals /\ s.model = st.model /\ s.lastTs = st.lastTs
           /\ s.ixForTs = st.ixForTs /\ s.events = st.events /\ s.prevLineTs = line.ts
           /\ (s.seenCumulative <=> st.seenCumulative)
           /\ (s.seedActive <=>
                 st.seedActive /\ ~(st.prevLineTs >= 0 /\ line.ts - st.prevLineTs > 1))
<1> DEFINE gone == st.prevLineTs >= 0 /\ line.ts - st.prevLineTs > 1
           b == st.seedActive /\ ~gone
<1>1. b \in BOOLEAN /\ line.ts \in Int
  OBVIOUS
<1>2. s = WithSeed(st, b, line.ts)
  BY DEF Log!SeedTracked, WithSeed
<1>3. b <=> st.seedActive /\ ~gone
  OBVIOUS
<1> HIDE DEF b
<1>4. /\ s \in ReadState
      /\ s.totals = st.totals /\ s.model = st.model /\ s.lastTs = st.lastTs
      /\ s.ixForTs = st.ixForTs /\ s.events = st.events /\ s.prevLineTs = line.ts
      /\ (s.seenCumulative <=> st.seenCumulative) /\ (s.seedActive <=> b)
  BY <1>1, <1>2, SetSeed
<1> QED BY <1>3, <1>4

\* A line of counters moves the totals: to the counter, or on by the delta.
LEMMA CountedForm ==
    ASSUME NEW st \in ReadState, NEW line, NEW d, NEW s, s = Log!Counted(st, line, d),
           line.cum # << >> => line.cum[1] \in Log!Usage,
           line.cum = << >> => Log!Plus(st.totals, d) \in Log!Usage
    PROVE  /\ s \in ReadState
           /\ s.totals = IF line.cum # << >> THEN line.cum[1] ELSE Log!Plus(st.totals, d)
           /\ s.model = st.model /\ s.lastTs = st.lastTs /\ s.prevLineTs = st.prevLineTs
           /\ s.ixForTs = st.ixForTs /\ s.events = st.events
           /\ (st.seenCumulative \/ line.cum # << >> => s.seenCumulative)
           /\ (s.seedActive <=> st.seedActive)
<1>1. /\ s \in ReadState
      /\ s.totals = IF line.cum # << >> THEN line.cum[1] ELSE Log!Plus(st.totals, d)
      /\ s.model = st.model /\ s.lastTs = st.lastTs /\ s.prevLineTs = st.prevLineTs
      /\ s.ixForTs = st.ixForTs /\ s.events = st.events
  BY DEF Log!Counted, ReadState
<1>2. st.seenCumulative \/ line.cum # << >> => s.seenCumulative
  BY DEF Log!Counted, ReadState
<1>3. s.seedActive <=> st.seedActive
  BY DEF Log!Counted, ReadState
<1> QED BY <1>1, <1>2, <1>3

\* What a write to the timestamp fields leaves alone.
LEMMA SetStamp ==
    ASSUME NEW st \in ReadState, NEW t \in Int, NEW ix \in Nat,
           NEW s, s = WithStamp(st, t, ix)
    PROVE  /\ s \in ReadState
           /\ s.totals = st.totals /\ s.model = st.model /\ s.lastTs = t
           /\ s.ixForTs = ix /\ s.events = st.events /\ s.prevLineTs = st.prevLineTs
           /\ (s.seenCumulative <=> st.seenCumulative) /\ (s.seedActive <=> st.seedActive)
<1>1. /\ s \in ReadState
      /\ s.totals = st.totals /\ s.model = st.model /\ s.lastTs = t
      /\ s.ixForTs = ix /\ s.events = st.events /\ s.prevLineTs = st.prevLineTs
  BY DEF ReadState, WithStamp
<1>2. s.seenCumulative <=> st.seenCumulative
  BY DEF ReadState, WithStamp
<1>3. s.seedActive <=> st.seedActive
  BY DEF ReadState, WithStamp
<1> QED BY <1>1, <1>2, <1>3

\* A line without a model names none.
LEMMA NamedForm ==
    ASSUME NEW st \in ReadState, NEW line, line.model = Log!NoModel
    PROVE  Log!Named(st, line) = st
BY DEF Log!Named

\* Emit appends one event, numbered 0 when its time is new, under the last model named.
LEMMA EmitForm ==
    ASSUME NEW st \in ReadState, NEW line, line.ts \in Nat,
           NEW type \in {"assistant", "user"}, NEW usage \in Log!Usage,
           NEW s, s = Log!Emit(st, line, type, usage)
    PROVE  EmittedRow(st, s, line, type, usage)
<1> DEFINE a == Log!Stamped(st, line)
           r == Log!resolveModel(a)
           row == [id |-> <<type, line.ts, r.ixForTs>>, usage |-> usage,
                   model |-> IF r.model = Log!NoModel THEN LEGACY_FALLBACK_MODEL ELSE r.model]
<1>1. /\ a \in ReadState /\ a.totals = st.totals /\ a.lastTs = line.ts
      /\ a.prevLineTs = st.prevLineTs /\ a.model = st.model /\ a.events = st.events
      /\ line.ts # st.lastTs => a.ixForTs = 0
      /\ (a.seenCumulative <=> st.seenCumulative) /\ (a.seedActive <=> st.seedActive)
  <2> DEFINE ix == IF line.ts = st.lastTs THEN st.ixForTs + 1 ELSE 0
  <2>1. ix \in Nat /\ line.ts \in Int /\ (line.ts # st.lastTs => ix = 0)
    BY DEF ReadState
  <2>2. a = WithStamp(st, line.ts, ix)
    BY DEF Log!Stamped, WithStamp
  <2> HIDE DEF a, ix
  <2> QED BY <2>1, <2>2, SetStamp
<1> HIDE DEF a
<1>3. /\ r \in ReadState /\ r.totals = a.totals /\ r.lastTs = a.lastTs
      /\ r.prevLineTs = a.prevLineTs /\ r.events = a.events /\ r.ixForTs = a.ixForTs
      /\ a.model # Log!NoModel => r.model = a.model
  BY <1>1 DEF Log!resolveModel, ReadState
<1>4. (r.seenCumulative <=> a.seenCumulative) /\ (r.seedActive <=> a.seedActive)
  <2>1. r.seenCumulative <=> a.seenCumulative
    BY <1>1 DEF Log!resolveModel, ReadState
  <2>2. r.seedActive <=> a.seedActive
    BY <1>1 DEF Log!resolveModel, ReadState
  <2> QED BY <2>1, <2>2
<1> HIDE DEF r
<1>5. /\ row \in Row /\ row.id[1] = type /\ row.usage = usage
      /\ line.ts # st.lastTs => row.id = <<type, line.ts, 0>>
      /\ st.model # Log!NoModel => row.model = st.model
  BY <1>1, <1>3 DEF Row, ReadState
<1>6. s = [r EXCEPT !.events = Append(@, row)]
  BY DEF Log!Emit, Log!EmitStamped, a, r
<1> HIDE DEF row
<1>7. Append(r.events, row) \in Seq(Row)
  BY <1>3, <1>5 DEF ReadState
<1>8. /\ s \in ReadState /\ s.totals = r.totals /\ s.lastTs = r.lastTs
      /\ s.prevLineTs = r.prevLineTs /\ s.events = Append(r.events, row) /\ s.model = r.model
  BY <1>3, <1>6, <1>7 DEF ReadState
<1>9. (s.seenCumulative <=> r.seenCumulative) /\ (s.seedActive <=> r.seedActive)
  <2>1. s.seenCumulative <=> r.seenCumulative
    BY <1>3, <1>6 DEF ReadState
  <2>2. s.seedActive <=> r.seedActive
    BY <1>3, <1>6 DEF ReadState
  <2> QED BY <2>1, <2>2
<1>10. \E e \in Row : /\ s.events = Append(st.events, e)
                      /\ e.id[1] = type
                      /\ line.ts # st.lastTs => e.id = <<type, line.ts, 0>>
                      /\ e.usage = usage
                      /\ st.model # Log!NoModel => e.model = st.model
  BY <1>1, <1>3, <1>5, <1>8
<1>11. /\ s.totals = st.totals /\ s.lastTs = line.ts /\ s.prevLineTs = st.prevLineTs
       /\ st.model # Log!NoModel => s.model = st.model
  BY <1>1, <1>3, <1>8
<1>12. (s.seenCumulative <=> st.seenCumulative) /\ (s.seedActive <=> st.seedActive)
  BY <1>1, <1>4, <1>9
<1> QED BY <1>8, <1>10, <1>11, <1>12 DEF EmittedRow
-----------------------------------------------------------------------------
(* What a call used.                                                       *)

\* Min of a pair.
LEMMA MinOf ==
    ASSUME NEW a \in Int, NEW b \in Int
    PROVE  Log!Min({a, b}) = IF a <= b THEN a ELSE b
<1> DEFINE m == IF a <= b THEN a ELSE b
<1>1. m \in {a, b} /\ \A y \in {a, b} : m <= y
  OBVIOUS
<1>2. \A x \in {a, b} : (\A y \in {a, b} : x <= y) => x = m
  OBVIOUS
<1> HIDE DEF m
<1>3. Log!Min({a, b}) \in {a, b} /\ \A y \in {a, b} : Log!Min({a, b}) <= y
  BY <1>1 DEF Log!Min
<1>4. Log!Min({a, b}) = m
  BY <1>2, <1>3
<1> QED BY <1>4 DEF m

\* Max of a pair.
LEMMA MaxOf ==
    ASSUME NEW a \in Int, NEW b \in Int
    PROVE  Log!Max({a, b}) = IF a >= b THEN a ELSE b
<1> DEFINE m == IF a >= b THEN a ELSE b
<1>1. m \in {a, b} /\ \A y \in {a, b} : m >= y
  OBVIOUS
<1>2. \A x \in {a, b} : (\A y \in {a, b} : x >= y) => x = m
  OBVIOUS
<1> HIDE DEF m
<1>3. Log!Max({a, b}) \in {a, b} /\ \A y \in {a, b} : Log!Max({a, b}) >= y
  BY <1>1 DEF Log!Max
<1>4. Log!Max({a, b}) = m
  BY <1>2, <1>3
<1> QED BY <1>4 DEF m

\* The four buckets of a usage.
LEMMA UsageForm ==
    ASSUME NEW f, NEW i \in Nat, NEW c \in Nat, NEW w \in Nat, NEW o \in Nat,
           f = [input |-> i, cached |-> c, write |-> w, output |-> o]
    PROVE  /\ f \in Log!Usage /\ f["input"] = i /\ f["cached"] = c /\ f["write"] = w
           /\ f["output"] = o
BY DEF Log!Usage, Log!Buckets

\* Usages are equal when their four counters are.
LEMMA SameUsage ==
    ASSUME NEW f \in Log!Usage, NEW g \in Log!Usage, f["input"] = g["input"], f["cached"] = g["cached"],
           f["write"] = g["write"], f["output"] = g["output"]
    PROVE  f = g
BY DEF Log!Usage, Log!Buckets

\* A normalised usage takes the cached and written tokens out of the input.
LEMMA NormalForm ==
    ASSUME NEW d \in Log!Usage, NEW f, f = Log!Normalised(d)
    PROVE  /\ f \in Log!Usage /\ f["output"] = d["output"]
           /\ d["cached"] <= d["input"] =>
                 f["cached"] = d["cached"] /\ f["input"] + f["write"] = d["input"] - d["cached"]
           /\ d["cached"] + d["write"] <= d["input"] =>
                 f["write"] = d["write"] /\ f["input"] = d["input"] - d["cached"] - d["write"]
<1> DEFINE i == d["input"]
           c == d["cached"]
           w == d["write"]
           o == d["output"]
           cached == Log!Min({c, i})
           write == Log!Min({w, Log!Max({0, i - cached})})
           input == Log!Max({0, i - cached - write})
<1>1. i \in Nat /\ c \in Nat /\ w \in Nat /\ o \in Nat
  BY DEF Log!Usage, Log!Buckets
<1>2. f = [input |-> input, cached |-> cached, write |-> write, output |-> o]
  BY DEF Log!Normalised
<1> HIDE DEF i, c, w, o
<1>3. cached = IF c <= i THEN c ELSE i
  BY <1>1, MinOf
<1>4. i - cached \in Nat /\ cached \in Nat
  BY <1>1, <1>3
<1> HIDE DEF cached
<1>5. Log!Max({0, i - cached}) = i - cached
  BY <1>4, MaxOf
<1>6. write = IF w <= i - cached THEN w ELSE i - cached
  BY <1>1, <1>4, <1>5, MinOf
<1> HIDE DEF write
<1>7. i - cached - write \in Nat /\ write \in Nat
  BY <1>1, <1>4, <1>6
<1>8. input = i - cached - write
  BY <1>7, MaxOf
<1> HIDE DEF input
<1>9. /\ f \in Log!Usage /\ f["input"] = input /\ f["cached"] = cached /\ f["write"] = write
      /\ f["output"] = o
  BY <1>1, <1>2, <1>4, <1>7, <1>8, UsageForm
<1>10. /\ f["output"] = o
       /\ c <= i => f["cached"] = c /\ f["input"] + f["write"] = i - c
       /\ c + w <= i => f["write"] = w /\ f["input"] = i - c - w
  BY <1>1, <1>3, <1>6, <1>7, <1>8, <1>9
<1> QED BY <1>9, <1>10 DEF i, c, w, o

\* What the API bills of a call, counter by counter.
LEMMA SplitForm ==
    ASSUME Log!CodexAssumption, NEW u \in Usages, NEW f, f = Log!Split(u)
    PROVE  /\ f \in Log!Usage /\ f["input"] = u["input"] - u["cached"] - u["write"]
           /\ f["cached"] = u["cached"] /\ f["write"] = u["write"] /\ f["output"] = u["output"]
<1>1. /\ u \in Log!Usage /\ u["cached"] + u["write"] <= u["input"]
      /\ u["input"] \in Nat /\ u["cached"] \in Nat /\ u["write"] \in Nat
  BY BucketForm DEF Log!Usage, Log!Buckets
<1>2. u["input"] - u["cached"] - u["write"] \in Nat
  BY <1>1
<1> QED BY <1>1, <1>2 DEF Log!Split, Log!Usage, Log!Buckets

\* Usages that differ in how the input splits into plain and written are one as a whole.
LEMMA WholeForm ==
    ASSUME NEW f \in Log!Usage, NEW g \in Log!Usage, f["cached"] = g["cached"], f["output"] = g["output"],
           f["input"] + f["write"] = g["input"] + g["write"]
    PROVE  Log!Whole(f) = Log!Whole(g)
<1>1. \A h \in Log!Usage : /\ Log!Whole(h) \in Log!Usage /\ Log!Whole(h)["write"] = 0
                           /\ Log!Whole(h)["input"] = h["input"] + h["write"]
                           /\ Log!Whole(h)["cached"] = h["cached"] /\ Log!Whole(h)["output"] = h["output"]
  BY DEF Log!Whole, Log!Usage, Log!Buckets
<1> HIDE DEF Log!Whole
<1> QED BY <1>1, SameUsage
\* The counters of a call's line.
LEMMA CountersForm ==
    ASSUME Log!CodexAssumption, NEW prev, prev.total \in Log!Usage, NEW line, NEW u \in Usages,
           NEW how \in {"none", "written", "all"}, CallOf(prev, line, u, how)
    PROVE  /\ line.total \in Log!Usage
           /\ \A b \in Log!Buckets : /\ u[b] \in Nat /\ prev.total[b] \in Nat
                                     /\ Fresh(how, b) => line.total[b] = u[b]
                                     /\ ~Fresh(how, b) => line.total[b] = prev.total[b] + u[b]
<1>1. u \in Log!Usage
  BY BucketForm
<1>2. line.total = [b \in Log!Buckets |-> IF Fresh(how, b) THEN u[b] ELSE prev.total[b] + u[b]]
  BY DEF CallOf
<1> QED BY <1>1, <1>2 DEF Log!Usage

\* A call with a reset that shows is no replay.
LEMMA CallIsNew ==
    ASSUME Log!CodexAssumption, NEW prev, prev.total \in Log!Usage, NEW line, NEW u \in Usages,
           NEW how \in {"none", "written", "all"}, CallOf(prev, line, u, how),
           NEW st \in ReadState, \A b \in Log!Buckets : b # "write" => st.totals[b] = prev.total[b],
           line.reset # "unseen"
    PROVE  ~Log!IsReplay(st, line)
<1> SUFFICES ASSUME Log!IsReplay(st, line) PROVE FALSE
  OBVIOUS
<1>1. line.cum # << >> /\ line.cum = <<line.total>>
  BY DEF CallOf, Log!IsReplay
<1>2. \A b \in Log!Buckets : b # "write" => line.total[b] = prev.total[b]
  BY <1>1 DEF Log!IsReplay
<1>3. "input" \in Log!Buckets /\ u["input"] > 0
  BY BucketForm
<1>4. prev.total["input"] + u["input"] # prev.total["input"]
  BY <1>3, CountersForm
<1>5. Fresh(how, "input")
  BY <1>2, <1>3, <1>4, CountersForm
<1>6. how = "all"
  BY <1>5 DEF Fresh
<1>7. \E b \in Log!Buckets \ {"write"} : line.total[b] # prev.total[b]
  <2>1. how = "all"
    BY <1>6
  <2>2. \/ \E b \in Log!Buckets \ {"write"} : line.total[b] # prev.total[b]
        \/ \E b \in Log!Buckets \ {"write"} : line.total[b] < prev.total[b]
    BY <2>1 DEF CallOf
  <2> QED BY <2>2, CountersForm
<1> QED BY <1>2, <1>7

\* What the parser takes the call to have used.
LEMMA DeltaForm ==
    ASSUME Log!CodexAssumption, NEW prev, prev.total \in Log!Usage, NEW line, NEW u \in Usages,
           NEW how \in {"none", "written", "all"}, CallOf(prev, line, u, how),
           NEW st \in ReadState, \A b \in Log!Buckets : b # "write" => st.totals[b] = prev.total[b],
           NEW d, d = Log!Delta(st, line)
    PROVE  /\ d \in Log!Usage
           /\ line.reset # "unseen" =>
                 /\ \A b \in Log!Buckets : b # "write" => d[b] = u[b]
                 /\ st.totals["write"] = prev.total["write"] => d = u
           /\ line.last # << >> => d = u
<1> DEFINE cum == line.total
           e == Log!Less(cum, st.totals)
<1>1. u \in Log!Usage /\ cum \in Log!Usage /\ st.totals \in Log!Usage /\ "write" \in Log!Buckets
  BY BucketForm, CountersForm DEF ReadState
<1>2. /\ \A b \in Log!Buckets : e[b] = cum[b] - st.totals[b]
      /\ e \in [Log!Buckets -> Int]
  BY <1>1 DEF Log!Less, Log!Usage
<1>3. CASE line.last # << >>
  <2>1. d = line.last[1] /\ line.last = <<u>>
    BY <1>3 DEF Log!Delta, CallOf
  <2> QED BY <1>1, <2>1
<1>4. CASE line.last = << >>
  <2>1. line.cum = <<cum>>
    BY <1>4 DEF CallOf
  <2>2. d = IF \E b \in Log!Buckets \ {"write"} : e[b] < 0 THEN cum
            ELSE IF e["write"] < 0 THEN [e EXCEPT !["write"] = cum["write"]]
            ELSE e
    BY <1>4, <2>1 DEF Log!Delta
  <2>3. line.reset # "unseen" /\ how # "none" =>
           \/ how = "written" /\ cum["write"] < prev.total["write"]
           \/ \E b \in Log!Buckets \ {"write"} : cum[b] < prev.total[b]
    BY <1>4 DEF CallOf
  <2>4. \A b \in Log!Buckets : /\ u[b] \in Nat /\ prev.total[b] \in Nat
                               /\ Fresh(how, b) => cum[b] = u[b]
                               /\ ~Fresh(how, b) => cum[b] = prev.total[b] + u[b]
    BY CountersForm
  <2> HIDE DEF e, cum
  <2>5. CASE \E b \in Log!Buckets \ {"write"} : e[b] < 0
    <3>1. d = cum
      BY <2>2, <2>5
    <3>2. PICK b \in Log!Buckets : b # "write" /\ e[b] < 0
      BY <2>5
    <3>3. cum[b] < prev.total[b]
      BY <1>1, <1>2, <2>4, <3>2
    <3>4. how = "all"
      BY <2>4, <3>2, <3>3 DEF Fresh
    <3>5. d = u
      <4>1. \A a \in Log!Buckets : cum[a] = u[a]
        BY <2>4, <3>4 DEF Fresh
      <4> QED BY <1>1, <3>1, <4>1 DEF Log!Usage
    <3> QED BY <1>1, <1>4, <3>5
  <2>6. CASE ~\E b \in Log!Buckets \ {"write"} : e[b] < 0
    <3>1. \A b \in Log!Buckets : b # "write" => e[b] >= 0 /\ e[b] = cum[b] - prev.total[b]
      BY <1>1, <1>2, <2>6 DEF Log!Usage
    <3>2. d = IF e["write"] < 0 THEN [e EXCEPT !["write"] = cum["write"]] ELSE e
      BY <2>2, <2>6
    <3>3. /\ d \in [Log!Buckets -> Int]
          /\ \A b \in Log!Buckets : b # "write" => d[b] = e[b]
          /\ d["write"] = IF e["write"] < 0 THEN cum["write"] ELSE e["write"]
      BY <1>1, <1>2, <3>2 DEF Log!Usage
    <3>4. \A b \in Log!Buckets : d[b] \in Nat
      <4>1. TAKE b \in Log!Buckets
      <4>2. cum["write"] \in Nat /\ e["write"] \in Int
        BY <1>1, <1>2 DEF Log!Usage
      <4> QED BY <1>1, <1>2, <3>1, <3>3, <4>2
    <3>5. d \in Log!Usage
      BY <3>3, <3>4 DEF Log!Usage
    <3>6. ASSUME line.reset # "unseen" 
          PROVE how = "none" \/ (how = "written" /\ cum["write"] < prev.total["write"])
      <4>1. ~\E b \in Log!Buckets \ {"write"} : cum[b] < prev.total[b]
        BY <3>1, <2>4, <1>1 DEF Log!Usage
      <4> QED BY <2>3, <3>6, <4>1
    <3>7. ASSUME line.reset # "unseen", NEW b \in Log!Buckets, b # "write" PROVE d[b] = u[b]
      BY <2>4, <3>1, <3>3, <3>6, <3>7 DEF Fresh
    <3>8. ASSUME line.reset # "unseen", st.totals["write"] = prev.total["write"] PROVE d = u
      <4>1. d["write"] = u["write"]
        <5>1. e["write"] = cum["write"] - prev.total["write"]
          BY <1>1, <1>2, <3>8
        <5>2. CASE how = "none"
          BY <1>1, <2>4, <3>3, <5>1, <5>2 DEF Fresh
        <5>3. CASE how = "written" /\ cum["write"] < prev.total["write"]
          <6>1. cum["write"] = u["write"] /\ u["write"] \in Nat /\ prev.total["write"] \in Nat
            BY <1>1, <2>4, <5>3 DEF Fresh
          <6>2. e["write"] < 0
            BY <5>1, <5>3, <6>1
          <6> QED BY <3>3, <6>1, <6>2
        <5> QED BY <3>6, <3>8, <5>2, <5>3
      <4>2. \A b \in Log!Buckets : d[b] = u[b]
        BY <3>7, <3>8, <4>1
      <4> QED BY <1>1, <3>5, <4>2 DEF Log!Usage
    <3> QED BY <1>4, <3>5, <3>7, <3>8
  <2> QED BY <2>5, <2>6
<1> QED BY <1>3, <1>4
-----------------------------------------------------------------------------
(* Along the rollout.                                                      *)

\* What LogOK says of one line and the one before it.
LEMMA LineFacts ==
    ASSUME Log!CodexAssumption, NEW R, LogOK(R), NEW n \in DOMAIN R, NEW line, line = R[n],
           NEW prev, prev = LineBefore(R, n)
    PROVE  /\ n \in Nat /\ n >= 1 /\ n <= Len(R) /\ Len(R) \in Nat /\ DOMAIN R = 1 .. Len(R)
           /\ line \in Log!LineType /\ line.total \in Log!Usage /\ line.ts \in Nat
           /\ prev \in Log!LineType /\ prev.total \in Log!Usage /\ prev.ts \in Nat
           /\ prev.ts <= line.ts /\ Follows(R, n - 1, line) /\ LineOK(prev, line)
           /\ LineBefore(R, n + 1) = line
<1>1. /\ R \in Seq(Log!LineType) /\ Follows(R, n - 1, line)
  BY DEF LogOK
<1>2. n \in Nat /\ n >= 1 /\ n <= Len(R) /\ Len(R) \in Nat /\ DOMAIN R = 1 .. Len(R)
  BY <1>1
<1>3. line \in Log!LineType /\ prev \in Log!LineType
  BY <1>1, <1>2, BlankForm DEF LineBefore
<1>4. /\ line.total \in Log!Usage /\ line.ts \in Nat /\ prev.total \in Log!Usage /\ prev.ts \in Nat
  BY <1>3 DEF Log!LineType
<1>5. LineBefore(R, n - 1 + 1) = prev /\ LineBefore(R, n + 1) = line
  BY <1>2 DEF LineBefore
<1>6. LineOK(prev, line)
  BY <1>1, <1>5 DEF Follows
<1>7. prev.ts <= line.ts
  BY <1>6 DEF LineOK
<1> QED BY <1>1, <1>2, <1>3, <1>4, <1>5, <1>6, <1>7

\* Counters, one line on.
LEMMA CountersNext ==
    ASSUME NEW R, NEW n \in Nat, n >= 1
    PROVE  Counters(R, n) <=> Counters(R, n - 1) \/ R[n].cum # << >>
<1>1. 1 .. n = (1 .. n - 1) \cup {n}
  OBVIOUS
<1> QED BY <1>1 DEF Counters

\* Unnoted, one line on.
LEMMA UnnotedNext ==
    ASSUME NEW R, NEW n \in Nat, n >= 1
    PROVE  Unnoted(R, n) <=> \/ R[n].reset = "unseen"
                             \/ Unnoted(R, n - 1) /\ R[n].kind # "token_count"
<1>1. ASSUME R[n].reset = "unseen" PROVE Unnoted(R, n)
  <2>1. n \in 1 .. n /\ \A j \in n + 1 .. n : R[j].kind # "token_count"
    OBVIOUS
  <2> QED BY <1>1, <2>1 DEF Unnoted
<1>2. ASSUME Unnoted(R, n - 1), R[n].kind # "token_count" PROVE Unnoted(R, n)
  <2>1. PICK k \in 1 .. n - 1 :
           R[k].reset = "unseen" /\ \A j \in k + 1 .. n - 1 : R[j].kind # "token_count"
    BY <1>2 DEF Unnoted
  <2>2. k \in 1 .. n /\ \A j \in k + 1 .. n : j = n \/ j \in k + 1 .. n - 1
    OBVIOUS
  <2>3. \A j \in k + 1 .. n : R[j].kind # "token_count"
    BY <1>2, <2>1, <2>2
  <2> QED BY <2>1, <2>2, <2>3 DEF Unnoted
<1>3. ASSUME Unnoted(R, n), R[n].reset # "unseen"
      PROVE  Unnoted(R, n - 1) /\ R[n].kind # "token_count"
  <2>1. PICK k \in 1 .. n :
           R[k].reset = "unseen" /\ \A j \in k + 1 .. n : R[j].kind # "token_count"
    BY <1>3 DEF Unnoted
  <2>2. k # n
    BY <1>3, <2>1
  <2>3. k \in 1 .. n - 1 /\ n \in k + 1 .. n /\ \A j \in k + 1 .. n - 1 : j \in k + 1 .. n
    BY <2>2
  <2> QED BY <2>1, <2>3 DEF Unnoted
<1> QED BY <1>1, <1>2, <1>3

\* LastNaming, one line on.
LEMMA NamingNext ==
    ASSUME NEW R, NEW n \in Nat, n >= 1, NEW k
    PROVE  LastNaming(R, k, n) => \/ k = n /\ Names(R[n])
                                  \/ k \in 1 .. n - 1 /\ LastNaming(R, k, n - 1) /\ ~Names(R[n])
<1> SUFFICES ASSUME LastNaming(R, k, n), k # n
             PROVE  k \in 1 .. n - 1 /\ LastNaming(R, k, n - 1) /\ ~Names(R[n])
  BY DEF LastNaming
<1>1. k \in 1 .. n - 1 /\ n \in k + 1 .. n /\ \A j \in k + 1 .. n - 1 : j \in k + 1 .. n
  BY DEF LastNaming
<1> QED BY <1>1 DEF LastNaming

\* What is left to show of a state after line n.
LEMMA Onward ==
    ASSUME Log!CodexAssumption, NEW R, LogOK(R), NEW n \in DOMAIN R, NEW line, line = R[n],
           NEW st, At(R, n, st), NEW s \in ReadState,
           \A b \in Log!Buckets : b # "write" \/ ~Unnoted(R, n) => s.totals[b] = line.total[b],
           st.seenCumulative \/ line.cum # << >> => s.seenCumulative,
           Names(line) => s.model = line.model,
           ~Names(line) /\ st.model # Log!NoModel => s.model = st.model,
           s.lastTs <= line.ts, s.prevLineTs = line.ts, s.seedActive <=> Copied(line)
    PROVE  At(R, n + 1, s)
<1> DEFINE prev == LineBefore(R, n)
<1>1. /\ n \in Nat /\ n >= 1 /\ LineBefore(R, n + 1) = line /\ n + 1 - 1 = n
      /\ line.ts \in Nat
  BY LineFacts
<1>2. Counters(R, n) => s.seenCumulative
  BY <1>1, CountersNext DEF At
<1>3. ASSUME NEW k \in 1 .. n, LastNaming(R, k, n) PROVE s.model = R[k].model
  <2>1. CASE k = n /\ Names(R[n])
    BY <2>1
  <2>2. CASE k \in 1 .. n - 1 /\ LastNaming(R, k, n - 1) /\ ~Names(R[n])
    <3>1. st.model = R[k].model
      BY <2>2 DEF At
    <3>2. R[k].model # Log!NoModel
      BY <2>2 DEF LastNaming, Names
    <3> QED BY <2>2, <3>1, <3>2
  <2> QED BY <1>1, <1>3, <2>1, <2>2, NamingNext
<1>4. s.seedActive <=> n + 1 > 1 /\ s.prevLineTs = 0 /\ Copied(R[n])
  BY <1>1 DEF Copied
<1> QED BY <1>1, <1>2, <1>3, <1>4 DEF At

\* The seed of a fork, followed line by line.
LEMMA SeedFollowed ==
    ASSUME Log!CodexAssumption, NEW R, LogOK(R), NEW n \in DOMAIN R, NEW line, line = R[n],
           NEW st, At(R, n, st), NEW t, t = Log!SeedTracked(st, line), line.kind # "session_meta"
    PROVE  t.seedActive <=> Copied(line)
<1> DEFINE prev == LineBefore(R, n)
<1>1. /\ n \in Nat /\ n >= 1 /\ n <= Len(R) /\ line.ts \in Nat /\ prev.ts \in Nat
      /\ prev.ts <= line.ts /\ LineOK(prev, line) /\ st \in ReadState
  BY LineFacts DEF At
<1>2. t.seedActive <=> st.seedActive /\ ~(st.prevLineTs >= 0 /\ line.ts - st.prevLineTs > 1)
  BY <1>1, TrackedForm
<1>3. n > 1 => prev = R[n - 1]
  BY DEF LineBefore
<1>4. /\ st.seedActive <=> n > 1 /\ st.prevLineTs = 0 /\ Copied(R[n - 1])
      /\ st.prevLineTs \in {-1, prev.ts}
      /\ st.prevLineTs = -1 => n = 1 \/ n > Len(R) \/ ~Copied(R[n])
  BY DEF At
<1>5. ASSUME Copied(line) PROVE t.seedActive
  <2>1. n # 1
    BY <1>5 DEF LogOK
  <2>2. st.prevLineTs = prev.ts /\ line.ts = 0 /\ prev.ts = 0
    BY <1>1, <1>4, <1>5, <2>1 DEF Copied
  <2>3. st.seedActive
    BY <1>1, <1>3, <1>4, <2>1, <2>2 DEF Copied
  <2> QED BY <1>2, <2>2, <2>3
<1>6. ASSUME ~Copied(line), st.seedActive PROVE ~t.seedActive
  <2>1. n > 1 /\ st.prevLineTs = 0 /\ Copied(prev)
    BY <1>3, <1>4, <1>6
  <2>2. prev.ts + 1 < line.ts /\ prev.ts = 0
    BY <1>1, <1>6, <2>1 DEF LineOK, Copied
  <2> QED BY <1>1, <1>2, <2>1, <2>2
<1> QED BY <1>2, <1>5, <1>6
-----------------------------------------------------------------------------
(* What a read makes of each kind of line.                                 *)

\* A line that is no call leaves the counters a read holds right.
LEMMA PlainFacts ==
    ASSUME Log!CodexAssumption, NEW R, LogOK(R), NEW n \in DOMAIN R, NEW line, line = R[n],
           NEW st, At(R, n, st), line.kind # "token_count"
    PROVE  /\ line.cum = << >>
           /\ \A b \in Log!Buckets : b # "write" \/ ~Unnoted(R, n) => st.totals[b] = line.total[b]
           /\ line.kind = "session_meta" => n = 1 /\ Copied(line) /\ line.forked
<1> DEFINE prev == LineBefore(R, n)
<1>1. LineOK(prev, line) /\ n \in Nat /\ n >= 1
  BY LineFacts
<1>2. Plain(prev, line)
  BY <1>1 DEF LineOK, CopiedCall, Call, CallOf, Replay
<1>3. line.total = prev.total /\ line.reset = "no" /\ line.cum = << >>
  BY <1>2 DEF Plain
<1>4. Unnoted(R, n) <=> Unnoted(R, n - 1)
  BY <1>1, <1>3, UnnotedNext
<1>5. \A b \in Log!Buckets : b # "write" \/ ~Unnoted(R, n) => st.totals[b] = line.total[b]
  BY <1>3, <1>4 DEF At
<1>6. line.kind = "session_meta" => n = 1 /\ Copied(line) /\ line.forked
  BY <1>2 DEF Plain, LogOK
<1> QED BY <1>3, <1>5, <1>6

\* The first line of a rollout opens the seed of a fork, or names a model.
LEMMA MetaStep ==
    ASSUME Log!CodexAssumption, NEW R, LogOK(R), NEW n \in DOMAIN R, NEW line, line = R[n],
           NEW st, At(R, n, st), NEW o, n = 1 => o = 0, NEW s, s = Log!ParseLine(st, line, o),
           line.kind = "session_meta"
    PROVE  At(R, n + 1, s) /\ Exact(R, n, st, s)
<1> DEFINE t == Log!SeedTracked(st, line)
           b == t.seedActive \/ (o = 0 /\ line.forked)
<1>1. /\ line.ts \in Nat /\ st \in ReadState /\ LineBefore(R, n).ts <= line.ts
      /\ LineBefore(R, n).ts \in Nat
  BY LineFacts DEF At
<1>2. /\ t \in ReadState
      /\ t.totals = st.totals /\ t.model = st.model /\ t.lastTs = st.lastTs
      /\ t.events = st.events /\ t.prevLineTs = line.ts
      /\ (t.seenCumulative <=> st.seenCumulative)
  BY <1>1, TrackedForm
<1>3. s = [t EXCEPT !.seedActive = b]
  BY DEF Log!ParseLine
<1> HIDE DEF t
<1>4. /\ line.cum = << >>
      /\ \A c \in Log!Buckets : c # "write" \/ ~Unnoted(R, n) => st.totals[c] = line.total[c]
      /\ n = 1 /\ Copied(line) /\ line.forked
  BY PlainFacts
<1>5. s = WithSeed(t, TRUE, line.ts)
  BY <1>2, <1>3, <1>4 DEF WithSeed, ReadState
<1>6. /\ s \in ReadState
      /\ s.totals = st.totals /\ s.model = st.model /\ s.lastTs = st.lastTs
      /\ s.events = st.events /\ s.prevLineTs = line.ts
      /\ (s.seenCumulative <=> st.seenCumulative) /\ s.seedActive
  <2>1. /\ s \in ReadState
        /\ s.totals = st.totals /\ s.model = st.model /\ s.lastTs = st.lastTs
        /\ s.events = st.events /\ s.prevLineTs = line.ts
    BY <1>1, <1>2, <1>5 DEF ReadState, WithSeed
  <2>2. s.seenCumulative <=> st.seenCumulative
    BY <1>1, <1>2, <1>5 DEF ReadState, WithSeed
  <2>3. s.seedActive
    BY <1>1, <1>2, <1>5 DEF ReadState, WithSeed
  <2> QED BY <2>1, <2>2, <2>3
<1>7. s.lastTs <= line.ts
  BY <1>1, <1>6 DEF At, ReadState
<1>8. ~Names(line)
  BY DEF Names
<1>9. At(R, n + 1, s)
  BY <1>4, <1>6, <1>7, <1>8, Onward
<1>10. Exact(R, n, st, s)
  BY <1>6 DEF Exact
<1> QED BY <1>9, <1>10

\* Lines that name a model, and lines the parser has no use for.
LEMMA QuietStep ==
    ASSUME Log!CodexAssumption, NEW R, LogOK(R), NEW n \in DOMAIN R, NEW line, line = R[n],
           NEW st, At(R, n, st), NEW o, NEW s, s = Log!ParseLine(st, line, o),
           line.kind \in {"turn_context", "other"}
    PROVE  At(R, n + 1, s) /\ Exact(R, n, st, s)
<1> DEFINE t == Log!SeedTracked(st, line)
<1>1. /\ line.ts \in Nat /\ st \in ReadState /\ LineBefore(R, n).ts <= line.ts
      /\ LineBefore(R, n).ts \in Nat /\ line.model \in Models \cup {Log!NoModel}
  <2>1. /\ line.ts \in Nat /\ LineBefore(R, n).ts <= line.ts /\ LineBefore(R, n).ts \in Nat
        /\ LineOK(LineBefore(R, n), line)
    BY LineFacts
  <2>2. line.model \in Models \cup {Log!NoModel}
    BY <2>1 DEF LineOK
  <2> QED BY <2>1, <2>2 DEF At
<1>2. /\ t \in ReadState
      /\ t.totals = st.totals /\ t.model = st.model /\ t.lastTs = st.lastTs
      /\ t.events = st.events /\ t.prevLineTs = line.ts
      /\ (t.seenCumulative <=> st.seenCumulative)
  BY <1>1, TrackedForm
<1>3. t.seedActive <=> Copied(line)
  BY SeedFollowed
<1>4. s = IF Names(line) THEN [t EXCEPT !.model = line.model] ELSE t
  BY DEF Log!ParseLine, Names
<1> HIDE DEF t
<1>5. /\ line.cum = << >>
      /\ \A c \in Log!Buckets : c # "write" \/ ~Unnoted(R, n) => st.totals[c] = line.total[c]
  BY PlainFacts
<1>6. /\ s \in ReadState
      /\ s.totals = st.totals /\ s.lastTs = st.lastTs
      /\ s.events = st.events /\ s.prevLineTs = line.ts
      /\ s.model = IF Names(line) THEN line.model ELSE st.model
  BY <1>1, <1>2, <1>4 DEF ReadState
<1>7. s.seenCumulative <=> st.seenCumulative
  BY <1>1, <1>2, <1>4 DEF ReadState
<1>8. s.seedActive <=> Copied(line)
  <2>1. s.seedActive <=> t.seedActive
    BY <1>1, <1>2, <1>4 DEF ReadState
  <2> QED BY <1>3, <2>1
<1>9. s.lastTs <= line.ts
  BY <1>1, <1>6 DEF At, ReadState
<1>10. At(R, n + 1, s)
  BY <1>5, <1>6, <1>7, <1>8, <1>9, Onward
<1>11. Exact(R, n, st, s)
  BY <1>6 DEF Exact
<1> QED BY <1>10, <1>11

\* A prompt bills nothing; outside the seed it is an event of the user.
LEMMA PromptStep ==
    ASSUME Log!CodexAssumption, NEW R, LogOK(R), NEW n \in DOMAIN R, NEW line, line = R[n],
           NEW st, At(R, n, st), NEW o, NEW s, s = Log!ParseLine(st, line, o),
           line.kind = "prompt"
    PROVE  At(R, n + 1, s) /\ Exact(R, n, st, s)
<1> DEFINE t == Log!SeedTracked(st, line)
<1>1. /\ line.ts \in Nat /\ st \in ReadState /\ LineBefore(R, n).ts <= line.ts
      /\ LineBefore(R, n).ts \in Nat
  BY LineFacts DEF At
<1>2. /\ t \in ReadState
      /\ t.totals = st.totals /\ t.model = st.model /\ t.lastTs = st.lastTs
      /\ t.events = st.events /\ t.prevLineTs = line.ts
      /\ (t.seenCumulative <=> st.seenCumulative)
  BY <1>1, TrackedForm
<1>3. t.seedActive <=> Copied(line)
  BY SeedFollowed
<1>4. s = IF t.seedActive THEN t ELSE Log!Emit(t, line, "user", Log!Nothing)
  BY DEF Log!ParseLine
<1> HIDE DEF t
<1>5. /\ line.cum = << >>
      /\ \A c \in Log!Buckets : c # "write" \/ ~Unnoted(R, n) => st.totals[c] = line.total[c]
  BY PlainFacts
<1>6. ~Names(line) /\ Log!Nothing \in Log!Usage
  BY BucketForm DEF Names
<1>7. CASE t.seedActive
  <2>1. s = t
    BY <1>4, <1>7
  <2>2. s.lastTs <= line.ts
    BY <1>1, <1>2, <2>1 DEF At, ReadState
  <2>3. At(R, n + 1, s)
    BY <1>2, <1>3, <1>5, <1>6, <2>1, <2>2, Onward
  <2>4. Exact(R, n, st, s)
    BY <1>2, <2>1 DEF Exact
  <2> QED BY <2>3, <2>4
<1>8. CASE ~t.seedActive
  <2>1. s = Log!Emit(t, line, "user", Log!Nothing)
    BY <1>4, <1>8
  <2>2. /\ s \in ReadState
        /\ s.totals = t.totals /\ s.lastTs = line.ts /\ s.prevLineTs = t.prevLineTs
        /\ (s.seenCumulative <=> t.seenCumulative) /\ (s.seedActive <=> t.seedActive)
        /\ t.model # Log!NoModel => s.model = t.model
        /\ \E row \in Row : s.events = Append(t.events, row) /\ row.id[1] = "user"
    <3>1. t \in ReadState /\ line.ts \in Nat /\ Log!Nothing \in Log!Usage
      BY <1>1, <1>2, <1>6
    <3>2. EmittedRow(t, s, line, "user", Log!Nothing)
      BY <2>1, <3>1, EmitForm
    <3> QED BY <3>2 DEF EmittedRow
  <2>3. At(R, n + 1, s)
    BY <1>1, <1>2, <1>3, <1>5, <1>6, <2>2, Onward
  <2>4. Exact(R, n, st, s)
    BY <1>2, <2>2 DEF Exact
  <2> QED BY <2>3, <2>4
<1> QED BY <1>7, <1>8

\* A count's line: the state it finds.
LEMMA CountFacts ==
    ASSUME Log!CodexAssumption, NEW R, LogOK(R), NEW n \in DOMAIN R, NEW line, line = R[n],
           NEW st, At(R, n, st), NEW o, NEW s, s = Log!ParseLine(st, line, o),
           NEW t, t = Log!SeedTracked(st, line), line.kind = "token_count"
    PROVE  /\ t \in ReadState /\ s = Log!TokenCount(t, line)
           /\ t.totals = st.totals /\ t.model = st.model /\ t.lastTs = st.lastTs
           /\ t.events = st.events /\ t.prevLineTs = line.ts
           /\ (t.seenCumulative <=> st.seenCumulative) /\ (t.seedActive <=> Copied(line))
           /\ t.lastTs <= LineBefore(R, n).ts
<1>1. /\ line.ts \in Nat /\ st \in ReadState
  BY LineFacts DEF At
<1>2. /\ t \in ReadState
      /\ t.totals = st.totals /\ t.model = st.model /\ t.lastTs = st.lastTs
      /\ t.events = st.events /\ t.prevLineTs = line.ts
      /\ (t.seenCumulative <=> st.seenCumulative)
  BY <1>1, TrackedForm
<1>3. t.seedActive <=> Copied(line)
  BY SeedFollowed
<1>4. s = Log!TokenCount(t, line)
  BY DEF Log!ParseLine
<1>5. t.lastTs <= LineBefore(R, n).ts
  BY <1>2 DEF At
<1> QED BY <1>2, <1>3, <1>4, <1>5

\* A count of the parent's log moves the counters and bills nothing.
LEMMA CopiedStep ==
    ASSUME Log!CodexAssumption, NEW R, LogOK(R), NEW n \in DOMAIN R, NEW line, line = R[n],
           NEW st, At(R, n, st), NEW o, NEW s, s = Log!ParseLine(st, line, o),
           line.kind = "token_count", Copied(line)
    PROVE  At(R, n + 1, s) /\ Exact(R, n, st, s)
<1> DEFINE t == Log!SeedTracked(st, line)
           d == Log!Delta(t, line)
           c == Log!Counted(t, line, d)
           prev == LineBefore(R, n)
<1>1. /\ t \in ReadState /\ s = Log!TokenCount(t, line)
      /\ t.totals = st.totals /\ t.model = st.model /\ t.lastTs = st.lastTs
      /\ t.events = st.events /\ t.prevLineTs = line.ts
      /\ (t.seenCumulative <=> st.seenCumulative) /\ t.seedActive
      /\ t.lastTs <= prev.ts
  BY CountFacts
<1>2. /\ LineOK(prev, line) /\ prev.ts <= line.ts /\ prev.ts \in Nat /\ line.ts \in Nat
      /\ line.total \in Log!Usage
  BY LineFacts
<1>3. CopiedCall(prev, line)
  BY <1>2 DEF LineOK, Plain
<1>4. PICK u \in Usages : line.last = <<u>> /\ line.cum = <<u>> /\ line.total = u
  BY <1>3 DEF CopiedCall
<1>5. u["input"] > 0 /\ "input" \in Log!Buckets /\ Log!Nothing["input"] = 0
  BY BucketForm
<1>6. ~Log!IsReplay(t, line)
  <2>1. t.totals["input"] = 0
    BY <1>1, <1>3, <1>5 DEF At, CopiedCall
  <2> QED BY <1>4, <1>5, <2>1 DEF Log!IsReplay
<1>7. s = Log!Billed(c, line, d)
  BY <1>1, <1>4, <1>6 DEF Log!TokenCount
<1> HIDE DEF t, d
<1>8. /\ c \in ReadState /\ c.totals = line.total
      /\ c.model = t.model /\ c.lastTs = t.lastTs /\ c.prevLineTs = t.prevLineTs
      /\ c.events = t.events /\ c.seenCumulative /\ (c.seedActive <=> t.seedActive)
  <2>1. line.cum # << >> /\ line.cum[1] = line.total
    BY <1>4
  <2>2. c = Log!Counted(t, line, d)
    OBVIOUS
  <2> HIDE DEF c
  <2> QED BY <1>1, <1>2, <2>1, <2>2, CountedForm
<1>9. s = c
  BY <1>1, <1>7, <1>8 DEF Log!Billed
<1> HIDE DEF c
<1>10. ~Names(line) /\ line.real = Log!Nothing
  BY <1>3 DEF Names, CopiedCall
<1>11. s.lastTs <= line.ts
  BY <1>1, <1>2, <1>8, <1>9 DEF ReadState
<1>12. At(R, n + 1, s)
  BY <1>1, <1>8, <1>9, <1>10, <1>11, Onward
<1>13. Exact(R, n, st, s)
  BY <1>1, <1>8, <1>9, <1>10 DEF Exact
<1> QED BY <1>12, <1>13

\* The same request, logged again, changes nothing.
LEMMA ReplayStep ==
    ASSUME Log!CodexAssumption, NEW R, LogOK(R), NEW n \in DOMAIN R, NEW line, line = R[n],
           NEW st, At(R, n, st), NEW o, NEW s, s = Log!ParseLine(st, line, o),
           line.kind = "token_count", ~Copied(line), Replay(LineBefore(R, n), line)
    PROVE  At(R, n + 1, s) /\ Exact(R, n, st, s)
<1> DEFINE t == Log!SeedTracked(st, line)
           prev == LineBefore(R, n)
<1>1. /\ t \in ReadState /\ s = Log!TokenCount(t, line)
      /\ t.totals = st.totals /\ t.model = st.model /\ t.lastTs = st.lastTs
      /\ t.events = st.events /\ t.prevLineTs = line.ts
      /\ (t.seenCumulative <=> st.seenCumulative) /\ ~t.seedActive
      /\ t.lastTs <= prev.ts
  BY CountFacts
<1>2. /\ prev.ts <= line.ts /\ prev.ts \in Nat /\ line.ts \in Nat /\ n \in Nat /\ n >= 1
      /\ Follows(R, n - 1, line)
  BY LineFacts
<1>3. /\ line.cum = <<line.total>> /\ line.total = prev.total /\ line.real = Log!Nothing
      /\ ~Names(line)
  BY DEF Replay, Names
<1>4. Counters(R, n - 1) /\ (Unnoted(R, n - 1) => line.reset = "unseen")
  BY <1>2, <1>3 DEF Follows
<1>5. Log!IsReplay(t, line)
  <2>1. t.seenCumulative
    BY <1>1, <1>4 DEF At
  <2>2. \A b \in Log!Buckets \ {"write"} : line.cum[1][b] = t.totals[b]
    BY <1>1, <1>3 DEF At
  <2> QED BY <1>3, <2>1, <2>2 DEF Log!IsReplay
<1>6. s = t
  BY <1>1, <1>5 DEF Log!TokenCount
<1> HIDE DEF t
<1>7. Unnoted(R, n) <=> line.reset = "unseen"
  BY <1>2, UnnotedNext
<1>8. \A b \in Log!Buckets : b # "write" \/ ~Unnoted(R, n) => s.totals[b] = line.total[b]
  BY <1>1, <1>3, <1>4, <1>6, <1>7 DEF At
<1>9. st.seenCumulative
  BY <1>4 DEF At
<1>10. s.lastTs <= line.ts
  BY <1>1, <1>2, <1>6 DEF ReadState
<1>11. At(R, n + 1, s)
  BY <1>1, <1>3, <1>6, <1>8, <1>9, <1>10, Onward
<1>12. Exact(R, n, st, s)
  BY <1>1, <1>3, <1>6 DEF Exact
<1> QED BY <1>11, <1>12

\* A call is billed as the API did.
LEMMA CallStep ==
    ASSUME Log!CodexAssumption, NEW R, LogOK(R), NEW n \in DOMAIN R, NEW line, line = R[n],
           NEW st, At(R, n, st), NEW o, NEW s, s = Log!ParseLine(st, line, o),
           line.kind = "token_count", ~Copied(line),
           NEW u \in Usages, NEW how \in {"none", "written", "all"},
           CallOf(LineBefore(R, n), line, u, how)
    PROVE  At(R, n + 1, s) /\ Exact(R, n, st, s)
<1> DEFINE t == Log!SeedTracked(st, line)
           d == Log!Delta(t, line)
           c == Log!Counted(t, line, d)
           f == Log!Normalised(d)
           prev == LineBefore(R, n)
<1>1. /\ t \in ReadState /\ s = Log!TokenCount(t, line)
      /\ t.totals = st.totals /\ t.model = st.model /\ t.lastTs = st.lastTs
      /\ t.events = st.events /\ t.prevLineTs = line.ts
      /\ (t.seenCumulative <=> st.seenCumulative) /\ ~t.seedActive
      /\ t.lastTs <= prev.ts
  BY CountFacts
<1>2. /\ LineOK(prev, line) /\ prev.ts <= line.ts /\ prev.ts \in Nat /\ line.ts \in Nat
      /\ line.total \in Log!Usage /\ prev.total \in Log!Usage /\ n \in Nat /\ n >= 1
      /\ Follows(R, n - 1, line)
  BY LineFacts
<1>3. /\ line.real = u /\ line.model = Log!NoModel /\ ~Names(line)
      /\ line.last # << >> \/ line.cum # << >>
      /\ line.reset = "unseen" => line.cum # << >>
      /\ line.cum # << >> => line.cum[1] = line.total
      /\ line.last \in {<< >>, <<u>>}
  BY DEF CallOf, Names
<1>4. \A b \in Log!Buckets : b # "write" => t.totals[b] = prev.total[b]
  BY <1>1 DEF At
<1>5. ~Unnoted(R, n - 1) => t.totals["write"] = prev.total["write"]
  BY <1>1 DEF At, Log!Buckets
<1>6. Unnoted(R, n) <=> line.reset = "unseen"
  BY <1>2, UnnotedNext
<1>7. prev.ts < line.ts
  BY <1>2 DEF LineOK
<1>8. u # Log!Nothing
  BY DEF Log!CodexAssumption
<1>9. CASE Log!IsReplay(t, line)
  <2>1. s = t
    BY <1>1, <1>9 DEF Log!TokenCount
  <2>2. line.reset = "unseen"
    BY <1>1, <1>2, <1>4, <1>9, CallIsNew
  <2>3. /\ line.cum # << >> /\ t.seenCumulative
        /\ \A b \in Log!Buckets \ {"write"} : line.cum[1][b] = t.totals[b]
    BY <1>9 DEF Log!IsReplay
  <2> HIDE DEF t
  <2>4. \A b \in Log!Buckets : b # "write" \/ ~Unnoted(R, n) => s.totals[b] = line.total[b]
    BY <1>3, <1>6, <2>1, <2>2, <2>3
  <2>5. s.lastTs <= line.ts
    BY <1>1, <1>2, <2>1 DEF ReadState
  <2>6. At(R, n + 1, s)
    BY <1>1, <1>3, <2>1, <2>3, <2>4, <2>5, Onward
  <2>7. Exact(R, n, st, s)
    BY <1>1, <1>3, <1>8, <2>1, <2>2 DEF Exact
  <2> QED BY <2>6, <2>7
<1>10. CASE ~Log!IsReplay(t, line)
  <2>1. s = Log!Billed(c, line, d)
    BY <1>1, <1>3, <1>10 DEF Log!TokenCount
  <2>2. /\ d \in Log!Usage
        /\ line.reset # "unseen" =>
              /\ \A b \in Log!Buckets : b # "write" => d[b] = u[b]
              /\ t.totals["write"] = prev.total["write"] => d = u
        /\ line.last # << >> => d = u
    BY <1>1, <1>2, <1>4, DeltaForm
  <2>3. line.cum = << >> => Log!Plus(t.totals, d) = line.total
    <3>1. SUFFICES ASSUME line.cum = << >> PROVE Log!Plus(t.totals, d) = line.total
      OBVIOUS
    <3>2. d = u /\ how = "none" /\ line.reset # "unseen"
      BY <1>3, <2>2, <3>1 DEF CallOf
    <3>3. ~Unnoted(R, n - 1)
      <4>1. ~Counters(R, n - 1)
        BY <1>2, <3>1 DEF Follows
      <4>2. SUFFICES ASSUME Unnoted(R, n - 1) PROVE Counters(R, n - 1)
        BY <4>1
      <4>3. PICK k \in 1 .. n - 1 : R[k].reset = "unseen"
        BY <4>2 DEF Unnoted
      <4>4. k \in DOMAIN R
        BY <1>2, LineFacts
      <4>5. R[k].cum # << >>
        BY <4>3, <4>4 DEF LogOK, Follows
      <4> QED BY <4>3, <4>5 DEF Counters
    <3>4. \A b \in Log!Buckets : t.totals[b] = prev.total[b]
      BY <1>4, <1>5, <3>3
    <3>5. line.total = [b \in Log!Buckets |-> prev.total[b] + u[b]]
      BY <3>2 DEF CallOf, Fresh
    <3>6. Log!Plus(t.totals, d) = [b \in Log!Buckets |-> t.totals[b] + u[b]]
      BY <3>2 DEF Log!Plus
    <3> HIDE DEF t
    <3>7. [b \in Log!Buckets |-> t.totals[b] + u[b]] = [b \in Log!Buckets |-> prev.total[b] + u[b]]
      BY <3>4
    <3> QED BY <3>5, <3>6, <3>7
  <2> HIDE DEF t, d
  <2>4. /\ c \in ReadState /\ c.totals = line.total
        /\ c.model = t.model /\ c.lastTs = t.lastTs /\ c.prevLineTs = t.prevLineTs
        /\ c.events = t.events /\ (t.seenCumulative \/ line.cum # << >> => c.seenCumulative)
        /\ (c.seedActive <=> t.seedActive)
    <3>1. c = Log!Counted(t, line, d)
      OBVIOUS
    <3> HIDE DEF c
    <3> QED BY <1>1, <1>2, <1>3, <2>3, <3>1, CountedForm
  <2> HIDE DEF c
  <2>5. CASE d = Log!Nothing
    <3>1. s = c
      BY <2>1, <2>5 DEF Log!Billed
    <3>2. line.reset = "unseen"
      <4>1. "input" \in Log!Buckets /\ u["input"] > 0 /\ Log!Nothing["input"] = 0
        BY BucketForm
      <4> QED BY <2>2, <2>5, <4>1
    <3>3. s.lastTs <= line.ts
      BY <1>1, <1>2, <2>4, <3>1 DEF ReadState
    <3>4. At(R, n + 1, s)
      BY <1>1, <1>3, <2>4, <3>1, <3>3, Onward
    <3>5. Exact(R, n, st, s)
      BY <1>1, <1>3, <1>8, <2>4, <3>1, <3>2 DEF Exact
    <3> QED BY <3>4, <3>5
  <2>6. CASE d # Log!Nothing
    <3>1. s = Log!Emit(c, line, "assistant", f)
      <4>1. Log!Named(c, line) = c
        BY <1>3, <2>4, NamedForm
      <4> QED BY <1>1, <2>1, <2>4, <2>6, <4>1 DEF Log!Billed
    <3>2. /\ f \in Log!Usage /\ f["output"] = d["output"]
          /\ d["cached"] <= d["input"] =>
                f["cached"] = d["cached"] /\ f["input"] + f["write"] = d["input"] - d["cached"]
          /\ d["cached"] + d["write"] <= d["input"] =>
                f["write"] = d["write"] /\ f["input"] = d["input"] - d["cached"] - d["write"]
      BY <2>2, NormalForm
    <3> HIDE DEF f
    <3>3. c \in ReadState /\ line.ts \in Nat /\ f \in Log!Usage
      BY <1>2, <2>4, <3>2
    <3>4. EmittedRow(c, s, line, "assistant", f)
      BY <3>1, <3>3, EmitForm
    <3>5. /\ s \in ReadState
          /\ s.totals = c.totals /\ s.lastTs = line.ts /\ s.prevLineTs = c.prevLineTs
          /\ (s.seenCumulative <=> c.seenCumulative) /\ (s.seedActive <=> c.seedActive)
          /\ c.model # Log!NoModel => s.model = c.model
      BY <3>4 DEF EmittedRow
    <3>6. At(R, n + 1, s)
      BY <1>1, <1>2, <1>3, <2>4, <3>5, Onward
    <3>7. line.reset # "unseen" =>
             /\ Log!Whole(f) = Log!Whole(Log!Split(u))
             /\ ~Unnoted(R, n - 1) => f = Log!Split(u)
      <4> DEFINE g == Log!Split(u)
      <4>1. SUFFICES ASSUME line.reset # "unseen"
                     PROVE  Log!Whole(f) = Log!Whole(g) /\ (~Unnoted(R, n - 1) => f = g)
        OBVIOUS
      <4>2. /\ u \in Log!Usage /\ u["cached"] + u["write"] <= u["input"]
            /\ u["input"] \in Nat /\ u["cached"] \in Nat /\ u["write"] \in Nat
        BY BucketForm DEF Log!Usage, Log!Buckets
      <4>3. /\ g \in Log!Usage /\ g["input"] = u["input"] - u["cached"] - u["write"]
            /\ g["cached"] = u["cached"] /\ g["write"] = u["write"] /\ g["output"] = u["output"]
        BY SplitForm
      <4> HIDE DEF g
      <4>4. d["input"] = u["input"] /\ d["cached"] = u["cached"] /\ d["output"] = u["output"]
        BY <2>2, <4>1 DEF Log!Buckets
      <4>5. Log!Whole(f) = Log!Whole(g)
        <5>1. /\ f["cached"] = g["cached"] /\ f["output"] = g["output"]
              /\ f["input"] + f["write"] = u["input"] - u["cached"]
          BY <3>2, <4>2, <4>3, <4>4
        <5>2. g["input"] + g["write"] = u["input"] - u["cached"]
          BY <4>2, <4>3
        <5> QED BY <3>2, <4>3, <5>1, <5>2, WholeForm
      <4>6. ASSUME ~Unnoted(R, n - 1) PROVE f = g
        <5>1. d = u
          BY <1>5, <2>2, <4>1, <4>6
        <5>2. /\ f["cached"] = g["cached"] /\ f["output"] = g["output"]
              /\ f["write"] = g["write"] /\ f["input"] = g["input"]
          BY <3>2, <4>2, <4>3, <5>1
        <5> QED BY <3>2, <4>3, <5>2, SameUsage
      <4> QED BY <4>5, <4>6
    <3>8. PICK row \in Row :
             /\ s.events = Append(c.events, row)
             /\ line.ts # c.lastTs => row.id = <<"assistant", line.ts, 0>>
             /\ row.usage = f
             /\ c.model # Log!NoModel => row.model = c.model
      BY <3>4 DEF EmittedRow
    <3>9. /\ s.events = Append(st.events, row) /\ row.id = <<"assistant", line.ts, 0>>
          /\ row.usage = f
      <4>1. c.lastTs <= prev.ts /\ c.lastTs \in Int /\ c.events = st.events
        BY <1>1, <2>4 DEF ReadState
      <4>2. line.ts # c.lastTs
        BY <1>2, <1>7, <4>1
      <4> QED BY <3>8, <4>1, <4>2
    <3>10. \A k \in 1 .. n : LastNaming(R, k, n) => row.model = R[k].model
      <4>1. SUFFICES ASSUME NEW k \in 1 .. n, LastNaming(R, k, n) PROVE row.model = R[k].model
        OBVIOUS
      <4>2. k \in 1 .. n - 1 /\ LastNaming(R, k, n - 1)
        BY <1>2, <1>3, <4>1, NamingNext
      <4>3. st.model = R[k].model
        BY <4>2 DEF At
      <4>4. R[k].model # Log!NoModel
        BY <4>2 DEF LastNaming, Names
      <4> QED BY <1>1, <2>4, <3>8, <4>3, <4>4
    <3>11. Exact(R, n, st, s)
      BY <1>3, <1>8, <3>7, <3>9, <3>10 DEF Exact
    <3> QED BY <3>6, <3>11
  <2> QED BY <2>5, <2>6
<1> QED BY <1>9, <1>10

\* One line: a read that has got to it with the right counters bills it as the API did and
\* gets to the next with the right counters.
LEMMA LineStep ==
    ASSUME Log!CodexAssumption, NEW R, LogOK(R), NEW n \in DOMAIN R, NEW st, At(R, n, st),
           NEW o, n = 1 => o = 0, NEW s, s = Log!ParseLine(st, R[n], o)
    PROVE  At(R, n + 1, s) /\ Exact(R, n, st, s)
<1> DEFINE line == R[n]
           prev == LineBefore(R, n)
<1>1. LineOK(prev, line) /\ line \in Log!LineType
  BY LineFacts
<1>2. line.kind \in {"session_meta", "turn_context", "prompt", "token_count", "other"}
  BY <1>1 DEF Log!LineType
<1>3. CASE line.kind = "session_meta"
  BY <1>3, MetaStep
<1>4. CASE line.kind \in {"turn_context", "other"}
  BY <1>4, QuietStep
<1>5. CASE line.kind = "prompt"
  BY <1>5, PromptStep
<1>6. CASE line.kind = "token_count"
  <2>1. CASE Copied(line)
    BY <1>6, <2>1, CopiedStep
  <2>2. CASE ~Copied(line)
    <3>1. Call(prev, line) \/ Replay(prev, line)
      BY <1>1, <1>6, <2>2 DEF LineOK, Plain
    <3>2. CASE Replay(prev, line)
      BY <1>6, <2>2, <3>2, ReplayStep
    <3>3. CASE Call(prev, line)
      <4>1. PICK u \in Usages, how \in {"none", "written", "all"} : CallOf(prev, line, u, how)
        BY <3>3 DEF Call
      <4> QED BY <1>6, <2>2, <4>1, CallStep
    <3> QED BY <3>1, <3>2, <3>3
  <2> QED BY <2>1, <2>2
<1> QED BY <1>2, <1>3, <1>4, <1>5, <1>6
-----------------------------------------------------------------------------
(* A rollout as Codex writes it.                                           *)

\* Only the lines before it decide what may follow.
LEMMA FollowsSame ==
    ASSUME NEW L1, NEW L2, NEW m \in Nat, \A k \in 1 .. m : L1[k] = L2[k], NEW line,
           Follows(L1, m, line)
    PROVE  Follows(L2, m, line)
<1>1. LineBefore(L1, m + 1) = LineBefore(L2, m + 1)
  BY DEF LineBefore
<1>2. Counters(L1, m) <=> Counters(L2, m)
  BY DEF Counters
<1>3. Unnoted(L2, m) => Unnoted(L1, m)
  <2>1. SUFFICES ASSUME NEW k \in 1 .. m, L2[k].reset = "unseen",
                        \A j \in k + 1 .. m : L2[j].kind # "token_count"
                 PROVE  Unnoted(L1, m)
    BY DEF Unnoted
  <2>2. L1[k].reset = "unseen" /\ \A j \in k + 1 .. m : L1[j].kind # "token_count"
    BY <2>1
  <2> QED BY <2>2 DEF Unnoted
<1> QED BY <1>1, <1>2, <1>3 DEF Follows

\* A rollout stays one when a line that may follow is appended.
LEMMA Recorded ==
    ASSUME NEW R, LogOK(R), NEW line, NextOK(R, line)
    PROVE  LogOK(Append(R, line))
<1> DEFINE M == Append(R, line)
           len == Len(R) + 1
<1>1. /\ R \in Seq(Log!LineType) /\ Len(R) \in Nat /\ DOMAIN R = 1 .. Len(R)
      /\ line \in Log!LineType /\ Follows(R, Len(R), line) /\ ~Copied(line)
  BY DEF LogOK, NextOK
<1>2. /\ M \in Seq(Log!LineType) /\ Len(M) = len /\ DOMAIN M = 1 .. len /\ M[len] = line
      /\ \A k \in 1 .. Len(R) : M[k] = R[k]
  BY <1>1
<1> HIDE DEF M
<1>3. /\ LineOK(LineBefore(R, len), line) /\ len - 1 = Len(R)
      /\ R # << >> => LineBefore(R, len) = R[Len(R)]
  BY <1>1 DEF Follows, LineBefore
<1>4. line.kind # "session_meta" /\ (line.kind # "token_count" => Plain(LineBefore(R, len), line))
  BY <1>1, <1>3 DEF LineOK, Call, CallOf, Replay
<1>5. ASSUME NEW n \in 1 .. len
      PROVE  /\ Follows(M, n - 1, M[n])
             /\ M[n].kind = "session_meta" <=> n = 1 /\ Copied(M[n])
             /\ (\A k \in n + 1 .. len : M[k].kind # "token_count") => M[n].total = M[len].total
  <2>1. CASE n = len
    <3>1. Follows(M, n - 1, M[n])
      BY <1>1, <1>2, <1>3, <2>1, FollowsSame
    <3> QED BY <1>1, <1>2, <1>4, <2>1, <3>1
  <2>2. CASE n # len
    <3>1. n \in DOMAIN R /\ n - 1 \in Nat /\ \A k \in 1 .. n - 1 : k \in 1 .. Len(R)
      BY <1>1, <2>2
    <3>2. M[n] = R[n]
      BY <1>1, <1>2, <3>1
    <3>3. Follows(M, n - 1, M[n])
      <4>1. Follows(R, n - 1, R[n])
        BY <3>1 DEF LogOK
      <4> QED BY <1>2, <3>1, <3>2, <4>1, FollowsSame
    <3>4. M[n].kind = "session_meta" <=> n = 1 /\ Copied(M[n])
      BY <3>1, <3>2 DEF LogOK
    <3>5. ASSUME \A k \in n + 1 .. len : M[k].kind # "token_count"
          PROVE  M[n].total = M[len].total
      <4>1. len \in n + 1 .. len
        BY <1>1, <2>2
      <4>2. line.total = LineBefore(R, len).total
        BY <1>2, <1>4, <3>5, <4>1 DEF Plain
      <4>3. R # << >>
        BY <1>1, <3>1
      <4>4. \A k \in n + 1 .. Len(R) : k \in n + 1 .. len /\ M[k] = R[k]
        BY <1>1, <1>2, <3>1
      <4>5. R[n].total = R[Len(R)].total
        BY <3>1, <3>5, <4>4 DEF LogOK
      <4> QED BY <1>2, <1>3, <3>2, <4>2, <4>3, <4>5
    <3> QED BY <3>3, <3>4, <3>5
  <2> QED BY <2>1, <2>2
<1>6. M # << >> /\ Copied(M[Len(M)]) => M[Len(M)].kind # "prompt"
  BY <1>1, <1>2
<1>7. LogOK(M)
  BY <1>2, <1>5, <1>6 DEF LogOK
<1> QED BY <1>7 DEF M

\* Before is the last line Codex wrote.
LEMMA BeforeForm ==
    ASSUME Log!CodexAssumption, LogOK(log)
    PROVE  /\ Len(log) \in Nat /\ Log!Before = LineBefore(log, Len(log) + 1)
           /\ Log!Before \in Log!LineType /\ Log!Before.total \in Log!Usage /\ Log!Before.ts \in Nat
           /\ log # << >> => Log!Before = log[Len(log)]
<1>1. log \in Seq(Log!LineType) /\ Len(log) \in Nat
  BY DEF LogOK
<1>2. Log!Before = LineBefore(log, Len(log) + 1) /\ (log # << >> => Log!Before = log[Len(log)])
  BY <1>1 DEF Log!Before, LineBefore, Log!Last
<1>3. Log!Before \in Log!LineType
  BY <1>1, BlankForm DEF Log!Before, Log!Last
<1> QED BY <1>1, <1>2, <1>3 DEF Log!LineType

\* A line that is no call may follow.
LEMMA PlainNext ==
    ASSUME Log!CodexAssumption, LogOK(log), NEW line \in Log!LineType,
           line.kind \in {"turn_context", "prompt", "other"}, line.total = Log!Before.total,
           line.cum = << >>, line.real = Log!Nothing, line.reset = "no",
           \/ line.ts = Log!Before.ts + 2
           \/ line.kind = "prompt" /\ Log!Before.kind = "prompt" /\ line.ts = Log!Before.ts
    PROVE  NextOK(log, line)
<1>1. /\ Log!Before = LineBefore(log, Len(log) + 1) /\ Log!Before.total \in Log!Usage /\ Log!Before.ts \in Nat
      /\ log # << >> => Log!Before = log[Len(log)]
  BY BeforeForm
<1>2. line.ts \in Nat /\ line.model \in Models \cup {Log!NoModel}
  BY DEF Log!LineType
<1>3. Log!Before.kind = "prompt" => ~Copied(Log!Before)
  BY <1>1, BlankForm DEF Log!Before, LogOK
<1>4. ~Copied(line)
  BY <1>1, <1>3 DEF Copied
<1>5. Plain(Log!Before, line)
  BY DEF Plain
<1>6. LineOK(Log!Before, line)
  BY <1>1, <1>2, <1>3, <1>4, <1>5 DEF LineOK
<1> QED BY <1>1, <1>4, <1>6 DEF NextOK, Follows

\* A count logged again.
LEMMA ReplayNext ==
    ASSUME Log!CodexAssumption, LogOK(log), NEW n \in DOMAIN log, log[n].kind = "token_count",
           log[n].last # << >>, log[n].cum # << >>,
           \A k \in n + 1 .. Len(log) : log[k].kind # "token_count",
           NEW line, line = [log[n] EXCEPT !.ts = Log!Before.ts + 2, !.real = Log!Nothing]
    PROVE  NextOK(log, line)
<1>1. /\ Log!Before = LineBefore(log, Len(log) + 1) /\ Log!Before.total \in Log!Usage /\ Log!Before.ts \in Nat
      /\ log # << >> => Log!Before = log[Len(log)]
  BY BeforeForm
<1>2. /\ n \in Nat /\ n >= 1 /\ n <= Len(log) /\ Len(log) \in Nat /\ DOMAIN log = 1 .. Len(log)
      /\ log[n] \in Log!LineType /\ Follows(log, n - 1, log[n])
      /\ LineOK(LineBefore(log, n), log[n])
  BY LineFacts
<1>3. /\ line \in Log!LineType /\ line.kind = "token_count" /\ line.last # << >>
      /\ line.cum = log[n].cum /\ line.total = log[n].total /\ line.reset = log[n].reset
      /\ line.model = log[n].model /\ line.ts = Log!Before.ts + 2 /\ line.real = Log!Nothing
  <2> DEFINE a == log[n]
             t == Log!Before.ts + 2
  <2>1. a \in Log!LineType /\ t \in Nat /\ Log!Nothing \in Log!Usage
    BY <1>1, <1>2, BucketForm
  <2>2. line = [a EXCEPT !.ts = t, !.real = Log!Nothing] /\ a.kind = "token_count" /\ a.last # << >>
    OBVIOUS
  <2> HIDE DEF a, t
  <2>3. line \in Log!LineType
    BY <2>1, <2>2 DEF Log!LineType
  <2>4. /\ line.kind = a.kind /\ line.last = a.last /\ line.cum = a.cum /\ line.total = a.total
        /\ line.reset = a.reset /\ line.model = a.model /\ line.ts = t /\ line.real = Log!Nothing
    BY <2>1, <2>2 DEF Log!LineType
  <2> QED BY <2>2, <2>3, <2>4 DEF a, t
<1>4. line.total = Log!Before.total
  <2>1. log # << >>
    BY <1>2
  <2>2. log[n].total = log[Len(log)].total
    BY DEF LogOK
  <2> QED BY <1>1, <1>3, <2>1, <2>2
<1>5. log[n].model = Log!NoModel /\ log[n].cum = <<log[n].total>>
  BY <1>2 DEF LineOK, Plain, CopiedCall, Call, CallOf, Replay, Follows
<1>6. Replay(Log!Before, line)
  BY <1>3, <1>4, <1>5 DEF Replay
<1>7. Counters(log, Len(log))
  BY <1>2 DEF Counters
<1>8. ASSUME Unnoted(log, Len(log)) PROVE line.reset = "unseen"
  <2>1. PICK k \in 1 .. Len(log) :
           log[k].reset = "unseen" /\ \A j \in k + 1 .. Len(log) : log[j].kind # "token_count"
    BY <1>8 DEF Unnoted
  <2>2. log[k].kind = "token_count"
    BY <1>2, <2>1 DEF LogOK, Follows
  <2>3. k = n
    <3>1. ~(k < n)
      BY <1>2, <2>1
    <3>2. ~(n < k)
      BY <1>2, <2>1, <2>2
    <3> QED BY <1>2, <3>1, <3>2
  <2> QED BY <1>3, <2>1, <2>3
<1>9. ~Copied(line)
  BY <1>1, <1>3 DEF Copied
<1>10. LineOK(Log!Before, line)
  BY <1>1, <1>3, <1>4, <1>5, <1>6, <1>9 DEF LineOK
<1> QED BY <1>1, <1>3, <1>4, <1>5, <1>7, <1>8, <1>9, <1>10 DEF NextOK, Follows

\* How far a reset goes.
How(fresh) == IF fresh = {} THEN "none" ELSE IF fresh = {"write"} THEN "written" ELSE "all"

\* The sets of counters that start over, by name.
LEMMA HowForm ==
    ASSUME NEW fresh, fresh \in {{}, {"write"}, Log!Buckets}
    PROVE  /\ How(fresh) \in {"none", "written", "all"}
           /\ \A b \in Log!Buckets : Fresh(How(fresh), b) <=> b \in fresh
           /\ How(fresh) = "none" <=> fresh = {}
           /\ How(fresh) = "written" <=> fresh = {"write"}
<1>1. {"write"} # {} /\ "input" \in Log!Buckets /\ "input" \notin {"write"} /\ "write" \in Log!Buckets
  BY DEF Log!Buckets
<1>2. CASE fresh = {}
  BY <1>2 DEF How, Fresh
<1>3. CASE fresh = {"write"}
  BY <1>1, <1>3 DEF How, Fresh
<1>4. CASE fresh = Log!Buckets
  BY <1>1, <1>4 DEF How, Fresh
<1> QED BY <1>2, <1>3, <1>4

\* The line Codex starts from.
LEMMA NextForm ==
    ASSUME Log!CodexAssumption, LogOK(log), NEW kind \in {"turn_context", "prompt", "token_count", "other"},
           NEW line, line = Log!NextLine(kind)
    PROVE  /\ line \in Log!LineType /\ line.kind = kind /\ line.model = Log!NoModel
           /\ line.ts = Log!Before.ts + 2 /\ line.total = Log!Before.total /\ line.cum = << >>
           /\ line.real = Log!Nothing /\ line.reset = "no"
<1>1. Log!Before.total \in Log!Usage /\ Log!Before.ts \in Nat /\ Log!Nothing \in Log!Usage
  BY BeforeForm, BucketForm
<1>2. line = [Log!BlankLine EXCEPT !.kind = kind, !.ts = Log!Before.ts + 2, !.total = Log!Before.total]
  BY DEF Log!NextLine
<1>3. line = [kind |-> kind, ts |-> Log!Before.ts + 2, bytes |-> 1, model |-> Log!NoModel,
              forked |-> FALSE, last |-> << >>, cum |-> << >>, real |-> Log!Nothing,
              total |-> Log!Before.total, reset |-> "no"]
  BY <1>2 DEF Log!BlankLine
<1>4. << >> \in Seq(Log!Usage)
  OBVIOUS
<1> QED BY <1>1, <1>3, <1>4 DEF Log!LineType

\* A call, logged in the format of the calls before it.
LEMMA CallNext ==
    ASSUME Log!CodexAssumption, LogOK(log), NEW u \in Usages, NEW fields \in SUBSET {"last", "cum"}, fields # {},
           \A n \in DOMAIN log : log[n].kind = "token_count" => Log!Fields(log[n]) = fields,
           NEW fresh \in {{}, {"write"}, Log!Buckets}, fresh # {} => "cum" \in fields,
           NEW line, line = Log!CallLine(u, fields, fresh)
    PROVE  NextOK(log, line)
<1> DEFINE total == [b \in Log!Buckets |-> IF b \in fresh THEN u[b] ELSE Log!Before.total[b] + u[b]]
           lower == {b \in Log!Buckets : total[b] < Log!Before.total[b]}
           moved == {b \in Log!Buckets \ {"write"} : total[b] # Log!Before.total[b]}
           shows == IF "last" \in fields THEN moved # {}
                    ELSE lower # {} /\ (fresh = {"write"} \/ lower # {"write"})
           last == IF "last" \in fields THEN <<u>> ELSE << >>
           cum == IF "cum" \in fields THEN <<total>> ELSE << >>
           reset == IF fresh = {} THEN "no" ELSE IF shows THEN "seen" ELSE "unseen"
           how == How(fresh)
<1>0. "last" \in fields \/ "cum" \in fields
  OBVIOUS
<1>1. /\ Log!Before = LineBefore(log, Len(log) + 1) /\ Log!Before.total \in Log!Usage /\ Log!Before.ts \in Nat
      /\ Log!Before \in Log!LineType /\ Len(log) \in Nat
  BY BeforeForm
<1>2. u \in Log!Usage /\ u # Log!Nothing
  BY BucketForm DEF Log!CodexAssumption
<1>3. total \in Log!Usage
  <2>1. \A b \in Log!Buckets : u[b] \in Nat /\ Log!Before.total[b] \in Nat
    BY <1>1, <1>2 DEF Log!Usage
  <2>2. \A b \in Log!Buckets : (IF b \in fresh THEN u[b] ELSE Log!Before.total[b] + u[b]) \in Nat
    BY <2>1
  <2> QED BY <2>2 DEF Log!Usage
<1>4. last \in Seq(Log!Usage) /\ cum \in Seq(Log!Usage)
  BY <1>2, <1>3
<1>5. line = [Log!NextLine("token_count") EXCEPT !.last = last, !.cum = cum, !.real = u,
                                             !.total = total, !.reset = reset]
  BY DEF Log!CallLine
<1>6. reset \in {"no", "seen", "unseen"}
  OBVIOUS
<1>7. /\ last = IF "last" \in fields THEN <<u>> ELSE << >>
      /\ cum = IF "cum" \in fields THEN <<total>> ELSE << >>
      /\ total = [b \in Log!Buckets |-> IF b \in fresh THEN u[b] ELSE Log!Before.total[b] + u[b]]
      /\ reset # "no" => fresh # {}
      /\ reset # "unseen" /\ fresh # {} => shows
  OBVIOUS
<1>8. /\ shows /\ "last" \in fields => \E b \in Log!Buckets \ {"write"} : total[b] # Log!Before.total[b]
      /\ shows /\ "last" \notin fields =>
            \/ fresh = {"write"} /\ \E b \in Log!Buckets : total[b] < Log!Before.total[b]
            \/ \E b \in Log!Buckets \ {"write"} : total[b] < Log!Before.total[b]
  <2>1. shows /\ "last" \in fields => \E b \in Log!Buckets \ {"write"} : total[b] # Log!Before.total[b]
    <3> HIDE DEF total
    <3> QED OBVIOUS
  <2>2. ASSUME shows, "last" \notin fields
        PROVE  \/ fresh = {"write"} /\ \E b \in Log!Buckets : total[b] < Log!Before.total[b]
               \/ \E b \in Log!Buckets \ {"write"} : total[b] < Log!Before.total[b]
    <3>1. lower # {} /\ (fresh = {"write"} \/ lower # {"write"})
      BY <2>2
    <3>2. /\ \E b \in Log!Buckets : total[b] < Log!Before.total[b]
          /\ \A b \in lower : b \in Log!Buckets /\ total[b] < Log!Before.total[b]
      BY <3>1
    <3> HIDE DEF total, lower
    <3> QED BY <3>1, <3>2
  <2> QED BY <2>1, <2>2
<1> HIDE DEF total, lower, moved, shows, last, cum, reset
<1>9. /\ line \in Log!LineType /\ line.kind = "token_count" /\ line.last = last /\ line.cum = cum
      /\ line.total = total /\ line.real = u /\ line.reset = reset
      /\ line.model = Log!NoModel /\ line.ts = Log!Before.ts + 2
  <2> DEFINE a == Log!NextLine("token_count")
  <2>1. /\ a \in Log!LineType /\ a.kind = "token_count" /\ a.model = Log!NoModel /\ a.ts = Log!Before.ts + 2
    BY <1>1, NextForm
  <2>2. line = [a EXCEPT !.last = last, !.cum = cum, !.real = u, !.total = total, !.reset = reset]
    BY <1>5
  <2> HIDE DEF a
  <2>3. line \in Log!LineType
    BY <1>2, <1>3, <1>4, <1>6, <2>1, <2>2 DEF Log!LineType
  <2>4. /\ line.kind = a.kind /\ line.last = last /\ line.cum = cum
        /\ line.total = total /\ line.real = u /\ line.reset = reset
        /\ line.model = a.model /\ line.ts = a.ts
    BY <2>1, <2>2 DEF Log!LineType
  <2> QED BY <2>1, <2>3, <2>4
<1>10. /\ how \in {"none", "written", "all"}
       /\ \A b \in Log!Buckets : Fresh(how, b) <=> b \in fresh
       /\ how = "none" <=> fresh = {}
       /\ how = "written" <=> fresh = {"write"}
  BY HowForm
<1> HIDE DEF how
<1>11. CallOf(Log!Before, line, u, how)
  <2>1. line.total = [b \in Log!Buckets |-> IF Fresh(how, b) THEN u[b] ELSE Log!Before.total[b] + u[b]]
    BY <1>7, <1>9, <1>10
  <2>2. /\ line.last \in {<< >>, <<u>>} /\ line.cum \in {<< >>, <<line.total>>}
        /\ line.last # << >> \/ line.cum # << >>
        /\ "cum" \in fields => line.cum # << >>
        /\ "last" \in fields <=> line.last # << >>
    <3>1. "last" \in fields \/ "cum" \in fields
      BY <1>0
    <3>2. <<u>> # << >> /\ <<total>> # << >>
      OBVIOUS
    <3>3. /\ line.last = IF "last" \in fields THEN <<u>> ELSE << >>
          /\ line.cum = IF "cum" \in fields THEN <<line.total>> ELSE << >>
      BY <1>7, <1>9
    <3> QED BY <3>1, <3>2, <3>3, <1>9
  <2>3. how # "none" \/ line.reset = "unseen" => line.cum # << >>
    BY <1>7, <1>9, <1>10, <2>2
  <2>4. ASSUME line.reset # "unseen", how # "none"
        PROVE  IF line.last # << >>
                 THEN \E b \in Log!Buckets \ {"write"} : line.total[b] # Log!Before.total[b]
                 ELSE \/ how = "written" /\ line.total["write"] < Log!Before.total["write"]
                      \/ \E b \in Log!Buckets \ {"write"} : line.total[b] < Log!Before.total[b]
    <3>1. shows
      BY <1>7, <1>9, <1>10, <2>4
    <3>2. CASE "last" \in fields
      BY <1>8, <1>9, <2>2, <3>1, <3>2
    <3>3. CASE "last" \notin fields
      BY <1>8, <1>9, <1>10, <2>2, <3>1, <3>3
    <3> QED BY <3>2, <3>3
  <2> QED BY <1>9, <2>1, <2>2, <2>3, <2>4 DEF CallOf
<1>12. ~Copied(line)
  BY <1>1, <1>9 DEF Copied
<1>13. LineOK(Log!Before, line)
  <2>1. line.total \in Log!Usage /\ line.ts \in Nat /\ line.model \in Models \cup {Log!NoModel}
    BY <1>3, <1>9, <1>1
  <2>2. Call(Log!Before, line)
    BY <1>10, <1>11 DEF Call
  <2> QED BY <1>1, <1>9, <1>12, <2>1, <2>2 DEF LineOK
<1>14. line.cum = <<line.total>> \/ (line.cum = << >> /\ ~Counters(log, Len(log)))
  <2>1. CASE "cum" \in fields
    BY <1>7, <1>9, <2>1
  <2>2. CASE "cum" \notin fields
    <3>1. line.cum = << >>
      BY <1>7, <1>9, <2>2
    <3>2. SUFFICES ASSUME NEW k \in 1 .. Len(log), log[k].cum # << >> PROVE FALSE
      BY <3>1 DEF Counters
    <3>3. k \in DOMAIN log
      BY DEF LogOK
    <3>4. LineOK(LineBefore(log, k), log[k])
      BY <3>3, LineFacts
    <3>5. log[k].kind = "token_count"
      BY <3>2, <3>4 DEF LineOK, Plain, CopiedCall, Call, CallOf, Replay
    <3>6. Log!Fields(log[k]) = fields
      BY <3>3, <3>5
    <3>7. "cum" \in Log!Fields(log[k])
      BY <3>2 DEF Log!Fields
    <3> QED BY <2>2, <3>6, <3>7
  <2> QED BY <2>1, <2>2
<1>15. line.reset = "unseen" => line.cum # << >>
  BY <1>7, <1>9
<1> QED BY <1>1, <1>2, <1>9, <1>12, <1>13, <1>14, <1>15 DEF NextOK, Follows

\* The lines of the log a fork starts with.
FirstLine == [Log!BlankLine EXCEPT !.kind = "session_meta", !.forked = TRUE]
PromptLine == [Log!BlankLine EXCEPT !.kind = "prompt"]
TurnLine(m) == [Log!BlankLine EXCEPT !.kind = "turn_context", !.model = m]
CountLine(u) == [Log!BlankLine EXCEPT !.kind = "token_count", !.last = <<u>>, !.cum = <<u>>,
                                  !.total = u]

\* The first line of a fork.
LEMMA FirstForm ==
    ASSUME Log!CodexAssumption
    PROVE  /\ FirstLine \in Log!LineType /\ FirstLine.kind = "session_meta" /\ FirstLine.ts = 0
           /\ FirstLine.model = Log!NoModel /\ FirstLine.total = Log!Nothing /\ FirstLine.cum = << >>
           /\ FirstLine.real = Log!Nothing /\ FirstLine.reset = "no" /\ FirstLine.forked
<1> DEFINE r == [kind |-> "session_meta", ts |-> 0, bytes |-> 1, model |-> Log!NoModel, forked |-> TRUE,
             last |-> << >>, cum |-> << >>, real |-> Log!Nothing, total |-> Log!Nothing, reset |-> "no"]
<1>1. FirstLine = r
  <2>1. ASSUME NEW line, line = FirstLine PROVE line = r
    BY <2>1 DEF FirstLine, Log!BlankLine
  <2> QED BY <2>1
<1>2. << >> \in Seq(Log!Usage) /\ Log!Nothing \in Log!Usage
  BY BucketForm
<1>3. FirstLine \in Log!LineType
  BY <1>1, <1>2 DEF Log!LineType
<1> QED BY <1>1, <1>3

\* The prompt a fork copies.
LEMMA PromptForm ==
    ASSUME Log!CodexAssumption
    PROVE  /\ PromptLine \in Log!LineType /\ PromptLine.kind = "prompt" /\ PromptLine.ts = 0
           /\ PromptLine.model = Log!NoModel /\ PromptLine.total = Log!Nothing /\ PromptLine.cum = << >>
           /\ PromptLine.real = Log!Nothing /\ PromptLine.reset = "no"
<1> DEFINE r == [kind |-> "prompt", ts |-> 0, bytes |-> 1, model |-> Log!NoModel, forked |-> FALSE,
             last |-> << >>, cum |-> << >>, real |-> Log!Nothing, total |-> Log!Nothing, reset |-> "no"]
<1>1. PromptLine = r
  <2>1. ASSUME NEW line, line = PromptLine PROVE line = r
    BY <2>1 DEF PromptLine, Log!BlankLine
  <2> QED BY <2>1
<1>2. << >> \in Seq(Log!Usage) /\ Log!Nothing \in Log!Usage
  BY BucketForm
<1>3. PromptLine \in Log!LineType
  BY <1>1, <1>2 DEF Log!LineType
<1> QED BY <1>1, <1>3

\* The turn a fork copies.
LEMMA TurnForm ==
    ASSUME Log!CodexAssumption, NEW m \in Models
    PROVE  /\ TurnLine(m) \in Log!LineType /\ TurnLine(m).kind = "turn_context" /\ TurnLine(m).ts = 0
           /\ TurnLine(m).model = m /\ TurnLine(m).total = Log!Nothing /\ TurnLine(m).cum = << >>
           /\ TurnLine(m).real = Log!Nothing /\ TurnLine(m).reset = "no"
<1> DEFINE r == [kind |-> "turn_context", ts |-> 0, bytes |-> 1, model |-> m, forked |-> FALSE,
             last |-> << >>, cum |-> << >>, real |-> Log!Nothing, total |-> Log!Nothing, reset |-> "no"]
<1>1. TurnLine(m) = r
  <2>1. ASSUME NEW line, line = TurnLine(m) PROVE line = r
    BY <2>1 DEF TurnLine, Log!BlankLine
  <2> QED BY <2>1
<1>2. << >> \in Seq(Log!Usage) /\ Log!Nothing \in Log!Usage
  BY BucketForm
<1>3. TurnLine(m) \in Log!LineType
  BY <1>1, <1>2 DEF Log!LineType
<1> QED BY <1>1, <1>3

\* The counters a fork copies.
LEMMA CountForm ==
    ASSUME Log!CodexAssumption, NEW u \in Log!Usage
    PROVE  /\ CountLine(u) \in Log!LineType /\ CountLine(u).kind = "token_count" /\ CountLine(u).ts = 0
           /\ CountLine(u).model = Log!NoModel /\ CountLine(u).total = u /\ CountLine(u).cum = <<u>>
           /\ CountLine(u).real = Log!Nothing /\ CountLine(u).reset = "no" /\ CountLine(u).last = <<u>>
<1> DEFINE r == [kind |-> "token_count", ts |-> 0, bytes |-> 1, model |-> Log!NoModel, forked |-> FALSE,
             last |-> <<u>>, cum |-> <<u>>, real |-> Log!Nothing, total |-> u, reset |-> "no"]
<1>1. CountLine(u) = r
  <2>1. ASSUME NEW line, line = CountLine(u) PROVE line = r
    BY <2>1 DEF CountLine, Log!BlankLine
  <2> QED BY <2>1
<1>2. <<u>> \in Seq(Log!Usage) /\ Log!Nothing \in Log!Usage
  BY BucketForm
<1>3. CountLine(u) \in Log!LineType
  BY <1>1, <1>2 DEF Log!LineType
<1> QED BY <1>1, <1>3

\* The log a fork starts with.
LEMMA SeedOK ==
    ASSUME Log!CodexAssumption, NEW R \in Log!Seed
    PROVE  LogOK(R)
<1> DEFINE u == CHOOSE v \in Usages : TRUE
           m == CHOOSE x \in Models : TRUE
           first == FirstLine
           prompt == PromptLine
           turn == TurnLine(m)
           count == CountLine(u)
<1>1. u \in Usages /\ m \in Models /\ u \in Log!Usage /\ Log!Nothing \in Log!Usage
  BY BucketForm DEF Log!CodexAssumption
<1>2. PICK second \in {prompt, turn} : R = <<first, second, count>>
  BY DEF Log!Seed, FirstLine, PromptLine, TurnLine, CountLine
<1> HIDE DEF u, m
<1>3. /\ first \in Log!LineType /\ first.kind = "session_meta" /\ first.forked /\ first.ts = 0
      /\ first.total = Log!Nothing /\ first.cum = << >> /\ first.real = Log!Nothing
      /\ first.model = Log!NoModel /\ first.reset = "no"
  BY <1>1, FirstForm
<1>4. /\ second \in Log!LineType /\ second.kind \in {"prompt", "turn_context"} /\ second.ts = 0
      /\ second.total = Log!Nothing /\ second.cum = << >> /\ second.real = Log!Nothing
      /\ second.model \in Models \cup {Log!NoModel} /\ second.reset = "no"
  <2>1. /\ prompt \in Log!LineType /\ prompt.kind = "prompt" /\ prompt.ts = 0
        /\ prompt.total = Log!Nothing /\ prompt.cum = << >> /\ prompt.real = Log!Nothing
        /\ prompt.model = Log!NoModel /\ prompt.reset = "no"
    BY <1>1, PromptForm
  <2>2. /\ turn \in Log!LineType /\ turn.kind = "turn_context" /\ turn.ts = 0
        /\ turn.total = Log!Nothing /\ turn.cum = << >> /\ turn.real = Log!Nothing
        /\ turn.model = m /\ turn.reset = "no"
    BY <1>1, TurnForm
  <2> HIDE DEF prompt, turn
  <2> QED BY <1>1, <2>1, <2>2
<1>5. /\ count \in Log!LineType /\ count.kind = "token_count" /\ count.ts = 0
      /\ count.last = <<u>> /\ count.cum = <<u>> /\ count.total = u /\ count.real = Log!Nothing
      /\ count.model = Log!NoModel /\ count.reset = "no"
  BY <1>1, CountForm
<1> HIDE DEF first, prompt, turn, count
<1>6. /\ R \in Seq(Log!LineType) /\ Len(R) = 3 /\ DOMAIN R = 1 .. 3
      /\ R[1] = first /\ R[2] = second /\ R[3] = count
  BY <1>2, <1>3, <1>4, <1>5
<1>7. Follows(R, 0, first)
  <2>1. LineBefore(R, 0 + 1) = Log!BlankLine
    BY DEF LineBefore
  <2>2. LineOK(Log!BlankLine, first)
    BY <1>1, <1>3, BlankForm DEF LineOK, Plain, Copied
  <2> QED BY <1>3, <2>1, <2>2 DEF Follows
<1>8. Follows(R, 1, second)
  <2>1. LineBefore(R, 1 + 1) = first
    BY <1>6 DEF LineBefore
  <2>2. LineOK(first, second)
    BY <1>1, <1>3, <1>4 DEF LineOK, Plain, Copied
  <2> QED BY <1>4, <2>1, <2>2 DEF Follows
<1>9. Follows(R, 2, count)
  <2>1. LineBefore(R, 2 + 1) = second
    BY <1>6 DEF LineBefore
  <2>2. LineOK(second, count)
    BY <1>1, <1>4, <1>5 DEF LineOK, CopiedCall, Copied
  <2> QED BY <1>5, <2>1, <2>2 DEF Follows, Copied
<1>10. ASSUME NEW n \in 1 .. 3
       PROVE  /\ Follows(R, n - 1, R[n])
              /\ R[n].kind = "session_meta" <=> n = 1 /\ Copied(R[n])
              /\ (\A k \in n + 1 .. Len(R) : R[k].kind # "token_count") => R[n].total = R[Len(R)].total
  <2>1. CASE n = 1
    <3>1. 3 \in n + 1 .. Len(R)
      BY <1>6, <2>1
    <3>2. n - 1 = 0
      BY <2>1
    <3> QED BY <1>3, <1>5, <1>6, <1>7, <2>1, <3>1, <3>2 DEF Copied
  <2>2. CASE n = 2
    <3>1. 3 \in n + 1 .. Len(R)
      BY <1>6, <2>2
    <3>2. n - 1 = 1
      BY <2>2
    <3> QED BY <1>4, <1>5, <1>6, <1>8, <2>2, <3>1, <3>2
  <2>3. CASE n = 3
    <3>1. n - 1 = 2
      BY <2>3
    <3> QED BY <1>5, <1>6, <1>9, <2>3, <3>1
  <2> QED BY <2>1, <2>2, <2>3
<1>11. R[Len(R)].kind # "prompt"
  BY <1>5, <1>6
<1> QED BY <1>6, <1>10, <1>11 DEF LogOK

\* The rollout Codex starts with is one: nothing, or the copied seed of a fork.
LEMMA RolloutInit ==
    ASSUME Log!CodexAssumption
    PROVE  Log!Init => RolloutInv
<1> SUFFICES ASSUME Log!Init PROVE RolloutInv
  OBVIOUS
<1>1. writing = << >> /\ (log = << >> \/ log \in Log!Seed)
  BY DEF Log!Init
<1>2. LogOK(<< >>)
  BY DEF LogOK
<1> QED BY <1>1, <1>2, SeedOK DEF RolloutInv

\* A line that may follow reaches the file, whole or without its end.
LEMMA WriteKeeps ==
    ASSUME RolloutInv, NEW line, NextOK(log, line), Log!Write(line)
    PROVE  RolloutInv'
<1>1. LogOK(log) /\ line \in Log!LineType
  BY DEF RolloutInv, NextOK
<1>2. CASE log' = Append(log, line) /\ writing' = << >>
  <2>1. LogOK(Append(log, line))
    BY <1>1, Recorded
  <2> QED BY <1>2, <2>1 DEF RolloutInv
<1>3. CASE log' = log /\ writing' = <<line>>
  BY <1>1, <1>3 DEF RolloutInv
<1> QED BY <1>2, <1>3 DEF Log!Write

\* Whatever Codex writes next, and whatever ships it, the rollout stays one.
LEMMA RolloutNext ==
    ASSUME Log!CodexAssumption
    PROVE  RolloutInv /\ [Log!Next]_Log!vars => RolloutInv'
<1> SUFFICES ASSUME RolloutInv, [Log!Next]_Log!vars PROVE RolloutInv'
  OBVIOUS
<1>1. LogOK(log)
  BY DEF RolloutInv
<1>2. Log!Before.ts \in Nat /\ Log!Before.total \in Log!Usage
  BY <1>1, BeforeForm
<1>3. CASE Log!OpenTurn
  <2>1. PICK m \in Models \cup {Log!NoModel} : Log!Write([Log!NextLine("turn_context") EXCEPT !.model = m])
    BY <1>3 DEF Log!OpenTurn
  <2> DEFINE a == Log!NextLine("turn_context")
             line == [a EXCEPT !.model = m]
  <2>2. /\ a \in Log!LineType /\ a.kind = "turn_context" /\ a.ts = Log!Before.ts + 2
        /\ a.total = Log!Before.total /\ a.cum = << >> /\ a.real = Log!Nothing /\ a.reset = "no"
    BY <1>1, NextForm
  <2> HIDE DEF a
  <2>3. /\ line \in Log!LineType /\ line.kind = "turn_context" /\ line.ts = Log!Before.ts + 2
        /\ line.total = Log!Before.total /\ line.cum = << >> /\ line.real = Log!Nothing
        /\ line.reset = "no"
    BY <2>2 DEF Log!LineType
  <2> HIDE DEF line
  <2>4. NextOK(log, line)
    BY <1>1, <2>3, PlainNext
  <2> QED BY <2>1, <2>4, WriteKeeps DEF line, a
<1>4. CASE Log!LogPrompt
  <2> DEFINE a == Log!NextLine("prompt")
             b == [a EXCEPT !.ts = Log!Before.ts]
  <2>1. /\ a \in Log!LineType /\ a.kind = "prompt" /\ a.ts = Log!Before.ts + 2
        /\ a.total = Log!Before.total /\ a.cum = << >> /\ a.real = Log!Nothing /\ a.reset = "no"
    BY <1>1, NextForm
  <2>2. Log!Write(a) \/ (Log!Before.kind = "prompt" /\ Log!Write(b))
    BY <1>4 DEF Log!LogPrompt
  <2> HIDE DEF a
  <2>3. CASE Log!Write(a)
    <3>1. NextOK(log, a)
      BY <1>1, <2>1, PlainNext
    <3> QED BY <2>3, <3>1, WriteKeeps
  <2>4. CASE Log!Before.kind = "prompt" /\ Log!Write(b)
    <3>1. /\ b \in Log!LineType /\ b.kind = "prompt" /\ b.ts = Log!Before.ts
          /\ b.total = Log!Before.total /\ b.cum = << >> /\ b.real = Log!Nothing /\ b.reset = "no"
      BY <1>2, <2>1 DEF Log!LineType
    <3> HIDE DEF b
    <3>2. NextOK(log, b)
      BY <1>1, <2>4, <3>1, PlainNext
    <3> QED BY <2>4, <3>2, WriteKeeps
  <2> QED BY <2>2, <2>3, <2>4
<1>5. CASE Log!LogOther
  <2>1. PICK n \in OtherLengths : Log!Write([Log!NextLine("other") EXCEPT !.bytes = n])
    BY <1>5 DEF Log!LogOther
  <2>2. n \in Nat
    BY DEF Log!CodexAssumption
  <2> DEFINE a == Log!NextLine("other")
             line == [a EXCEPT !.bytes = n]
  <2>3. /\ a \in Log!LineType /\ a.kind = "other" /\ a.ts = Log!Before.ts + 2
        /\ a.total = Log!Before.total /\ a.cum = << >> /\ a.real = Log!Nothing /\ a.reset = "no"
    BY <1>1, NextForm
  <2> HIDE DEF a
  <2>4. /\ line \in Log!LineType /\ line.kind = "other" /\ line.ts = Log!Before.ts + 2
        /\ line.total = Log!Before.total /\ line.cum = << >> /\ line.real = Log!Nothing
        /\ line.reset = "no"
    BY <2>2, <2>3 DEF Log!LineType
  <2> HIDE DEF line
  <2>5. NextOK(log, line)
    BY <1>1, <2>4, PlainNext
  <2> QED BY <2>1, <2>5, WriteKeeps DEF line, a
<1>6. CASE Log!LogCall
  <2>1. PICK u \in Usages, fields \in SUBSET {"last", "cum"} :
          /\ fields # {}
          /\ \A n \in DOMAIN log : log[n].kind = "token_count" => Log!Fields(log[n]) = fields
          /\ \/ Log!Write(Log!CallLine(u, fields, {}))
             \/ \E fresh \in {{"write"}, Log!Buckets} :
                   "cum" \in fields /\ Log!Write(Log!CallLine(u, fields, fresh))
    BY <1>6 DEF Log!LogCall
  <2>2. PICK fresh \in {{}, {"write"}, Log!Buckets} :
          (fresh # {} => "cum" \in fields) /\ Log!Write(Log!CallLine(u, fields, fresh))
    BY <2>1
  <2> DEFINE line == Log!CallLine(u, fields, fresh)
  <2>3. NextOK(log, line)
    BY <1>1, <2>1, <2>2, CallNext
  <2> HIDE DEF line
  <2> QED BY <2>2, <2>3, WriteKeeps DEF line
<1>7. CASE Log!LogReplay
  <2>1. PICK n \in DOMAIN log :
          /\ log[n].kind = "token_count" /\ log[n].last # << >> /\ log[n].cum # << >>
          /\ \A k \in n + 1 .. Len(log) : log[k].kind # "token_count"
          /\ Log!Write([log[n] EXCEPT !.ts = Log!Before.ts + 2, !.real = Log!Nothing])
    BY <1>7 DEF Log!LogReplay
  <2> DEFINE line == [log[n] EXCEPT !.ts = Log!Before.ts + 2, !.real = Log!Nothing]
  <2>2. NextOK(log, line)
    BY <1>1, <2>1, ReplayNext
  <2>3. Log!Write(line)
    BY <2>1
  <2> HIDE DEF line
  <2> QED BY <2>2, <2>3, WriteKeeps
<1>8. CASE Log!FinishLine
  <2>1. PICK line \in Log!LineType : writing = <<line>> /\ NextOK(log, line)
    BY <1>8 DEF Log!FinishLine, RolloutInv
  <2>2. log' = Append(log, line) /\ writing' = << >>
    BY <1>8, <2>1 DEF Log!FinishLine
  <2>3. LogOK(Append(log, line))
    BY <1>1, <2>1, Recorded
  <2> QED BY <2>2, <2>3 DEF RolloutInv
<1>9. CASE UNCHANGED <<log, writing>>
  BY <1>9 DEF RolloutInv
<1>10. (Log!Tick \/ Log!TickLost \/ Log!Rescan \/ UNCHANGED Log!vars) => UNCHANGED <<log, writing>>
  BY DEF Log!Tick, Log!TickLost, Log!Rescan, Log!vars
<1> QED BY <1>3, <1>4, <1>5, <1>6, <1>7, <1>8, <1>9, <1>10 DEF Log!Next

\* A read of a file nobody has read yet starts right.
Started == At(log, 1, Log!StartOfRead(<< >>))

\* A read that has got to a line with the right state bills it exactly and goes on with the
\* right state.
LineExact ==
    \A n \in DOMAIN log : \A st, o :
        At(log, n, st) /\ (n = 1 => o = 0) =>
           LET s == Log!ParseLine(st, log[n], o) IN At(log, n + 1, s) /\ Exact(log, n, st, s)

\* A read may stop behind any line of the rollout, but inside the seed of a fork, and
\* another go on with what was saved.
Resumed ==
    \A n \in 2 .. Len(log) + 1, st \in ReadState :
        /\ At(log, n, st) /\ st.offset > 0
        /\ n <= Len(log) => ~Copied(log[n])
        /\ Log!Carried(st).model \in Models \cup {Log!NoModel, Log!lookAheadFirstTurnModel}
        => At(log, n, Log!StartOfRead(<<Log!Carried(st)>>))

\* A state that has billed nothing yet.
LEMMA FreshForm ==
    ASSUME NEW o \in Nat, NEW u \in Log!Usage, NEW seen \in BOOLEAN, NEW p \in BOOLEAN,
           NEW m \in Models \cup {Log!NoModel, Log!lookAheadFirstTurnModel},
           NEW s, s = [offset |-> o, totals |-> u, seenCumulative |-> seen, model |-> m,
                       peeked |-> p, seedActive |-> FALSE, prevLineTs |-> -1, lastTs |-> -1,
                       ixForTs |-> 0, events |-> << >>]
    PROVE  /\ s \in ReadState /\ s.totals = u /\ s.lastTs = -1 /\ s.prevLineTs = -1
           /\ ~s.seedActive /\ (seen => s.seenCumulative) /\ s.model = m
<1>1. -1 \in Int /\ << >> \in Seq(Row)
  OBVIOUS
<1>2. s \in ReadState
  BY <1>1 DEF ReadState
<1>3. s.totals = u /\ s.lastTs = -1 /\ s.prevLineTs = -1 /\ s.model = m
  OBVIOUS
<1>4. ~s.seedActive /\ (seen => s.seenCumulative)
  OBVIOUS
<1> QED BY <1>2, <1>3, <1>4

\* What a read starts from: nothing, or what the last one saved.
LEMMA StartForm ==
    ASSUME Log!CodexAssumption, NEW carried,
           carried # << >> => /\ carried[1].offset \in Nat /\ carried[1].offset > 0
                              /\ carried[1].totals \in Log!Usage
                              /\ carried[1].model \in Models \cup {Log!NoModel, Log!lookAheadFirstTurnModel},
           NEW s, s = Log!StartOfRead(carried)
    PROVE  /\ s \in ReadState /\ s.lastTs = -1 /\ s.prevLineTs = -1 /\ ~s.seedActive
           /\ carried = << >> => s.totals = Log!Nothing
           /\ carried # << >> => /\ s.totals = carried[1].totals /\ s.model = carried[1].model
                                 /\ s.seenCumulative
<1> DEFINE o == IF carried = << >> THEN 0 ELSE carried[1].offset
           u == IF carried = << >> THEN Log!Nothing ELSE carried[1].totals
           seen == carried # << >>
           m == IF o > 0 THEN carried[1].model ELSE Log!NoModel
           p == o > 0
<1>1. s = [offset |-> o, totals |-> u, seenCumulative |-> seen, model |-> m,
           peeked |-> p, seedActive |-> FALSE, prevLineTs |-> -1, lastTs |-> -1,
           ixForTs |-> 0, events |-> << >>]
  BY DEF Log!StartOfRead
<1>2. /\ o \in Nat /\ u \in Log!Usage /\ m \in Models \cup {Log!NoModel, Log!lookAheadFirstTurnModel}
      /\ carried = << >> => u = Log!Nothing
      /\ carried # << >> => u = carried[1].totals /\ m = carried[1].model
  BY BucketForm
<1>3. seen \in BOOLEAN /\ p \in BOOLEAN /\ (carried # << >> => seen)
  OBVIOUS
<1> HIDE DEF o, u, seen, m, p
<1>4. /\ s \in ReadState /\ s.totals = u /\ s.lastTs = -1 /\ s.prevLineTs = -1
      /\ ~s.seedActive /\ (seen => s.seenCumulative) /\ s.model = m
  BY <1>1, <1>2, <1>3, FreshForm
<1> QED BY <1>2, <1>3, <1>4

\* A first read has the counters right before line 1.
LEMMA StartedHolds ==
    ASSUME Log!CodexAssumption, LogOK(log)
    PROVE  Started
<1> DEFINE s == Log!StartOfRead(<< >>)
<1>1. /\ s \in ReadState /\ s.lastTs = -1 /\ s.prevLineTs = -1 /\ ~s.seedActive
      /\ s.totals = Log!Nothing
  BY StartForm
<1> HIDE DEF s
<1>2. LineBefore(log, 1) = Log!BlankLine /\ Log!BlankLine.ts = 0 /\ Log!BlankLine.total = Log!Nothing
  BY BlankForm DEF LineBefore
<1>3. ~Counters(log, 0) /\ \A k \in 1 .. 0 : FALSE
  BY DEF Counters
<1>4. At(log, 1, s)
  BY <1>1, <1>2, <1>3 DEF At
<1> QED BY <1>4 DEF Started, s

\* A read that goes on has what the one before it had.
LEMMA ResumedHolds ==
    ASSUME Log!CodexAssumption, LogOK(log)
    PROVE  Resumed
<1> SUFFICES ASSUME NEW n \in 2 .. Len(log) + 1, NEW st \in ReadState,
                    At(log, n, st), st.offset > 0, n <= Len(log) => ~Copied(log[n]),
                    Log!Carried(st).model \in Models \cup {Log!NoModel, Log!lookAheadFirstTurnModel}
             PROVE  At(log, n, Log!StartOfRead(<<Log!Carried(st)>>))
  BY DEF Resumed
<1> DEFINE c == Log!Carried(st)
           s == Log!StartOfRead(<<c>>)
<1>1. /\ c.offset = st.offset /\ c.totals = st.totals
      /\ st.model # Log!NoModel => c.model = st.model
  BY DEF Log!Carried
<1>2. st.offset \in Nat /\ st.totals \in Log!Usage
  BY DEF ReadState
<1>3. c.model \in Models \cup {Log!NoModel, Log!lookAheadFirstTurnModel}
  OBVIOUS
<1> HIDE DEF c
<1>4. /\ <<c>> # << >> /\ <<c>>[1].offset \in Nat /\ <<c>>[1].offset > 0
      /\ <<c>>[1].totals \in Log!Usage
      /\ <<c>>[1].model \in Models \cup {Log!NoModel, Log!lookAheadFirstTurnModel}
  BY <1>1, <1>2, <1>3
<1>5. /\ s \in ReadState /\ s.lastTs = -1 /\ s.prevLineTs = -1 /\ ~s.seedActive
      /\ s.totals = st.totals /\ s.seenCumulative /\ s.model = c.model
  BY <1>1, <1>4, StartForm
<1> HIDE DEF s
<1>6. n \in Nat /\ n > 1 /\ n - 1 \in DOMAIN log /\ Len(log) \in Nat
  BY DEF LogOK
<1>7. LineBefore(log, n) = log[n - 1] /\ log[n - 1].ts \in Nat
  BY <1>6, LineFacts DEF LineBefore
<1>8. ASSUME NEW k \in 1 .. n - 1, LastNaming(log, k, n - 1) PROVE s.model = log[k].model
  <2>1. st.model = log[k].model /\ log[k].model # Log!NoModel
    BY <1>8 DEF At, LastNaming, Names
  <2> QED BY <1>1, <1>5, <2>1
<1>9. \A b \in Log!Buckets : b # "write" \/ ~Unnoted(log, n - 1) =>
         s.totals[b] = LineBefore(log, n).total[b]
  BY <1>5 DEF At
<1>10. s.lastTs <= LineBefore(log, n).ts
  BY <1>5, <1>7
<1>11. s.seedActive <=> n > 1 /\ s.prevLineTs = 0 /\ Copied(log[n - 1])
  BY <1>5
<1>12. At(log, n, s)
  BY <1>5, <1>6, <1>8, <1>9, <1>10, <1>11 DEF At
<1> QED BY <1>12 DEF s, c

\* However Codex logs, tears, resets, replays and forks its rollout, and for any models,
\* usages and read sizes: parseCodexFile, once it is at a line with the right counters and
\* model, bills the call of that line with its own tokens under the model of its turn (or
\* bills nothing, for a copy or a replay) and is right at the next line; a first read is right
\* at line 1, and a later one is right where the one before it stopped.  A reset that no
\* counter shows is the exception, spelt out in Exact and At.
THEOREM ReadCorrect == Log!CodexAssumption /\ Log!Spec => [](Started /\ LineExact /\ Resumed)
<1> SUFFICES ASSUME Log!CodexAssumption PROVE Log!Spec => [](Started /\ LineExact /\ Resumed)
  OBVIOUS
<1>1. RolloutInv => Started /\ LineExact /\ Resumed
  <2>1. SUFFICES ASSUME LogOK(log) PROVE Started /\ LineExact /\ Resumed
    BY DEF RolloutInv
  <2>2. LineExact
    BY <2>1, LineStep DEF LineExact
  <2> QED BY <2>1, <2>2, StartedHolds, ResumedHolds
<1> QED BY <1>1, RolloutInit, RolloutNext, PTL DEF Log!Spec
=============================================================================
