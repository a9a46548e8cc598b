-------------------------- MODULE SelfUpdateProofs --------------------------
(***************************************************************************)
(* Proofs about both ends of an update.  SelfUpdate, on the machine: types,*)
(* and that what is at execPath runs.  BinaryMirror, on the server: that a *)
(* manifest appears over its own binaries, and that a copy taken for fresh *)
(* is one.                                                                 *)
(***************************************************************************)
EXTENDS SelfUpdate, WellFoundedInduction, TLAPS

\* Every variable of the update model keeps its type, whatever dies, is removed or
\* is released on the way.
LEMMA TypeStep == TypeOK /\ [Next]_vars => TypeOK'
<1> SUFFICES ASSUME TypeOK, [Next]_vars PROVE TypeOK'
  OBVIOUS
<1> USE UpdateAssumption DEF TypeOK, Whole, Steps, server, disk, daemon, watchdog, bounds
<1>1. ASSUME NEW b \in Builds, Release(b) PROVE TypeOK'
  BY <1>1 DEF Release
<1>2. ASSUME NEW e \in Endpoints, Repoint(e) PROVE TypeOK'
  BY <1>2 DEF Repoint
<1>3. CASE Respawn
  BY <1>3 DEF Respawn
<1>4. CASE Die
  BY <1>4 DEF Die, Gone
<1>5. CASE tick
  <2>1. CASE running \in Broken
    BY <1>5, <2>1 DEF tick, Gone
  <2>2. CASE running \notin Broken
    BY <1>5, <2>2 DEF tick
  <2> QED BY <2>1, <2>2
<1>6. CASE Due
  BY <1>6 DEF Due
<1>7. CASE checkForUpdate
  <2>1. CASE migrate
    BY <1>7, <2>1 DEF migrate, migrates, Gone
  <2>2. CASE checkManifest
    BY <1>7, <2>2 DEF checkManifest, Return
  <2>3. CASE checkFails
    BY <1>7, <2>3 DEF checkFails, Return
  <2>4. ASSUME NEW bytes \in Bytes, download(bytes) PROVE TypeOK'
    BY <2>4 DEF download, Bytes
  <2>5. CASE downloadFails
    <3>1. attempt' \in 0 .. DOWNLOAD_ATTEMPTS - 1
      BY <2>5 DEF downloadFails
    <3> QED BY <2>5, <3>1 DEF downloadFails
  <2>6. CASE verifySha
    BY <2>6 DEF verifySha, Return
  <2>7. CASE verifyBinary
    BY <2>7 DEF verifyBinary, Return
  <2>8. CASE unlinkPrev
    BY <2>8 DEF unlinkPrev
  <2>9. CASE linkPrev
    BY <2>9 DEF linkPrev
  <2>10. CASE swap
    <3>1. removed' \in BOOLEAN
      BY <2>10, Zenon DEF swap
    <3> QED BY <2>10, <3>1 DEF swap, Gone, Return
  <2> QED
    BY <1>7, <2>1, <2>2, <2>3, <2>4, <2>5, <2>6, <2>7, <2>8, <2>9, <2>10 DEF checkForUpdate
<1>8. CASE maybeRollback
  <2>1. degraded' \in BOOLEAN /\ rolledBack' \in BOOLEAN
    BY <1>8, Zenon DEF maybeRollback
  <2>2. /\ fresh' \in {"no", "swapped", "placed"}
        /\ exec' \in Builds \cup {None, Torn}
        /\ crashes' \in 0 .. FUSE_RESPAWNS
    BY <1>8 DEF maybeRollback, rollsBack
  <2> QED BY <1>8, <2>1, <2>2 DEF maybeRollback
<1>9. CASE unlatch
  <2>1. degraded' \in BOOLEAN
    BY <1>9, Zenon DEF unlatch
  <2> QED BY <1>9, <2>1 DEF unlatch
<1>10. CASE WindowEnds
  <2>1. rolledBack' \in BOOLEAN
    BY <1>10, Zenon DEF WindowEnds
  <2>2. fresh' \in {"no", "swapped", "placed"}
    BY <1>10 DEF WindowEnds
  <2> QED BY <1>10, <2>1, <2>2 DEF WindowEnds
<1>11. CASE healDaemonArtifacts
  <2>1. CASE repairCheck
    BY <2>1 DEF repairCheck
  <2>2. ASSUME NEW bytes \in Bytes, repairDownload(bytes) PROVE TypeOK'
    BY <2>2 DEF repairDownload, Bytes
  <2>3. CASE repairFails
    BY <2>3 DEF repairFails
  <2>4. CASE repairVerify
    BY <2>4 DEF repairVerify
  <2>5. CASE repairSwap
    <3>1. removed' \in BOOLEAN
      BY <2>5, Zenon DEF repairSwap
    <3> QED BY <2>5, <3>1 DEF repairSwap
  <2> QED BY <1>11, <2>1, <2>2, <2>3, <2>4, <2>5 DEF healDaemonArtifacts
<1>12. CASE Remove
  BY <1>12 DEF Remove
<1>13. CASE Reinstall
  <2>1. removed' \in BOOLEAN
    BY <1>13, Zenon DEF Reinstall
  <2> QED BY <1>13, <2>1 DEF Reinstall, Gone
<1>14. CASE UNCHANGED vars
  BY <1>14 DEF vars
<1> QED
  BY <1>1, <1>2, <1>3, <1>4, <1>5, <1>6, <1>7, <1>8, <1>9, <1>10, <1>11, <1>12, <1>13, <1>14
     DEF Next

\* Every variable of the update model keeps its type (checkForUpdate, the watchdog's
\* rollback and repair, the installer), for all releases, servers and bounds.
THEOREM UpdateTyped == Spec => []TypeOK
<1>1. Init => TypeOK
  <2> SUFFICES ASSUME Init PROVE TypeOK
    OBVIOUS
  <2>1. degraded \in BOOLEAN /\ rolledBack \in BOOLEAN /\ removed \in BOOLEAN
    BY Zenon DEF Init
  <2>2. /\ running = None /\ pc = "down" /\ exec \in Builds
        /\ attempt \in 0 .. DOWNLOAD_ATTEMPTS - 1 /\ crashes \in 0 .. FUSE_RESPAWNS
        /\ releases \in 0 .. MaxReleases /\ deaths + hands <= MaxMishaps
    BY UpdateAssumption DEF Init, Whole
  <2> QED BY <2>1, <2>2, UpdateAssumption DEF Init, TypeOK, Whole, Steps
<1>2. TypeOK /\ [Next]_vars => TypeOK'
  BY TypeStep
<1> QED BY <1>1, <1>2, PTL DEF Spec

-----------------------------------------------------------------------------
(* execPath.new belongs to one writer at a time.  The daemon downloads over *)
(* a binary that is there, the watchdog's repair where there is none; so    *)
(* what the one has verified is still there when it renames it.             *)

\* A daemon past its smoke test and a repair past its own have a build that boots.
OneWriter ==
    /\ Updating => exec # None
    /\ repair # "idle" => exec = None
    /\ pc \in {"unlink", "link", "rename"} => new \in Whole
    /\ repair = "rename" => new \in Whole

\* The inductive invariant behind AlwaysRunnable.
RunnableInv == AlwaysRunnable /\ OneWriter

\* As long as nobody touches the binary in the middle of an update, every step of
\* daemon, watchdog and installer leaves a build that boots, and the writer its file.
LEMMA RunnableStep ==
    ASSUME Tamper = FALSE
    PROVE  RunnableInv /\ [Next]_vars => RunnableInv'
<1> SUFFICES ASSUME RunnableInv, [Next]_vars PROVE RunnableInv'
  OBVIOUS
<1>w. None \notin Whole
  BY UpdateAssumption DEF Whole
<1> USE <1>w DEF RunnableInv, AlwaysRunnable, OneWriter, Updating, server, disk, daemon,
                 watchdog, bounds
<1>1. ASSUME NEW b \in Builds, Release(b) PROVE RunnableInv'
  BY <1>1 DEF Release
<1>2. ASSUME NEW e \in Endpoints, Repoint(e) PROVE RunnableInv'
  BY <1>2 DEF Repoint
<1>3. CASE Respawn
  BY <1>3 DEF Respawn
<1>4. CASE Die
  BY <1>4 DEF Die, Gone
<1>5. CASE tick
  BY <1>5 DEF tick, Gone
<1>6. CASE Due
  BY <1>6 DEF Due
<1>7. CASE checkForUpdate
  <2>1. CASE migrate
    BY <2>1 DEF migrate, Gone
  <2>2. CASE checkManifest
    BY <2>2 DEF checkManifest, proceeds, Return
  <2>3. CASE checkFails
    BY <2>3 DEF checkFails, Return
  <2>4. ASSUME NEW bytes \in Bytes, download(bytes) PROVE RunnableInv'
    BY <2>4 DEF download
  <2>5. CASE downloadFails
    BY <2>5 DEF downloadFails
  <2>6. CASE verifySha
    BY <2>6 DEF verifySha, Return
  <2>7. CASE verifyBinary
    BY <2>7 DEF verifyBinary, Return
  <2>8. CASE unlinkPrev
    BY <2>8 DEF unlinkPrev
  <2>9. CASE linkPrev
    BY <2>9 DEF linkPrev
  <2>10. CASE swap
    BY <2>10 DEF swap, Gone, Return
  <2> QED
    BY <1>7, <2>1, <2>2, <2>3, <2>4, <2>5, <2>6, <2>7, <2>8, <2>9, <2>10 DEF checkForUpdate
<1>8. CASE maybeRollback
  BY <1>8 DEF maybeRollback, rollsBack
<1>9. CASE unlatch
  BY <1>9 DEF unlatch
<1>10. CASE WindowEnds
  BY <1>10 DEF WindowEnds
<1>11. CASE healDaemonArtifacts
  <2>1. CASE repairCheck
    BY <2>1 DEF repairCheck
  <2>2. ASSUME NEW bytes \in Bytes, repairDownload(bytes) PROVE RunnableInv'
    BY <2>2 DEF repairDownload
  <2>3. CASE repairFails
    BY <2>3 DEF repairFails
  <2>4. CASE repairVerify
    BY <2>4 DEF repairVerify
  <2>5. CASE repairSwap
    BY <2>5 DEF repairSwap
  <2> QED BY <1>11, <2>1, <2>2, <2>3, <2>4, <2>5 DEF healDaemonArtifacts
<1>12. CASE Remove
  BY <1>12, Tamper = FALSE DEF Remove, Free
<1>13. CASE Reinstall
  BY <1>13, Tamper = FALSE DEF Reinstall, Free, Gone
<1>14. CASE UNCHANGED vars
  BY <1>14 DEF vars
<1> QED
  BY <1>1, <1>2, <1>3, <1>4, <1>5, <1>6, <1>7, <1>8, <1>9, <1>10, <1>11, <1>12, <1>13, <1>14
     DEF Next

\* "There is never an instant without a complete binary at execPath" (keepPrev): for
\* all releases, broken ones and such as cannot boot included, and for any deaths and
\* failed downloads, what is at execPath and what a rollback would put there runs, and
\* execPath is empty only after a removal by hand, unless the binary is touched by hand
\* while an update is under way.
THEOREM RunnableCorrect ==
    ASSUME Tamper = FALSE
    PROVE  Spec => []AlwaysRunnable
<1>1. Init => RunnableInv
  BY UpdateAssumption
     DEF Init, RunnableInv, AlwaysRunnable, OneWriter, Updating, Whole
<1>2. RunnableInv /\ [Next]_vars => RunnableInv'
  BY RunnableStep
<1>3. RunnableInv => AlwaysRunnable
  BY DEF RunnableInv
<1> QED BY <1>1, <1>2, <1>3, PTL DEF Spec
-----------------------------------------------------------------------------
(***************************************************************************)
(* The other end: the server's mirror of the releases the daemons update   *)
(* from, BinaryMirror with its own constants and variables.                *)
(***************************************************************************)
CONSTANTS MIRRORED_ASSETS, REQUIRED_ASSETS, MaxTag, MaxChanges, MaxFaults, MaxRestarts

VARIABLES latest, mirrored, raw, gz, gzFresh, tmp, gzAhead, lastManifestSha, stage, release, todo,
          gzipping, reading, changes, faults, restarts

Mirror == INSTANCE BinaryMirror WITH manifest <- mirrored

\* What the refresh in flight has put in place; a refresh compresses at its end only.
Downloaded ==
    /\ stage \notin {"download", "swap"} => todo = {}
    /\ stage # "gzip" => gzipping["refresh"] = {} /\ reading["refresh"] = Mirror!Nothing
    /\ stage \in {"manifest", "download", "swap"} => REQUIRED_ASSETS \subseteq release.carries
    /\ stage = "download" => \A a \in release.carries \ todo : tmp[a] = release.tag
    /\ stage = "swap" => \A a \in release.carries :
                            IF a \in todo THEN tmp[a] = release.tag ELSE raw[a] = release.tag

\* Without a restart one compression runs, at the end of a refresh, and what it reads is
\* the binary it will write beside; no copy is newer than what was just downloaded.
OneGzipper ==
    /\ gzipping["start"] = {} /\ reading["start"] = Mirror!Nothing
    /\ reading["refresh"] # Mirror!Nothing =>
          reading["refresh"] = raw[Mirror!first(gzipping["refresh"])]
    /\ stage = "download" => \A a \in release.carries \ todo : ~gzAhead[a]
    /\ stage = "swap" => \A a \in todo : ~gzAhead[a]
    /\ \A a \in Mirror!Assets : gz[a] # Mirror!Nothing /\ gzFresh[a] => gz[a] = raw[a]

\* The inductive invariant.
MirrorInv == Mirror!TypeOK /\ Downloaded /\ (restarts > 0 \/ OneGzipper)

-----------------------------------------------------------------------------
\* The first asset of those left is one of them.
LEMMA FirstIs ==
    ASSUME Mirror!MirrorAssumption, NEW S, S \subseteq Mirror!Assets, S # {}
    PROVE  Mirror!first(S) \in S
<1> DEFINE I == {i \in DOMAIN MIRRORED_ASSETS : MIRRORED_ASSETS[i] \in S}
<1>1. DOMAIN MIRRORED_ASSETS \subseteq Nat \ {0}
  BY DEF Mirror!MirrorAssumption
<1>2. I # {} /\ I \subseteq Nat
  BY <1>1 DEF Mirror!Assets, Mirror!Range
<1>3. PICK i \in I : \A j \in I : <<j, i>> \notin OpToRel(<, Nat)
  BY <1>2, NatLessThanWellFounded, WFMin
<1>4. ASSUME NEW j \in 1 .. i - 1 PROVE MIRRORED_ASSETS[j] \notin S
  <2>1. i \in Nat \ {0} /\ \E n \in Nat : DOMAIN MIRRORED_ASSETS = 1 .. n
    BY <1>1 DEF Mirror!MirrorAssumption
  <2>2. j \in DOMAIN MIRRORED_ASSETS /\ j \in Nat /\ j < i
    BY <2>1
  <2>3. <<j, i>> \in OpToRel(<, Nat)
    BY <2>1, <2>2 DEF OpToRel
  <2> QED
    BY <1>3, <2>2, <2>3
<1>5. \E k \in DOMAIN MIRRORED_ASSETS :
        /\ MIRRORED_ASSETS[k] \in S
        /\ \A j \in 1 .. k - 1 : MIRRORED_ASSETS[j] \notin S
  BY <1>3, <1>4
<1> QED
  BY <1>5 DEF Mirror!first

LEMMA MirrorInit == Mirror!MirrorAssumption /\ Mirror!Init => MirrorInv
<1> SUFFICES ASSUME Mirror!MirrorAssumption, Mirror!Init PROVE MirrorInv
  OBVIOUS
<1>1. Mirror!TypeOK
  BY DEF Mirror!MirrorAssumption, Mirror!Init, Mirror!TypeOK, Mirror!GhRelease, Mirror!Tags,
         Mirror!Bytes, Mirror!Nothing, Mirror!None, Mirror!NoJob, Mirror!NotReading, Mirror!Gzippers
<1>2. Downloaded
  BY DEF Mirror!Init, Downloaded, Mirror!NoJob, Mirror!NotReading, Mirror!Gzippers
<1>3. OneGzipper
  BY DEF Mirror!Init, OneGzipper, Mirror!None, Mirror!NoJob, Mirror!NotReading, Mirror!Gzippers
<1> QED
  BY <1>1, <1>2, <1>3 DEF MirrorInv

LEMMA MirrorPublishStep ==
    ASSUME Mirror!MirrorAssumption, MirrorInv, NEW r \in Mirror!GhRelease,
           Mirror!Publish(r.tag, r.carries)
    PROVE  MirrorInv'
<1>1. [tag |-> r.tag, carries |-> r.carries] \in Mirror!GhRelease
  BY DEF Mirror!GhRelease
<1>2. Mirror!TypeOK'
  BY <1>1 DEF MirrorInv, Mirror!TypeOK, Mirror!Publish, Mirror!served, Mirror!jobs,
              Mirror!MirrorAssumption
<1>3. Downloaded' /\ (restarts > 0 \/ OneGzipper)'
  BY DEF MirrorInv, Downloaded, OneGzipper, Mirror!Publish, Mirror!served, Mirror!jobs
<1> QED
  BY <1>2, <1>3 DEF MirrorInv

LEMMA MirrorTickStep ==
    ASSUME Mirror!MirrorAssumption, MirrorInv,
           \/ Mirror!tick \/ Mirror!fetchManifest \/ Mirror!fetchFails
           \/ Mirror!renameManifest \/ Mirror!renameFails
    PROVE  MirrorInv'
<1> USE DEF Mirror!served, Mirror!jobs, Mirror!bounds
<1>1. Mirror!TypeOK'
  <2>1. release.carries \subseteq Mirror!Assets /\ release.tag \in Mirror!Bytes
    BY DEF MirrorInv, Mirror!TypeOK, Mirror!GhRelease, Mirror!Bytes
  <2>2. CASE Mirror!tick
    BY <2>2 DEF MirrorInv, Mirror!TypeOK, Downloaded, Mirror!tick
  <2>3. CASE Mirror!fetchManifest
    BY <2>3 DEF MirrorInv, Mirror!TypeOK, Mirror!fetchManifest
  <2>4. CASE Mirror!fetchFails
    BY <2>4 DEF MirrorInv, Mirror!TypeOK, Mirror!fetchFails, Mirror!Bytes, Mirror!Nothing
  <2>5. CASE Mirror!renameManifest
    BY <2>1, <2>5 DEF MirrorInv, Mirror!TypeOK, Mirror!renameManifest, Mirror!Gzippers
  <2>6. CASE Mirror!renameFails
    BY <2>6 DEF MirrorInv, Mirror!TypeOK, Mirror!renameFails, Mirror!MirrorAssumption
  <2> QED
    BY <2>2, <2>3, <2>4, <2>5, <2>6
<1>2. Downloaded'
  <2>1. CASE Mirror!tick
    BY <2>1 DEF MirrorInv, Downloaded, Mirror!tick
  <2>2. CASE Mirror!fetchManifest
    BY <2>2 DEF MirrorInv, Downloaded, Mirror!fetchManifest
  <2>3. CASE Mirror!fetchFails
    BY <2>3 DEF MirrorInv, Downloaded, Mirror!fetchFails
  <2>4. CASE Mirror!renameManifest
    BY <2>4 DEF MirrorInv, Downloaded, Mirror!renameManifest
  <2>5. CASE Mirror!renameFails
    BY <2>5 DEF MirrorInv, Downloaded, Mirror!renameFails
  <2> QED
    BY <2>1, <2>2, <2>3, <2>4, <2>5
<1>3. (restarts > 0 \/ OneGzipper)'
  <2> SUFFICES ASSUME OneGzipper PROVE OneGzipper'
    BY DEF MirrorInv, Mirror!tick, Mirror!fetchManifest, Mirror!fetchFails, Mirror!renameManifest,
           Mirror!renameFails
  <2>1. CASE Mirror!tick
    BY <2>1 DEF MirrorInv, Downloaded, OneGzipper, Mirror!tick
  <2>2. CASE Mirror!fetchManifest
    BY <2>2 DEF MirrorInv, Downloaded, OneGzipper, Mirror!fetchManifest
  <2>3. CASE Mirror!fetchFails
    BY <2>3 DEF MirrorInv, Downloaded, OneGzipper, Mirror!fetchFails
  <2>4. CASE Mirror!renameManifest
    BY <2>4 DEF Downloaded, OneGzipper, Mirror!renameManifest, MirrorInv, Mirror!TypeOK,
                Mirror!Gzippers
  <2>5. CASE Mirror!renameFails
    BY <2>5 DEF MirrorInv, Downloaded, OneGzipper, Mirror!renameFails
  <2> QED
    BY <2>1, <2>2, <2>3, <2>4, <2>5
<1> QED
  BY <1>1, <1>2, <1>3 DEF MirrorInv

LEMMA MirrorAssetStep ==
    ASSUME Mirror!MirrorAssumption, MirrorInv, NEW a \in Mirror!Assets,
           Mirror!fetchAsset(a) \/ Mirror!renameAsset(a)
    PROVE  MirrorInv'
<1> USE DEF Mirror!served, Mirror!jobs, Mirror!bounds
<1>1. /\ a \in todo /\ a \in release.carries
      /\ release.carries \subseteq Mirror!Assets /\ release.tag \in Mirror!Bytes
  BY FirstIs DEF MirrorInv, Mirror!TypeOK, Mirror!GhRelease, Mirror!Bytes, Mirror!fetchAsset,
                 Mirror!renameAsset
<1>2. Mirror!TypeOK'
  <2>1. CASE Mirror!fetchAsset(a)
    BY <1>1, <2>1 DEF MirrorInv, Mirror!TypeOK, Mirror!fetchAsset
  <2>2. CASE Mirror!renameAsset(a)
    <3>1. tmp[a] \in Mirror!Bytes /\ gzAhead[a] \in BOOLEAN /\ Mirror!Nothing \in Mirror!Bytes
      BY <1>1 DEF MirrorInv, Mirror!TypeOK, Mirror!Bytes
    <3>2. raw' \in [Mirror!Assets -> Mirror!Bytes] /\ tmp' \in [Mirror!Assets -> Mirror!Bytes]
      BY <2>2, <3>1 DEF MirrorInv, Mirror!TypeOK, Mirror!renameAsset
    <3>3. gzFresh' \in [Mirror!Assets -> BOOLEAN]
      BY <2>2, <3>1, Zenon DEF MirrorInv, Mirror!TypeOK, Mirror!renameAsset
    <3> QED
      BY <2>2, <3>2, <3>3 DEF MirrorInv, Mirror!TypeOK, Mirror!renameAsset
  <2> QED
    BY <2>1, <2>2
<1>3. Downloaded'
  <2>1. CASE Mirror!fetchAsset(a)
    BY <1>1, <2>1 DEF MirrorInv, Mirror!TypeOK, Downloaded, Mirror!fetchAsset
  <2>2. CASE Mirror!renameAsset(a)
    BY <1>1, <2>2 DEF MirrorInv, Mirror!TypeOK, Downloaded, Mirror!renameAsset
  <2> QED
    BY <2>1, <2>2
<1>4. (restarts > 0 \/ OneGzipper)'
  <2> SUFFICES ASSUME OneGzipper PROVE OneGzipper'
    BY DEF MirrorInv, Mirror!fetchAsset, Mirror!renameAsset
  <2>1. CASE Mirror!fetchAsset(a)
    BY <1>1, <2>1 DEF MirrorInv, Mirror!TypeOK, Downloaded, OneGzipper, Mirror!fetchAsset
  <2>2. CASE Mirror!renameAsset(a)
    BY <1>1, <2>2 DEF MirrorInv, Mirror!TypeOK, Downloaded, OneGzipper, Mirror!renameAsset
  <2> QED
    BY <2>1, <2>2
<1> QED
  BY <1>2, <1>3, <1>4 DEF MirrorInv

LEMMA MirrorGzipStep ==
    ASSUME Mirror!MirrorAssumption, MirrorInv, NEW g \in Mirror!Gzippers, Mirror!ensureGzip(g)
    PROVE  MirrorInv'
<1> USE DEF Mirror!served, Mirror!jobs, Mirror!bounds
<1>1. Mirror!TypeOK'
  <2>1. \A x \in Mirror!Assets : raw[x] \in Mirror!Bytes
    BY DEF MirrorInv, Mirror!TypeOK
  <2>2. CASE Mirror!statAsset(g)
    <3>1. Mirror!first(gzipping[g]) \in Mirror!Assets
      BY <2>2, FirstIs DEF MirrorInv, Mirror!TypeOK, Mirror!statAsset
    <3> QED
      BY <2>1, <2>2, <3>1 DEF MirrorInv, Mirror!TypeOK, Mirror!statAsset, Mirror!done,
                              Mirror!Bytes, Mirror!Nothing
  <2>3. CASE Mirror!writeGzip(g)
    BY <2>3 DEF MirrorInv, Mirror!TypeOK, Mirror!writeGzip, Mirror!done, Mirror!Bytes,
                Mirror!Nothing
  <2>4. CASE Mirror!gzipFails(g)
    BY <2>4 DEF MirrorInv, Mirror!TypeOK, Mirror!gzipFails, Mirror!done, Mirror!Bytes,
                Mirror!Nothing
  <2> QED
    BY <2>2, <2>3, <2>4 DEF Mirror!ensureGzip
<1>2. Downloaded'
  <2>1. g = "refresh" => stage = "gzip"
    BY DEF MirrorInv, Downloaded, Mirror!ensureGzip, Mirror!statAsset, Mirror!writeGzip,
           Mirror!gzipFails
  <2>2. \/ Mirror!done(g)
        \/ /\ UNCHANGED <<gzipping, stage>>
           /\ reading' = [reading EXCEPT ![g] = raw[Mirror!first(gzipping[g])]]
    BY DEF Mirror!ensureGzip, Mirror!statAsset, Mirror!writeGzip, Mirror!gzipFails
  <2>3. UNCHANGED <<raw, tmp, release, todo>>
    BY DEF Mirror!ensureGzip, Mirror!statAsset, Mirror!writeGzip, Mirror!gzipFails
  <2>4. stage' = stage \/ (g = "refresh" /\ stage' = "idle")
    BY <2>2 DEF Mirror!done
  <2>5. stage' # "gzip" => gzipping'["refresh"] = {} /\ reading'["refresh"] = Mirror!Nothing
    BY <2>1, <2>2 DEF MirrorInv, Mirror!TypeOK, Downloaded, Mirror!done, Mirror!Gzippers
  <2> QED
    BY <2>1, <2>3, <2>4, <2>5 DEF MirrorInv, Downloaded
<1>3. (restarts > 0 \/ OneGzipper)'
  <2> SUFFICES ASSUME OneGzipper PROVE OneGzipper'
    BY DEF MirrorInv, Mirror!ensureGzip, Mirror!statAsset, Mirror!writeGzip, Mirror!gzipFails
  <2>1. g = "refresh" /\ stage = "gzip"
    BY DEF MirrorInv, Mirror!TypeOK, Downloaded, OneGzipper, Mirror!ensureGzip, Mirror!statAsset,
           Mirror!writeGzip, Mirror!gzipFails, Mirror!Gzippers
  <2>2. CASE Mirror!statAsset(g)
    BY <2>1, <2>2 DEF MirrorInv, Mirror!TypeOK, OneGzipper, Mirror!statAsset, Mirror!done,
                      Mirror!Gzippers
  <2>3. CASE Mirror!writeGzip(g)
    BY <2>1, <2>3 DEF MirrorInv, Mirror!TypeOK, OneGzipper, Mirror!writeGzip, Mirror!done,
                      Mirror!Gzippers
  <2>4. CASE Mirror!gzipFails(g)
    BY <2>1, <2>4 DEF MirrorInv, Mirror!TypeOK, OneGzipper, Mirror!gzipFails, Mirror!done,
                      Mirror!Gzippers
  <2> QED
    BY <2>2, <2>3, <2>4 DEF Mirror!ensureGzip
<1> QED
  BY <1>1, <1>2, <1>3 DEF MirrorInv

LEMMA MirrorStartStep ==
    ASSUME Mirror!MirrorAssumption, MirrorInv, Mirror!start
    PROVE  MirrorInv'
<1> USE DEF Mirror!served, Mirror!jobs, Mirror!bounds
<1>1. Mirror!TypeOK'
  BY DEF MirrorInv, Mirror!TypeOK, Mirror!start, Mirror!None, Mirror!NoJob, Mirror!NotReading,
         Mirror!Gzippers, Mirror!Bytes, Mirror!Nothing, Mirror!MirrorAssumption
<1>2. Downloaded'
  BY DEF Downloaded, Mirror!start, Mirror!NoJob, Mirror!NotReading, Mirror!Gzippers
<1>3. restarts' > 0
  BY DEF MirrorInv, Mirror!TypeOK, Mirror!start, Mirror!MirrorAssumption
<1> QED
  BY <1>1, <1>2, <1>3 DEF MirrorInv

\* One lemma for each group of actions; together they are the step.
LEMMA MirrorStep == Mirror!MirrorAssumption /\ MirrorInv /\ [Mirror!Next]_Mirror!vars => MirrorInv'
<1>1. ASSUME MirrorInv, UNCHANGED Mirror!vars PROVE MirrorInv'
  BY <1>1 DEF MirrorInv, Mirror!TypeOK, Downloaded, OneGzipper, Mirror!vars, Mirror!served,
              Mirror!jobs, Mirror!bounds
<1> QED
  BY <1>1, MirrorPublishStep, MirrorTickStep, MirrorAssetStep, MirrorGzipStep,
                                        MirrorStartStep DEF Mirror!Next, Mirror!refresh

LEMMA MirrorHolds == Mirror!MirrorAssumption => (Mirror!Spec => []MirrorInv)
<1> SUFFICES ASSUME Mirror!MirrorAssumption PROVE Mirror!Spec => []MirrorInv
  OBVIOUS
<1>1. Mirror!Init => MirrorInv
  BY MirrorInit
<1>2. MirrorInv /\ [Mirror!Next]_Mirror!vars => MirrorInv'
  BY MirrorStep
<1> QED
  BY <1>1, <1>2, PTL DEF Mirror!Spec

\* Every variable of the mirror keeps its type.
THEOREM MirrorTyped == Mirror!MirrorAssumption => (Mirror!Spec => []Mirror!TypeOK)
<1>1. MirrorInv => Mirror!TypeOK
  BY DEF MirrorInv
<1> QED
  BY <1>1, MirrorHolds, PTL

\* For any assets, releases, failures and restarts: a copy that is served for fresh is
\* one of the binary beside it, unless the server was started again over an old cache
\* (getBinaryGzip).
THEOREM CopiesCorrect == Mirror!MirrorAssumption => (Mirror!Spec => []Mirror!CopiesTrue)
<1>1. MirrorInv => Mirror!CopiesTrue
  BY DEF MirrorInv, OneGzipper, Mirror!CopiesTrue
<1> QED
  BY <1>1, MirrorHolds, PTL

\* A manifest appears only over the required binaries of its own release, whatever
\* failed or died before (refresh: "Rename binaries first, manifest LAST").
THEOREM ManifestCorrect == Mirror!MirrorAssumption => (Mirror!Spec => Mirror!ManifestLast)
<1>1. ASSUME MirrorInv, [Mirror!Next]_Mirror!vars, mirrored' # mirrored
      PROVE  \A a \in REQUIRED_ASSETS : raw'[a] = mirrored'
  <2>1. Mirror!renameManifest
    BY <1>1 DEF Mirror!Next, Mirror!refresh, Mirror!ensureGzip, Mirror!vars, Mirror!served,
                Mirror!Publish, Mirror!tick, Mirror!fetchManifest, Mirror!fetchAsset,
                Mirror!fetchFails,
                Mirror!renameAsset, Mirror!renameFails, Mirror!statAsset, Mirror!writeGzip, Mirror!gzipFails,
                Mirror!start
  <2> QED
    BY <1>1, <2>1 DEF MirrorInv, Downloaded, Mirror!renameManifest
<1>2. MirrorInv /\ [Mirror!Next]_Mirror!vars =>
        [mirrored' # mirrored => \A a \in REQUIRED_ASSETS : raw'[a] = mirrored']_Mirror!vars
  BY <1>1
<1> QED
  BY <1>2, MirrorHolds, PTL DEF Mirror!Spec, Mirror!ManifestLast
=============================================================================
