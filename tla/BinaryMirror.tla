---------------------------- MODULE BinaryMirror ----------------------------
(***************************************************************************)
(* The server's copy of the latest GitHub release, from which the daemons  *)
(* update themselves (class BinaryMirror, src/server/binary-mirror.ts).    *)
(*                                                                         *)
(* A refresh is a chain of awaits: release, manifest, one asset after the  *)
(* other into a temporary file, the renames, the manifest last, then the   *)
(* gzip copies.  Between two of them the release changes, the compression  *)
(* that start() leaves running goes on, daemons are served, the server     *)
(* dies.  Releases are numbered; the bytes of an asset are the number of   *)
(* the release they were built for.  Of modification times only the order  *)
(* is kept that getBinaryGzip asks for: is the copy newer than the file?   *)
(* Left out: two writers of one asset's gzip temporary at the same moment. *)
(***************************************************************************)
EXTENDS Naturals, Sequences, Functions

CONSTANTS
    MIRRORED_ASSETS,    \* the assets, in the order the code goes through them
    REQUIRED_ASSETS,    \* those without which no release is mirrored
    MaxTag,             \* bound: releases
    MaxChanges,         \* bound: changes of the latest release on GitHub
    MaxFaults,          \* bound: refreshes that fail in the middle of the renames
    MaxRestarts         \* bound: restarts of the server

Assets == Range(MIRRORED_ASSETS)

\* Of the assets left, the one the code goes on with.
first(S) ==
    MIRRORED_ASSETS[CHOOSE i \in DOMAIN MIRRORED_ASSETS :
                      /\ MIRRORED_ASSETS[i] \in S
                      /\ \A j \in 1 .. i - 1 : MIRRORED_ASSETS[j] \notin S]

Tags == 1 .. MaxTag
Nothing == 0
Bytes == Tags \cup {Nothing}

ASSUME MirrorAssumption ==
    /\ MIRRORED_ASSETS \in Seq(Assets)
    /\ \A i, j \in DOMAIN MIRRORED_ASSETS : i # j => MIRRORED_ASSETS[i] # MIRRORED_ASSETS[j]
    /\ REQUIRED_ASSETS \subseteq Assets
    /\ MaxTag \in Nat \ {0} /\ MaxChanges \in Nat /\ MaxFaults \in Nat /\ MaxRestarts \in Nat

VARIABLES
    latest,             \* GitHub's latest release: its tag and the assets it carries
    manifest,           \* manifest.json in the cache directory
    raw,                \* the binaries there
    gz,                 \* their gzip copies
    gzFresh,            \* is a copy's mtime at least that of its binary?
    tmp,                \* temporaries of the refresh
    gzAhead,            \* is a copy's mtime at least that of the temporary?
    lastManifestSha,
    stage,              \* where the refresh in flight awaits
    release,            \* the release it found
    todo,               \* its assets still to download or to rename
    gzipping,           \* ensureGzip of start() and of the refresh: assets still to do
    reading,            \* the bytes each of them is compressing
    changes, faults, restarts   \* bound counters

served == <<manifest, raw, gz, gzFresh>>
jobs == <<gzipping, reading>>
bounds == <<changes, faults, restarts>>
vars == <<latest, served, tmp, gzAhead, lastManifestSha, stage, release, todo, jobs, bounds>>

GhRelease == [tag : Tags, carries : {C \in SUBSET Assets : C # {}}]
Gzippers == {"start", "refresh"}
None == [a \in Assets |-> Nothing]
NoJob == [g \in Gzippers |-> {}]
NotReading == [g \in Gzippers |-> Nothing]

Init ==
    /\ latest \in {r \in GhRelease : r.tag = 1 /\ r.carries \in {Assets, REQUIRED_ASSETS}}
    /\ manifest = Nothing
    /\ raw = None /\ gz = None
    /\ gzFresh = [a \in Assets |-> FALSE]
    /\ tmp = None
    /\ gzAhead = [a \in Assets |-> FALSE]
    /\ lastManifestSha = Nothing
    /\ stage = "idle"
    /\ release = latest
    /\ todo = {}
    /\ gzipping = NoJob
    /\ reading = NotReading
    /\ changes = 0 /\ faults = 0 /\ restarts = 0

-----------------------------------------------------------------------------
\* GitHub: "latest" moves, forward or back, or an asset is added to the release
\* or deleted from it.
Publish(tag, carries) ==
    /\ changes < MaxChanges
    /\ changes' = changes + 1
    /\ latest' = [tag |-> tag, carries |-> carries]
    /\ latest' # latest
    /\ UNCHANGED <<served, tmp, gzAhead, lastManifestSha, stage, release, todo, jobs,
                   faults, restarts>>

\* The timer's tick and its first answer, the release.  A tick finds nothing to do
\* while another is in flight; a release without a required asset is left alone.
tick ==
    /\ stage = "idle"
    /\ stage' = IF REQUIRED_ASSETS \subseteq latest.carries THEN "manifest" ELSE "idle"
    /\ release' = latest
    /\ UNCHANGED <<latest, served, tmp, gzAhead, lastManifestSha, todo, jobs, bounds>>

\* The manifest arrives; the one mirrored last ends the refresh.
fetchManifest ==
    /\ stage = "manifest"
    /\ IF release.tag = lastManifestSha
         THEN stage' = "idle" /\ todo' = {}
         ELSE stage' = "download" /\ todo' = release.carries
    /\ UNCHANGED <<latest, served, tmp, gzAhead, lastManifestSha, release, jobs, bounds>>

\* One asset arrives and is written beside its binary; after the last, the renames.
fetchAsset(a) ==
    /\ stage = "download"
    /\ todo # {} /\ a = first(todo)
    /\ tmp' = [tmp EXCEPT ![a] = release.tag]
    /\ gzAhead' = [gzAhead EXCEPT ![a] = FALSE]
    /\ IF todo = {a}
         THEN stage' = "swap" /\ todo' = release.carries
         ELSE stage' = stage /\ todo' = todo \ {a}
    /\ UNCHANGED <<latest, served, lastManifestSha, release, jobs, bounds>>

\* Manifest or asset do not arrive: the temporaries of the download go, the next tick
\* tries again.
fetchFails ==
    /\ stage \in {"manifest", "download"}
    /\ stage' = "idle"
    /\ todo' = {}
    /\ tmp' = [a \in Assets |-> IF stage = "download" /\ a \in release.carries THEN Nothing ELSE tmp[a]]
    /\ UNCHANGED <<latest, served, gzAhead, lastManifestSha, release, jobs, bounds>>

\* Mutant: the copy goes on counting as fresh.
renameAssetUntouched(a) ==
    /\ stage = "swap"
    /\ todo # {} /\ a = first(todo)
    /\ raw' = [raw EXCEPT ![a] = tmp[a]]
    /\ tmp' = [tmp EXCEPT ![a] = Nothing]
    /\ todo' = todo \ {a}
    /\ UNCHANGED <<latest, manifest, gz, gzFresh, gzAhead, lastManifestSha, stage, release,
                   jobs, bounds>>

\* A rename keeps the modification time of the temporary.
renameAsset(a) ==
    /\ stage = "swap"
    /\ todo # {} /\ a = first(todo)
    /\ raw' = [raw EXCEPT ![a] = tmp[a]]
    /\ gzFresh' = [gzFresh EXCEPT ![a] = gzAhead[a]]
    /\ tmp' = [tmp EXCEPT ![a] = Nothing]
    /\ todo' = todo \ {a}
    /\ UNCHANGED <<latest, manifest, gz, gzAhead, lastManifestSha, stage, release, jobs, bounds>>

\* Mutant: the manifest is in place before the binaries.
renameManifestFirst ==
    /\ stage = "swap"
    /\ manifest' = release.tag
    /\ lastManifestSha' = release.tag
    /\ stage' = "gzip"
    /\ gzipping' = [gzipping EXCEPT !["refresh"] = Assets]
    /\ UNCHANGED <<latest, raw, gz, gzFresh, tmp, gzAhead, release, todo, reading, bounds>>

\* The manifest last; then the copies of what is new.
renameManifest ==
    /\ stage = "swap"
    /\ todo = {}
    /\ manifest' = release.tag
    /\ lastManifestSha' = release.tag
    /\ stage' = "gzip"
    /\ gzipping' = [gzipping EXCEPT !["refresh"] = Assets]
    /\ UNCHANGED <<latest, raw, gz, gzFresh, tmp, gzAhead, release, todo, reading, bounds>>

\* A rename fails: what is renamed stays.
renameFails ==
    /\ stage = "swap"
    /\ faults < MaxFaults
    /\ faults' = faults + 1
    /\ stage' = "idle"
    /\ todo' = {}
    /\ UNCHANGED <<latest, served, tmp, gzAhead, lastManifestSha, release, jobs, changes, restarts>>

-----------------------------------------------------------------------------
(* ensureGzip: asset after asset, those whose copy is older than the file. *)

\* After the last asset, the refresh is over.
done(g) ==
    LET rest == gzipping[g] \ {first(gzipping[g])}
    IN  /\ gzipping' = [gzipping EXCEPT ![g] = rest]
        /\ reading' = [reading EXCEPT ![g] = Nothing]
        /\ stage' = IF g = "refresh" /\ rest = {} THEN "idle" ELSE stage

statAsset(g) ==
    /\ gzipping[g] # {} /\ reading[g] = Nothing
    /\ LET a == first(gzipping[g])
       IN  IF raw[a] = Nothing \/ (gz[a] # Nothing /\ gzFresh[a])
             THEN done(g)
             ELSE reading' = [reading EXCEPT ![g] = raw[a]] /\ UNCHANGED <<gzipping, stage>>
    /\ UNCHANGED <<latest, served, tmp, gzAhead, lastManifestSha, release, todo, bounds>>

writeGzip(g) ==
    /\ reading[g] # Nothing
    /\ LET a == first(gzipping[g])
       IN  /\ gz' = [gz EXCEPT ![a] = reading[g]]
           /\ gzFresh' = [gzFresh EXCEPT ![a] = TRUE]
           /\ gzAhead' = [gzAhead EXCEPT ![a] = TRUE]
    /\ done(g)
    /\ UNCHANGED <<latest, manifest, raw, tmp, lastManifestSha, release, todo, bounds>>

gzipFails(g) ==
    /\ reading[g] # Nothing
    /\ done(g)
    /\ UNCHANGED <<latest, served, tmp, gzAhead, lastManifestSha, release, todo, bounds>>

\* Mutant: a restart forgets what was mirrored and takes GitHub's word.
startTrusting ==
    /\ restarts < MaxRestarts
    /\ restarts' = restarts + 1
    /\ lastManifestSha' = latest.tag
    /\ stage' = "idle"
    /\ todo' = {}
    /\ tmp' = None
    /\ gzipping' = [NoJob EXCEPT !["start"] = Assets]
    /\ reading' = NotReading
    /\ UNCHANGED <<latest, served, gzAhead, release, changes, faults>>

\* The server dies and starts again: the sha comes from the disk, the copies that
\* are missing are made in the background.
start ==
    /\ restarts < MaxRestarts
    /\ restarts' = restarts + 1
    /\ lastManifestSha' = manifest
    /\ stage' = "idle"
    /\ todo' = {}
    /\ tmp' = None
    /\ gzipping' = [NoJob EXCEPT !["start"] = Assets]
    /\ reading' = NotReading
    /\ UNCHANGED <<latest, served, gzAhead, release, changes, faults>>

-----------------------------------------------------------------------------
refresh ==
    \/ tick
    \/ fetchManifest
    \/ \E a \in Assets : fetchAsset(a)
    \/ fetchFails
    \/ \E a \in Assets : renameAsset(a)
    \/ renameManifest
    \/ renameFails

ensureGzip(g) == statAsset(g) \/ writeGzip(g) \/ gzipFails(g)

Next ==
    \/ \E r \in GhRelease : Publish(r.tag, r.carries)
    \/ refresh
    \/ \E g \in Gzippers : ensureGzip(g)
    \/ start

Spec == Init /\ [][Next]_vars

\* The interval timer fires, and each answer or rename that is tried again and
\* again comes off at last; the compression ends.
FairSpec ==
    /\ Spec
    /\ WF_vars(tick)
    /\ SF_vars(fetchManifest)
    /\ \A a \in Assets : SF_vars(fetchAsset(a)) /\ SF_vars(renameAsset(a))
    /\ SF_vars(renameManifest)
    /\ \A g \in Gzippers : WF_vars(ensureGzip(g))

-----------------------------------------------------------------------------
\* What GET /bin hands to a client that accepts gzip, decoded.
getBinary(a) == IF gz[a] # Nothing /\ gzFresh[a] THEN gz[a] ELSE raw[a]

TypeOK ==
    /\ latest \in GhRelease /\ release \in GhRelease
    /\ manifest \in Bytes /\ lastManifestSha \in Bytes
    /\ raw \in [Assets -> Bytes] /\ gz \in [Assets -> Bytes] /\ tmp \in [Assets -> Bytes]
    /\ gzFresh \in [Assets -> BOOLEAN] /\ gzAhead \in [Assets -> BOOLEAN]
    /\ stage \in {"idle", "manifest", "download", "swap", "gzip"}
    /\ todo \subseteq release.carries
    /\ gzipping \in [Gzippers -> SUBSET Assets]
    /\ reading \in [Gzippers -> Bytes]
    /\ changes \in 0 .. MaxChanges /\ faults \in 0 .. MaxFaults /\ restarts \in 0 .. MaxRestarts

\* "A daemon polling /manifest.json sees the new sha only after both binaries are
\* reachable" (refresh): whatever failed or died before, a new manifest appears over
\* the required binaries of its own release.
ManifestLast ==
    [][manifest' # manifest => \A a \in REQUIRED_ASSETS : raw'[a] = manifest']_vars

\* "Returns null when no fresh .gz exists yet" (getBinaryGzip): a copy that is taken
\* for fresh is a copy of the binary beside it.  Only the compression a restart left
\* running may write, after a download and before its rename, a copy of the old binary
\* that is newer than the new one.
CopiesTrue ==
    \A a \in Assets : gz[a] # Nothing /\ gzFresh[a] /\ gz[a] # raw[a] => restarts > 0

\* When GitHub's latest release stays what it is, the mirror ends with its manifest,
\* after any failures, restarts and releases on the way.
ManifestCatchesUp ==
    \A t \in Tags : <>[](latest.tag = t /\ REQUIRED_ASSETS \subseteq latest.carries)
                       => <>[](manifest = t)

\* Daemons "will re-download every cycle until the asset is restored"
\* (warnUnservableManifestEntries): once the latest release carries an asset for
\* good, that is what is served in the end.
\* The code does otherwise (README, Divergences).
RestoredIsServed ==
    \A t \in Tags, a \in Assets :
        <>[](latest.tag = t /\ REQUIRED_ASSETS \cup {a} \subseteq latest.carries)
            => <>[](getBinary(a) = t)
=============================================================================
