----------------------------- MODULE SelfUpdate -----------------------------
(***************************************************************************)
(* How the binary of one machine is replaced: the daemon's own update      *)
(* (src/daemon/update.ts) with the endpoint migration that rides on it     *)
(* (endpoint-override.ts), the watchdog's repair of a missing binary and   *)
(* its rollback of a fresh one that crashes (watchdog.ts), the installer,  *)
(* and deaths between any two steps.                                       *)
(*                                                                         *)
(* A file is the build it holds.  Every await of checkForUpdate ends a     *)
(* step; what happens before the next one is one action.  The watchdog's   *)
(* accounting is Watchdog's; here are left the crashes it counts, its fuse *)
(* and its latch.  Of the 60 minutes in which a binary is fresh and a      *)
(* rollback recent only the end is kept.                                   *)
(***************************************************************************)
EXTENDS Naturals, FiniteSets

CONSTANTS
    Builds,             \* releases, as the bytes of this platform's binary
    Broken,             \* those that crash in their first tick
    Unbootable,         \* those that cannot print their version
    None,               \* no file, no process
    Torn,               \* bytes of no release
    Endpoints,          \* servers
    HomeEndpoint,       \* the one the installer configures
    DOWNLOAD_ATTEMPTS,
    FUSE_RESPAWNS,
    Tamper,             \* may the binary be removed or reinstalled during an update?
    MaxReleases,        \* bound: changes of the manifest
    MaxMishaps          \* bound: deaths that are not the build's fault, removals and
                        \* reinstallations, together

ASSUME UpdateAssumption ==
    /\ Broken \subseteq Builds /\ Unbootable \subseteq Builds
    /\ None \notin Builds /\ Torn \notin Builds /\ None # Torn
    /\ HomeEndpoint \in Endpoints /\ None \notin Endpoints
    /\ DOWNLOAD_ATTEMPTS \in Nat \ {0} /\ FUSE_RESPAWNS \in Nat \ {0}
    /\ Tamper \in BOOLEAN
    /\ MaxReleases \in Nat /\ MaxMishaps \in Nat

VARIABLES
    advertised,     \* the build the manifest names for this platform
    canonical,      \* the endpoint the server's header names, None without one
    exec,           \* execPath
    fresh,          \* is it younger than FRESH_SWAP_WINDOW_MS, and who placed it?
    prev,           \* execPath.prev
    new,            \* execPath.new, which daemon and watchdog both download to
    override,       \* <stateDir>/endpoint
    running,        \* the build the daemon's process runs
    endpoint,       \* the server it talks to
    manifest,       \* the manifest it validated last: its cache, and its target
    pc,             \* its step
    attempt,        \* downloads it has tried
    crashes,        \* respawns in a row that nothing explains
    degraded,       \* the watchdog's latch
    rolledBack,     \* rolledBackAt, within the window
    repair,         \* the step of the watchdog's repair
    repairTarget,   \* the build it is after
    removed,        \* the binary was deleted by hand and not replaced yet (history)
    releases, deaths, hands     \* bound counters

server == <<advertised, canonical>>
disk == <<exec, fresh, prev, new, override>>
daemon == <<running, endpoint, manifest, pc, attempt>>
watchdog == <<crashes, degraded, rolledBack, repair, repairTarget>>
bounds == <<removed, releases, deaths, hands>>
vars == <<server, disk, daemon, watchdog, bounds>>

Whole == Builds \ Unbootable
Steps == {"down", "check", "download", "sha", "smoke", "unlink", "link", "rename", "tick", "wait"}
Updating == pc \in {"download", "sha", "smoke", "unlink", "link", "rename"}

Init ==
    /\ advertised \in Builds
    /\ canonical = None
    /\ exec \in Whole
    /\ fresh = "no"
    /\ prev = None
    /\ new = None
    /\ override = None
    /\ running = None
    /\ endpoint = HomeEndpoint
    /\ manifest = None
    /\ pc = "down"
    /\ attempt = 0
    /\ crashes = 0
    /\ degraded = FALSE
    /\ rolledBack = FALSE
    /\ repair = "idle"
    /\ repairTarget = None
    /\ removed = FALSE
    /\ releases = 0 /\ deaths = 0 /\ hands = 0

-----------------------------------------------------------------------------
\* The server: another release becomes the latest, the operator moves the fleet.
Release(b) ==
    /\ releases < MaxReleases
    /\ b # advertised
    /\ advertised' = b
    /\ releases' = releases + 1
    /\ UNCHANGED <<canonical, disk, daemon, watchdog, removed, deaths, hands>>

Repoint(e) ==
    /\ releases < MaxReleases
    /\ e # canonical
    /\ canonical' = e
    /\ releases' = releases + 1
    /\ UNCHANGED <<advertised, disk, daemon, watchdog, removed, deaths, hands>>

-----------------------------------------------------------------------------
(* The daemon's process.                                                   *)

\* The supervisor starts what is at execPath; the boot sweeps the debris of a
\* download and reads the override.  The first check comes before the first tick.
Respawn ==
    /\ pc = "down"
    /\ exec \in Whole
    /\ running' = exec
    /\ endpoint' = IF override # None THEN override ELSE HomeEndpoint
    /\ manifest' = None
    /\ new' = None
    /\ pc' = "check"
    /\ attempt' = 0
    /\ UNCHANGED <<server, exec, fresh, prev, override, watchdog, bounds>>

Gone ==
    /\ pc' = "down"
    /\ running' = None
    /\ manifest' = None
    /\ attempt' = 0
    /\ endpoint' = endpoint

\* Signal, kill or power: what is on disk stays as it is.
Die ==
    /\ pc # "down"
    /\ deaths + hands < MaxMishaps
    /\ deaths' = deaths + 1
    /\ Gone
    /\ UNCHANGED <<server, disk, watchdog, removed, releases, hands>>

tick ==
    /\ pc = "tick"
    /\ IF running \in Broken
         THEN Gone /\ crashes' = IF crashes < FUSE_RESPAWNS THEN crashes + 1 ELSE crashes
         ELSE /\ pc' = "wait" /\ crashes' = 0
              /\ UNCHANGED <<running, endpoint, manifest, attempt>>
    /\ UNCHANGED <<server, disk, degraded, rolledBack, repair, repairTarget, bounds>>

\* The next check is due.
Due ==
    /\ pc = "wait"
    /\ pc' = "check"
    /\ UNCHANGED <<server, disk, running, endpoint, manifest, attempt, watchdog, bounds>>

\* checkForUpdate returns without an update.
Return == pc' = "tick" /\ attempt' = 0

\* Mutant: the header counts on a fresh manifest only.
migrates200 == canonical \notin {None, endpoint} /\ manifest # advertised

\* The header rides on 200 and on 304.
migrates == canonical \notin {None, endpoint}

\* The override is persisted, the exit journaled: the supervisor starts it again.
migrate ==
    /\ pc = "check"
    /\ migrates
    /\ override' = canonical
    /\ Gone
    /\ UNCHANGED <<server, exec, fresh, prev, new, watchdog, bounds>>

\* Mutant: a manifest that has not changed since the last check ends the check.
proceeds304 == exec \notin {None, advertised} /\ manifest # advertised

\* The file is compared, not the process; it must be there.
proceeds == exec \notin {None, advertised}

\* The manifest arrives, new (200) or as cached (304), and the rest of the check is
\* the same.  A header that could not be persisted is passed over.
checkManifest ==
    /\ pc = "check"
    /\ manifest' = advertised
    /\ IF proceeds THEN pc' = "download" /\ attempt' = 0 ELSE Return
    /\ UNCHANGED <<server, disk, running, endpoint, watchdog, bounds>>

checkFails ==
    /\ pc = "check"
    /\ Return
    /\ UNCHANGED <<server, disk, running, endpoint, manifest, watchdog, bounds>>

\* curl is done: the bytes of some release, or of none.
download(bytes) ==
    /\ pc = "download"
    /\ new' = bytes
    /\ pc' = "sha"
    /\ UNCHANGED <<server, exec, fresh, prev, override, running, endpoint, manifest, attempt,
                   watchdog, bounds>>

\* Mutant: the counter is not reset with the last attempt.
downloadFailsOn ==
    /\ pc = "download"
    /\ attempt' = attempt + 1
    /\ IF attempt' = DOWNLOAD_ATTEMPTS
         THEN new' = None /\ pc' = "tick"
         ELSE new' = Torn /\ pc' = pc
    /\ UNCHANGED <<server, exec, fresh, prev, override, running, endpoint, manifest, watchdog,
                   bounds>>

\* curl fails and leaves part of a file; after the last attempt it is unlinked.
downloadFails ==
    /\ pc = "download"
    /\ attempt' = (attempt + 1) % DOWNLOAD_ATTEMPTS
    /\ IF attempt' = 0 THEN new' = None /\ pc' = "tick" ELSE new' = Torn /\ pc' = pc
    /\ UNCHANGED <<server, exec, fresh, prev, override, running, endpoint, manifest, watchdog,
                   bounds>>

\* SHA-256 against the manifest.
verifySha ==
    /\ pc = "sha"
    /\ IF new = manifest
         THEN pc' = "smoke" /\ UNCHANGED <<new, attempt>>
         ELSE Return /\ new' = None
    /\ UNCHANGED <<server, exec, fresh, prev, override, running, endpoint, manifest, watchdog,
                   bounds>>

\* Mutant: the right bytes are good enough.
verifyBinaryNever ==
    /\ pc = "smoke"
    /\ pc' = "unlink"
    /\ UNCHANGED <<server, disk, running, endpoint, manifest, attempt, watchdog, bounds>>

\* chmod, then `--version` of the new binary.
verifyBinary ==
    /\ pc = "smoke"
    /\ IF new \in Whole
         THEN pc' = "unlink" /\ UNCHANGED <<new, attempt>>
         ELSE Return /\ new' = None
    /\ UNCHANGED <<server, exec, fresh, prev, override, running, endpoint, manifest, watchdog,
                   bounds>>

\* keepPrev: unlink, then a hard link of what is at execPath now.
unlinkPrev ==
    /\ pc = "unlink"
    /\ prev' = None
    /\ pc' = "link"
    /\ UNCHANGED <<server, exec, fresh, new, override, running, endpoint, manifest, attempt,
                   watchdog, bounds>>

\* Mutant: what is at execPath is renamed to .prev, not linked.
linkPrevByRename ==
    /\ pc = "link"
    /\ prev' = exec
    /\ exec' = None
    /\ pc' = "rename"
    /\ UNCHANGED <<server, fresh, new, override, running, endpoint, manifest, attempt,
                   watchdog, bounds>>

linkPrev ==
    /\ pc = "link"
    /\ prev' = exec
    /\ pc' = "rename"
    /\ UNCHANGED <<server, exec, fresh, new, override, running, endpoint, manifest, attempt,
                   watchdog, bounds>>

\* The rename, the journal and the exit; a file that is gone fails it.
swap ==
    /\ pc = "rename"
    /\ IF new # None
         THEN exec' = new /\ fresh' = "swapped" /\ removed' = FALSE /\ Gone
         ELSE Return /\ UNCHANGED <<exec, fresh, running, endpoint, manifest, removed>>
    /\ new' = None
    /\ UNCHANGED <<server, prev, override, watchdog, releases, deaths, hands>>

-----------------------------------------------------------------------------
(* The watchdog.                                                           *)

\* Not a fresh swap, nothing to go back to, or gone back just now: no rollback.
rollsBack == fresh # "no" /\ prev # None /\ ~rolledBack

\* The fuse blows; a copy of .prev, or nothing if it fails, is put at execPath.
maybeRollback ==
    /\ crashes >= FUSE_RESPAWNS
    /\ ~degraded
    /\ degraded' = TRUE
    /\ crashes' = 0
    /\ \/ exec # None /\ rollsBack
          /\ exec' = prev /\ fresh' = "placed" /\ rolledBack' = TRUE
       \/ UNCHANGED <<exec, fresh, rolledBack>>
    /\ UNCHANGED <<server, prev, new, override, daemon, repair, repairTarget, bounds>>

\* The heartbeat has been fresh for long enough.
unlatch ==
    /\ degraded
    /\ pc = "wait"
    /\ degraded' = FALSE
    /\ crashes' = 0
    /\ UNCHANGED <<server, disk, daemon, rolledBack, repair, repairTarget, bounds>>

\* An hour passes.  A file placed by the last rollback is no older than that.
WindowEnds ==
    /\ \/ rolledBack /\ rolledBack' = FALSE
          /\ fresh' \in IF fresh = "placed" THEN {"no"} ELSE {"no", fresh}
       \/ ~rolledBack /\ fresh # "no" /\ fresh' = "no" /\ UNCHANGED rolledBack
    /\ UNCHANGED <<server, exec, prev, new, override, daemon, crashes, degraded, repair,
                   repairTarget, bounds>>

\* healDaemonArtifacts: the same pipeline onto an empty path, without .prev, without
\* the header, without exit.
repairCheck ==
    /\ repair = "idle"
    /\ exec = None
    /\ repair' = "download"
    /\ repairTarget' = advertised
    /\ UNCHANGED <<server, disk, daemon, crashes, degraded, rolledBack, bounds>>

repairDownload(bytes) ==
    /\ repair = "download"
    /\ new' = bytes
    /\ repair' = "sha"
    /\ UNCHANGED <<server, exec, fresh, prev, override, daemon, crashes, degraded, rolledBack,
                   repairTarget, bounds>>

repairFails ==
    /\ repair = "download"
    /\ new' = None
    /\ repair' = "idle"
    /\ repairTarget' = None
    /\ UNCHANGED <<server, exec, fresh, prev, override, daemon, crashes, degraded, rolledBack,
                   bounds>>

repairVerify ==
    /\ repair = "sha"
    /\ IF new = repairTarget /\ new \in Whole
         THEN repair' = "rename" /\ UNCHANGED <<new, repairTarget>>
         ELSE repair' = "idle" /\ new' = None /\ repairTarget' = None
    /\ UNCHANGED <<server, exec, fresh, prev, override, daemon, crashes, degraded, rolledBack,
                   bounds>>

repairSwap ==
    /\ repair = "rename"
    /\ IF new # None
         THEN exec' = new /\ fresh' = "placed" /\ removed' = FALSE
         ELSE UNCHANGED <<exec, fresh, removed>>
    /\ new' = None
    /\ repair' = "idle"
    /\ repairTarget' = None
    /\ UNCHANGED <<server, prev, override, daemon, crashes, degraded, rolledBack, releases,
                   deaths, hands>>

-----------------------------------------------------------------------------
(* Hands on the machine.                                                   *)

Free == Tamper \/ (~Updating /\ repair = "idle")

\* The binary is deleted; the process that runs it goes on.
Remove ==
    /\ deaths + hands < MaxMishaps
    /\ Free
    /\ exec # None
    /\ exec' = None /\ removed' = TRUE
    /\ fresh' = "no"
    /\ hands' = hands + 1
    /\ UNCHANGED <<server, prev, new, override, daemon, watchdog, releases, deaths>>

\* The installer stops the daemon, puts the latest binary in place, and deletes
\* the override.
Reinstall ==
    /\ deaths + hands < MaxMishaps
    /\ Free
    /\ advertised \in Whole
    /\ exec' = advertised /\ removed' = FALSE
    /\ fresh' = "placed"
    /\ override' = None
    /\ hands' = hands + 1
    /\ Gone
    /\ UNCHANGED <<server, prev, new, watchdog, releases, deaths>>

-----------------------------------------------------------------------------
Bytes == Builds \cup {Torn}

checkForUpdate ==
    \/ migrate
    \/ checkManifest
    \/ checkFails
    \/ \E bytes \in Bytes : download(bytes)
    \/ downloadFails
    \/ verifySha
    \/ verifyBinary
    \/ unlinkPrev
    \/ linkPrev
    \/ swap

healDaemonArtifacts ==
    \/ repairCheck
    \/ \E bytes \in Bytes : repairDownload(bytes)
    \/ repairFails
    \/ repairVerify
    \/ repairSwap

Next ==
    \/ \E b \in Builds : Release(b)
    \/ \E e \in Endpoints : Repoint(e)
    \/ Respawn
    \/ Die
    \/ tick
    \/ Due
    \/ checkForUpdate
    \/ maybeRollback
    \/ unlatch
    \/ WindowEnds
    \/ healDaemonArtifacts
    \/ Remove
    \/ Reinstall

Spec == Init /\ [][Next]_vars

\* The supervisor respawns, the loop goes round, the watchdog runs; a manifest, a
\* download, a write that is tried again and again succeeds at last.
FairSpec ==
    /\ Spec
    /\ WF_vars(Respawn) /\ WF_vars(tick) /\ WF_vars(Due)
    /\ SF_vars(checkManifest)
    /\ SF_vars(migrate)
    /\ SF_vars(download(manifest))
    /\ WF_vars(verifySha) /\ WF_vars(verifyBinary)
    /\ WF_vars(unlinkPrev) /\ WF_vars(linkPrev) /\ WF_vars(swap)
    /\ WF_vars(repairCheck)
    /\ SF_vars(repairDownload(repairTarget))
    /\ WF_vars(repairVerify) /\ WF_vars(repairSwap)

-----------------------------------------------------------------------------
TypeOK ==
    /\ advertised \in Builds /\ canonical \in Endpoints \cup {None}
    /\ exec \in Builds \cup {None, Torn} /\ prev \in Builds \cup {None, Torn}
    /\ new \in Builds \cup {None, Torn}
    /\ fresh \in {"no", "swapped", "placed"}
    /\ override \in Endpoints \cup {None} /\ endpoint \in Endpoints
    /\ running \in Whole \cup {None} /\ (running = None <=> pc = "down")
    /\ manifest \in Builds \cup {None}
    /\ pc \in Steps /\ attempt \in 0 .. DOWNLOAD_ATTEMPTS - 1
    /\ crashes \in 0 .. FUSE_RESPAWNS /\ degraded \in BOOLEAN /\ rolledBack \in BOOLEAN
    /\ repair \in {"idle", "download", "sha", "rename"}
    /\ repairTarget \in Builds \cup {None}
    /\ removed \in BOOLEAN
    /\ releases \in 0 .. MaxReleases /\ deaths \in Nat /\ hands \in Nat
    /\ deaths + hands <= MaxMishaps

\* "There is never an instant without a complete binary at execPath" (keepPrev): what
\* is there runs, and nothing is there only from a removal by hand until the next
\* binary is put in place, whatever dies in between and whatever was downloaded; what a
\* rollback would put there runs too.
\* With hands on the binary in the middle of an update the code does otherwise
\* (Tamper).
AlwaysRunnable ==
    /\ exec \in Whole \/ (exec = None /\ removed)
    /\ prev \in Whole \cup {None}

\* A machine follows the manifest, up or down, whatever runs on it: when the latest
\* release stays what it is, and can boot, the machine ends with it.  A build that
\* crashes in its first tick is left by the check before that tick.
Converges ==
    \A b \in Whole \ Broken : <>[](advertised = b) => <>[](exec = b)

\* When the operator's header stays what it is, the daemon ends at that server; a
\* machine whose binary was removed needs a release that boots to come back.
Migrates ==
    \A e \in Endpoints :
        <>[](canonical = e /\ advertised \in Whole) => <>[](endpoint = e)
=============================================================================
