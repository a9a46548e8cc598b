------------------------------ MODULE Shipping ------------------------------
(***************************************************************************)
(* The path of a usage record from a session log to the server's events    *)
(* table: the poll tick (src/daemon/tick.ts), the offsets it keeps in      *)
(* state.json (src/daemon/state.ts), the batched POST with its retries     *)
(* (src/daemon/transport.ts) and the idempotent insert behind /ingest      *)
(* (src/server/main.ts, src/server/db.ts).                                 *)
(*                                                                         *)
(* The tools append to the logs while the daemon reads them; requests are  *)
(* lost, delayed past the client's timeout, or refused; the daemon is      *)
(* killed between any two steps and restarted, possibly as another build.  *)
(*                                                                         *)
(* A log file is the sequence of its complete records.  A record is its    *)
(* dedup key, so one key may occur in several files (a resumed session     *)
(* copies its history) and several times in one.  An absent FileState and  *)
(* one reset by a rescan behave alike, and both are Unseen here.           *)
(***************************************************************************)
EXTENDS Integers, Sequences, FiniteSets

CONSTANTS
    Files,          \* session log paths
    Sources,        \* listers: claude_code, claude_cowork, codex, ...
    SourceOf,       \* the lister that finds each file
    Keys,           \* usage records, by dedup key
    MinGen,         \* the first build generation whose parser emits a record
    Invalid,        \* records validateEvent rejects
    NoFile,         \* not a file
    BatchSize,      \* events per /ingest POST
    Attempts,       \* tries per batch
    AllowRollback,  \* may a build of an older generation be installed again?
    Logs,           \* bound: what each log may come to hold
    MaxGen,         \* bound: build generations (RESCAN_GENERATION bumps)
    MaxCrashes,     \* bound: kills, signals and unreadable state files
    MaxLate         \* bound: abandoned requests the server may still get to

ASSUME ShippingAssumption ==
    /\ SourceOf \in [Files -> Sources]
    /\ MinGen \in [Keys -> Nat]
    /\ Invalid \subseteq Keys
    /\ NoFile \notin Files
    /\ BatchSize \in Nat \ {0}
    /\ Attempts \in Nat \ {0}
    /\ AllowRollback \in BOOLEAN
    /\ DOMAIN Logs = Files /\ \A f \in Files : Logs[f] \subseteq Seq(Keys)
    /\ MaxGen \in Nat \ {0}
    /\ MaxCrashes \in Nat
    /\ MaxLate \in Nat

VARIABLES
    content,    \* the records of each log, kept as history once it is deleted
    onDisk,     \* the logs that exist
    mtime,      \* their modification times
    build,      \* RESCAN_GENERATION of the installed binary
    disk,       \* state.json
    mem,        \* the state the daemon loop holds
    pc,         \* where the daemon is
    aborted,    \* has the shutdown signal fired?
    present,    \* the paths listed this tick (presentSet)
    todo,       \* those not yet scanned
    cur,        \* the file between its stat and its parse
    curMtime,   \* what that stat returned
    pending,    \* file states to adopt when the POST succeeds
    collected,  \* the dedup keys seen this tick (seenThisTick)
    unsent,     \* collected events not in an acknowledged batch
    batch,      \* the batch being posted
    tries,      \* attempts used on it
    wire,       \* requests given up on that the server may still process
    rows,       \* the events table
    crashes     \* bound counter

envVars  == <<content, onDisk, mtime>>
tickVars == <<present, todo, cur, curMtime, pending, collected>>
postVars == <<unsent, batch, tries>>
vars == <<content, onDisk, mtime, build, disk, mem, pc, aborted, present, todo,
          cur, curMtime, pending, collected, unsent, batch, tries, wire, rows,
          crashes>>

FileState  == [mtime : Nat, offset : Nat]
Unseen     == [mtime |-> 0, offset |-> 0]
NoFiles    == [f \in Files |-> Unseen]
State      == [files : [Files -> FileState], gen : Nat]
emptyState == [files |-> NoFiles, gen |-> 0]

Logged == UNION {{content[f][i] : i \in 1 .. Len(content[f])} : f \in Files}

-----------------------------------------------------------------------------
Init ==
    /\ content = [f \in Files |-> <<>>]
    /\ onDisk = {}
    /\ mtime = [f \in Files |-> 0]
    /\ build = 1
    /\ disk = emptyState
    /\ mem = emptyState
    /\ pc = "down"
    /\ aborted = FALSE
    /\ present = {}
    /\ todo = {}
    /\ cur = NoFile
    /\ curMtime = 0
    /\ pending = NoFiles
    /\ collected = {}
    /\ unsent = {}
    /\ batch = {}
    /\ tries = 0
    /\ wire = {}
    /\ rows = {}
    /\ crashes = 0

-----------------------------------------------------------------------------
(* The tools.  A path is never reused once its log is gone.                *)

AppendRecord(f, k) ==
    /\ Append(content[f], k) \in Logs[f]
    /\ f \in onDisk \/ content[f] = <<>>
    /\ content' = [content EXCEPT ![f] = Append(@, k)]
    /\ onDisk' = onDisk \cup {f}
    /\ mtime' = [mtime EXCEPT ![f] = @ + 1]
    /\ UNCHANGED <<build, disk, mem, pc, aborted, tickVars, postVars, wire, rows,
                   crashes>>

DeleteFile(f) ==
    /\ f \in onDisk
    /\ onDisk' = onDisk \ {f}
    /\ UNCHANGED <<content, mtime, build, disk, mem, pc, aborted, tickVars, postVars,
                   wire, rows, crashes>>

-----------------------------------------------------------------------------
(* Start-up: load state.json, apply a pending rescan and save it.          *)

\* A missing or corrupt file loads as the empty state.
loadState(readable) == IF readable THEN disk ELSE emptyState

\* Mutant: the new generation is noted and the offsets are kept.
applyRescanGenerationKeeps(st) == IF st.gen >= build THEN st ELSE [st EXCEPT !.gen = build]

applyRescanGeneration(st) ==
    IF st.gen >= build THEN st ELSE [files |-> NoFiles, gen |-> build]

Start(readable) ==
    /\ pc = "down"
    /\ ~readable => crashes < MaxCrashes
    /\ LET st     == loadState(readable)
           rescan == applyRescanGeneration(st)
       IN  /\ mem' = rescan
           /\ disk' = IF rescan = st THEN disk ELSE rescan
    /\ crashes' = IF readable THEN crashes ELSE crashes + 1
    /\ pc' = "idle"
    /\ UNCHANGED <<envVars, build, aborted, tickVars, postVars, wire, rows>>

\* Self-update, reinstall or rollback puts another build in place.
Deploy(g) ==
    /\ pc = "down"
    /\ g # build
    /\ g > build \/ AllowRollback
    /\ build' = g
    /\ UNCHANGED <<envVars, disk, mem, pc, aborted, tickVars, postVars, wire, rows,
                   crashes>>

-----------------------------------------------------------------------------
(* One tick: list, then stat and parse each file.                          *)

\* safeList turns the failure of a lister into an empty listing.
StartTick(failed) ==
    /\ pc = "idle"
    /\ ~aborted
    /\ present' = {f \in onDisk : SourceOf[f] \notin failed}
    /\ todo' = present'
    /\ pending' = mem.files
    /\ collected' = {}
    /\ pc' = "scan"
    /\ UNCHANGED <<envVars, build, disk, mem, aborted, cur, curMtime, postVars, wire,
                   rows, crashes>>

\* Vanished, unchanged, or due for a parse.
StatFile(f) ==
    /\ pc = "scan"
    /\ ~aborted
    /\ cur = NoFile
    /\ f \in todo
    /\ todo' = todo \ {f}
    /\ IF f \in onDisk /\ mtime[f] > mem.files[f].mtime
         THEN cur' = f /\ curMtime' = mtime[f]
         ELSE UNCHANGED <<cur, curMtime>>
    /\ UNCHANGED <<envVars, build, disk, mem, pc, aborted, present, pending, collected,
                   postVars, wire, rows, crashes>>

\* The records from the saved offset to the end of the file as it is now.
Unread(f) ==
    {content[f][i] : i \in (mem.files[f].offset + 1) .. Len(content[f])}

Emitted(f) == {k \in Unread(f) : MinGen[k] <= build}

\* A file gone since its stat reads as empty, at offset 0.
ParseFile ==
    /\ pc = "scan"
    /\ cur # NoFile
    /\ IF cur \in onDisk
         THEN /\ collected' = collected \cup Emitted(cur)
              /\ pending' = [pending EXCEPT ![cur] =
                    [mtime |-> curMtime, offset |-> Len(content[cur])]]
         ELSE /\ pending' = [pending EXCEPT ![cur] = [mtime |-> curMtime, offset |-> 0]]
              /\ UNCHANGED collected
    /\ cur' = NoFile
    /\ curMtime' = 0
    /\ UNCHANGED <<envVars, build, disk, mem, pc, aborted, present, todo, postVars,
                   wire, rows, crashes>>

\* Mutant: a failed parse still records the mtime it was tried at.
ParseFailsSeen ==
    /\ pc = "scan"
    /\ cur # NoFile
    /\ pending' = [pending EXCEPT ![cur].mtime = curMtime]
    /\ cur' = NoFile
    /\ curMtime' = 0
    /\ UNCHANGED <<envVars, build, disk, mem, pc, aborted, present, todo, collected,
                   postVars, wire, rows, crashes>>

\* parse_failed: the offset of this file stays, the others go on.
ParseFails ==
    /\ pc = "scan"
    /\ cur # NoFile
    /\ cur' = NoFile
    /\ curMtime' = 0
    /\ UNCHANGED <<envVars, build, disk, mem, pc, aborted, present, todo, pending,
                   collected, postVars, wire, rows, crashes>>

\* Nothing collected counts as posted.  A shutdown signal cuts the scan short.
EndScan ==
    /\ pc = "scan"
    /\ cur = NoFile
    /\ todo = {} \/ aborted
    /\ pc' = IF collected = {} THEN "save" ELSE "post"
    /\ unsent' = collected
    /\ todo' = {}
    /\ UNCHANGED <<envVars, build, disk, mem, aborted, present, cur, curMtime, pending,
                   collected, batch, tries, wire, rows, crashes>>

-----------------------------------------------------------------------------
(* postEvents: batches in sequence, each tried up to Attempts times.       *)

SendBatch(B) ==
    /\ pc = "post"
    /\ batch = {}
    /\ ~aborted
    /\ B # {} /\ B \subseteq unsent
    /\ \/ Cardinality(B) = BatchSize
       \/ B = unsent /\ Cardinality(B) < BatchSize
    /\ batch' = B
    /\ tries' = 1
    /\ UNCHANGED <<envVars, build, disk, mem, pc, aborted, tickVars, unsent, wire, rows,
                   crashes>>

\* Mutant: rows that fail validation are inserted all the same.
insertManyUnchecked(B) == rows \cup B

\* insertMany: the unique index absorbs what is already there; rows that
\* fail validation are skipped.
insertMany(B) == rows \cup (B \ Invalid)

\* Mutant: the first batch the server takes ends the flush.
BatchAckedFirst ==
    /\ pc = "post"
    /\ batch # {}
    /\ ~(batch \subseteq Invalid)
    /\ rows' = insertMany(batch)
    /\ unsent' = {}
    /\ batch' = {}
    /\ tries' = 0
    /\ pc' = "save"
    /\ UNCHANGED <<envVars, build, disk, mem, aborted, tickVars, wire, crashes>>

\* A 2xx.  A batch of nothing but invalid rows never gets one.
BatchAcked ==
    /\ pc = "post"
    /\ batch # {}
    /\ ~(batch \subseteq Invalid)
    /\ rows' = insertMany(batch)
    /\ unsent' = unsent \ batch
    /\ batch' = {}
    /\ tries' = 0
    /\ pc' = IF unsent' = {} THEN "save" ELSE "post"
    /\ UNCHANGED <<envVars, build, disk, mem, aborted, tickVars, wire, crashes>>

\* The tick's locals die with it; nothing is adopted.
AbandonTick ==
    /\ unsent' = {}
    /\ batch' = {}
    /\ tries' = 0
    /\ present' = {}
    /\ todo' = {}
    /\ cur' = NoFile
    /\ curMtime' = 0
    /\ pending' = NoFiles
    /\ collected' = {}

\* The request may be lost, or reach the server after its sender gave up.
Abandoned == {w \in {wire, wire \cup {batch}} : Cardinality(w) <= MaxLate}

\* Mutant: one attempt too many.
AttemptFailsAgain ==
    /\ pc = "post"
    /\ batch # {}
    /\ wire' \in Abandoned
    /\ IF tries <= Attempts /\ ~aborted
         THEN tries' = tries + 1 /\ UNCHANGED <<pc, tickVars, unsent, batch>>
         ELSE pc' = "idle" /\ AbandonTick
    /\ UNCHANGED <<envVars, build, disk, mem, aborted, rows, crashes>>

\* The attempt times out, throws or gets a 5xx; the request is still out there.
\* Another attempt follows unless they are used up or shutdown was asked for.
AttemptFails ==
    /\ pc = "post"
    /\ batch # {}
    /\ wire' \in Abandoned
    /\ IF tries < Attempts /\ ~aborted
         THEN tries' = tries + 1 /\ UNCHANGED <<pc, tickVars, unsent, batch>>
         ELSE pc' = "idle" /\ AbandonTick
    /\ UNCHANGED <<envVars, build, disk, mem, aborted, rows, crashes>>

\* A non-retriable 4xx (a refused identity, an all-invalid batch), or the
\* signal seen before an attempt: the whole call fails.
PostFails ==
    /\ pc = "post"
    /\ batch # {} \/ aborted
    /\ AbandonTick
    /\ pc' = "idle"
    /\ UNCHANGED <<envVars, build, disk, mem, aborted, wire, rows, crashes>>

\* The server gets to a request its sender gave up on.
LateIngest(B) ==
    /\ B \in wire
    /\ wire' = wire \ {B}
    /\ rows' = insertMany(B)
    /\ UNCHANGED <<envVars, build, disk, mem, pc, aborted, tickVars, postVars, crashes>>

-----------------------------------------------------------------------------
(* Only a tick whose every batch was acknowledged adopts its reads.        *)

\* Mutant: the mtime of a log that was read is taken when the state is saved, not
\* before the read.
pruneMissingFilesRestat ==
    [f \in Files |-> IF f \notin present THEN Unseen
                     ELSE IF pending[f] = mem.files[f] THEN pending[f]
                     ELSE [pending[f] EXCEPT !.mtime = mtime[f]]]

pruneMissingFiles == [f \in Files |-> IF f \in present THEN pending[f] ELSE Unseen]

\* The save may fail: the loop then runs ahead of the file.
SaveState(saved) ==
    /\ pc = "save"
    /\ mem' = [mem EXCEPT !.files = pruneMissingFiles]
    /\ disk' = IF saved THEN mem' ELSE disk
    /\ AbandonTick
    /\ pc' = "idle"
    /\ UNCHANGED <<envVars, build, aborted, wire, rows, crashes>>

-----------------------------------------------------------------------------
Sigterm ==
    /\ pc # "down"
    /\ ~aborted
    /\ crashes < MaxCrashes
    /\ aborted' = TRUE
    /\ crashes' = crashes + 1
    /\ UNCHANGED <<envVars, build, disk, mem, pc, tickVars, postVars, wire, rows>>

\* The loop notices the signal between ticks.
Exit ==
    /\ pc = "idle"
    /\ aborted
    /\ pc' = "down"
    /\ aborted' = FALSE
    /\ mem' = emptyState
    /\ UNCHANGED <<envVars, build, disk, tickVars, postVars, wire, rows, crashes>>

\* SIGKILL, a crash or a power cut, between any two steps.
Crash ==
    /\ pc # "down"
    /\ crashes < MaxCrashes
    /\ crashes' = crashes + 1
    /\ wire' \in IF batch = {} THEN {wire} ELSE Abandoned
    /\ AbandonTick
    /\ pc' = "down"
    /\ aborted' = FALSE
    /\ mem' = emptyState
    /\ UNCHANGED <<envVars, build, disk, rows>>

-----------------------------------------------------------------------------
Next ==
    \/ \E f \in Files, k \in Keys : AppendRecord(f, k)
    \/ \E f \in Files : DeleteFile(f)
    \/ \E readable \in BOOLEAN : Start(readable)
    \/ \E g \in 1 .. MaxGen : Deploy(g)
    \/ \E failed \in SUBSET Sources : StartTick(failed)
    \/ \E f \in Files : StatFile(f)
    \/ ParseFile
    \/ ParseFails
    \/ EndScan
    \/ \E B \in SUBSET unsent : SendBatch(B)
    \/ BatchAcked
    \/ AttemptFails
    \/ PostFails
    \/ \E B \in wire : LateIngest(B)
    \/ \E saved \in BOOLEAN : SaveState(saved)
    \/ Sigterm
    \/ Exit
    \/ Crash

Spec == Init /\ [][Next]_vars

(***************************************************************************)
(* Fairness.  The loop keeps stepping and the supervisor (launchd's        *)
(* KeepAlive, systemd's Restart=always) restarts it.  A lister, a parse    *)
(* and the delivery of a batch holding any given record may fail, but not  *)
(* for ever.  Nothing is assumed of saves, late requests, kills or tools.  *)
(***************************************************************************)
Fairness ==
    /\ WF_vars(Start(TRUE))
    /\ SF_vars(StartTick({}))
    /\ WF_vars(\E f \in Files : StatFile(f))
    /\ \A f \in Files : SF_vars(ParseFile /\ cur = f)
    /\ WF_vars(EndScan)
    /\ WF_vars(\E B \in SUBSET unsent : SendBatch(B))
    /\ WF_vars(BatchAcked \/ AttemptFails \/ PostFails)
    /\ \A k \in Keys \ Invalid : SF_vars(BatchAcked /\ k \in batch)
    /\ WF_vars(\E saved \in BOOLEAN : SaveState(saved))
    /\ WF_vars(Exit)

FairSpec == Spec /\ Fairness

-----------------------------------------------------------------------------
TypeOK ==
    /\ content \in [Files -> Seq(Keys)]
    /\ onDisk \subseteq Files
    /\ mtime \in [Files -> Nat]
    /\ build \in 1 .. MaxGen
    /\ disk \in State
    /\ mem \in State
    /\ pc \in {"down", "idle", "scan", "post", "save"}
    /\ aborted \in BOOLEAN
    /\ present \subseteq Files
    /\ todo \subseteq Files
    /\ cur \in Files \cup {NoFile}
    /\ curMtime \in Nat
    /\ pending \in [Files -> FileState]
    /\ collected \subseteq Keys
    /\ unsent \subseteq Keys
    /\ batch \subseteq Keys
    /\ tries \in 0 .. Attempts
    /\ wire \subseteq SUBSET Keys
    /\ rows \subseteq Keys
    /\ crashes \in 0 .. MaxCrashes

\* The record needs no further shipping, as far as a build of generation g
\* can tell: the server has it, refuses it, or that build does not parse it.
Settled(k, g) == k \in rows \cup Invalid \/ MinGen[k] > g

\* No offset the daemon holds, on disk or in memory, has moved past a record
\* the server does not have: whatever batches failed, however the daemon died,
\* nothing behind an offset is lost (transport.ts postEvents, tick.ts step 5).
OffsetsCovered ==
    \A st \in {disk, mem}, f \in Files :
        \A i \in 1 .. st.files[f].offset : Settled(content[f][i], st.gen)

\* A log whose recorded mtime is current, and which the tick will therefore
\* not open again, has been read to its end: the mtime recorded is the one
\* from before the read, so a record appended during the tick is not hidden.
NothingHidden ==
    \A st \in {disk, mem}, f \in onDisk :
        st.files[f].mtime >= mtime[f] => st.files[f].offset = Len(content[f])

-----------------------------------------------------------------------------
(* The inductive invariant behind OffsetsCovered and NothingHidden, for     *)
(* builds that only move forward.                                           *)

\* What a daemon holds in memory is what its own build wrote or rescanned.
GenOrdered ==
    /\ disk.gen <= build
    /\ pc = "down" => mem = emptyState
    /\ pc # "down" => mem.gen = build

\* The file states R lie within the logs, are no newer than them, and the
\* current ones are complete.
Within(R) ==
    \A f \in Files :
        /\ R[f].offset <= Len(content[f])
        /\ R[f].mtime <= mtime[f]
        /\ f \in onDisk /\ R[f].mtime = mtime[f] => R[f].offset = Len(content[f])

\* Behind the offsets of R lies nothing but settled records and those of C.
Covered(R, C, g) ==
    \A f \in Files : \A i \in 1 .. R[f].offset :
        Settled(content[f][i], g) \/ content[f][i] \in C

\* What the daemon is about to adopt is accounted for: a record behind a
\* pending offset is settled or was collected, and a collected record is with
\* the server or still to be sent.
TickAccounted ==
    /\ Within(pending)
    /\ cur # NoFile => curMtime <= mtime[cur]
    /\ pc \notin {"down", "idle"} => Covered(pending, collected, build)
    /\ batch \subseteq unsent
    /\ unsent \subseteq collected
    /\ pc # "post" => unsent = {}
    /\ pc \in {"post", "save"} => collected \ unsent \subseteq rows \cup Invalid

IInv ==
    /\ TypeOK
    /\ GenOrdered
    /\ \A f \in Files : mtime[f] = 0 => content[f] = <<>>
    /\ Within(disk.files) /\ Within(mem.files)
    /\ Covered(disk.files, {}, disk.gen) /\ Covered(mem.files, {}, mem.gen)
    /\ TickAccounted

-----------------------------------------------------------------------------
L == INSTANCE Ledger WITH
        Countable <- {k \in Keys \ Invalid : MinGen[k] <= MaxGen},
        logged    <- Logged,
        onDisk    <- UNION {{content[f][i] : i \in 1 .. Len(content[f])} : f \in onDisk},
        counted   <- rows

\* Shipping implements the ledger: only logged records are counted, none is
\* ever un-counted, and every other step leaves the ledger alone.
RefinesLedger == L!LedgerSpec

\* A record that stays on disk reaches the server in the end, once the installed
\* build parses it: through lost requests, failed parses and batches, kills and
\* restarts, and also if an earlier build has read past it (RESCAN_GENERATION).
Delivered ==
    \A k \in Keys \ Invalid : <>[](MinGen[k] <= build) => L!EventuallyCounted(k)
=============================================================================
