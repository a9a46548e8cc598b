------------------------------ MODULE Identity ------------------------------
(***************************************************************************)
(* Who may post as a handle: its row in user_secrets, the rows of its      *)
(* machines in user_devices (src/server/db.ts), the routes that change     *)
(* them (src/server/main.ts), and the machines that come and go through    *)
(* the installer, the uninstaller and the CLI.                             *)
(*                                                                         *)
(* One handle.  Secrets and link codes are numbered as they are made, 0    *)
(* being none.  A handler has no await between its first look at the       *)
(* tables and its answer, so it is one action; the requests it answers may *)
(* be late.  Left out: the join gate of a first claim, labels, and the     *)
(* rows a rolled back server leaves.                                       *)
(***************************************************************************)
EXTENDS Naturals, FiniteSets, FiniteSetsExt

CONSTANTS
    Machines,
    NoRow,
    MaxUpsets,      \* bound: uninstalls, wipes, revocations, codes and restarts
    MaxResets,      \* bound: `reset-user`, `full` and `mark-uninstalled` of the admin
    MaxFull         \* bound: `full` among them

ASSUME IdentityAssumption == {MaxUpsets, MaxResets, MaxFull} \subseteq Nat

VARIABLES
    row,            \* user_secrets of the handle
    devices,        \* user_devices
    lastId,         \* the AUTOINCREMENT counter of user_devices
    linkCode,       \* the code outstanding, in the server's memory
    phase,          \* the program on a machine: "absent", "running", "leaving"
    secret,         \* <stateDir>/secret
    link,           \* TOKENLEADER_LINK
    wire,           \* requests on their way
    named,          \* the device `tokenleader revoke` has chosen from its listing, and its own secret
    strayed,        \* a kicked secret was linked to the handle while it was uninstalled (history)
    codes, secrets, upsets, resets, fulls     \* bound counters

tables == <<row, devices, lastId>>
machines == <<phase, secret, link>>
counters == <<codes, secrets, upsets, resets, fulls>>
vars == <<tables, linkCode, machines, wire, named, strayed, counters>>

RowType == [hash : 1 .. secrets, uninstalled : BOOLEAN]
DeviceType == [id : 1 .. lastId, hash : 1 .. secrets, revoked : BOOLEAN, barred : BOOLEAN]
Nobody == [id |-> 0, hash |-> 0, by |-> 0]

Init ==
    /\ row = NoRow /\ devices = {} /\ lastId = 0
    /\ linkCode = 0
    /\ phase = [m \in Machines |-> "absent"]
    /\ secret = [m \in Machines |-> 0]
    /\ link = [m \in Machines |-> 0]
    /\ wire = {}
    /\ named = [m \in Machines |-> Nobody]
    /\ strayed = FALSE
    /\ codes = 0 /\ secrets = 0 /\ upsets = 0 /\ resets = 0 /\ fulls = 0

Upset == upsets < MaxUpsets /\ upsets' = upsets + 1

-----------------------------------------------------------------------------
(* The tables.                                                             *)

listUserDevices == {d \in devices : ~d.revoked}

\* A secret that an active device has.
authenticates(s) == \E d \in listUserDevices : d.hash = s

\* Mutant: only the newest row of the handle is looked at.
isSecretBarredOnce(s) ==
    \E d \in devices : d.hash = s /\ d.barred /\ \A e \in devices : e.id <= d.id

isSecretBarred(s) == \E d \in devices : d.hash = s /\ d.barred

\* Mutant: ids continue from the rows that are there.
insertDeviceReusing(rows, s) ==
    /\ lastId' = 1 + Max({0} \cup {d.id : d \in rows})
    /\ devices' = rows \cup {[id |-> lastId', hash |-> s, revoked |-> FALSE, barred |-> FALSE]}

insertDevice(rows, s) ==
    /\ lastId' = lastId + 1
    /\ devices' = rows \cup {[id |-> lastId', hash |-> s, revoked |-> FALSE, barred |-> FALSE]}

Revoked(D, bar) == (devices \ D) \cup {[d EXCEPT !.revoked = TRUE, !.barred = @ \/ bar] : d \in D}

\* The first claim of the handle.
claimUserSecret(s) ==
    /\ row' = [hash |-> s, uninstalled |-> FALSE]
    /\ insertDevice(devices, s)
    /\ strayed' = FALSE

\* The handle of nobody: the row is turned to this machine.
reclaimUserSecret(s) ==
    /\ row' = [hash |-> s, uninstalled |-> FALSE]
    /\ insertDevice(Revoked(listUserDevices, FALSE), s)
    /\ strayed' = FALSE

linkUserDevice(s) ==
    /\ insertDevice(devices, s)
    /\ strayed' = (strayed \/ row.uninstalled)
    /\ UNCHANGED row

\* Mutant: the mirror is left where it is.
revokeUserDeviceUnmirrored(d, bar) ==
    /\ devices' = Revoked({d}, bar)
    /\ row' = IF row = NoRow THEN row ELSE [row EXCEPT !.uninstalled = @ \/ listUserDevices = {d}]
    /\ UNCHANGED <<lastId, strayed>>

\* Mutant: the last device leaves the handle as it is.
revokeUserDeviceUnmarked(d, bar) ==
    /\ devices' = Revoked({d}, bar)
    /\ UNCHANGED <<row, lastId, strayed>>

\* One device goes.  The last one leaves the handle uninstalled; the mirror of a
\* device that goes is turned to the oldest that stays.
revokeUserDevice(d, bar) ==
    LET remaining == listUserDevices \ {d}
        oldest == CHOOSE e \in remaining : \A f \in remaining : e.id <= f.id
    IN  /\ devices' = Revoked({d}, bar)
        /\ row' = IF row = NoRow THEN row
                  ELSE IF remaining = {} THEN [row EXCEPT !.uninstalled = TRUE]
                  ELSE IF row.hash = d.hash THEN [row EXCEPT !.hash = oldest.hash]
                  ELSE row
        /\ UNCHANGED <<lastId, strayed>>

\* /events/uninstall: an active device goes; everything else is an answer only.
markUserUninstalled(s) ==
    IF row # NoRow /\ authenticates(s)
      THEN \E d \in listUserDevices : d.hash = s /\ revokeUserDevice(d, FALSE)
      ELSE UNCHANGED <<tables, strayed>>

\* Boot: a handle without devices gets one from its row, and a row that names a
\* secret without a device gets that.
migrateUserDevices(r, rows) ==
    IF r # NoRow /\ (rows = {} \/ (~r.uninstalled /\ \A d \in rows : d.hash # r.hash))
      THEN /\ lastId' = lastId + 1
           /\ devices' = rows \cup {[id |-> lastId', hash |-> r.hash, revoked |-> r.uninstalled,
                                     barred |-> FALSE]}
      ELSE devices' = rows /\ lastId' = lastId

-----------------------------------------------------------------------------
(* /ingest, its alternatives in the order of the handler.                  *)

\* A code is good once.
consumeLinkCode(code) == linkCode # 0 /\ code = linkCode

ingest(r) ==
    /\ r.kind = "ingest" /\ r \in wire
    /\ wire' = wire \ {r}
    /\ IF row = NoRow
         THEN claimUserSecret(r.secret) /\ UNCHANGED linkCode
       ELSE IF authenticates(r.secret)
         THEN row' = [row EXCEPT !.uninstalled = FALSE]     \* clearUninstalledMark
              /\ UNCHANGED <<devices, lastId, linkCode, strayed>>
       ELSE IF row.uninstalled /\ ~isSecretBarred(r.secret)
         THEN reclaimUserSecret(r.secret) /\ UNCHANGED linkCode
       ELSE IF consumeLinkCode(r.link)
         THEN linkUserDevice(r.secret) /\ linkCode' = 0
       ELSE UNCHANGED <<tables, linkCode, strayed>>         \* 403
    /\ UNCHANGED <<machines, named, counters>>

uninstall(r) ==
    /\ r.kind = "uninstall" /\ r \in wire
    /\ wire' = wire \ {r}
    /\ markUserUninstalled(r.secret)
    /\ UNCHANGED <<linkCode, machines, named, counters>>

-----------------------------------------------------------------------------
(* The machines.                                                           *)

\* The daemon's first start makes the secret, if there is none.
loadOrCreateSecret(m) ==
    /\ secret' = IF secret[m] = 0 THEN [secret EXCEPT ![m] = secrets + 1] ELSE secret
    /\ secrets' = IF secret[m] = 0 THEN secrets + 1 ELSE secrets

\* The installer, with or without the code somebody was shown.
Install(m, code) ==
    /\ phase[m] = "absent" \/ (phase[m] = "running" /\ code \notin {0, link[m]})
    /\ phase' = [phase EXCEPT ![m] = "running"]
    /\ link' = [link EXCEPT ![m] = code]
    /\ loadOrCreateSecret(m)
    /\ UNCHANGED <<tables, linkCode, wire, named, strayed, codes, upsets, resets, fulls>>

Request(kind, m) == [kind |-> kind, secret |-> secret[m], link |-> link[m]]

\* Every batch carries the secret and the code the machine was installed with.
postBatch(m) ==
    /\ phase[m] # "absent"
    /\ wire' = wire \cup {Request("ingest", m)}
    /\ wire' # wire
    /\ UNCHANGED <<tables, linkCode, machines, named, strayed, counters>>

\* The uninstaller tells the server first.
notify_server_uninstall(m) ==
    /\ phase[m] = "running"
    /\ Upset
    /\ phase' = [phase EXCEPT ![m] = "leaving"]
    /\ wire' = wire \cup {Request("uninstall", m)}
    /\ UNCHANGED <<tables, linkCode, secret, link, named, strayed, codes, secrets, resets, fulls>>

\* Whether it answered or not, the service is stopped then; state stays or goes.
StopService(m, purge) ==
    /\ phase[m] = "leaving"
    /\ phase' = [phase EXCEPT ![m] = "absent"]
    /\ secret' = IF purge THEN [secret EXCEPT ![m] = 0] ELSE secret
    /\ link' = [link EXCEPT ![m] = 0]
    /\ UNCHANGED <<tables, linkCode, wire, named, strayed, counters>>

\* A machine is wiped.
Wipe(m) ==
    /\ phase[m] = "running"
    /\ Upset
    /\ phase' = [phase EXCEPT ![m] = "absent"]
    /\ secret' = [secret EXCEPT ![m] = 0]
    /\ link' = [link EXCEPT ![m] = 0]
    /\ named' = [named EXCEPT ![m] = Nobody]
    /\ UNCHANGED <<tables, linkCode, wire, strayed, codes, secrets, resets, fulls>>

-----------------------------------------------------------------------------
(* Codes and revocations.                                                  *)

\* A new code replaces the one before.
mintLinkCode ==
    /\ Upset
    /\ codes' = codes + 1
    /\ linkCode' = codes'
    /\ UNCHANGED <<tables, machines, wire, named, strayed, secrets, resets, fulls>>

authDevice(m) == secret[m] # 0 /\ authenticates(secret[m])

\* `tokenleader link`, or the admin for any handle that was claimed.
runLink == (\E m \in Machines : authDevice(m)) /\ mintLinkCode
adminLink == row # NoRow /\ mintLinkCode

Expire ==
    /\ linkCode # 0
    /\ linkCode' = 0
    /\ UNCHANGED <<tables, machines, wire, named, strayed, counters>>

\* `tokenleader revoke`: list, choose, then post the id with the same secret.
fetchDevices(m) ==
    /\ phase[m] = "running" /\ named[m] = Nobody
    /\ authDevice(m)
    /\ Upset
    /\ \E d \in listUserDevices :
         named' = [named EXCEPT ![m] = [id |-> d.id, hash |-> d.hash, by |-> secret[m]]]
    /\ UNCHANGED <<tables, linkCode, machines, wire, strayed, codes, secrets, resets, fulls>>

runRevoke(m) ==
    /\ named[m] # Nobody
    /\ named' = [named EXCEPT ![m] = Nobody]
    /\ \/ /\ authenticates(named[m].by)
          /\ \E d \in listUserDevices : d.id = named[m].id /\ revokeUserDevice(d, TRUE)
       \/ /\ ~authenticates(named[m].by) \/ \A d \in listUserDevices : d.id # named[m].id
          /\ UNCHANGED <<tables, strayed>>
    /\ UNCHANGED <<linkCode, machines, wire, counters>>

-----------------------------------------------------------------------------
(* The admin, and the server's restarts.                                   *)

Reset(full) ==
    /\ resets < MaxResets /\ resets' = resets + 1
    /\ IF full THEN fulls < MaxFull /\ fulls' = fulls + 1 ELSE UNCHANGED fulls

adminMarkUninstalled ==
    /\ Reset(FALSE)
    /\ row # NoRow
    /\ devices' = Revoked(listUserDevices, FALSE)
    /\ row' = [row EXCEPT !.uninstalled = TRUE]
    /\ UNCHANGED <<lastId, strayed, linkCode, machines, wire, named, codes, secrets, upsets, fulls>>

\* reset-user: the devices, then the row.
clearUserSecret ==
    /\ Reset(FALSE)
    /\ devices' = {} /\ row' = NoRow /\ strayed' = FALSE
    /\ UNCHANGED <<lastId, linkCode, machines, wire, named, codes, secrets, upsets, fulls>>

\* The server dies in between, and boots.
clearUserSecretDies ==
    /\ Reset(FALSE)
    /\ migrateUserDevices(row, {})
    /\ linkCode' = 0
    /\ strayed' = FALSE
    /\ UNCHANGED <<row, machines, wire, named, codes, secrets, upsets, fulls>>

\* full: the tables are dropped, and the counter of ids with them.
clearFull ==
    /\ Reset(TRUE)
    /\ devices' = {} /\ row' = NoRow /\ lastId' = 0 /\ strayed' = FALSE
    /\ UNCHANGED <<linkCode, machines, wire, named, codes, secrets, upsets>>

\* The server dies after user_secrets and before user_devices, and boots.
clearFullDies ==
    /\ Reset(TRUE)
    /\ row' = NoRow
    /\ linkCode' = 0
    /\ UNCHANGED <<devices, lastId, strayed, machines, wire, named, codes, secrets, upsets>>

Boot ==
    /\ Upset
    /\ linkCode' = 0
    /\ migrateUserDevices(row, devices)
    /\ UNCHANGED <<row, machines, wire, named, strayed, codes, secrets, resets, fulls>>

-----------------------------------------------------------------------------
Machine(m) ==
    \/ \E code \in {0, linkCode} : Install(m, code)
    \/ postBatch(m)
    \/ notify_server_uninstall(m)
    \/ \E purge \in BOOLEAN : StopService(m, purge)
    \/ Wipe(m)
    \/ fetchDevices(m)
    \/ runRevoke(m)

Admin == adminLink \/ adminMarkUninstalled \/ clearUserSecret \/ clearFull

Next ==
    \/ \E m \in Machines : Machine(m)
    \/ \E r \in wire : ingest(r) \/ uninstall(r)
    \/ runLink
    \/ Expire
    \/ Admin
    \/ clearUserSecretDies
    \/ clearFullDies
    \/ Boot

Spec == Init /\ [][Next]_vars

\* Daemons post, and what they post arrives.
FairSpec ==
    /\ Spec
    /\ \A m \in Machines :
         /\ WF_vars(postBatch(m))
         /\ WF_vars(\E r \in wire : r = Request("ingest", m) /\ ingest(r))

-----------------------------------------------------------------------------
TypeOK ==
    /\ row \in RowType \cup {NoRow}
    /\ devices \subseteq DeviceType
    /\ \A d, e \in devices : d.id = e.id => d = e
    /\ fulls = 0 => \A d, e \in listUserDevices : d.hash = e.hash => d = e
    /\ linkCode \in 0 .. codes
    /\ phase \in [Machines -> {"absent", "running", "leaving"}]
    /\ secret \in [Machines -> 0 .. secrets] /\ link \in [Machines -> 0 .. codes]
    /\ wire \subseteq [kind : {"ingest", "uninstall"}, secret : 1 .. secrets, link : 0 .. codes]
    /\ upsets \in 0 .. MaxUpsets /\ resets \in 0 .. MaxResets /\ fulls \in 0 .. MaxFull

\* "user_secrets.secret_hash stays mirrored to a SURVIVING active device's hash"
\* (user_devices), and "no active devices => uninstalled_at set" (revokeUserDevice):
\* row and devices agree, whatever joined, left, was kicked or came late; but not
\* after a kicked machine was linked to a handle that was uninstalled.
RowAgrees ==
    row # NoRow /\ ~strayed =>
        /\ row.uninstalled <=> listUserDevices = {}
        /\ listUserDevices # {} => authenticates(row.hash)

\* "In forward-only operation an authenticated device implies uninstalled_at is
\* already null" (main.ts).
\* The code does otherwise (README, Divergences).
AuthedNotUninstalled == row # NoRow /\ row.uninstalled => listUserDevices = {}

\* "A kicked machine's still-running daemon can't resurrect itself": a barred secret
\* authenticates for a claimed handle again only by using up a code, which nobody
\* else can use then.
BarredStaysOut ==
    [][\A d \in devices \cap devices' :
         row # NoRow /\ d.barred /\ ~authenticates(d.hash) /\ authenticates(d.hash)'
            => linkCode # 0 /\ linkCode' = 0]_vars

\* `tokenleader revoke` bars the machine that was chosen from the listing and no
\* other, however the devices changed before the request arrived.  (Only `full`
\* makes ids start again.)
NamedIsRevoked ==
    [][\A d \in devices', e \in devices :
         fulls = 0 /\ d.id = e.id /\ d.barred /\ ~e.barred
            => \E m \in Machines : named[m].id = e.id /\ named[m].hash = e.hash]_vars

\* A handle without a machine goes to the next that posts, unless that was kicked:
\* nobody who reinstalls is left with a 403.
HandleRevives ==
    \A m \in Machines :
        listUserDevices = {} /\ phase[m] = "running" /\ ~isSecretBarred(secret[m])
            ~> \/ listUserDevices # {} \/ phase[m] # "running" \/ isSecretBarred(secret[m])
=============================================================================
