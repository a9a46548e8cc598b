--------------------------- MODULE IdentityProofs ---------------------------
(***************************************************************************)
(* Proofs about Identity: who may post as a handle.                        *)
(*                                                                         *)
(* Every action changes the two tables by one of five operations or not at *)
(* all.  Each operation has a lemma saying what it makes of the active     *)
(* devices and that it keeps the table of devices in order (Tabled), with  *)
(* the ids it had (Follows).                                               *)
(***************************************************************************)
EXTENDS Identity, WellFoundedInduction, TLAPS

Row == [hash : Nat, uninstalled : BOOLEAN]
Device == [id : Nat, hash : Nat, revoked : BOOLEAN, barred : BOOLEAN]

\* The table of devices: an id is one device's, and was drawn before.
Tabled ==
    /\ devices \subseteq Device
    /\ lastId \in Nat
    /\ \A d \in devices : d.id <= lastId /\ d.id > 0
    /\ \A d, e \in devices : d.id = e.id => d = e

\* What a step may make of it: a device is new, or was there with the same id and
\* secret; only those numbered in B are barred.
Follows(B) ==
    /\ lastId' >= lastId
    /\ \A d \in devices' :
          \/ d.id > lastId /\ ~d.barred
          \/ \E e \in devices : e.id = d.id /\ e.hash = d.hash /\ (d.barred => e.barred \/ e.id \in B)

\* The rest of the types, as far as the proofs need them.
Shaped ==
    /\ row # NoRow => row \in Row
    /\ secrets \in Nat /\ fulls \in Nat
    /\ secret \in [Machines -> Nat]
    /\ \A r \in wire : r.secret \in Nat
    /\ named \in [Machines -> [id : Nat, hash : Nat, by : Nat]]

\* A number somebody holds still means the device it was read from.
Numbered ==
    fulls = 0 => \A m \in Machines :
        /\ named[m].id <= lastId
        /\ \A d \in devices : d.id = named[m].id => d.hash = named[m].hash

\* The inductive invariant.
IdentityInv == Tabled /\ Shaped /\ Numbered /\ RowAgrees

-----------------------------------------------------------------------------
\* Of any devices that are left, one is the oldest.
LEMMA OldestExists ==
    ASSUME NEW D, D # {}, D \subseteq Device
    PROVE  \E e \in D : \A f \in D : e.id <= f.id
<1> DEFINE Ids == {d.id : d \in D}
<1>1. Ids \subseteq Nat /\ Ids # {}
  BY DEF Device
<1>2. PICK i \in Ids : \A j \in Ids : ~(<<j, i>> \in OpToRel(<, Nat))
  BY <1>1, NatLessThanWellFounded, WFMin
<1>i. i \in Nat
  BY <1>1
<1> HIDE DEF Ids
<1>3. \A j \in Ids : i <= j
  <2> SUFFICES ASSUME NEW j \in Ids, j < i PROVE FALSE
    BY <1>1, <1>i
  <2>1. <<j, i>> \in Nat \X Nat /\ <<j, i>>[1] < <<j, i>>[2]
    BY <1>1, <1>i
  <2>2. <<j, i>> \in OpToRel(<, Nat)
    BY <2>1 DEF OpToRel
  <2> QED BY <1>2, <2>2
<1>4. PICK e \in D : i = e.id
  BY DEF Ids
<1> QED BY <1>3, <1>4 DEF Ids


\* The row revokeUserDevice leaves in place of d.
Kicked(d, bar) == [d EXCEPT !.revoked = TRUE, !.barred = @ \/ bar]

\* Revoked keeps ids and secrets and takes the devices of D, and no others, from the
\* active ones.
LEMMA KickedForm ==
    ASSUME NEW d \in Device, NEW bar \in BOOLEAN
    PROVE  /\ Kicked(d, bar) \in Device
           /\ Kicked(d, bar).id = d.id /\ Kicked(d, bar).hash = d.hash
           /\ Kicked(d, bar).revoked
           /\ Kicked(d, bar).barred => d.barred \/ bar
BY DEF Device, Kicked

LEMMA RevokedForm ==
    ASSUME NEW D, D \subseteq devices, NEW bar
    PROVE  \A e : e \in Revoked(D, bar) <=> \/ e \in devices /\ e \notin D
                                            \/ \E d \in D : e = Kicked(d, bar)
BY DEF Revoked, Kicked

LEMMA RevokedStep ==
    ASSUME Tabled, NEW D, D \subseteq devices, NEW bar \in BOOLEAN,
           devices' = Revoked(D, bar), lastId' = lastId
    PROVE  /\ Tabled'
           /\ bar => Follows({d.id : d \in D})
           /\ ~bar => Follows({})
           /\ listUserDevices' = listUserDevices \ D
<1>1. \A e : e \in devices' <=> \/ e \in devices /\ e \notin D
                                \/ \E d \in D : e = Kicked(d, bar)
  BY RevokedForm
<1>2. \A d \in D : /\ Kicked(d, bar) \in Device
                   /\ Kicked(d, bar).id = d.id /\ Kicked(d, bar).hash = d.hash
                   /\ Kicked(d, bar).revoked
                   /\ Kicked(d, bar).barred => d.barred \/ bar
  BY KickedForm DEF Tabled
<1>3. Tabled'
  BY <1>1, <1>2 DEF Tabled
<1>4. ASSUME bar PROVE Follows({d.id : d \in D})
  BY <1>1, <1>2 DEF Follows, Tabled
<1>5. ASSUME ~bar PROVE Follows({})
  BY <1>1, <1>2, <1>5 DEF Follows, Tabled
<1>6. listUserDevices' = listUserDevices \ D
  BY <1>1, <1>2 DEF listUserDevices
<1> QED BY <1>3, <1>4, <1>5, <1>6

\* A row put beside the ones there have been.
New(s, revoked) == [id |-> lastId + 1, hash |-> s, revoked |-> revoked, barred |-> FALSE]

LEMMA InsertedStep ==
    ASSUME Tabled, NEW D, D \subseteq devices, NEW s \in Nat, NEW revoked \in BOOLEAN,
           NEW bar \in BOOLEAN, ~bar,
           devices' = Revoked(D, bar) \cup {New(s, revoked)},
           lastId' = lastId + 1
    PROVE  /\ Tabled'
           /\ Follows({})
           /\ revoked => listUserDevices' = listUserDevices \ D
           /\ ~revoked => listUserDevices' = (listUserDevices \ D) \cup {New(s, revoked)}
<1> DEFINE new == New(s, revoked)
<1>1. \A e : e \in devices' <=> \/ e \in devices /\ e \notin D
                                \/ \E d \in D : e = Kicked(d, bar)
                                \/ e = new
  <2>1. \A e : e \in devices' <=> e \in Revoked(D, bar) \/ e = new
    OBVIOUS
  <2> QED BY <2>1, RevokedForm
<1>2. \A d \in D : /\ Kicked(d, bar) \in Device
                   /\ Kicked(d, bar).id = d.id /\ Kicked(d, bar).hash = d.hash
                   /\ Kicked(d, bar).revoked
                   /\ Kicked(d, bar).barred => d.barred
  BY KickedForm DEF Tabled
<1>3. /\ new \in Device /\ new.id = lastId + 1 /\ new.hash = s
      /\ new.revoked <=> revoked
      /\ ~new.barred
  BY DEF Tabled, Device, New
<1>4. lastId \in Nat /\ \A d \in devices : d.id \in Nat /\ d.id <= lastId
  BY DEF Tabled, Device
<1> HIDE DEF new
<1>5. Tabled'
  <2>1. devices' \subseteq Device /\ lastId' \in Nat
    BY <1>1, <1>2, <1>3 DEF Tabled
  <2>2. \A d \in devices' : d.id <= lastId' /\ d.id > 0
    BY <1>1, <1>2, <1>3, <1>4 DEF Tabled
  <2>3. \A d, e \in devices' : d.id = e.id => d = e
    BY <1>1, <1>2, <1>3, <1>4 DEF Tabled
  <2> QED BY <2>1, <2>2, <2>3 DEF Tabled
<1>6. Follows({})
  BY <1>1, <1>2, <1>3, <1>4 DEF Follows
<1>7. ASSUME revoked PROVE listUserDevices' = listUserDevices \ D
  <2>1. new.revoked
    BY <1>3, <1>7
  <2>2. \A e \in devices' : ~e.revoked => e \in devices /\ e \notin D
    BY <1>1, <1>2, <2>1
  <2>3. \A e \in devices : e \notin D => e \in devices'
    BY <1>1
  <2> QED BY <2>2, <2>3 DEF listUserDevices
<1>8. ASSUME ~revoked PROVE listUserDevices' = (listUserDevices \ D) \cup {new}
  BY <1>1, <1>2, <1>3, <1>8 DEF listUserDevices
<1> QED BY <1>5, <1>6, <1>7, <1>8 DEF new

-----------------------------------------------------------------------------
\* A new device of secret s beside those there are (claimUserSecret, linkUserDevice).
LEMMA InsertStep ==
    ASSUME Tabled, NEW s \in Nat, insertDevice(devices, s)
    PROVE  /\ Tabled'
           /\ Follows({})
           /\ listUserDevices' = listUserDevices \cup {New(s, FALSE)}
<1>1. PICK no \in BOOLEAN : ~no
  OBVIOUS
<1>2. no = FALSE
  BY <1>1, Zenon
<1>3. devices' = Revoked({}, no) \cup {New(s, no)} /\ lastId' = lastId + 1 /\ {} \subseteq devices
  BY <1>2 DEF insertDevice, New, Revoked
<1>4. Tabled' /\ Follows({}) /\ listUserDevices' = (listUserDevices \ {}) \cup {New(s, no)}
  BY <1>1, <1>3, InsertedStep
<1> QED BY <1>2, <1>4

\* All devices go, one comes (reclaimUserSecret).
LEMMA ReclaimStep ==
    ASSUME Tabled, NEW s \in Nat, reclaimUserSecret(s)
    PROVE  /\ Tabled'
           /\ Follows({})
           /\ listUserDevices' = {New(s, FALSE)}
<1>1. PICK no \in BOOLEAN : ~no
  OBVIOUS
<1>2. no = FALSE
  BY <1>1, Zenon
<1>3. /\ devices' = Revoked(listUserDevices, no) \cup {New(s, no)}
      /\ lastId' = lastId + 1 /\ listUserDevices \subseteq devices
  BY <1>2 DEF reclaimUserSecret, insertDevice, New, listUserDevices
<1>4. /\ Tabled' /\ Follows({})
      /\ listUserDevices' = (listUserDevices \ listUserDevices) \cup {New(s, no)}
  BY <1>1, <1>3, InsertedStep
<1> QED BY <1>2, <1>4

\* One device goes (revokeUserDevice): the handle of the last one is uninstalled, and
\* a row that named it names one that is left.
LEMMA RevokeStep ==
    ASSUME Tabled, Shaped, RowAgrees, NEW d \in listUserDevices, NEW bar \in BOOLEAN,
           revokeUserDevice(d, bar)
    PROVE  /\ Tabled'
           /\ bar => Follows({d.id})
           /\ ~bar => Follows({})
           /\ listUserDevices' = listUserDevices \ {d}
           /\ row = NoRow => row' = NoRow
           /\ row # NoRow => row' \in Row
           /\ RowAgrees'
<1> DEFINE remaining == listUserDevices \ {d}
           oldest == CHOOSE e \in remaining : \A f \in remaining : e.id <= f.id
<1>1. {d} \subseteq devices /\ remaining \subseteq Device
  BY DEF listUserDevices, Tabled
<1>2. devices' = Revoked({d}, bar) /\ lastId' = lastId /\ strayed' = strayed
  BY DEF revokeUserDevice
<1>3. Tabled' /\ (bar => Follows({d.id})) /\ (~bar => Follows({})) /\ listUserDevices' = remaining
  BY <1>1, <1>2, RevokedStep
<1>4. remaining # {} => oldest \in remaining
  BY <1>1, OldestExists
<1>5. row' = IF row = NoRow THEN row
             ELSE IF remaining = {} THEN [row EXCEPT !.uninstalled = TRUE]
             ELSE IF row.hash = d.hash THEN [row EXCEPT !.hash = oldest.hash]
             ELSE row
  BY DEF revokeUserDevice
<1> HIDE DEF remaining, oldest
<1>6. /\ row = NoRow => row' = NoRow
      /\ row # NoRow => row' \in Row
  BY <1>1, <1>4, <1>5 DEF Shaped, Row, Device
<1>7. ASSUME row' # NoRow, ~strayed'
      PROVE  /\ row'.uninstalled <=> remaining = {}
             /\ remaining # {} => \E e \in remaining : e.hash = row'.hash
  <2>1. row # NoRow /\ row \in Row
    BY <1>6, <1>7 DEF Shaped
  <2>2. ~row.uninstalled /\ \E e \in listUserDevices : e.hash = row.hash
    BY <1>2, <1>7, <2>1 DEF RowAgrees, authenticates
  <2>3. CASE remaining = {}
    BY <1>5, <2>1, <2>3 DEF Row
  <2>4. CASE remaining # {} /\ row.hash = d.hash
    <3>1. row' = [row EXCEPT !.hash = oldest.hash]
      BY <1>5, <2>1, <2>4
    <3>2. row'.hash = oldest.hash /\ ~row'.uninstalled
      BY <3>1, <2>1, <2>2 DEF Row
    <3> QED BY <1>4, <2>4, <3>2
  <2>5. CASE remaining # {} /\ row.hash # d.hash
    <3>1. row' = row
      BY <1>5, <2>1, <2>5
    <3>2. \E e \in remaining : e.hash = row.hash
      BY <2>2, <2>5 DEF remaining
    <3> QED BY <2>2, <2>5, <3>1, <3>2
  <2> QED BY <2>3, <2>4, <2>5
<1>8. RowAgrees'
  BY <1>3, <1>7 DEF RowAgrees, authenticates
<1> QED BY <1>3, <1>6, <1>8 DEF remaining

\* A boot (migrateUserDevices) puts back at most one device, and never a barred one;
\* where there were devices, only for a row that names none of them.
LEMMA BootStep ==
    ASSUME Tabled, Shaped, RowAgrees, migrateUserDevices(row, devices), row' = row,
           strayed' = strayed
    PROVE  /\ Tabled' /\ Follows({}) /\ RowAgrees'
           /\ \A e \in listUserDevices' \ listUserDevices : \A d \in devices : d.hash # e.hash
<1>1. CASE row # NoRow /\ (devices = {} \/ (~row.uninstalled /\ \A d \in devices : d.hash # row.hash))
  <2>r. row \in Row
    BY <1>1 DEF Shaped
  <2>1. PICK no \in BOOLEAN : ~no
    OBVIOUS
  <2>2. no = FALSE
    BY <2>1, Zenon
  <2>3. PICK gone \in BOOLEAN : gone = row.uninstalled
    BY <2>r DEF Row
  <2>4. devices' = Revoked({}, no) \cup {New(row.hash, gone)} /\ lastId' = lastId + 1
    BY <1>1, <2>3 DEF migrateUserDevices, New, Revoked
  <2>5. /\ Tabled' /\ Follows({})
        /\ gone => listUserDevices' = listUserDevices \ {}
        /\ ~gone => listUserDevices' = (listUserDevices \ {}) \cup {New(row.hash, gone)}
    <3>1. row.hash \in Nat /\ {} \subseteq devices
      BY <2>r DEF Row
    <3> QED BY <2>1, <2>4, <3>1, InsertedStep
  <2>6. New(row.hash, gone).hash = row.hash
    BY DEF New
  <2>7. devices = {} => listUserDevices = {}
    BY DEF listUserDevices
  <2>8. RowAgrees'
    <3>1. CASE gone
      BY <1>1, <2>3, <2>5, <2>7, <3>1 DEF RowAgrees, authenticates
    <3>2. CASE ~gone
      <4>1. ~row'.uninstalled /\ New(row.hash, gone) \in listUserDevices'
        BY <2>3, <2>5, <3>2
      <4>2. \E e \in listUserDevices' : e.hash = row'.hash
        BY <2>6, <4>1
      <4> QED BY <4>1, <4>2 DEF RowAgrees, authenticates
    <3> QED BY <3>1, <3>2
  <2>9. \A e \in listUserDevices' \ listUserDevices : \A d \in devices : d.hash # e.hash
    BY <1>1, <2>3, <2>5, <2>6
  <2> QED BY <2>5, <2>8, <2>9
<1>2. CASE ~(row # NoRow /\ (devices = {} \/ (~row.uninstalled /\ \A d \in devices : d.hash # row.hash)))
  <2>1. devices' = devices /\ lastId' = lastId
    BY <1>2 DEF migrateUserDevices
  <2>2. Tabled' /\ listUserDevices' = listUserDevices
    BY <2>1 DEF Tabled, listUserDevices
  <2>3. Follows({})
    BY <2>1 DEF Follows, Tabled
  <2>4. RowAgrees'
    BY <2>2 DEF RowAgrees, authenticates
  <2> QED BY <2>2, <2>3, <2>4
<1> QED BY <1>1, <1>2

\* The same after the devices of the handle were deleted (clearUserSecret, first half).
LEMMA EmptyBootStep ==
    ASSUME Tabled, Shaped, migrateUserDevices(row, {}), row' = row
    PROVE  /\ Tabled' /\ Follows({}) /\ RowAgrees'
           /\ \A d \in devices' : ~d.barred
<1>1. CASE row # NoRow
  <2>r. row \in Row
    BY <1>1 DEF Shaped
  <2> DEFINE e == [id |-> lastId + 1, hash |-> row.hash, revoked |-> row.uninstalled,
                   barred |-> FALSE]
  <2>4. lastId' = lastId + 1 /\ devices' = {e}
    BY <1>1 DEF migrateUserDevices
  <2>5. /\ e \in Device /\ e.id = lastId + 1 /\ e.hash = row.hash
        /\ e.revoked <=> row.uninstalled
        /\ ~e.barred
    BY <2>r DEF Row, Device, Tabled
  <2> HIDE DEF e
  <2>6. Tabled' /\ Follows({})
    BY <2>4, <2>5 DEF Tabled, Follows
  <2>7. RowAgrees'
    BY <2>4, <2>5 DEF RowAgrees, listUserDevices, authenticates
  <2> QED BY <2>4, <2>5, <2>6, <2>7
<1>2. CASE row = NoRow
  <2>1. devices' = {} /\ lastId' = lastId
    BY <1>2 DEF migrateUserDevices
  <2> QED BY <1>2, <2>1 DEF Tabled, Follows, RowAgrees
<1> QED BY <1>1, <1>2

-----------------------------------------------------------------------------
(* What BarredStaysOut and NamedIsRevoked say of one step.                 *)
StaysOut ==
    \A d \in devices \cap devices' :
         row # NoRow /\ d.barred /\ ~authenticates(d.hash) /\ authenticates(d.hash)'
            => linkCode # 0 /\ linkCode' = 0

NamedOnly ==
    \A d \in devices', e \in devices :
         fulls = 0 /\ d.id = e.id /\ d.barred /\ ~e.barred
            => \E m \in Machines : named[m].id = e.id /\ named[m].hash = e.hash

Good == IdentityInv' /\ StaysOut /\ NamedOnly

\* No device joins.
LEMMA NobodyJoins ==
    ASSUME listUserDevices' \subseteq listUserDevices
    PROVE  StaysOut
BY DEF StaysOut, authenticates

\* Nobody is barred.
LEMMA NobodyBarred ==
    ASSUME Tabled, Follows({})
    PROVE  NamedOnly
<1> SUFFICES ASSUME NEW d \in devices', NEW e \in devices, d.id = e.id, d.barred, ~e.barred
             PROVE  FALSE
  BY DEF NamedOnly
<1>1. e.id \in Nat /\ lastId \in Nat /\ e.id <= lastId
  BY DEF Tabled, Device
<1>2. PICK f \in devices : f.id = d.id /\ (d.barred => f.barred)
  BY <1>1 DEF Follows
<1>3. f = e
  BY <1>2 DEF Tabled
<1> QED BY <1>2, <1>3

\* Numbers that were read go on meaning what they meant.
LEMMA NumbersKept ==
    ASSUME Tabled, Tabled', Shaped, Numbered, NEW B, Follows(B), fulls' = fulls,
           \A m \in Machines : named'[m] \in {named[m], Nobody}
    PROVE  Numbered'
<1> SUFFICES ASSUME fulls = 0, NEW m \in Machines
             PROVE  /\ named'[m].id <= lastId'
                    /\ \A d \in devices' : d.id = named'[m].id => d.hash = named'[m].hash
  BY DEF Numbered
<1>1. lastId \in Nat /\ lastId' \in Nat /\ lastId' >= lastId
  BY DEF Tabled, Follows
<1>2. CASE named'[m] = named[m]
  <2>1. named[m].id \in Nat /\ named[m].id <= lastId
    BY DEF Shaped, Numbered
  <2>2. ASSUME NEW d \in devices', d.id = named[m].id PROVE d.hash = named[m].hash
    <3>1. PICK e \in devices : e.id = d.id /\ e.hash = d.hash
      BY <1>1, <2>1, <2>2 DEF Follows
    <3> QED BY <2>2, <3>1 DEF Numbered
  <2> QED BY <1>1, <1>2, <2>1, <2>2
<1>3. CASE named'[m] = Nobody
  <2>1. \A d \in devices' : d.id > 0
    BY DEF Tabled
  <2>2. named'[m].id = 0
    BY <1>3 DEF Nobody
  <2>3. \A d \in devices' : d.id # 0
    BY <2>1
  <2> QED BY <1>1, <2>2, <2>3
<1> QED BY <1>2, <1>3

\* A step that touches neither the tables nor a number somebody holds.
LEMMA TablesKept ==
    ASSUME IdentityInv, UNCHANGED <<tables, strayed>>
    PROVE  Tabled' /\ Follows({}) /\ RowAgrees' /\ StaysOut /\ NamedOnly
<1> USE DEF IdentityInv, tables
<1>1. Tabled' /\ listUserDevices' = listUserDevices
  BY DEF Tabled, listUserDevices
<1>2. Follows({})
  BY DEF Follows, Tabled
<1>3. RowAgrees'
  BY <1>1 DEF RowAgrees, authenticates
<1> QED BY <1>1, <1>2, <1>3, NobodyJoins, NobodyBarred

-----------------------------------------------------------------------------
(* The actions.                                                            *)

LEMMA IngestStep ==
    ASSUME IdentityInv, NEW r \in wire, ingest(r)
    PROVE  Good
<1> USE DEF IdentityInv
<1>0. r.secret \in Nat /\ fulls' = fulls /\ named' = named /\ secrets' = secrets /\ secret' = secret
      /\ wire' \subseteq wire
  BY DEF ingest, Shaped, machines, counters
<1>1. /\ Tabled' /\ Follows({}) /\ RowAgrees' /\ StaysOut
      /\ row' # NoRow => row' \in Row
  <2>1. CASE row = NoRow
    <3>1. claimUserSecret(r.secret)
      BY <2>1 DEF ingest
    <3>2. /\ Tabled' /\ Follows({})
          /\ listUserDevices' = listUserDevices \cup {New(r.secret, FALSE)}
      BY <1>0, <3>1, InsertStep DEF claimUserSecret
    <3>3. row' \in Row /\ row'.hash = r.secret /\ ~row'.uninstalled
      BY <1>0, <3>1 DEF claimUserSecret, Row
    <3>4. New(r.secret, FALSE).hash = r.secret
      BY DEF New
    <3>5. RowAgrees'
      BY <3>2, <3>3, <3>4 DEF RowAgrees, authenticates
    <3> QED BY <2>1, <3>2, <3>3, <3>5 DEF StaysOut
  <2>2. CASE row # NoRow /\ authenticates(r.secret)
    <3>1. row' = [row EXCEPT !.uninstalled = FALSE] /\ UNCHANGED <<devices, lastId, strayed>>
      BY <2>2 DEF ingest
    <3>2. row' \in Row /\ row'.hash = row.hash /\ ~row'.uninstalled
      BY <2>2, <3>1 DEF Shaped, Row
    <3>3. Tabled' /\ listUserDevices' = listUserDevices /\ listUserDevices # {}
      BY <2>2, <3>1 DEF Tabled, listUserDevices, authenticates
    <3>4. Follows({})
      BY <3>1 DEF Follows, Tabled
    <3>5. RowAgrees'
      BY <2>2, <3>1, <3>2, <3>3 DEF RowAgrees, authenticates
    <3> QED BY <3>2, <3>3, <3>4, <3>5, NobodyJoins
  <2>3. CASE row # NoRow /\ ~authenticates(r.secret) /\ row.uninstalled /\ ~isSecretBarred(r.secret)
    <3>1. reclaimUserSecret(r.secret)
      BY <2>3 DEF ingest
    <3>2. Tabled' /\ Follows({}) /\ listUserDevices' = {New(r.secret, FALSE)}
      BY <1>0, <3>1, ReclaimStep
    <3>3. row' \in Row /\ row'.hash = r.secret /\ ~row'.uninstalled
      BY <1>0, <3>1 DEF reclaimUserSecret, Row
    <3>4. New(r.secret, FALSE).hash = r.secret
      BY DEF New
    <3>5. RowAgrees'
      BY <3>2, <3>3, <3>4 DEF RowAgrees, authenticates
    <3>6. StaysOut
      BY <2>3, <3>2, <3>4 DEF StaysOut, authenticates, isSecretBarred
    <3> QED BY <3>2, <3>3, <3>5, <3>6
  <2>4. CASE /\ row # NoRow /\ ~authenticates(r.secret)
             /\ ~(row.uninstalled /\ ~isSecretBarred(r.secret)) /\ consumeLinkCode(r.link)
    <3>1. linkUserDevice(r.secret) /\ linkCode' = 0 /\ linkCode # 0
      BY <2>4 DEF ingest, consumeLinkCode
    <3>2. /\ Tabled' /\ Follows({})
          /\ listUserDevices' = listUserDevices \cup {New(r.secret, FALSE)}
          /\ row' = row /\ strayed' = (strayed \/ row.uninstalled)
      BY <1>0, <3>1, InsertStep DEF linkUserDevice
    <3>3. RowAgrees'
      BY <2>4, <3>2 DEF RowAgrees, authenticates
    <3> QED BY <3>1, <3>2, <3>3 DEF StaysOut, Shaped
  <2>5. CASE /\ row # NoRow /\ ~authenticates(r.secret)
             /\ ~(row.uninstalled /\ ~isSecretBarred(r.secret)) /\ ~consumeLinkCode(r.link)
    <3>1. UNCHANGED <<tables, strayed>>
      BY <2>5 DEF ingest
    <3> QED BY <3>1, TablesKept DEF tables, Shaped
  <2> QED BY <2>1, <2>2, <2>3, <2>4, <2>5
<1>2. Shaped'
  BY <1>0, <1>1 DEF Shaped
<1>3. Numbered'
  BY <1>0, <1>1, NumbersKept
<1> QED BY <1>1, <1>2, <1>3, NobodyBarred DEF Good

LEMMA UninstallStep ==
    ASSUME IdentityInv, NEW r \in wire, uninstall(r)
    PROVE  Good
<1> USE DEF IdentityInv
<1>0. fulls' = fulls /\ named' = named /\ secrets' = secrets /\ secret' = secret /\ wire' \subseteq wire
  BY DEF uninstall, machines, counters
<1>1. /\ Tabled' /\ Follows({}) /\ RowAgrees' /\ StaysOut
      /\ row' # NoRow => row' \in Row
  <2>1. CASE row # NoRow /\ authenticates(r.secret)
    <3>1. PICK d \in listUserDevices : revokeUserDevice(d, FALSE)
      BY <2>1 DEF uninstall, markUserUninstalled
    <3>2. PICK no \in BOOLEAN : ~no
      OBVIOUS
    <3>3. no = FALSE
      BY <3>2, Zenon
    <3>4. revokeUserDevice(d, no)
      BY <3>1, <3>3
    <3>5. /\ Tabled' /\ Follows({}) /\ RowAgrees' /\ row' \in Row
          /\ listUserDevices' = listUserDevices \ {d}
      BY <2>1, <3>2, <3>4, RevokeStep
    <3> QED BY <3>5, NobodyJoins
  <2>2. CASE ~(row # NoRow /\ authenticates(r.secret))
    <3>1. UNCHANGED <<tables, strayed>>
      BY <2>2 DEF uninstall, markUserUninstalled
    <3> QED BY <3>1, TablesKept DEF tables, Shaped
  <2> QED BY <2>1, <2>2
<1>2. Shaped'
  BY <1>0, <1>1 DEF Shaped
<1>3. Numbered'
  BY <1>0, <1>1, NumbersKept
<1> QED BY <1>1, <1>2, <1>3, NobodyBarred DEF Good

\* The request of `tokenleader revoke` arrives: the number still means the device
\* that was chosen.
LEMMA RunRevokeStep ==
    ASSUME IdentityInv, NEW m \in Machines, runRevoke(m)
    PROVE  Good
<1> USE DEF IdentityInv
<1>0. /\ fulls' = fulls /\ named' = [named EXCEPT ![m] = Nobody] /\ secrets' = secrets
      /\ secret' = secret /\ wire' = wire
  BY DEF runRevoke, machines, counters
<1>n. named' \in [Machines -> [id : Nat, hash : Nat, by : Nat]]
      /\ \A k \in Machines : named'[k] \in {named[k], Nobody}
  BY <1>0 DEF Shaped, Nobody
<1>1. CASE UNCHANGED <<tables, strayed>>
  <2>1. Tabled' /\ Follows({}) /\ RowAgrees' /\ StaysOut /\ NamedOnly
    BY <1>1, TablesKept
  <2>2. Shaped'
    BY <1>0, <1>1, <1>n DEF Shaped, tables
  <2>3. Numbered'
    BY <1>0, <1>n, <2>1, NumbersKept
  <2> QED BY <2>1, <2>2, <2>3 DEF Good
<1>2. CASE \E d \in listUserDevices : d.id = named[m].id /\ revokeUserDevice(d, TRUE)
  <2>1. PICK d \in listUserDevices : d.id = named[m].id /\ revokeUserDevice(d, TRUE)
    BY <1>2
  <2>2. PICK yes \in BOOLEAN : yes
    OBVIOUS
  <2>3. yes = TRUE
    BY <2>2, Zenon
  <2>4. revokeUserDevice(d, yes)
    BY <2>1, <2>3
  <2>5. /\ Tabled' /\ Follows({d.id}) /\ RowAgrees'
        /\ listUserDevices' = listUserDevices \ {d}
        /\ row = NoRow => row' = NoRow
        /\ row # NoRow => row' \in Row
    BY <2>2, <2>4, RevokeStep
  <2>6. Shaped'
    BY <1>0, <1>n, <2>5 DEF Shaped
  <2>7. Numbered'
    BY <1>0, <1>n, <2>5, NumbersKept
  <2>8. NamedOnly
    <3> SUFFICES ASSUME NEW c \in devices', NEW e \in devices, fulls = 0, c.id = e.id,
                        c.barred, ~e.barred
                 PROVE  named[m].id = e.id /\ named[m].hash = e.hash
      BY DEF NamedOnly
    <3>1. e.id \in Nat /\ lastId \in Nat /\ e.id <= lastId
      BY DEF Tabled, Device
    <3>2. PICK f \in devices : f.id = c.id /\ (f.barred \/ f.id = d.id)
      BY <2>5, <3>1 DEF Follows
    <3>3. f = e
      BY <3>2 DEF Tabled
    <3>4. e.id = named[m].id
      BY <2>1, <3>2, <3>3
    <3> QED BY <3>4 DEF Numbered
  <2> QED BY <2>5, <2>6, <2>7, <2>8, NobodyJoins DEF Good
<1> QED BY <1>1, <1>2 DEF runRevoke, tables

LEMMA MachineStep ==
    ASSUME IdentityInv, NEW m \in Machines, Machine(m)
    PROVE  Good
<1> USE DEF IdentityInv
<1>1. CASE \/ \E code \in {0, linkCode} : Install(m, code)
           \/ postBatch(m)
           \/ notify_server_uninstall(m)
           \/ \E purge \in BOOLEAN : StopService(m, purge)
           \/ Wipe(m)
  <2>1. /\ UNCHANGED <<tables, strayed>> /\ fulls' = fulls
        /\ named' \in {named, [named EXCEPT ![m] = Nobody]}
    BY <1>1 DEF Install, postBatch, notify_server_uninstall, StopService, Wipe, counters
  <2>2. Tabled' /\ Follows({}) /\ RowAgrees' /\ StaysOut /\ NamedOnly
    BY <2>1, TablesKept
  <2>3. \A k \in Machines : named'[k] \in {named[k], Nobody}
    BY <2>1 DEF Shaped
  <2>4. Numbered'
    BY <2>1, <2>2, <2>3, NumbersKept
  <2>5. secrets' \in Nat /\ secret' \in [Machines -> Nat]
    <3>1. ASSUME NEW code, Install(m, code) PROVE secrets' \in Nat /\ secret' \in [Machines -> Nat]
      BY <3>1 DEF Install, loadOrCreateSecret, Shaped
    <3>2. CASE ~\E code \in {0, linkCode} : Install(m, code)
      BY <1>1, <3>2
         DEF postBatch, notify_server_uninstall, StopService, Wipe, Shaped, machines, counters
    <3> QED BY <3>1, <3>2
  <2>6. \A r \in wire' : r.secret \in Nat
    <3>1. \A kind : Request(kind, m).secret \in Nat
      BY DEF Request, Shaped
    <3> QED
      BY <1>1, <3>1 DEF Install, postBatch, notify_server_uninstall, StopService, Wipe, Shaped
  <2>7. named' \in [Machines -> [id : Nat, hash : Nat, by : Nat]]
    BY <2>1 DEF Shaped, Nobody
  <2>8. Shaped'
    BY <2>1, <2>5, <2>6, <2>7 DEF Shaped, tables
  <2> QED BY <2>2, <2>4, <2>8 DEF Good
<1>2. CASE fetchDevices(m)
  <2>1. UNCHANGED <<tables, strayed, wire, secrets, secret, fulls>>
    BY <1>2 DEF fetchDevices, machines
  <2>2. Tabled' /\ Follows({}) /\ RowAgrees' /\ StaysOut /\ NamedOnly
    BY <2>1, TablesKept
  <2>3. PICK d \in listUserDevices :
          named' = [named EXCEPT ![m] = [id |-> d.id, hash |-> d.hash, by |-> secret[m]]]
    BY <1>2 DEF fetchDevices
  <2>4. d \in devices /\ d.id \in Nat /\ d.hash \in Nat /\ secret[m] \in Nat /\ d.id <= lastId
    BY DEF listUserDevices, Tabled, Device, Shaped
  <2>5. Shaped'
    BY <2>1, <2>3, <2>4 DEF Shaped, tables
  <2>6. Numbered'
    <3> SUFFICES ASSUME fulls = 0, NEW k \in Machines
                 PROVE  /\ named'[k].id <= lastId
                        /\ \A e \in devices : e.id = named'[k].id => e.hash = named'[k].hash
      BY <2>1 DEF Numbered, tables
    <3>1. CASE k = m
      <4>1. named'[k].id = d.id /\ named'[k].hash = d.hash
        BY <2>3, <3>1 DEF Shaped
      <4> QED BY <2>4, <4>1 DEF Tabled
    <3>2. CASE k # m
      <4>1. named'[k] = named[k]
        BY <2>3, <3>2 DEF Shaped
      <4> QED BY <4>1 DEF Numbered
    <3> QED BY <3>1, <3>2
  <2> QED BY <2>2, <2>5, <2>6 DEF Good
<1>3. CASE runRevoke(m)
  BY <1>3, RunRevokeStep
<1> QED BY <1>1, <1>2, <1>3 DEF Machine

\* The admin's, and those of a server that dies and boots.
LEMMA ServerStep ==
    ASSUME IdentityInv, runLink \/ Expire \/ Admin \/ clearUserSecretDies \/ clearFullDies \/ Boot
    PROVE  Good
<1> USE DEF IdentityInv
<1>1. CASE runLink \/ Expire \/ adminLink
  <2>1. UNCHANGED <<tables, strayed, machines, wire, named, secrets, fulls>>
    BY <1>1 DEF runLink, Expire, adminLink, mintLinkCode, counters
  <2>2. Tabled' /\ Follows({}) /\ RowAgrees' /\ StaysOut /\ NamedOnly
    BY <2>1, TablesKept
  <2>3. Shaped'
    BY <2>1 DEF Shaped, tables, machines
  <2>4. Numbered'
    BY <2>1, <2>2, NumbersKept
  <2> QED BY <2>2, <2>3, <2>4 DEF Good
<1>2. CASE adminMarkUninstalled
  <2>1. /\ UNCHANGED <<lastId, machines, wire, named, secrets, fulls>>
        /\ row # NoRow /\ row \in Row /\ row' = [row EXCEPT !.uninstalled = TRUE]
    BY <1>2 DEF adminMarkUninstalled, Reset, Shaped
  <2>2. PICK no \in BOOLEAN : ~no
    OBVIOUS
  <2>3. no = FALSE
    BY <2>2, Zenon
  <2>4. devices' = Revoked(listUserDevices, no) /\ listUserDevices \subseteq devices
    BY <1>2, <2>3 DEF adminMarkUninstalled, listUserDevices
  <2>5. Tabled' /\ Follows({}) /\ listUserDevices' = {}
    <3>1. Tabled' /\ Follows({}) /\ listUserDevices' = listUserDevices \ listUserDevices
      BY <2>1, <2>2, <2>4, RevokedStep
    <3> QED BY <3>1
  <2>6. row' \in Row /\ row'.uninstalled
    BY <2>1 DEF Row
  <2>7. RowAgrees'
    BY <2>5, <2>6 DEF RowAgrees
  <2>8. Shaped'
    BY <2>1, <2>6 DEF Shaped, machines
  <2>9. Numbered'
    BY <2>1, <2>5, NumbersKept
  <2> QED BY <2>5, <2>7, <2>8, <2>9, NobodyJoins, NobodyBarred DEF Good
<1>3. CASE clearUserSecret
  <2>1. /\ UNCHANGED <<lastId, machines, wire, named, secrets, fulls>>
        /\ devices' = {} /\ row' = NoRow
    BY <1>3 DEF clearUserSecret, Reset
  <2>2. Tabled' /\ RowAgrees' /\ Shaped' /\ Numbered' /\ StaysOut /\ NamedOnly
    BY <2>1 DEF Tabled, RowAgrees, Shaped, machines, Numbered, StaysOut, NamedOnly
  <2> QED BY <2>2 DEF Good
<1>4. CASE clearUserSecretDies
  <2>1. /\ UNCHANGED <<row, machines, wire, named, secrets, fulls>>
        /\ migrateUserDevices(row, {})
    BY <1>4 DEF clearUserSecretDies, Reset
  <2>2. Tabled' /\ Follows({}) /\ RowAgrees' /\ \A d \in devices' : ~d.barred
    BY <2>1, EmptyBootStep
  <2>3. Shaped'
    BY <2>1 DEF Shaped, machines
  <2>4. Numbered'
    BY <2>1, <2>2, NumbersKept
  <2> QED BY <2>2, <2>3, <2>4 DEF Good, StaysOut, NamedOnly
<1>5. CASE clearFull
  <2>1. /\ UNCHANGED <<machines, wire, named, secrets>> /\ fulls' = fulls + 1
        /\ devices' = {} /\ row' = NoRow /\ lastId' = 0
    BY <1>5 DEF clearFull, Reset
  <2>2. fulls' \in Nat /\ fulls' # 0
    BY <2>1 DEF Shaped
  <2>3. Tabled' /\ RowAgrees' /\ Shaped' /\ Numbered' /\ StaysOut /\ NamedOnly
    BY <2>1, <2>2 DEF Tabled, RowAgrees, Shaped, machines, Numbered, StaysOut, NamedOnly
  <2> QED BY <2>3 DEF Good
<1>6. CASE clearFullDies
  <2>1. /\ UNCHANGED <<devices, lastId, machines, wire, named, secrets>> /\ fulls' = fulls + 1
        /\ row' = NoRow
    BY <1>6 DEF clearFullDies, Reset
  <2>2. fulls' \in Nat /\ fulls' # 0
    BY <2>1 DEF Shaped
  <2>3. Tabled' /\ RowAgrees' /\ Shaped' /\ Numbered'
    BY <2>1, <2>2 DEF Tabled, RowAgrees, Shaped, machines, Numbered
  <2>4. listUserDevices' = listUserDevices /\ Follows({})
    BY <2>1 DEF listUserDevices, Follows, Tabled
  <2> QED BY <2>3, <2>4, NobodyJoins, NobodyBarred DEF Good
<1>7. CASE Boot
  <2>1. /\ UNCHANGED <<row, strayed, machines, wire, named, secrets, fulls>>
        /\ migrateUserDevices(row, devices)
    BY <1>7 DEF Boot
  <2>2. /\ Tabled' /\ Follows({}) /\ RowAgrees'
        /\ \A e \in listUserDevices' \ listUserDevices : \A d \in devices : d.hash # e.hash
    BY <2>1, BootStep
  <2>3. StaysOut
    <3> SUFFICES ASSUME NEW d \in devices, NEW e \in listUserDevices', e.hash = d.hash,
                        ~authenticates(d.hash)
                 PROVE  FALSE
      BY DEF StaysOut, authenticates
    <3>1. e \notin listUserDevices
      BY DEF authenticates
    <3> QED BY <2>2, <3>1
  <2>4. Shaped'
    BY <2>1 DEF Shaped, machines
  <2>5. Numbered'
    BY <2>1, <2>2, NumbersKept
  <2> QED BY <2>2, <2>3, <2>4, <2>5, NobodyBarred DEF Good
<1> QED BY <1>1, <1>2, <1>3, <1>4, <1>5, <1>6, <1>7 DEF Admin

LEMMA IdentityStep == IdentityInv /\ [Next]_vars => Good \/ UNCHANGED vars
<1> SUFFICES ASSUME IdentityInv, Next PROVE Good
  OBVIOUS
<1>1. ASSUME NEW m \in Machines, Machine(m) PROVE Good
  BY <1>1, MachineStep
<1>2. ASSUME NEW r \in wire, ingest(r) PROVE Good
  BY <1>2, IngestStep
<1>3. ASSUME NEW r \in wire, uninstall(r) PROVE Good
  BY <1>3, UninstallStep
<1>4. CASE runLink \/ Expire \/ Admin \/ clearUserSecretDies \/ clearFullDies \/ Boot
  BY <1>4, ServerStep
<1> QED BY <1>1, <1>2, <1>3, <1>4 DEF Next

LEMMA IdentityInit == Init => IdentityInv
<1> SUFFICES ASSUME Init PROVE IdentityInv
  OBVIOUS
<1>1. Tabled /\ RowAgrees /\ Numbered
  BY DEF Init, Tabled, RowAgrees, Numbered, Nobody
<1>2. Shaped
  BY DEF Init, Shaped, Nobody
<1> QED BY <1>1, <1>2 DEF IdentityInv

LEMMA IdentityStutter == IdentityInv /\ UNCHANGED vars => IdentityInv'
<1> SUFFICES ASSUME IdentityInv, UNCHANGED vars PROVE IdentityInv'
  OBVIOUS
<1>1. UNCHANGED <<tables, strayed>> /\ UNCHANGED <<machines, wire, named, secrets, fulls>>
  BY DEF vars, counters
<1>2. Tabled' /\ RowAgrees'
  BY <1>1, TablesKept
<1>3. Shaped' /\ Numbered'
  BY <1>1 DEF IdentityInv, Shaped, Numbered, tables, machines
<1> QED BY <1>2, <1>3 DEF IdentityInv

\* The inductive invariant holds of every behaviour.
THEOREM IdentityCorrect == Spec => []IdentityInv
<1>1. IdentityInv /\ [Next]_vars => IdentityInv'
  BY IdentityStep, IdentityStutter DEF Good
<1> QED BY <1>1, IdentityInit, PTL DEF Spec

\* "user_secrets.secret_hash stays mirrored to a SURVIVING active device's hash"
\* (user_devices) and "no active devices => uninstalled_at set" (revokeUserDevice):
\* for any number of machines, requests, resets and crashes, row and devices agree
\* until a kicked machine is linked to an uninstalled handle.
THEOREM RowCorrect == Spec => []RowAgrees
<1>1. IdentityInv => RowAgrees
  BY DEF IdentityInv
<1> QED BY <1>1, IdentityCorrect, PTL

\* "A kicked machine's still-running daemon can't resurrect itself" (ingest): for any
\* number of machines, a barred secret is let in again only by using up a link code.
THEOREM BarredCorrect == Spec => BarredStaysOut
<1>1. IdentityInv /\ [Next]_vars => [StaysOut]_vars
  BY IdentityStep DEF Good
<1>2. [StaysOut]_vars <=>
        [\A d \in devices \cap devices' :
           row # NoRow /\ d.barred /\ ~authenticates(d.hash) /\ authenticates(d.hash)'
              => linkCode # 0 /\ linkCode' = 0]_vars
  BY DEF StaysOut
<1> QED BY <1>1, <1>2, IdentityCorrect, PTL DEF Spec, BarredStaysOut

\* `tokenleader revoke` (runRevoke) bars the machine that was chosen from the listing
\* and no other, for any number of machines and whatever came between listing and post,
\* as long as the tables were not dropped.
THEOREM NamedCorrect == Spec => NamedIsRevoked
<1>1. IdentityInv /\ [Next]_vars => [NamedOnly]_vars
  BY IdentityStep DEF Good
<1>2. [NamedOnly]_vars <=>
        [\A d \in devices', e \in devices :
           fulls = 0 /\ d.id = e.id /\ d.barred /\ ~e.barred
              => \E m \in Machines : named[m].id = e.id /\ named[m].hash = e.hash]_vars
  BY DEF NamedOnly
<1> QED BY <1>1, <1>2, IdentityCorrect, PTL DEF Spec, NamedIsRevoked
=============================================================================
