------------------------------- MODULE Ledger -------------------------------
(***************************************************************************)
(* What usage shipping promises, with no daemon, file or network in it.    *)
(*                                                                         *)
(* The coding tools log usage records; the server counts them.  Counting   *)
(* is by record, so a record is counted at most once however often it is   *)
(* sent, only what was logged is ever counted, and nothing is un-counted.  *)
(* A record whose log is deleted before it was counted may be lost; any    *)
(* other record worth counting is counted in the end.                      *)
(***************************************************************************)
CONSTANTS
    Keys,       \* usage records, by the identity the server dedups on
    Countable   \* those the parser emits and the server accepts

VARIABLES
    logged,     \* the records the tools have written so far
    onDisk,     \* the records some surviving log file still holds
    counted     \* the records the server counts

ledgerVars == <<logged, onDisk, counted>>

LedgerInit ==
    /\ logged = {}
    /\ onDisk = {}
    /\ counted = {}

\* A tool appends a record to a log; the same record may be logged again.
Log(k) ==
    /\ logged' = logged \cup {k}
    /\ onDisk' = onDisk \cup {k}
    /\ UNCHANGED counted

\* Logs are deleted: some records are on disk no longer.
Forget(K) ==
    /\ K \subseteq onDisk
    /\ onDisk' = onDisk \ K
    /\ UNCHANGED <<logged, counted>>

\* The server counts some of what was logged.
Count(K) ==
    /\ K \subseteq logged \cap Countable
    /\ counted' = counted \cup K
    /\ UNCHANGED <<logged, onDisk>>

LedgerNext ==
    \/ \E k \in Keys : Log(k)
    \/ \E K \in SUBSET Keys : Forget(K) \/ Count(K)

LedgerSpec == LedgerInit /\ [][LedgerNext]_ledgerVars

\* A record that stays on disk is counted in the end.
EventuallyCounted(k) == k \in onDisk ~> (k \in counted \/ k \notin onDisk)
=============================================================================
