----------------------------- MODULE DurableLog -----------------------------
(***************************************************************************)
(* What package wal and the snapshot file promise to the Raft node: every  *)
(* operation on the files is one step, it is durable when it returns, and  *)
(* a crash at any time leaves the files as they are before or after it.    *)
(*                                                                         *)
(* The promise is void ("intact" is FALSE) once the files have been left   *)
(* in a condition that the code does not repair.                           *)
(***************************************************************************)
EXTENDS NodeData

VARIABLES
    wal,       \* the records that ReadAll returns
    snapshot,  \* what LoadSnapshot returns
    intact     \* the promise stands

dlVars == <<wal, snapshot, intact>>

AppendRecord ==
    /\ wal' # <<>>
    /\ wal' = Append(wal, wal'[Len(wal')])
    /\ UNCHANGED snapshot

CutAfter(index) ==
    /\ wal' = TruncateAfter(wal, index)
    /\ UNCHANGED snapshot

\* A new snapshot covers at least what the old one did.
ReplaceSnapshot ==
    /\ snapshot'.index >= snapshot.index
    /\ UNCHANGED wal

\* Compaction: only records that the snapshot covers may go.
Forget ==
    /\ Above(wal', snapshot.index) = Above(wal, snapshot.index)
    /\ UNCHANGED snapshot

DLInit == wal = <<>> /\ snapshot = NoSnapshot /\ intact = TRUE

KeepPromise ==
    \/ AppendRecord
    \/ \E p \in DOMAIN wal : CutAfter(wal[p].Index)
    \/ ReplaceSnapshot
    \/ Forget

DLNext == (intact /\ intact' /\ KeepPromise) \/ ~intact'

DLSpec == DLInit /\ [][DLNext]_dlVars

=============================================================================
