-------------------------- MODULE StorageProperties --------------------------
(***************************************************************************)
(* What the files of a node guarantee across crashes and failed calls.     *)
(***************************************************************************)
EXTENDS Storage

\* Memory, files and the handler under way keep their types; in particular
\* commitIndex follows the leader's without going below zero
\* (HandleAppendEntries:397).
StorageTypeOK ==
    /\ node \in Node
    /\ alive \in BOOLEAN
    /\ io \in Io
    /\ torn \in BOOLEAN
    /\ tmp \in Seq(Entry)
    /\ tmpTorn \in BOOLEAN
    /\ broken \in BOOLEAN
    /\ closed \in BOOLEAN
    /\ crashes \in Nat
    /\ errors \in Nat
    /\ acked \subseteq Entry
    /\ spoiled \in BOOLEAN

\* A restart finds e: in the WAL, or covered by the snapshot.
Found(e) ==
    \/ e.Index <= node.snapshot.index
    \/ \E p \in DOMAIN node.wal : node.wal[p] = e

\* Every entry whose wal.Append returned nil, and that was not truncated
\* since, is found by a restart, whatever kill -9 or error has interrupted an
\* earlier write (wal.Append, ReadAll).
AppendIsDurable == \A e \in acked : Found(e)

\* The same, and the snapshot file can be read or is just being written, as
\* long as no record was appended behind a fragment or an older record of its
\* index, no compaction met the leftovers of another one, and no SaveSnapshot
\* was cut short or covers less than the one before: nothing else, at
\* whatever system call the process dies or fails, loses an acknowledged
\* entry (wal.Append, TruncateAfter, CompactWAL, maybeSnapshot).
AcknowledgedFound ==
    ~spoiled => AppendIsDurable /\ (broken => io.op = "save")

\* The files behave as a log and a snapshot whose operations are atomic and
\* durable, until they are damaged as described there: records leave the WAL
\* only by a truncation, or when a snapshot on disk covers them.
Promised == INSTANCE DurableLog
    WITH wal <- node.wal, snapshot <- node.snapshot, intact <- ~spoiled

ImplementsDurableLog == Promised!DLSpec

=============================================================================
