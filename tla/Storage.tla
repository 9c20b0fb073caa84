------------------------------- MODULE Storage -------------------------------
(***************************************************************************)
(* One jin-kv node and its files at the level of system calls: wal/wal.go, *)
(* SaveSnapshot and LoadSnapshot (raft/snapshot.go), and the order in      *)
(* which the handlers of raft/raft.go call them.  The process may die, or  *)
(* a call may fail, between any two system calls.                          *)
(*                                                                         *)
(* node.wal and node.snapshot are what ReadAll and LoadSnapshot make of    *)
(* the files as they are on disk.  What has been written since the last    *)
(* Sync is known from io; a crash or an error leaves any part of it.       *)
(* Truncate, O_TRUNC and Rename take effect at once.  A checksum never     *)
(* matches by chance: nothing behind a fragment of a record can be read.   *)
(***************************************************************************)
EXTENDS NodeData

CONSTANTS
    Term,        \* the terms of the leaders that the entries come from
    MaxIndex,    \* bound: highest log index
    MaxBatch,    \* bound: entries in one AppendEntries
    MaxCrashes,  \* bound: deaths of the process
    MaxErrors    \* bound: failed system calls

ASSUME StorageAssumption ==
    /\ Term \subseteq Nat /\ Term # {}
    /\ MaxIndex \in Nat
    /\ MaxBatch \in Nat
    /\ MaxCrashes \in Nat
    /\ MaxErrors \in Nat

VARIABLES
    node,      \* memory, and the readable part of the files
    alive,     \* the process is running
    io,        \* the handler under way, which holds r.mu
    torn,      \* the WAL ends in a fragment of a record
    tmp,       \* the readable records of the file "node.wal.tmp"
    tmpTorn,   \* it ends in a fragment
    broken,    \* the snapshot file is there and cannot be decoded
    closed,    \* w.file is closed: every call on it fails until a restart
    crashes,   \* how often the process has died
    errors,    \* how many system calls have failed
    acked,     \* history: records whose Append returned nil, less those truncated
    spoiled    \* history: the files were damaged in a way nothing repairs

fileVars == <<torn, tmp, tmpTorn, broken, closed>>
faultVars == <<crashes, errors>>
vars == <<node, alive, io, fileVars, faultVars, acked, spoiled>>

-----------------------------------------------------------------------------
(* The handler under way: which file operation it is in, how far, and what *)
(* it still has to write.                                                  *)

\* stage: how much of the current record ("start", "crc", "body"), or of the
\* snapshot file ("start", "opened", "written"), has been written.
Io == [op : {"idle", "append", "save", "compact"},
       stage : {"start", "crc", "body", "opened", "written"},
       queue : Seq(Entry),        \* records still to be written
       then : {"return", "commit", "compact", "install"},
       commit : Nat,              \* LeaderCommit of the AppendEntries
       snapshot : Snapshot]

Idle == [op |-> "idle", stage |-> "start", queue |-> <<>>, then |-> "return",
         commit |-> 0, snapshot |-> NoSnapshot]

Appending(entries, then, commit) ==
    [Idle EXCEPT !.op = "append", !.queue = entries, !.then = then, !.commit = commit]

Saving(s, then) == [Idle EXCEPT !.op = "save", !.then = then, !.snapshot = s]

Compacting(entries) == [Idle EXCEPT !.op = "compact", !.queue = entries]

Ready == alive /\ io = Idle

-----------------------------------------------------------------------------
(* What the handlers do before they come to the files.                     *)

\* Propose, and the no-op of becomeLeader: r.log first, then wal.Append.
Propose(term, command) ==
    LET e == NewEntry(node, term, command)
    IN  /\ Ready
        /\ e.Index <= MaxIndex
        /\ LastTerm(node) <= term
        /\ node' = [node EXCEPT !.log = Append(@, e)]
        /\ io' = Appending(<<e>>, "return", 0)
        /\ UNCHANGED <<alive, fileVars, faultVars, acked, spoiled>>

\* The entries a leader sends: consecutive indices, terms that do not fall.
Batch(first) ==
    LET prev == IF HasEntry(node, first - 1) THEN EntryAt(node, first - 1).Term ELSE 0
        rising(t) == /\ \A p \in DOMAIN t : prev <= t[p]
                     /\ \A p \in DOMAIN t \ {1} : t[p - 1] <= t[p]
    IN  UNION {{[p \in 1 .. m |-> [Term |-> t[p], Index |-> first + p - 1, Data |-> d[p]]] :
                   t \in {u \in [1 .. m -> Term] : rising(u)},
                   d \in [1 .. m -> Command \cup {NoOp}]} :
               m \in {k \in 0 .. MaxBatch : first + k - 1 <= MaxIndex}}

\* HandleAppendEntries once the consistency check has passed.  k is the first
\* entry that the log does not hold; on a conflict the log is cut, then the
\* WAL, which also loses the fragment at its end.
HandleAppendEntries(entries, k, LeaderCommit) ==
    LET cut == Conflicts(node, entries, k)
        index == entries[k].Index - 1
        kept == IF cut THEN TruncateLog(node, entries[k].Index) ELSE node
        new == SubSeq(entries, k, Len(entries))
    IN  /\ Ready
        /\ FirstNew(node, entries, k)
        /\ k \in DOMAIN entries => (cut \/ LinesUp(node, entries, k))
        /\ cut => ~closed /\ CanTruncateAfter(node.wal, index)
        /\ node' = [kept EXCEPT !.log = @ \o new,
                                !.wal = IF cut THEN TruncateAfter(@, index) ELSE @]
        /\ torn' = (torn /\ ~cut)
        /\ acked' = IF cut THEN {e \in acked : e.Index <= index} ELSE acked
        /\ io' = Appending(new, "commit", LeaderCommit)
        /\ UNCHANGED <<alive, tmp, tmpTorn, broken, closed, faultVars, spoiled>>

\* The WAL has no record of the index before the conflict, or is closed: only
\* r.log is cut.
TruncateFails(entries, k) ==
    /\ Ready
    /\ FirstNew(node, entries, k)
    /\ Conflicts(node, entries, k)
    /\ closed \/ ~CanTruncateAfter(node.wal, entries[k].Index - 1)
    /\ node' = TruncateLog(node, entries[k].Index)
    /\ UNCHANGED <<alive, io, fileVars, faultVars, acked, spoiled>>

\* LastIncludedTerm of a leader's snapshot: nothing in the code reads it.
AnyTerm == CHOOSE term \in Term : TRUE

HandleInstallSnapshot(s) ==
    /\ Ready
    /\ io' = Saving(s, "install")
    /\ UNCHANGED <<node, alive, fileVars, faultVars, acked, spoiled>>

-----------------------------------------------------------------------------
(* wal.Append: the checksum, the record, Sync.  CompactWAL uses it on the  *)
(* temporary file.                                                         *)

\* Append writes the checksum with one call and the entry with a second one.
WriteRecord ==
    /\ alive /\ io.op \in {"append", "compact"} /\ io.queue # <<>>
    /\ io.op = "append" => ~closed
    /\ \/ io.stage = "start" /\ io' = [io EXCEPT !.stage = "crc"]
       \/ io.stage = "crc" /\ io' = [io EXCEPT !.stage = "body"]
    /\ UNCHANGED <<node, alive, fileVars, faultVars, acked, spoiled>>

\* The first write on a closed file fails and the handler returns.
AppendClosed ==
    /\ alive /\ io.op = "append" /\ io.queue # <<>>
    /\ closed
    /\ io' = Idle
    /\ UNCHANGED <<node, alive, fileVars, faultVars, acked, spoiled>>

\* A record written behind a fragment can not be read.
After(file, isTorn, e) == IF isTorn THEN file ELSE Append(file, e)

\* A record is hidden by a fragment before it, or by an older record of its
\* index, which TruncateAfter takes for it.
Misplaced(e) == torn \/ \E p \in DOMAIN node.wal : node.wal[p].Index >= e.Index

\* Sync returns: the record is durable and Append returns nil.
AppendSync ==
    LET e == Head(io.queue)
    IN  /\ alive /\ io.op = "append" /\ io.stage = "body"
        /\ node' = [node EXCEPT !.wal = After(@, torn, e)]
        /\ io' = [io EXCEPT !.stage = "start", !.queue = Tail(@)]
        /\ acked' = acked \cup {e}
        /\ spoiled' = (spoiled \/ Misplaced(e))
        /\ UNCHANGED <<alive, fileVars, faultVars>>

\* The leader's Propose has nothing more to do.
AppendReturns ==
    /\ alive /\ io.op = "append" /\ io.queue = <<>> /\ io.then = "return"
    /\ io' = Idle
    /\ UNCHANGED <<node, alive, fileVars, faultVars, acked, spoiled>>

\* The snapshot that maybeSnapshot takes of n.
SnapshotOf(n) ==
    [index |-> n.lastApplied, term |-> EntryAt(n, n.lastApplied).Term, data |-> n.data]

\* Slip: the WAL is compacted before the snapshot is saved.
CompactFirst(n) ==
    IF SnapshotDue(n) /\ HasEntry(n, n.lastApplied)
    THEN Compacting(Above(n.wal, n.lastApplied))
    ELSE Idle

\* maybeSnapshot starts with SaveSnapshot, if a snapshot is due.
StartSnapshot(n) ==
    IF SnapshotDue(n) /\ HasEntry(n, n.lastApplied)
    THEN Saving(SnapshotOf(n), "compact")
    ELSE Idle

\* The rest of HandleAppendEntries, and of tryAdvanceCommitIndex: commit,
\* apply, maybeSnapshot.
CommitAndSnapshot ==
    LET n == FollowCommit(node, io.commit)
    IN  /\ alive /\ io.op = "append" /\ io.queue = <<>> /\ io.then = "commit"
        /\ node' = n
        /\ io' = StartSnapshot(n)
        /\ UNCHANGED <<alive, fileVars, faultVars, acked, spoiled>>

-----------------------------------------------------------------------------
(* SaveSnapshot: open with O_TRUNC, write, Sync.  Then the caller goes on. *)

SaveOpen ==
    /\ alive /\ io.op = "save" /\ io.stage = "start"
    /\ broken' = TRUE
    /\ io' = [io EXCEPT !.stage = "opened"]
    /\ UNCHANGED <<node, alive, torn, tmp, tmpTorn, closed, faultVars, acked, spoiled>>

SaveWrite ==
    /\ alive /\ io.op = "save" /\ io.stage = "opened"
    /\ io' = [io EXCEPT !.stage = "written"]
    /\ UNCHANGED <<node, alive, fileVars, faultVars, acked, spoiled>>

\* The new snapshot covers less than the old one did.
Shrinks == io.snapshot.index < node.snapshot.index

\* Slip: the record right after the snapshot is dropped too.
SurvivorsLess(n, compactIndex) == Above(n.wal, compactIndex + 1)

\* What CompactWAL copies: the readable records above compactIndex.
Survivors(n, compactIndex) == Above(n.wal, compactIndex)

\* A compaction that was cut short has left the temporary file with a
\* fragment, or with records that the survivors will be appended to.
Leftover(compactIndex) ==
    tmpTorn \/ \E p \in DOMAIN tmp : tmp[p].Index > compactIndex

\* maybeSnapshot compacts r.log and goes on with CompactWAL, which begins with
\* ReadAll and fails at once if the WAL is closed.
SaveSync ==
    /\ alive /\ io.op = "save" /\ io.stage = "written" /\ io.then = "compact"
    /\ broken' = FALSE
    /\ node' = compactLog([node EXCEPT !.snapshot = io.snapshot], node.lastApplied)
    /\ io' = IF closed THEN Idle ELSE Compacting(Survivors(node, node.lastApplied))
    /\ spoiled' = (spoiled \/ Shrinks \/ (~closed /\ Leftover(node.lastApplied)))
    /\ UNCHANGED <<alive, torn, tmp, tmpTorn, closed, faultVars, acked>>

\* HandleInstallSnapshot replaces memory; the WAL stays as it is.
InstallSync ==
    /\ alive /\ io.op = "save" /\ io.stage = "written" /\ io.then = "install"
    /\ broken' = FALSE
    /\ node' = InstallSnapshot(node, io.snapshot)
    /\ io' = Idle
    /\ spoiled' = (spoiled \/ Shrinks)
    /\ UNCHANGED <<alive, torn, tmp, tmpTorn, closed, faultVars, acked>>

-----------------------------------------------------------------------------
(* CompactWAL: the survivors are appended to the temporary file, which is  *)
(* opened without O_TRUNC, and that file replaces the WAL.                 *)

CompactSync ==
    /\ alive /\ io.op = "compact" /\ io.stage = "body"
    /\ tmp' = After(tmp, tmpTorn, Head(io.queue))
    /\ io' = [io EXCEPT !.stage = "start", !.queue = Tail(@)]
    /\ UNCHANGED <<node, alive, torn, tmpTorn, broken, closed, faultVars, acked, spoiled>>

Rename ==
    /\ alive /\ io.op = "compact" /\ io.queue = <<>>
    /\ torn' = tmpTorn
    /\ tmp' = <<>>
    /\ tmpTorn' = FALSE
    /\ io' = Idle
    /\ UNCHANGED <<alive, broken, crashes, acked, spoiled>>

\* The WAL is opened again and maybeSnapshot returns.
CompactRename ==
    /\ Rename
    /\ node' = [node EXCEPT !.wal = tmp, !.lastSnapshotIndex = node.lastApplied]
    /\ UNCHANGED <<closed, errors>>

\* It can not be opened again: w.file stays the old handle, which is closed.
ReopenFails ==
    /\ Rename
    /\ errors < MaxErrors
    /\ errors' = errors + 1
    /\ node' = [node EXCEPT !.wal = tmp]
    /\ closed' = TRUE

-----------------------------------------------------------------------------
(* Failures.                                                               *)

\* What may be on disk when the next system call does not happen or does not
\* complete: none, some or all of what has been written and not yet synced.
Remains ==
    LET now == [node |-> node, torn |-> torn, tmp |-> tmp, tmpTorn |-> tmpTorn,
                broken |-> broken]
        e == Head(io.queue)
        fragment == IF io.op = "append" THEN [now EXCEPT !.torn = TRUE]
                    ELSE [now EXCEPT !.tmpTorn = TRUE]
        record == IF io.op = "append"
                  THEN [now EXCEPT !.node.wal = After(@, torn, e)]
                  ELSE [now EXCEPT !.tmp = After(@, tmpTorn, e)]
        saved == [now EXCEPT !.node.snapshot = io.snapshot, !.broken = FALSE]
    IN  IF io.stage = "crc" THEN {now, fragment}
        ELSE IF io.stage = "body" THEN {now, fragment, record}
        ELSE IF io.stage = "written" THEN {now, saved}
        ELSE {now}

\* SaveSnapshot is cut short; files are what it leaves.
SaveLost(files) ==
    io.stage \in {"opened", "written"} /\ (files.broken \/ Shrinks)

\* The handler under way ends here; files are what is left on disk.
Interrupt(files) ==
    /\ io' = Idle
    /\ torn' = files.torn
    /\ tmp' = files.tmp
    /\ tmpTorn' = files.tmpTorn
    /\ broken' = files.broken
    /\ UNCHANGED acked

\* The process dies.
Crash ==
    /\ alive
    /\ crashes < MaxCrashes
    /\ crashes' = crashes + 1
    /\ alive' = FALSE
    /\ \E files \in Remains :
          /\ Interrupt(files)
          /\ node' = OnDisk(files.node)
          /\ spoiled' = (spoiled \/ SaveLost(files))
    /\ closed' = FALSE
    /\ UNCHANGED errors

\* A system call fails and the handler returns its error; memory stays as
\* the handler has left it.
CallFails ==
    /\ alive /\ io # Idle
    /\ errors < MaxErrors
    /\ errors' = errors + 1
    /\ \E files \in Remains :
          /\ Interrupt(files)
          /\ node' = files.node
          /\ spoiled' = (spoiled \/ SaveLost(files))
    /\ UNCHANGED <<alive, closed, crashes>>

\* NewRaft: an undecodable snapshot file is an error and main gives up.
Start ==
    /\ ~alive /\ ~broken
    /\ alive' = TRUE
    /\ node' = loadPersistedState(node)
    /\ UNCHANGED <<io, fileVars, faultVars, acked, spoiled>>

-----------------------------------------------------------------------------
Init ==
    /\ node = EmptyNode
    /\ alive = TRUE
    /\ io = Idle
    /\ torn = FALSE
    /\ tmp = <<>>
    /\ tmpTorn = FALSE
    /\ broken = FALSE
    /\ closed = FALSE
    /\ crashes = 0
    /\ errors = 0
    /\ acked = {}
    /\ spoiled = FALSE

Handlers ==
    \/ \E term \in Term, command \in Command \cup {NoOp} : Propose(term, command)
    \/ \E first \in node.logOffset + 1 .. node.logOffset + Len(node.log) + 1 :
          \E entries \in Batch(first) : \E k \in 1 .. Len(entries) + 1 :
             \/ \E LeaderCommit \in node.commitIndex .. MaxIndex :
                   HandleAppendEntries(entries, k, LeaderCommit)
             \/ TruncateFails(entries, k)
    \/ \E index \in 1 .. MaxIndex, data \in Store :
          HandleInstallSnapshot([index |-> index, term |-> AnyTerm, data |-> data])

SystemCalls ==
    \/ WriteRecord \/ AppendSync \/ AppendClosed \/ AppendReturns \/ CommitAndSnapshot
    \/ SaveOpen \/ SaveWrite \/ SaveSync \/ InstallSync
    \/ CompactSync \/ CompactRename \/ ReopenFails

Next == Handlers \/ SystemCalls \/ Crash \/ CallFails \/ Start

Spec == Init /\ [][Next]_vars

=============================================================================
