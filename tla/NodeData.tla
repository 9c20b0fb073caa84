------------------------------ MODULE NodeData ------------------------------
(***************************************************************************)
(* The data of one jin-kv node: log entries, the key-value state machine,  *)
(* the write-ahead log as a sequence of records, the snapshot, and what    *)
(* raft/raft.go and raft/snapshot.go compute from them.                    *)
(***************************************************************************)
EXTENDS Integers, Sequences

CONSTANTS
    Key, Value,         \* what a "set k=v" command is made of
    Nil,                \* no vote, no known leader, no value
    NoOp,               \* the command a new leader appends
    SnapshotThreshold   \* snapshotThreshold in maybeSnapshot

ASSUME DataAssumption == NoOp \notin [key : Key, value : Value] /\ Nil \notin Value

ASSUME ThresholdAssumption == SnapshotThreshold \in Nat \ {0}

-----------------------------------------------------------------------------
(* Entries, stores and snapshots.                                          *)

Command == [key : Key, value : Value]

\* wal.Entry.  Data is a command "set key=value" or the leader's "no-op".
Entry == [Term : Nat, Index : Nat, Data : Command \cup {NoOp}]

\* StateMachine.data: Nil where the map has no such key.
Store == [Key -> Value \cup {Nil}]

EmptyStore == [k \in Key |-> Nil]

\* A snapshot file.  index 0 is a file that does not exist.
Snapshot == [index : Nat, term : Nat, data : Store]

NoSnapshot == [index |-> 0, term |-> 0, data |-> EmptyStore]

\* The log-related fields of struct Raft, its state machine, and the two
\* files of the node: the WAL and the snapshot.
Node == [log : Seq(Entry), logOffset : Nat, commitIndex : Nat,
         lastApplied : Nat, lastSnapshotIndex : Nat, data : Store,
         wal : Seq(Entry), snapshot : Snapshot]

-----------------------------------------------------------------------------
(* The write-ahead log file, one record per entry.  Torn records and the   *)
(* rewriting of the file are the business of another module.               *)

\* The records of index above k, in file order.
Above(w, k) ==
    LET keep[p \in 0 .. Len(w)] ==
            IF p = 0 THEN <<>>
            ELSE IF w[p].Index > k THEN Append(keep[p - 1], w[p])
            ELSE keep[p - 1]
    IN  keep[Len(w)]

\* The position p is the first record of the given index.
FirstAt(w, index, p) ==
    /\ w[p].Index = index
    /\ \A q \in 1 .. p - 1 : w[q].Index # index

CanTruncateAfter(w, index) == \E p \in DOMAIN w : w[p].Index = index

\* TruncateAfter cuts after the first record of that index.
TruncateAfter(w, index) ==
    SubSeq(w, 1, CHOOSE p \in DOMAIN w : FirstAt(w, index, p))

CompactWAL(w, compactIndex) == Above(w, compactIndex)

-----------------------------------------------------------------------------
(* A node's log and state machine.                                         *)

LastIndex(n) == IF n.log = <<>> THEN n.logOffset ELSE n.log[Len(n.log)].Index
LastTerm(n) == IF n.log = <<>> THEN 0 ELSE n.log[Len(n.log)].Term

toSlicePos(n, index) == index - n.logOffset - 1

\* entryAt's "ok".  A position is not checked against the entry's own index.
HasEntry(n, index) == index \in n.logOffset + 1 .. n.logOffset + Len(n.log)
EntryAt(n, index) == n.log[toSlicePos(n, index) + 1]

\* StateMachine.Apply over entries s[p], p in the given positions, in order.
ApplyAll(data, s, positions) ==
    [k \in Key |->
        LET sets == {p \in positions : s[p].Data # NoOp /\ s[p].Data.key = k}
        IN  IF sets = {} THEN data[k]
            ELSE s[CHOOSE p \in sets : \A q \in sets : q <= p].Data.value]

\* The loop that applies lastApplied+1 .. commitIndex; an index without an
\* entry is stepped over.
ApplyCommitted(n) ==
    IF n.lastApplied < n.commitIndex
    THEN LET positions == {p \in DOMAIN n.log :
                              n.logOffset + p \in n.lastApplied + 1 .. n.commitIndex}
         IN  [n EXCEPT !.lastApplied = n.commitIndex,
                       !.data = ApplyAll(n.data, n.log, positions)]
    ELSE n

\* compactLog(lastIncludedIndex): its three early returns leave n unchanged.
compactLog(n, lastIncludedIndex) ==
    LET keepFrom == toSlicePos(n, lastIncludedIndex) + 1
    IN  IF /\ lastIncludedIndex > n.logOffset
           /\ lastIncludedIndex <= n.lastApplied
           /\ keepFrom \in 0 .. Len(n.log)
        THEN [n EXCEPT !.log = SubSeq(n.log, keepFrom + 1, Len(n.log)),
                       !.logOffset = lastIncludedIndex]
        ELSE n

\* lastApplied - lastSnapshotIndex >= snapshotThreshold, in uint64: when
\* lastApplied is the smaller the difference wraps to a huge number.
SnapshotDue(n) ==
    \/ n.lastApplied < n.lastSnapshotIndex
    \/ n.lastApplied - n.lastSnapshotIndex >= SnapshotThreshold

\* Save the snapshot, then compact the log and the WAL.
maybeSnapshot(n) ==
    IF SnapshotDue(n) /\ HasEntry(n, n.lastApplied)
    THEN LET saved == [n EXCEPT !.snapshot =
                          [index |-> n.lastApplied,
                           term |-> EntryAt(n, n.lastApplied).Term,
                           data |-> n.data]]
         IN  [compactLog(saved, n.lastApplied) EXCEPT
                 !.wal = CompactWAL(n.wal, n.lastApplied),
                 !.lastSnapshotIndex = n.lastApplied]
    ELSE n

\* r.log loses the entries from index on.
TruncateLog(n, index) ==
    [n EXCEPT !.log = SubSeq(@, 1, toSlicePos(n, index))]

\* r.log and the WAL grow together in becomeLeader, Propose and
\* HandleAppendEntries.
AppendAll(n, entries) ==
    [n EXCEPT !.log = @ \o entries, !.wal = @ \o entries]

NewEntry(n, term, command) ==
    [Term |-> term, Index |-> LastIndex(n) + 1, Data |-> command]

-----------------------------------------------------------------------------
(* What HandleAppendEntries and HandleInstallSnapshot do to a node.        *)

\* The k-th entry is the first that the log does not already hold.
FirstNew(n, entries, k) ==
    LET held(m) == /\ HasEntry(n, entries[m].Index)
                   /\ EntryAt(n, entries[m].Index).Term = entries[m].Term
    IN  /\ \A m \in 1 .. k - 1 : held(m)
        /\ k \in DOMAIN entries => ~held(k)

Conflicts(n, entries, k) ==
    k \in DOMAIN entries /\ HasEntry(n, entries[k].Index)

\* Slip: entries are appended wherever they start.
AnyStart(n, entries, k) == TRUE

\* The entries from the k-th on start where the log ends.
LinesUp(n, entries, k) == entries[k].Index = n.logOffset + Len(n.log) + 1

\* The log and the WAL after entries k, k+1, ... have been stored.
StoreEntries(n, entries, k) ==
    LET cut == IF Conflicts(n, entries, k)
               THEN [TruncateLog(n, entries[k].Index) EXCEPT
                        !.wal = TruncateAfter(@, entries[k].Index - 1)]
               ELSE n
    IN  AppendAll(cut, SubSeq(entries, k, Len(entries)))

\* Slip: the last position of the slice is taken for the last index.
FollowCommitByPosition(n, LeaderCommit) ==
    LET last == Len(n.log) - 1
        upTo == IF LeaderCommit < last THEN LeaderCommit ELSE last
    IN  ApplyCommitted([n EXCEPT !.commitIndex =
                                    IF LeaderCommit > @ THEN upTo ELSE @])

\* commitIndex follows the leader's, up to the end of the own log, and what
\* it covers is applied.
FollowCommit(n, LeaderCommit) ==
    LET upTo == IF LeaderCommit < LastIndex(n) THEN LeaderCommit ELSE LastIndex(n)
    IN  ApplyCommitted([n EXCEPT !.commitIndex =
                                    IF LeaderCommit > @ THEN upTo ELSE @])

\* Slip: the snapshot is not saved.
InstallWithoutSave(n, snapshot) ==
    [n EXCEPT !.data = snapshot.data, !.logOffset = snapshot.index,
              !.lastApplied = snapshot.index, !.commitIndex = snapshot.index,
              !.log = <<>>]

\* The log, the state machine and both indices are replaced whatever they
\* were; the WAL and lastSnapshotIndex stay.
InstallSnapshot(n, snapshot) ==
    [n EXCEPT !.snapshot = snapshot,
              !.data = snapshot.data,
              !.logOffset = snapshot.index,
              !.lastApplied = snapshot.index,
              !.commitIndex = snapshot.index,
              !.log = <<>>]

-----------------------------------------------------------------------------
(* Crash and recovery.                                                     *)

\* loadPersistedState: the snapshot, then every WAL record above it, applied
\* whether it was committed or not.
loadPersistedState(n) ==
    LET survivors == Above(n.wal, n.snapshot.index)
    IN  [n EXCEPT
            !.log = survivors,
            !.logOffset = n.snapshot.index,
            !.commitIndex = n.snapshot.index,
            !.lastApplied = IF survivors = <<>> THEN n.snapshot.index
                            ELSE survivors[Len(survivors)].Index,
            !.data = ApplyAll(n.snapshot.data, survivors, DOMAIN survivors)]

\* What a dead process leaves behind: its two files.
OnDisk(n) ==
    [log |-> <<>>, logOffset |-> 0, commitIndex |-> 0, lastApplied |-> 0,
     lastSnapshotIndex |-> 0, data |-> EmptyStore,
     wal |-> n.wal, snapshot |-> n.snapshot]

EmptyNode == OnDisk([wal |-> <<>>, snapshot |-> NoSnapshot])

=============================================================================
