---------------------------- MODULE StorageProofs ----------------------------
(*****************************************************************************)
(* Proofs about the files of one node, for every set of entries and every    *)
(* number of crashes and failed calls: the type invariant, that a restart    *)
(* finds what was acknowledged, and that the files implement DurableLog.     *)
(*****************************************************************************)
EXTENDS StorageProperties, NodeDataProofs

-----------------------------------------------------------------------------
(* Types.                                                                  *)

\* The stage of a handler belongs to its file operation, and a record is half
\* written only if there is one to write.
StageFits ==
    /\ io.stage \in {"crc", "body"} => io.op \in {"append", "compact"} /\ io.queue # <<>>
    /\ io.stage \in {"opened", "written"} => io.op = "save"

TypeInv == StorageTypeOK /\ StageFits

\* A handler that is idle, or that begins a file operation.
LEMMA IoTypes ==
    /\ Idle \in Io /\ Idle.op = "idle" /\ Idle.stage = "start"
    /\ \A entries \in Seq(Entry), then \in {"return", "commit"}, commit \in Nat :
          /\ Appending(entries, then, commit) \in Io
          /\ Appending(entries, then, commit).op = "append"
          /\ Appending(entries, then, commit).stage = "start"
    /\ \A s \in Snapshot, then \in {"compact", "install"} :
          /\ Saving(s, then) \in Io
          /\ Saving(s, then).op = "save" /\ Saving(s, then).stage = "start"
          /\ Saving(s, then).then = then /\ Saving(s, then).snapshot = s
    /\ \A entries \in Seq(Entry) :
          /\ Compacting(entries) \in Io
          /\ Compacting(entries).op = "compact" /\ Compacting(entries).stage = "start"
          /\ Compacting(entries).queue = entries
<1>1. NoSnapshot \in Snapshot
  BY DEF NoSnapshot, Snapshot, EmptyStore, Store
<1>2. Idle \in Io /\ Idle.op = "idle" /\ Idle.stage = "start"
  BY <1>1 DEF Idle, Io
<1> QED BY <1>2 DEF Appending, Saving, Compacting, Io

\* What is written behind a fragment, and what is not.
LEMMA AfterType ==
    ASSUME NEW file \in Seq(Entry), NEW isTorn \in BOOLEAN, NEW e \in Entry
    PROVE  After(file, isTorn, e) \in Seq(Entry)
BY DEF After

\* The entries of an AppendEntries are entries.
LEMMA BatchType ==
    ASSUME NEW first \in Nat, first > 0, NEW entries \in Batch(first)
    PROVE  entries \in Seq(Entry)
<1> DEFINE record(t, d, p) == [Term |-> t[p], Index |-> first + p - 1, Data |-> d[p]]
<1>1. \E m \in 0 .. MaxBatch : \E t \in [1 .. m -> Term], d \in [1 .. m -> Command \cup {NoOp}] :
         entries = [p \in 1 .. m |-> record(t, d, p)]
  <2> DEFINE prev == IF HasEntry(node, first - 1) THEN EntryAt(node, first - 1).Term ELSE 0
             rising(t) == /\ \A p \in DOMAIN t : prev <= t[p]
                          /\ \A p \in DOMAIN t \ {1} : t[p - 1] <= t[p]
             Of(m) == {[p \in 1 .. m |-> record(t, d, p)] :
                          t \in {u \in [1 .. m -> Term] : rising(u)},
                          d \in [1 .. m -> Command \cup {NoOp}]}
             M == {k \in 0 .. MaxBatch : first + k - 1 <= MaxIndex}
  <2>0. Batch(first) = UNION {Of(m) : m \in M}
    BY DEF Batch
  <2> HIDE DEF Of, M
  <2>1. entries \in UNION {Of(m) : m \in M}
    BY <2>0
  <2>2. \E m \in M : entries \in Of(m)
    BY <2>1
  <2>3. PICK m \in M : entries \in Of(m)
    BY <2>2
  <2> HIDE DEF record, rising, prev
  <2>4. \E t \in [1 .. m -> Term], d \in [1 .. m -> Command \cup {NoOp}] :
           entries = [p \in 1 .. m |-> record(t, d, p)]
    BY <2>3 DEF Of
  <2> QED BY <2>3, <2>4 DEF M
<1>2. PICK m \in 0 .. MaxBatch : \E t \in [1 .. m -> Term], d \in [1 .. m -> Command \cup {NoOp}] :
         entries = [p \in 1 .. m |-> record(t, d, p)]
  BY <1>1
<1>3. PICK t \in [1 .. m -> Term], d \in [1 .. m -> Command \cup {NoOp}] :
         entries = [p \in 1 .. m |-> record(t, d, p)]
  BY <1>2
<1>4. m \in Nat
  BY StorageAssumption
<1>5. ASSUME NEW p \in 1 .. m PROVE record(t, d, p) \in Entry
  <2>1. t[p] \in Term /\ d[p] \in Command \cup {NoOp}
    OBVIOUS
  <2>2. t[p] \in Nat
    BY <2>1, StorageAssumption
  <2>3. first + p - 1 \in Nat
    BY <1>4
  <2> QED BY <2>1, <2>2, <2>3 DEF Entry
<1> HIDE DEF record
<1> QED BY <1>3, <1>4, <1>5

\* What the handlers do before they come to the files.
LEMMA HandlersType ==
    ASSUME TypeInv, Handlers
    PROVE  TypeInv'
<1> USE DEF TypeInv
<1>1. ASSUME NEW term \in Term, NEW command \in Command \cup {NoOp}, Propose(term, command)
      PROVE  TypeInv'
  <2> DEFINE e == NewEntry(node, term, command)
  <2>1. node \in Node /\ term \in Nat
    BY StorageAssumption DEF StorageTypeOK
  <2>2. e \in Entry /\ <<e>> \in Seq(Entry)
    BY <2>1, NewEntryType
  <2>3. node' = [node EXCEPT !.log = Append(@, e)] /\ io' = Appending(<<e>>, "return", 0)
    BY <1>1 DEF Propose
  <2> HIDE DEF e
  <2>4. node' \in Node
    <3>1. node.log \in Seq(Entry)
      BY <2>1 DEF Node
    <3>2. Append(node.log, e) \in Seq(Entry)
      BY <2>2, <3>1, AppendProperties
    <3> QED BY <2>1, <2>3, <3>2 DEF Node
  <2>5. io' \in Io /\ io'.stage = "start"
    <3>1. <<e>> \in Seq(Entry) /\ "return" \in {"return", "commit"} /\ 0 \in Nat
      BY <2>2
    <3> QED BY <2>3, <3>1, IoTypes, Zenon
  <2> QED BY <1>1, <2>4, <2>5 DEF Propose, StorageTypeOK, StageFits, fileVars, faultVars
<1>2. ASSUME NEW first \in node.logOffset + 1 .. node.logOffset + Len(node.log) + 1,
             NEW entries \in Batch(first), NEW k \in 1 .. Len(entries) + 1,
             NEW LeaderCommit \in node.commitIndex .. MaxIndex,
             HandleAppendEntries(entries, k, LeaderCommit)
      PROVE  TypeInv'
  <2> DEFINE cut == Conflicts(node, entries, k)
             index == entries[k].Index - 1
             kept == IF cut THEN TruncateLog(node, entries[k].Index) ELSE node
             new == SubSeq(entries, k, Len(entries))
             wal == IF cut THEN TruncateAfter(kept.wal, index) ELSE kept.wal
  <2>1. /\ node \in Node /\ node.wal \in Seq(Entry) /\ node.log \in Seq(Entry)
        /\ node.logOffset \in Nat /\ node.commitIndex \in Nat
    BY DEF StorageTypeOK, Node
  <2>2. first \in Nat /\ first > 0 /\ LeaderCommit \in Nat
    BY <2>1, StorageAssumption
  <2>3. entries \in Seq(Entry)
    BY <2>2, BatchType
  <2>4. new \in Seq(Entry)
    <3>1. k - 1 \in 0 .. Len(entries) /\ (k - 1) + 1 = k
      BY <2>3
    <3> QED BY <2>3, <3>1, Suffix
  <2>5. kept \in Node /\ kept.wal = node.wal
    <3>1. CASE cut
      <4>1. HasEntry(node, entries[k].Index)
        BY <3>1 DEF Conflicts
      <4> QED BY <2>1, <3>1, <4>1, TruncateLogKeeps
    <3>2. CASE ~cut
      BY <2>1, <3>2
    <3> QED BY <3>1, <3>2
  <2>6. wal \in Seq(Entry)
    <3>1. CASE cut
      <4>1. CanTruncateAfter(node.wal, index)
        BY <1>2, <3>1 DEF HandleAppendEntries
      <4> QED BY <2>1, <2>5, <3>1, <4>1, TruncateAfterType
    <3>2. CASE ~cut
      BY <2>1, <2>5, <3>2
    <3> QED BY <3>1, <3>2
  <2>7. /\ node' = [kept EXCEPT !.log = @ \o new, !.wal = wal]
        /\ io' = Appending(new, "commit", LeaderCommit)
        /\ torn' = (torn /\ ~cut)
        /\ acked' = IF cut THEN {e \in acked : e.Index <= index} ELSE acked
        /\ UNCHANGED <<alive, tmp, tmpTorn, broken, closed, faultVars, spoiled>>
    BY <1>2, <2>5 DEF HandleAppendEntries
  <2>8. torn' \in BOOLEAN /\ acked' \subseteq Entry
    BY <2>7 DEF StorageTypeOK
  <2> HIDE DEF kept, new, wal
  <2>9. node' \in Node
    <3>1. kept.log \o new \in Seq(Entry)
      <4>1. kept.log \in Seq(Entry)
        BY <2>5 DEF Node
      <4> QED BY <2>4, <4>1, ConcatProperties
    <3> QED BY <2>5, <2>6, <2>7, <3>1 DEF Node
  <2>10. io' \in Io /\ io'.stage = "start"
    BY <2>2, <2>4, <2>7, IoTypes
  <2> QED BY <2>7, <2>8, <2>9, <2>10 DEF StorageTypeOK, StageFits, faultVars
<1>3. ASSUME NEW first \in node.logOffset + 1 .. node.logOffset + Len(node.log) + 1,
             NEW entries \in Batch(first), NEW k \in 1 .. Len(entries) + 1,
             TruncateFails(entries, k)
      PROVE  TypeInv'
  <2>1. node \in Node /\ HasEntry(node, entries[k].Index)
    BY <1>3 DEF TruncateFails, Conflicts, StorageTypeOK
  <2>2. node' \in Node
    BY <1>3, <2>1, TruncateLogKeeps DEF TruncateFails
  <2> QED BY <1>3, <2>2 DEF TruncateFails, StorageTypeOK, StageFits, fileVars, faultVars
<1>4. ASSUME NEW index \in 1 .. MaxIndex, NEW data \in Store,
             HandleInstallSnapshot([index |-> index, term |-> AnyTerm, data |-> data])
      PROVE  TypeInv'
  <2>1. AnyTerm \in Nat
    BY StorageAssumption DEF AnyTerm
  <2>2. [index |-> index, term |-> AnyTerm, data |-> data] \in Snapshot
    BY <2>1, StorageAssumption DEF Snapshot
  <2>3. io' \in Io /\ io'.stage = "start"
    BY <1>4, <2>2, IoTypes DEF HandleInstallSnapshot
  <2> QED BY <1>4, <2>3 DEF HandleInstallSnapshot, StorageTypeOK, StageFits, fileVars, faultVars
<1> QED BY <1>1, <1>2, <1>3, <1>4 DEF Handlers

\* What a call that is interrupted may leave in the files.
LEMMA RemainsCases ==
    ASSUME TypeInv, NEW files \in Remains
    PROVE  /\ files.torn \in BOOLEAN /\ files.tmpTorn \in BOOLEAN
           /\ \/ /\ files.node = node /\ files.tmp = tmp /\ files.broken = broken
              \/ /\ io.stage = "body" /\ io.queue # <<>>
                 /\ files.node = [node EXCEPT !.wal = After(node.wal, torn, Head(io.queue))]
                 /\ files.tmp = tmp /\ files.broken = broken
              \/ /\ io.stage = "body" /\ io.queue # <<>>
                 /\ files.tmp = After(tmp, tmpTorn, Head(io.queue))
                 /\ files.node = node /\ files.broken = broken
              \/ /\ io.stage = "written"
                 /\ files.node = [node EXCEPT !.snapshot = io.snapshot]
                 /\ files.tmp = tmp /\ files.broken = FALSE
<1> DEFINE now == [node |-> node, torn |-> torn, tmp |-> tmp, tmpTorn |-> tmpTorn,
                   broken |-> broken]
           e == Head(io.queue)
           fragment == IF io.op = "append" THEN [now EXCEPT !.torn = TRUE]
                       ELSE [now EXCEPT !.tmpTorn = TRUE]
           record == IF io.op = "append"
                     THEN [now EXCEPT !.node.wal = After(@, torn, e)]
                     ELSE [now EXCEPT !.tmp = After(@, tmpTorn, e)]
           saved == [now EXCEPT !.node.snapshot = io.snapshot, !.broken = FALSE]
<1>1. \/ files = now
      \/ files = fragment
      \/ io.stage = "body" /\ files = record
      \/ io.stage = "written" /\ files = saved
  <2>1. Remains = IF io.stage = "crc" THEN {now, fragment}
                  ELSE IF io.stage = "body" THEN {now, fragment, record}
                  ELSE IF io.stage = "written" THEN {now, saved}
                  ELSE {now}
    BY DEF Remains
  <2> HIDE DEF now, fragment, record, saved
  <2> QED BY <2>1
<1>2. torn \in BOOLEAN /\ tmpTorn \in BOOLEAN /\ (io.stage = "body" => io.queue # <<>>)
  BY DEF TypeInv, StorageTypeOK, StageFits
<1>3. CASE files = now
  BY <1>2, <1>3
<1>4. CASE files = fragment
  BY <1>2, <1>4
<1>5. CASE io.stage = "body" /\ files = record
  <2>1. CASE io.op = "append"
    <3>1. files.node = [node EXCEPT !.wal = After(node.wal, torn, Head(io.queue))]
      BY <1>5, <2>1
    <3>2. /\ files.tmp = tmp /\ files.broken = broken
          /\ files.torn = torn /\ files.tmpTorn = tmpTorn
      BY <1>5, <2>1
    <3> QED BY <1>2, <1>5, <3>1, <3>2
  <2>2. CASE io.op # "append"
    <3>1. files = [now EXCEPT !.tmp = After(@, tmpTorn, e)]
      BY <1>5, <2>2
    <3> QED BY <1>2, <1>5, <3>1
  <2> QED BY <2>1, <2>2
<1>6. CASE io.stage = "written" /\ files = saved
  BY <1>2, <1>6
<1> QED BY <1>1, <1>3, <1>4, <1>5, <1>6

\* They keep their types.
LEMMA RemainsType ==
    ASSUME TypeInv, NEW files \in Remains
    PROVE  /\ files.node \in Node /\ files.torn \in BOOLEAN /\ files.tmp \in Seq(Entry)
           /\ files.tmpTorn \in BOOLEAN /\ files.broken \in BOOLEAN
<1>1. /\ node \in Node /\ node.wal \in Seq(Entry) /\ tmp \in Seq(Entry)
      /\ torn \in BOOLEAN /\ tmpTorn \in BOOLEAN /\ broken \in BOOLEAN
      /\ io.queue \in Seq(Entry) /\ io.snapshot \in Snapshot
  BY DEF TypeInv, StorageTypeOK, Node, Io
<1>2. ASSUME io.queue # <<>>
      PROVE  /\ After(node.wal, torn, Head(io.queue)) \in Seq(Entry)
             /\ After(tmp, tmpTorn, Head(io.queue)) \in Seq(Entry)
  <2>1. Head(io.queue) \in Entry
    BY <1>1, <1>2, HeadTailProperties
  <2> QED BY <1>1, <2>1, AfterType
<1>3. /\ \A w \in Seq(Entry) : [node EXCEPT !.wal = w] \in Node
      /\ \A s \in Snapshot : [node EXCEPT !.snapshot = s] \in Node
  BY <1>1 DEF Node
<1> QED BY <1>1, <1>2, <1>3, RemainsCases

\* maybeSnapshot takes a snapshot, or there is nothing to do.
LEMMA StartSnapshotType ==
    ASSUME NEW n \in Node
    PROVE  /\ StartSnapshot(n) \in Io /\ StartSnapshot(n).stage = "start"
           /\ StartSnapshot(n).op \in {"idle", "save"}
           /\ StartSnapshot(n).op = "save" => StartSnapshot(n).snapshot.index = n.lastApplied
<1>1. CASE SnapshotDue(n) /\ HasEntry(n, n.lastApplied)
  <2>1. EntryAt(n, n.lastApplied) \in Entry
    BY <1>1, EntryAtType
  <2>2. SnapshotOf(n) \in Snapshot /\ SnapshotOf(n).index = n.lastApplied
    BY <2>1 DEF SnapshotOf, Snapshot, Node, Entry
  <2>3. StartSnapshot(n) = Saving(SnapshotOf(n), "compact")
    BY <1>1 DEF StartSnapshot
  <2> QED BY <2>2, <2>3, IoTypes
<1>2. CASE ~(SnapshotDue(n) /\ HasEntry(n, n.lastApplied))
  BY <1>2, IoTypes DEF StartSnapshot
<1> QED BY <1>1, <1>2

\* The memory and the files of a node after SaveSnapshot in maybeSnapshot.
LEMMA SavedNode ==
    ASSUME NEW n \in Node, NEW s \in Snapshot
    PROVE  LET m == compactLog([n EXCEPT !.snapshot = s], n.lastApplied)
           IN  /\ m \in Node /\ m.wal = n.wal /\ m.snapshot = s
               /\ m.lastApplied = n.lastApplied
<1> DEFINE saved == [n EXCEPT !.snapshot = s]
           keepFrom == toSlicePos(saved, n.lastApplied) + 1
           rest == SubSeq(saved.log, keepFrom + 1, Len(saved.log))
<1>1. /\ saved \in Node /\ saved.wal = n.wal /\ saved.snapshot = s
      /\ saved.lastApplied = n.lastApplied /\ saved.log \in Seq(Entry)
      /\ n.lastApplied \in Nat
  BY DEF Node
<1> HIDE DEF saved
<1>2. CASE keepFrom \in 0 .. Len(saved.log)
  <2>1. rest \in Seq(Entry)
    BY <1>1, <1>2, Suffix
  <2> HIDE DEF keepFrom, rest
  <2>2. [saved EXCEPT !.log = rest, !.logOffset = n.lastApplied] \in Node
    BY <1>1, <2>1 DEF Node
  <2>3. compactLog(saved, n.lastApplied) \in
           {saved, [saved EXCEPT !.log = rest, !.logOffset = n.lastApplied]}
    BY DEF compactLog, keepFrom, rest
  <2>4. /\ [saved EXCEPT !.log = rest, !.logOffset = n.lastApplied].wal = n.wal
        /\ [saved EXCEPT !.log = rest, !.logOffset = n.lastApplied].snapshot = s
        /\ [saved EXCEPT !.log = rest, !.logOffset = n.lastApplied].lastApplied = n.lastApplied
    BY <1>1 DEF Node
  <2> QED BY <1>1, <2>2, <2>3, <2>4 DEF saved
<1>3. CASE ~(keepFrom \in 0 .. Len(saved.log))
  <2>1. compactLog(saved, n.lastApplied) = saved
    BY <1>3 DEF compactLog
  <2> QED BY <1>1, <2>1 DEF saved
<1> QED BY <1>2, <1>3

\* wal.Append and what follows it.
LEMMA AppendCallsType ==
    ASSUME TypeInv,
           WriteRecord \/ AppendSync \/ AppendClosed \/ AppendReturns \/ CommitAndSnapshot
    PROVE  TypeInv'
<1>1. /\ node \in Node /\ node.wal \in Seq(Entry) /\ torn \in BOOLEAN /\ acked \subseteq Entry
      /\ io \in Io /\ io.queue \in Seq(Entry) /\ io.commit \in Nat /\ StageFits
      /\ spoiled \in BOOLEAN
  BY DEF TypeInv, StorageTypeOK, Node, Io
<1>2. CASE WriteRecord
  <2>1. io' \in Io /\ io'.op = io.op /\ io'.queue = io.queue /\ io'.stage \in {"crc", "body"}
    BY <1>1, <1>2 DEF WriteRecord, Io
  <2>2. StageFits'
    BY <1>2, <2>1 DEF WriteRecord, StageFits
  <2> QED BY <1>2, <2>1, <2>2 DEF WriteRecord, TypeInv, StorageTypeOK, fileVars, faultVars
<1>3. CASE AppendSync
  <2>1. Head(io.queue) \in Entry /\ Tail(io.queue) \in Seq(Entry)
    BY <1>1, <1>3, HeadTailProperties DEF AppendSync, StageFits
  <2>2. After(node.wal, torn, Head(io.queue)) \in Seq(Entry)
    BY <1>1, <2>1, AfterType
  <2>3. node' \in Node
    BY <1>1, <1>3, <2>2 DEF AppendSync, Node
  <2>4. io' \in Io /\ io'.stage = "start"
    BY <1>1, <1>3, <2>1 DEF AppendSync, Io
  <2>5. acked' \subseteq Entry
    BY <1>1, <1>3, <2>1 DEF AppendSync
  <2>6. Misplaced(Head(io.queue)) \in BOOLEAN
    BY <1>1 DEF Misplaced
  <2>7. spoiled' \in BOOLEAN
    BY <1>1, <1>3, <2>6 DEF AppendSync
  <2> QED BY <1>3, <2>3, <2>4, <2>5, <2>7
          DEF AppendSync, TypeInv, StorageTypeOK, StageFits, fileVars, faultVars
<1>4. CASE AppendClosed \/ AppendReturns
  <2>1. io' = Idle /\ UNCHANGED <<node, alive, fileVars, faultVars, acked, spoiled>>
    BY <1>4 DEF AppendClosed, AppendReturns
  <2> QED BY <2>1, IoTypes DEF TypeInv, StorageTypeOK, StageFits, fileVars, faultVars
<1>5. CASE CommitAndSnapshot
  <2>1. FollowCommit(node, io.commit) \in Node
    BY <1>1, FollowCommitKeeps
  <2>2. io' \in Io /\ io'.stage = "start"
    BY <1>5, <2>1, StartSnapshotType DEF CommitAndSnapshot
  <2> QED BY <1>5, <2>1, <2>2
          DEF CommitAndSnapshot, TypeInv, StorageTypeOK, StageFits, fileVars, faultVars
<1> QED BY <1>2, <1>3, <1>4, <1>5

\* SaveSnapshot and what follows it.
LEMMA SaveCallsType ==
    ASSUME TypeInv, SaveOpen \/ SaveWrite \/ SaveSync \/ InstallSync
    PROVE  TypeInv'
<1>1. /\ node \in Node /\ node.wal \in Seq(Entry) /\ node.lastApplied \in Nat
      /\ node.snapshot.index \in Nat /\ io.snapshot.index \in Nat
      /\ io \in Io /\ io.snapshot \in Snapshot /\ StageFits
      /\ spoiled \in BOOLEAN /\ tmp \in Seq(Entry) /\ tmpTorn \in BOOLEAN /\ closed \in BOOLEAN
  BY DEF TypeInv, StorageTypeOK, Node, Io, Snapshot
<1>2. CASE SaveOpen \/ SaveWrite
  <2>1. io' \in Io /\ io'.op = "save" /\ io'.stage \in {"opened", "written"}
    BY <1>1, <1>2 DEF SaveOpen, SaveWrite, Io
  <2>2. StageFits'
    BY <2>1 DEF StageFits
  <2> QED BY <1>2, <2>1, <2>2
          DEF SaveOpen, SaveWrite, TypeInv, StorageTypeOK, fileVars, faultVars
<1>3. CASE SaveSync
  <2>1. Survivors(node, node.lastApplied) \in Seq(Entry)
    <3>1. Above(node.wal, node.lastApplied) \in Seq({e \in Entry : e.Index > node.lastApplied})
      BY <1>1, AboveType
    <3>2. Above(node.wal, node.lastApplied) \in Seq(Entry)
      BY <3>1, SeqMonotonic
    <3> QED BY <3>2 DEF Survivors
  <2>2. node' \in Node
    BY <1>1, <1>3, SavedNode DEF SaveSync
  <2>3. io' \in Io /\ io'.stage = "start"
    BY <1>3, <2>1, IoTypes DEF SaveSync
  <2>4. spoiled' \in BOOLEAN
    <3>1. Shrinks \in BOOLEAN /\ Leftover(node.lastApplied) \in BOOLEAN
      BY <1>1 DEF Shrinks, Leftover
    <3> QED BY <1>1, <1>3, <3>1 DEF SaveSync
  <2> QED BY <1>3, <2>2, <2>3, <2>4 DEF SaveSync, TypeInv, StorageTypeOK, StageFits, faultVars
<1>4. CASE InstallSync
  <2>1. node' \in Node
    BY <1>1, <1>4, InstallSnapshotKeeps DEF InstallSync
  <2>2. io' \in Io /\ io'.stage = "start"
    BY <1>4, IoTypes DEF InstallSync
  <2>3. spoiled' \in BOOLEAN
    <3>1. Shrinks \in BOOLEAN
      BY <1>1 DEF Shrinks
    <3> QED BY <1>1, <1>4, <3>1 DEF InstallSync
  <2> QED BY <1>4, <2>1, <2>2, <2>3 DEF InstallSync, TypeInv, StorageTypeOK, StageFits, faultVars
<1> QED BY <1>2, <1>3, <1>4

\* CompactWAL, and opening the new WAL.
LEMMA CompactCallsType ==
    ASSUME TypeInv, CompactSync \/ CompactRename \/ ReopenFails
    PROVE  TypeInv'
<1>1. /\ node \in Node /\ node.lastApplied \in Nat /\ io \in Io /\ io.queue \in Seq(Entry)
      /\ tmp \in Seq(Entry) /\ tmpTorn \in BOOLEAN /\ StageFits /\ errors \in Nat
  BY DEF TypeInv, StorageTypeOK, Node, Io
<1>2. CASE CompactSync
  <2>1. Head(io.queue) \in Entry /\ Tail(io.queue) \in Seq(Entry)
    BY <1>1, <1>2, HeadTailProperties DEF CompactSync, StageFits
  <2>2. tmp' \in Seq(Entry)
    BY <1>1, <1>2, <2>1, AfterType DEF CompactSync
  <2>3. io' \in Io /\ io'.stage = "start"
    BY <1>1, <1>2, <2>1 DEF CompactSync, Io
  <2> QED BY <1>2, <2>2, <2>3 DEF CompactSync, TypeInv, StorageTypeOK, StageFits, faultVars
<1>3. CASE CompactRename \/ ReopenFails
  <2>0. Rename
    BY <1>3 DEF CompactRename, ReopenFails
  <2>1. errors' \in Nat
    BY <1>1, <1>3 DEF CompactRename, ReopenFails
  <2>4. closed' \in BOOLEAN
    BY <1>3 DEF CompactRename, ReopenFails, TypeInv, StorageTypeOK
  <2>2. node' \in Node
    BY <1>1, <1>3 DEF CompactRename, ReopenFails, Node
  <2>3. <<>> \in Seq(Entry)
    OBVIOUS
  <2> QED BY <1>1, <2>0, <2>1, <2>2, <2>3, <2>4, IoTypes DEF Rename, TypeInv, StorageTypeOK, StageFits
<1> QED BY <1>2, <1>3

\* Failures and restarts.
LEMMA FailuresType ==
    ASSUME TypeInv, Crash \/ CallFails \/ Start
    PROVE  TypeInv'
<1>1. ASSUME NEW files \in Remains PROVE SaveLost(files) \in BOOLEAN
  BY <1>1, RemainsType DEF SaveLost, Shrinks
<1>2. crashes \in Nat /\ errors \in Nat /\ spoiled \in BOOLEAN /\ closed \in BOOLEAN /\ node \in Node
  BY DEF TypeInv, StorageTypeOK
<1>3. CASE Crash
  <2>1. PICK files \in Remains : /\ Interrupt(files)
                                 /\ node' = OnDisk(files.node)
                                 /\ spoiled' = (spoiled \/ SaveLost(files))
    BY <1>3 DEF Crash
  <2>2. files.node \in Node
    BY RemainsType
  <2>3. node' \in Node
    <3>1. files.node.wal \in Seq(Entry) /\ files.node.snapshot \in Snapshot
      BY <2>2 DEF Node
    <3> QED BY <2>1, <3>1, OnDiskType
  <2>4. crashes' \in Nat /\ UNCHANGED <<errors, acked>> /\ alive' = FALSE /\ closed' = FALSE
    BY <1>2, <1>3, <2>1 DEF Crash, Interrupt
  <2>5. io' \in Io /\ io'.stage = "start"
    BY <2>1, IoTypes DEF Interrupt
  <2>6. torn' \in BOOLEAN /\ tmp' \in Seq(Entry) /\ tmpTorn' \in BOOLEAN /\ broken' \in BOOLEAN
    BY <2>1, RemainsType DEF Interrupt
  <2>7. spoiled' \in BOOLEAN
    BY <1>1, <1>2, <2>1
  <2> QED BY <2>3, <2>4, <2>5, <2>6, <2>7 DEF TypeInv, StorageTypeOK, StageFits
<1>4. CASE CallFails
  <2>1. PICK files \in Remains : /\ Interrupt(files)
                                 /\ node' = files.node
                                 /\ spoiled' = (spoiled \/ SaveLost(files))
    BY <1>4 DEF CallFails
  <2> QED BY <1>1, <1>2, <1>4, <2>1, RemainsType, IoTypes
          DEF CallFails, Interrupt, TypeInv, StorageTypeOK, StageFits
<1>5. CASE Start
  BY <1>2, <1>5, loadPersistedStateKeeps
     DEF Start, TypeInv, StorageTypeOK, StageFits, fileVars, faultVars
<1> QED BY <1>3, <1>4, <1>5

\* A dead process is not in a handler.
Dead == ~alive => io = Idle

LEMMA DeadKept ==
    ASSUME Dead, Next
    PROVE  Dead'
<1>1. CASE Handlers
  <2>1. ASSUME NEW term, NEW command, Propose(term, command) PROVE Ready /\ UNCHANGED alive
    BY <2>1 DEF Propose
  <2>2. ASSUME NEW entries, NEW k, NEW LeaderCommit, HandleAppendEntries(entries, k, LeaderCommit)
        PROVE  Ready /\ UNCHANGED alive
    BY <2>2 DEF HandleAppendEntries
  <2>3. ASSUME NEW entries, NEW k, TruncateFails(entries, k) PROVE Ready /\ UNCHANGED alive
    BY <2>3 DEF TruncateFails
  <2>4. ASSUME NEW s, HandleInstallSnapshot(s) PROVE Ready /\ UNCHANGED alive
    BY <2>4 DEF HandleInstallSnapshot
  <2>5. Ready /\ UNCHANGED alive
    BY <1>1, <2>1, <2>2, <2>3, <2>4 DEF Handlers
  <2> QED BY <2>5 DEF Ready, Dead
<1>2. CASE SystemCalls
  <2>1. alive /\ alive' = alive
    BY <1>2 DEF SystemCalls, WriteRecord, AppendSync, AppendClosed, AppendReturns,
                CommitAndSnapshot, SaveOpen, SaveWrite, SaveSync, InstallSync, CompactSync,
                CompactRename, ReopenFails, Rename
  <2> QED BY <2>1 DEF Dead
<1>3. CASE Crash
  BY <1>3 DEF Crash, Interrupt, Dead
<1>4. CASE CallFails \/ Start
  BY <1>4 DEF CallFails, Start, Dead
<1> QED BY <1>1, <1>2, <1>3, <1>4 DEF Next

-----------------------------------------------------------------------------
(* What keeps the acknowledged records.                                    *)

\* All records of w are below the index of e.
AllBelow(w, e) == \A q \in DOMAIN w : w[q].Index < e.Index

\* w holds e behind records of lower index only: no truncation to the index
\* of e, or to a higher one, removes it.
Leads(w, e) == \E p \in DOMAIN w : w[p] = e /\ \A q \in 1 .. p - 1 : w[q].Index < e.Index

\* One more record at the end of a file.
LEMMA LeadsAppend ==
    ASSUME NEW w \in Seq(Entry), NEW x \in Entry, NEW e \in Entry
    PROVE  /\ Leads(Append(w, x), e) <=> Leads(w, e) \/ (x = e /\ AllBelow(w, e))
           /\ AllBelow(Append(w, x), e) <=> AllBelow(w, e) /\ x.Index < e.Index
<1> DEFINE u == Append(w, x)
           n == Len(w)
<1>1. /\ n \in Nat /\ DOMAIN w = 1 .. n /\ DOMAIN u = 1 .. n + 1 /\ u[n + 1] = x
      /\ \A p \in 1 .. n : u[p] = w[p]
  OBVIOUS
<1> HIDE DEF u, n
<1>2. AllBelow(u, e) <=> AllBelow(w, e) /\ x.Index < e.Index
  <2>1. \A q \in 1 .. n + 1 : q \in 1 .. n \/ q = n + 1
    BY <1>1
  <2>2. (1 .. n) \subseteq 1 .. n + 1 /\ n + 1 \in 1 .. n + 1
    BY <1>1
  <2> QED BY <1>1, <2>1, <2>2 DEF AllBelow
<1>3. ASSUME Leads(w, e) PROVE Leads(u, e)
  <2>1. PICK p \in 1 .. n : w[p] = e /\ \A q \in 1 .. p - 1 : w[q].Index < e.Index
    BY <1>1, <1>3 DEF Leads
  <2>2. p \in 1 .. n + 1 /\ \A q \in 1 .. p - 1 : q \in 1 .. n
    BY <1>1
  <2> QED BY <1>1, <2>1, <2>2 DEF Leads
<1>4. ASSUME x = e, AllBelow(w, e) PROVE Leads(u, e)
  <2>1. n + 1 \in 1 .. n + 1 /\ (n + 1) - 1 = n
    BY <1>1
  <2> QED BY <1>1, <1>4, <2>1 DEF Leads, AllBelow
<1>5. ASSUME Leads(u, e) PROVE Leads(w, e) \/ (x = e /\ AllBelow(w, e))
  <2>1. PICK p \in 1 .. n + 1 : u[p] = e /\ \A q \in 1 .. p - 1 : u[q].Index < e.Index
    BY <1>1, <1>5 DEF Leads
  <2>2. CASE p = n + 1
    <3>1. p - 1 = n
      BY <1>1, <2>2
    <3> QED BY <1>1, <2>1, <2>2, <3>1 DEF AllBelow
  <2>3. CASE p # n + 1
    <3>1. p \in 1 .. n /\ \A q \in 1 .. p - 1 : q \in 1 .. n
      BY <1>1, <2>3
    <3> QED BY <1>1, <2>1, <3>1 DEF Leads
  <2> QED BY <2>2, <2>3
<1> QED BY <1>2, <1>3, <1>4, <1>5 DEF u

\* Compaction up to k does not change which records above k are safe.
LEMMA LeadsAbove ==
    ASSUME NEW w \in Seq(Entry), NEW k \in Nat, NEW e \in Entry, e.Index > k
    PROVE  Leads(w, e) <=> Leads(Above(w, k), e)
<1> DEFINE Same(v) == /\ Leads(v, e) <=> Leads(Above(v, k), e)
                      /\ AllBelow(v, e) <=> AllBelow(Above(v, k), e)
           G == {v \in Seq(Entry) : Same(v)}
<1>1. <<>> \in G
  BY AboveStep
<1>2. ASSUME NEW v \in Seq(Entry), NEW x \in Entry, v \in G PROVE Append(v, x) \in G
  <2>1. Above(v, k) \in Seq(Entry)
    <3>1. Above(v, k) \in Seq({y \in Entry : y.Index > k})
      BY AboveType
    <3> QED BY <3>1, SeqMonotonic
  <2>2. Same(v)
    BY <1>2
  <2>3. /\ Leads(Append(v, x), e) <=> Leads(v, e) \/ (x = e /\ AllBelow(v, e))
        /\ AllBelow(Append(v, x), e) <=> AllBelow(v, e) /\ x.Index < e.Index
    BY LeadsAppend
  <2>4. CASE x.Index > k
    <3>1. Above(Append(v, x), k) = Append(Above(v, k), x)
      BY <2>4, AboveStep
    <3> DEFINE a == Above(v, k)
    <3> HIDE DEF a
    <3>2. a \in Seq(Entry)
      BY <2>1 DEF a
    <3>3. /\ Leads(Append(a, x), e) <=> Leads(a, e) \/ (x = e /\ AllBelow(a, e))
          /\ AllBelow(Append(a, x), e) <=> AllBelow(a, e) /\ x.Index < e.Index
      BY <3>2, LeadsAppend
    <3>4. Same(Append(v, x))
      BY <2>2, <2>3, <3>1, <3>3, Zenon DEF a
    <3> QED BY <3>4, AppendProperties
  <2>5. CASE ~(x.Index > k)
    <3>1. Above(Append(v, x), k) = Above(v, k)
      BY <2>5, AboveStep
    <3>2. x.Index < e.Index /\ x # e
      BY <2>5 DEF Entry
    <3>3. Same(Append(v, x))
      BY <2>2, <2>3, <3>1, <3>2, Zenon
    <3> QED BY <3>3, AppendProperties
  <2> QED BY <2>4, <2>5
<1>3. Seq(Entry) \subseteq G
  <2> HIDE DEF G
  <2> QED BY <1>1, <1>2, SeqGrows
<1> QED BY <1>3

\* As long as the files are undamaged: every acknowledged record is covered by
\* the snapshot or leads the WAL at its index; the snapshot file can not be
\* decoded only while SaveSnapshot writes it; and a compaction that is under
\* way will leave in the temporary file what the WAL holds above the snapshot.
Kept ==
    /\ \A e \in acked : e.Index <= node.snapshot.index \/ Leads(node.wal, e)
    /\ broken => io.op = "save" /\ io.stage \in {"opened", "written"}
    /\ io.op = "save" /\ io.then = "compact" => io.snapshot.index = node.lastApplied
    /\ io.op = "compact" =>
          /\ ~tmpTorn
          /\ Above(tmp \o io.queue, node.snapshot.index) = Above(node.wal, node.snapshot.index)

\* Cutting the WAL after a record keeps what leads it up to that index.
LEMMA LeadsTruncated ==
    ASSUME NEW w \in Seq(Entry), NEW e \in Entry, NEW index,
           CanTruncateAfter(w, index), Leads(w, e), e.Index <= index
    PROVE  Leads(TruncateAfter(w, index), e)
<1>1. PICK last \in DOMAIN w : FirstAt(w, index, last) /\ TruncateAfter(w, index) = SubSeq(w, 1, last)
  BY TruncateAfterType
<1>2. PICK p \in DOMAIN w : w[p] = e /\ \A q \in 1 .. p - 1 : w[q].Index < e.Index
  BY DEF Leads
<1>3. /\ Len(w) \in Nat /\ DOMAIN w = 1 .. Len(w)
      /\ e.Index \in Nat /\ index = w[last].Index /\ index \in Nat
  <2>1. w[last] \in Entry /\ index = w[last].Index
    BY <1>1 DEF FirstAt
  <2> QED BY <2>1 DEF Entry
<1>4. p <= last
  <2> SUFFICES ASSUME last < p PROVE FALSE
    BY <1>3
  <2>1. last \in 1 .. p - 1
    BY <1>3
  <2>2. w[last].Index < e.Index
    BY <1>2, <2>1
  <2> QED BY <1>3, <2>2
<1> DEFINE u == SubSeq(w, 1, last)
<1>5. /\ u \in Seq(Entry) /\ Len(u) = last
      /\ \A q \in 1 .. last : u[q] = w[q]
  <2>1. last \in 0 .. Len(w)
    BY <1>3
  <2> QED BY <2>1, Prefix
<1> HIDE DEF u
<1>6. /\ p \in DOMAIN u /\ p \in 1 .. last
      /\ \A q \in 1 .. p - 1 : q \in 1 .. last
  BY <1>3, <1>4, <1>5
<1>7. Leads(u, e)
  BY <1>2, <1>5, <1>6 DEF Leads
<1> QED BY <1>1, <1>7 DEF u

\* A record that leads the WAL is in the WAL.
LEMMA LeadsFound ==
    ASSUME NEW e, Leads(node.wal, e)
    PROVE  Found(e)
BY DEF Leads, Found

\* The operators of DurableLog are those of the model.
LEMMA SameOperators ==
    /\ \A w, k : Promised!Above(w, k) = Above(w, k)
    /\ \A w, k : Promised!TruncateAfter(w, k) = TruncateAfter(w, k)
    /\ Promised!NoSnapshot = NoSnapshot
<1>1. \A w, k : Promised!Above(w, k) = Above(w, k)
  BY DEF Promised!Above, Above
<1>2. \A w, k : Promised!TruncateAfter(w, k) = TruncateAfter(w, k)
  BY DEF Promised!TruncateAfter, TruncateAfter, Promised!FirstAt, FirstAt
<1>3. Promised!NoSnapshot = NoSnapshot
  BY DEF Promised!NoSnapshot, NoSnapshot, Promised!EmptyStore, EmptyStore
<1> QED BY <1>1, <1>2, <1>3

\* The files are as before, or change as DurableLog says.
Allowed == UNCHANGED <<node.wal, node.snapshot>> \/ Promised!KeepPromise

\* A record at the end of the WAL.
LEMMA AppendAllowed ==
    ASSUME node.wal \in Seq(Entry), NEW e \in Entry,
           node'.wal = Append(node.wal, e), UNCHANGED node.snapshot
    PROVE  Allowed
<1>1. node'.wal = Append(node.wal, node'.wal[Len(node'.wal)]) /\ Len(node'.wal) # 0
  OBVIOUS
<1>2. node'.wal # <<>>
  BY <1>1
<1>3. Promised!AppendRecord
  BY <1>1, <1>2 DEF Promised!AppendRecord
<1> QED BY <1>3 DEF Allowed, Promised!KeepPromise

\* Steps that leave the files alone, outside of CompactWAL.
LEMMA FilesAlone ==
    ASSUME Kept, node'.wal = node.wal, node'.snapshot = node.snapshot, acked' = acked,
           ~broken', io'.op # "compact",
           io'.op = "save" /\ io'.then = "compact" => io'.snapshot.index = node'.lastApplied
    PROVE  Kept' /\ Allowed
BY DEF Kept, Allowed

\* Between two file operations the snapshot file can be decoded.
LEMMA NotBroken ==
    ASSUME TypeInv, Kept, io.op # "save" \/ io.stage = "start"
    PROVE  ~broken
BY DEF Kept

\* commitIndex and the state machine are not in the files.
LEMMA FollowCommitFiles ==
    ASSUME NEW n \in Node, NEW LeaderCommit \in Nat
    PROVE  /\ FollowCommit(n, LeaderCommit).wal = n.wal
           /\ FollowCommit(n, LeaderCommit).snapshot = n.snapshot
<1>1. \A c : ApplyCommitted([n EXCEPT !.commitIndex = c]).wal = n.wal
  BY DEF ApplyCommitted, Node
<1>2. \A c : ApplyCommitted([n EXCEPT !.commitIndex = c]).snapshot = n.snapshot
  BY DEF ApplyCommitted, Node
<1> QED BY <1>1, <1>2 DEF FollowCommit

\* The handlers before they come to the files; HandleAppendEntries may cut
\* the WAL.
LEMMA HandlersKeep ==
    ASSUME TypeInv, Kept, Handlers
    PROVE  Kept' /\ Allowed
<1>1. node \in Node /\ node.wal \in Seq(Entry) /\ acked \subseteq Entry
  BY DEF TypeInv, StorageTypeOK, Node
<1>2. ASSUME Ready PROVE ~broken /\ io.op = "idle"
  BY <1>2, IoTypes, NotBroken DEF Ready
<1>3. ASSUME NEW term \in Term, NEW command \in Command \cup {NoOp}, Propose(term, command)
      PROVE  Kept' /\ Allowed
  <2>1. io'.op = "append"
    BY <1>3 DEF Propose, Appending, Idle
  <2>2. node'.wal = node.wal /\ node'.snapshot = node.snapshot
    BY <1>1, <1>3 DEF Propose, Node
  <2>3. ~broken' /\ acked' = acked
    BY <1>2, <1>3 DEF Propose, fileVars
  <2> QED BY <2>1, <2>2, <2>3, FilesAlone
<1>4. ASSUME NEW entries, NEW k, NEW LeaderCommit,
             HandleAppendEntries(entries, k, LeaderCommit)
      PROVE  Kept' /\ Allowed
  <2> DEFINE index == entries[k].Index - 1
             kept == TruncateLog(node, entries[k].Index)
             new == SubSeq(entries, k, Len(entries))
  <2>1. io'.op = "append" /\ ~broken'
    BY <1>2, <1>4 DEF HandleAppendEntries, Appending, Idle
  <2>2. CASE ~Conflicts(node, entries, k)
    <3>1. node' = [node EXCEPT !.log = @ \o new, !.wal = @] /\ acked' = acked
      BY <1>4, <2>2 DEF HandleAppendEntries
    <3>2. node'.wal = node.wal /\ node'.snapshot = node.snapshot
      BY <1>1, <3>1 DEF Node
    <3> QED BY <2>1, <3>1, <3>2, FilesAlone
  <2>3. CASE Conflicts(node, entries, k)
    <3>1. /\ CanTruncateAfter(node.wal, index)
          /\ node' = [kept EXCEPT !.log = @ \o new, !.wal = TruncateAfter(@, index)]
          /\ acked' = {e \in acked : e.Index <= index}
      BY <1>4, <2>3 DEF HandleAppendEntries
    <3>2. kept \in Node /\ kept.wal = node.wal /\ kept.snapshot = node.snapshot
      <4>1. HasEntry(node, entries[k].Index)
        BY <2>3 DEF Conflicts
      <4>2. kept \in Node /\ kept.wal = node.wal
        BY <1>1, <4>1, TruncateLogKeeps
      <4>3. kept.snapshot = node.snapshot
        BY <1>1 DEF TruncateLog, Node
      <4> QED BY <4>2, <4>3
    <3> HIDE DEF kept, new
    <3>3. node'.wal = TruncateAfter(node.wal, index) /\ node'.snapshot = node.snapshot
      BY <3>1, <3>2 DEF Node
    <3>4. ASSUME NEW e \in acked'
          PROVE  e.Index <= node'.snapshot.index \/ Leads(node'.wal, e)
      <4>1. e \in Entry /\ e.Index <= index /\ e \in acked
        BY <1>1, <3>1
      <4>2. e.Index <= node.snapshot.index \/ Leads(node.wal, e)
        BY <4>1 DEF Kept
      <4>3. CASE Leads(node.wal, e)
        BY <1>1, <3>1, <3>3, <4>1, <4>3, LeadsTruncated
      <4> QED BY <3>3, <4>2, <4>3
    <3>5. Kept'
      BY <2>1, <3>4 DEF Kept
    <3>6. Allowed
      <4>1. PICK p \in DOMAIN node.wal : node.wal[p].Index = index
        BY <3>1 DEF CanTruncateAfter
      <4>2. Promised!CutAfter(node.wal[p].Index)
        BY <3>3, <4>1, SameOperators DEF Promised!CutAfter
      <4> QED BY <4>2 DEF Allowed, Promised!KeepPromise
    <3> QED BY <3>5, <3>6
  <2> QED BY <2>2, <2>3
<1>5. ASSUME NEW entries, NEW k, TruncateFails(entries, k)
      PROVE  Kept' /\ Allowed
  <2>1. io'.op = "idle"
    BY <1>2, <1>5 DEF TruncateFails
  <2>2. node'.wal = node.wal /\ node'.snapshot = node.snapshot
    BY <1>1, <1>5 DEF TruncateFails, TruncateLog, Node
  <2>3. ~broken' /\ acked' = acked
    BY <1>2, <1>5 DEF TruncateFails, fileVars
  <2> QED BY <2>1, <2>2, <2>3, FilesAlone
<1>6. ASSUME NEW s, HandleInstallSnapshot(s)
      PROVE  Kept' /\ Allowed
  <2>1. io'.op = "save" /\ io'.then = "install"
    BY <1>6 DEF HandleInstallSnapshot, Saving, Idle
  <2>2. node' = node /\ ~broken' /\ acked' = acked
    BY <1>2, <1>6 DEF HandleInstallSnapshot, fileVars
  <2> QED BY <2>1, <2>2, FilesAlone
<1> QED BY <1>3, <1>4, <1>5, <1>6 DEF Handlers

\* wal.Append and what follows it.
LEMMA AppendCallsKeep ==
    ASSUME TypeInv, Kept, ~spoiled',
           WriteRecord \/ AppendSync \/ AppendClosed \/ AppendReturns \/ CommitAndSnapshot
    PROVE  Kept' /\ Allowed
<1>1. /\ node \in Node /\ node.wal \in Seq(Entry) /\ acked \subseteq Entry
      /\ io.queue \in Seq(Entry) /\ io.commit \in Nat /\ StageFits
  BY DEF TypeInv, StorageTypeOK, Node, Io
<1>2. io.op # "save" /\ ~broken
  <2>1. io.op \in {"append", "compact"}
    BY DEF WriteRecord, AppendSync, AppendClosed, AppendReturns, CommitAndSnapshot
  <2> QED BY <2>1, NotBroken
<1>3. CASE WriteRecord
  <2>1. io'.op = io.op /\ io'.queue = io.queue /\ io \in Io
    BY <1>3 DEF WriteRecord, TypeInv, StorageTypeOK, Io
  <2> QED BY <1>2, <1>3, <2>1 DEF WriteRecord, Kept, Allowed, fileVars
<1>4. CASE AppendSync
  <2> DEFINE x == Head(io.queue)
  <2>1. x \in Entry
    BY <1>1, <1>4, HeadTailProperties DEF AppendSync, StageFits
  <2>2. ~torn /\ ~ \E p \in DOMAIN node.wal : node.wal[p].Index >= x.Index
    BY <1>4 DEF AppendSync, Misplaced
  <2>3. AllBelow(node.wal, x)
    <3>1. ASSUME NEW q \in DOMAIN node.wal PROVE node.wal[q].Index < x.Index
      <4>1. node.wal[q].Index \in Nat /\ x.Index \in Nat
        <5>1. node.wal[q] \in Entry
          BY <1>1
        <5> HIDE DEF x
        <5> QED BY <2>1, <5>1 DEF Entry
      <4> HIDE DEF x
      <4> QED BY <2>2, <4>1
    <3> QED BY <3>1 DEF AllBelow
  <2>4. /\ node' = [node EXCEPT !.wal = After(@, torn, x)]
        /\ acked' = acked \cup {x}
        /\ io' = [io EXCEPT !.stage = "start", !.queue = Tail(@)]
        /\ broken' = broken /\ io.op = "append"
    BY <1>4 DEF AppendSync, fileVars
  <2> HIDE DEF x
  <2>5. node'.wal = Append(node.wal, x) /\ node'.snapshot = node.snapshot
    BY <1>1, <2>2, <2>4 DEF Node, After
  <2>6. io'.op = "append"
    BY <2>4 DEF TypeInv, StorageTypeOK, Io
  <2>7. ASSUME NEW e \in acked'
        PROVE  e.Index <= node'.snapshot.index \/ Leads(node'.wal, e)
    <3>1. CASE e = x
      BY <1>1, <2>1, <2>3, <2>5, <3>1, LeadsAppend
    <3>2. CASE e \in acked
      <4>1. e.Index <= node.snapshot.index \/ Leads(node.wal, e)
        BY <3>2 DEF Kept
      <4>2. e \in Entry
        BY <1>1, <3>2
      <4> QED BY <1>1, <2>1, <2>5, <4>1, <4>2, LeadsAppend
    <3> QED BY <2>4, <3>1, <3>2
  <2>8. Kept'
    BY <1>2, <2>4, <2>6, <2>7 DEF Kept
  <2> QED BY <1>1, <2>1, <2>5, <2>8, AppendAllowed
<1>5. CASE AppendClosed \/ AppendReturns
  <2>1. io'.op = "idle" /\ node' = node /\ acked' = acked /\ broken' = broken
    BY <1>5, IoTypes DEF AppendClosed, AppendReturns, fileVars
  <2> QED BY <1>2, <2>1, FilesAlone
<1>6. CASE CommitAndSnapshot
  <2> DEFINE n == FollowCommit(node, io.commit)
  <2>1. n \in Node /\ n.wal = node.wal /\ n.snapshot = node.snapshot
    BY <1>1, FollowCommitKeeps, FollowCommitFiles
  <2>2. node' = n /\ io' = StartSnapshot(n) /\ acked' = acked /\ broken' = broken
    BY <1>6 DEF CommitAndSnapshot, fileVars
  <2> HIDE DEF n
  <2>3. /\ io'.op # "compact"
        /\ io'.op = "save" => io'.snapshot.index = node'.lastApplied
    BY <2>1, <2>2, StartSnapshotType
  <2> QED BY <1>2, <2>1, <2>2, <2>3, FilesAlone
<1> QED BY <1>3, <1>4, <1>5, <1>6

\* A snapshot that does not cover less than the one before it.
LEMMA SnapshotReplaced ==
    ASSUME TypeInv, Kept, ~Shrinks, node'.wal = node.wal, node'.snapshot = io.snapshot,
           acked' = acked
    PROVE  /\ \A e \in acked' : e.Index <= node'.snapshot.index \/ Leads(node'.wal, e)
           /\ Allowed
<1>1. /\ acked \subseteq Entry /\ node.snapshot.index \in Nat /\ io.snapshot.index \in Nat
      /\ \A e \in acked : e.Index \in Nat
  BY DEF TypeInv, StorageTypeOK, Node, Io, Snapshot, Entry
<1>2. io.snapshot.index >= node.snapshot.index
  BY <1>1 DEF Shrinks
<1>3. Promised!ReplaceSnapshot
  BY <1>2 DEF Promised!ReplaceSnapshot
<1>4. \A e \in acked : e.Index <= node.snapshot.index => e.Index <= io.snapshot.index
  BY <1>1, <1>2
<1> QED BY <1>3, <1>4 DEF Kept, Allowed, Promised!KeepPromise

\* SaveSnapshot, and the beginning of CompactWAL.
LEMMA SaveCallsKeep ==
    ASSUME TypeInv, Kept, ~spoiled', SaveOpen \/ SaveWrite \/ SaveSync \/ InstallSync
    PROVE  Kept' /\ Allowed
<1>1. /\ node \in Node /\ node.wal \in Seq(Entry) /\ node.lastApplied \in Nat
      /\ io \in Io /\ io.snapshot \in Snapshot /\ tmp \in Seq(Entry)
  BY DEF TypeInv, StorageTypeOK, Node, Io
<1>2. CASE SaveOpen \/ SaveWrite
  <2>1. /\ io'.op = "save" /\ io'.stage \in {"opened", "written"}
        /\ io'.then = io.then /\ io'.snapshot = io.snapshot /\ io.op = "save"
    BY <1>1, <1>2 DEF SaveOpen, SaveWrite, Io
  <2>2. node' = node /\ acked' = acked
    BY <1>2 DEF SaveOpen, SaveWrite
  <2> QED BY <2>1, <2>2 DEF Kept, Allowed
<1>3. CASE SaveSync
  <2> DEFINE k == node.lastApplied
  <2>1. /\ node' = compactLog([node EXCEPT !.snapshot = io.snapshot], k)
        /\ io' = IF closed THEN Idle ELSE Compacting(Above(node.wal, k))
        /\ ~Shrinks /\ (closed \/ ~Leftover(k))
        /\ io.snapshot.index = k
        /\ broken' = FALSE /\ tmp' = tmp /\ tmpTorn' = tmpTorn /\ acked' = acked
    BY <1>3 DEF SaveSync, Survivors, Kept
  <2>2. node'.wal = node.wal /\ node'.snapshot = io.snapshot
    BY <1>1, <2>1, SavedNode
  <2> HIDE DEF k
  <2>3. ASSUME ~closed
        PROVE  ~tmpTorn /\ Above(tmp \o Above(node.wal, k), k) = Above(node.wal, k)
    <3>1. k \in Nat /\ ~tmpTorn /\ \A p \in DOMAIN tmp : ~(tmp[p].Index > k)
      BY <1>1, <2>1, <2>3 DEF Leftover, k
    <3>2. tmp \in Seq({e \in Entry : ~(e.Index > k)})
      BY <1>1, <3>1
    <3>3. Above(node.wal, k) \in Seq({e \in Entry : e.Index > k})
      BY <1>1, <3>1, AboveType
    <3>4. Above(node.wal, k) \in Seq(Entry)
      BY <3>3, SeqMonotonic
    <3>5. Above(tmp \o Above(node.wal, k), k) = Above(tmp, k) \o Above(Above(node.wal, k), k)
      BY <1>1, <3>1, <3>4, AboveConcat
    <3>6. Above(tmp, k) = <<>> /\ Above(Above(node.wal, k), k) = Above(node.wal, k)
      BY <3>1, <3>2, <3>3, AboveNone, AboveAll
    <3>7. <<>> \o Above(node.wal, k) = Above(node.wal, k)
      BY <3>4
    <3> QED BY <3>1, <3>5, <3>6, <3>7
  <2>4. io'.op = "idle" \/ (~closed /\ io'.op = "compact" /\ io'.queue = Above(node.wal, k))
    BY <2>1 DEF Idle, Compacting
  <2>5. /\ \A e \in acked' : e.Index <= node'.snapshot.index \/ Leads(node'.wal, e)
        /\ Allowed
    BY <2>1, <2>2, SnapshotReplaced
  <2>6. Kept'
    BY <2>1, <2>2, <2>3, <2>4, <2>5 DEF Kept
  <2> QED BY <2>5, <2>6
<1>4. CASE InstallSync
  <2>1. /\ node' = InstallSnapshot(node, io.snapshot) /\ io'.op = "idle"
        /\ ~Shrinks /\ broken' = FALSE /\ acked' = acked
    BY <1>4, IoTypes DEF InstallSync
  <2>2. node'.wal = node.wal /\ node'.snapshot = io.snapshot
    BY <1>1, <2>1 DEF InstallSnapshot, Node
  <2>3. /\ \A e \in acked' : e.Index <= node'.snapshot.index \/ Leads(node'.wal, e)
        /\ Allowed
    BY <2>1, <2>2, SnapshotReplaced
  <2>4. Kept'
    BY <2>1, <2>3 DEF Kept
  <2> QED BY <2>3, <2>4
<1> QED BY <1>2, <1>3, <1>4

\* CompactWAL: the temporary file takes the place of the WAL.
LEMMA CompactCallsKeep ==
    ASSUME TypeInv, Kept, CompactSync \/ CompactRename \/ ReopenFails
    PROVE  Kept' /\ Allowed
<1> DEFINE k == node.snapshot.index
<1>1. /\ node \in Node /\ node.wal \in Seq(Entry) /\ k \in Nat /\ acked \subseteq Entry
      /\ io \in Io /\ io.queue \in Seq(Entry) /\ tmp \in Seq(Entry) /\ StageFits
  BY DEF TypeInv, StorageTypeOK, Node, Io, Snapshot
<1>2. io.op = "compact" /\ ~broken
  <2>1. io.op = "compact"
    BY DEF CompactSync, CompactRename, ReopenFails, Rename
  <2> QED BY <2>1, NotBroken
<1>3. ~tmpTorn /\ Above(tmp \o io.queue, k) = Above(node.wal, k)
  BY <1>2 DEF Kept
<1>4. CASE CompactSync
  <2>1. io.queue # <<>> /\ tmp' = Append(tmp, Head(io.queue))
    BY <1>1, <1>3, <1>4 DEF CompactSync, StageFits, After
  <2>2. /\ io' = [io EXCEPT !.stage = "start", !.queue = Tail(@)]
        /\ node' = node /\ tmpTorn' = tmpTorn /\ broken' = broken /\ acked' = acked
    BY <1>4 DEF CompactSync
  <2>3. io'.op = "compact" /\ io'.queue = Tail(io.queue)
    BY <1>1, <1>2, <2>2 DEF Io
  <2>4. tmp' \o io'.queue = tmp \o io.queue
    <3>1. Append(tmp, Head(io.queue)) \o Tail(io.queue) = tmp \o io.queue
      BY <1>1, <2>1, MoveHead
    <3> QED BY <2>1, <2>3, <3>1
  <2> QED BY <1>2, <1>3, <2>2, <2>3, <2>4 DEF Kept, Allowed
<1>5. CASE CompactRename \/ ReopenFails
  <2>1. Rename
    BY <1>5 DEF CompactRename, ReopenFails
  <2>2. node'.wal = tmp /\ node'.snapshot = node.snapshot
    BY <1>1, <1>5 DEF CompactRename, ReopenFails, Node
  <2>3. io'.op = "idle" /\ broken' = broken /\ acked' = acked /\ io.queue = <<>>
    BY <2>1, IoTypes DEF Rename
  <2>4. Above(tmp, k) = Above(node.wal, k)
    <3>1. tmp \o <<>> = tmp
      BY <1>1
    <3> QED BY <1>3, <2>3, <3>1
  <2>5. ASSUME NEW e \in acked' PROVE e.Index <= node'.snapshot.index \/ Leads(node'.wal, e)
    <3>1. e \in Entry /\ e.Index \in Nat /\ (e.Index <= k \/ Leads(node.wal, e))
      BY <1>1, <2>3 DEF Kept, Entry
    <3>2. CASE ~(e.Index <= k)
      <4>1. e.Index > k
        BY <1>1, <3>1, <3>2
      <4>2. Leads(tmp, e)
        BY <1>1, <2>4, <3>1, <3>2, <4>1, LeadsAbove
      <4> QED BY <2>2, <4>2
    <3> QED BY <2>2, <3>2
  <2>6. Kept'
    BY <1>2, <2>3, <2>5 DEF Kept
  <2>7. Promised!Forget
    BY <2>2, <2>4, SameOperators DEF Promised!Forget
  <2> QED BY <2>6, <2>7 DEF Allowed, Promised!KeepPromise
<1> QED BY <1>4, <1>5

\* A handler is interrupted: what it leaves is what was there, a record more,
\* or the new snapshot.
LEMMA InterruptKeeps ==
    ASSUME TypeInv, Kept, NEW files \in Remains, Interrupt(files), ~SaveLost(files),
           node'.wal = files.node.wal, node'.snapshot = files.node.snapshot
    PROVE  Kept' /\ Allowed
<1>1. /\ node \in Node /\ node.wal \in Seq(Entry) /\ acked \subseteq Entry
      /\ io.queue \in Seq(Entry) /\ StageFits
  BY DEF TypeInv, StorageTypeOK, Node, Io
<1>2. io'.op = "idle" /\ acked' = acked /\ broken' = files.broken
  BY IoTypes DEF Interrupt
<1>3. ~broken'
  BY <1>2, RemainsCases DEF Kept, SaveLost
<1>4. CASE files.node = node
  BY <1>2, <1>3, <1>4, FilesAlone
<1>5. CASE /\ io.queue # <<>>
           /\ files.node = [node EXCEPT !.wal = After(node.wal, torn, Head(io.queue))]
  <2> DEFINE x == Head(io.queue)
  <2>1. x \in Entry
    BY <1>1, <1>5, HeadTailProperties
  <2>2. node'.snapshot = node.snapshot
    BY <1>1, <1>5 DEF Node
  <2>3. node'.wal = After(node.wal, torn, x)
    BY <1>1, <1>5 DEF Node
  <2> HIDE DEF x
  <2>4. CASE torn
    <3>1. node'.wal = node.wal
      BY <2>3, <2>4 DEF After
    <3> QED BY <1>2, <1>3, <2>2, <3>1, FilesAlone
  <2>5. CASE ~torn
    <3>1. node'.wal = Append(node.wal, x)
      BY <2>3, <2>5 DEF After
    <3>2. ASSUME NEW e \in acked' PROVE e.Index <= node'.snapshot.index \/ Leads(node'.wal, e)
      <4>1. e \in Entry /\ (e.Index <= node.snapshot.index \/ Leads(node.wal, e))
        BY <1>1, <1>2 DEF Kept
      <4> QED BY <1>1, <2>1, <2>2, <3>1, <4>1, LeadsAppend
    <3>3. Kept'
      BY <1>2, <1>3, <3>2 DEF Kept
    <3> QED BY <1>1, <2>1, <2>2, <3>1, <3>3, AppendAllowed
  <2> QED BY <2>4, <2>5
<1>6. CASE io.stage = "written" /\ files.node = [node EXCEPT !.snapshot = io.snapshot]
  <2>1. node'.wal = node.wal /\ node'.snapshot = io.snapshot
    BY <1>1, <1>6 DEF Node
  <2>2. ~Shrinks
    BY <1>6 DEF SaveLost
  <2>3. /\ \A e \in acked' : e.Index <= node'.snapshot.index \/ Leads(node'.wal, e)
        /\ Allowed
    BY <1>2, <2>1, <2>2, SnapshotReplaced
  <2>4. Kept'
    BY <1>2, <1>3, <2>3 DEF Kept
  <2> QED BY <2>3, <2>4
<1> QED BY <1>4, <1>5, <1>6, RemainsCases

\* Failures and restarts.
LEMMA FailuresKeep ==
    ASSUME TypeInv, Dead, Kept, ~spoiled', Crash \/ CallFails \/ Start
    PROVE  Kept' /\ Allowed
<1>1. CASE Crash
  <2>1. PICK files \in Remains : /\ Interrupt(files)
                                 /\ node' = OnDisk(files.node)
                                 /\ spoiled' = (spoiled \/ SaveLost(files))
    BY <1>1 DEF Crash
  <2>2. node'.wal = files.node.wal /\ node'.snapshot = files.node.snapshot
    BY <2>1 DEF OnDisk
  <2> QED BY <2>1, <2>2, InterruptKeeps
<1>2. CASE CallFails
  <2>1. PICK files \in Remains : /\ Interrupt(files)
                                 /\ node' = files.node
                                 /\ spoiled' = (spoiled \/ SaveLost(files))
    BY <1>2 DEF CallFails
  <2> QED BY <2>1, InterruptKeeps
<1>3. CASE Start
  <2>1. node'.wal = node.wal /\ node'.snapshot = node.snapshot
    BY <1>3 DEF Start, loadPersistedState, TypeInv, StorageTypeOK, Node
  <2>2. io' = io /\ broken' = broken /\ acked' = acked /\ tmp' = tmp /\ tmpTorn' = tmpTorn
    BY <1>3 DEF Start, fileVars
  <2>3. io.op = "idle"
    BY <1>3, IoTypes DEF Start, Dead
  <2> QED BY <2>1, <2>2, <2>3, NotBroken, FilesAlone
<1> QED BY <1>1, <1>2, <1>3

-----------------------------------------------------------------------------
(* The theorems.                                                           *)

StorageInv == TypeInv /\ Dead /\ (~spoiled => Kept)

\* Damage is for good.
LEMMA SpoiledStays ==
    ASSUME Next, spoiled
    PROVE  spoiled'
<1>1. CASE Handlers
  BY <1>1 DEF Handlers, Propose, HandleAppendEntries, TruncateFails, HandleInstallSnapshot
<1>2. CASE SystemCalls
  BY <1>2 DEF SystemCalls, WriteRecord, AppendSync, AppendClosed, AppendReturns,
              CommitAndSnapshot, SaveOpen, SaveWrite, SaveSync, InstallSync, CompactSync,
              CompactRename, ReopenFails, Rename
<1>3. CASE Crash \/ CallFails \/ Start
  BY <1>3 DEF Crash, CallFails, Start
<1> QED BY <1>1, <1>2, <1>3 DEF Next

\* One step: the types, and what the files hold unless they are damaged.
LEMMA StorageStep ==
    ASSUME StorageInv, Next
    PROVE  StorageInv' /\ (~spoiled' => ~spoiled /\ Allowed)
<1>1. TypeInv /\ Dead
  BY DEF StorageInv
<1>2. TypeInv'
  <2>1. CASE SystemCalls
    BY <1>1, <2>1, AppendCallsType, SaveCallsType, CompactCallsType DEF SystemCalls
  <2> QED BY <1>1, <2>1, HandlersType, FailuresType DEF Next
<1>3. ASSUME ~spoiled' PROVE ~spoiled /\ Kept' /\ Allowed
  <2>1. ~spoiled /\ Kept
    BY <1>3, SpoiledStays DEF StorageInv
  <2>2. CASE SystemCalls
    BY <1>1, <1>3, <2>1, <2>2, AppendCallsKeep, SaveCallsKeep, CompactCallsKeep DEF SystemCalls
  <2> QED BY <1>1, <1>3, <2>1, <2>2, HandlersKeep, FailuresKeep DEF Next
<1> QED BY <1>1, <1>2, <1>3, DeadKept DEF StorageInv

LEMMA StorageStart ==
    ASSUME Init
    PROVE  StorageInv
<1>1. node \in Node /\ io \in Io /\ io.stage = "start" /\ io.op = "idle"
  BY EmptyNodeType, IoTypes DEF Init
<1>2. tmp \in Seq(Entry) /\ acked \subseteq Entry
  BY DEF Init
<1>3. TypeInv
  BY <1>1, <1>2 DEF Init, TypeInv, StorageTypeOK, StageFits
<1>4. Kept
  BY <1>1 DEF Init, Kept
<1> QED BY <1>3, <1>4 DEF StorageInv, Dead, Init

LEMMA StorageStutter ==
    ASSUME StorageInv, UNCHANGED vars
    PROVE  StorageInv'
BY DEF vars, fileVars, faultVars, StorageInv, Dead, Kept, TypeInv, StorageTypeOK, StageFits

LEMMA StorageInvariant == Spec => []StorageInv
BY StorageStart, StorageStep, StorageStutter, PTL DEF Spec

\* Memory, files and the handler under way keep their types, whatever fails
\* (StorageTypeOK).
THEOREM StorageTypeCorrect == Spec => []StorageTypeOK
<1>1. StorageInv => StorageTypeOK
  BY DEF StorageInv, TypeInv
<1> QED BY <1>1, StorageInvariant, PTL

\* Whatever system call the process dies at and whatever call fails, a restart
\* finds every entry whose wal.Append returned nil, unless the files were
\* damaged in one of the ways that spoiled records (AcknowledgedFound).
THEOREM AcknowledgedFoundAlways == Spec => []AcknowledgedFound
<1>1. StorageInv => AcknowledgedFound
  BY LeadsFound DEF StorageInv, Kept, AcknowledgedFound, AppendIsDurable, Found
<1> QED BY <1>1, StorageInvariant, PTL

\* The system calls implement the atomic, durable log and snapshot of
\* DurableLog (ImplementsDurableLog): every step of the files is one of its
\* operations, is invisible, or voids the promise.
THEOREM StorageImplementsDurableLog == Spec => ImplementsDurableLog
<1>1. Init => Promised!DLInit
  BY SameOperators DEF Init, Promised!DLInit, EmptyNode, OnDisk
<1>2. StorageInv /\ [Next]_vars => [Promised!DLNext]_(Promised!dlVars)
  <2>1. ASSUME StorageInv, Next PROVE [Promised!DLNext]_(Promised!dlVars)
    <3>1. spoiled' \in BOOLEAN /\ spoiled \in BOOLEAN
      BY <2>1, StorageStep DEF StorageInv, TypeInv, StorageTypeOK
    <3>2. CASE spoiled'
      BY <3>2 DEF Promised!DLNext
    <3>3. CASE ~spoiled'
      <4>1. ~spoiled /\ Allowed
        BY <2>1, <3>3, StorageStep
      <4> QED BY <3>1, <3>3, <4>1 DEF Allowed, Promised!DLNext, Promised!dlVars
    <3> QED BY <3>2, <3>3
  <2>2. ASSUME UNCHANGED vars PROVE UNCHANGED Promised!dlVars
    BY <2>2 DEF vars, Promised!dlVars
  <2> QED BY <2>1, <2>2
<1> QED BY <1>1, <1>2, StorageInvariant, PTL DEF ImplementsDurableLog, Promised!DLSpec, Spec

=============================================================================
