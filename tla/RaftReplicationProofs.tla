----------------------- MODULE RaftReplicationProofs -----------------------
(*****************************************************************************)
(* Proofs about replication in undisturbed executions: goroutines run in     *)
(* time, nobody kills a process and the log stays below the snapshot         *)
(* threshold.  There a leader keeps its term, no heartbeat slices its log    *)
(* out of range, and logs match.                                             *)
(*****************************************************************************)
EXTENDS RaftLeadershipProofs

Undisturbed == ~LateWork /\ MaxCrashes = 0 /\ MaxIndex < SnapshotThreshold

\* A log that has never been compacted.
Whole(n) ==
    /\ n.logOffset = 0
    /\ n.lastSnapshotIndex = 0
    /\ Len(n.log) <= MaxIndex
    /\ Contiguous(n)

\* Index and position are the same in such a log.
LEMMA WholeFacts ==
    ASSUME NEW n \in Node, Whole(n)
    PROVE  /\ n.log \in Seq(Entry) /\ Len(n.log) \in Nat /\ DOMAIN n.log = 1 .. Len(n.log)
           /\ \A k \in DOMAIN n.log : n.log[k] \in Entry /\ n.log[k].Index = k
           /\ \A k : HasEntry(n, k) <=> k \in DOMAIN n.log
           /\ \A k \in DOMAIN n.log : EntryAt(n, k) = n.log[k]
           /\ LastIndex(n) = Len(n.log)
           /\ \A k \in Int : toSlicePos(n, k) = k - 1
<1>1. n.log \in Seq(Entry) /\ n.logOffset = 0
  BY DEF Node, Whole
<1>2. Len(n.log) \in Nat /\ DOMAIN n.log = 1 .. Len(n.log)
  BY <1>1
<1>3. \A k \in DOMAIN n.log : n.log[k] \in Entry /\ n.log[k].Index = k
  BY <1>1, <1>2 DEF Whole, Contiguous
<1>4. \A k : HasEntry(n, k) <=> k \in DOMAIN n.log
  BY <1>1, <1>2 DEF HasEntry
<1>5. \A k \in Int : toSlicePos(n, k) = k - 1
  BY <1>1 DEF toSlicePos
<1>6. \A k \in DOMAIN n.log : EntryAt(n, k) = n.log[k]
  <2> TAKE k \in DOMAIN n.log
  <2>1. k \in Int /\ toSlicePos(n, k) + 1 = k
    BY <1>2, <1>5
  <2> QED BY <2>1 DEF EntryAt
<1>7. LastIndex(n) = Len(n.log)
  <2>1. CASE n.log = <<>>
    BY <1>1, <2>1 DEF LastIndex
  <2>2. CASE n.log # <<>>
    <3>1. Len(n.log) \in DOMAIN n.log
      BY <1>1, <1>2, <2>2, EmptySeq
    <3> QED BY <1>3, <2>2, <3>1 DEF LastIndex
  <2> QED BY <2>1, <2>2
<1> QED BY <1>1, <1>2, <1>3, <1>4, <1>5, <1>6, <1>7

\* Below the threshold maybeSnapshot does nothing.
LEMMA NothingToSnapshot ==
    ASSUME Undisturbed, NEW n \in Node, Whole(n)
    PROVE  maybeSnapshot(n) = n
<1>1. n.lastApplied \in Nat /\ n.lastSnapshotIndex = 0
  BY DEF Node, Whole
<1>2. SnapshotDue(n) => n.lastApplied >= SnapshotThreshold
  BY <1>1 DEF SnapshotDue
<1>3. HasEntry(n, n.lastApplied) => n.lastApplied <= MaxIndex
  BY WholeFacts, BoundAssumption DEF Whole
<1>4. ~(SnapshotDue(n) /\ HasEntry(n, n.lastApplied))
  BY <1>1, <1>2, <1>3, ThresholdAssumption, BoundAssumption DEF Undisturbed
<1> QED BY <1>4 DEF maybeSnapshot

\* m has the log of n; only what is committed and applied may differ.
SameLog(n, m) ==
    /\ m.log = n.log /\ m.wal = n.wal
    /\ m.logOffset = n.logOffset /\ m.lastSnapshotIndex = n.lastSnapshotIndex
    /\ m.snapshot = n.snapshot

\* m has the committed and applied data of n; the log may differ.
SameData(n, m) ==
    /\ m.commitIndex = n.commitIndex /\ m.lastApplied = n.lastApplied /\ m.data = n.data
    /\ m.logOffset = n.logOffset /\ m.lastSnapshotIndex = n.lastSnapshotIndex
    /\ m.snapshot = n.snapshot

\* The commit index of a follower after FollowCommit.
FollowedIndex(n, LeaderCommit) ==
    IF LeaderCommit > n.commitIndex
    THEN IF LeaderCommit < LastIndex(n) THEN LeaderCommit ELSE LastIndex(n)
    ELSE n.commitIndex

\* Committing leaves the log alone.
LEMMA CommitSameLog ==
    ASSUME NEW n \in Node
    PROVE  /\ SameLog(n, ApplyCommitted(n)) /\ ApplyCommitted(n).commitIndex = n.commitIndex
           /\ \A to \in Nat : /\ [n EXCEPT !.commitIndex = to] \in Node
                              /\ SameLog(n, ApplyCommitted([n EXCEPT !.commitIndex = to]))
           /\ \A c \in Nat : /\ FollowedIndex(n, c) \in Nat
                             /\ FollowCommit(n, c) =
                                   ApplyCommitted([n EXCEPT !.commitIndex = FollowedIndex(n, c)])
                             /\ SameLog(n, FollowCommit(n, c))
<1>1. ASSUME NEW m \in Node
      PROVE  SameLog(m, ApplyCommitted(m)) /\ ApplyCommitted(m).commitIndex = m.commitIndex
  <2> DEFINE d == ApplyAll(m.data, m.log, {p \in DOMAIN m.log :
                              m.logOffset + p \in m.lastApplied + 1 .. m.commitIndex})
  <2>1. ApplyCommitted(m) = IF m.lastApplied < m.commitIndex
                            THEN [m EXCEPT !.lastApplied = m.commitIndex, !.data = d]
                            ELSE m
    BY DEF ApplyCommitted
  <2> HIDE DEF d
  <2> QED BY <2>1 DEF SameLog, Node
<1>2. ASSUME NEW to \in Nat
      PROVE  /\ [n EXCEPT !.commitIndex = to] \in Node
             /\ SameLog(n, ApplyCommitted([n EXCEPT !.commitIndex = to]))
  <2> DEFINE m == [n EXCEPT !.commitIndex = to]
  <2>1. m \in Node /\ SameLog(n, m)
    BY DEF Node, SameLog
  <2> HIDE DEF m
  <2>2. SameLog(m, ApplyCommitted(m))
    BY <1>1, <2>1
  <2>3. SameLog(n, ApplyCommitted(m))
    BY <2>1, <2>2 DEF SameLog
  <2> QED BY <2>1, <2>3 DEF m
<1>3. ASSUME NEW c \in Nat
      PROVE  /\ FollowedIndex(n, c) \in Nat
             /\ FollowCommit(n, c) =
                   ApplyCommitted([n EXCEPT !.commitIndex = FollowedIndex(n, c)])
  BY LastType DEF FollowedIndex, FollowCommit, Node
<1> QED BY <1>1, <1>2, <1>3

\* Appending leaves the committed data alone.
LEMMA AppendSameData ==
    ASSUME NEW n \in Node, NEW entries
    PROVE  SameData(n, AppendAll(n, entries)) /\ AppendAll(n, entries).log = n.log \o entries
<1> DEFINE a == n.log \o entries
           b == n.wal \o entries
<1>1. AppendAll(n, entries) = [n EXCEPT !.log = a, !.wal = b]
  BY DEF AppendAll
<1> HIDE DEF a, b
<1> QED BY <1>1 DEF SameData, Node, a

\* So does truncating.
LEMMA TruncateSameData ==
    ASSUME NEW n \in Node, NEW index
    PROVE  /\ SameData(n, TruncateLog(n, index))
           /\ TruncateLog(n, index).log = SubSeq(n.log, 1, toSlicePos(n, index))
<1> DEFINE a == SubSeq(n.log, 1, toSlicePos(n, index))
<1>1. TruncateLog(n, index) = [n EXCEPT !.log = a]
  BY DEF TruncateLog
<1> HIDE DEF a
<1> QED BY <1>1 DEF SameData, Node, a

\* m is the log s up to position at - 1, and from there on entries from the
\* k-th on.
Joined(m, s, at, entries, k) ==
    /\ Len(m) = at - 1 + (Len(entries) - k + 1)
    /\ \A q \in 1 .. at - 1 : m[q] = s[q]
    /\ \A q \in at .. Len(m) : m[q] = entries[k + q - at]

\* What StoreEntries makes of a log.
LEMMA StoredLog ==
    ASSUME NEW n \in Node, Whole(n), NEW entries \in Seq(Entry), NEW k \in 1 .. Len(entries) + 1,
           k \in DOMAIN entries =>
              IF Conflicts(n, entries, k) THEN CanTruncateAfter(n.wal, entries[k].Index - 1)
              ELSE LinesUp(n, entries, k)
    PROVE  LET m == StoreEntries(n, entries, k)
           IN  /\ SameData(n, m)
               /\ k = Len(entries) + 1 => m.log = n.log
               /\ k \in DOMAIN entries =>
                     /\ entries[k].Index \in 1 .. Len(n.log) + 1
                     /\ Joined(m.log, n.log, entries[k].Index, entries, k)
<1> DEFINE at == entries[k].Index
           w == TruncateAfter(n.wal, at - 1)
           short == TruncateLog(n, at)
           cut == IF Conflicts(n, entries, k) THEN [short EXCEPT !.wal = w] ELSE n
           new == SubSeq(entries, k, Len(entries))
           m == StoreEntries(n, entries, k)
<1>1. n.log \in Seq(Entry) /\ Len(n.log) \in Nat /\ DOMAIN n.log = 1 .. Len(n.log)
  BY WholeFacts
<1>2. k \in Nat /\ Len(entries) \in Nat /\ DOMAIN entries = 1 .. Len(entries)
  OBVIOUS
<1>3. /\ new \in Seq(Entry) /\ Len(new) = Len(entries) - k + 1
      /\ \A q \in 1 .. Len(entries) - k + 1 : new[q] = entries[k + q - 1]
  <2>1. k - 1 \in 0 .. Len(entries) /\ k = (k - 1) + 1
    BY <1>2
  <2> DEFINE j == k - 1
  <2>2. /\ SubSeq(entries, j + 1, Len(entries)) \in Seq(Entry)
        /\ Len(SubSeq(entries, j + 1, Len(entries))) = Len(entries) - j
        /\ \A p \in 1 .. Len(entries) - j : SubSeq(entries, j + 1, Len(entries))[p] = entries[j + p]
    <3> HIDE DEF j
    <3> QED BY <2>1, Suffix DEF j
  <2>3. SubSeq(entries, j + 1, Len(entries)) = new /\ Len(entries) - j = Len(entries) - k + 1
    BY <1>2, <2>1
  <2>4. \A q \in 1 .. Len(entries) - k + 1 : j + q = k + q - 1
    BY <1>2
  <2> HIDE DEF j, new
  <2> QED BY <2>2, <2>3, <2>4
<1>4. short.wal = n.wal
  BY DEF TruncateLog, Node
<1>5. m = AppendAll(cut, new)
  BY <1>4 DEF StoreEntries
<1>6. ASSUME k \in DOMAIN entries
      PROVE  /\ at \in 1 .. Len(n.log) + 1
             /\ Conflicts(n, entries, k) <=> at <= Len(n.log)
  <2>1. at \in Nat
    <3>1. entries[k] \in Entry
      BY <1>6
    <3> QED BY <3>1 DEF Entry
  <2>2. Conflicts(n, entries, k) => at \in 1 .. Len(n.log)
    BY <1>1, WholeFacts DEF Conflicts
  <2>3. ~Conflicts(n, entries, k) => at = Len(n.log) + 1
    BY <1>1, <1>6 DEF LinesUp, Whole
  <2> QED BY <1>1, <2>1, <2>2, <2>3
<1>7. cut \in Node /\ SameData(n, cut)
  <2>1. CASE Conflicts(n, entries, k)
    <3>1. k \in DOMAIN entries /\ HasEntry(n, at)
      BY <2>1 DEF Conflicts
    <3>2. short \in Node /\ SameData(n, short)
      BY <3>1, TruncateLogKeeps, TruncateSameData
    <3>3. n.wal \in Seq(Entry)
      BY DEF Node
    <3>4. w \in Seq(Entry)
      BY <2>1, <3>1, <3>3, TruncateAfterType
    <3> HIDE DEF short, w
    <3>5. cut = [short EXCEPT !.wal = w]
      BY <2>1
    <3> QED BY <3>2, <3>4, <3>5 DEF SameData, Node
  <2>2. CASE ~Conflicts(n, entries, k)
    BY <2>2 DEF SameData
  <2> QED BY <2>1, <2>2
<1>8. ASSUME k \in DOMAIN entries
      PROVE  /\ cut.log \in Seq(Entry) /\ Len(cut.log) = at - 1
             /\ \A q \in 1 .. at - 1 : cut.log[q] = n.log[q]
  <2>1. CASE Conflicts(n, entries, k)
    <3>0. at \in 1 .. Len(n.log) /\ at \in Int
      BY <1>1, <1>6, <1>8, <2>1
    <3>1. at \in 1 .. Len(n.log) /\ toSlicePos(n, at) = at - 1
      BY <3>0, WholeFacts
    <3>2. short.log = SubSeq(n.log, 1, at - 1)
      BY <3>1, TruncateSameData
    <3>3. short \in Node
      BY <1>8, <2>1, TruncateLogKeeps DEF Conflicts
    <3>4. cut.log = SubSeq(n.log, 1, at - 1)
      <4> HIDE DEF w, short
      <4> QED BY <2>1, <3>2, <3>3 DEF Node
    <3>5. at - 1 \in 0 .. Len(n.log)
      BY <1>1, <3>1
    <3> HIDE DEF cut, at
    <3> QED BY <1>1, <3>4, <3>5, Prefix
  <2>2. CASE ~Conflicts(n, entries, k)
    <3>1. at = Len(n.log) + 1
      BY <1>8, <2>2 DEF LinesUp, Whole
    <3>2. cut.log = n.log
      BY <2>2
    <3> HIDE DEF cut, at
    <3> QED BY <1>1, <3>1, <3>2
  <2> QED BY <2>1, <2>2
<1>9. SameData(n, m) /\ m.log = cut.log \o new
  <2> HIDE DEF cut, new, m
  <2> QED BY <1>5, <1>7, AppendSameData DEF SameData
<1>10. ASSUME k = Len(entries) + 1 PROVE m.log = n.log
  <2>1. ~Conflicts(n, entries, k)
    BY <1>2, <1>10 DEF Conflicts
  <2>2. cut = n /\ new = <<>>
    BY <1>2, <1>3, <1>10, <2>1, EmptySeq
  <2> HIDE DEF cut, new, m
  <2> QED BY <1>1, <1>9, <2>2, ConcatEmptySeq
<1>11. ASSUME k \in DOMAIN entries PROVE Joined(m.log, n.log, at, entries, k)
  <2>1. at \in Nat /\ at >= 1
    BY <1>6, <1>11
  <2>2. cut.log \in Seq(Entry) /\ Len(cut.log) = at - 1 /\ new \in Seq(Entry)
        /\ \A q \in 1 .. at - 1 : cut.log[q] = n.log[q]
    BY <1>3, <1>8, <1>11
  <2> HIDE DEF cut, new, m, at
  <2>3. /\ Len(m.log) = at - 1 + Len(new)
        /\ \A q \in 1 .. at - 1 + Len(new) :
              m.log[q] = IF q <= at - 1 THEN cut.log[q] ELSE new[q - (at - 1)]
    <3> DEFINE a == cut.log
               b == m.log
    <3>1. a \in Seq(Entry) /\ new \in Seq(Entry) /\ b = a \o new /\ Len(a) = at - 1
      BY <1>9, <2>2
    <3> HIDE DEF a, b
    <3>2. /\ Len(b) = Len(a) + Len(new)
          /\ \A q \in 1 .. Len(a) + Len(new) : b[q] = IF q <= Len(a) THEN a[q] ELSE new[q - Len(a)]
      BY <3>1, ConcatProperties
    <3> QED BY <3>1, <3>2 DEF a, b
  <2>4. \A q \in 1 .. at - 1 : m.log[q] = n.log[q]
    <3> TAKE q \in 1 .. at - 1
    <3>1. Len(new) \in Nat /\ q \in 1 .. at - 1 + Len(new) /\ q <= at - 1
      BY <1>3, <2>1
    <3> QED BY <2>2, <2>3, <3>1
  <2>5. ASSUME NEW q \in at .. Len(m.log) PROVE m.log[q] = entries[k + q - at]
    <3>1. m.log[q] = new[q - (at - 1)]
      BY <1>2, <1>3, <2>1, <2>3
    <3>2. q - (at - 1) \in 1 .. Len(entries) - k + 1 /\ k + (q - (at - 1)) - 1 = k + q - at
      BY <1>2, <1>3, <2>1, <2>3
    <3> QED BY <1>3, <3>1, <3>2
  <2> QED BY <1>3, <2>3, <2>4, <2>5 DEF Joined
<1> QED BY <1>6, <1>9, <1>10, <1>11

-----------------------------------------------------------------------------
\* AppendAccept stores entries from the k-th on.
Accepts(c, k) ==
    LET n == node[c.to]
    IN  /\ k \in 1 .. Len(c.Entries) + 1
        /\ PrevMatches(n, c)
        /\ FirstNew(n, c.Entries, k)
        /\ k \in DOMAIN c.Entries =>
              IF Conflicts(n, c.Entries, k)
              THEN CanTruncateAfter(n.wal, c.Entries[k].Index - 1)
              ELSE LinesUp(n, c.Entries, k)

\* AppendTruncateFails cuts the log before the k-th entry.
Cuts(c, k) ==
    LET n == node[c.to]
    IN  /\ k \in 1 .. Len(c.Entries) + 1
        /\ PrevMatches(n, c)
        /\ FirstNew(n, c.Entries, k)
        /\ Conflicts(n, c.Entries, k)

\* How a step may change node i.
NodeStep(i) ==
    \/ node'[i] = node[i]
    \/ \E c \in UnderWay :
          /\ becomeLeader(c) /\ c.from = i
          /\ node'[i] = AppendAll(node[i], <<NewEntry(node[i], currentTerm[i], NoOp)>>)
    \/ \E command \in Command :
          /\ Propose(i, command)
          /\ node'[i] = AppendAll(node[i], <<NewEntry(node[i], currentTerm[i], command)>>)
    \/ \E c \in UnderWay :
          /\ AppendSucceeded(c) /\ c.from = i /\ c.lastSent > 0
          /\ node'[i] = tryAdvanceCommitIndex(node[i], matchIndex'[i], currentTerm[i])
    \/ \E c \in UnderWay :
          /\ AppendTruncateFails(c) /\ c.to = i
          /\ \E k : Cuts(c, k) /\ node'[i] = TruncateLog(node[i], c.Entries[k].Index)
    \/ \E c \in UnderWay :
          /\ AppendAccept(c) /\ c.to = i
          /\ \E k : /\ Accepts(c, k)
                    /\ node'[i] = maybeSnapshot(FollowCommit(StoreEntries(node[i], c.Entries, k),
                                                             c.LeaderCommit))
    \/ \E c \in UnderWay : HandleInstallSnapshot(c)
    \/ Die(i) \/ Start(i)

\* Every step changes the nodes in one of these ways.
LEMMA NodeSteps ==
    ASSUME TypeOK, Next
    PROVE  \A i \in Server : NodeStep(i)
<1> SUFFICES ASSUME NEW i \in Server PROVE NodeStep(i)
  OBVIOUS
<1>0. node \in [Server -> Node]
  BY DEF TypeOK
<1>1. CASE UNCHANGED node
  BY <1>1 DEF NodeStep
<1>2. ASSUME NEW j \in Server, NEW n, node' = [node EXCEPT ![j] = n], j # i PROVE NodeStep(i)
  BY <1>0, <1>2 DEF NodeStep
<1>3. \A n : node' = [node EXCEPT ![i] = n] => node'[i] = n
  BY <1>0
<1>4. \A c \in UnderWay : c.from \in Server /\ c.to \in Server
  BY CallKind DEF TypeOK
<1>5. ASSUME NEW c \in UnderWay, becomeLeader(c) PROVE NodeStep(i)
  <2>1. node' = [node EXCEPT ![c.from] =
                    AppendAll(node[c.from], <<NewEntry(node[c.from], currentTerm[c.from], NoOp)>>)]
    BY <1>5 DEF becomeLeader
  <2> QED BY <1>2, <1>3, <1>4, <1>5, <2>1, Zenon DEF NodeStep
<1>6. ASSUME NEW j \in Server, NEW command \in Command, Propose(j, command) PROVE NodeStep(i)
  <2>1. node' = [node EXCEPT ![j] = AppendAll(node[j], <<NewEntry(node[j], currentTerm[j], command)>>)]
    BY <1>6 DEF Propose
  <2> QED BY <1>2, <1>3, <1>6, <2>1, Zenon DEF NodeStep
<1>7. ASSUME NEW c \in UnderWay, AppendSucceeded(c) PROVE NodeStep(i)
  <2>1. CASE c.lastSent > 0
    <3>1. node' = [node EXCEPT ![c.from] =
                      tryAdvanceCommitIndex(node[c.from], matchIndex'[c.from], currentTerm[c.from])]
      BY <1>7, <2>1 DEF AppendSucceeded
    <3> QED BY <1>2, <1>3, <1>4, <1>7, <2>1, <3>1, Zenon DEF NodeStep
  <2>2. CASE ~(c.lastSent > 0)
    BY <1>1, <1>7, <2>2 DEF AppendSucceeded
  <2> QED BY <2>1, <2>2
<1>8. ASSUME NEW c \in UnderWay, AppendTruncateFails(c) PROVE NodeStep(i)
  <2>1. PICK k : /\ Cuts(c, k)
                 /\ node' = [node EXCEPT ![c.to] = TruncateLog(node[c.to], c.Entries[k].Index)]
    BY <1>8 DEF AppendTruncateFails, Cuts
  <2> QED BY <1>2, <1>3, <1>4, <1>8, <2>1, Zenon DEF NodeStep
<1>9. ASSUME NEW c \in UnderWay, AppendAccept(c) PROVE NodeStep(i)
  <2>1. PICK k : /\ Accepts(c, k)
                 /\ node' = [node EXCEPT ![c.to] =
                       maybeSnapshot(FollowCommit(StoreEntries(node[c.to], c.Entries, k),
                                                  c.LeaderCommit))]
    BY <1>9 DEF AppendAccept, Accepts
  <2> QED BY <1>2, <1>3, <1>4, <1>9, <2>1, Zenon DEF NodeStep
<1>10. ASSUME NEW j \in Server, Die(j) PROVE NodeStep(i)
  <2>1. node' = [node EXCEPT ![j] = OnDisk(node[j])]
    BY <1>10 DEF Die
  <2> QED BY <1>2, <1>10, <2>1, Zenon DEF NodeStep
<1>11. ASSUME NEW j \in Server, Start(j) PROVE NodeStep(i)
  <2>1. node' = [node EXCEPT ![j] = loadPersistedState(node[j])]
    BY <1>11 DEF Start
  <2> QED BY <1>2, <1>11, <2>1, Zenon DEF NodeStep
<1>12. CASE Election
  <2>1. UNCHANGED node \/ \E c \in UnderWay : becomeLeader(c)
    BY <1>12, Zenon DEF Election, TimerFires, becomeCandidate, HandleRequestVote, VoteReply,
                        VoteStepDown
  <2> QED BY <1>1, <1>5, <2>1
<1>13. CASE Replication
  <2>1. \/ UNCHANGED node
        \/ \E j \in Server : Die(j) \/ \E command \in Command : Propose(j, command)
        \/ \E c \in UnderWay : AppendTruncateFails(c) \/ AppendAccept(c) \/ AppendSucceeded(c)
    BY <1>13, Zenon DEF Replication, HeartBeat, HeartBeatPanic, HeartBeatExit,
                SendAppendEntries, AppendStale, AppendMismatch, AppendGap,
                AppendReplyStepDown, AppendFailed
  <2> QED BY <1>1, <1>6, <1>7, <1>8, <1>9, <1>10, <2>1
<1>14. CASE SnapshotTransfer
  <2>1. UNCHANGED node \/ \E c \in UnderWay : HandleInstallSnapshot(c)
    BY <1>14 DEF SnapshotTransfer, SendInstallSnapshot, SnapshotStale, SnapshotReply
  <2> QED BY <1>1, <2>1 DEF NodeStep
<1>15. CASE Failure
  <2>1. UNCHANGED node \/ \E j \in Server : Die(j) \/ Start(j)
    BY <1>15 DEF Failure, Crash, Lose
  <2> QED BY <1>1, <1>10, <1>11, <2>1
<1> QED BY <1>12, <1>13, <1>14, <1>15 DEF Next

\* The call d is the answer to c, or the answer c after its goroutine has
\* stepped down.
Answers(c, d) ==
    /\ c.kind = "append" /\ d.from = c.from /\ d.to = c.to /\ d.Term = c.Term
    /\ \/ /\ c.at = "request"
          /\ d.lastSent = IF c.Entries = <<>> THEN 0 ELSE c.Entries[Len(c.Entries)].Index
          /\ \/ AppendStale(c) /\ ~d.Success /\ d.ConflictIndex = 0
             \/ /\ AppendMismatch(c) \/ AppendTruncateFails(c)
                /\ ~d.Success /\ d.ConflictIndex = 0 /\ d.replyTerm = c.Term
             \/ /\ AppendGap(c) /\ ~d.Success /\ d.replyTerm = c.Term
                /\ d.ConflictIndex = node[c.to].logOffset + Len(node[c.to].log) + 1
             \/ AppendAccept(c) /\ d.Success /\ d.ConflictIndex = 0 /\ d.replyTerm = c.Term
          /\ d.at = "reply"
       \/ /\ c.at = "reply" /\ c.replyTerm > c.Term
          /\ d.Success = c.Success /\ d.ConflictIndex = c.ConflictIndex
          /\ d.lastSent = c.lastSent /\ d.at = "stepped"

\* Every new answer answers a call.
LEMMA NewAnswer ==
    ASSUME TypeOK, Next, NEW d \in UnderWay', d.kind = "append", d.at \in {"reply", "stepped"}
    PROVE  d \in UnderWay \/ \E c \in UnderWay : Answers(c, d)
<1> DEFINE Goal == d \in UnderWay \/ \E c \in UnderWay : Answers(c, d)
           Other(a) == a.kind # "append" \/ a.at \notin {"reply", "stepped"}
<1>1. ASSUME UNCHANGED calls PROVE Goal
  BY <1>1 DEF UnderWay
<1>2. ASSUME NEW c, Finish(c) PROVE Goal
  BY <1>2, CallsChange
<1>3. ASSUME NEW c, NEW a, Continue(c, a) \/ Reply(c, a), Other(a) PROVE Goal
  <2>1. d \in UnderWay \/ d = a
    BY <1>3, CallsChange
  <2> QED BY <1>3, <2>1
<1>4. ASSUME NEW i, Die(i) PROVE Goal
  <2> DEFINE left == {c \in UnderWay : c.from = i => c.at = "request"}
  <2>1. calls' = [c \in left |-> calls[c]]
    BY <1>4 DEF Die
  <2>2. UnderWay' = left
    BY <2>1 DEF UnderWay, BagToSet
  <2> QED BY <2>2
<1>5. ASSUME NEW i \in Server, becomeCandidate(i) PROVE Goal
  <2>1. UnderWay' = UnderWay \cup RequestVotes(i, currentTerm[i] + 1, Len(votes) + 1)
    BY <1>5, CallsChange DEF becomeCandidate
  <2>2. \A a \in RequestVotes(i, currentTerm[i] + 1, Len(votes) + 1) : a.kind = "vote"
    BY DEF RequestVotes
  <2> QED BY <2>1, <2>2
<1>6. ASSUME NEW c \in UnderWay, HandleRequestVote(c) PROVE Goal
  <2>1. \E a : Reply(c, a) /\ a.kind = "vote"
    BY <1>6 DEF HandleRequestVote
  <2> QED BY <1>3, <2>1
<1>7. ASSUME NEW c \in UnderWay, VoteReply(c) PROVE Goal
  <2>1. ASSUME NEW at PROVE Other([c EXCEPT !.at = at])
    <3>1. c \in RequestVoteAnswer
      BY <1>7, CallKind DEF VoteReply, TypeOK
    <3> QED BY <3>1 DEF RequestVoteAnswer
  <2> HIDE DEF Other
  <2> QED BY <1>2, <1>3, <1>7, <2>1 DEF VoteReply
<1>8. ASSUME NEW i \in Server, HeartBeat(i) PROVE Goal
  <2>1. PICK started \in SUBSET Spawned(i) : calls' = calls (+) SetToBag(started)
    BY <1>8 DEF HeartBeat
  <2>2. UnderWay' = UnderWay \cup started
    BY <2>1, CallsChange
  <2>3. \A p : SnapshotFor(i, p).at = "spawned" /\ AppendFor(i, p).at = "spawned"
    BY DEF SnapshotFor, AppendFor
  <2> QED BY <2>1, <2>2, <2>3 DEF Spawned
<1>9. ASSUME NEW c \in UnderWay, SendAppendEntries(c) PROVE Goal
  <2>1. PICK seen \in SUBSET Shown(c) : Continue(c, Sent(c, seen))
    BY <1>9, Zenon DEF SendAppendEntries, Sent, Shown
  <2>2. c \in AppendEntriesCall
    BY <1>9, CallKind DEF SendAppendEntries, TypeOK
  <2>3. Sent(c, seen).at = "request"
    BY <2>2 DEF Sent, AppendEntriesCall
  <2> QED BY <1>3, <2>1, <2>3
<1>10. ASSUME NEW c \in UnderWay, NEW term, NEW success, NEW conflict, c.kind = "append",
              AppendReply(c, term, success, conflict)
       PROVE  \/ d \in UnderWay
              \/ /\ d.from = c.from /\ d.to = c.to /\ d.Term = c.Term /\ d.at = "reply"
                 /\ d.lastSent = IF c.Entries = <<>> THEN 0 ELSE c.Entries[Len(c.Entries)].Index
                 /\ d.replyTerm = term /\ d.Success = success /\ d.ConflictIndex = conflict
  <2>1. PICK a : /\ Reply(c, a)
                 /\ a.from = c.from /\ a.to = c.to /\ a.Term = c.Term /\ a.at = "reply"
                 /\ a.lastSent = IF c.Entries = <<>> THEN 0 ELSE c.Entries[Len(c.Entries)].Index
                 /\ a.replyTerm = term /\ a.Success = success /\ a.ConflictIndex = conflict
    BY <1>10 DEF AppendReply
  <2> QED BY <2>1, CallsChange
<1>11. ASSUME NEW c \in UnderWay, AppendReplyStepDown(c) PROVE Goal
  <2> DEFINE a == [c EXCEPT !.at = "stepped"]
  <2>1. c \in AppendEntriesAnswer /\ Continue(c, a)
    BY <1>11, CallKind DEF AppendReplyStepDown, TypeOK
  <2>2. /\ a.from = c.from /\ a.to = c.to /\ a.Term = c.Term /\ a.at = "stepped"
        /\ a.Success = c.Success /\ a.ConflictIndex = c.ConflictIndex /\ a.lastSent = c.lastSent
    BY <2>1 DEF AppendEntriesAnswer
  <2> HIDE DEF a
  <2>3. d \in UnderWay \/ d = a
    BY <2>1, CallsChange
  <2>4. d = a => Answers(c, d)
    BY <1>11, <2>2 DEF Answers, AppendReplyStepDown
  <2> QED BY <2>3, <2>4
<1>12. ASSUME NEW c \in UnderWay, SendInstallSnapshot(c) PROVE Goal
  <2> DEFINE a == [c EXCEPT !.at = "request", !.snapshot = node[c.from].snapshot]
  <2>1. c \in InstallSnapshotCall /\ Continue(c, a)
    BY <1>12, CallKind DEF SendInstallSnapshot, TypeOK
  <2>2. a.kind = "snapshot"
    BY <2>1 DEF InstallSnapshotCall
  <2> HIDE DEF a
  <2> QED BY <1>3, <2>1, <2>2
<1>13. ASSUME NEW c, NEW term, SnapshotAnswer(c, term) PROVE Goal
  <2>1. \E a : Reply(c, a) /\ a.kind = "snapshot"
    BY <1>13 DEF SnapshotAnswer
  <2> QED BY <1>3, <2>1
<1>14. ASSUME NEW c \in UnderWay, AppendStale(c) PROVE Goal
  <2>1. AppendReply(c, currentTerm[c.to], FALSE, 0) /\ c.kind = "append" /\ c.at = "request"
    BY <1>14 DEF AppendStale
  <2> QED BY <1>10, <1>14, <2>1 DEF Answers
<1>15. ASSUME NEW c \in UnderWay, AppendMismatch(c) \/ AppendTruncateFails(c) PROVE Goal
  <2>1. AppendReply(c, c.Term, FALSE, 0) /\ c.kind = "append" /\ c.at = "request"
    BY <1>15 DEF AppendMismatch, AppendTruncateFails, FollowAppend, FollowLeader
  <2> QED BY <1>10, <1>15, <2>1 DEF Answers
<1>16. ASSUME NEW c \in UnderWay, AppendGap(c) PROVE Goal
  <2>1. /\ AppendReply(c, c.Term, FALSE, node[c.to].logOffset + Len(node[c.to].log) + 1)
        /\ c.kind = "append" /\ c.at = "request"
    BY <1>16 DEF AppendGap, FollowAppend, FollowLeader
  <2>2. \/ d \in UnderWay
        \/ /\ d.from = c.from /\ d.to = c.to /\ d.Term = c.Term /\ d.at = "reply"
           /\ d.lastSent = IF c.Entries = <<>> THEN 0 ELSE c.Entries[Len(c.Entries)].Index
           /\ d.replyTerm = c.Term /\ d.Success = FALSE
           /\ d.ConflictIndex = node[c.to].logOffset + Len(node[c.to].log) + 1
    BY <1>10, <2>1
  <2> QED BY <1>16, <2>1, <2>2 DEF Answers
<1>17. ASSUME NEW c \in UnderWay, AppendAccept(c) PROVE Goal
  <2>1. AppendReply(c, c.Term, TRUE, 0) /\ c.kind = "append" /\ c.at = "request"
    BY <1>17 DEF AppendAccept, FollowAppend, FollowLeader
  <2>2. \/ d \in UnderWay
        \/ /\ d.from = c.from /\ d.to = c.to /\ d.Term = c.Term /\ d.at = "reply"
           /\ d.lastSent = IF c.Entries = <<>> THEN 0 ELSE c.Entries[Len(c.Entries)].Index
           /\ d.replyTerm = c.Term /\ d.Success = TRUE /\ d.ConflictIndex = 0
    BY <1>10, <2>1
  <2> QED BY <1>17, <2>1, <2>2 DEF Answers
<1> HIDE DEF Goal
<1>18. ASSUME Election PROVE Goal
  BY <1>1, <1>2, <1>5, <1>6, <1>7, <1>18 DEF Election, TimerFires, VoteStepDown, becomeLeader
<1>19. ASSUME Replication PROVE Goal
  BY <1>1, <1>2, <1>4, <1>8, <1>9, <1>11, <1>14, <1>15, <1>16, <1>17, <1>19
  DEF Replication, HeartBeatPanic, HeartBeatExit, Propose, AppendSucceeded, AppendFailed
<1>20. ASSUME SnapshotTransfer PROVE Goal
  BY <1>2, <1>12, <1>13, <1>20
  DEF SnapshotTransfer, SnapshotStale, HandleInstallSnapshot, SnapshotReply
<1>21. ASSUME Failure PROVE Goal
  BY <1>1, <1>2, <1>4, <1>21 DEF Failure, Crash, Start, Lose
<1>22. Goal
  BY <1>18, <1>19, <1>20, <1>21 DEF Next
<1> QED BY <1>22 DEF Goal

-----------------------------------------------------------------------------
\* Whoever was elected leads until it enters a newer term.
ElectedLeads ==
    \A e \in elected : /\ e[2] <= currentTerm[e[1]]
                       /\ e[2] = currentTerm[e[1]] => state[e[1]] = Leader

\* There are no snapshots on their way, and AppendEntries calls go from a
\* leader to another node.
AppendsOnly ==
    \A c \in UnderWay :
        /\ c.kind # "snapshot"
        /\ c.kind = "append" => c.from # c.to /\ <<c.from, c.Term>> \in elected

AllWhole == \A i \in Server : Whole(node[i])

\* The entries within the bound.
Small == {e \in Entry : e.Index \in 1 .. MaxIndex}

\* The call or answer names no index beyond the end of its sender's log.
InReach(c) ==
    LET last == Len(node[c.from].log)
    IN  /\ Carries(c) => \A k \in DOMAIN c.Entries : c.Entries[k].Index <= last
        /\ c.at = "reply" => c.lastSent <= last /\ c.ConflictIndex <= last + 1

\* Calls of the present term are in reach, and an answer of a newer term is a
\* plain refusal.
ReachInv ==
    \A c \in UnderWay : c.kind = "append" =>
        /\ c.Term = currentTerm[c.from] => InReach(c)
        /\ (c.at = "stepped" \/ (c.at = "reply" /\ c.replyTerm > c.Term))
              => ~c.Success /\ c.ConflictIndex = 0

\* nextIndex points into the log or right behind it.
NextInv ==
    \A i, p \in Server : state[i] = Leader => nextIndex[i][p] \in 1 .. Len(node[i].log) + 1

\* The inductive invariant of undisturbed executions.
UndisturbedInv ==
    /\ NoCrash
    /\ AllWhole
    /\ LogsWithin(node, Small)
    /\ CallsWithin(UnderWay, Small)
    /\ ElectedLeads
    /\ AppendsOnly
    /\ ReachInv
    /\ NextInv

\* What is known of every state from the proofs so far.
Known ==
    /\ TypeOK
    /\ ElectionInv
    /\ NoCrash => ElectionSafety
    /\ ContiguityInv
    /\ LeadersElected

\* The facts about single elections that follow.
LEMMA KnownFacts ==
    ASSUME Known, NoCrash
    PROVE  /\ TypeOK /\ ElectionSafety /\ AllContiguous /\ CarriesRuns /\ LeadersElected
           /\ NoLateStepDown /\ \A i \in Server : alive[i]
BY DEF Known, ElectionInv, ContiguityInv, Started, NoCrash

\* No process dies or starts.
LEMMA NobodyDies ==
    ASSUME Undisturbed, Known, UndisturbedInv, Next
    PROVE  UNCHANGED processVars
<1>1. ASSUME NEW i \in Server, HeartBeatPanic(i) PROVE FALSE
  <2>1. PICK p \in Server : OutOfRange(i, p) /\ state[i] = Leader
    BY <1>1 DEF HeartBeatPanic
  <2>2. node[i] \in Node /\ Whole(node[i]) /\ nextIndex[i][p] \in 1 .. Len(node[i].log) + 1
    BY <2>1 DEF Known, TypeOK, UndisturbedInv, AllWhole, NextInv
  <2>3. Len(node[i].log) \in Nat /\ toSlicePos(node[i], nextIndex[i][p]) = nextIndex[i][p] - 1
    <3>1. nextIndex[i][p] \in Int
      BY <2>2
    <3> QED BY <2>2, <3>1, WholeFacts
  <2> QED BY <2>1, <2>2, <2>3 DEF OutOfRange
<1>2. ASSUME NEW i \in Server, Crash(i) PROVE FALSE
  BY <1>2 DEF Crash, Undisturbed, UndisturbedInv, NoCrash
<1>3. ASSUME NEW i \in Server, Start(i) PROVE FALSE
  BY <1>3, KnownFacts DEF Start, UndisturbedInv
<1> QED BY <1>1, <1>2, <1>3, ProcessSteps

\* So no node goes through a crash or a restart.
LEMMA NodesRun ==
    ASSUME Undisturbed, Known, UndisturbedInv, Next, NEW i \in Server
    PROVE  ~Die(i) /\ ~Start(i) /\ NoCrash' /\ alive'[i]
<1>1. UNCHANGED processVars /\ incarnation[i] \in Nat /\ alive \in [Server -> BOOLEAN]
  BY NobodyDies DEF Known, TypeOK
<1>2. alive[i] /\ NoCrash
  BY KnownFacts DEF UndisturbedInv
<1>3. ~Die(i)
  BY <1>1, <1>2 DEF Die, processVars
<1> QED BY <1>1, <1>2, <1>3 DEF Start, processVars, NoCrash

\* Terms do not go back.
LEMMA TermsGrow ==
    ASSUME Undisturbed, Known, UndisturbedInv, Next
    PROVE  \A i \in Server : Stands(i)
BY VoteStep, NodesRun, KnownFacts DEF Undisturbed, UndisturbedInv

\* No RPC of a leader's own term makes it a follower.
LEMMA KeepsLeading ==
    ASSUME Undisturbed, Known, UndisturbedInv, Next,
           NEW i \in Server, state[i] = Leader, currentTerm'[i] = currentTerm[i]
    PROVE  state'[i] = Leader
<1>0. /\ currentTerm \in [Server -> Nat] /\ state \in [Server -> {Follower, Candidate, Leader}]
      /\ UnderWay \subseteq Call /\ TypeOK
  BY DEF Known, TypeOK
<1> DEFINE Goal == state'[i] = Leader
<1>1. ASSUME UNCHANGED state PROVE Goal
  BY <1>1
<1>2. ASSUME NEW j \in Server, becomeCandidate(j) PROVE Goal
  BY <1>0, <1>2 DEF becomeCandidate
<1>3. ASSUME NEW c \in UnderWay, HandleRequestVote(c) PROVE Goal
  <2>1. c.to \in Server /\ c.Term \in Nat
    BY <1>0, CallKind
  <2>2. CASE c.to = i
    BY <1>0, <1>3, <2>1, <2>2 DEF HandleRequestVote
  <2>3. CASE c.to # i
    BY <1>0, <1>3, <2>1, <2>3 DEF HandleRequestVote
  <2> QED BY <2>2, <2>3
<1>4. ASSUME NEW j \in Server, NEW term \in Nat, StepDown(j, term), term > currentTerm[j] PROVE Goal
  BY <1>0, <1>4 DEF StepDown
<1>5. ASSUME NEW c \in UnderWay, c.kind = "append", FollowLeader(c) PROVE Goal
  <2>1. c.to \in Server /\ c.from \in Server /\ c.Term \in Nat
    BY <1>0, CallKind
  <2>2. CASE c.to # i
    BY <1>0, <1>5, <2>1, <2>2 DEF FollowLeader
  <2>3. CASE c.to = i
    <3>1. c.Term = currentTerm[i]
      BY <1>0, <1>5, <2>1, <2>3 DEF FollowLeader
    <3>2. c.from # c.to /\ <<c.from, c.Term>> \in elected
      BY <1>5 DEF UndisturbedInv, AppendsOnly
    <3>3. <<i, currentTerm[i]>> \in elected
      BY DEF Known, LeadersElected
    <3>4. ElectionSafety
      BY KnownFacts DEF UndisturbedInv
    <3> QED BY <2>3, <3>1, <3>2, <3>3, <3>4 DEF ElectionSafety
  <2> QED BY <2>2, <2>3
<1>6. ASSUME NEW c \in UnderWay, becomeLeader(c) PROVE Goal
  BY <1>0, <1>6 DEF becomeLeader
<1>7. ASSUME NEW c \in UnderWay, VoteStepDown(c) PROVE Goal
  <2>1. c.from \in Server /\ c \in RequestVoteAnswer
    BY <1>0, <1>7, CallKind DEF VoteStepDown
  <2>2. c.replyTerm \in Nat /\ c.replyTerm > currentTerm[c.from]
    BY <1>7, <2>1, KnownFacts
    DEF VoteStepDown, InTime, NoLateStepDown, RequestVoteAnswer, Undisturbed, UndisturbedInv
  <2> QED BY <1>4, <1>7, <2>1, <2>2 DEF VoteStepDown
<1>8. ASSUME NEW c \in UnderWay, AppendReplyStepDown(c) PROVE Goal
  <2>1. c.from \in Server /\ c \in AppendEntriesAnswer
    BY <1>0, <1>8, CallKind DEF AppendReplyStepDown
  <2>2. c.replyTerm \in Nat /\ c.replyTerm > currentTerm[c.from]
    BY <1>8, <2>1 DEF AppendReplyStepDown, InTime, AppendEntriesAnswer, Undisturbed
  <2> QED BY <1>4, <1>8, <2>1, <2>2 DEF AppendReplyStepDown
<1> HIDE DEF Goal
<1>9. ASSUME Election PROVE Goal
  BY <1>1, <1>2, <1>3, <1>6, <1>7, <1>9 DEF Election, TimerFires, VoteReply, electionVars
<1>10. ASSUME Replication PROVE Goal
  <2>1. ~\E j \in Server : HeartBeatPanic(j)
    BY NodesRun DEF HeartBeatPanic
  <2> QED BY <1>1, <1>5, <1>8, <1>10, <2>1
          DEF Replication, HeartBeat, HeartBeatExit, Propose, SendAppendEntries, AppendStale,
              AppendMismatch, AppendTruncateFails, AppendGap, AppendAccept, FollowAppend,
              AppendSucceeded, AppendFailed, electionVars
<1>11. ASSUME SnapshotTransfer PROVE Goal
  BY <1>11 DEF SnapshotTransfer, SendInstallSnapshot, SnapshotStale, HandleInstallSnapshot,
               SnapshotReply, UndisturbedInv, AppendsOnly
<1>12. ASSUME Failure PROVE Goal
  BY <1>1, <1>12, NodesRun DEF Failure, Crash, Lose, electionVars
<1>13. Goal
  BY <1>9, <1>10, <1>11, <1>12 DEF Next
<1> QED BY <1>13 DEF Goal

-----------------------------------------------------------------------------
\* Indices below the bound make a short log.
LEMMA ShortLog ==
    ASSUME NEW n \in Node, n.logOffset = 0, n.lastSnapshotIndex = 0, Contiguous(n),
           n.log \in Seq(Small)
    PROVE  Whole(n)
<1>1. Len(n.log) \in Nat /\ DOMAIN n.log = 1 .. Len(n.log)
  BY DEF Node
<1>2. CASE Len(n.log) = 0
  BY <1>2, BoundAssumption DEF Whole
<1>3. CASE Len(n.log) # 0
  <2>1. Len(n.log) \in DOMAIN n.log
    BY <1>1, <1>3
  <2>2. n.log[Len(n.log)] \in Small
    BY <2>1
  <2>3. n.log[Len(n.log)].Index = Len(n.log)
    BY <1>1, <2>1 DEF Contiguous
  <2> QED BY <2>2, <2>3 DEF Whole, Small
<1> QED BY <1>2, <1>3

\* Committing takes no snapshot.
LEMMA CommitOnly ==
    ASSUME Undisturbed, NEW n \in Node, Whole(n)
    PROVE  /\ \A c \in Nat : /\ maybeSnapshot(FollowCommit(n, c)) = FollowCommit(n, c)
                             /\ SameLog(n, FollowCommit(n, c))
           /\ \A to \in Nat : LET m == ApplyCommitted([n EXCEPT !.commitIndex = to])
                              IN  maybeSnapshot(m) = m /\ SameLog(n, m)
           /\ \A match, term : SameLog(n, tryAdvanceCommitIndex(n, match, term))
<1>1. ASSUME NEW m \in Node, SameLog(n, m) PROVE maybeSnapshot(m) = m
  <2>1. Whole(m)
    BY <1>1 DEF Whole, SameLog, Contiguous
  <2> QED BY <2>1, NothingToSnapshot
<1>2. ASSUME NEW c \in Nat
      PROVE  maybeSnapshot(FollowCommit(n, c)) = FollowCommit(n, c) /\ SameLog(n, FollowCommit(n, c))
  BY <1>1, CommitSameLog, FollowCommitKeeps
<1>3. ASSUME NEW to \in Nat
      PROVE  LET m == ApplyCommitted([n EXCEPT !.commitIndex = to])
             IN  maybeSnapshot(m) = m /\ SameLog(n, m)
  <2>1. [n EXCEPT !.commitIndex = to] \in Node
    BY CommitSameLog
  <2> QED BY <1>1, <2>1, CommitSameLog, ApplyCommittedKeeps
<1>4. ASSUME NEW match, NEW term PROVE SameLog(n, tryAdvanceCommitIndex(n, match, term))
  <2> DEFINE ready == {v \in n.logOffset + 1 .. n.logOffset + Len(n.log) :
                     IsMajorityIndex(match, LastIndex(n), v) /\ EntryAt(n, v).Term = term}
             to == CHOOSE v \in ready : TRUE
  <2>1. tryAdvanceCommitIndex(n, match, term) =
           IF ready = {} THEN n
           ELSE maybeSnapshot(ApplyCommitted([n EXCEPT !.commitIndex = to]))
    BY DEF tryAdvanceCommitIndex
  <2>2. CASE ready = {}
    BY <2>1, <2>2 DEF SameLog
  <2>3. CASE ready # {}
    <3>1. to \in ready
      BY <2>3
    <3>2. to \in Nat
      BY <3>1 DEF Node
    <3> HIDE DEF to, ready
    <3> QED BY <1>3, <2>1, <2>3, <3>2
  <2> QED BY <2>2, <2>3
<1> QED BY <1>2, <1>3, <1>4

\* What a request that is accepted leaves of the log is not compacted either.
LEMMA StoredWhole ==
    ASSUME Undisturbed, Known, UndisturbedInv, NEW c \in UnderWay, FollowAppend(c),
           NEW k, Accepts(c, k)
    PROVE  LET m == StoreEntries(node[c.to], c.Entries, k)
           IN  m \in Node /\ Whole(m) /\ SameData(node[c.to], m)
<1> DEFINE n == node[c.to]
           m == StoreEntries(n, c.Entries, k)
<1>1. c.kind = "append" /\ c.at = "request" /\ c \in Call /\ c.to \in Server
  BY CallKind DEF FollowAppend, FollowLeader, Known, TypeOK
<1>2. c.Entries \in Seq(Entry) /\ Run(c.Entries) /\ c.Entries \in Seq(Small)
  <2>1. c \in AppendEntriesCall
    BY <1>1, CallKind
  <2>2. Run(c.Entries)
    BY <1>1, KnownFacts DEF UndisturbedInv, CarriesRuns
  <2> QED BY <1>1, <2>1, <2>2 DEF AppendEntriesCall, UndisturbedInv, CallsWithin
<1>3. n \in Node /\ Whole(n) /\ Within(n, Small) /\ Contiguous(n)
  BY <1>1 DEF Known, TypeOK, UndisturbedInv, AllWhole, LogsWithin, Whole
<1>4. /\ k \in 1 .. Len(c.Entries) + 1
      /\ k \in DOMAIN c.Entries =>
              IF Conflicts(n, c.Entries, k)
              THEN CanTruncateAfter(n.wal, c.Entries[k].Index - 1)
              ELSE LinesUp(n, c.Entries, k)
  BY DEF Accepts
<1>5. Small \subseteq Entry
  BY DEF Small
<1>6. m \in Node /\ Contiguous(m)
  <2> HIDE DEF n
  <2> QED BY <1>2, <1>3, <1>4, StoreEntriesKeeps
<1>7. Within(m, Small)
  <2> HIDE DEF n
  <2> QED BY <1>2, <1>3, <1>4, <1>5, StoreWithin
<1>8. SameData(n, m)
  <2> HIDE DEF n
  <2> QED BY <1>2, <1>3, <1>4, StoredLog
<1>9. m.logOffset = 0 /\ m.lastSnapshotIndex = 0
  BY <1>3, <1>8 DEF SameData, Whole
<1> HIDE DEF m
<1> QED BY <1>6, <1>7, <1>8, <1>9, ShortLog DEF Within, m

\* How the log of node i may change.
LogStep(i) ==
    LET n == node[i]
        m == node'[i]
    IN  /\ m.logOffset = n.logOffset /\ m.lastSnapshotIndex = n.lastSnapshotIndex
        /\ \/ m.log = n.log
           \/ /\ state'[i] = Leader
              /\ \E command \in Command \cup {NoOp} :
                    m.log = n.log \o <<NewEntry(n, currentTerm[i], command)>>
           \/ \E c \in UnderWay : \E k :
                 /\ FollowAppend(c) /\ c.to = i
                 /\ \/ Cuts(c, k) /\ m.log = SubSeq(n.log, 1, toSlicePos(n, c.Entries[k].Index))
                    \/ Accepts(c, k) /\ m.log = StoreEntries(n, c.Entries, k).log

\* Every log changes in one of these ways.
LEMMA LogSteps ==
    ASSUME Undisturbed, Known, UndisturbedInv, Next, NEW i \in Server
    PROVE  LogStep(i)
<1>0. TypeOK /\ UndisturbedInv
  BY DEF Known
<1>1. node[i] \in Node /\ Whole(node[i])
  BY DEF Known, TypeOK, UndisturbedInv, AllWhole
<1>2. NodeStep(i)
  BY <1>0, NodeSteps
<1>3. ASSUME node'[i] = node[i] PROVE LogStep(i)
  BY <1>3 DEF LogStep
<1>4. ASSUME NEW command \in Command \cup {NoOp}, state'[i] = Leader,
             node'[i] = AppendAll(node[i], <<NewEntry(node[i], currentTerm[i], command)>>)
      PROVE  LogStep(i)
  <2> DEFINE new == <<NewEntry(node[i], currentTerm[i], command)>>
  <2>1. SameData(node[i], node'[i]) /\ node'[i].log = node[i].log \o new
    BY <1>1, <1>4, AppendSameData
  <2> QED BY <1>4, <2>1 DEF LogStep, SameData
<1>5. ASSUME NEW c \in UnderWay, becomeLeader(c), c.from = i PROVE state'[i] = Leader
  BY <1>5 DEF becomeLeader, Known, TypeOK
<1>6. ASSUME NEW command \in Command, Propose(i, command) PROVE state'[i] = Leader
  BY <1>6 DEF Propose, electionVars
<1>7. ASSUME NEW match, node'[i] = tryAdvanceCommitIndex(node[i], match, currentTerm[i])
      PROVE  LogStep(i)
  <2>1. SameLog(node[i], node'[i])
    BY <1>1, <1>7, CommitOnly
  <2> QED BY <2>1 DEF LogStep, SameLog
<1>8. ASSUME NEW c \in UnderWay, AppendTruncateFails(c), c.to = i, NEW k, Cuts(c, k),
             node'[i] = TruncateLog(node[i], c.Entries[k].Index)
      PROVE  LogStep(i)
  <2>1. /\ SameData(node[i], node'[i])
        /\ node'[i].log = SubSeq(node[i].log, 1, toSlicePos(node[i], c.Entries[k].Index))
    BY <1>1, <1>8, TruncateSameData
  <2> QED BY <1>8, <2>1 DEF LogStep, SameData, AppendTruncateFails
<1>9. ASSUME NEW c \in UnderWay, AppendAccept(c), c.to = i, NEW k, Accepts(c, k),
             node'[i] = maybeSnapshot(FollowCommit(StoreEntries(node[i], c.Entries, k),
                                                   c.LeaderCommit))
      PROVE  LogStep(i)
  <2> DEFINE m == StoreEntries(node[i], c.Entries, k)
  <2>1. FollowAppend(c) /\ c \in AppendEntriesCall
    BY <1>9, CallKind DEF AppendAccept, FollowAppend, FollowLeader, Known, TypeOK
  <2>2. m \in Node /\ Whole(m) /\ SameData(node[i], m)
    BY <1>9, <2>1, StoredWhole
  <2>3. c.LeaderCommit \in Nat
    BY <2>1 DEF AppendEntriesCall
  <2>4. SameLog(m, node'[i])
    <3> HIDE DEF m
    <3> QED BY <1>9, <2>2, <2>3, CommitOnly DEF m
  <2> HIDE DEF m
  <2>5. /\ node'[i].logOffset = node[i].logOffset /\ node'[i].log = m.log
        /\ node'[i].lastSnapshotIndex = node[i].lastSnapshotIndex
    BY <2>2, <2>4 DEF SameData, SameLog
  <2> QED BY <1>9, <2>1, <2>5 DEF LogStep, m
<1>10. ASSUME NEW c \in UnderWay, HandleInstallSnapshot(c) PROVE FALSE
  BY <1>10 DEF HandleInstallSnapshot, UndisturbedInv, AppendsOnly
<1> QED BY <1>2, <1>3, <1>4, <1>5, <1>6, <1>7, <1>8, <1>9, <1>10, NodesRun DEF NodeStep

\* The entries stay below the bound, in the logs and on their way.
LEMMA SmallStep ==
    ASSUME Known, UndisturbedInv, Next
    PROVE  LogsWithin(node', Small) /\ CallsWithin(UnderWay', Small)
<1>0. TypeOK /\ LogsWithin(node, Small) /\ CallsWithin(UnderWay, Small) /\ Small \subseteq Entry
  BY DEF Known, UndisturbedInv, Small
<1>1. ASSUME NEW i \in Server, NEW command \in Command \cup {NoOp}, LastIndex(node[i]) < MaxIndex
      PROVE  NewEntry(node[i], currentTerm[i], command) \in Small
  <2>1. node[i] \in Node /\ currentTerm[i] \in Nat
    BY DEF Known, TypeOK
  <2>2. /\ LastIndex(node[i]) \in Nat
        /\ NewEntry(node[i], currentTerm[i], command) \in Entry
        /\ NewEntry(node[i], currentTerm[i], command).Index = LastIndex(node[i]) + 1
    BY <2>1, LastType, NewEntryType DEF NewEntry
  <2> QED BY <1>1, <2>2, BoundAssumption DEF Small
<1>2. Adds(Small)
  <2>1. ASSUME NEW c \in UnderWay, becomeLeader(c)
        PROVE  NewEntry(node[c.from], currentTerm[c.from], NoOp) \in Small
    BY <1>0, <1>1, <2>1, Elected DEF becomeLeader
  <2>2. ASSUME NEW i \in Server, NEW command \in Command, Propose(i, command)
        PROVE  NewEntry(node[i], currentTerm[i], command) \in Small
    BY <1>1, <2>2 DEF Propose
  <2> QED BY <2>1, <2>2 DEF Adds
<1> QED BY <1>0, <1>2, LogsStep, CallsStep

\* No log is compacted.
LEMMA WholeStep ==
    ASSUME Undisturbed, Known, Known', UndisturbedInv, Next
    PROVE  AllWhole'
<1> SUFFICES ASSUME NEW i \in Server PROVE Whole(node'[i])
  BY DEF AllWhole
<1>1. node'[i] \in Node
  BY DEF Known, TypeOK
<1>2. node'[i].log \in Seq(Small)
  BY SmallStep DEF LogsWithin, Within
<1>3. node'[i].logOffset = 0 /\ node'[i].lastSnapshotIndex = 0
  BY LogSteps DEF LogStep, UndisturbedInv, AllWhole, Whole
<1>4. Contiguous(node'[i])
  BY NodesRun DEF Known, ContiguityInv, AllContiguous
<1> QED BY <1>1, <1>2, <1>3, <1>4, ShortLog

\* A leader that stays one only appends.
LEMMA LeaderAppends ==
    ASSUME Undisturbed, Known, UndisturbedInv, Next, NEW i \in Server, state'[i] = Leader
    PROVE  \/ node'[i].log = node[i].log
           \/ \E command \in Command \cup {NoOp} :
                 node'[i].log = node[i].log \o <<NewEntry(node[i], currentTerm[i], command)>>
<1>1. ASSUME NEW c \in UnderWay, FollowAppend(c), c.to = i PROVE FALSE
  BY <1>1, DistinctStates DEF FollowAppend, FollowLeader, Known, TypeOK
<1> QED BY <1>1, LogSteps DEF LogStep

\* s starts with what is in r.
Grows(r, s) == Len(r) <= Len(s) /\ \A q \in 1 .. Len(r) : s[q] = r[q]

\* So its log keeps what it has.
LEMMA LeaderLogGrows ==
    ASSUME Undisturbed, Known, UndisturbedInv, Next, NEW i \in Server, state'[i] = Leader
    PROVE  Grows(node[i].log, node'[i].log)
<1>1. node[i].log \in Seq(Entry) /\ node[i] \in Node /\ currentTerm[i] \in Nat
  BY DEF Known, TypeOK, Node
<1>2. CASE node'[i].log = node[i].log
  BY <1>1, <1>2 DEF Grows
<1>3. ASSUME NEW command \in Command \cup {NoOp},
             node'[i].log = node[i].log \o <<NewEntry(node[i], currentTerm[i], command)>>
      PROVE  Grows(node[i].log, node'[i].log)
  <2> DEFINE e == NewEntry(node[i], currentTerm[i], command)
  <2>1. e \in Entry
    BY <1>1, NewEntryType
  <2> HIDE DEF e
  <2>2. node'[i].log = node[i].log \o <<e>>
    BY <1>3 DEF e
  <2> QED BY <1>1, <2>1, <2>2 DEF Grows
<1> QED BY <1>2, <1>3, LeaderAppends

-----------------------------------------------------------------------------
\* Who was elected stays elected.
LEMMA ElectedGrows ==
    ASSUME TypeOK, Next
    PROVE  elected \subseteq elected'
BY CalmUnlessElected, Elected DEF Calm

LEMMA ElectedLeadsStep ==
    ASSUME Undisturbed, Known, Known', UndisturbedInv, Next
    PROVE  ElectedLeads'
<1> SUFFICES ASSUME NEW e \in elected'
             PROVE  /\ e[2] <= currentTerm'[e[1]]
                    /\ e[2] = currentTerm'[e[1]] => state'[e[1]] = Leader
  BY DEF ElectedLeads
<1>0. /\ TypeOK /\ currentTerm \in [Server -> Nat] /\ currentTerm' \in [Server -> Nat]
      /\ state \in [Server -> {Follower, Candidate, Leader}]
  BY DEF Known, TypeOK
<1>1. CASE e \in elected
  <2>1. /\ e[1] \in Server /\ e[2] \in Nat /\ e[2] <= currentTerm[e[1]]
        /\ e[2] = currentTerm[e[1]] => state[e[1]] = Leader
    BY <1>1 DEF UndisturbedInv, ElectedLeads, Known, TypeOK
  <2>2. currentTerm[e[1]] <= currentTerm'[e[1]]
    BY <2>1, TermsGrow DEF Stands
  <2>3. currentTerm[e[1]] \in Nat /\ currentTerm'[e[1]] \in Nat
    BY <1>0, <2>1
  <2>4. e[2] = currentTerm'[e[1]] => currentTerm'[e[1]] = currentTerm[e[1]]
    BY <2>1, <2>2, <2>3
  <2> QED BY <2>1, <2>2, <2>3, <2>4, KeepsLeading
<1>2. CASE e \notin elected
  <2>1. PICK c \in UnderWay : becomeLeader(c)
    BY <1>0, <1>2, CalmUnlessElected DEF Calm
  <2>2. c.from \in Server /\ e = <<c.from, currentTerm[c.from]>>
    BY <1>0, <1>2, <2>1, Elected
  <2>3. currentTerm' = currentTerm /\ state'[c.from] = Leader
    BY <1>0, <2>1, <2>2 DEF becomeLeader
  <2> QED BY <1>0, <2>2, <2>3
<1> QED BY <1>1, <1>2

LEMMA AppendsOnlyStep ==
    ASSUME Undisturbed, Known, UndisturbedInv, Next
    PROVE  AppendsOnly'
<1> SUFFICES ASSUME NEW d \in UnderWay'
             PROVE  /\ d.kind # "snapshot"
                    /\ d.kind = "append" => d.from # d.to /\ <<d.from, d.Term>> \in elected'
  BY DEF AppendsOnly
<1>0. TypeOK /\ AppendsOnly /\ elected \subseteq elected'
  BY ElectedGrows DEF Known, UndisturbedInv
<1>1. CASE d \in UnderWay
  BY <1>0, <1>1 DEF AppendsOnly
<1>2. CASE d \notin UnderWay
  <2>1. NewCall(d) /\ d \in Call
    BY <1>0, <1>2, NextFacts DEF CallFacts, NewCall
  <2>2. d.kind # "snapshot"
    <3>1. ASSUME NEW i \in Server, NEW p \in Server, state[i] = Leader, Compacted(i, p) PROVE FALSE
      <4>1. node[i] \in Node /\ Whole(node[i]) /\ nextIndex[i][p] \in 1 .. Len(node[i].log) + 1
        BY <3>1 DEF Known, TypeOK, UndisturbedInv, AllWhole, NextInv
      <4>2. nextIndex[i][p] \in Int /\ nextIndex[i][p] >= 1
        BY <4>1 DEF Known, TypeOK
      <4>3. \A k \in Int : toSlicePos(node[i], k) = k - 1
        BY <4>1, WholeFacts
      <4>4. toSlicePos(node[i], nextIndex[i][p]) = nextIndex[i][p] - 1
        BY <4>2, <4>3
      <4> QED BY <3>1, <4>2, <4>4 DEF Compacted
    <3> QED BY <1>0, <2>1, <3>1 DEF NewCall, AppendsOnly
  <2>3. ASSUME d.kind = "append", d.at \in {"reply", "stepped"}
        PROVE  d.from # d.to /\ <<d.from, d.Term>> \in elected
    <3>1. PICK c \in UnderWay : Answers(c, d)
      BY <1>0, <1>2, <2>3, NewAnswer
    <3> QED BY <1>0, <3>1 DEF Answers, AppendsOnly
  <2>4. ASSUME Carries(d) PROVE d.from # d.to /\ <<d.from, d.Term>> \in elected
    <3>1. ASSUME NEW i \in Server, NEW p \in Server \ {i}, HeartBeat(i), d = AppendFor(i, p)
          PROVE  d.from # d.to /\ <<d.from, d.Term>> \in elected
      BY <3>1 DEF HeartBeat, AppendFor, Known, LeadersElected
    <3>2. ASSUME NEW c \in UnderWay, SendAppendEntries(c), NEW seen \in SUBSET Shown(c),
                 d = Sent(c, seen)
          PROVE  d.from # d.to /\ <<d.from, d.Term>> \in elected
      <4>1. c \in AppendEntriesCall
        BY <1>0, <3>2, CallKind DEF SendAppendEntries, TypeOK
      <4>2. d.from = c.from /\ d.to = c.to /\ d.Term = c.Term /\ c.kind = "append"
        BY <3>2, <4>1 DEF Sent, AppendEntriesCall
      <4> QED BY <1>0, <4>2 DEF AppendsOnly
    <3> QED BY <1>0, <1>2, <2>4, <3>1, <3>2, NewAppend
  <2>5. d.kind = "append" => Carries(d) \/ d.at \in {"reply", "stepped"}
    BY <2>1 DEF Carries, Call, RequestVoteCall, RequestVoteAnswer, AppendEntriesCall,
                AppendEntriesAnswer, InstallSnapshotCall, InstallSnapshotAnswer
  <2> QED BY <1>0, <2>2, <2>3, <2>4, <2>5
<1> QED BY <1>1, <1>2

\* The entries up to the end of the log.
Upto(n) == {e \in Entry : e.Index <= Len(n.log)}

LEMMA LogUpto ==
    ASSUME NEW n \in Node, Whole(n)
    PROVE  n.log \in Seq(Upto(n))
<1>1. /\ n.log \in Seq(Entry) /\ Len(n.log) \in Nat /\ DOMAIN n.log = 1 .. Len(n.log)
      /\ \A k \in DOMAIN n.log : n.log[k] \in Entry /\ n.log[k].Index = k
  BY WholeFacts
<1>2. ASSUME NEW k \in 1 .. Len(n.log) PROVE n.log[k] \in Upto(n)
  <2>1. n.log[k] \in Entry /\ n.log[k].Index = k /\ k <= Len(n.log)
    BY <1>1
  <2> QED BY <2>1 DEF Upto
<1> QED BY <1>1, <1>2

\* A call that is added is in the reach of its sender's log.
LEMMA ReachStep ==
    ASSUME Undisturbed, Known, Known', UndisturbedInv, Next,
           ElectedLeads', AppendsOnly'
    PROVE  ReachInv'
<1> SUFFICES ASSUME NEW d \in UnderWay', d.kind = "append"
             PROVE  /\ d.Term = currentTerm'[d.from] => InReach(d)'
                    /\ (d.at = "stepped" \/ (d.at = "reply" /\ d.replyTerm > d.Term))
                          => ~d.Success /\ d.ConflictIndex = 0
  BY DEF ReachInv
<1>0. /\ TypeOK /\ ReachInv /\ UnderWay \subseteq Call
      /\ d \in Call /\ d.from \in Server
      /\ currentTerm \in [Server -> Nat]
      /\ \A i \in Server : Len(node[i].log) \in Nat /\ Len(node'[i].log) \in Nat
  <2>1. TypeOK /\ ReachInv
    BY DEF Known, UndisturbedInv
  <2>2. UnderWay \subseteq Call /\ d \in Call /\ currentTerm \in [Server -> Nat]
    BY DEF Known, TypeOK
  <2>3. \A i \in Server : node[i].log \in Seq(Entry) /\ node'[i].log \in Seq(Entry)
    BY DEF Known, TypeOK, Node
  <2> QED BY <2>1, <2>2, <2>3, CallKind
<1>1. ASSUME d.Term = currentTerm'[d.from]
      PROVE  /\ d.Term = currentTerm[d.from] /\ state'[d.from] = Leader
             /\ Len(node[d.from].log) <= Len(node'[d.from].log)
  <2>1. <<d.from, d.Term>> \in elected'
    BY DEF AppendsOnly
  <2>2. state'[d.from] = Leader
    BY <1>1, <2>1 DEF ElectedLeads
  <2>3. currentTerm'[d.from] = currentTerm[d.from]
    BY <1>0, <2>2, LeaderTermStands
  <2>4. Grows(node[d.from].log, node'[d.from].log)
    BY <1>0, <2>2, LeaderLogGrows
  <2> QED BY <1>1, <2>2, <2>3, <2>4 DEF Grows
<1>2. ASSUME d.Term = currentTerm'[d.from], InReach(d) PROVE InReach(d)'
  <2>1. Carries(d) => \A k \in DOMAIN d.Entries : d.Entries[k].Index \in Nat
    <3>1. Carries(d) => d.Entries \in Seq(Entry)
      BY <1>0, CallKind DEF Carries, AppendEntriesCall
    <3>2. Carries(d) => \A k \in DOMAIN d.Entries : d.Entries[k] \in Entry
      BY <3>1
    <3> QED BY <3>2 DEF Entry
  <2>2. d.at = "reply" => d.lastSent \in Nat /\ d.ConflictIndex \in Nat
    BY <1>0, CallKind DEF AppendEntriesAnswer
  <2> DEFINE a == Len(node[d.from].log)
             b == Len(node'[d.from].log)
  <2>3. a \in Nat /\ b \in Nat /\ a <= b
    BY <1>0, <1>1, <1>2
  <2>4. ASSUME Carries(d), NEW k \in DOMAIN d.Entries PROVE d.Entries[k].Index <= b
    <3>1. d.Entries[k].Index <= a
      BY <1>2, <2>4 DEF InReach
    <3> QED BY <2>1, <2>3, <2>4, <3>1
  <2>5. ASSUME d.at = "reply" PROVE d.lastSent <= b /\ d.ConflictIndex <= b + 1
    <3>1. d.lastSent <= a /\ d.ConflictIndex <= a + 1
      BY <1>2, <2>5 DEF InReach
    <3>2. d.lastSent \in Nat /\ d.ConflictIndex \in Nat
      BY <2>2, <2>5
    <3> HIDE DEF a, b
    <3> QED BY <2>3, <3>1, <3>2
  <2> QED BY <2>4, <2>5 DEF InReach, Carries
<1>3. CASE d \in UnderWay
  BY <1>0, <1>1, <1>2, <1>3 DEF ReachInv
<1>4. ASSUME NEW i \in Server, NEW p \in Server \ {i}, HeartBeat(i), d = AppendFor(i, p)
      PROVE  InReach(d)
  <2> DEFINE n == node[i]
  <2>1. d.from = i /\ d.at = "spawned" /\ ~OutOfRange(i, p)
    BY <1>4 DEF AppendFor, HeartBeat
  <2>2. n \in Node /\ Whole(n)
    BY DEF Known, TypeOK, UndisturbedInv, AllWhole
  <2>3. n.log \in Seq(Upto(n))
    BY <2>2, LogUpto
  <2>4. d.Entries \in Seq(Upto(n))
    BY <1>0, <1>4, <2>1, <2>3, HeartBeatWithin
  <2> QED BY <2>1, <2>4 DEF InReach, Upto
<1>5. ASSUME NEW c \in UnderWay, SendAppendEntries(c), NEW seen \in SUBSET Shown(c),
             d = Sent(c, seen)
      PROVE  InReach(d)
  <2> DEFINE n == node[c.from]
  <2>1. /\ c \in AppendEntriesCall /\ c.from \in Server /\ c.kind = "append" /\ c.at = "spawned"
        /\ c.Term = currentTerm[c.from]
    BY <1>0, <1>5, CallKind DEF SendAppendEntries, InTime, Undisturbed
  <2>2. d.from = c.from /\ d.at = "request"
    BY <1>5, <2>1 DEF Sent, AppendEntriesCall
  <2>3. n \in Node /\ Whole(n)
    BY <2>1 DEF Known, TypeOK, UndisturbedInv, AllWhole
  <2>4. n.log \in Seq(Upto(n))
    BY <2>3, LogUpto
  <2>5. c.Entries \in Seq(Upto(n))
    <3>1. InReach(c) /\ c.Entries \in Seq(Entry)
      BY <1>0, <2>1 DEF ReachInv, AppendEntriesCall
    <3>2. \A k \in 1 .. Len(c.Entries) : c.Entries[k] \in Upto(n)
      BY <2>1, <3>1 DEF InReach, Carries, Upto
    <3> QED BY <3>1, <3>2
  <2>6. d.Entries \in Seq(Upto(n))
    BY <1>0, <1>5, <2>1, <2>4, <2>5, SentWithin
  <2> QED BY <2>2, <2>6 DEF InReach, Upto
<1>6. ASSUME NEW c \in UnderWay, Answers(c, d), c.at = "request", d.Term = currentTerm[d.from]
      PROVE  InReach(d)
  <2> DEFINE last == Len(node[c.from].log)
             es == c.Entries
  <2>1. /\ c \in AppendEntriesCall /\ c.from \in Server /\ c.to \in Server /\ d.from = c.from
        /\ c.kind = "append" /\ d.Term = c.Term /\ d.at = "reply"
    BY <1>0, <1>6, CallKind DEF Answers
  <2>2. es \in Seq(Entry) /\ es \in Seq(Small) /\ \A k \in DOMAIN es : es[k].Index <= last
    BY <1>0, <1>6, <2>1
    DEF AppendEntriesCall, ReachInv, InReach, Carries, UndisturbedInv, CallsWithin
  <2>3. last \in Nat
    BY <1>0, <2>1
  <2>4. d.lastSent <= last
    <3>1. d.lastSent = IF es = <<>> THEN 0 ELSE es[Len(es)].Index
      BY <1>6 DEF Answers
    <3>2. es # <<>> => Len(es) \in DOMAIN es
      BY <2>2, EmptySeq
    <3> QED BY <2>2, <2>3, <3>1, <3>2
  <2>5. ASSUME AppendGap(c) PROVE node[c.to].logOffset + Len(node[c.to].log) + 1 <= last + 1
    <3> DEFINE n == node[c.to]
    <3>1. PICK k \in DOMAIN es : ~Conflicts(n, es, k) /\ ~LinesUp(n, es, k)
      BY <2>5 DEF AppendGap
    <3>2. Len(n.log) \in Nat /\ n.logOffset = 0
      BY <1>0, <2>1 DEF UndisturbedInv, AllWhole, Whole
    <3>3. es[k].Index \in Nat /\ es[k].Index >= 1 /\ es[k].Index <= last
      BY <2>2, <3>1 DEF Small, Entry
    <3>4. es[k].Index # Len(n.log) + 1 /\ es[k].Index \notin 1 .. Len(n.log)
      BY <3>1, <3>2 DEF Conflicts, LinesUp, HasEntry
    <3>5. es[k].Index > Len(n.log)
      BY <3>2, <3>3, <3>4
    <3> HIDE DEF es, last
    <3> QED BY <2>3, <3>2, <3>3, <3>5
  <2>6. d.ConflictIndex <= last + 1
    BY <1>6, <2>3, <2>5 DEF Answers
  <2> QED BY <2>1, <2>4, <2>6 DEF InReach, Carries
<1>7. ASSUME NEW c \in UnderWay, Answers(c, d), c.at = "request", d.replyTerm > d.Term
      PROVE  ~d.Success /\ d.ConflictIndex = 0
  <2>1. c.Term \in Nat /\ d.Term = c.Term
    BY <1>0, <1>7, CallKind DEF Answers
  <2> QED BY <1>7, <2>1 DEF Answers
<1>8. ASSUME NEW c \in UnderWay, Answers(c, d), c.at = "reply"
      PROVE  d.at = "stepped" /\ ~d.Success /\ d.ConflictIndex = 0
  BY <1>0, <1>8 DEF Answers, ReachInv
<1>9. CASE Carries(d) /\ d \notin UnderWay
  <2>1. InReach(d)
    BY <1>0, <1>4, <1>5, <1>9, NewAppend
  <2>2. d.at \notin {"reply", "stepped"}
    BY <1>9 DEF Carries
  <2> QED BY <1>2, <2>1, <2>2
<1>10. CASE d.at \in {"reply", "stepped"} /\ d \notin UnderWay
  <2>1. PICK c \in UnderWay : Answers(c, d)
    BY <1>0, <1>10, NewAnswer
  <2>2. CASE c.at = "request"
    <3>1. d.at = "reply"
      BY <2>1, <2>2 DEF Answers
    <3> QED BY <1>1, <1>2, <1>6, <1>7, <2>1, <2>2, <3>1
  <2>3. CASE c.at = "reply"
    BY <1>8, <2>1, <2>3 DEF InReach, Carries
  <2> QED BY <2>1, <2>2, <2>3 DEF Answers
<1>11. Carries(d) \/ d.at \in {"reply", "stepped"}
  BY <1>0 DEF Carries, Call, RequestVoteCall, RequestVoteAnswer, AppendEntriesCall,
              AppendEntriesAnswer, InstallSnapshotCall, InstallSnapshotAnswer
<1> QED BY <1>3, <1>9, <1>10, <1>11

\* Who writes nextIndex.
LEMMA NextIndexSteps ==
    ASSUME Next
    PROVE  \/ UNCHANGED nextIndex
           \/ \E i \in Server : Die(i)
           \/ \E c \in UnderWay : \/ becomeLeader(c) \/ AppendSucceeded(c) \/ AppendFailed(c)
                                  \/ SnapshotReply(c)
<1> DEFINE Goal == \/ UNCHANGED nextIndex
                   \/ \E i \in Server : Die(i)
                   \/ \E c \in UnderWay : \/ becomeLeader(c) \/ AppendSucceeded(c)
                                          \/ AppendFailed(c) \/ SnapshotReply(c)
<1>1. ASSUME Election PROVE Goal
  BY <1>1, Zenon DEF Election, TimerFires, becomeCandidate, HandleRequestVote, VoteReply,
                     VoteStepDown, leaderVars
<1>2. ASSUME Replication PROVE Goal
  BY <1>2, Zenon DEF Replication, HeartBeat, HeartBeatPanic, HeartBeatExit, Propose,
                     SendAppendEntries, AppendStale, AppendMismatch, AppendTruncateFails,
                     AppendGap, AppendAccept, FollowAppend, FollowLeader, AppendReplyStepDown,
                     leaderVars
<1>3. ASSUME SnapshotTransfer PROVE Goal
  BY <1>3, Zenon DEF SnapshotTransfer, SendInstallSnapshot, SnapshotStale, HandleInstallSnapshot,
                     FollowLeader, leaderVars
<1>4. ASSUME Failure PROVE Goal
  BY <1>4, Zenon DEF Failure, Crash, Start, Lose, leaderVars
<1> QED BY <1>1, <1>2, <1>3, <1>4 DEF Next

\* nextIndex of a peer after its answer is in the log or right behind it.
LEMMA NextAfterAnswer ==
    ASSUME Undisturbed, Known, UndisturbedInv, NEW c \in UnderWay, AtBookkeeping(c),
           NEW next \in 1 .. Len(node[c.from].log) + 1
    PROVE  NextIndexAfter(next, c) \in 1 .. Len(node[c.from].log) + 1
<1> DEFINE last == Len(node[c.from].log)
<1>1. c \in AppendEntriesAnswer /\ c.from \in Server /\ c.kind = "append"
  BY CallKind DEF AtBookkeeping, Known, TypeOK
<1>2. last \in Nat
  <2>1. node[c.from].log \in Seq(Entry)
    BY <1>1 DEF Known, TypeOK, Node
  <2> QED BY <2>1
<1>3. c.lastSent \in Nat /\ c.ConflictIndex \in Nat /\ c.Success \in BOOLEAN
  BY <1>1 DEF AppendEntriesAnswer
<1>4. CASE c.at = "stepped"
  <2>1. ~c.Success /\ c.ConflictIndex = 0
    BY <1>1, <1>4 DEF UndisturbedInv, ReachInv
  <2>2. NextIndexAfter(next, c) = IF next > 1 THEN next - 1 ELSE next
    BY <2>1 DEF NextIndexAfter
  <2> HIDE DEF last
  <2> QED BY <1>2, <2>2 DEF last
<1>5. CASE c.at # "stepped"
  <2>1. c.at = "reply" /\ c.Term = currentTerm[c.from]
    BY <1>5 DEF AtBookkeeping, InTime, Undisturbed
  <2>2. c.lastSent <= last /\ c.ConflictIndex <= last + 1
    BY <1>1, <2>1 DEF UndisturbedInv, ReachInv, InReach
  <2>3. next \in 1 .. last + 1
    OBVIOUS
  <2> HIDE DEF last
  <2> QED BY <1>2, <1>3, <2>2, <2>3 DEF NextIndexAfter, last
<1> QED BY <1>4, <1>5

LEMMA NextIndexStep ==
    ASSUME Undisturbed, Known, Known', UndisturbedInv, Next
    PROVE  NextInv'
<1> SUFFICES ASSUME NEW i \in Server, NEW p \in Server, state'[i] = Leader
             PROVE  nextIndex'[i][p] \in 1 .. Len(node'[i].log) + 1
  BY DEF NextInv
<1> DEFINE a == Len(node[i].log)
           b == Len(node'[i].log)
<1>0. /\ TypeOK /\ nextIndex \in [Server -> [Server -> Nat]]
      /\ state \in [Server -> {Follower, Candidate, Leader}]
      /\ \A c \in UnderWay : c.from \in Server /\ c.to \in Server
  BY CallKind DEF Known, TypeOK
<1>1. a \in Nat /\ b \in Nat /\ a <= b
  <2>1. node[i].log \in Seq(Entry) /\ node'[i].log \in Seq(Entry)
    BY DEF Known, TypeOK, Node
  <2>2. Grows(node[i].log, node'[i].log)
    BY LeaderLogGrows
  <2> QED BY <2>1, <2>2 DEF Grows
<1>2. state[i] = Leader => nextIndex[i][p] \in 1 .. a + 1
  BY DEF UndisturbedInv, NextInv
<1>3. ASSUME NEW c \in UnderWay, becomeLeader(c), c.from = i PROVE nextIndex'[i][p] \in 1 .. b + 1
  <2>1. nextIndex'[i][p] = LastIndex(node[i]) + 1
    BY <1>0, <1>3 DEF becomeLeader
  <2>2. LastIndex(node[i]) = a
    BY WholeFacts DEF Known, TypeOK, UndisturbedInv, AllWhole
  <2> HIDE DEF a, b
  <2> QED BY <1>1, <2>1, <2>2
<1>4. ASSUME state[i] = Leader, nextIndex'[i][p] \in 1 .. a + 1 PROVE nextIndex'[i][p] \in 1 .. b + 1
  <2> HIDE DEF a, b
  <2> QED BY <1>1, <1>4
<1>5. state[i] = Leader \/ \E c \in UnderWay : becomeLeader(c) /\ c.from = i
  BY <1>0, CalmUnlessElected, Elected DEF Calm
<1>6. ASSUME NEW c \in UnderWay, AppendSucceeded(c) \/ AppendFailed(c), state[i] = Leader
      PROVE  nextIndex'[i][p] \in 1 .. a + 1
  <2>1. AtBookkeeping(c) /\ nextIndex' = [nextIndex EXCEPT ![c.from][c.to] = NextIndexAfter(@, c)]
    BY <1>6 DEF AppendSucceeded, AppendFailed
  <2>2. CASE c.from = i /\ c.to = p
    <3>1. nextIndex'[i][p] = NextIndexAfter(nextIndex[i][p], c)
      BY <1>0, <2>1, <2>2
    <3> QED BY <1>2, <1>6, <2>1, <2>2, <3>1, NextAfterAnswer
  <2>3. CASE ~(c.from = i /\ c.to = p)
    <3>1. nextIndex'[i][p] = nextIndex[i][p]
      BY <1>0, <2>1, <2>3
    <3> QED BY <1>2, <1>6, <3>1
  <2> QED BY <2>2, <2>3
<1>7. ASSUME NEW c \in UnderWay, SnapshotReply(c) PROVE FALSE
  BY <1>7 DEF SnapshotReply, UndisturbedInv, AppendsOnly
<1>8. ASSUME NEW c \in UnderWay, becomeLeader(c), c.from # i PROVE nextIndex'[i][p] = nextIndex[i][p]
  BY <1>0, <1>8 DEF becomeLeader
<1> HIDE DEF a, b
<1>9. nextIndex'[i][p] \in 1 .. b + 1
  BY <1>2, <1>3, <1>4, <1>5, <1>6, <1>7, <1>8, NextIndexSteps, NodesRun
<1> QED BY <1>9 DEF b

\* The invariant holds at the start.
LEMMA UndisturbedInit ==
    ASSUME Init
    PROVE  UndisturbedInv
<1>1. TypeOK /\ UnderWay = {} /\ \A i \in Server : node[i] = EmptyNode
  BY InitFacts
<1>2. /\ EmptyNode.log = <<>> /\ EmptyNode.wal = <<>>
      /\ EmptyNode.logOffset = 0 /\ EmptyNode.lastSnapshotIndex = 0
  BY DEF EmptyNode, OnDisk
<1>3. AllWhole
  BY <1>1, <1>2, EmptyNodeType, BoundAssumption DEF AllWhole, Whole
<1>4. LogsWithin(node, Small)
  <2>1. <<>> \in Seq(Small)
    OBVIOUS
  <2> QED BY <1>1, <1>2, <2>1 DEF LogsWithin, Within
<1>5. NoCrash /\ ElectedLeads
  BY DEF Init, NoCrash, ElectedLeads
<1>6. NextInv
  BY DistinctStates DEF Init, NextInv
<1> QED BY <1>1, <1>3, <1>4, <1>5, <1>6 DEF UndisturbedInv, CallsWithin, AppendsOnly, ReachInv

\* And every step keeps it.
LEMMA UndisturbedStep ==
    ASSUME Undisturbed, Known, Known', UndisturbedInv, [Next]_vars
    PROVE  UndisturbedInv'
<1>1. CASE Next
  <2>1. NoCrash'
    <3>1. CASE Server = {}
      BY <3>1 DEF NoCrash
    <3>2. CASE Server # {}
      BY <1>1, <3>2, NodesRun
    <3> QED BY <3>1, <3>2
  <2>2. ElectedLeads' /\ AppendsOnly'
    BY <1>1, ElectedLeadsStep, AppendsOnlyStep
  <2>3. ReachInv' /\ NextInv'
    BY <1>1, <2>2, ReachStep, NextIndexStep
  <2>4. AllWhole' /\ LogsWithin(node, Small)' /\ CallsWithin(UnderWay, Small)'
    BY <1>1, WholeStep, SmallStep DEF LogsWithin, CallsWithin, Within
  <2> QED BY <2>1, <2>2, <2>3, <2>4 DEF UndisturbedInv
<1>2. CASE UNCHANGED vars
  <2>1. /\ UNCHANGED <<currentTerm, state, node, incarnation, elected, nextIndex>>
        /\ UnderWay' = UnderWay
    BY <1>2, Stutter DEF vars, leaderVars
  <2>2. NoCrash' /\ AllWhole' /\ LogsWithin(node, Small)' /\ CallsWithin(UnderWay, Small)'
    BY <2>1 DEF UndisturbedInv, NoCrash, AllWhole, LogsWithin, CallsWithin, Within
  <2>3. ElectedLeads' /\ AppendsOnly' /\ NextInv'
    BY <2>1 DEF UndisturbedInv, ElectedLeads, AppendsOnly, NextInv
  <2>4. ReachInv'
    BY <2>1 DEF UndisturbedInv, ReachInv, InReach
  <2> QED BY <2>2, <2>3, <2>4 DEF UndisturbedInv
<1> QED BY <1>1, <1>2

LEMMA UndisturbedInvAlways == Undisturbed => (Spec => [](Known /\ UndisturbedInv))
<1> SUFFICES ASSUME Undisturbed PROVE Spec => [](Known /\ UndisturbedInv)
  OBVIOUS
<1>1. ~LateWork
  BY DEF Undisturbed
<1>2. Spec => []ElectionInv /\ [](NoCrash => ElectionSafety)
  BY <1>1, ElectionInvAlways, ElectionSafetyInTime
<1>3. TypeOK /\ ElectionInv /\ (NoCrash => ElectionSafety) /\ ContiguityInv /\ OriginInv => Known
  BY DEF Known, OriginInv
<1>4. Spec => []Known
  BY <1>2, <1>3, TypeCorrect, ContiguityInvAlways, OriginInvAlways, PTL
<1>5. Init => UndisturbedInv
  BY UndisturbedInit
<1>6. Known /\ Known' /\ UndisturbedInv /\ [Next]_vars => UndisturbedInv'
  BY UndisturbedStep
<1> QED BY <1>4, <1>5, <1>6, PTL DEF Spec

\* No heartbeat of an undisturbed leader slices its log out of range, whatever
\* a follower answers (heartBeatLoop:644, the ConflictIndex of
\* HandleAppendEntries): nextIndex stays between 1 and the end of the log.
THEOREM NextIndexInLogUndisturbed == Undisturbed => (Spec => []NextIndexInLog)
<1> SUFFICES ASSUME Undisturbed PROVE Spec => []NextIndexInLog
  OBVIOUS
<1>1. Known /\ UndisturbedInv => NextIndexInLog
  <2> SUFFICES ASSUME Known, UndisturbedInv, NEW i \in Server, NEW p \in Server, state[i] = Leader
               PROVE  ~OutOfRange(i, p)
    BY DEF NextIndexInLog
  <2>1. node[i] \in Node /\ Whole(node[i]) /\ nextIndex[i][p] \in 1 .. Len(node[i].log) + 1
    BY DEF Known, TypeOK, UndisturbedInv, AllWhole, NextInv
  <2>2. nextIndex[i][p] \in Int /\ nextIndex[i][p] <= Len(node[i].log) + 1
    BY <2>1 DEF Known, TypeOK
  <2>3. Len(node[i].log) \in Nat /\ toSlicePos(node[i], nextIndex[i][p]) = nextIndex[i][p] - 1
    BY <2>1, <2>2, WholeFacts
  <2> QED BY <2>2, <2>3 DEF OutOfRange
<1> QED BY <1>1, UndisturbedInvAlways, PTL

\* No RPC of its own term makes an undisturbed leader a follower
\* (HandleAppendEntries:327, HandleInstallSnapshot:776): the sender of such an
\* RPC would be a second leader of the term, or the leader itself.
THEOREM LeaderKeepsTermUndisturbed == Undisturbed => (Spec => LeaderKeepsTerm)
<1> SUFFICES ASSUME Undisturbed PROVE Spec => LeaderKeepsTerm
  OBVIOUS
<1> DEFINE Keeps == \A i \in Server :
                       (state[i] = Leader /\ alive'[i] /\ currentTerm'[i] = currentTerm[i])
                           => state'[i] = Leader
<1>1. Known /\ UndisturbedInv /\ [Next]_vars => [Keeps]_vars
  BY KeepsLeading
<1>2. Spec => [](Known /\ UndisturbedInv)
  BY UndisturbedInvAlways
<1>3. Spec => [][Keeps]_vars
  BY <1>1, <1>2, PTL DEF Spec
<1> QED BY <1>3 DEF LeaderKeepsTerm

-----------------------------------------------------------------------------
(* Logs match.  H[t] is what the leader of term t has had in its log, the   *)
(* whole log at last; every entry of term t, wherever it is, has come from  *)
(* there together with all the entries before it.                           *)

\* r and s have the same first k entries.
Agree(r, s, k) == k <= Len(r) /\ k <= Len(s) /\ \A q \in 1 .. k : r[q] = s[q]

\* Every entry of s is at its index, and was there in the log of its leader.
Traced(H, s) == \A k \in DOMAIN s : s[k].Index = k /\ Agree(s, H[s[k].Term], k)

\* The request c carries a part of the log of its leader.
Copied(H, c) ==
    LET s == H[c.Term]
    IN  /\ c.PrevLogIndex + Len(c.Entries) <= Len(s)
        /\ \A q \in DOMAIN c.Entries : c.Entries[q] = s[c.PrevLogIndex + q]
        /\ c.PrevLogIndex > 0 => c.PrevLogTerm = s[c.PrevLogIndex].Term

MatchInv(H) ==
    /\ H \in [Nat -> Seq(Entry)]
    /\ \A t \in Nat : H[t] # <<>> => \E e \in elected : e[2] = t
    /\ \A i \in Server : state[i] = Leader => node[i].log = H[currentTerm[i]]
    /\ \A i \in Server : Traced(H, node[i].log)
    /\ \A t \in Nat : Traced(H, H[t])
    /\ \A c \in UnderWay : Carries(c) => Copied(H, c)

\* Positions below a bound.
LEMMA Below ==
    ASSUME NEW a \in Nat, NEW k \in Nat
    PROVE  /\ k <= a => \A q \in 1 .. k : q \in 1 .. a
           /\ \A b \in Nat : k <= a /\ a <= b => k <= b
           /\ k \in 1 .. a + 1 /\ k # a + 1 => k \in 1 .. a /\ k <= a
OBVIOUS

\* Positions and entries of a log.
LEMMA LogElements ==
    ASSUME NEW s \in Seq(Entry)
    PROVE  /\ Len(s) \in Nat /\ DOMAIN s = 1 .. Len(s)
           /\ \A k \in DOMAIN s : /\ k \in Nat /\ k >= 1 /\ k <= Len(s)
                                  /\ s[k] \in Entry /\ s[k].Term \in Nat /\ s[k].Index \in Nat
<1>1. Len(s) \in Nat /\ DOMAIN s = 1 .. Len(s) /\ \A k \in DOMAIN s : s[k] \in Entry
  OBVIOUS
<1> QED BY <1>1 DEF Entry

\* Two logs that hold an entry of the same index and term agree up to there.
LEMMA TermAgrees ==
    ASSUME NEW H \in [Nat -> Seq(Entry)], NEW r \in Seq(Entry), NEW s \in Seq(Entry),
           Traced(H, r), Traced(H, s),
           NEW k \in DOMAIN r, k \in DOMAIN s, r[k].Term = s[k].Term
    PROVE  Agree(r, s, k)
<1>1. Agree(r, H[r[k].Term], k) /\ Agree(s, H[r[k].Term], k)
  BY DEF Traced
<1> QED BY <1>1 DEF Agree

\* A log stays traced while the logs of the leaders grow.
LEMMA TracedGrows ==
    ASSUME NEW H \in [Nat -> Seq(Entry)], NEW H1 \in [Nat -> Seq(Entry)],
           \A t \in Nat : Grows(H[t], H1[t]), NEW s \in Seq(Entry), Traced(H, s)
    PROVE  Traced(H1, s)
<1> SUFFICES ASSUME NEW k \in DOMAIN s PROVE s[k].Index = k /\ Agree(s, H1[s[k].Term], k)
  BY DEF Traced
<1>1. k \in Nat /\ s[k].Term \in Nat
  BY LogElements
<1>3. PICK t \in Nat : t = s[k].Term
  BY <1>1
<1>4. s[k].Index = k /\ Agree(s, H[t], k)
  BY <1>3 DEF Traced
<1>5. Len(H[t]) \in Nat /\ Len(H1[t]) \in Nat
  BY LogElements
<1>6. Len(H[t]) <= Len(H1[t]) /\ \A q \in 1 .. Len(H[t]) : H1[t][q] = H[t][q]
  BY DEF Grows
<1>7. k <= Len(s) /\ k <= Len(H[t]) /\ \A q \in 1 .. k : s[q] = H[t][q]
  BY <1>4 DEF Agree
<1>8. k <= Len(H1[t]) /\ \A q \in 1 .. k : q \in 1 .. Len(H[t])
  <2>1. PICK a \in Nat, b \in Nat : a = Len(H[t]) /\ b = Len(H1[t])
    BY <1>5
  <2>2. k <= a /\ a <= b
    BY <1>6, <1>7, <2>1
  <2>3. k <= b /\ \A q \in 1 .. k : q \in 1 .. a
    BY <1>1, <2>2, Below, Zenon
  <2> QED BY <2>1, <2>3
<1>9. Agree(s, H1[t], k)
  BY <1>6, <1>7, <1>8, Zenon DEF Agree
<1> QED BY <1>3, <1>4, <1>9

\* What a traced log starts with is traced.
LEMMA TracedPrefix ==
    ASSUME NEW H \in [Nat -> Seq(Entry)], NEW r \in Seq(Entry), NEW s \in Seq(Entry),
           Traced(H, s), Agree(r, s, Len(r))
    PROVE  Traced(H, r)
<1> SUFFICES ASSUME NEW k \in DOMAIN r PROVE r[k].Index = k /\ Agree(r, H[r[k].Term], k)
  BY DEF Traced
<1>0. /\ Len(r) \in Nat /\ DOMAIN r = 1 .. Len(r) /\ Len(s) \in Nat /\ DOMAIN s = 1 .. Len(s)
      /\ Len(r) <= Len(s) /\ \A q \in 1 .. Len(r) : r[q] = s[q]
  BY LogElements DEF Agree
<1>1. k \in 1 .. Len(r) /\ k \in DOMAIN s /\ r[k] = s[k]
  BY <1>0
<1>2. s[k].Index = k /\ Agree(s, H[s[k].Term], k)
  BY <1>1 DEF Traced
<1>3. k <= Len(r) /\ \A q \in 1 .. k : q \in 1 .. Len(r)
  BY <1>0, <1>1
<1>4. \A q \in 1 .. k : r[q] = s[q]
  BY <1>0, <1>3, Zenon
<1> QED BY <1>1, <1>2, <1>3, <1>4 DEF Agree

\* The log of a leader with one more entry of its term.
LEMMA TracedAppend ==
    ASSUME NEW H \in [Nat -> Seq(Entry)], NEW r \in Seq(Entry), Traced(H, r),
           NEW e \in Entry, e.Index = Len(r) + 1, H[e.Term] = r \o <<e>>
    PROVE  Traced(H, r \o <<e>>)
<1>1. PICK s \in Seq(Entry) : /\ s = r \o <<e>> /\ Len(s) = Len(r) + 1 /\ s[Len(r) + 1] = e
                              /\ \A q \in 1 .. Len(r) : s[q] = r[q]
  <2>1. /\ r \o <<e>> \in Seq(Entry) /\ Len(r \o <<e>>) = Len(r) + 1
        /\ (r \o <<e>>)[Len(r) + 1] = e
        /\ \A q \in 1 .. Len(r) : (r \o <<e>>)[q] = r[q]
    OBVIOUS
  <2> QED BY <2>1
<1>2. Len(r) \in Nat /\ DOMAIN s = 1 .. Len(r) + 1 /\ DOMAIN r = 1 .. Len(r)
  BY <1>1, LogElements
<1> SUFFICES ASSUME NEW k \in DOMAIN s PROVE s[k].Index = k /\ Agree(s, H[s[k].Term], k)
  BY <1>1 DEF Traced
<1>3. CASE k = Len(r) + 1
  <2>1. H[s[k].Term] = s /\ s[k].Index = k
    BY <1>1, <1>3
  <2>2. k <= Len(s)
    BY <1>1, <1>2
  <2> QED BY <2>1, <2>2 DEF Agree
<1>4. CASE k # Len(r) + 1
  <2>1. k \in DOMAIN r /\ k \in Nat /\ k <= Len(r)
    <3>1. PICK a \in Nat : a = Len(r)
      BY <1>2
    <3>2. k \in 1 .. a + 1 /\ k # a + 1 /\ k \in Nat
      BY <1>2, <1>4, <3>1, LogElements
    <3>3. k \in 1 .. a /\ k \in Nat /\ k <= a
      BY <3>2, Below, Zenon
    <3> QED BY <1>2, <3>1, <3>3
  <2>2. s[k] = r[k]
    BY <1>1, <1>2, <2>1
  <2>3. r[k].Index = k /\ Agree(r, H[r[k].Term], k)
    BY <2>1 DEF Traced
  <2>4. \A q \in 1 .. k : q \in 1 .. Len(r)
    BY <1>2, <2>1
  <2>5. \A q \in 1 .. k : s[q] = r[q]
    BY <1>1, <2>4, Zenon
  <2>6. k <= Len(s)
    BY <1>1, <1>2, <2>1
  <2> QED BY <2>2, <2>3, <2>5, <2>6 DEF Agree
<1>5. s[k].Index = k /\ Agree(s, H[s[k].Term], k)
  BY <1>3, <1>4
<1> QED BY <1>5

\* A node that leads term t after the step.
LeadsNext(i, t) == state'[i] = Leader /\ currentTerm'[i] = t

\* The logs of the leaders after a step.
Led(H) ==
    [t \in Nat |-> IF \E i \in Server : LeadsNext(i, t)
                   THEN node'[CHOOSE i \in Server : LeadsNext(i, t)].log
                   ELSE H[t]]

\* The log of the leader of term t grows by an entry of that term.
Adds1(H, t) ==
    \E i \in Server : \E e \in Entry :
        /\ state'[i] = Leader /\ currentTerm[i] = t /\ currentTerm'[i] = t
        /\ H[t] = <<>> \/ (state[i] = Leader /\ H[t] = node[i].log)
        /\ e.Term = t /\ e.Index = Len(node[i].log) + 1
        /\ node'[i].log = node[i].log \o <<e>>
        /\ Led(H)[t] = node[i].log \o <<e>>

\* What is known of a step.
Stepping == Undisturbed /\ Known /\ Known' /\ UndisturbedInv /\ UndisturbedInv' /\ Next

LEMMA LedLeaders ==
    ASSUME Stepping, NEW H, NEW i \in Server, state'[i] = Leader
    PROVE  Led(H)[currentTerm'[i]] = node'[i].log
<1> DEFINE t == currentTerm'[i]
           j == CHOOSE x \in Server : LeadsNext(x, t)
<1>1. t \in Nat /\ LeadsNext(i, t)
  BY DEF Stepping, Known, TypeOK, LeadsNext
<1>2. j \in Server /\ LeadsNext(j, t)
  BY <1>1
<1> HIDE DEF j
<1>3. <<i, t>> \in elected' /\ <<j, t>> \in elected'
  BY <1>1, <1>2 DEF Stepping, Known, LeadersElected, LeadsNext
<1>4. ElectionSafety'
  BY DEF Stepping, Known, UndisturbedInv
<1>5. i = j
  BY <1>3, <1>4 DEF ElectionSafety
<1>6. Led(H)[t] = node'[j].log
  BY <1>1 DEF Led, j
<1> QED BY <1>5, <1>6

LEMMA LedSteps ==
    ASSUME Stepping, NEW H, MatchInv(H), NEW t \in Nat
    PROVE  Led(H)[t] = H[t] \/ Adds1(H, t)
<1>1. CASE ~\E i \in Server : LeadsNext(i, t)
  BY <1>1 DEF Led
<1>2. ASSUME NEW i \in Server, LeadsNext(i, t) PROVE Led(H)[t] = H[t] \/ Adds1(H, t)
  <2>0. TypeOK /\ Undisturbed /\ Known /\ UndisturbedInv /\ Next
    BY DEF Stepping, Known
  <2>1. state'[i] = Leader /\ currentTerm'[i] = t /\ currentTerm[i] = t
    BY <1>2, <2>0, LeaderTermStands DEF LeadsNext
  <2>2. Led(H)[t] = node'[i].log
    BY <2>1, LedLeaders
  <2>3. node[i] \in Node /\ Whole(node[i])
    BY DEF Stepping, Known, TypeOK, UndisturbedInv, AllWhole
  <2>4. ASSUME NEW command \in Command \cup {NoOp}
        PROVE  LET e == NewEntry(node[i], currentTerm[i], command)
               IN  e \in Entry /\ e.Term = t /\ e.Index = Len(node[i].log) + 1
    BY <2>1, <2>3, NewEntryType, WholeFacts DEF NewEntry
  <2>5. CASE state[i] = Leader
    <3>1. H[t] = node[i].log
      BY <2>1, <2>5 DEF MatchInv
    <3>2. CASE node'[i].log = node[i].log
      BY <2>2, <3>1, <3>2
    <3>3. ASSUME NEW command \in Command \cup {NoOp},
                 node'[i].log = node[i].log \o <<NewEntry(node[i], currentTerm[i], command)>>
          PROVE  Adds1(H, t)
      BY <2>1, <2>2, <2>4, <2>5, <3>1, <3>3 DEF Adds1
    <3> QED BY <2>0, <2>1, <3>2, <3>3, LeaderAppends
  <2>6. CASE state[i] # Leader
    <3>1. PICK c \in UnderWay : becomeLeader(c) /\ c.from = i
      BY <2>0, <2>1, <2>6, CalmUnlessElected, Elected DEF Calm
    <3>2. node'[i] = AppendAll(node[i], <<NewEntry(node[i], currentTerm[i], NoOp)>>)
      BY <3>1 DEF becomeLeader, Stepping, Known, TypeOK
    <3>3. node'[i].log = node[i].log \o <<NewEntry(node[i], currentTerm[i], NoOp)>>
      BY <2>3, <3>2, AppendSameData
    <3>4. H[t] = <<>>
      <4>1. SUFFICES ASSUME H[t] # <<>> PROVE FALSE
        OBVIOUS
      <4>2. PICK e \in elected : e[2] = t
        BY <4>1 DEF MatchInv
      <4>3. e \in elected' /\ <<i, t>> \in elected'
        BY <2>0, <2>1, <3>1, Elected
      <4>4. ElectionSafety'
        BY DEF Stepping, Known, UndisturbedInv
      <4>5. e = <<i, t>>
        <5>1. e[1] = i
          BY <4>2, <4>3, <4>4 DEF ElectionSafety
        <5>2. e \in Server \X Nat
          BY <2>0 DEF TypeOK
        <5> QED BY <4>2, <5>1, <5>2
      <4> QED BY <2>0, <2>1, <2>6, <4>2, <4>5 DEF UndisturbedInv, ElectedLeads
    <3> QED BY <2>1, <2>2, <2>4, <3>3, <3>4 DEF Adds1
  <2> QED BY <2>5, <2>6
<1> QED BY <1>1, <1>2

\* The logs of the leaders grow.
LEMMA LedGrows ==
    ASSUME Stepping, NEW H, MatchInv(H)
    PROVE  /\ H \in [Nat -> Seq(Entry)] /\ Led(H) \in [Nat -> Seq(Entry)]
           /\ \A t \in Nat : Grows(H[t], Led(H)[t])
<1>1. H \in [Nat -> Seq(Entry)] /\ \A i \in Server : node[i].log \in Seq(Entry)
  BY DEF MatchInv, Stepping, Known, TypeOK, Node
<1>2. ASSUME NEW t \in Nat PROVE Led(H)[t] \in Seq(Entry) /\ Grows(H[t], Led(H)[t])
  <2>1. CASE Led(H)[t] = H[t]
    <3>1. H[t] \in Seq(Entry)
      BY <1>1
    <3>2. Len(H[t]) \in Nat
      BY <3>1
    <3> QED BY <2>1, <3>1, <3>2 DEF Grows
  <2>2. CASE Adds1(H, t)
    <3>1. PICK i \in Server, e \in Entry : /\ H[t] = <<>> \/ H[t] = node[i].log
                                           /\ Led(H)[t] = node[i].log \o <<e>>
      BY <2>2 DEF Adds1
    <3>2. PICK r \in Seq(Entry) : r = node[i].log
      BY <1>1
    <3>3. /\ r \o <<e>> \in Seq(Entry) /\ Len(r \o <<e>>) = Len(r) + 1 /\ Len(r) \in Nat
          /\ \A q \in 1 .. Len(r) : (r \o <<e>>)[q] = r[q]
      OBVIOUS
    <3>4. Grows(<<>>, r \o <<e>>) /\ Grows(r, r \o <<e>>)
      BY <3>3 DEF Grows
    <3> QED BY <3>1, <3>2, <3>3, <3>4
  <2> QED BY <2>1, <2>2, LedSteps
<1>3. Led(H) = [t \in Nat |-> Led(H)[t]]
  BY DEF Led
<1>4. Led(H) \in [Nat -> Seq(Entry)]
  BY <1>2, <1>3
<1> QED BY <1>1, <1>2, <1>4

-----------------------------------------------------------------------------
\* What a request says of its leader's log.
LEMMA RequestFacts ==
    ASSUME Known, UndisturbedInv, NEW H, MatchInv(H), NEW c \in UnderWay, FollowAppend(c)
    PROVE  LET n == node[c.to]
               s == H[c.Term]
               prev == c.PrevLogIndex
           IN  /\ c.to \in Server /\ c.Term \in Nat /\ c.Entries \in Seq(Entry) /\ prev \in Nat
               /\ c.LeaderCommit \in Nat
               /\ n \in Node /\ Whole(n) /\ n.log \in Seq(Entry) /\ s \in Seq(Entry)
               /\ Traced(H, n.log) /\ Traced(H, s)
               /\ prev + Len(c.Entries) <= Len(s)
               /\ \A q \in DOMAIN c.Entries :
                     /\ prev + q \in DOMAIN s /\ c.Entries[q] = s[prev + q]
                     /\ c.Entries[q].Index = prev + q
               /\ prev > 0 => prev \in DOMAIN s /\ c.PrevLogTerm = s[prev].Term
<1> DEFINE s == H[c.Term]
           prev == c.PrevLogIndex
           es == c.Entries
<1>1. c \in AppendEntriesCall /\ c.to \in Server /\ c.Term \in Nat /\ Carries(c)
  BY CallKind DEF FollowAppend, FollowLeader, Known, TypeOK, Carries
<1>2. es \in Seq(Entry) /\ prev \in Nat /\ c.LeaderCommit \in Nat
  BY <1>1 DEF AppendEntriesCall
<1>3. node[c.to] \in Node /\ Whole(node[c.to]) /\ node[c.to].log \in Seq(Entry)
  BY <1>1 DEF Known, TypeOK, Node, UndisturbedInv, AllWhole
<1>4. s \in Seq(Entry) /\ Traced(H, s) /\ Traced(H, node[c.to].log) /\ Copied(H, c)
  BY <1>1 DEF MatchInv
<1>5. /\ prev + Len(es) <= Len(s) /\ \A q \in DOMAIN es : es[q] = s[prev + q]
      /\ prev > 0 => c.PrevLogTerm = s[prev].Term
  BY <1>4 DEF Copied
<1>6. Len(es) \in Nat /\ DOMAIN es = 1 .. Len(es) /\ Len(s) \in Nat /\ DOMAIN s = 1 .. Len(s)
  BY <1>2, <1>4, LogElements
<1> HIDE DEF es, prev, s
<1>7. ASSUME NEW q \in DOMAIN es PROVE prev + q \in DOMAIN s /\ es[q].Index = prev + q
  <2>1. prev + q \in DOMAIN s
    BY <1>2, <1>5, <1>6
  <2>2. s[prev + q].Index = prev + q
    BY <1>4, <2>1 DEF Traced
  <2> QED BY <1>5, <2>1, <2>2
<1>8. prev > 0 => prev \in DOMAIN s
  BY <1>2, <1>5, <1>6
<1> QED BY <1>1, <1>2, <1>3, <1>4, <1>5, <1>7, <1>8 DEF es, prev, s

\* The checks of the handler, in terms of the leader's log.
LEMMA HandlerChecks ==
    ASSUME Known, UndisturbedInv, NEW H, MatchInv(H), NEW c \in UnderWay, FollowAppend(c)
    PROVE  LET n == node[c.to]
               s == H[c.Term]
               prev == c.PrevLogIndex
           IN  /\ (PrevMatches(n, c) /\ prev <= Len(n.log)) => Agree(n.log, s, prev)
               /\ \A k \in Nat : (FirstNew(n, c.Entries, k) /\ k <= Len(c.Entries) + 1) =>
                     /\ \A q \in 1 .. k - 1 : Agree(n.log, s, prev + q)
                     /\ k \in DOMAIN c.Entries => ~Agree(n.log, s, prev + k)
<1> DEFINE n == node[c.to]
           s == H[c.Term]
           prev == c.PrevLogIndex
           es == c.Entries
           held(q) == HasEntry(n, es[q].Index) /\ EntryAt(n, es[q].Index).Term = es[q].Term
<1>1. /\ es \in Seq(Entry) /\ prev \in Nat /\ n \in Node /\ Whole(n)
      /\ n.log \in Seq(Entry) /\ s \in Seq(Entry) /\ Traced(H, n.log) /\ Traced(H, s)
      /\ \A q \in DOMAIN es : prev + q \in DOMAIN s /\ es[q] = s[prev + q] /\ es[q].Index = prev + q
      /\ prev > 0 => prev \in DOMAIN s /\ c.PrevLogTerm = s[prev].Term
  BY RequestFacts
<1>2. H \in [Nat -> Seq(Entry)]
  BY DEF MatchInv
<1>3. /\ Len(n.log) \in Nat /\ DOMAIN n.log = 1 .. Len(n.log)
      /\ Len(s) \in Nat /\ DOMAIN s = 1 .. Len(s)
      /\ Len(es) \in Nat /\ DOMAIN es = 1 .. Len(es)
  BY <1>1, LogElements
<1>4. /\ \A k : HasEntry(n, k) <=> k \in DOMAIN n.log
      /\ \A k \in DOMAIN n.log : EntryAt(n, k) = n.log[k]
  BY <1>1, WholeFacts
<1>5. ASSUME PrevMatches(n, c), prev <= Len(n.log) PROVE Agree(n.log, s, prev)
  <2>1. CASE prev = 0
    BY <1>3, <2>1 DEF Agree
  <2>2. CASE prev > 0
    <3>1. prev \in DOMAIN n.log /\ prev \in DOMAIN s
      BY <1>1, <1>3, <1>5, <2>2
    <3>2. n.log[prev].Term = s[prev].Term
      BY <1>1, <1>4, <1>5, <2>2, <3>1 DEF PrevMatches
    <3> HIDE DEF n, s, prev
    <3> QED BY <1>1, <1>2, <3>1, <3>2, TermAgrees
  <2> HIDE DEF n, s, prev
  <2> QED BY <1>1, <2>1, <2>2
<1>6. ASSUME NEW q \in DOMAIN es PROVE held(q) <=> Agree(n.log, s, prev + q)
  <2>1. prev + q \in DOMAIN s /\ es[q] = s[prev + q] /\ es[q].Index = prev + q
    BY <1>1
  <2>2. ASSUME held(q) PROVE Agree(n.log, s, prev + q)
    <3>1. prev + q \in DOMAIN n.log
      BY <1>4, <2>1, <2>2
    <3>2. n.log[prev + q].Term = s[prev + q].Term
      BY <1>4, <2>1, <2>2, <3>1
    <3> HIDE DEF n, s, prev
    <3> QED BY <1>1, <1>2, <2>1, <3>1, <3>2, TermAgrees
  <2>3. ASSUME Agree(n.log, s, prev + q) PROVE held(q)
    <3>1. prev + q \in 1 .. Len(s) /\ prev + q <= Len(n.log)
      BY <1>3, <2>1, <2>3 DEF Agree
    <3>2. prev + q \in DOMAIN n.log /\ prev + q \in 1 .. prev + q
      <4> HIDE DEF n, s, prev
      <4> QED BY <1>1, <1>3, <3>1
    <3>3. n.log[prev + q] = s[prev + q]
      BY <2>3, <3>2 DEF Agree
    <3> QED BY <1>4, <2>1, <3>2, <3>3
  <2> QED BY <2>2, <2>3
<1>7. ASSUME NEW k \in Nat, FirstNew(n, es, k), k <= Len(es) + 1
      PROVE  /\ \A q \in 1 .. k - 1 : Agree(n.log, s, prev + q)
             /\ k \in DOMAIN es => ~Agree(n.log, s, prev + k)
  <2>1. (\A q \in 1 .. k - 1 : held(q)) /\ (k \in DOMAIN es => ~held(k))
    BY <1>7 DEF FirstNew
  <2>2. \A q \in 1 .. k - 1 : q \in DOMAIN es
    BY <1>3, <1>7
  <2> HIDE DEF held
  <2> QED BY <1>6, <2>1, <2>2
<1> QED BY <1>5, <1>7

\* A follower that accepts a request has the entries of the leader up to the
\* last one that was sent; where its log agreed with the leader's, it still
\* does.
LEMMA AcceptedLog ==
    ASSUME Known, UndisturbedInv, NEW H, MatchInv(H), NEW c \in UnderWay, FollowAppend(c),
           NEW k, Accepts(c, k)
    PROVE  LET r == node[c.to].log
               s == H[c.Term]
               m == StoreEntries(node[c.to], c.Entries, k).log
           IN  /\ m = r \/ (m \in Seq(Entry) => Agree(m, s, Len(m)))
               /\ c.Entries # <<>> => Agree(m, s, c.PrevLogIndex + Len(c.Entries))
               /\ \A x \in Nat : Agree(r, s, x) => Agree(m, s, x)
<1> DEFINE n == node[c.to]
           r == n.log
           s == H[c.Term]
           prev == c.PrevLogIndex
           es == c.Entries
           m == StoreEntries(n, es, k).log
<1>1. /\ es \in Seq(Entry) /\ prev \in Nat /\ n \in Node /\ Whole(n)
      /\ r \in Seq(Entry) /\ s \in Seq(Entry) /\ prev + Len(es) <= Len(s)
      /\ \A q \in DOMAIN es : prev + q \in DOMAIN s /\ es[q] = s[prev + q] /\ es[q].Index = prev + q
  BY RequestFacts
<1>2. /\ Len(r) \in Nat /\ Len(s) \in Nat /\ DOMAIN s = 1 .. Len(s)
      /\ Len(es) \in Nat /\ DOMAIN es = 1 .. Len(es)
  BY <1>1, LogElements
<1>3. /\ k \in 1 .. Len(es) + 1 /\ PrevMatches(n, c) /\ FirstNew(n, es, k)
      /\ k \in DOMAIN es => IF Conflicts(n, es, k) THEN CanTruncateAfter(n.wal, es[k].Index - 1)
                            ELSE LinesUp(n, es, k)
  BY DEF Accepts
<1>4. k \in Nat /\ k >= 1 /\ k <= Len(es) + 1
  BY <1>2, <1>3
<1>5. /\ prev <= Len(r) => Agree(r, s, prev)
      /\ \A q \in 1 .. k - 1 : Agree(r, s, prev + q)
      /\ k \in DOMAIN es => ~Agree(r, s, prev + k)
  BY <1>3, <1>4, HandlerChecks
<1>6. /\ k = Len(es) + 1 => m = r
      /\ k \in DOMAIN es => es[k].Index \in 1 .. Len(r) + 1 /\ Joined(m, r, es[k].Index, es, k)
  <2> HIDE DEF n, es
  <2> QED BY <1>1, <1>3, StoredLog
<1> DEFINE Goal == /\ m = r \/ (m \in Seq(Entry) => Agree(m, s, Len(m)))
                   /\ es # <<>> => Agree(m, s, prev + Len(es))
                   /\ \A x \in Nat : Agree(r, s, x) => Agree(m, s, x)
<1>7. ASSUME k = Len(es) + 1 PROVE Goal
  <2>1. m = r
    BY <1>6, <1>7
  <2>2. es # <<>> => Len(es) \in 1 .. k - 1
    BY <1>1, <1>2, <1>7, EmptySeq
  <2>3. es # <<>> => Agree(r, s, prev + Len(es))
    BY <1>5, <2>2
  <2> QED BY <2>1, <2>3
<1>8. ASSUME k \in DOMAIN es PROVE Goal
  <2> HIDE DEF n, r, s, prev, es, m
  <2>1. prev + k \in 1 .. Len(r) + 1 /\ Joined(m, r, prev + k, es, k)
    BY <1>1, <1>6, <1>8
  <2>2. Agree(r, s, prev + k - 1)
    <3>1. CASE k = 1
      <4>1. prev <= Len(r) /\ prev + k - 1 = prev
        BY <1>1, <1>2, <1>4, <2>1, <3>1
      <4> QED BY <1>5, <4>1
    <3>2. CASE k # 1
      <4>1. k - 1 \in 1 .. k - 1 /\ prev + (k - 1) = prev + k - 1
        BY <1>1, <1>4, <3>2
      <4> QED BY <1>5, <4>1
    <3> QED BY <3>1, <3>2
  <2>3. /\ Len(m) = prev + Len(es) /\ Len(m) \in Nat /\ Len(m) <= Len(s)
        /\ \A q \in 1 .. prev + k - 1 : m[q] = r[q]
        /\ \A q \in prev + k .. Len(m) : m[q] = es[q - prev]
    <3>1. /\ Len(m) = (prev + k) - 1 + (Len(es) - k + 1)
          /\ \A q \in 1 .. (prev + k) - 1 : m[q] = r[q]
          /\ \A q \in prev + k .. Len(m) : m[q] = es[k + q - (prev + k)]
      BY <2>1 DEF Joined
    <3>2. Len(m) = prev + Len(es) /\ Len(m) \in Nat
      BY <1>1, <1>2, <1>4, <3>1
    <3>3. \A q \in prev + k .. Len(m) : k + q - (prev + k) = q - prev
      BY <1>1, <1>4, <3>2
    <3>4. Len(m) <= Len(s)
      BY <1>1, <3>2
    <3>5. \A q \in 1 .. prev + k - 1 : m[q] = r[q]
      <4>1. (prev + k) - 1 = prev + k - 1
        BY <1>1, <1>4
      <4> QED BY <3>1, <4>1, Zenon
    <3>6. \A q \in prev + k .. Len(m) : m[q] = es[q - prev]
      BY <3>1, <3>3
    <3> QED BY <3>2, <3>4, <3>5, <3>6
  <2>4. ASSUME NEW q \in 1 .. Len(m) PROVE m[q] = s[q]
    <3>1. CASE q <= prev + k - 1
      <4>1. q \in 1 .. prev + k - 1
        BY <1>1, <1>4, <2>3, <3>1
      <4>2. m[q] = r[q] /\ r[q] = s[q]
        BY <2>2, <2>3, <4>1 DEF Agree
      <4> QED BY <4>2
    <3>2. CASE ~(q <= prev + k - 1)
      <4>1. q \in prev + k .. Len(m) /\ q - prev \in DOMAIN es /\ prev + (q - prev) = q
        BY <1>1, <1>2, <1>4, <2>3, <3>2
      <4> QED BY <1>1, <2>3, <4>1
    <3> QED BY <3>1, <3>2
  <2>5. Agree(m, s, Len(m))
    BY <2>3, <2>4 DEF Agree
  <2>6. ASSUME NEW x \in Nat, Agree(r, s, x) PROVE Agree(m, s, x)
    <3>1. ~(prev + k <= x)
      <4>1. SUFFICES ASSUME prev + k <= x PROVE FALSE
        OBVIOUS
      <4>2. prev + k <= Len(r) /\ prev + k <= Len(s) /\ \A q \in 1 .. prev + k : q \in 1 .. x
        BY <1>1, <1>2, <1>4, <2>6, <4>1 DEF Agree
      <4>3. Agree(r, s, prev + k)
        BY <2>6, <4>2 DEF Agree
      <4> QED BY <1>5, <1>8, <4>3
    <3>2. x <= Len(m) /\ x <= Len(s) /\ \A q \in 1 .. x : q \in 1 .. Len(m)
      BY <1>1, <1>2, <1>4, <2>3, <3>1
    <3> QED BY <2>4, <3>2 DEF Agree
  <2> QED BY <2>3, <2>5, <2>6
<1>9. k = Len(es) + 1 \/ k \in DOMAIN es
  BY <1>2, <1>3
<1> QED BY <1>7, <1>8, <1>9

\* A follower that cuts its log keeps what agrees with the leader's.
LEMMA CutLog ==
    ASSUME Known, UndisturbedInv, NEW H, MatchInv(H), NEW c \in UnderWay, FollowAppend(c),
           NEW k, Cuts(c, k)
    PROVE  LET r == node[c.to].log
               s == H[c.Term]
               m == SubSeq(r, 1, toSlicePos(node[c.to], c.Entries[k].Index))
           IN  /\ m \in Seq(Entry) /\ Agree(m, r, Len(m))
               /\ \A x \in Nat : Agree(r, s, x) => Agree(m, s, x)
<1> DEFINE n == node[c.to]
           r == n.log
           s == H[c.Term]
           prev == c.PrevLogIndex
           es == c.Entries
           m == SubSeq(r, 1, toSlicePos(n, es[k].Index))
<1>1. /\ es \in Seq(Entry) /\ prev \in Nat /\ n \in Node /\ Whole(n)
      /\ r \in Seq(Entry) /\ s \in Seq(Entry)
      /\ \A q \in DOMAIN es : es[q].Index = prev + q
  BY RequestFacts
<1>2. /\ Len(r) \in Nat /\ DOMAIN r = 1 .. Len(r) /\ Len(s) \in Nat
      /\ Len(es) \in Nat /\ DOMAIN es = 1 .. Len(es)
  BY <1>1, LogElements
<1>3. k \in DOMAIN es /\ HasEntry(n, es[k].Index) /\ FirstNew(n, es, k)
  BY DEF Cuts, Conflicts
<1>4. k \in Nat /\ k >= 1 /\ k <= Len(es) + 1
  BY <1>2, <1>3
<1>5. ~Agree(r, s, prev + k)
  BY <1>3, <1>4, HandlerChecks
<1>6. prev + k \in 1 .. Len(r)
  BY <1>1, <1>2, <1>3, WholeFacts
<1>7. m = SubSeq(r, 1, prev + k - 1)
  <2>1. prev + k \in Int /\ es[k].Index = prev + k
    BY <1>1, <1>3, <1>4
  <2>2. toSlicePos(n, prev + k) = prev + k - 1
    <3>1. \A x \in Int : toSlicePos(n, x) = x - 1
      BY <1>1, WholeFacts
    <3>2. (prev + k) - 1 = prev + k - 1
      BY <1>1, <1>4
    <3> QED BY <2>1, <3>1, <3>2, Zenon
  <2> QED BY <2>1, <2>2
<1> HIDE DEF n, r, s, prev, es, m
<1>8. prev + k - 1 \in 0 .. Len(r)
  BY <1>1, <1>2, <1>4, <1>6
<1>9. m \in Seq(Entry) /\ Len(m) = prev + k - 1 /\ \A q \in 1 .. prev + k - 1 : m[q] = r[q]
  BY <1>1, <1>7, <1>8, Prefix
<1>10. Agree(m, r, Len(m))
  BY <1>2, <1>8, <1>9 DEF Agree
<1>11. ASSUME NEW x \in Nat, Agree(r, s, x) PROVE Agree(m, s, x)
  <2>1. ~(prev + k <= x)
    <3>1. SUFFICES ASSUME prev + k <= x PROVE FALSE
      OBVIOUS
    <3>2. prev + k <= Len(r) /\ prev + k <= Len(s) /\ \A q \in 1 .. prev + k : q \in 1 .. x
      BY <1>1, <1>2, <1>4, <1>11, <3>1 DEF Agree
    <3>3. Agree(r, s, prev + k)
      BY <1>11, <3>2 DEF Agree
    <3> QED BY <1>5, <3>3
  <2>2. x <= Len(m) /\ \A q \in 1 .. x : q \in 1 .. prev + k - 1
    BY <1>1, <1>4, <1>9, <2>1
  <2> QED BY <1>9, <1>11, <2>2 DEF Agree
<1> QED BY <1>9, <1>10, <1>11 DEF n, r, s, prev, es, m

\* A heartbeat copies the leader's log from nextIndex on.
LEMMA AppendForCopied ==
    ASSUME Known, UndisturbedInv, NEW H, MatchInv(H),
           NEW i \in Server, NEW p \in Server, state[i] = Leader
    PROVE  LET d == AppendFor(i, p)
               next == nextIndex[i][p]
           IN  /\ d.Term = currentTerm[i] /\ d.from = i /\ d.to = p /\ d.PrevLogIndex = next - 1
               /\ d.Entries \in Seq(Entry) /\ Len(d.Entries) = Len(node[i].log) - (next - 1)
               /\ next - 1 = 0 => d.PrevLogTerm = 0
               /\ Copied(H, d)
<1> DEFINE n == node[i]
           s == n.log
           next == nextIndex[i][p]
           prev == next - 1
           d == AppendFor(i, p)
<1>1. n \in Node /\ Whole(n) /\ s \in Seq(Entry) /\ next \in 1 .. Len(s) + 1 /\ next \in Nat
  BY DEF Known, TypeOK, Node, UndisturbedInv, AllWhole, NextInv
<1>2. Len(s) \in Nat /\ DOMAIN s = 1 .. Len(s)
  BY <1>1, LogElements
<1>3. s = H[currentTerm[i]]
  BY DEF MatchInv
<1>4. prev \in 0 .. Len(s) /\ prev \in Nat /\ next = prev + 1
  BY <1>1, <1>2
<1>5. toSlicePos(n, next) = prev /\ \A k : HasEntry(n, k) <=> k \in DOMAIN s
  <2>1. /\ \A k \in Int : toSlicePos(n, k) = k - 1
        /\ \A k : HasEntry(n, k) <=> k \in DOMAIN s
    BY <1>1, WholeFacts
  <2>2. next \in Int
    BY <1>1
  <2> QED BY <2>1, <2>2, Zenon
<1>6. ~Compacted(i, p)
  BY <1>4, <1>5 DEF Compacted
<1>7. /\ d.Term = currentTerm[i] /\ d.from = i /\ d.to = p /\ d.PrevLogIndex = prev
      /\ d.PrevLogTerm = IF HasEntry(n, prev) THEN EntryAt(n, prev).Term ELSE 0
      /\ d.Entries = SubSeq(s, prev + 1, Len(s))
  BY <1>5, <1>6 DEF AppendFor
<1> HIDE DEF d, prev, next
<1>8. /\ d.Entries \in Seq(Entry) /\ Len(d.Entries) = Len(s) - prev
      /\ \A q \in 1 .. Len(s) - prev : d.Entries[q] = s[prev + q]
  <2> HIDE DEF s, n
  <2> QED BY <1>1, <1>4, <1>7, Suffix
<1>9. prev > 0 => d.PrevLogTerm = s[prev].Term
  <2>1. ASSUME prev > 0 PROVE prev \in DOMAIN s
    <3> HIDE DEF s, n
    <3> QED BY <1>2, <1>4, <2>1
  <2>2. prev \in DOMAIN s => EntryAt(n, prev) = s[prev]
    BY <1>1, WholeFacts
  <2> QED BY <1>5, <1>7, <2>1, <2>2
<1>10. prev = 0 => d.PrevLogTerm = 0
  BY <1>2, <1>5, <1>7
<1>11. Copied(H, d)
  <2>1. prev + Len(d.Entries) <= Len(s) /\ DOMAIN d.Entries = 1 .. Len(s) - prev
    <3> HIDE DEF s, n
    <3> QED BY <1>2, <1>4, <1>8, LogElements
  <2> QED BY <1>3, <1>7, <1>8, <1>9, <2>1 DEF Copied
<1>12. /\ d.PrevLogIndex = next - 1 /\ Len(d.Entries) = Len(s) - (next - 1)
       /\ next - 1 = 0 => d.PrevLogTerm = 0
  BY <1>7, <1>8, <1>10 DEF prev
<1> QED BY <1>7, <1>8, <1>11, <1>12 DEF d, next

\* What is sent is what was copied.
LEMMA SentIsCopied ==
    ASSUME Undisturbed, Known, UndisturbedInv, NEW H, MatchInv(H),
           NEW c \in UnderWay, SendAppendEntries(c), NEW seen \in SUBSET Shown(c)
    PROVE  LET d == Sent(c, seen)
           IN  /\ d.from = c.from /\ d.to = c.to /\ d.Term = c.Term /\ d.Entries = c.Entries
               /\ d.PrevLogIndex = c.PrevLogIndex /\ d.PrevLogTerm = c.PrevLogTerm
               /\ d.LeaderCommit = node[c.from].commitIndex
               /\ c.from \in Server /\ c.Term = currentTerm[c.from] /\ state[c.from] = Leader
<1> DEFINE n == node[c.from]
           s == n.log
           es == c.Entries
           shown == [k \in DOMAIN es |-> IF k \in seen THEN EntryAt(n, es[k].Index) ELSE es[k]]
<1>1. /\ c \in AppendEntriesCall /\ c.from \in Server /\ Carries(c) /\ c.kind = "append"
      /\ c.Term = currentTerm[c.from]
  BY CallKind DEF SendAppendEntries, Known, TypeOK, Carries, InTime, Undisturbed
<1>2. state[c.from] = Leader
  <2>1. <<c.from, c.Term>> \in elected
    BY <1>1 DEF UndisturbedInv, AppendsOnly
  <2> QED BY <1>1, <2>1 DEF UndisturbedInv, ElectedLeads
<1>3. s = H[c.Term] /\ Copied(H, c)
  BY <1>1, <1>2 DEF MatchInv
<1>4. n \in Node /\ Whole(n) /\ es \in Seq(Entry) /\ c.PrevLogIndex \in Nat /\ s \in Seq(Entry)
  BY <1>1 DEF Known, TypeOK, Node, UndisturbedInv, AllWhole, AppendEntriesCall
<1>5. ASSUME NEW k \in DOMAIN es PROVE shown[k] = es[k]
  <2>1. es[k] = s[c.PrevLogIndex + k] /\ c.PrevLogIndex + Len(es) <= Len(s)
    BY <1>3 DEF Copied
  <2>2. c.PrevLogIndex + k \in DOMAIN s
    <3>1. /\ Len(s) \in Nat /\ DOMAIN s = 1 .. Len(s) /\ Len(es) \in Nat /\ DOMAIN es = 1 .. Len(es)
      BY <1>4, LogElements
    <3> HIDE DEF s, es
    <3> QED BY <1>4, <2>1, <3>1
  <2>3. es[k].Index = c.PrevLogIndex + k /\ EntryAt(n, c.PrevLogIndex + k) = s[c.PrevLogIndex + k]
    BY <1>4, <2>1, <2>2, WholeFacts
  <2> QED BY <2>1, <2>3
<1>6. shown = es
  <2>1. es = [k \in DOMAIN es |-> es[k]]
    BY <1>4
  <2> HIDE DEF es
  <2> QED BY <1>5, <2>1
<1> HIDE DEF shown
<1>7. Sent(c, seen) = [c EXCEPT !.at = "request", !.LeaderCommit = n.commitIndex, !.Entries = shown]
  BY DEF Sent, shown
<1> QED BY <1>1, <1>2, <1>6, <1>7 DEF AppendEntriesCall

\* What a step keeps of the matching of logs.
LEMMA MatchStep ==
    ASSUME Stepping, NEW H, MatchInv(H), NEW G, G = Led(H)
    PROVE  MatchInv(G)'
<1>0. Undisturbed /\ Known /\ UndisturbedInv /\ Next /\ TypeOK
  BY DEF Stepping, Known
<1>1. /\ H \in [Nat -> Seq(Entry)] /\ G \in [Nat -> Seq(Entry)]
      /\ \A t \in Nat : Grows(H[t], G[t])
  BY LedGrows
<1>2. /\ \A i \in Server : node[i].log \in Seq(Entry) /\ node'[i].log \in Seq(Entry)
      /\ \A i \in Server : currentTerm[i] \in Nat
  BY DEF Stepping, Known, TypeOK, Node
<1>3. \A i \in Server : state'[i] = Leader => node'[i].log = G[currentTerm'[i]]
  BY LedLeaders
<1>4. \A i \in Server : Traced(G, node[i].log)
  BY <1>1, <1>2, TracedGrows DEF MatchInv
<1>5. ASSUME NEW t \in Nat PROVE Traced(G, G[t]) /\ (G[t] # <<>> => \E e \in elected' : e[2] = t)
  <2>1. CASE G[t] = H[t]
    <3>1. Traced(G, H[t])
      BY <1>1, TracedGrows DEF MatchInv
    <3> QED BY <1>0, <2>1, <3>1, ElectedGrows DEF MatchInv
  <2>2. CASE Adds1(H, t)
    <3>1. PICK i \in Server, e \in Entry :
             /\ state'[i] = Leader /\ currentTerm'[i] = t
             /\ e.Term = t /\ e.Index = Len(node[i].log) + 1 /\ G[t] = node[i].log \o <<e>>
      BY <2>2 DEF Adds1
    <3>2. Traced(G, node[i].log \o <<e>>)
      BY <1>1, <1>2, <1>4, <3>1, TracedAppend
    <3>3. <<i, t>> \in elected'
      BY <3>1 DEF Stepping, Known, LeadersElected
    <3> QED BY <3>1, <3>2, <3>3
  <2> QED BY <2>1, <2>2, LedSteps
<1>6. ASSUME NEW i \in Server PROVE Traced(G, node'[i].log)
  <2>1. CASE node'[i].log = node[i].log
    BY <1>4, <2>1
  <2>2. CASE state'[i] = Leader
    <3>1. currentTerm'[i] \in Nat
      BY DEF Stepping, Known, TypeOK
    <3> QED BY <1>3, <1>5, <2>2, <3>1
  <2>3. ASSUME NEW c \in UnderWay, NEW k, FollowAppend(c), c.to = i, Cuts(c, k),
               node'[i].log = SubSeq(node[i].log, 1, toSlicePos(node[i], c.Entries[k].Index))
        PROVE  Traced(G, node'[i].log)
    <3>1. Agree(node'[i].log, node[i].log, Len(node'[i].log))
      BY <1>0, <2>3, CutLog
    <3> QED BY <1>1, <1>2, <1>4, <3>1, TracedPrefix
  <2>4. ASSUME NEW c \in UnderWay, NEW k, FollowAppend(c), c.to = i, Accepts(c, k),
               node'[i].log = StoreEntries(node[i], c.Entries, k).log
        PROVE  Traced(G, node'[i].log)
    <3>1. node'[i].log = node[i].log \/ Agree(node'[i].log, H[c.Term], Len(node'[i].log))
      BY <1>0, <1>2, <2>4, AcceptedLog
    <3>2. c.Term \in Nat /\ H[c.Term] \in Seq(Entry)
      BY <1>0, <2>4, RequestFacts
    <3>3. Traced(G, H[c.Term])
      BY <1>1, <3>2, TracedGrows DEF MatchInv
    <3> QED BY <1>1, <1>2, <1>4, <3>1, <3>2, <3>3, TracedPrefix
  <2>5. LogStep(i)
    BY <1>0, LogSteps
  <2> QED BY <2>1, <2>2, <2>3, <2>4, <2>5 DEF LogStep
<1>7. ASSUME NEW d, d.Term \in Nat, d.Entries \in Seq(Entry), d.PrevLogIndex \in Nat, Copied(H, d)
      PROVE  Copied(G, d)
  <2> DEFINE s == H[d.Term]
             g == G[d.Term]
             prev == d.PrevLogIndex
  <2>1. Len(s) \in Nat /\ Len(g) \in Nat /\ DOMAIN d.Entries = 1 .. Len(d.Entries) /\ Len(d.Entries) \in Nat
    BY <1>1, <1>7, LogElements
  <2>2. Len(s) <= Len(g) /\ \A q \in 1 .. Len(s) : g[q] = s[q]
    BY <1>1, <1>7 DEF Grows
  <2>3. /\ prev + Len(d.Entries) <= Len(s) /\ \A q \in DOMAIN d.Entries : d.Entries[q] = s[prev + q]
        /\ prev > 0 => d.PrevLogTerm = s[prev].Term
    BY <1>7 DEF Copied
  <2> HIDE DEF s, g
  <2>4. /\ prev + Len(d.Entries) <= Len(g)
        /\ prev > 0 => prev \in 1 .. Len(s)
        /\ \A q \in DOMAIN d.Entries : prev + q \in 1 .. Len(s)
    BY <1>7, <2>1, <2>2, <2>3
  <2> HIDE DEF prev
  <2>5. \A q \in DOMAIN d.Entries : d.Entries[q] = g[prev + q]
    BY <2>2, <2>3, <2>4
  <2>6. prev > 0 => d.PrevLogTerm = g[prev].Term
    BY <2>2, <2>3, <2>4
  <2>7. /\ prev > 0 => d.PrevLogTerm = G[d.Term][prev].Term
        /\ prev + Len(d.Entries) <= Len(G[d.Term])
        /\ \A q \in DOMAIN d.Entries : d.Entries[q] = G[d.Term][prev + q]
    BY <2>4, <2>5, <2>6 DEF g
  <2> QED BY <1>7, <2>7 DEF Copied, prev
<1>8. ASSUME NEW d \in UnderWay', Carries(d) PROVE Copied(G, d)
  <2>1. d.Term \in Nat /\ d.Entries \in Seq(Entry) /\ d.PrevLogIndex \in Nat
    <3>1. d \in AppendEntriesCall
      BY <1>8, CallKind DEF Stepping, Known, TypeOK, Carries
    <3> QED BY <3>1 DEF AppendEntriesCall
  <2>2. CASE d \in UnderWay
    BY <1>7, <1>8, <2>1, <2>2 DEF MatchInv
  <2>3. ASSUME NEW i \in Server, NEW p \in Server \ {i}, HeartBeat(i), d = AppendFor(i, p)
        PROVE  Copied(H, d)
    BY <1>0, <2>3, AppendForCopied DEF HeartBeat
  <2>4. ASSUME NEW c \in UnderWay, SendAppendEntries(c), NEW seen \in SUBSET Shown(c),
               d = Sent(c, seen)
        PROVE  Copied(H, d)
    <3>1. Copied(H, c)
      BY <2>4 DEF MatchInv, Carries, SendAppendEntries
    <3> QED BY <1>0, <2>4, <3>1, SentIsCopied DEF Copied
  <2> QED BY <1>0, <1>7, <1>8, <2>1, <2>2, <2>3, <2>4, NewAppend
<1> QED BY <1>1, <1>3, <1>5, <1>6, <1>8 DEF MatchInv, Carries, Copied, Traced, Agree

\* The logs match in every state.
LEMMA MatchInvAlways == Undisturbed => (Spec => [](\E H : MatchInv(H)))
<1> SUFFICES ASSUME Undisturbed PROVE Spec => [](\E H : MatchInv(H))
  OBVIOUS
<1> DEFINE K == Known /\ UndisturbedInv
           M == \E H : MatchInv(H)
<1>1. Init => M
  <2> SUFFICES ASSUME Init PROVE MatchInv([t \in Nat |-> <<>>])
    OBVIOUS
  <2>1. UnderWay = {} /\ \A i \in Server : node[i].log = <<>>
    BY InitFacts DEF EmptyNode, OnDisk
  <2>2. \A i \in Server : state[i] # Leader
    BY DistinctStates DEF Init
  <2>3. \A H : Traced(H, <<>>)
    BY DEF Traced
  <2>4. <<>> \in Seq(Entry)
    OBVIOUS
  <2> QED BY <2>1, <2>2, <2>3, <2>4 DEF MatchInv
<1>2. K /\ K' /\ M /\ [Next]_vars => M'
  <2> SUFFICES ASSUME K, K', NEW H, MatchInv(H), [Next]_vars PROVE \E G : MatchInv(G)'
    OBVIOUS
  <2>1. CASE Next
    <3>1. Stepping
      BY <2>1 DEF Stepping
    <3> QED BY <3>1, MatchStep
  <2>2. CASE UNCHANGED vars
    <3>1. UNCHANGED <<currentTerm, state, node, elected>> /\ UnderWay' = UnderWay
      BY <2>2, Stutter
    <3> QED BY <3>1 DEF MatchInv
  <2> QED BY <2>1, <2>2
<1>3. Spec => []K
  BY UndisturbedInvAlways
<1> QED BY <1>1, <1>2, <1>3, PTL DEF Spec

\* In undisturbed executions two logs with an entry of the same index and term
\* agree on all the entries before (the consistency check, the truncation and
\* the gap check of HandleAppendEntries; the slices of heartBeatLoop).
THEOREM LogMatchingUndisturbed == Undisturbed => (Spec => []LogMatching)
<1> SUFFICES ASSUME Undisturbed PROVE Spec => []LogMatching
  OBVIOUS
<1>1. ASSUME Known, UndisturbedInv, NEW H, MatchInv(H) PROVE LogMatching
  <2> SUFFICES ASSUME NEW i \in Server, NEW j \in Server, NEW k \in 1 .. MaxIndex, BothHave(i, j, k),
                      EntryAt(node[i], k).Term = EntryAt(node[j], k).Term,
                      NEW m \in 1 .. k, BothHave(i, j, m)
               PROVE  SameEntry(i, j, m)
    BY DEF LogMatching
  <2>1. \A x \in {i, j} : node[x] \in Node /\ Whole(node[x]) /\ node[x].log \in Seq(Entry)
    BY <1>1 DEF Known, TypeOK, Node, UndisturbedInv, AllWhole
  <2>2. \A x \in {i, j} : /\ k \in DOMAIN node[x].log /\ m \in DOMAIN node[x].log
                          /\ EntryAt(node[x], k) = node[x].log[k]
                          /\ EntryAt(node[x], m) = node[x].log[m]
    BY <2>1, WholeFacts DEF BothHave
  <2>3. Agree(node[i].log, node[j].log, k)
    BY <1>1, <2>1, <2>2, TermAgrees DEF MatchInv
  <2> QED BY <2>2, <2>3 DEF Agree, SameEntry
<1>2. Known /\ UndisturbedInv /\ (\E H : MatchInv(H)) => LogMatching
  BY <1>1
<1> QED BY <1>2, UndisturbedInvAlways, MatchInvAlways, PTL
=============================================================================
