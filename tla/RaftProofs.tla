----------------------------- MODULE RaftProofs -----------------------------
(*****************************************************************************)
(* Proofs for every number of nodes and every bound: the type invariant, that *)
(* the log meets the snapshot, and that the log is contiguous.  A step is    *)
(* taken apart once for the nodes (NodeFacts), once for the calls (CallFacts) *)
(* and once for the rest (RestTyped); the theorems combine these.            *)
(*****************************************************************************)
EXTENDS RaftProperties, NodeDataProofs

\* tryAdvanceCommitIndex keeps a node well formed, whatever the match indices.
LEMMA tryAdvanceCommitIndexKeeps ==
    ASSUME NEW n \in Node, NEW match, NEW term
    PROVE  LET m == tryAdvanceCommitIndex(n, match, term)
           IN  /\ m \in Node
               /\ Meets(n) => Meets(m)
               /\ Contiguous(n) => Contiguous(m)
<1> DEFINE ready == {v \in n.logOffset + 1 .. n.logOffset + Len(n.log) :
                        IsMajorityIndex(match, LastIndex(n), v) /\ EntryAt(n, v).Term = term}
           to == CHOOSE v \in ready : TRUE
           c == [n EXCEPT !.commitIndex = to]
<1>1. tryAdvanceCommitIndex(n, match, term) =
          IF ready = {} THEN n ELSE maybeSnapshot(ApplyCommitted(c))
  BY DEF tryAdvanceCommitIndex
<1>2. n.logOffset \in Nat /\ n.log \in Seq(Entry)
  BY DEF Node
<1>3. \A v \in ready : v \in Nat
  BY <1>2
<1> HIDE DEF ready
<1>4. CASE ready = {}
  BY <1>1, <1>4
<1>5. CASE ready # {}
  <2>1. to \in Nat
    BY <1>3, <1>5
  <2> HIDE DEF to
  <2>2. c \in Node /\ (Meets(n) => Meets(c)) /\ (Contiguous(n) => Contiguous(c))
    BY <2>1 DEF Node, Meets, Contiguous
  <2> HIDE DEF c
  <2>3. /\ ApplyCommitted(c) \in Node
        /\ Meets(n) => Meets(ApplyCommitted(c))
        /\ Contiguous(n) => Contiguous(ApplyCommitted(c))
    BY <2>2, ApplyCommittedKeeps
  <2>4. /\ maybeSnapshot(ApplyCommitted(c)) \in Node
        /\ Meets(n) => Meets(maybeSnapshot(ApplyCommitted(c)))
        /\ Contiguous(n) => Contiguous(maybeSnapshot(ApplyCommitted(c)))
    BY <2>3, maybeSnapshotKeeps
  <2> QED BY <1>1, <1>5, <2>4
<1> QED BY <1>4, <1>5

\* The support of a bag after taking one element out or putting a set in.
LEMMA BagChange ==
    ASSUME NEW B, NEW c, NEW S
    PROVE  /\ BagToSet(B (-) SetToBag({c})) \subseteq BagToSet(B)
           /\ BagToSet(B (+) SetToBag(S)) = BagToSet(B) \cup S
BY DEF BagToSet, SetToBag, (+), (-)

\* Which calls are under way after a goroutine ends, goes on, is answered or
\* is started.
LEMMA CallsChange ==
    ASSUME NEW c
    PROVE  /\ Finish(c) => UnderWay' \subseteq UnderWay
           /\ \A d : Continue(c, d) => UnderWay' \subseteq UnderWay \cup {d}
           /\ \A d : Reply(c, d) => UnderWay' \subseteq UnderWay \cup {d}
           /\ \A S : calls' = calls (+) SetToBag(S) => UnderWay' = UnderWay \cup S
<1>1. Finish(c) => UnderWay' \subseteq UnderWay
  BY BagChange DEF Finish, UnderWay
<1>2. ASSUME NEW d, Continue(c, d) PROVE UnderWay' \subseteq UnderWay \cup {d}
  <2> DEFINE B == calls (-) SetToBag({c})
  <2>1. calls' = B (+) SetToBag({d})
    BY <1>2 DEF Continue
  <2>2. BagToSet(B) \subseteq BagToSet(calls)
    BY BagChange
  <2> HIDE DEF B
  <2>3. BagToSet(B (+) SetToBag({d})) = BagToSet(B) \cup {d}
    BY BagChange
  <2> QED BY <2>1, <2>2, <2>3 DEF UnderWay
<1>3. ASSUME NEW d, Reply(c, d) PROVE UnderWay' \subseteq UnderWay \cup {d}
  BY <1>1, <1>2, <1>3 DEF Reply
<1>4. ASSUME NEW S, calls' = calls (+) SetToBag(S) PROVE UnderWay' = UnderWay \cup S
  BY <1>4, BagChange DEF UnderWay
<1> QED BY <1>1, <1>2, <1>3, <1>4

\* The stage of a call says which record it is.
LEMMA CallKind ==
    ASSUME NEW c \in Call
    PROVE  /\ c.from \in Server /\ c.to \in Server
           /\ c.inc \in Nat /\ c.Term \in Nat
           /\ c.kind = "vote" /\ c.at = "request" => c \in RequestVoteCall
           /\ c.kind = "vote" /\ c.at # "request" => c \in RequestVoteAnswer
           /\ c.kind = "append" /\ c.at \in {"spawned", "request"} => c \in AppendEntriesCall
           /\ c.kind = "append" /\ c.at \in {"reply", "stepped"} => c \in AppendEntriesAnswer
           /\ c.kind = "snapshot" /\ c.at \in {"spawned", "request"} => c \in InstallSnapshotCall
           /\ c.kind = "snapshot" /\ c.at = "reply" => c \in InstallSnapshotAnswer
BY DEF Call, RequestVoteCall, RequestVoteAnswer, AppendEntriesCall, AppendEntriesAnswer,
       InstallSnapshotCall, InstallSnapshotAnswer

\* Types after lines 327-340.
LEMMA FollowLeaderType ==
    ASSUME TypeOK, NEW c \in Call, FollowLeader(c)
    PROVE  /\ currentTerm' \in [Server -> Nat]
           /\ votedFor' \in [Server -> Server \cup {Nil}]
           /\ state' \in [Server -> {Follower, Candidate, Leader}]
           /\ armed' \in [Server -> BOOLEAN]
           /\ UNCHANGED <<electing, leaderVars, loopVars, votes, processVars, elected>>
<1>1. c.to \in Server /\ c.Term \in Nat
  BY CallKind
<1> QED BY <1>1 DEF TypeOK, FollowLeader

\* Types after a step down.
LEMMA StepDownType ==
    ASSUME TypeOK, NEW i \in Server, NEW term \in Nat, StepDown(i, term)
    PROVE  /\ currentTerm' \in [Server -> Nat]
           /\ votedFor' \in [Server -> Server \cup {Nil}]
           /\ state' \in [Server -> {Follower, Candidate, Leader}]
BY DEF TypeOK, StepDown

\* Every answer of HandleAppendEntries is an AppendEntriesReply.
LEMMA AppendReplyType ==
    ASSUME NEW c \in Call, c.kind = "append", c.at = "request",
           NEW term \in Nat, NEW success \in BOOLEAN, NEW conflict \in Nat,
           AppendReply(c, term, success, conflict)
    PROVE  \E d \in AppendEntriesAnswer : Reply(c, d) /\ d.from = c.from
<1>1. c \in AppendEntriesCall
  BY CallKind
<1> DEFINE lastSent == IF c.Entries = <<>> THEN 0 ELSE c.Entries[Len(c.Entries)].Index
           d == [kind |-> "append", from |-> c.from, to |-> c.to, inc |-> c.inc,
                 Term |-> c.Term, at |-> "reply", lastSent |-> lastSent,
                 replyTerm |-> term, Success |-> success, ConflictIndex |-> conflict]
<1>2. lastSent \in Nat
  <2>1. CASE c.Entries = <<>>
    BY <2>1
  <2>2. CASE c.Entries # <<>>
    <3>1. c.Entries \in Seq(Entry)
      BY <1>1 DEF AppendEntriesCall
    <3>2. c.Entries[Len(c.Entries)] \in Entry
      BY <2>2, <3>1
    <3> QED BY <2>2, <3>2 DEF Entry
  <2> QED BY <2>1, <2>2
<1>3. Reply(c, d)
  BY DEF AppendReply
<1> HIDE DEF lastSent
<1>4. d \in AppendEntriesAnswer /\ d.from = c.from
  BY <1>1, <1>2 DEF AppendEntriesAnswer, AppendEntriesCall
<1> QED BY <1>3, <1>4

\* Every answer of HandleInstallSnapshot is an InstallSnapshotReply.
LEMMA SnapshotAnswerType ==
    ASSUME NEW c \in Call, c.kind = "snapshot", c.at = "request", NEW term \in Nat,
           SnapshotAnswer(c, term)
    PROVE  \E d \in InstallSnapshotAnswer : Reply(c, d)
<1> DEFINE d == [kind |-> "snapshot", from |-> c.from, to |-> c.to, inc |-> c.inc,
                 Term |-> c.Term, at |-> "reply", sent |-> c.snapshot.index,
                 replyTerm |-> term]
<1>1. c \in InstallSnapshotCall
  BY CallKind
<1>2. d \in InstallSnapshotAnswer
  BY <1>1 DEF InstallSnapshotCall, InstallSnapshotAnswer, Snapshot
<1>3. Reply(c, d)
  BY DEF SnapshotAnswer
<1> QED BY <1>2, <1>3

\* heartBeatLoop builds well-formed AppendEntries arguments as long as the
\* slice is in range; from a contiguous log the entries are consecutive.
LEMMA AppendForType ==
    ASSUME TypeOK, NEW i \in Server, NEW p \in Server, ~OutOfRange(i, p)
    PROVE  /\ AppendFor(i, p) \in AppendEntriesCall
           /\ Contiguous(node[i]) => Run(AppendFor(i, p).Entries)
<1> DEFINE n == node[i]
           next == nextIndex[i][p]
           pos == toSlicePos(n, next)
           tail == SubSeq(n.log, pos + 1, Len(n.log))
           entries == IF Compacted(i, p) THEN <<>> ELSE tail
           prev == IF Compacted(i, p) THEN 0 ELSE next - 1
           prevTerm == IF ~Compacted(i, p) /\ HasEntry(n, next - 1)
                       THEN EntryAt(n, next - 1).Term ELSE 0
<1>1. /\ n \in Node /\ n.log \in Seq(Entry) /\ n.logOffset \in Nat /\ next \in Nat
      /\ incarnation[i] \in Nat /\ currentTerm[i] \in Nat
  BY DEF TypeOK, Node
<1>2. /\ pos = next - n.logOffset - 1
      /\ Compacted(i, p) <=> pos < 0
      /\ pos <= Len(n.log)
  BY <1>1 DEF toSlicePos, Compacted, OutOfRange
<1>3. AppendFor(i, p) = [kind |-> "append", from |-> i, to |-> p, inc |-> incarnation[i],
         Term |-> currentTerm[i], at |-> "spawned", PrevLogIndex |-> prev,
         PrevLogTerm |-> prevTerm, Entries |-> entries, LeaderCommit |-> 0]
  BY DEF AppendFor
<1>4. prev \in Nat
  BY <1>1, <1>2
<1>5. prevTerm \in Nat
  <2>1. CASE HasEntry(n, next - 1)
    <3>1. EntryAt(n, next - 1) \in Entry
      BY <1>1, <2>1, EntryAtType
    <3> QED BY <3>1 DEF Entry
  <2>2. CASE ~HasEntry(n, next - 1)
    BY <2>2
  <2> QED BY <2>1, <2>2
<1> HIDE DEF pos
<1>6. entries \in Seq(Entry) /\ (Contiguous(n) => Run(entries))
  <2>1. CASE Compacted(i, p)
    BY <2>1 DEF Run
  <2>2. CASE ~Compacted(i, p)
    <3>1. pos \in 0 .. Len(n.log)
      BY <1>1, <1>2, <2>2
    <3>2. /\ tail \in Seq(Entry) /\ Len(tail) = Len(n.log) - pos
          /\ \A q \in 1 .. Len(n.log) - pos : tail[q] = n.log[pos + q]
      BY <1>1, <3>1, Suffix
    <3> HIDE DEF tail, n
    <3>3. ASSUME Contiguous(n) PROVE Run(tail)
      <4> SUFFICES ASSUME NEW q \in DOMAIN tail PROVE tail[q].Index = tail[1].Index + q - 1
        BY DEF Run
      <4>1. /\ q \in 1 .. Len(n.log) - pos /\ 1 \in 1 .. Len(n.log) - pos
            /\ pos + q \in DOMAIN n.log /\ pos + 1 \in DOMAIN n.log
        BY <1>1, <3>1, <3>2
      <4>2. /\ tail[q].Index = n.logOffset + (pos + q)
            /\ tail[1].Index = n.logOffset + (pos + 1)
        BY <4>1, <3>2, <3>3 DEF Contiguous
      <4> QED BY <4>1, <4>2, <1>1, <3>1
    <3> QED BY <2>2, <3>2, <3>3
  <2> QED BY <2>1, <2>2
<1> HIDE DEF n, entries, prev, prevTerm
<1>7. AppendFor(i, p) \in AppendEntriesCall /\ AppendFor(i, p).Entries = entries
  BY <1>1, <1>3, <1>4, <1>5, <1>6 DEF AppendEntriesCall
<1> QED BY <1>6, <1>7 DEF n

-----------------------------------------------------------------------------
\* No process has died yet.
NoCrash == \A j \in Server : incarnation[j] = 0

\* A process that does not run has died.
Started == \A i \in Server : alive[i] \/ incarnation[i] > 0

\* Every AppendEntries call carries consecutive entries.
CarriesRuns ==
    \A c \in UnderWay :
        (c.kind = "append" /\ c.at \in {"spawned", "request"}) => Run(c.Entries)

\* Every log is contiguous.
AllContiguous == \A i \in Server : Contiguous(node[i])

\* What a step keeps true of the nodes.
NodeFacts ==
    /\ node' \in [Server -> Node]
    /\ SnapshotMeetsLog => SnapshotMeetsLog'
    /\ (Started /\ NoCrash' /\ AllContiguous /\ CarriesRuns) => AllContiguous'

\* A step that replaces one node by a well-formed one.
LEMMA NodeChange ==
    ASSUME TypeOK, NEW i \in Server, NEW n,
           node' = [node EXCEPT ![i] = n], UNCHANGED alive,
           n \in Node,
           Meets(node[i]) => Meets(n),
           (AllContiguous /\ CarriesRuns) => Contiguous(n)
    PROVE  NodeFacts
<1>1. node' \in [Server -> Node]
  BY DEF TypeOK
<1>2. \A j \in Server : node'[j] = IF j = i THEN n ELSE node[j]
  BY DEF TypeOK
<1>3. SnapshotMeetsLog => SnapshotMeetsLog'
  BY <1>2 DEF SnapshotMeetsLog, Meets
<1>4. AllContiguous /\ CarriesRuns => AllContiguous'
  BY <1>2 DEF AllContiguous, Contiguous
<1> QED BY <1>1, <1>3, <1>4 DEF NodeFacts

\* A step that leaves every node alone.
LEMMA NodeUnchanged ==
    ASSUME TypeOK, UNCHANGED <<node, alive>>
    PROVE  NodeFacts
BY DEF TypeOK, NodeFacts, SnapshotMeetsLog, AllContiguous, Contiguous

\* A process that dies.
LEMMA NodeOfDead ==
    ASSUME TypeOK, NEW i \in Server, Die(i)
    PROVE  NodeFacts
<1>1. OnDisk(node[i]) \in Node
  <2>1. node[i].wal \in Seq(Entry) /\ node[i].snapshot \in Snapshot
    BY DEF TypeOK, Node
  <2> QED BY <2>1, OnDiskType
<1>2. node' \in [Server -> Node]
  BY <1>1 DEF TypeOK, Die
<1>3. \A j \in Server : alive'[j] => alive[j] /\ node'[j] = node[j]
  BY DEF TypeOK, Die
<1>4. SnapshotMeetsLog => SnapshotMeetsLog'
  BY <1>3 DEF SnapshotMeetsLog
<1>5. ~NoCrash'
  <2>1. incarnation'[i] = incarnation[i] + 1 /\ incarnation[i] \in Nat
    BY DEF TypeOK, Die
  <2> QED BY <2>1 DEF NoCrash
<1> QED BY <1>2, <1>4, <1>5 DEF NodeFacts

\* What elections do to the nodes.
LEMMA ElectionNode ==
    ASSUME TypeOK, Election
    PROVE  NodeFacts
<1>1. ASSUME NEW i \in Server, TimerFires(i) \/ becomeCandidate(i) PROVE NodeFacts
  BY <1>1, NodeUnchanged DEF TimerFires, becomeCandidate, processVars
<1>2. ASSUME NEW c \in UnderWay,
             HandleRequestVote(c) \/ VoteReply(c) \/ VoteStepDown(c)
      PROVE  NodeFacts
  BY <1>2, NodeUnchanged DEF HandleRequestVote, VoteReply, VoteStepDown, processVars
<1>3. ASSUME NEW c \in UnderWay, becomeLeader(c) PROVE NodeFacts
  <2> DEFINE i == c.from
             e == NewEntry(node[i], currentTerm[i], NoOp)
  <2>1. i \in Server
    BY CallKind DEF TypeOK
  <2>2. node[i] \in Node /\ currentTerm[i] \in Nat
    BY <2>1 DEF TypeOK
  <2>3. /\ <<e>> \in Seq(Entry)
        /\ Contiguous(node[i]) => e.Index = node[i].logOffset + Len(node[i].log) + 1
    BY <2>2, NewEntryType
  <2>4. node' = [node EXCEPT ![i] = AppendAll(node[i], <<e>>)] /\ UNCHANGED alive
    BY <1>3 DEF becomeLeader, processVars
  <2> HIDE DEF e
  <2>5. Run(<<e>>) /\ <<e>>[1] = e
    <3>1. e.Index \in Nat
      BY <2>3 DEF Entry
    <3> QED BY <3>1 DEF Run
  <2> HIDE DEF i
  <2>6. /\ AppendAll(node[i], <<e>>) \in Node
        /\ Meets(node[i]) => Meets(AppendAll(node[i], <<e>>))
        /\ Contiguous(node[i]) => Contiguous(AppendAll(node[i], <<e>>))
    BY <2>2, <2>3, <2>5, AppendAllKeeps
  <2>7. AllContiguous => Contiguous(node[i])
    BY <2>1 DEF AllContiguous
  <2> QED BY <2>1, <2>4, <2>6, <2>7, NodeChange
<1> QED BY <1>1, <1>2, <1>3 DEF Election

\* What replication does to the nodes.
LEMMA ReplicationNode ==
    ASSUME TypeOK, Replication
    PROVE  NodeFacts
<1>1. ASSUME NEW i \in Server, HeartBeat(i) PROVE NodeFacts
  BY <1>1, NodeUnchanged DEF HeartBeat, processVars
<1>2. ASSUME NEW i \in Server, HeartBeatPanic(i) PROVE NodeFacts
  BY <1>2, NodeOfDead DEF HeartBeatPanic
<1>3. ASSUME NEW i \in Server, NEW g \in loops[i], HeartBeatExit(i, g) PROVE NodeFacts
  BY <1>3, NodeUnchanged DEF HeartBeatExit, processVars
<1>4. ASSUME NEW i \in Server, NEW command \in Command, Propose(i, command) PROVE NodeFacts
  <2> DEFINE e == NewEntry(node[i], currentTerm[i], command)
  <2>2. node[i] \in Node /\ currentTerm[i] \in Nat
    BY DEF TypeOK
  <2>3. /\ <<e>> \in Seq(Entry)
        /\ Contiguous(node[i]) => e.Index = node[i].logOffset + Len(node[i].log) + 1
    BY <2>2, NewEntryType
  <2>4. node' = [node EXCEPT ![i] = AppendAll(node[i], <<e>>)] /\ UNCHANGED alive
    BY <1>4 DEF Propose, processVars
  <2> HIDE DEF e
  <2>5. Run(<<e>>) /\ <<e>>[1] = e
    <3>1. e.Index \in Nat
      BY <2>3 DEF Entry
    <3> QED BY <3>1 DEF Run
  <2>6. /\ AppendAll(node[i], <<e>>) \in Node
        /\ Meets(node[i]) => Meets(AppendAll(node[i], <<e>>))
        /\ Contiguous(node[i]) => Contiguous(AppendAll(node[i], <<e>>))
    BY <2>2, <2>3, <2>5, AppendAllKeeps
  <2>7. AllContiguous => Contiguous(node[i])
    BY DEF AllContiguous
  <2> QED BY <2>4, <2>6, <2>7, NodeChange
<1>5. ASSUME NEW c \in UnderWay,
             SendAppendEntries(c) \/ AppendStale(c) \/ AppendReplyStepDown(c) \/ AppendFailed(c)
      PROVE  NodeFacts
  BY <1>5, NodeUnchanged, Zenon
  DEF SendAppendEntries, AppendStale, AppendReplyStepDown, AppendFailed, processVars
<1>6. ASSUME NEW c \in UnderWay, AppendMismatch(c) \/ AppendGap(c) PROVE NodeFacts
  BY <1>6, NodeUnchanged DEF AppendMismatch, AppendGap, FollowAppend, FollowLeader, processVars
<1>7. ASSUME NEW c \in UnderWay, AppendTruncateFails(c) PROVE NodeFacts
  <2>1. c.to \in Server
    BY CallKind DEF TypeOK
  <2>2. node[c.to] \in Node
    BY <2>1 DEF TypeOK
  <2>3. PICK k \in 1 .. Len(c.Entries) + 1 :
           /\ Conflicts(node[c.to], c.Entries, k)
           /\ node' = [node EXCEPT ![c.to] = TruncateLog(node[c.to], c.Entries[k].Index)]
    BY <1>7 DEF AppendTruncateFails
  <2>4. UNCHANGED alive
    BY <1>7 DEF AppendTruncateFails, FollowAppend, FollowLeader, processVars
  <2>5. HasEntry(node[c.to], c.Entries[k].Index)
    BY <2>3 DEF Conflicts
  <2> DEFINE m == TruncateLog(node[c.to], c.Entries[k].Index)
  <2>6. m \in Node /\ (Meets(node[c.to]) => Meets(m))
        /\ (Contiguous(node[c.to]) => Contiguous(m))
    BY <2>2, <2>5, TruncateLogKeeps
  <2>7. AllContiguous => Contiguous(node[c.to])
    BY <2>1 DEF AllContiguous
  <2> QED BY <2>1, <2>3, <2>4, <2>6, <2>7, NodeChange
<1>8. ASSUME NEW c \in UnderWay, AppendAccept(c) PROVE NodeFacts
  <2>1. c \in AppendEntriesCall /\ c.to \in Server
    BY <1>8, CallKind DEF TypeOK, AppendAccept, FollowAppend, FollowLeader
  <2>2. node[c.to] \in Node /\ c.Entries \in Seq(Entry) /\ c.LeaderCommit \in Nat
    BY <2>1 DEF TypeOK, AppendEntriesCall
  <2> DEFINE n == node[c.to]
             stored(k) == StoreEntries(n, c.Entries, k)
             followed(k) == FollowCommit(stored(k), c.LeaderCommit)
  <2>3. PICK k \in 1 .. Len(c.Entries) + 1 :
           /\ k \in DOMAIN c.Entries =>
                 IF Conflicts(n, c.Entries, k)
                 THEN CanTruncateAfter(n.wal, c.Entries[k].Index - 1)
                 ELSE LinesUp(n, c.Entries, k)
           /\ node' = [node EXCEPT ![c.to] = maybeSnapshot(followed(k))]
    BY <1>8 DEF AppendAccept
  <2>4. UNCHANGED alive
    BY <1>8 DEF AppendAccept, FollowAppend, FollowLeader, processVars
  <2>5. /\ stored(k) \in Node /\ (Meets(n) => Meets(stored(k)))
        /\ (Contiguous(n) /\ Run(c.Entries) => Contiguous(stored(k)))
    BY <2>2, <2>3, StoreEntriesKeeps
  <2> HIDE DEF stored
  <2>6. /\ followed(k) \in Node /\ (Meets(n) => Meets(followed(k)))
        /\ (Contiguous(n) /\ Run(c.Entries) => Contiguous(followed(k)))
    BY <2>2, <2>5, FollowCommitKeeps
  <2> HIDE DEF followed
  <2>7. /\ maybeSnapshot(followed(k)) \in Node
        /\ Meets(n) => Meets(maybeSnapshot(followed(k)))
        /\ (Contiguous(n) /\ Run(c.Entries)) => Contiguous(maybeSnapshot(followed(k)))
    BY <2>6, maybeSnapshotKeeps
  <2>8. AllContiguous /\ CarriesRuns => Contiguous(n) /\ Run(c.Entries)
    <3>1. c.kind = "append" /\ c.at \in {"spawned", "request"}
      BY <2>1 DEF AppendEntriesCall
    <3> QED BY <2>1, <3>1 DEF AllContiguous, CarriesRuns
  <2> QED BY <2>1, <2>3, <2>4, <2>7, <2>8, NodeChange
<1>9. ASSUME NEW c \in UnderWay, AppendSucceeded(c) PROVE NodeFacts
  <2>1. c.from \in Server
    BY CallKind DEF TypeOK
  <2>2. node[c.from] \in Node
    BY <2>1 DEF TypeOK
  <2>3. UNCHANGED alive
    BY <1>9 DEF AppendSucceeded, processVars
  <2>4. CASE UNCHANGED node
    BY <2>3, <2>4, NodeUnchanged
  <2> DEFINE m == tryAdvanceCommitIndex(node[c.from], matchIndex'[c.from], currentTerm[c.from])
  <2>5. CASE node' = [node EXCEPT ![c.from] = m]
    <3>1. m \in Node /\ (Meets(node[c.from]) => Meets(m))
          /\ (Contiguous(node[c.from]) => Contiguous(m))
      BY <2>2, tryAdvanceCommitIndexKeeps
    <3>2. AllContiguous => Contiguous(node[c.from])
      BY <2>1 DEF AllContiguous
    <3> HIDE DEF m
    <3> QED BY <2>1, <2>3, <2>5, <3>1, <3>2, NodeChange
  <2> QED BY <1>9, <2>4, <2>5 DEF AppendSucceeded
<1> QED BY <1>1, <1>2, <1>3, <1>4, <1>5, <1>6, <1>7, <1>8, <1>9 DEF Replication

\* What the transfer of snapshots does to the nodes.
LEMMA SnapshotTransferNode ==
    ASSUME TypeOK, SnapshotTransfer
    PROVE  NodeFacts
<1>1. ASSUME NEW c \in UnderWay,
             SendInstallSnapshot(c) \/ SnapshotStale(c) \/ SnapshotReply(c)
      PROVE  NodeFacts
  BY <1>1, NodeUnchanged DEF SendInstallSnapshot, SnapshotStale, SnapshotReply, processVars
<1>2. ASSUME NEW c \in UnderWay, HandleInstallSnapshot(c) PROVE NodeFacts
  <2>1. c \in InstallSnapshotCall /\ c.to \in Server
    BY <1>2, CallKind DEF TypeOK, HandleInstallSnapshot, FollowLeader
  <2>2. node[c.to] \in Node /\ c.snapshot \in Snapshot
    BY <2>1 DEF TypeOK, InstallSnapshotCall
  <2>3. node' = [node EXCEPT ![c.to] = InstallSnapshot(node[c.to], c.snapshot)]
        /\ UNCHANGED alive
    BY <1>2 DEF HandleInstallSnapshot, FollowLeader, processVars
  <2> QED BY <2>1, <2>2, <2>3, InstallSnapshotKeeps, NodeChange
<1> QED BY <1>1, <1>2 DEF SnapshotTransfer

\* What crashes, restarts and lost calls do to the nodes.
LEMMA FailureNode ==
    ASSUME TypeOK, Failure
    PROVE  NodeFacts
<1>1. ASSUME NEW i \in Server, Crash(i) PROVE NodeFacts
  BY <1>1, NodeOfDead DEF Crash
<1>2. ASSUME NEW i \in Server, Start(i) PROVE NodeFacts
  <2> DEFINE m == loadPersistedState(node[i])
  <2>1. m \in Node /\ Meets(m)
    BY loadPersistedStateKeeps DEF TypeOK
  <2>2. node' = [node EXCEPT ![i] = m] /\ ~alive[i] /\ UNCHANGED incarnation
    BY <1>2 DEF Start
  <2>3. \A j \in Server : j # i => alive'[j] = alive[j]
    BY <1>2 DEF Start, TypeOK
  <2> HIDE DEF m
  <2>4. \A j \in Server : node'[j] = IF j = i THEN m ELSE node[j]
    BY <2>2 DEF TypeOK
  <2>5. node' \in [Server -> Node]
    BY <2>1, <2>2 DEF TypeOK
  <2>6. SnapshotMeetsLog => SnapshotMeetsLog'
    BY <2>1, <2>3, <2>4 DEF SnapshotMeetsLog, Meets
  <2>7. ~(Started /\ NoCrash')
    BY <2>2 DEF Started, NoCrash
  <2> QED BY <2>5, <2>6, <2>7 DEF NodeFacts
<1>3. ASSUME NEW c \in UnderWay, Lose(c) PROVE NodeFacts
  BY <1>3, NodeUnchanged DEF Lose, processVars
<1> QED BY <1>1, <1>2, <1>3 DEF Failure

-----------------------------------------------------------------------------
\* What is true of a call that a step adds: its type, that an AppendEntries
\* call comes from a leader or goes on from one that did, that it carries
\* consecutive entries, that a timely step down goes to a newer term, and that
\* a snapshot is on its way only where a leader has compacted its log.
NewCall(d) ==
    /\ d \in Call
    /\ d.kind = "append" =>
          \/ state[d.from] = Leader
          \/ \E c \in UnderWay : c.kind = "append" /\ c.from = d.from
    /\ (d.kind = "append" /\ d.at \in {"spawned", "request"} /\ AllContiguous /\ CarriesRuns)
          => Run(d.Entries)
    /\ (d.kind = "vote" /\ d.at = "stepdown" /\ ~LateWork) => d.replyTerm > d.Term
    /\ d.kind = "snapshot" =>
          \/ \E i, p \in Server : state[i] = Leader /\ Compacted(i, p)
          \/ \E c \in UnderWay : c.kind = "snapshot"

\* What a step keeps true of the calls.
CallFacts == \A d \in UnderWay' : d \in UnderWay \/ NewCall(d)

\* A step that starts and ends no goroutine.
LEMMA CallsUnchanged ==
    ASSUME UNCHANGED calls
    PROVE  CallFacts
BY DEF CallFacts, UnderWay

\* A step that ends a goroutine.
LEMMA CallFinished ==
    ASSUME NEW c, Finish(c)
    PROVE  CallFacts
BY CallsChange DEF CallFacts

\* A step in which a call goes on as d.
LEMMA CallAdded ==
    ASSUME NEW c, NEW d, Continue(c, d) \/ Reply(c, d), NewCall(d)
    PROVE  CallFacts
BY CallsChange DEF CallFacts

\* HandleAppendEntries answers.
LEMMA AppendAnswered ==
    ASSUME TypeOK, NEW c \in UnderWay, c.kind = "append", c.at = "request",
           NEW term \in Nat, NEW success \in BOOLEAN, NEW conflict \in Nat,
           AppendReply(c, term, success, conflict)
    PROVE  CallFacts
<1>1. PICK d \in AppendEntriesAnswer : Reply(c, d) /\ d.from = c.from
  BY AppendReplyType DEF TypeOK
<1>2. d.kind = "append" /\ d.at \in {"reply", "stepped"}
  BY DEF AppendEntriesAnswer
<1>3. NewCall(d)
  BY <1>1, <1>2 DEF NewCall, Call
<1> QED BY <1>1, <1>3, CallAdded

\* The calls that are left when a process dies.
LEMMA AfterDeath ==
    ASSUME NEW i, Die(i)
    PROVE  CallFacts
<1> DEFINE left == {c \in UnderWay : c.from = i => c.at = "request"}
<1>1. calls' = [c \in left |-> calls[c]]
  BY DEF Die
<1>2. UnderWay' = left
  BY <1>1 DEF UnderWay, BagToSet
<1> QED BY <1>2 DEF CallFacts

\* The calls that elections make.
LEMMA ElectionCalls ==
    ASSUME TypeOK, Election
    PROVE  CallFacts
<1>1. ASSUME NEW i \in Server, TimerFires(i) PROVE CallFacts
  BY <1>1, CallsUnchanged DEF TimerFires
<1>2. ASSUME NEW i \in Server, becomeCandidate(i) PROVE CallFacts
  <2> DEFINE S == RequestVotes(i, currentTerm[i] + 1, Len(votes) + 1)
  <2>1. UnderWay' = UnderWay \cup S
    BY <1>2, CallsChange DEF becomeCandidate
  <2>2. \A d \in S : d \in RequestVoteCall
    <3> DEFINE n == node[i]
    <3>1. n \in Node /\ currentTerm[i] + 1 \in Nat /\ Len(votes) + 1 \in Nat
          /\ incarnation[i] \in Nat
      BY DEF TypeOK
    <3>2. (IF n.log = <<>> THEN 0 ELSE LastIndex(n)) \in Nat /\ LastTerm(n) \in Nat
      BY <3>1, LastType
    <3> QED BY <3>1, <3>2 DEF RequestVotes, RequestVoteCall
  <2>3. \A d \in S : NewCall(d)
    <3> HIDE DEF S
    <3>1. \A d \in RequestVoteCall : d \in Call /\ d.kind = "vote" /\ d.at = "request"
      BY DEF RequestVoteCall, Call
    <3> QED BY <2>2, <3>1 DEF NewCall
  <2> QED BY <2>1, <2>3 DEF CallFacts
<1>3. ASSUME NEW c \in UnderWay, HandleRequestVote(c) PROVE CallFacts
  <2>1. c \in RequestVoteCall /\ c.to \in Server
    BY <1>3, CallKind DEF TypeOK, HandleRequestVote
  <2>2. PICK t \in Nat, g \in BOOLEAN :
           Reply(c, [kind |-> "vote", from |-> c.from, to |-> c.to,
                     inc |-> c.inc, Term |-> c.Term, at |-> "reply",
                     round |-> c.round, replyTerm |-> t, VoteGranted |-> g])
    <3>1. c.Term \in Nat /\ currentTerm[c.to] \in Nat
      BY <2>1 DEF TypeOK, RequestVoteCall
    <3>2. currentTerm'[c.to] \in Nat
      BY <1>3, <2>1, <3>1 DEF HandleRequestVote, TypeOK
    <3>3. GrantsVote(c.to, c) \in BOOLEAN
      BY DEF GrantsVote, isCandidateLogUpToDate
    <3> QED BY <1>3, <3>2, <3>3 DEF HandleRequestVote
  <2> DEFINE d == [kind |-> "vote", from |-> c.from, to |-> c.to,
                   inc |-> c.inc, Term |-> c.Term, at |-> "reply",
                   round |-> c.round, replyTerm |-> t, VoteGranted |-> g]
  <2>3. d \in RequestVoteAnswer /\ d.kind = "vote" /\ d.at = "reply"
    BY <2>1 DEF RequestVoteCall, RequestVoteAnswer
  <2> HIDE DEF d
  <2>4. NewCall(d)
    BY <2>3 DEF NewCall, Call
  <2> QED BY <2>2, <2>4, CallAdded DEF d
<1>4. ASSUME NEW c \in UnderWay, VoteReply(c) PROVE CallFacts
  <2>1. CASE Finish(c)
    BY <2>1, CallFinished
  <2>2. ASSUME NEW at \in {"stepdown", "lead"}, Continue(c, [c EXCEPT !.at = at]),
               at = "stepdown" => c.replyTerm > currentTerm[c.from]
        PROVE  CallFacts
    <3> DEFINE d == [c EXCEPT !.at = at]
    <3>1. c \in RequestVoteAnswer
      BY <1>4, CallKind DEF VoteReply, TypeOK
    <3>2. /\ d \in RequestVoteAnswer /\ d.kind = "vote" /\ d.at = at
          /\ d.replyTerm = c.replyTerm /\ d.Term = c.Term
      BY <3>1 DEF RequestVoteAnswer
    <3>3. ~LateWork => c.Term = currentTerm[c.from]
      BY <1>4 DEF VoteReply, InTime
    <3> HIDE DEF d
    <3>4. NewCall(d)
      BY <2>2, <3>2, <3>3 DEF NewCall, Call
    <3> QED BY <2>2, <3>4, CallAdded DEF d
  <2> QED BY <1>4, <2>1, <2>2 DEF VoteReply
<1>5. ASSUME NEW c \in UnderWay, VoteStepDown(c) \/ becomeLeader(c) PROVE CallFacts
  BY <1>5, CallFinished DEF VoteStepDown, becomeLeader
<1> QED BY <1>1, <1>2, <1>3, <1>4, <1>5 DEF Election

\* The calls that replication makes.
LEMMA ReplicationCalls ==
    ASSUME TypeOK, Replication
    PROVE  CallFacts
<1>1. ASSUME NEW i \in Server, HeartBeat(i) PROVE CallFacts
  <2>1. PICK started \in SUBSET Spawned(i) : calls' = calls (+) SetToBag(started)
    BY <1>1 DEF HeartBeat
  <2>2. UnderWay' = UnderWay \cup started
    BY <2>1, CallsChange
  <2>3. ASSUME NEW p \in Server PROVE NewCall(AppendFor(i, p))
    <3>1. ~OutOfRange(i, p) /\ state[i] = Leader
      BY <1>1 DEF HeartBeat
    <3>2. /\ AppendFor(i, p) \in AppendEntriesCall
          /\ Contiguous(node[i]) => Run(AppendFor(i, p).Entries)
      BY <3>1, AppendForType
    <3>3. AppendFor(i, p).from = i /\ AppendFor(i, p).kind = "append"
      BY DEF AppendFor
    <3>4. AllContiguous => Contiguous(node[i])
      BY DEF AllContiguous
    <3> QED BY <3>1, <3>2, <3>3, <3>4 DEF NewCall, Call
  <2>4. ASSUME NEW p \in Server, Compacted(i, p) PROVE NewCall(SnapshotFor(i, p))
    <3>1. NoSnapshot \in Snapshot
      BY DEF NoSnapshot, Snapshot, EmptyStore, Store
    <3>2. SnapshotFor(i, p) \in InstallSnapshotCall /\ SnapshotFor(i, p).kind = "snapshot"
      BY <3>1 DEF SnapshotFor, InstallSnapshotCall, TypeOK
    <3>3. state[i] = Leader
      BY <1>1 DEF HeartBeat
    <3> QED BY <2>4, <3>2, <3>3 DEF NewCall, Call
  <2>5. \A d \in Spawned(i) : NewCall(d)
    BY <2>3, <2>4 DEF Spawned
  <2> QED BY <2>2, <2>5 DEF CallFacts
<1>2. ASSUME NEW i \in Server, HeartBeatPanic(i) PROVE CallFacts
  BY <1>2, AfterDeath DEF HeartBeatPanic
<1>3. ASSUME NEW i \in Server, NEW g \in loops[i], HeartBeatExit(i, g) PROVE CallFacts
  BY <1>3, CallsUnchanged DEF HeartBeatExit
<1>4. ASSUME NEW i \in Server, NEW command \in Command, Propose(i, command) PROVE CallFacts
  BY <1>4, CallsUnchanged DEF Propose
<1>5. ASSUME NEW c \in UnderWay, SendAppendEntries(c) PROVE CallFacts
  <2> DEFINE n == node[c.from]
             shown(seen) == [k \in DOMAIN c.Entries |->
                                IF k \in seen THEN EntryAt(n, c.Entries[k].Index)
                                ELSE c.Entries[k]]
             d(seen) == [c EXCEPT !.at = "request", !.LeaderCommit = n.commitIndex,
                                  !.Entries = shown(seen)]
  <2>1. c \in AppendEntriesCall /\ c.from \in Server /\ c.kind = "append" /\ c.at = "spawned"
    BY <1>5, CallKind DEF SendAppendEntries, TypeOK
  <2>2. n \in Node /\ n.commitIndex \in Nat /\ c.Entries \in Seq(Entry)
    BY <2>1 DEF TypeOK, Node, AppendEntriesCall
  <2>3. PICK seen \in SUBSET {k \in DOMAIN c.Entries : HasEntry(n, c.Entries[k].Index)} :
           Continue(c, d(seen))
    BY <1>5, Zenon DEF SendAppendEntries
  <2>4. \A k \in DOMAIN c.Entries :
           /\ c.Entries[k] \in Entry
           /\ k \in seen => EntryAt(n, c.Entries[k].Index) \in Entry
    BY <2>2, <2>3, EntryAtType
  <2>5. shown(seen) \in Seq(Entry) /\ DOMAIN shown(seen) = DOMAIN c.Entries
    <3>1. DOMAIN c.Entries = 1 .. Len(c.Entries) /\ Len(c.Entries) \in Nat
      BY <2>2
    <3> QED BY <2>4, <3>1
  <2>6. ASSUME Contiguous(n) PROVE \A k \in DOMAIN c.Entries : shown(seen)[k].Index = c.Entries[k].Index
    <3> SUFFICES ASSUME NEW k \in DOMAIN c.Entries PROVE shown(seen)[k].Index = c.Entries[k].Index
      OBVIOUS
    <3>1. CASE k \in seen
      <4> DEFINE x == c.Entries[k].Index
      <4>1. HasEntry(n, x)
        BY <2>3, <3>1
      <4>2. toSlicePos(n, x) + 1 \in DOMAIN n.log /\ x \in Nat
        BY <2>2, <4>1, EntryAtType
      <4>3. EntryAt(n, x).Index = n.logOffset + (toSlicePos(n, x) + 1)
        BY <2>6, <4>2 DEF Contiguous, EntryAt
      <4>4. n.logOffset + (toSlicePos(n, x) + 1) = x
        <5>1. n.logOffset \in Nat
          BY <2>2 DEF Node
        <5> QED BY <4>2, <5>1 DEF toSlicePos
      <4> QED BY <3>1, <4>3, <4>4
    <3>2. CASE k \notin seen
      BY <3>2
    <3> QED BY <3>1, <3>2
  <2> HIDE DEF shown, n
  <2>7. /\ d(seen) \in AppendEntriesCall /\ d(seen).from = c.from
        /\ d(seen).Entries = shown(seen) /\ d(seen).kind = "append"
    BY <2>1, <2>2, <2>5 DEF AppendEntriesCall
  <2>8. ASSUME AllContiguous, CarriesRuns PROVE Run(shown(seen))
    <3>1. Contiguous(n) /\ Run(c.Entries)
      BY <2>1, <2>8 DEF AllContiguous, CarriesRuns, n
    <3> SUFFICES ASSUME NEW k \in DOMAIN shown(seen)
                 PROVE  shown(seen)[k].Index = shown(seen)[1].Index + k - 1
      BY DEF Run
    <3>2. k \in DOMAIN c.Entries /\ 1 \in DOMAIN c.Entries
      BY <2>2, <2>5
    <3>3. shown(seen)[k].Index = c.Entries[k].Index /\ shown(seen)[1].Index = c.Entries[1].Index
      BY <2>6, <3>1, <3>2
    <3> QED BY <3>1, <3>2, <3>3 DEF Run
  <2> HIDE DEF d
  <2>9. NewCall(d(seen))
    BY <2>1, <2>7, <2>8 DEF NewCall, Call
  <2> QED BY <2>3, <2>9, CallAdded
<1>6. ASSUME NEW c \in UnderWay, AppendStale(c) PROVE CallFacts
  <2>1. c.to \in Server /\ currentTerm[c.to] \in Nat
    BY CallKind DEF TypeOK
  <2> QED BY <1>6, <2>1, AppendAnswered DEF AppendStale
<1>7. ASSUME NEW c \in UnderWay,
             AppendMismatch(c) \/ AppendTruncateFails(c) \/ AppendAccept(c)
      PROVE  CallFacts
  <2>1. c.Term \in Nat
    BY CallKind DEF TypeOK
  <2> QED BY <1>7, <2>1, AppendAnswered
    DEF AppendMismatch, AppendTruncateFails, AppendAccept, FollowAppend, FollowLeader
<1>8. ASSUME NEW c \in UnderWay, AppendGap(c) PROVE CallFacts
  <2>1. c.Term \in Nat /\ c.to \in Server
    BY CallKind DEF TypeOK
  <2>2. node[c.to].logOffset + Len(node[c.to].log) + 1 \in Nat
    <3>1. node[c.to] \in Node
      BY <2>1 DEF TypeOK
    <3>2. node[c.to].logOffset \in Nat /\ node[c.to].log \in Seq(Entry)
      BY <3>1 DEF Node
    <3> QED BY <3>2
  <2> QED BY <1>8, <2>1, <2>2, AppendAnswered DEF AppendGap, FollowAppend, FollowLeader
<1>9. ASSUME NEW c \in UnderWay, AppendReplyStepDown(c) PROVE CallFacts
  <2> DEFINE d == [c EXCEPT !.at = "stepped"]
  <2>1. c \in AppendEntriesAnswer /\ Continue(c, d)
    BY <1>9, CallKind DEF AppendReplyStepDown, TypeOK
  <2>2. d \in AppendEntriesAnswer /\ d.kind = "append" /\ d.at = "stepped" /\ d.from = c.from
        /\ c.kind = "append"
    BY <2>1 DEF AppendEntriesAnswer
  <2> HIDE DEF d
  <2>3. NewCall(d)
    BY <2>2 DEF NewCall, Call
  <2> QED BY <2>1, <2>3, CallAdded
<1>10. ASSUME NEW c \in UnderWay, AppendSucceeded(c) \/ AppendFailed(c) PROVE CallFacts
  BY <1>10, CallFinished DEF AppendSucceeded, AppendFailed
<1> QED BY <1>1, <1>2, <1>3, <1>4, <1>5, <1>6, <1>7, <1>8, <1>9, <1>10 DEF Replication

\* The calls of the transfer of snapshots.
LEMMA SnapshotTransferCalls ==
    ASSUME TypeOK, SnapshotTransfer
    PROVE  CallFacts
<1>1. ASSUME NEW c \in UnderWay, SendInstallSnapshot(c) PROVE CallFacts
  <2> DEFINE d == [c EXCEPT !.at = "request", !.snapshot = node[c.from].snapshot]
  <2>1. /\ c \in InstallSnapshotCall /\ c.from \in Server /\ Continue(c, d)
        /\ c.kind = "snapshot"
    BY <1>1, CallKind DEF SendInstallSnapshot, TypeOK
  <2>2. node[c.from].snapshot \in Snapshot
    BY <2>1 DEF TypeOK, Node
  <2>3. d \in InstallSnapshotCall /\ d.kind = "snapshot"
    BY <2>1, <2>2 DEF InstallSnapshotCall
  <2> HIDE DEF d
  <2>4. NewCall(d)
    BY <2>1, <2>3 DEF NewCall, Call
  <2> QED BY <2>1, <2>4, CallAdded
<1>2. ASSUME NEW c \in UnderWay, SnapshotStale(c) \/ HandleInstallSnapshot(c) PROVE CallFacts
  <2>1. c.to \in Server /\ c.Term \in Nat /\ currentTerm[c.to] \in Nat
    BY CallKind DEF TypeOK
  <2>2. PICK d \in InstallSnapshotAnswer : Reply(c, d)
    BY <1>2, <2>1, SnapshotAnswerType
    DEF SnapshotStale, HandleInstallSnapshot, FollowLeader, TypeOK
  <2>3. c.kind = "snapshot" /\ d.kind = "snapshot"
    BY <1>2, <2>2 DEF SnapshotStale, HandleInstallSnapshot, InstallSnapshotAnswer
  <2>4. NewCall(d)
    BY <2>2, <2>3 DEF NewCall, Call
  <2> QED BY <2>2, <2>4, CallAdded
<1>3. ASSUME NEW c \in UnderWay, SnapshotReply(c) PROVE CallFacts
  BY <1>3, CallFinished DEF SnapshotReply
<1> QED BY <1>1, <1>2, <1>3 DEF SnapshotTransfer

\* The calls that survive failures.
LEMMA FailureCalls ==
    ASSUME TypeOK, Failure
    PROVE  CallFacts
<1>1. ASSUME NEW i \in Server, Crash(i) PROVE CallFacts
  BY <1>1, AfterDeath DEF Crash
<1>2. ASSUME NEW i \in Server, Start(i) PROVE CallFacts
  BY <1>2, CallsUnchanged DEF Start
<1>3. ASSUME NEW c \in UnderWay, Lose(c) PROVE CallFacts
  BY <1>3, CallFinished DEF Lose
<1> QED BY <1>1, <1>2, <1>3 DEF Failure

-----------------------------------------------------------------------------
\* Every step keeps nodes and calls well formed.
LEMMA NextFacts ==
    ASSUME TypeOK, Next
    PROVE  NodeFacts /\ CallFacts
BY ElectionNode, ReplicationNode, SnapshotTransferNode, FailureNode,
   ElectionCalls, ReplicationCalls, SnapshotTransferCalls, FailureCalls DEF Next

\* Everything of TypeOK but the nodes and the calls.
RestTyped ==
    /\ currentTerm \in [Server -> Nat]
    /\ votedFor \in [Server -> Server \cup {Nil}]
    /\ state \in [Server -> {Follower, Candidate, Leader}]
    /\ leaderID \in [Server -> Server \cup {Nil}]
    /\ armed \in [Server -> BOOLEAN]
    /\ electing \in [Server -> BOOLEAN]
    /\ nextIndex \in [Server -> [Server -> Nat]]
    /\ matchIndex \in [Server -> [Server -> Nat]]
    /\ leaderGeneration \in [Server -> Nat]
    /\ loops \in [Server -> SUBSET Nat]
    /\ votes \in Seq(Nat)
    /\ alive \in [Server -> BOOLEAN]
    /\ incarnation \in [Server -> Nat]
    /\ elected \subseteq Server \X Nat

\* Writing into nextIndex or matchIndex.
LEMMA TableUpdate ==
    ASSUME NEW f \in [Server -> [Server -> Nat]], NEW i \in Server
    PROVE  /\ \A p \in Server, v \in Nat : [f EXCEPT ![i][p] = v] \in [Server -> [Server -> Nat]]
           /\ \A g \in [Server -> Nat] : [f EXCEPT ![i] = g] \in [Server -> [Server -> Nat]]
<1>1. ASSUME NEW g \in [Server -> Nat] PROVE [f EXCEPT ![i] = g] \in [Server -> [Server -> Nat]]
  OBVIOUS
<1>2. ASSUME NEW p \in Server, NEW v \in Nat
      PROVE  [f EXCEPT ![i][p] = v] \in [Server -> [Server -> Nat]]
  <2>1. f[i] \in [Server -> Nat]
    OBVIOUS
  <2> DEFINE g == [f[i] EXCEPT ![p] = v]
  <2>2. g \in [Server -> Nat]
    BY <2>1
  <2>3. [f EXCEPT ![i][p] = v] = [f EXCEPT ![i] = g]
    OBVIOUS
  <2> HIDE DEF g
  <2> QED BY <1>1, <2>2, <2>3
<1> QED BY <1>1, <1>2

\* Types after a process has died.
LEMMA DeathTyped ==
    ASSUME TypeOK, NEW i \in Server, Die(i)
    PROVE  RestTyped'
<1>1. [p \in Server |-> 0] \in [Server -> Nat]
  OBVIOUS
<1>2. nextIndex' \in [Server -> [Server -> Nat]] /\ matchIndex' \in [Server -> [Server -> Nat]]
  BY <1>1, TableUpdate DEF TypeOK, Die
<1>3. /\ currentTerm' \in [Server -> Nat] /\ votedFor' \in [Server -> Server \cup {Nil}]
      /\ leaderID' \in [Server -> Server \cup {Nil}]
      /\ state' \in [Server -> {Follower, Candidate, Leader}]
  BY DEF TypeOK, Die
<1>4. /\ armed' \in [Server -> BOOLEAN] /\ electing' \in [Server -> BOOLEAN]
      /\ alive' \in [Server -> BOOLEAN]
  BY DEF TypeOK, Die
<1>5. /\ leaderGeneration' \in [Server -> Nat] /\ loops' \in [Server -> SUBSET Nat]
      /\ incarnation' \in [Server -> Nat]
  BY DEF TypeOK, Die
<1> QED BY <1>2, <1>3, <1>4, <1>5 DEF TypeOK, Die, RestTyped

\* Types after a step of an election.
LEMMA ElectionTyped ==
    ASSUME TypeOK, Election
    PROVE  RestTyped'
<1> USE DEF electionVars, timerVars, leaderVars, loopVars, processVars
<1>1. ASSUME NEW i \in Server, TimerFires(i) PROVE RestTyped'
  BY <1>1 DEF TimerFires, RestTyped, TypeOK
<1>2. ASSUME NEW i \in Server, becomeCandidate(i) PROVE RestTyped'
  BY <1>2 DEF becomeCandidate, RestTyped, TypeOK
<1>3. ASSUME NEW c \in UnderWay, HandleRequestVote(c) PROVE RestTyped'
  <2>1. c.to \in Server /\ c.from \in Server /\ c.Term \in Nat
    BY CallKind DEF TypeOK
  <2> QED BY <1>3, <2>1 DEF HandleRequestVote, RestTyped, TypeOK
<1>4. ASSUME NEW c \in UnderWay, VoteReply(c) PROVE RestTyped'
  <2>1. votes' \in Seq(Nat)
    <3>1. CASE UNCHANGED votes
      BY <3>1 DEF TypeOK
    <3>2. CASE votes' = [votes EXCEPT ![c.round] = @ + 1]
      <4>1. votes \in [1 .. Len(votes) -> Nat] /\ Len(votes) \in Nat
        BY DEF TypeOK
      <4>2. votes' \in [1 .. Len(votes) -> Nat]
        <5>1. CASE c.round \in 1 .. Len(votes)
          BY <3>2, <4>1, <5>1
        <5>2. CASE c.round \notin 1 .. Len(votes)
          BY <3>2, <4>1, <5>2
        <5> QED BY <5>1, <5>2
      <4> QED BY <4>1, <4>2, SeqDef
    <3> QED BY <1>4, <3>1, <3>2 DEF VoteReply
  <2> QED BY <1>4, <2>1 DEF VoteReply, RestTyped, TypeOK
<1>5. ASSUME NEW c \in UnderWay, VoteStepDown(c) PROVE RestTyped'
  <2>1. c.from \in Server /\ c.replyTerm \in Nat
    BY <1>5, CallKind DEF TypeOK, VoteStepDown, RequestVoteAnswer
  <2> QED BY <1>5, <2>1, StepDownType DEF VoteStepDown, RestTyped, TypeOK
<1>6. ASSUME NEW c \in UnderWay, becomeLeader(c) PROVE RestTyped'
  <2>1. c.from \in Server
    BY CallKind DEF TypeOK
  <2>2. LastIndex(node[c.from]) \in Nat
    BY <2>1, LastType DEF TypeOK
  <2>3. nextIndex' \in [Server -> [Server -> Nat]] /\ matchIndex' \in [Server -> [Server -> Nat]]
    <3> DEFINE next == [p \in Server |-> LastIndex(node[c.from]) + 1]
               zero == [p \in Server |-> 0]
    <3>1. next \in [Server -> Nat] /\ zero \in [Server -> Nat]
      BY <2>2
    <3>2. /\ nextIndex' = [nextIndex EXCEPT ![c.from] = next]
          /\ matchIndex' = [matchIndex EXCEPT ![c.from] = zero]
      BY <1>6 DEF becomeLeader
    <3> HIDE DEF next, zero
    <3> QED BY <2>1, <3>1, <3>2, TableUpdate DEF TypeOK
  <2>4. /\ leaderGeneration' \in [Server -> Nat] /\ loops' \in [Server -> SUBSET Nat]
        /\ elected' \subseteq Server \X Nat
    <3>1. /\ leaderGeneration \in [Server -> Nat] /\ loops \in [Server -> SUBSET Nat]
          /\ elected \subseteq Server \X Nat /\ currentTerm[c.from] \in Nat
      BY <2>1 DEF TypeOK
    <3>2. MyGeneration(c.from) \in Nat
      BY <2>1, <3>1 DEF MyGeneration
    <3> QED BY <1>6, <2>1, <3>1, <3>2 DEF becomeLeader, MyGeneration
  <2> QED BY <1>6, <2>1, <2>3, <2>4 DEF becomeLeader, RestTyped, TypeOK
<1> QED BY <1>1, <1>2, <1>3, <1>4, <1>5, <1>6 DEF Election

\* Types after a step of replication: nextIndex, decremented at line 706, never
\* goes below zero.
LEMMA ReplicationTyped ==
    ASSUME TypeOK, Replication
    PROVE  RestTyped'
<1> USE DEF electionVars, timerVars, leaderVars, loopVars, processVars
<1>1. ASSUME NEW i \in Server, HeartBeat(i) PROVE RestTyped'
  BY <1>1 DEF HeartBeat, RestTyped, TypeOK
<1>2. ASSUME NEW i \in Server, HeartBeatPanic(i) PROVE RestTyped'
  BY <1>2, DeathTyped DEF HeartBeatPanic
<1>3. ASSUME NEW i \in Server, NEW g \in loops[i], HeartBeatExit(i, g) PROVE RestTyped'
  BY <1>3 DEF HeartBeatExit, RestTyped, TypeOK
<1>4. ASSUME NEW i \in Server, NEW command \in Command, Propose(i, command) PROVE RestTyped'
  BY <1>4 DEF Propose, RestTyped, TypeOK
<1>5. ASSUME NEW c \in UnderWay, SendAppendEntries(c) \/ AppendStale(c) PROVE RestTyped'
  BY <1>5, Zenon DEF SendAppendEntries, AppendStale, RestTyped, TypeOK
<1>6. ASSUME NEW c \in UnderWay, FollowAppend(c) PROVE RestTyped'
  <2>1. c.to \in Server /\ c.from \in Server
    BY CallKind DEF TypeOK
  <2>2. leaderID' \in [Server -> Server \cup {Nil}]
    BY <1>6, <2>1 DEF FollowAppend, TypeOK
  <2>3. FollowLeader(c) /\ c \in Call
    BY <1>6 DEF FollowAppend, TypeOK
  <2> QED BY <2>2, <2>3, FollowLeaderType DEF RestTyped, TypeOK
<1>7. ASSUME NEW c \in UnderWay, AppendReplyStepDown(c) PROVE RestTyped'
  <2>1. c.from \in Server /\ c.replyTerm \in Nat
    BY <1>7, CallKind DEF TypeOK, AppendReplyStepDown, AppendEntriesAnswer
  <2> QED BY <1>7, <2>1, StepDownType DEF AppendReplyStepDown, RestTyped, TypeOK
<1>8. ASSUME NEW c \in UnderWay, AppendSucceeded(c) \/ AppendFailed(c) PROVE RestTyped'
  <2>1. c.from \in Server /\ c.to \in Server /\ c \in AppendEntriesAnswer
    BY <1>8, CallKind DEF TypeOK, AppendSucceeded, AppendFailed, AtBookkeeping
  <2>2. c.lastSent \in Nat /\ c.ConflictIndex \in Nat /\ nextIndex[c.from][c.to] \in Nat
    BY <2>1 DEF AppendEntriesAnswer, TypeOK
  <2>3. NextIndexAfter(nextIndex[c.from][c.to], c) \in Nat
    BY <2>2 DEF NextIndexAfter
  <2>4. nextIndex' \in [Server -> [Server -> Nat]]
    <3> DEFINE v == NextIndexAfter(nextIndex[c.from][c.to], c)
    <3>1. nextIndex' = [nextIndex EXCEPT ![c.from][c.to] = v]
      BY <1>8 DEF AppendSucceeded, AppendFailed
    <3> HIDE DEF v
    <3>2. v \in Nat
      BY <2>3 DEF v
    <3>3. nextIndex \in [Server -> [Server -> Nat]]
      BY DEF TypeOK
    <3>4. [nextIndex EXCEPT ![c.from][c.to] = v] \in [Server -> [Server -> Nat]]
      BY <2>1, <3>2, <3>3, TableUpdate
    <3> QED BY <3>1, <3>4, Zenon
  <2>5. matchIndex' \in [Server -> [Server -> Nat]]
    <3>1. matchIndex' = [matchIndex EXCEPT ![c.from][c.to] = c.lastSent] \/ UNCHANGED matchIndex
      BY <1>8 DEF AppendSucceeded, AppendFailed
    <3>2. matchIndex \in [Server -> [Server -> Nat]]
      BY DEF TypeOK
    <3>3. [matchIndex EXCEPT ![c.from][c.to] = c.lastSent] \in [Server -> [Server -> Nat]]
      BY <2>1, <2>2, <3>2, TableUpdate
    <3> QED BY <3>1, <3>2, <3>3, Zenon
  <2> QED BY <1>8, <2>4, <2>5 DEF AppendSucceeded, AppendFailed, RestTyped, TypeOK
<1> QED BY <1>1, <1>2, <1>3, <1>4, <1>5, <1>6, <1>7, <1>8
  DEF Replication, AppendMismatch, AppendTruncateFails, AppendGap, AppendAccept

\* Types after a step of the transfer of a snapshot.
LEMMA SnapshotTransferTyped ==
    ASSUME TypeOK, SnapshotTransfer
    PROVE  RestTyped'
<1> USE DEF electionVars, timerVars, leaderVars, loopVars, processVars
<1>1. ASSUME NEW c \in UnderWay, SendInstallSnapshot(c) \/ SnapshotStale(c) PROVE RestTyped'
  BY <1>1 DEF SendInstallSnapshot, SnapshotStale, RestTyped, TypeOK
<1>2. ASSUME NEW c \in UnderWay, HandleInstallSnapshot(c) PROVE RestTyped'
  <2>1. FollowLeader(c) /\ c \in Call /\ UNCHANGED leaderID
    BY <1>2 DEF HandleInstallSnapshot, TypeOK
  <2> QED BY <2>1, FollowLeaderType DEF RestTyped, TypeOK
<1>3. ASSUME NEW c \in UnderWay, SnapshotReply(c) PROVE RestTyped'
  <2>1. c.from \in Server /\ c.to \in Server /\ c.replyTerm \in Nat /\ c.sent \in Nat
    BY <1>3, CallKind DEF TypeOK, SnapshotReply, InstallSnapshotAnswer
  <2>2. CASE c.replyTerm > currentTerm[c.from]
    BY <1>3, <2>1, <2>2, StepDownType DEF SnapshotReply, RestTyped, TypeOK
  <2>3. CASE ~(c.replyTerm > currentTerm[c.from])
    <3> DEFINE v == c.sent + 1
    <3>1. /\ nextIndex' = [nextIndex EXCEPT ![c.from][c.to] = v]
          /\ matchIndex' = [matchIndex EXCEPT ![c.from][c.to] = c.sent]
      BY <1>3, <2>3 DEF SnapshotReply
    <3>2. v \in Nat
      BY <2>1
    <3> HIDE DEF v
    <3>3. nextIndex \in [Server -> [Server -> Nat]] /\ matchIndex \in [Server -> [Server -> Nat]]
      BY DEF TypeOK
    <3>4. /\ [nextIndex EXCEPT ![c.from][c.to] = v] \in [Server -> [Server -> Nat]]
          /\ [matchIndex EXCEPT ![c.from][c.to] = c.sent] \in [Server -> [Server -> Nat]]
      BY <2>1, <3>2, <3>3, TableUpdate
    <3>5. nextIndex' \in [Server -> [Server -> Nat]] /\ matchIndex' \in [Server -> [Server -> Nat]]
      BY <3>1, <3>4, Zenon
    <3> QED BY <1>3, <2>3, <3>5 DEF SnapshotReply, RestTyped, TypeOK
  <2> QED BY <2>2, <2>3
<1> QED BY <1>1, <1>2, <1>3 DEF SnapshotTransfer

\* Types after a failure.
LEMMA FailureTyped ==
    ASSUME TypeOK, Failure
    PROVE  RestTyped'
<1> USE DEF electionVars, timerVars, leaderVars, loopVars, processVars
<1>1. ASSUME NEW i \in Server, Crash(i) PROVE RestTyped'
  BY <1>1, DeathTyped DEF Crash
<1>2. ASSUME NEW i \in Server, Start(i) PROVE RestTyped'
  BY <1>2 DEF Start, RestTyped, TypeOK
<1>3. ASSUME NEW c \in UnderWay, Lose(c) PROVE RestTyped'
  BY <1>3 DEF Lose, RestTyped, TypeOK
<1> QED BY <1>1, <1>2, <1>3 DEF Failure

\* The initial state.
LEMMA InitFacts ==
    ASSUME Init
    PROVE  TypeOK /\ UnderWay = {} /\ \A i \in Server : node[i] = EmptyNode
<1>1. UnderWay = {}
  BY DEF Init, UnderWay, BagToSet, EmptyBag, SetToBag
<1>2. TypeOK
  BY <1>1, EmptyNodeType DEF Init, TypeOK, Follower
<1> QED BY <1>1, <1>2 DEF Init

\* Every step keeps TypeOK.
LEMMA TypeStep ==
    ASSUME TypeOK, Next
    PROVE  TypeOK'
<1>1. RestTyped'
  BY ElectionTyped, ReplicationTyped, SnapshotTransferTyped, FailureTyped DEF Next
<1>2. node' \in [Server -> Node]
  BY NextFacts DEF NodeFacts
<1>3. UnderWay' \subseteq Call
  BY NextFacts DEF CallFacts, NewCall, TypeOK
<1> QED BY <1>1, <1>2, <1>3 DEF RestTyped, TypeOK

\* Every field of every node, both files and every RPC keep their types; no
\* unsigned index goes below zero (raft.go, all handlers).
THEOREM TypeCorrect == Spec => []TypeOK
<1>1. Init => TypeOK
  BY InitFacts
<1>2. TypeOK /\ [Next]_vars => TypeOK'
  <2>1. ASSUME TypeOK, UNCHANGED vars PROVE TypeOK'
    BY <2>1 DEF vars, electionVars, timerVars, leaderVars, loopVars, processVars, TypeOK, UnderWay
  <2> QED BY <2>1, TypeStep
<1> QED BY <1>1, <1>2, PTL DEF Spec

-----------------------------------------------------------------------------
\* A stuttering step changes nothing.
LEMMA Stutter ==
    ASSUME UNCHANGED vars
    PROVE  /\ UNCHANGED <<currentTerm, votedFor, state, leaderID, node,
                          leaderGeneration, loops, alive, incarnation, elected>>
           /\ UnderWay' = UnderWay
BY DEF vars, electionVars, timerVars, leaderVars, loopVars, processVars, UnderWay

\* The log in memory always starts right after the snapshot on disk, with late
\* goroutines, crashes and restarts (maybeSnapshot, compactLog,
\* HandleInstallSnapshot, loadPersistedState).
THEOREM SnapshotMeetsLogAlways == Spec => []SnapshotMeetsLog
<1>1. Init => SnapshotMeetsLog
  BY InitFacts, EmptyNodeType DEF SnapshotMeetsLog, Meets
<1>2. TypeOK /\ SnapshotMeetsLog /\ [Next]_vars => SnapshotMeetsLog'
  <2>1. ASSUME SnapshotMeetsLog, UNCHANGED vars PROVE SnapshotMeetsLog'
    BY <2>1, Stutter DEF SnapshotMeetsLog
  <2>2. ASSUME TypeOK, SnapshotMeetsLog, Next PROVE SnapshotMeetsLog'
    BY <2>2, NextFacts DEF NodeFacts
  <2> QED BY <2>1, <2>2
<1> QED BY <1>1, <1>2, TypeCorrect, PTL DEF Spec

\* Which steps a process dies or starts in.
LEMMA ProcessSteps ==
    ASSUME Next
    PROVE  \/ UNCHANGED processVars
           \/ \E i \in Server : HeartBeatPanic(i) \/ Crash(i) \/ Start(i)
<1>1. CASE Election
  BY <1>1, Zenon DEF Election, TimerFires, becomeCandidate, HandleRequestVote, VoteReply,
              VoteStepDown, becomeLeader
<1>2. CASE Replication
  BY <1>2, Zenon DEF Replication, HeartBeat, HeartBeatExit, Propose,
              SendAppendEntries, AppendStale, AppendMismatch, AppendTruncateFails,
              AppendGap, AppendAccept, AppendReplyStepDown, AppendSucceeded, AppendFailed,
              FollowAppend, FollowLeader
<1>3. CASE SnapshotTransfer
  BY <1>3 DEF SnapshotTransfer, SendInstallSnapshot, SnapshotStale, HandleInstallSnapshot,
              SnapshotReply, FollowLeader
<1>4. CASE Failure
  BY <1>4 DEF Failure, Lose
<1> QED BY <1>1, <1>2, <1>3, <1>4 DEF Next

\* A process that has never died runs.
LEMMA ProcessChange ==
    ASSUME TypeOK, Next
    PROVE  \A i \in Server : /\ incarnation'[i] = 0 => incarnation[i] = 0
                             /\ alive'[i] \/ incarnation'[i] > 0
                                  \/ (~alive[i] /\ incarnation'[i] = incarnation[i])
<1>1. CASE UNCHANGED processVars
  BY <1>1 DEF TypeOK, processVars
<1>2. ASSUME NEW i \in Server, Die(i)
      PROVE  \A j \in Server : /\ incarnation'[j] = 0 => incarnation[j] = 0
                               /\ alive'[j] \/ incarnation'[j] > 0
                                    \/ (~alive[j] /\ incarnation'[j] = incarnation[j])
  <2> SUFFICES ASSUME NEW j \in Server
               PROVE  /\ incarnation'[j] = 0 => incarnation[j] = 0
                      /\ alive'[j] \/ incarnation'[j] > 0
                           \/ (~alive[j] /\ incarnation'[j] = incarnation[j])
    OBVIOUS
  <2>1. CASE j = i
    <3>1. incarnation'[j] = incarnation[j] + 1 /\ incarnation[j] \in Nat
      BY <1>2, <2>1 DEF TypeOK, Die
    <3> QED BY <3>1
  <2>2. CASE j # i
    BY <1>2, <2>2 DEF TypeOK, Die
  <2> QED BY <2>1, <2>2
<1>3. ASSUME NEW i \in Server, Start(i)
      PROVE  \A j \in Server : /\ incarnation'[j] = 0 => incarnation[j] = 0
                               /\ alive'[j] \/ incarnation'[j] > 0
                                    \/ (~alive[j] /\ incarnation'[j] = incarnation[j])
  BY <1>3 DEF Start, TypeOK
<1>4. \/ UNCHANGED processVars
      \/ \E i \in Server : Die(i) \/ Start(i)
  BY ProcessSteps DEF HeartBeatPanic, Crash
<1> QED BY <1>1, <1>2, <1>3, <1>4

\* The inductive invariant behind LogContiguous: a contiguous log alone is not
\* enough, the entries on their way have to be consecutive too.
ContiguityInv ==
    /\ Started
    /\ NoCrash => AllContiguous /\ CarriesRuns

\* ContiguityInv holds in every state.
LEMMA ContiguityInvAlways == Spec => []ContiguityInv
<1>1. Init => ContiguityInv
  <2> SUFFICES ASSUME Init PROVE ContiguityInv
    OBVIOUS
  <2>1. Started
    BY DEF Init, Started
  <2>2. AllContiguous /\ CarriesRuns
    BY InitFacts, EmptyNodeType DEF AllContiguous, CarriesRuns
  <2> QED BY <2>1, <2>2 DEF ContiguityInv
<1>2. TypeOK /\ ContiguityInv /\ [Next]_vars => ContiguityInv'
  <2>1. ASSUME ContiguityInv, UNCHANGED vars PROVE ContiguityInv'
    BY <2>1, Stutter DEF ContiguityInv, Started, NoCrash, AllContiguous, CarriesRuns, Contiguous
  <2>2. ASSUME TypeOK, ContiguityInv, Next PROVE ContiguityInv'
    <3>1. Started'
      BY <2>2, ProcessChange DEF ContiguityInv, Started
    <3>2. ASSUME NoCrash' PROVE AllContiguous' /\ CarriesRuns'
      <4>1. NoCrash
        BY <2>2, <3>2, ProcessChange DEF NoCrash
      <4>2. AllContiguous /\ CarriesRuns /\ Started
        BY <2>2, <4>1 DEF ContiguityInv
      <4>3. AllContiguous'
        BY <2>2, <3>2, <4>2, NextFacts DEF NodeFacts
      <4>4. CarriesRuns'
        BY <2>2, <4>2, NextFacts DEF CallFacts, NewCall, CarriesRuns
      <4> QED BY <4>3, <4>4
    <3> QED BY <3>1, <3>2 DEF ContiguityInv
  <2> QED BY <2>1, <2>2
<1> QED BY <1>1, <1>2, TypeCorrect, PTL DEF Spec

\* Until the first restart, r.log[p] has index logOffset + p + 1 on every node,
\* whatever is late, lost or reordered (toSlicePos, HandleAppendEntries).
THEOREM LogContiguousAlways == Spec => []LogContiguous
<1>1. ContiguityInv => LogContiguous
  BY DEF ContiguityInv, NoCrash, AllContiguous, Contiguous, LogContiguous
<1> QED BY <1>1, ContiguityInvAlways, PTL
=============================================================================
