-------------------------------- MODULE Raft --------------------------------
(***************************************************************************)
(* The Raft node of jin-kv (raft/raft.go, raft/snapshot.go) on top of its  *)
(* write-ahead log (wal/wal.go) and its one-connection-per-call transport  *)
(* (transport/transport.go): elections, log replication, commitment,       *)
(* snapshots and compaction, crash and restart.                            *)
(*                                                                         *)
(* A step is a section of code executed under r.mu, or an unlocked read    *)
(* that the code makes between two such sections.  Every goroutine the     *)
(* code starts is a record in the bag "calls"; the field "at" says how far *)
(* it has come.                                                            *)
(***************************************************************************)
EXTENDS NodeData, FiniteSets, Bags

CONSTANTS
    Server,             \* the node ids; r.peers holds all of them, r.id too
    LateWork,           \* may a goroutine run after its node left its term?
    MaxElections,       \* bound: elections started, over all nodes
    MaxIndex,           \* bound: highest log index
    MaxCalls,           \* bound: replication goroutines alive at one time
    MaxCrashes          \* bound: crashes of one node

ASSUME ServerAssumption == IsFiniteSet(Server) /\ Nil \notin Server

ASSUME LateWorkAssumption == LateWork \in BOOLEAN

ASSUME BoundAssumption ==
    /\ MaxElections \in Nat
    /\ MaxIndex \in Nat
    /\ MaxCalls \in Nat
    /\ MaxCrashes \in Nat

VARIABLES
    currentTerm,      \* r.currentTerm (never written to disk)
    votedFor,         \* r.votedFor (never written to disk)
    state,            \* r.state
    leaderID,         \* r.leaderID
    armed,            \* the election timer is running
    electing,         \* electionLoop is between lines 458 and 461
    node,             \* the log, the state machine and the disk of a node
    nextIndex,        \* r.nextIndex
    matchIndex,       \* r.matchIndex
    leaderGeneration, \* r.leaderGeneration
    loops,            \* the generations whose heartBeatLoop is running
    votes,            \* votes[k]: the counter of the k-th requestVotes
    calls,            \* the goroutines and RPCs under way, a bag
    alive,            \* the process is running
    incarnation,      \* how often the process has died
    elected           \* history: <<server, term>> of every becomeLeader

electionVars == <<currentTerm, votedFor, state>>
timerVars == <<armed, electing>>
leaderVars == <<nextIndex, matchIndex>>
loopVars == <<leaderGeneration, loops>>
processVars == <<alive, incarnation>>
vars == <<electionVars, leaderID, timerVars, node, leaderVars, loopVars,
          votes, calls, processVars, elected>>

-----------------------------------------------------------------------------
(* The roles of a node.                                                    *)

Follower == "Follower"
Candidate == "Candidate"
Leader == "Leader"

-----------------------------------------------------------------------------
(* Calls: a goroutine that makes one RPC.  Each RPC has a TCP connection   *)
(* of its own, so a call is delivered at most once, at any later time, in  *)
(* any order, or fails; nothing is retried.  inc is the caller's process.  *)

RequestVoteCall ==
    [kind : {"vote"}, from : Server, to : Server, inc : Nat, Term : Nat,
     at : {"request"}, round : Nat, LastLogIndex : Nat, LastLogTerm : Nat]

RequestVoteAnswer ==
    [kind : {"vote"}, from : Server, to : Server, inc : Nat, Term : Nat,
     at : {"reply", "stepdown", "lead"}, round : Nat, replyTerm : Nat,
     VoteGranted : BOOLEAN]

AppendEntriesCall ==
    [kind : {"append"}, from : Server, to : Server, inc : Nat, Term : Nat,
     at : {"spawned", "request"}, PrevLogIndex : Nat, PrevLogTerm : Nat,
     Entries : Seq(Entry), LeaderCommit : Nat]

\* lastSent: the index of the last entry that was sent, 0 if none was.
AppendEntriesAnswer ==
    [kind : {"append"}, from : Server, to : Server, inc : Nat, Term : Nat,
     at : {"reply", "stepped"}, lastSent : Nat, replyTerm : Nat,
     Success : BOOLEAN, ConflictIndex : Nat]

InstallSnapshotCall ==
    [kind : {"snapshot"}, from : Server, to : Server, inc : Nat, Term : Nat,
     at : {"spawned", "request"}, snapshot : Snapshot]

InstallSnapshotAnswer ==
    [kind : {"snapshot"}, from : Server, to : Server, inc : Nat, Term : Nat,
     at : {"reply"}, sent : Nat, replyTerm : Nat]

Call == RequestVoteCall \cup RequestVoteAnswer
          \cup AppendEntriesCall \cup AppendEntriesAnswer
          \cup InstallSnapshotCall \cup InstallSnapshotAnswer

UnderWay == BagToSet(calls)

\* The process that made the call still runs.
Waiting(c) == alive[c.from] /\ c.inc = incarnation[c.from]

\* The goroutine of c may take its next step.  Without LateWork the scheduler
\* is assumed to run it before its node leaves the term of the call.
InTime(c) == Waiting(c) /\ (LateWork \/ c.Term = currentTerm[c.from])

\* The goroutine of c ends, or goes on as d.
Finish(c) == calls' = calls (-) SetToBag({c})
Continue(c, d) == calls' = (calls (-) SetToBag({c})) (+) SetToBag({d})

\* The handler returns answer; it is lost if nobody will look at it.
Reply(c, answer) == IF InTime(c) THEN Continue(c, answer) ELSE Finish(c)

\* A peer refuses the connection, or the connection breaks: the goroutine
\* returns at "if err != nil".  A vote call that fails is one that is never
\* answered; for a replication call the end also counts against MaxCalls.
Lose(c) ==
    /\ c.kind # "vote"
    /\ c.at \in {"spawned", "request", "reply"}
    /\ Finish(c)
    /\ UNCHANGED <<electionVars, leaderID, timerVars, node, leaderVars,
                   loopVars, votes, processVars, elected>>

-----------------------------------------------------------------------------
(* Elections.                                                              *)

Majority == Cardinality(Server) \div 2 + 1

\* The bound on elections, those about to start included.
MayElect == Len(votes) + Cardinality({i \in Server : electing[i]}) < MaxElections

\* Slip: only a follower starts an election, a candidate's tick is swallowed.
TimerFiresOnce(i) ==
    /\ alive[i] /\ armed[i] /\ ~electing[i]
    /\ MayElect
    /\ armed' = [armed EXCEPT ![i] = FALSE]
    /\ electing' = [electing EXCEPT ![i] = state[i] = Follower]
    /\ UNCHANGED <<electionVars, leaderID, node, leaderVars, loopVars, votes,
                   calls, processVars, elected>>

\* The timer fires; electionLoop reads the state and lets go of the lock.  A
\* leader's tick is swallowed and the timer stays stopped.
TimerFires(i) ==
    /\ alive[i] /\ armed[i] /\ ~electing[i]
    /\ MayElect
    /\ armed' = [armed EXCEPT ![i] = FALSE]
    /\ electing' = [electing EXCEPT ![i] = state[i] # Leader]
    /\ UNCHANGED <<electionVars, leaderID, node, leaderVars, loopVars, votes,
                   calls, processVars, elected>>

\* The goroutines of requestVotes.  It takes last index and term from r.log
\* alone: (0, 0) when every entry has been compacted.
RequestVotes(i, term, round) ==
    {[kind |-> "vote", from |-> i, to |-> j, inc |-> incarnation[i],
      Term |-> term, at |-> "request", round |-> round,
      LastLogIndex |-> IF node[i].log = <<>> THEN 0 ELSE LastIndex(node[i]),
      LastLogTerm |-> LastTerm(node[i])] : j \in Server \ {i}}

becomeCandidate(i) ==
    /\ electing[i]
    /\ currentTerm' = [currentTerm EXCEPT ![i] = @ + 1]
    /\ state' = [state EXCEPT ![i] = Candidate]
    /\ votedFor' = [votedFor EXCEPT ![i] = i]
    /\ armed' = [armed EXCEPT ![i] = TRUE]
    /\ electing' = [electing EXCEPT ![i] = FALSE]
    /\ votes' = Append(votes, 1)
    /\ calls' = calls (+) SetToBag(RequestVotes(i, currentTerm[i] + 1, Len(votes) + 1))
    /\ UNCHANGED <<leaderID, node, leaderVars, loopVars, processVars, elected>>

isCandidateLogUpToDate(n, lastTerm, lastIndex) ==
    \/ lastTerm > LastTerm(n)
    \/ lastTerm = LastTerm(n) /\ lastIndex >= LastIndex(n)

\* Slip: the vote already given in the term is not looked at.
GrantsTwice(i, c) ==
    /\ c.Term >= currentTerm[i]
    /\ isCandidateLogUpToDate(node[i], c.LastLogTerm, c.LastLogIndex)

\* A node grants a vote in its (possibly just adopted) term.
GrantsVote(i, c) ==
    /\ c.Term >= currentTerm[i]
    /\ c.Term > currentTerm[i] \/ votedFor[i] \in {Nil, c.from}
    /\ isCandidateLogUpToDate(node[i], c.LastLogTerm, c.LastLogIndex)

HandleRequestVote(c) ==
    LET i == c.to
        newer == c.Term > currentTerm[i]
        granted == GrantsVote(i, c)
    IN  /\ c.kind = "vote" /\ c.at = "request"
        /\ alive[i]
        /\ currentTerm' = [currentTerm EXCEPT ![i] = IF newer THEN c.Term ELSE @]
        /\ state' = [state EXCEPT ![i] = IF newer THEN Follower ELSE @]
        /\ votedFor' = [votedFor EXCEPT ![i] = IF granted THEN c.from
                                               ELSE IF newer THEN Nil ELSE @]
        /\ armed' = [armed EXCEPT ![i] = @ \/ granted]
        /\ Reply(c, [kind |-> "vote", from |-> c.from, to |-> c.to,
                     inc |-> c.inc, Term |-> c.Term, at |-> "reply",
                     round |-> c.round, replyTerm |-> currentTerm'[i],
                     VoteGranted |-> granted])
        /\ UNCHANGED <<leaderID, electing, node, leaderVars, loopVars, votes,
                       processVars, elected>>

\* voteMu is free: no goroutine of the round is inside its locked part.
VoteMuFree(c) ==
    \A d \in UnderWay : (d.kind = "vote" /\ d.at # "request")
                            => (d.round # c.round \/ d.at = "reply")

\* A goroutine of requestVotes gets its reply and takes voteMu.  It reads
\* r.currentTerm and r.state without r.mu, so what it decides here is carried
\* out later.  That the round is still the current one is not checked.
VoteReply(c) ==
    /\ c.kind = "vote" /\ c.at = "reply"
    /\ InTime(c) /\ VoteMuFree(c)
    /\ \/ /\ c.replyTerm > currentTerm[c.from]
          /\ Continue(c, [c EXCEPT !.at = "stepdown"])
          /\ UNCHANGED votes
       \/ /\ c.replyTerm <= currentTerm[c.from] /\ c.VoteGranted
          /\ votes' = [votes EXCEPT ![c.round] = @ + 1]
          /\ IF votes[c.round] + 1 >= Majority /\ state[c.from] = Candidate
             THEN Continue(c, [c EXCEPT !.at = "lead"])
             ELSE Finish(c)
       \/ /\ c.replyTerm <= currentTerm[c.from] /\ ~c.VoteGranted
          /\ Finish(c)
          /\ UNCHANGED votes
    /\ UNCHANGED <<electionVars, leaderID, timerVars, node, leaderVars,
                   loopVars, processVars, elected>>

\* Slip: the newer term is not taken over.
StepDownInTerm(i, term) ==
    /\ state' = [state EXCEPT ![i] = Follower]
    /\ votedFor' = [votedFor EXCEPT ![i] = Nil]
    /\ UNCHANGED currentTerm

\* Lines 232-236, 682-686 and 549-551: the reply's term replaces whatever the
\* term is by now.
StepDown(i, term) ==
    /\ currentTerm' = [currentTerm EXCEPT ![i] = term]
    /\ state' = [state EXCEPT ![i] = Follower]
    /\ votedFor' = [votedFor EXCEPT ![i] = Nil]

VoteStepDown(c) ==
    /\ c.kind = "vote" /\ c.at = "stepdown"
    /\ InTime(c)
    /\ StepDown(c.from, c.replyTerm)
    /\ Finish(c)
    /\ UNCHANGED <<leaderID, timerVars, node, leaderVars, loopVars, votes,
                   processVars, elected>>

\* Slip: the generation is read before it is incremented.
OldGeneration(i) == leaderGeneration[i]

\* The generation a new leader gives to its heartBeatLoop.
MyGeneration(i) == leaderGeneration[i] + 1

\* becomeLeader does not look at the state again.
becomeLeader(c) ==
    LET i == c.from
        last == LastIndex(node[i])
    IN  /\ c.kind = "vote" /\ c.at = "lead"
        /\ InTime(c)
        /\ last < MaxIndex
        /\ state' = [state EXCEPT ![i] = Leader]
        /\ leaderGeneration' = [leaderGeneration EXCEPT ![i] = @ + 1]
        /\ armed' = [armed EXCEPT ![i] = TRUE]
        /\ nextIndex' = [nextIndex EXCEPT ![i] = [p \in Server |-> last + 1]]
        /\ matchIndex' = [matchIndex EXCEPT ![i] = [p \in Server |-> 0]]
        /\ node' = [node EXCEPT ![i] =
                       AppendAll(@, <<NewEntry(@, currentTerm[i], NoOp)>>)]
        /\ loops' = [loops EXCEPT ![i] = @ \cup {MyGeneration(i)}]
        /\ elected' = elected \cup {<<i, currentTerm[i]>>}
        /\ Finish(c)
        /\ UNCHANGED <<currentTerm, votedFor, leaderID, electing, votes,
                       processVars>>

-----------------------------------------------------------------------------
(* The leader's heartbeat loop.                                            *)

Compacted(i, p) == toSlicePos(node[i], nextIndex[i][p]) < 0

\* Slicing r.log from beyond its end.
OutOfRange(i, p) == toSlicePos(node[i], nextIndex[i][p]) > Len(node[i].log)

\* The AppendEntries goroutine for p.  A peer that needs a snapshot is not
\* skipped: it gets the zero peerData.  LeaderCommit is filled in later.
AppendFor(i, p) ==
    LET n == node[i]
        next == nextIndex[i][p]
    IN  [kind |-> "append", from |-> i, to |-> p, inc |-> incarnation[i],
         Term |-> currentTerm[i], at |-> "spawned",
         PrevLogIndex |-> IF Compacted(i, p) THEN 0 ELSE next - 1,
         PrevLogTerm |-> IF ~Compacted(i, p) /\ HasEntry(n, next - 1)
                         THEN EntryAt(n, next - 1).Term ELSE 0,
         Entries |-> IF Compacted(i, p) THEN <<>>
                     ELSE SubSeq(n.log, toSlicePos(n, next) + 1, Len(n.log)),
         LeaderCommit |-> 0]

\* The sendSnapshotToPeer goroutine for p; the file is not read yet.
SnapshotFor(i, p) ==
    [kind |-> "snapshot", from |-> i, to |-> p, inc |-> incarnation[i],
     Term |-> currentTerm[i], at |-> "spawned", snapshot |-> NoSnapshot]

\* What one tick starts: the snapshot loop includes the leader itself.
Spawned(i) ==
    {AppendFor(i, p) : p \in Server \ {i}}
      \cup {SnapshotFor(i, p) : p \in {q \in Server : Compacted(i, q)}}

\* How many replication goroutines there are, copies included.
Replicating ==
    BagCardinality([c \in {d \in UnderWay : d.kind # "vote"} |-> calls[c]])

\* A tick of the loop of the current generation.  started are the goroutines
\* whose connection comes up; the others return at once.
HeartBeat(i) ==
    /\ alive[i] /\ state[i] = Leader
    /\ leaderGeneration[i] \in loops[i]
    /\ \A p \in Server : ~OutOfRange(i, p)
    /\ Replicating < MaxCalls
    /\ \E started \in SUBSET Spawned(i) :
          /\ started # {}
          /\ Replicating + Cardinality(started) <= MaxCalls
          /\ calls' = calls (+) SetToBag(started)
    /\ UNCHANGED <<electionVars, leaderID, timerVars, node, leaderVars,
                   loopVars, votes, processVars, elected>>

\* Slip: a loop looks at its generation only.
HeartBeatExitByGeneration(i, g) ==
    /\ alive[i] /\ g \in loops[i]
    /\ leaderGeneration[i] # g
    /\ loops' = [loops EXCEPT ![i] = @ \ {g}]
    /\ UNCHANGED <<electionVars, leaderID, timerVars, node, leaderVars,
                   leaderGeneration, votes, calls, processVars, elected>>

\* A tick of a loop whose node is no leader, or has become one again since.
HeartBeatExit(i, g) ==
    /\ alive[i] /\ g \in loops[i]
    /\ state[i] # Leader \/ leaderGeneration[i] # g
    /\ loops' = [loops EXCEPT ![i] = @ \ {g}]
    /\ UNCHANGED <<electionVars, leaderID, timerVars, node, leaderVars,
                   leaderGeneration, votes, calls, processVars, elected>>

\* The process dies: its memory and its goroutines are gone, the files and
\* what it has already sent are not.
Die(i) ==
    /\ alive' = [alive EXCEPT ![i] = FALSE]
    /\ incarnation' = [incarnation EXCEPT ![i] = @ + 1]
    /\ currentTerm' = [currentTerm EXCEPT ![i] = 0]
    /\ votedFor' = [votedFor EXCEPT ![i] = Nil]
    /\ state' = [state EXCEPT ![i] = Follower]
    /\ leaderID' = [leaderID EXCEPT ![i] = Nil]
    /\ armed' = [armed EXCEPT ![i] = FALSE]
    /\ electing' = [electing EXCEPT ![i] = FALSE]
    /\ node' = [node EXCEPT ![i] = OnDisk(@)]
    /\ nextIndex' = [nextIndex EXCEPT ![i] = [p \in Server |-> 0]]
    /\ matchIndex' = [matchIndex EXCEPT ![i] = [p \in Server |-> 0]]
    /\ leaderGeneration' = [leaderGeneration EXCEPT ![i] = 0]
    /\ loops' = [loops EXCEPT ![i] = {}]
    /\ calls' = LET left == {c \in UnderWay : c.from = i => c.at = "request"}
                IN  [c \in left |-> calls[c]]
    /\ UNCHANGED <<votes, elected>>

\* A tick that slices r.log out of range: a run-time panic.
HeartBeatPanic(i) ==
    /\ alive[i] /\ state[i] = Leader
    /\ leaderGeneration[i] \in loops[i]
    /\ \E p \in Server : OutOfRange(i, p)
    /\ Die(i)

-----------------------------------------------------------------------------
(* AppendEntries.                                                          *)

\* The goroutine reads r.commitIndex without the lock and sends.  Entries is
\* a slice of r.log's array: where the log has been truncated and appended to
\* since, the slice may show the entries that the log has there now.
SendAppendEntries(c) ==
    LET n == node[c.from]
    IN  /\ c.kind = "append" /\ c.at = "spawned"
        /\ InTime(c)
        /\ \E seen \in SUBSET {k \in DOMAIN c.Entries : HasEntry(n, c.Entries[k].Index)} :
              Continue(c, [c EXCEPT
                  !.at = "request",
                  !.LeaderCommit = n.commitIndex,
                  !.Entries = [k \in DOMAIN c.Entries |->
                                  IF k \in seen THEN EntryAt(n, c.Entries[k].Index)
                                  ELSE c.Entries[k]]])
        /\ UNCHANGED <<electionVars, leaderID, timerVars, node, leaderVars,
                       loopVars, votes, processVars, elected>>

AppendReply(c, term, success, conflict) ==
    Reply(c, [kind |-> "append", from |-> c.from, to |-> c.to, inc |-> c.inc,
              Term |-> c.Term, at |-> "reply",
              lastSent |-> IF c.Entries = <<>> THEN 0
                           ELSE c.Entries[Len(c.Entries)].Index,
              replyTerm |-> term, Success |-> success,
              ConflictIndex |-> conflict])

\* The request comes from an older term.
AppendStale(c) ==
    /\ c.kind = "append" /\ c.at = "request" /\ alive[c.to]
    /\ c.Term < currentTerm[c.to]
    /\ AppendReply(c, currentTerm[c.to], FALSE, 0)
    /\ UNCHANGED <<electionVars, leaderID, timerVars, node, leaderVars,
                   loopVars, votes, processVars, elected>>

\* The sender is taken for the current leader (lines 327-340).
FollowLeader(c) ==
    LET i == c.to
    IN  /\ c.at = "request" /\ alive[i]
        /\ c.Term >= currentTerm[i]
        /\ currentTerm' = [currentTerm EXCEPT ![i] = c.Term]
        /\ votedFor' = [votedFor EXCEPT ![i] = IF c.Term > currentTerm[i] THEN Nil ELSE @]
        /\ state' = [state EXCEPT ![i] = Follower]
        /\ armed' = [armed EXCEPT ![i] = TRUE]
        /\ UNCHANGED <<electing, leaderVars, loopVars, votes, processVars, elected>>

\* Slip: the candidate that got the vote is taken for the leader.
FollowCandidate(c) ==
    /\ c.kind = "append"
    /\ FollowLeader(c)
    /\ leaderID' = [leaderID EXCEPT ![c.to] = votedFor[c.to]]

FollowAppend(c) ==
    /\ c.kind = "append"
    /\ FollowLeader(c)
    /\ leaderID' = [leaderID EXCEPT ![c.to] = c.from]

\* Slip: no consistency check.
AnyPrev(n, c) == TRUE

\* The consistency check.  An index without an entry counts as consistent.
PrevMatches(n, c) ==
    (c.PrevLogIndex > 0 /\ HasEntry(n, c.PrevLogIndex))
        => EntryAt(n, c.PrevLogIndex).Term = c.PrevLogTerm

AppendMismatch(c) ==
    /\ FollowAppend(c)
    /\ ~PrevMatches(node[c.to], c)
    /\ AppendReply(c, c.Term, FALSE, 0)
    /\ UNCHANGED node

\* r.log is truncated before wal.TruncateAfter is tried.  When the WAL holds
\* no record of the index before the conflict, the handler gives up there.
AppendTruncateFails(c) ==
    LET n == node[c.to]
    IN  /\ FollowAppend(c)
        /\ PrevMatches(n, c)
        /\ \E k \in 1 .. Len(c.Entries) + 1 :
              /\ FirstNew(n, c.Entries, k)
              /\ Conflicts(n, c.Entries, k)
              /\ ~CanTruncateAfter(n.wal, c.Entries[k].Index - 1)
              /\ node' = [node EXCEPT ![c.to] = TruncateLog(@, c.Entries[k].Index)]
        /\ AppendReply(c, c.Term, FALSE, 0)

\* The new entries do not start where the log ends.
AppendGap(c) ==
    LET n == node[c.to]
    IN  /\ FollowAppend(c)
        /\ PrevMatches(n, c)
        /\ \E k \in DOMAIN c.Entries :
              /\ FirstNew(n, c.Entries, k)
              /\ ~Conflicts(n, c.Entries, k)
              /\ ~LinesUp(n, c.Entries, k)
        /\ AppendReply(c, c.Term, FALSE, n.logOffset + Len(n.log) + 1)
        /\ UNCHANGED node

AppendAccept(c) ==
    LET n == node[c.to]
    IN  /\ FollowAppend(c)
        /\ PrevMatches(n, c)
        /\ \E k \in 1 .. Len(c.Entries) + 1 :
              /\ FirstNew(n, c.Entries, k)
              /\ k \in DOMAIN c.Entries =>
                    IF Conflicts(n, c.Entries, k)
                    THEN CanTruncateAfter(n.wal, c.Entries[k].Index - 1)
                    ELSE LinesUp(n, c.Entries, k)
              /\ node' = [node EXCEPT ![c.to] =
                    maybeSnapshot(FollowCommit(StoreEntries(@, c.Entries, k), c.LeaderCommit))]
        /\ AppendReply(c, c.Term, TRUE, 0)

\* The reply has a newer term than the call had: the first locked section.
AppendReplyStepDown(c) ==
    /\ c.kind = "append" /\ c.at = "reply"
    /\ InTime(c)
    /\ c.replyTerm > c.Term
    /\ StepDown(c.from, c.replyTerm)
    /\ Continue(c, [c EXCEPT !.at = "stepped"])
    /\ UNCHANGED <<leaderID, timerVars, node, leaderVars, loopVars, votes,
                   processVars, elected>>

\* The goroutine comes to its second locked section.  It does so after a step
\* down too, though its node has left the term of the call by then.
AtBookkeeping(c) ==
    /\ c.kind = "append"
    /\ \/ c.at = "stepped" /\ Waiting(c)
       \/ c.at = "reply" /\ c.replyTerm <= c.Term /\ InTime(c)

\* Slip: the highest value is taken instead of the middle one.
IsHighestIndex(match, last, v) == v = last

\* everyMatchIndex has one value per node, the leader's own 0 included, and
\* the leader's last index; sorted downwards, its middle one is taken.
IsMajorityIndex(match, last, v) ==
    LET Values(Test(_)) == Cardinality({p \in Server : Test(match[p])})
                             + (IF Test(last) THEN 1 ELSE 0)
        middle == (Cardinality(Server) + 1) \div 2
    IN  Values(LAMBDA x : x > v) <= middle /\ middle < Values(LAMBDA x : x >= v)

\* tryAdvanceCommitIndex sets commitIndex to an entry of the own term; that
\* it is higher than the old commitIndex is not checked.
tryAdvanceCommitIndex(n, match, term) ==
    LET ready == {v \in n.logOffset + 1 .. n.logOffset + Len(n.log) :
                     IsMajorityIndex(match, LastIndex(n), v) /\ EntryAt(n, v).Term = term}
    IN  IF ready = {} THEN n
        ELSE maybeSnapshot(ApplyCommitted([n EXCEPT !.commitIndex = CHOOSE v \in ready : TRUE]))

\* Slip: nextIndex moves past an entry that was never sent.
NextIndexSkips(next, c) ==
    IF c.Success /\ c.lastSent > 0 THEN c.lastSent + 2
    ELSE IF ~c.Success /\ c.ConflictIndex > 0 THEN c.ConflictIndex
    ELSE next

\* Slip: the index that a rejection names is not used.
NextIndexStays(next, c) ==
    IF c.Success /\ c.lastSent > 0 THEN c.lastSent + 1 ELSE next

\* nextIndex of the peer after its reply.
NextIndexAfter(next, c) ==
    IF c.Success THEN IF c.lastSent > 0 THEN c.lastSent + 1 ELSE next
    ELSE IF c.ConflictIndex > 0 THEN c.ConflictIndex
    ELSE IF next > 1 THEN next - 1 ELSE next

AppendSucceeded(c) ==
    LET i == c.from
    IN  /\ AtBookkeeping(c) /\ c.Success
        /\ nextIndex' = [nextIndex EXCEPT ![i][c.to] = NextIndexAfter(@, c)]
        /\ IF c.lastSent > 0
           THEN /\ matchIndex' = [matchIndex EXCEPT ![i][c.to] = c.lastSent]
                /\ node' = [node EXCEPT ![i] =
                       tryAdvanceCommitIndex(@, matchIndex'[i], currentTerm[i])]
           ELSE UNCHANGED <<matchIndex, node>>
        /\ Finish(c)
        /\ UNCHANGED <<electionVars, leaderID, timerVars, loopVars, votes,
                       processVars, elected>>

AppendFailed(c) ==
    LET i == c.from
    IN  /\ AtBookkeeping(c) /\ ~c.Success
        /\ nextIndex' = [nextIndex EXCEPT ![i][c.to] = NextIndexAfter(@, c)]
        /\ Finish(c)
        /\ UNCHANGED <<electionVars, leaderID, timerVars, node, matchIndex,
                       loopVars, votes, processVars, elected>>

-----------------------------------------------------------------------------
(* InstallSnapshot.                                                        *)

\* sendSnapshotToPeer reads the file that is there when it runs.
SendInstallSnapshot(c) ==
    /\ c.kind = "snapshot" /\ c.at = "spawned"
    /\ InTime(c)
    /\ node[c.from].snapshot.index > 0
    /\ Continue(c, [c EXCEPT !.at = "request", !.snapshot = node[c.from].snapshot])
    /\ UNCHANGED <<electionVars, leaderID, timerVars, node, leaderVars,
                   loopVars, votes, processVars, elected>>

SnapshotAnswer(c, term) ==
    Reply(c, [kind |-> "snapshot", from |-> c.from, to |-> c.to, inc |-> c.inc,
              Term |-> c.Term, at |-> "reply", sent |-> c.snapshot.index,
              replyTerm |-> term])

SnapshotStale(c) ==
    /\ c.kind = "snapshot" /\ c.at = "request" /\ alive[c.to]
    /\ c.Term < currentTerm[c.to]
    /\ SnapshotAnswer(c, currentTerm[c.to])
    /\ UNCHANGED <<electionVars, leaderID, timerVars, node, leaderVars,
                   loopVars, votes, processVars, elected>>

HandleInstallSnapshot(c) ==
    /\ c.kind = "snapshot"
    /\ FollowLeader(c)
    /\ node' = [node EXCEPT ![c.to] = InstallSnapshot(@, c.snapshot)]
    /\ SnapshotAnswer(c, c.Term)
    /\ UNCHANGED leaderID

\* The reply does not say whether the snapshot was taken.
SnapshotReply(c) ==
    LET i == c.from
        newer == c.replyTerm > currentTerm[i]
    IN  /\ c.kind = "snapshot" /\ c.at = "reply"
        /\ InTime(c)
        /\ IF newer
           THEN StepDown(i, c.replyTerm) /\ UNCHANGED leaderVars
           ELSE /\ nextIndex' = [nextIndex EXCEPT ![i][c.to] = c.sent + 1]
                /\ matchIndex' = [matchIndex EXCEPT ![i][c.to] = c.sent]
                /\ UNCHANGED electionVars
        /\ Finish(c)
        /\ UNCHANGED <<leaderID, timerVars, node, loopVars, votes, processVars,
                       elected>>

-----------------------------------------------------------------------------
(* Clients, crashes and restarts.                                          *)

\* Slip: that the node still leads is not checked under the lock.
ProposeUnchecked(i, command) ==
    /\ alive[i]
    /\ LastIndex(node[i]) < MaxIndex
    /\ node' = [node EXCEPT ![i] =
                   AppendAll(@, <<NewEntry(@, currentTerm[i], command)>>)]
    /\ UNCHANGED <<electionVars, leaderID, timerVars, leaderVars, loopVars,
                   votes, calls, processVars, elected>>

Propose(i, command) ==
    /\ alive[i] /\ state[i] = Leader
    /\ LastIndex(node[i]) < MaxIndex
    /\ node' = [node EXCEPT ![i] =
                   AppendAll(@, <<NewEntry(@, currentTerm[i], command)>>)]
    /\ UNCHANGED <<electionVars, leaderID, timerVars, leaderVars, loopVars,
                   votes, calls, processVars, elected>>

Crash(i) ==
    /\ alive[i]
    /\ incarnation[i] < MaxCrashes
    /\ Die(i)

\* NewRaft and Start: term and vote begin at zero again.
Start(i) ==
    /\ ~alive[i]
    /\ alive' = [alive EXCEPT ![i] = TRUE]
    /\ armed' = [armed EXCEPT ![i] = TRUE]
    /\ node' = [node EXCEPT ![i] = loadPersistedState(@)]
    /\ UNCHANGED <<electionVars, leaderID, electing, leaderVars, loopVars,
                   votes, calls, incarnation, elected>>

-----------------------------------------------------------------------------
Init ==
    /\ currentTerm = [i \in Server |-> 0]
    /\ votedFor = [i \in Server |-> Nil]
    /\ state = [i \in Server |-> Follower]
    /\ leaderID = [i \in Server |-> Nil]
    /\ armed = [i \in Server |-> TRUE]
    /\ electing = [i \in Server |-> FALSE]
    /\ node = [i \in Server |-> EmptyNode]
    /\ nextIndex = [i \in Server |-> [p \in Server |-> 0]]
    /\ matchIndex = [i \in Server |-> [p \in Server |-> 0]]
    /\ leaderGeneration = [i \in Server |-> 0]
    /\ loops = [i \in Server |-> {}]
    /\ votes = <<>>
    /\ calls = EmptyBag
    /\ alive = [i \in Server |-> TRUE]
    /\ incarnation = [i \in Server |-> 0]
    /\ elected = {}

Election ==
    \/ \E i \in Server : TimerFires(i) \/ becomeCandidate(i)
    \/ \E c \in UnderWay : \/ HandleRequestVote(c) \/ VoteReply(c)
                           \/ VoteStepDown(c) \/ becomeLeader(c)

Replication ==
    \/ \E i \in Server : HeartBeat(i) \/ HeartBeatPanic(i)
    \/ \E i \in Server : \E g \in loops[i] : HeartBeatExit(i, g)
    \/ \E i \in Server, command \in Command : Propose(i, command)
    \/ \E c \in UnderWay :
          \/ SendAppendEntries(c)
          \/ AppendStale(c) \/ AppendMismatch(c) \/ AppendTruncateFails(c)
          \/ AppendGap(c) \/ AppendAccept(c)
          \/ AppendReplyStepDown(c) \/ AppendSucceeded(c) \/ AppendFailed(c)

SnapshotTransfer ==
    \E c \in UnderWay : \/ SendInstallSnapshot(c) \/ SnapshotStale(c)
                        \/ HandleInstallSnapshot(c) \/ SnapshotReply(c)

Failure ==
    \/ \E i \in Server : Crash(i) \/ Start(i)
    \/ \E c \in UnderWay : Lose(c)

Next == Election \/ Replication \/ SnapshotTransfer \/ Failure

Spec == Init /\ [][Next]_vars

=============================================================================
