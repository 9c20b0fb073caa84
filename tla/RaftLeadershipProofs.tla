------------------------ MODULE RaftLeadershipProofs ------------------------
(*****************************************************************************)
(* Proofs about leaders and votes: heartbeats, the hint given to clients,    *)
(* terms that never go back, entries that come from leaders only, and        *)
(* election safety.                                                          *)
(*****************************************************************************)
EXTENDS RaftProofs, FiniteSetTheorems

\* A step that elects nobody: leaders stay or fall, a leader keeps its
\* heartbeat loop, and a leader hint is old, gone, or the sender of an
\* AppendEntries call to the node.
Calm ==
    /\ \A i \in Server : state'[i] = Leader =>
          /\ state[i] = Leader
          /\ leaderGeneration'[i] = leaderGeneration[i]
          /\ leaderGeneration[i] \in loops[i] => leaderGeneration[i] \in loops'[i]
    /\ UNCHANGED elected
    /\ \A i \in Server :
          \/ leaderID'[i] \in {leaderID[i], Nil}
          \/ \E c \in UnderWay : /\ c.kind = "append" /\ c.at = "request"
                                 /\ c.to = i /\ leaderID'[i] = c.from

\* A leader is neither follower nor candidate.
LEMMA DistinctStates == Follower # Leader /\ Candidate # Leader
BY DEF Follower, Candidate, Leader

\* Stepping down elects nobody.
LEMMA StepDownCalm ==
    ASSUME TypeOK, NEW i \in Server, NEW term, StepDown(i, term),
           UNCHANGED <<leaderID, loopVars, elected>>
    PROVE  Calm
<1>1. \A j \in Server : state'[j] \in {Follower, state[j]}
  BY DEF StepDown, TypeOK
<1> QED BY <1>1, DistinctStates DEF Calm, loopVars

\* A step that leaves leadership alone.
LEMMA NothingCalm ==
    ASSUME UNCHANGED <<state, leaderID, loopVars, elected>>
    PROVE  Calm
BY DEF Calm, loopVars

\* A death elects nobody.
LEMMA DeathCalm ==
    ASSUME TypeOK, NEW i \in Server, Die(i)
    PROVE  Calm
<1>1. state'[i] = Follower /\ leaderID'[i] = Nil /\ UNCHANGED elected
  BY DEF Die, TypeOK
<1>2. \A j \in Server : j # i => /\ state'[j] = state[j] /\ leaderID'[j] = leaderID[j]
                                 /\ leaderGeneration'[j] = leaderGeneration[j]
                                 /\ loops'[j] = loops[j]
  BY DEF Die, TypeOK
<1> QED BY <1>1, <1>2, DistinctStates DEF Calm

\* An RPC from a leader elects nobody and names its sender.
LEMMA FollowLeaderCalm ==
    ASSUME TypeOK, NEW c \in UnderWay, FollowLeader(c),
           UNCHANGED leaderID \/ (c.kind = "append" /\ leaderID' = [leaderID EXCEPT ![c.to] = c.from])
    PROVE  Calm
<1>1. c.to \in Server
  BY CallKind DEF TypeOK
<1>2. \A j \in Server : state'[j] \in {Follower, state[j]}
  BY <1>1 DEF FollowLeader, TypeOK
<1>3. UNCHANGED <<loopVars, elected>>
  BY DEF FollowLeader
<1>4. \A j \in Server : \/ leaderID'[j] = leaderID[j]
                        \/ c.kind = "append" /\ c.to = j /\ leaderID'[j] = c.from
  BY <1>1 DEF TypeOK
<1>5. c.at = "request"
  BY DEF FollowLeader
<1> QED BY <1>2, <1>3, <1>4, <1>5, DistinctStates DEF Calm, loopVars

\* Every step is calm, or it is becomeLeader.
LEMMA CalmUnlessElected ==
    ASSUME TypeOK, Next
    PROVE  Calm \/ \E c \in UnderWay : becomeLeader(c)
<1>1. ASSUME NEW i \in Server, TimerFires(i) PROVE Calm
  BY <1>1, NothingCalm DEF TimerFires, electionVars
<1>2. ASSUME NEW i \in Server, becomeCandidate(i) PROVE Calm
  <2>1. \A j \in Server : state'[j] \in {Candidate, state[j]}
    BY <1>2 DEF becomeCandidate, TypeOK
  <2> QED BY <1>2, <2>1, DistinctStates DEF becomeCandidate, Calm, loopVars
<1>3. ASSUME NEW c \in UnderWay, HandleRequestVote(c) PROVE Calm
  <2>1. c.to \in Server
    BY CallKind DEF TypeOK
  <2>2. \A j \in Server : state'[j] \in {Follower, state[j]}
    BY <1>3, <2>1 DEF HandleRequestVote, TypeOK
  <2> QED BY <1>3, <2>2, DistinctStates DEF HandleRequestVote, Calm, loopVars
<1>4. ASSUME NEW c \in UnderWay, VoteReply(c) PROVE Calm
  BY <1>4, NothingCalm DEF VoteReply, electionVars
<1>5. ASSUME NEW c \in UnderWay,
             VoteStepDown(c) \/ AppendReplyStepDown(c)
      PROVE  Calm
  <2>1. c.from \in Server
    BY CallKind DEF TypeOK
  <2> QED BY <1>5, <2>1, StepDownCalm DEF VoteStepDown, AppendReplyStepDown
<1>6. ASSUME NEW i \in Server,
             \/ HeartBeat(i)
             \/ \E command \in Command : Propose(i, command)
      PROVE  Calm
  BY <1>6, NothingCalm DEF HeartBeat, Propose, electionVars
<1>7. ASSUME NEW i \in Server, HeartBeatPanic(i) \/ Crash(i) PROVE Calm
  BY <1>7, DeathCalm DEF HeartBeatPanic, Crash
<1>8. ASSUME NEW i \in Server, NEW g \in loops[i], HeartBeatExit(i, g) PROVE Calm
  <2>1. \A j \in Server :
           \/ loops'[j] = loops[j]
           \/ j = i /\ loops'[j] = loops[j] \ {g}
    BY <1>8 DEF HeartBeatExit, TypeOK
  <2>2. UNCHANGED <<state, leaderID, leaderGeneration, elected>>
    BY <1>8 DEF HeartBeatExit, electionVars
  <2>3. state[i] = Leader => leaderGeneration[i] # g
    BY <1>8 DEF HeartBeatExit
  <2>4. \A j \in Server : (state[j] = Leader /\ leaderGeneration[j] \in loops[j])
                               => leaderGeneration[j] \in loops'[j]
    <3> TAKE j \in Server
    <3>1. CASE loops'[j] = loops[j]
      BY <3>1
    <3>2. CASE j = i /\ loops'[j] = loops[j] \ {g}
      <4>1. state[j] = Leader => leaderGeneration[j] # g
        BY <2>3, <3>2
      <4> QED BY <3>2, <4>1, Zenon
    <3> QED BY <2>1, <3>1, <3>2
  <2> QED BY <2>2, <2>4 DEF Calm
<1>9. ASSUME NEW c \in UnderWay,
             \/ SendAppendEntries(c) \/ AppendStale(c) \/ AppendSucceeded(c) \/ AppendFailed(c)
             \/ SendInstallSnapshot(c) \/ SnapshotStale(c) \/ Lose(c)
      PROVE  Calm
  BY <1>9, NothingCalm, Zenon
  DEF SendAppendEntries, AppendStale, AppendSucceeded, AppendFailed,
      SendInstallSnapshot, SnapshotStale, Lose, electionVars
<1>10. ASSUME NEW c \in UnderWay,
              AppendMismatch(c) \/ AppendTruncateFails(c) \/ AppendGap(c) \/ AppendAccept(c)
       PROVE  Calm
  BY <1>10, FollowLeaderCalm
  DEF AppendMismatch, AppendTruncateFails, AppendGap, AppendAccept, FollowAppend
<1>11. ASSUME NEW c \in UnderWay, HandleInstallSnapshot(c) PROVE Calm
  BY <1>11, FollowLeaderCalm DEF HandleInstallSnapshot
<1>12. ASSUME NEW c \in UnderWay, SnapshotReply(c) PROVE Calm
  <2>1. c.from \in Server
    BY CallKind DEF TypeOK
  <2> QED BY <1>12, <2>1, StepDownCalm, NothingCalm DEF SnapshotReply, electionVars
<1>13. ASSUME NEW i \in Server, Start(i) PROVE Calm
  BY <1>13, NothingCalm DEF Start, electionVars
<1> QED BY <1>1, <1>2, <1>3, <1>4, <1>5, <1>6, <1>7, <1>8, <1>9, <1>10, <1>11, <1>12, <1>13
  DEF Next, Election, Replication, SnapshotTransfer, Failure

\* becomeLeader starts the loop of the new generation.
LEMMA Elected ==
    ASSUME TypeOK, NEW c \in UnderWay, becomeLeader(c)
    PROVE  /\ c.from \in Server
           /\ leaderGeneration'[c.from] \in loops'[c.from]
           /\ \A j \in Server : j # c.from => /\ state'[j] = state[j]
                                              /\ leaderGeneration'[j] = leaderGeneration[j]
                                              /\ loops'[j] = loops[j]
           /\ elected' = elected \cup {<<c.from, currentTerm[c.from]>>}
           /\ UNCHANGED leaderID
<1>1. c.from \in Server
  BY CallKind DEF TypeOK
<1> QED BY <1>1 DEF becomeLeader, MyGeneration, TypeOK

\* A leader always has the heartbeat loop of its present generation running
\* (becomeLeader, heartBeatLoop).
THEOREM LeaderBeatsAlways == Spec => []LeaderBeats
<1>1. Init => LeaderBeats
  BY DistinctStates DEF Init, LeaderBeats
<1>2. TypeOK /\ LeaderBeats /\ [Next]_vars => LeaderBeats'
  <2>1. ASSUME LeaderBeats, UNCHANGED vars PROVE LeaderBeats'
    BY <2>1, Stutter DEF LeaderBeats
  <2>2. ASSUME LeaderBeats, Calm PROVE LeaderBeats'
    BY <2>2 DEF LeaderBeats, Calm
  <2>3. ASSUME TypeOK, LeaderBeats, NEW c \in UnderWay, becomeLeader(c) PROVE LeaderBeats'
    BY <2>3, Elected DEF LeaderBeats
  <2> QED BY <2>1, <2>2, <2>3, CalmUnlessElected
<1> QED BY <1>1, <1>2, TypeCorrect, PTL DEF Spec

\* Node i has won an election.
Won(i) == \E e \in elected : e[1] = i

\* The inductive invariant behind LeaderHintWasElected: leaders and senders of
\* AppendEntries calls have won an election.
HintInv ==
    /\ \A i \in Server : state[i] = Leader => Won(i)
    /\ \A c \in UnderWay : c.kind = "append" => Won(c.from)
    /\ LeaderHintWasElected

\* Leaders, senders of AppendEntries calls and the nodes that hints name have
\* won an election.
LEMMA HintInvAlways == Spec => []HintInv
<1>1. Init => HintInv
  BY InitFacts, DistinctStates DEF Init, HintInv, LeaderHintWasElected
<1>2. TypeOK /\ HintInv /\ [Next]_vars => HintInv'
  <2>1. ASSUME HintInv, UNCHANGED vars PROVE HintInv'
    BY <2>1, Stutter DEF HintInv, Won, LeaderHintWasElected
  <2>2. ASSUME TypeOK, HintInv, Next PROVE HintInv'
    <3>1. elected \subseteq elected'
      BY <2>2, CalmUnlessElected, Elected DEF Calm
    <3>2. \A i : Won(i) => Won(i)'
      BY <3>1 DEF Won
    <3>3. \A i \in Server : state'[i] = Leader => Won(i)'
      <4>1. CASE Calm
        BY <2>2, <3>2, <4>1 DEF Calm, HintInv
      <4>2. ASSUME NEW c \in UnderWay, becomeLeader(c)
            PROVE  \A i \in Server : state'[i] = Leader => Won(i)'
        <5>1. Won(c.from)'
          <6> DEFINE e == <<c.from, currentTerm[c.from]>>
          <6>1. e \in elected' /\ e[1] = c.from
            BY <2>2, <4>2, Elected
          <6> QED BY <6>1 DEF Won
        <5> QED BY <2>2, <3>2, <4>2, <5>1, Elected DEF HintInv
      <4> QED BY <2>2, <4>1, <4>2, CalmUnlessElected
    <3>4. \A d \in UnderWay' : d.kind = "append" => Won(d.from)'
      <4> SUFFICES ASSUME NEW d \in UnderWay', d.kind = "append" PROVE Won(d.from)'
        OBVIOUS
      <4>1. CASE d \in UnderWay
        BY <2>2, <3>2, <4>1 DEF HintInv
      <4>2. CASE NewCall(d)
        <5>1. d.from \in Server
          BY <4>2, CallKind DEF NewCall
        <5> QED BY <2>2, <3>2, <4>2, <5>1 DEF NewCall, HintInv
      <4> QED BY <2>2, <4>1, <4>2, NextFacts DEF CallFacts
    <3>5. LeaderHintWasElected'
      <4> SUFFICES ASSUME NEW i \in Server, leaderID'[i] # Nil PROVE Won(leaderID[i])'
        BY DEF LeaderHintWasElected, Won
      <4>1. CASE leaderID'[i] = leaderID[i]
        BY <2>2, <3>2, <4>1 DEF HintInv, LeaderHintWasElected, Won
      <4>2. ASSUME NEW c \in UnderWay, c.kind = "append", leaderID'[i] = c.from
            PROVE  Won(leaderID[i])'
        <5>1. Won(c.from)
          BY <2>2, <4>2 DEF HintInv
        <5>2. Won(c.from)'
          BY <3>2, <5>1
        <5> QED BY <4>2, <5>2 DEF Won
      <4> QED BY <2>2, <4>1, <4>2, CalmUnlessElected, Elected DEF Calm
    <3> QED BY <3>3, <3>4, <3>5 DEF HintInv
  <2> QED BY <2>1, <2>2
<1> QED BY <1>1, <1>2, TypeCorrect, PTL DEF Spec

\* The node that LeaderID() names has won an election (HandleAppendEntries:335).
THEOREM LeaderHintWasElectedAlways == Spec => []LeaderHintWasElected
<1>1. HintInv => LeaderHintWasElected
  BY DEF HintInv
<1> QED BY <1>1, HintInvAlways, PTL

-----------------------------------------------------------------------------
\* Node i waits for others to call it: its timer has stopped.
Idles(i) == alive[i] /\ ~armed[i] /\ ~electing[i]

\* Only the tick of a leader makes a node idle.
LEMMA IdleStep ==
    ASSUME TypeOK, Next
    PROVE  \A i \in Server : Idles(i)' => Idles(i) \/ state[i] = Leader
<1> DEFINE Goal == \A i \in Server : Idles(i)' => Idles(i) \/ state[i] = Leader
<1>1. ASSUME UNCHANGED <<armed, electing, alive>> PROVE Goal
  BY <1>1 DEF Idles
<1>2. ASSUME NEW i \in Server, \A j \in Server \ {i} : Idles(j)' => Idles(j),
             armed'[i]
      PROVE  Goal
  BY <1>2 DEF Idles
<1>3. /\ armed \in [Server -> BOOLEAN] /\ electing \in [Server -> BOOLEAN]
      /\ alive \in [Server -> BOOLEAN]
  BY DEF TypeOK
<1>4. ASSUME NEW i \in Server, TimerFires(i) PROVE Goal
  BY <1>3, <1>4 DEF TimerFires, Idles, processVars
<1>5. ASSUME NEW i \in Server, becomeCandidate(i) PROVE Goal
  BY <1>2, <1>3, <1>5 DEF becomeCandidate, Idles, processVars
<1>6. ASSUME NEW c \in UnderWay, HandleRequestVote(c) PROVE Goal
  BY <1>3, <1>6 DEF HandleRequestVote, Idles, processVars
<1>7. ASSUME NEW c \in UnderWay, becomeLeader(c) PROVE Goal
  BY <1>3, <1>7 DEF becomeLeader, Idles, processVars
<1>8. ASSUME NEW c \in UnderWay, FollowLeader(c) PROVE Goal
  BY <1>3, <1>8 DEF FollowLeader, Idles, processVars
<1>9. ASSUME NEW i \in Server, HeartBeatPanic(i) \/ Crash(i) PROVE Goal
  <2>1. Die(i)
    BY <1>9 DEF HeartBeatPanic, Crash
  <2> QED BY <1>3, <2>1 DEF Die, Idles
<1>10. ASSUME NEW i \in Server, Start(i) PROVE Goal
  BY <1>3, <1>10 DEF Start, Idles
<1>11. ASSUME NEW c \in UnderWay,
              \/ VoteReply(c) \/ VoteStepDown(c) \/ SendAppendEntries(c) \/ AppendStale(c)
              \/ AppendReplyStepDown(c) \/ AppendSucceeded(c) \/ AppendFailed(c)
              \/ SendInstallSnapshot(c) \/ SnapshotStale(c) \/ SnapshotReply(c) \/ Lose(c)
       PROVE  Goal
  BY <1>1, <1>11, Zenon
  DEF VoteReply, VoteStepDown, SendAppendEntries, AppendStale, AppendReplyStepDown,
      AppendSucceeded, AppendFailed, SendInstallSnapshot, SnapshotStale, SnapshotReply,
      Lose, timerVars, processVars
<1>12. ASSUME NEW i \in Server,
              \/ HeartBeat(i) \/ \E g \in loops[i] : HeartBeatExit(i, g)
              \/ \E command \in Command : Propose(i, command)
       PROVE  Goal
  BY <1>1, <1>12 DEF HeartBeat, HeartBeatExit, Propose, timerVars, processVars
<1>13. ASSUME NEW c \in UnderWay,
              \/ AppendMismatch(c) \/ AppendTruncateFails(c) \/ AppendGap(c) \/ AppendAccept(c)
              \/ HandleInstallSnapshot(c)
       PROVE  Goal
  BY <1>8, <1>13
  DEF AppendMismatch, AppendTruncateFails, AppendGap, AppendAccept, FollowAppend,
      HandleInstallSnapshot
<1> QED BY <1>4, <1>5, <1>6, <1>7, <1>9, <1>10, <1>11, <1>12, <1>13
  DEF Next, Election, Replication, SnapshotTransfer, Failure

\* A running node whose timer has stopped without an election has led before:
\* a node that has never led always stands for election again (electionLoop:460).
THEOREM IdleWasLeaderAlways == Spec => []IdleWasLeader
<1> DEFINE Inv == \A i \in Server : Idles(i) => Won(i)
<1>1. Init => Inv
  BY DEF Init, Idles
<1>2. TypeOK /\ HintInv /\ Inv /\ [Next]_vars => Inv'
  <2>1. ASSUME Inv, UNCHANGED vars PROVE Inv'
    BY <2>1 DEF vars, timerVars, processVars, Idles, Won
  <2>2. ASSUME TypeOK, HintInv, Inv, Next PROVE Inv'
    <3>1. elected \subseteq elected'
      BY <2>2, CalmUnlessElected, Elected DEF Calm
    <3>2. \A i \in Server : Idles(i)' => Won(i)
      BY <2>2, IdleStep DEF HintInv
    <3> QED BY <3>1, <3>2 DEF Won
  <2> QED BY <2>1, <2>2
<1>3. Inv => IdleWasLeader
  BY DEF IdleWasLeader, Idles, Won
<1> QED BY <1>1, <1>2, <1>3, TypeCorrect, HintInvAlways, PTL DEF Spec

-----------------------------------------------------------------------------
\* VotesStand, of one node.
Stands(i) ==
    /\ currentTerm[i] <= currentTerm'[i]
    /\ (currentTerm[i] = currentTerm'[i] /\ votedFor[i] # Nil) => votedFor'[i] = votedFor[i]

\* A goroutine of requestVotes about to step down has seen a term newer than
\* the one it asked for votes in.
NoLateStepDown ==
    \A c \in UnderWay : (c.kind = "vote" /\ c.at = "stepdown") => c.replyTerm > c.Term

\* The types of terms and votes alone.
LEMMA VoteTypes ==
    ASSUME TypeOK
    PROVE  currentTerm \in [Server -> Nat] /\ votedFor \in [Server -> Server \cup {Nil}]
BY DEF TypeOK

\* A step that changes no term and no vote.
LEMMA VotesUnchanged ==
    ASSUME TypeOK, UNCHANGED <<currentTerm, votedFor>>
    PROVE  \A i \in Server : Stands(i)
BY VoteTypes DEF Stands

\* Stepping down to a newer term breaks no vote.
LEMMA StepDownStands ==
    ASSUME TypeOK, NEW i \in Server, NEW term \in Nat, StepDown(i, term),
           term > currentTerm[i]
    PROVE  \A j \in Server : Stands(j)
<1>1. currentTerm'[i] = term /\ \A j \in Server : j # i =>
         currentTerm'[j] = currentTerm[j] /\ votedFor'[j] = votedFor[j]
  BY VoteTypes DEF StepDown
<1>2. Stands(i)
  BY <1>1, VoteTypes DEF Stands
<1>3. \A j \in Server : j # i => Stands(j)
  BY <1>1, VoteTypes DEF Stands
<1> QED BY <1>2, <1>3

\* An RPC from a leader breaks no vote.
LEMMA FollowLeaderStands ==
    ASSUME TypeOK, NEW c \in UnderWay, FollowLeader(c)
    PROVE  \A j \in Server : Stands(j)
<1>1. c.to \in Server /\ c.Term \in Nat
  BY CallKind DEF TypeOK
<1>2. /\ c.Term >= currentTerm[c.to] /\ currentTerm'[c.to] = c.Term
      /\ votedFor'[c.to] = IF c.Term > currentTerm[c.to] THEN Nil ELSE votedFor[c.to]
      /\ \A j \in Server : j # c.to =>
            currentTerm'[j] = currentTerm[j] /\ votedFor'[j] = votedFor[j]
  BY <1>1, VoteTypes DEF FollowLeader
<1>3. Stands(c.to)
  BY <1>1, <1>2, VoteTypes DEF Stands
<1>4. \A j \in Server : j # c.to => Stands(j)
  BY <1>2, VoteTypes DEF Stands
<1> QED BY <1>3, <1>4

\* No step of a timely execution breaks a vote.
LEMMA VoteStep ==
    ASSUME ~LateWork, TypeOK, NoLateStepDown, Next
    PROVE  \A i \in Server : alive'[i] => Stands(i)
<1> DEFINE Goal == \A i \in Server : alive'[i] => Stands(i)
<1>1. ASSUME NEW i \in Server,
             TimerFires(i) \/ HeartBeat(i) \/ Start(i) \/ \E command \in Command : Propose(i, command)
      PROVE  Goal
  <2>1. UNCHANGED <<currentTerm, votedFor>>
    BY <1>1 DEF TimerFires, HeartBeat, Start, Propose, electionVars
  <2> QED BY <2>1, VotesUnchanged
<1>2. ASSUME NEW i \in Server, becomeCandidate(i) PROVE Goal
  <2>1. currentTerm'[i] = currentTerm[i] + 1 /\ \A j \in Server : j # i =>
           currentTerm'[j] = currentTerm[j] /\ votedFor'[j] = votedFor[j]
    BY <1>2, VoteTypes DEF becomeCandidate
  <2>2. Stands(i)
    BY <2>1, VoteTypes DEF Stands
  <2>3. \A j \in Server : j # i => Stands(j)
    BY <2>1, VoteTypes DEF Stands
  <2> QED BY <2>2, <2>3
<1>3. ASSUME NEW c \in UnderWay, HandleRequestVote(c) PROVE Goal
  <2>1. c.to \in Server /\ c.Term \in Nat /\ c.from \in Server
    BY CallKind DEF TypeOK
  <2>2. \A j \in Server : j # c.to => currentTerm'[j] = currentTerm[j] /\ votedFor'[j] = votedFor[j]
    BY <1>3, VoteTypes DEF HandleRequestVote
  <2>3. currentTerm'[c.to] = IF c.Term > currentTerm[c.to] THEN c.Term ELSE currentTerm[c.to]
    BY <1>3, <2>1, VoteTypes DEF HandleRequestVote
  <2>4. \/ votedFor'[c.to] = c.from /\ GrantsVote(c.to, c)
        \/ c.Term > currentTerm[c.to]
        \/ votedFor'[c.to] = votedFor[c.to]
    BY <1>3, <2>1, VoteTypes DEF HandleRequestVote
  <2>5. currentTerm \in [Server -> Nat]
    BY DEF TypeOK
  <2>6. Stands(c.to)
    <3>1. currentTerm[c.to] \in Nat
      BY <2>1, <2>5
    <3>2. CASE c.Term > currentTerm[c.to]
      BY <2>1, <2>3, <3>1, <3>2 DEF Stands
    <3>3. CASE ~(c.Term > currentTerm[c.to])
      <4>1. currentTerm'[c.to] = currentTerm[c.to]
        BY <2>3, <3>3
      <4>2. votedFor[c.to] \in {Nil, votedFor'[c.to]}
        BY <2>4, <3>3 DEF GrantsVote
      <4> QED BY <3>1, <4>1, <4>2 DEF Stands
    <3> QED BY <3>2, <3>3
  <2>7. \A j \in Server : j # c.to => Stands(j)
    <3> SUFFICES ASSUME NEW j \in Server, j # c.to PROVE Stands(j)
      OBVIOUS
    <3>1. currentTerm'[j] = currentTerm[j] /\ votedFor'[j] = votedFor[j]
      BY <2>2, Zenon
    <3>2. currentTerm[j] \in Nat
      BY <2>5
    <3> QED BY <3>1, <3>2 DEF Stands
  <2> QED BY <2>6, <2>7
<1>4. ASSUME NEW c \in UnderWay,
             \/ VoteReply(c) \/ becomeLeader(c) \/ SendAppendEntries(c) \/ AppendStale(c)
             \/ AppendSucceeded(c) \/ AppendFailed(c) \/ SendInstallSnapshot(c)
             \/ SnapshotStale(c) \/ Lose(c)
      PROVE  Goal
  BY <1>4, VotesUnchanged, Zenon
  DEF VoteReply, becomeLeader, SendAppendEntries, AppendStale, AppendSucceeded, AppendFailed,
      SendInstallSnapshot, SnapshotStale, Lose, electionVars
<1>5. ASSUME NEW c \in UnderWay, VoteStepDown(c) PROVE Goal
  <2>1. c.from \in Server /\ c \in RequestVoteAnswer
    BY <1>5, CallKind DEF TypeOK, VoteStepDown
  <2>2. c.replyTerm \in Nat /\ c.replyTerm > currentTerm[c.from]
    BY <1>5, <2>1 DEF VoteStepDown, InTime, NoLateStepDown, RequestVoteAnswer
  <2> QED BY <1>5, <2>1, <2>2, StepDownStands DEF VoteStepDown
<1>6. ASSUME NEW c \in UnderWay, AppendReplyStepDown(c) PROVE Goal
  <2>1. c.from \in Server /\ c \in AppendEntriesAnswer
    BY <1>6, CallKind DEF TypeOK, AppendReplyStepDown
  <2>2. c.replyTerm \in Nat /\ c.replyTerm > currentTerm[c.from]
    BY <1>6, <2>1 DEF AppendReplyStepDown, InTime, AppendEntriesAnswer
  <2> QED BY <1>6, <2>1, <2>2, StepDownStands DEF AppendReplyStepDown
<1>7. ASSUME NEW c \in UnderWay,
             \/ AppendMismatch(c) \/ AppendTruncateFails(c) \/ AppendGap(c) \/ AppendAccept(c)
             \/ HandleInstallSnapshot(c)
      PROVE  Goal
  BY <1>7, FollowLeaderStands
  DEF AppendMismatch, AppendTruncateFails, AppendGap, AppendAccept, FollowAppend,
      HandleInstallSnapshot
<1>8. ASSUME NEW c \in UnderWay, SnapshotReply(c) PROVE Goal
  <2>1. c.from \in Server /\ c.replyTerm \in Nat
    BY <1>8, CallKind DEF TypeOK, SnapshotReply, InstallSnapshotAnswer
  <2>2. CASE c.replyTerm > currentTerm[c.from]
    BY <1>8, <2>1, <2>2, StepDownStands DEF SnapshotReply
  <2>3. CASE ~(c.replyTerm > currentTerm[c.from])
    BY <1>8, <2>3, VotesUnchanged DEF SnapshotReply, electionVars
  <2> QED BY <2>2, <2>3
<1>9. ASSUME NEW i \in Server, HeartBeatPanic(i) \/ Crash(i) PROVE Goal
  <2>1. \A j \in Server : alive'[j] => /\ currentTerm'[j] = currentTerm[j]
                                       /\ votedFor'[j] = votedFor[j]
                                       /\ currentTerm[j] \in Nat
    <3>1. Die(i) /\ alive \in [Server -> BOOLEAN]
      BY <1>9 DEF HeartBeatPanic, Crash, TypeOK
    <3> QED BY <3>1, VoteTypes DEF Die
  <2> QED BY <2>1 DEF Stands
<1>10. ASSUME NEW i \in Server, NEW g \in loops[i], HeartBeatExit(i, g) PROVE Goal
  BY <1>10, VotesUnchanged DEF HeartBeatExit, electionVars
<1> QED BY <1>1, <1>2, <1>3, <1>4, <1>5, <1>6, <1>7, <1>8, <1>9, <1>10
  DEF Next, Election, Replication, SnapshotTransfer, Failure

\* When goroutines run before their node leaves their term, terms never go back
\* and votes stand while a process runs (HandleRequestVote, requestVotes:231,
\* heartBeatLoop:681, sendSnapshotToPeer:547).
THEOREM VotesStandInTime == ~LateWork => (Spec => VotesStand)
<1> SUFFICES ASSUME ~LateWork PROVE Spec => VotesStand
  OBVIOUS
<1>1. Init => NoLateStepDown
  BY InitFacts DEF NoLateStepDown
<1>2. TypeOK /\ NoLateStepDown /\ [Next]_vars => NoLateStepDown'
  <2>1. ASSUME NoLateStepDown, UNCHANGED vars PROVE NoLateStepDown'
    BY <2>1, Stutter DEF NoLateStepDown
  <2>2. ASSUME TypeOK, NoLateStepDown, Next PROVE NoLateStepDown'
    BY <2>2, NextFacts DEF CallFacts, NewCall, NoLateStepDown
  <2> QED BY <2>1, <2>2
<1>3. TypeOK /\ NoLateStepDown /\ [Next]_vars =>
         [\A i \in Server :
             alive'[i] =>
                /\ currentTerm[i] <= currentTerm'[i]
                /\ (currentTerm[i] = currentTerm'[i] /\ votedFor[i] # Nil)
                       => votedFor'[i] = votedFor[i]]_vars
  BY VoteStep DEF Stands
<1> QED BY <1>1, <1>2, <1>3, TypeCorrect, PTL DEF Spec, VotesStand

-----------------------------------------------------------------------------
(* What the logs hold: every entry, in memory, in a WAL or on its way, is of *)
(* a term that had a leader.                                                 *)

\* The log and the WAL of a node hold elements of S only.
Within(n, S) == n.log \in Seq(S) /\ n.wal \in Seq(S)

\* Filtering a file adds nothing to it.
LEMMA AboveWithin ==
    ASSUME NEW S, S \subseteq Entry, NEW w \in Seq(S), NEW k \in Nat
    PROVE  Above(w, k) \in Seq(S)
<1> DEFINE G == {v \in Seq(S) : Above(v, k) \in Seq(S)}
<1>1. <<>> \in G
  <2>1. Above(<<>>, k) = <<>> /\ <<>> \in Seq(S)
    BY AboveStep
  <2> QED BY <2>1
<1>2. ASSUME NEW v \in Seq(S), NEW e \in S, v \in G PROVE Append(v, e) \in G
  <2>1. v \in Seq(Entry) /\ e \in Entry
    BY SeqMonotonic
  <2>2. Above(Append(v, e), k) \in {Above(v, k), Append(Above(v, k), e)}
    BY <2>1, AboveStep
  <2>3. Above(v, k) \in Seq(S) /\ Append(v, e) \in Seq(S)
    BY <1>2
  <2>4. Append(Above(v, k), e) \in Seq(S)
    BY <2>3, AppendProperties
  <2> QED BY <2>2, <2>3, <2>4
<1>3. Seq(S) \subseteq G
  <2> HIDE DEF G
  <2> QED BY <1>1, <1>2, SeqGrows
<1> QED BY <1>3

\* Following a commit index touches neither log nor WAL.
LEMMA CommitWithin ==
    ASSUME NEW n \in Node, NEW c
    PROVE  /\ ApplyCommitted(n).log = n.log /\ ApplyCommitted(n).wal = n.wal
           /\ FollowCommit(n, c).log = n.log /\ FollowCommit(n, c).wal = n.wal
<1>1. \A m \in Node : ApplyCommitted(m).log = m.log /\ ApplyCommitted(m).wal = m.wal
  BY DEF ApplyCommitted, Node
<1> DEFINE to == IF c > n.commitIndex
                 THEN IF c < LastIndex(n) THEN c ELSE LastIndex(n)
                 ELSE n.commitIndex
           m == [n EXCEPT !.commitIndex = to]
<1>2. FollowCommit(n, c) = ApplyCommitted(m)
  BY DEF FollowCommit
<1> HIDE DEF to
<1>3. m.log = n.log /\ m.wal = n.wal /\ DOMAIN m = DOMAIN n
  BY DEF Node
<1>4. ApplyCommitted(m).log = m.log /\ ApplyCommitted(m).wal = m.wal
  BY DEF ApplyCommitted, Node
<1> QED BY <1>1, <1>2, <1>3, <1>4

\* A snapshot takes entries out of the log and the WAL and puts none in.
LEMMA SnapshotWithin ==
    ASSUME NEW n \in Node, NEW S, S \subseteq Entry, Within(n, S)
    PROVE  Within(maybeSnapshot(n), S)
<1>1. CASE ~(SnapshotDue(n) /\ HasEntry(n, n.lastApplied))
  BY <1>1 DEF maybeSnapshot
<1>2. CASE SnapshotDue(n) /\ HasEntry(n, n.lastApplied)
  <2> DEFINE s == [index |-> n.lastApplied,
                   term |-> EntryAt(n, n.lastApplied).Term, data |-> n.data]
             saved == [n EXCEPT !.snapshot = s]
             m == compactLog(saved, n.lastApplied)
             keepFrom == toSlicePos(n, n.lastApplied) + 1
             rest == SubSeq(n.log, keepFrom + 1, Len(n.log))
             w == CompactWAL(n.wal, n.lastApplied)
  <2>1. n.log \in Seq(S) /\ n.wal \in Seq(S) /\ n.lastApplied \in Nat /\ n.logOffset \in Nat
    BY DEF Within, Node
  <2>2. w \in Seq(S)
    BY <2>1, AboveWithin DEF CompactWAL
  <2>3. keepFrom \in 0 .. Len(n.log)
    BY <1>2, <2>1 DEF HasEntry, toSlicePos
  <2>4. rest \in Seq(S)
    <3> HIDE DEF keepFrom
    <3> QED BY <2>1, <2>3, Suffix
  <2>5. saved.log = n.log /\ toSlicePos(saved, n.lastApplied) + 1 = keepFrom
    BY DEF toSlicePos, Node
  <2>6. m.log \in {n.log, rest} /\ DOMAIN m = DOMAIN n
    <3> HIDE DEF s, keepFrom
    <3>1. DOMAIN saved = DOMAIN n
      BY DEF Node
    <3> HIDE DEF saved
    <3> QED BY <2>5, <3>1 DEF compactLog, Node
  <2>7. maybeSnapshot(n) = [m EXCEPT !.wal = w, !.lastSnapshotIndex = n.lastApplied]
    BY <1>2 DEF maybeSnapshot
  <2> HIDE DEF m, w, rest
  <2>8. maybeSnapshot(n).log = m.log /\ maybeSnapshot(n).wal = w
    BY <2>6, <2>7 DEF Node
  <2> QED BY <2>1, <2>2, <2>4, <2>6, <2>8 DEF Within
<1> QED BY <1>1, <1>2

\* Nor does anything else that only takes entries out, or installs a snapshot.
LEMMA ShorterWithin ==
    ASSUME NEW n \in Node, NEW S, S \subseteq Entry, Within(n, S)
    PROVE  /\ \A match, term : Within(tryAdvanceCommitIndex(n, match, term), S)
           /\ \A index : HasEntry(n, index) => Within(TruncateLog(n, index), S)
           /\ \A s : Within(InstallSnapshot(n, s), S)
           /\ Within(OnDisk(n), S)
           /\ Within(loadPersistedState(n), S)
<1>0. /\ n.log \in Seq(S) /\ n.wal \in Seq(S) /\ <<>> \in Seq(S)
      /\ n.snapshot.index \in Nat /\ n.logOffset \in Nat
  BY DEF Within, Node, Snapshot
<1>1. ASSUME NEW match, NEW term PROVE Within(tryAdvanceCommitIndex(n, match, term), S)
  <2> DEFINE ready == {v \in n.logOffset + 1 .. n.logOffset + Len(n.log) :
                          IsMajorityIndex(match, LastIndex(n), v) /\ EntryAt(n, v).Term = term}
             to == CHOOSE v \in ready : TRUE
             c == [n EXCEPT !.commitIndex = to]
  <2>1. tryAdvanceCommitIndex(n, match, term) =
            IF ready = {} THEN n ELSE maybeSnapshot(ApplyCommitted(c))
    BY DEF tryAdvanceCommitIndex
  <2>2. \A v \in ready : v \in Nat
    BY <1>0
  <2> HIDE DEF ready
  <2>3. CASE ready = {}
    BY <2>1, <2>3
  <2>4. CASE ready # {}
    <3>1. to \in Nat
      BY <2>2, <2>4
    <3> HIDE DEF to
    <3>2. c \in Node /\ c.log = n.log /\ c.wal = n.wal
      BY <3>1 DEF Node
    <3> HIDE DEF c
    <3>3. ApplyCommitted(c) \in Node /\ Within(ApplyCommitted(c), S)
      BY <1>0, <3>2, ApplyCommittedKeeps, CommitWithin DEF Within
    <3> QED BY <2>1, <2>4, <3>3, SnapshotWithin
  <2> QED BY <2>3, <2>4
<1>2. ASSUME NEW index, HasEntry(n, index) PROVE Within(TruncateLog(n, index), S)
  <2> DEFINE k == toSlicePos(n, index)
             head == SubSeq(n.log, 1, k)
  <2>1. k \in 0 .. Len(n.log)
    BY <1>0, <1>2 DEF HasEntry, toSlicePos
  <2>2. head \in Seq(S)
    <3> HIDE DEF k
    <3> QED BY <1>0, <2>1, Prefix
  <2>3. TruncateLog(n, index) = [n EXCEPT !.log = head]
    BY DEF TruncateLog
  <2> HIDE DEF head
  <2> QED BY <1>0, <2>2, <2>3 DEF Within, Node
<1>3. ASSUME NEW s PROVE Within(InstallSnapshot(n, s), S)
  BY <1>0 DEF InstallSnapshot, Within, Node
<1>4. Within(OnDisk(n), S)
  BY <1>0 DEF OnDisk, Within
<1>5. Within(loadPersistedState(n), S)
  <2> DEFINE s == Above(n.wal, n.snapshot.index)
             m == loadPersistedState(n)
  <2>1. s \in Seq(S)
    BY <1>0, AboveWithin
  <2>2. m.log = s /\ m.wal = n.wal
    <3> HIDE DEF s
    <3>1. \A a, b, c, d : LET r == [n EXCEPT !.log = s, !.logOffset = a, !.commitIndex = b,
                                            !.lastApplied = c, !.data = d]
                          IN  r.log = s /\ r.wal = n.wal
      BY DEF Node
    <3> QED BY <3>1 DEF loadPersistedState, s
  <2> HIDE DEF m, s
  <2> QED BY <1>0, <2>1, <2>2 DEF Within, m
<1> QED BY <1>1, <1>2, <1>3, <1>4, <1>5

\* Appending entries of S.
LEMMA AppendWithin ==
    ASSUME NEW n \in Node, NEW S, Within(n, S), NEW entries \in Seq(S)
    PROVE  Within(AppendAll(n, entries), S)
<1>1. n.log \o entries \in Seq(S) /\ n.wal \o entries \in Seq(S)
  BY ConcatProperties DEF Within
<1> DEFINE a == n.log \o entries
           b == n.wal \o entries
<1>2. AppendAll(n, entries) = [n EXCEPT !.log = a, !.wal = b]
  BY DEF AppendAll
<1> HIDE DEF a, b
<1> QED BY <1>1, <1>2 DEF Within, Node, a, b

\* Storing entries of S as HandleAppendEntries does.
LEMMA StoreWithin ==
    ASSUME NEW n \in Node, NEW S, S \subseteq Entry, Within(n, S),
           NEW entries \in Seq(S), NEW k \in 1 .. Len(entries) + 1,
           k \in DOMAIN entries =>
              IF Conflicts(n, entries, k) THEN CanTruncateAfter(n.wal, entries[k].Index - 1)
              ELSE LinesUp(n, entries, k)
    PROVE  Within(StoreEntries(n, entries, k), S)
<1> DEFINE w == TruncateAfter(n.wal, entries[k].Index - 1)
           short == TruncateLog(n, entries[k].Index)
           cut == IF Conflicts(n, entries, k) THEN [short EXCEPT !.wal = w] ELSE n
           new == SubSeq(entries, k, Len(entries))
<1>1. new \in Seq(S)
  <2>1. k \in Int /\ Len(entries) \in Int /\ \A p \in k .. Len(entries) : entries[p] \in S
    OBVIOUS
  <2> QED BY <2>1, SubSeqProperties
<1>2. cut \in Node /\ Within(cut, S)
  <2>1. CASE Conflicts(n, entries, k)
    <3>1. k \in DOMAIN entries /\ HasEntry(n, entries[k].Index)
      BY <2>1 DEF Conflicts
    <3>2. short \in Node /\ Within(short, S)
      BY <3>1, TruncateLogKeeps, ShorterWithin
    <3>3. n.wal \in Seq(S) /\ n.wal \in Seq(Entry)
      BY DEF Within, Node
    <3>4. PICK last \in DOMAIN n.wal : w = SubSeq(n.wal, 1, last)
      BY <2>1, <3>1, <3>3, TruncateAfterType
    <3>5. last \in 0 .. Len(n.wal)
      BY <3>3
    <3>6. w \in Seq(S) /\ w \in Seq(Entry)
      BY <3>3, <3>4, <3>5, Prefix
    <3> HIDE DEF short, w
    <3>7. cut = [short EXCEPT !.wal = w]
      BY <2>1
    <3> QED BY <3>2, <3>6, <3>7 DEF Within, Node
  <2>2. CASE ~Conflicts(n, entries, k)
    BY <2>2
  <2> QED BY <2>1, <2>2
<1>3. short.wal = n.wal
  BY DEF TruncateLog, Node
<1>4. StoreEntries(n, entries, k) = AppendAll(cut, new)
  BY <1>3 DEF StoreEntries
<1> HIDE DEF cut, new
<1> QED BY <1>1, <1>2, <1>4, AppendWithin

-----------------------------------------------------------------------------
LogsWithin(nodes, S) == \A i \in Server : Within(nodes[i], S)

CallsWithin(C, S) ==
    \A c \in C : (c.kind = "append" /\ c.at \in {"spawned", "request"}) => c.Entries \in Seq(S)

\* The entry that this step adds, by becomeLeader or by Propose, is in S.
Adds(S) ==
    /\ \A c \in UnderWay :
          becomeLeader(c) => NewEntry(node[c.from], currentTerm[c.from], NoOp) \in S
    /\ \A i \in Server : \A command \in Command :
          Propose(i, command) => NewEntry(node[i], currentTerm[i], command) \in S

\* A step that replaces one node by another.
LEMMA OneLogWithin ==
    ASSUME TypeOK, NEW i \in Server, NEW n, node' = [node EXCEPT ![i] = n],
           NEW S, LogsWithin(node, S), Within(n, S)
    PROVE  LogsWithin(node', S)
<1>1. \A j \in Server : node'[j] = IF j = i THEN n ELSE node[j]
  BY DEF TypeOK
<1> QED BY <1>1 DEF LogsWithin

\* No step puts an entry into a log or a WAL that is not in S, when the entries
\* in the logs, on their way and newly made are.
LEMMA LogsStep ==
    ASSUME TypeOK, Next, NEW S, S \subseteq Entry,
           LogsWithin(node, S), CallsWithin(UnderWay, S), Adds(S)
    PROVE  LogsWithin(node', S)
<1> DEFINE Goal == LogsWithin(node', S)
<1>0. \A i \in Server : node[i] \in Node /\ Within(node[i], S)
  BY DEF TypeOK, LogsWithin
<1>1. CASE UNCHANGED node
  BY <1>1
<1>2. ASSUME NEW c \in UnderWay, becomeLeader(c) PROVE Goal
  <2> DEFINE e == NewEntry(node[c.from], currentTerm[c.from], NoOp)
  <2>1. c.from \in Server
    BY CallKind DEF TypeOK
  <2>2. e \in S /\ node' = [node EXCEPT ![c.from] = AppendAll(node[c.from], <<e>>)]
    BY <1>2 DEF becomeLeader, Adds
  <2> HIDE DEF e
  <2>3. <<e>> \in Seq(S)
    BY <2>2
  <2>4. Within(AppendAll(node[c.from], <<e>>), S)
    BY <1>0, <2>1, <2>3, AppendWithin
  <2> QED BY <2>1, <2>2, <2>4, OneLogWithin
<1>3. ASSUME NEW i \in Server, NEW command \in Command, Propose(i, command) PROVE Goal
  <2> DEFINE e == NewEntry(node[i], currentTerm[i], command)
  <2>2. e \in S /\ node' = [node EXCEPT ![i] = AppendAll(node[i], <<e>>)]
    BY <1>3 DEF Propose, Adds
  <2> HIDE DEF e
  <2>3. <<e>> \in Seq(S)
    BY <2>2
  <2>4. Within(AppendAll(node[i], <<e>>), S)
    BY <1>0, <2>3, AppendWithin
  <2> QED BY <2>2, <2>4, OneLogWithin
<1>4. ASSUME NEW i \in Server, Die(i) PROVE Goal
  <2>1. node' = [node EXCEPT ![i] = OnDisk(node[i])]
    BY <1>4 DEF Die
  <2> QED BY <1>0, <2>1, ShorterWithin, OneLogWithin
<1>5. ASSUME NEW i \in Server, Start(i) PROVE Goal
  <2>1. node' = [node EXCEPT ![i] = loadPersistedState(node[i])]
    BY <1>5 DEF Start
  <2> QED BY <1>0, <2>1, ShorterWithin, OneLogWithin
<1>6. ASSUME NEW c \in UnderWay, AppendTruncateFails(c) PROVE Goal
  <2>1. c.to \in Server
    BY CallKind DEF TypeOK
  <2>2. PICK k \in 1 .. Len(c.Entries) + 1 :
           /\ Conflicts(node[c.to], c.Entries, k)
           /\ node' = [node EXCEPT ![c.to] = TruncateLog(node[c.to], c.Entries[k].Index)]
    BY <1>6 DEF AppendTruncateFails
  <2>3. Within(TruncateLog(node[c.to], c.Entries[k].Index), S)
    BY <1>0, <2>1, <2>2, ShorterWithin DEF Conflicts
  <2> QED BY <2>1, <2>2, <2>3, OneLogWithin
<1>7. ASSUME NEW c \in UnderWay, AppendAccept(c) PROVE Goal
  <2>1. c \in AppendEntriesCall /\ c.to \in Server
    BY <1>7, CallKind DEF TypeOK, AppendAccept, FollowAppend, FollowLeader
  <2>2. /\ node[c.to] \in Node /\ c.LeaderCommit \in Nat /\ Within(node[c.to], S)
        /\ c.Entries \in Seq(Entry) /\ c.Entries \in Seq(S)
    BY <1>0, <2>1 DEF AppendEntriesCall, CallsWithin
  <2> DEFINE n == node[c.to]
             stored(k) == StoreEntries(n, c.Entries, k)
             followed(k) == FollowCommit(stored(k), c.LeaderCommit)
  <2>3. PICK k \in 1 .. Len(c.Entries) + 1 :
           /\ k \in DOMAIN c.Entries =>
                 IF Conflicts(n, c.Entries, k)
                 THEN CanTruncateAfter(n.wal, c.Entries[k].Index - 1)
                 ELSE LinesUp(n, c.Entries, k)
           /\ node' = [node EXCEPT ![c.to] = maybeSnapshot(followed(k))]
    BY <1>7 DEF AppendAccept
  <2>4. stored(k) \in Node /\ Within(stored(k), S)
    BY <2>2, <2>3, StoreEntriesKeeps, StoreWithin
  <2> HIDE DEF stored
  <2>5. followed(k) \in Node /\ Within(followed(k), S)
    BY <2>2, <2>4, FollowCommitKeeps, CommitWithin DEF Within
  <2> HIDE DEF followed
  <2>6. Within(maybeSnapshot(followed(k)), S)
    BY <2>5, SnapshotWithin
  <2> QED BY <2>1, <2>3, <2>6, OneLogWithin
<1>8. ASSUME NEW c \in UnderWay, AppendSucceeded(c) PROVE Goal
  <2>1. c.from \in Server
    BY CallKind DEF TypeOK
  <2> DEFINE m == tryAdvanceCommitIndex(node[c.from], matchIndex'[c.from], currentTerm[c.from])
  <2>2. Within(m, S)
    BY <1>0, <2>1, ShorterWithin
  <2>3. UNCHANGED node \/ node' = [node EXCEPT ![c.from] = m]
    BY <1>8 DEF AppendSucceeded
  <2> HIDE DEF m
  <2> QED BY <1>1, <2>1, <2>2, <2>3, OneLogWithin
<1>9. ASSUME NEW c \in UnderWay, HandleInstallSnapshot(c) PROVE Goal
  <2>1. c.to \in Server
    BY CallKind DEF TypeOK
  <2>2. node' = [node EXCEPT ![c.to] = InstallSnapshot(node[c.to], c.snapshot)]
    BY <1>9 DEF HandleInstallSnapshot
  <2> QED BY <1>0, <2>1, <2>2, ShorterWithin, OneLogWithin
<1>10. CASE Election
  <2>1. UNCHANGED node \/ \E c \in UnderWay : becomeLeader(c)
    BY <1>10, Zenon DEF Election, TimerFires, becomeCandidate, HandleRequestVote, VoteReply,
                        VoteStepDown
  <2> QED BY <1>1, <1>2, <2>1
<1>11. CASE Replication
  <2>1. \/ UNCHANGED node
        \/ \E i \in Server : Die(i) \/ \E command \in Command : Propose(i, command)
        \/ \E c \in UnderWay : AppendTruncateFails(c) \/ AppendAccept(c) \/ AppendSucceeded(c)
    BY <1>11, Zenon DEF Replication, HeartBeat, HeartBeatPanic, HeartBeatExit,
                SendAppendEntries, AppendStale, AppendMismatch, AppendGap,
                AppendReplyStepDown, AppendFailed
  <2> QED BY <1>1, <1>3, <1>4, <1>6, <1>7, <1>8, <2>1
<1>12. CASE SnapshotTransfer
  BY <1>1, <1>9, <1>12 DEF SnapshotTransfer, SendInstallSnapshot, SnapshotStale, SnapshotReply
<1>13. CASE Failure
  BY <1>1, <1>4, <1>5, <1>13 DEF Failure, Crash, Lose
<1> QED BY <1>10, <1>11, <1>12, <1>13 DEF Next

\* c as SendAppendEntries puts it on the wire, with the entries at the given
\* positions as the log shows them now.
Sent(c, seen) ==
    LET n == node[c.from]
    IN  [c EXCEPT !.at = "request",
                  !.LeaderCommit = n.commitIndex,
                  !.Entries = [k \in DOMAIN c.Entries |->
                                  IF k \in seen THEN EntryAt(n, c.Entries[k].Index)
                                  ELSE c.Entries[k]]]

\* Which entries of c the log may show.
Shown(c) == {k \in DOMAIN c.Entries : HasEntry(node[c.from], c.Entries[k].Index)}

Carries(d) == d.kind = "append" /\ d.at \in {"spawned", "request"}

\* A call with entries is started by a heartbeat or goes on from one that was.
LEMMA NewAppend ==
    ASSUME TypeOK, Next, NEW d \in UnderWay', Carries(d)
    PROVE  \/ d \in UnderWay
           \/ \E i \in Server : \E p \in Server \ {i} : HeartBeat(i) /\ d = AppendFor(i, p)
           \/ \E c \in UnderWay : /\ SendAppendEntries(c)
                                  /\ \E seen \in SUBSET Shown(c) : d = Sent(c, seen)
<1> DEFINE Goal == \/ d \in UnderWay
                   \/ \E i \in Server : \E p \in Server \ {i} : HeartBeat(i) /\ d = AppendFor(i, p)
                   \/ \E c \in UnderWay : /\ SendAppendEntries(c)
                                          /\ \E seen \in SUBSET Shown(c) : d = Sent(c, seen)
<1>1. CASE UNCHANGED calls
  BY <1>1 DEF UnderWay
<1>2. ASSUME NEW c, Finish(c) PROVE Goal
  BY <1>2, CallsChange
<1>3. ASSUME NEW c, NEW a, Continue(c, a) \/ Reply(c, a), ~Carries(a) PROVE Goal
  BY <1>3, CallsChange
<1>4. ASSUME NEW i, Die(i) PROVE Goal
  <2> DEFINE left == {c \in UnderWay : c.from = i => c.at = "request"}
  <2>1. calls' = [c \in left |-> calls[c]]
    BY <1>4 DEF Die
  <2>2. UnderWay' = left
    BY <2>1 DEF UnderWay, BagToSet
  <2> QED BY <2>2
<1>5. ASSUME NEW i \in Server, becomeCandidate(i) PROVE Goal
  <2>1. UnderWay' = UnderWay \cup RequestVotes(i, currentTerm[i] + 1, Len(votes) + 1)
    BY <1>5, CallsChange DEF becomeCandidate
  <2>2. \A a \in RequestVotes(i, currentTerm[i] + 1, Len(votes) + 1) : a.kind = "vote"
    BY DEF RequestVotes
  <2> QED BY <2>1, <2>2 DEF Carries
<1>6. ASSUME NEW c \in UnderWay, HandleRequestVote(c) PROVE Goal
  <2>1. \E a : Reply(c, a) /\ a.kind = "vote"
    BY <1>6 DEF HandleRequestVote
  <2> QED BY <1>3, <2>1 DEF Carries
<1>7. ASSUME NEW c \in UnderWay, VoteReply(c) PROVE Goal
  <2>1. ASSUME NEW at PROVE ~Carries([c EXCEPT !.at = at])
    <3>1. c \in RequestVoteAnswer
      BY <1>7, CallKind DEF VoteReply, TypeOK
    <3> QED BY <3>1 DEF Carries, RequestVoteAnswer
  <2> QED BY <1>2, <1>3, <1>7, <2>1 DEF VoteReply
<1>8. ASSUME NEW i \in Server, HeartBeat(i) PROVE Goal
  <2>1. PICK started \in SUBSET Spawned(i) : calls' = calls (+) SetToBag(started)
    BY <1>8 DEF HeartBeat
  <2>2. UnderWay' = UnderWay \cup started
    BY <2>1, CallsChange
  <2>3. \A p : SnapshotFor(i, p).kind = "snapshot"
    BY DEF SnapshotFor
  <2> QED BY <1>8, <2>1, <2>2, <2>3 DEF Spawned, Carries
<1>9. ASSUME NEW c \in UnderWay, SendAppendEntries(c) PROVE Goal
  <2>1. PICK seen \in SUBSET Shown(c) : Continue(c, Sent(c, seen))
    BY <1>9, Zenon DEF SendAppendEntries, Sent, Shown
  <2>2. d \in UnderWay \/ d = Sent(c, seen)
    BY <2>1, CallsChange
  <2> QED BY <1>9, <2>2
<1>10. ASSUME NEW c, NEW term, NEW success, NEW conflict, AppendReply(c, term, success, conflict)
       PROVE  Goal
  <2>1. \E a : Reply(c, a) /\ a.at = "reply"
    BY <1>10 DEF AppendReply
  <2> QED BY <1>3, <2>1 DEF Carries
<1>11. ASSUME NEW c \in UnderWay, AppendReplyStepDown(c) PROVE Goal
  <2> DEFINE a == [c EXCEPT !.at = "stepped"]
  <2>1. c \in AppendEntriesAnswer /\ Continue(c, a)
    BY <1>11, CallKind DEF AppendReplyStepDown, TypeOK
  <2>2. a.at = "stepped"
    BY <2>1 DEF AppendEntriesAnswer
  <2> HIDE DEF a
  <2> QED BY <1>3, <2>1, <2>2 DEF Carries
<1>12. ASSUME NEW c \in UnderWay, SendInstallSnapshot(c) PROVE Goal
  <2> DEFINE a == [c EXCEPT !.at = "request", !.snapshot = node[c.from].snapshot]
  <2>1. c \in InstallSnapshotCall /\ Continue(c, a)
    BY <1>12, CallKind DEF SendInstallSnapshot, TypeOK
  <2>2. a.kind = "snapshot"
    BY <2>1 DEF InstallSnapshotCall
  <2> HIDE DEF a
  <2> QED BY <1>3, <2>1, <2>2 DEF Carries
<1>13. ASSUME NEW c, NEW term, SnapshotAnswer(c, term) PROVE Goal
  <2>1. \E a : Reply(c, a) /\ a.kind = "snapshot"
    BY <1>13 DEF SnapshotAnswer
  <2> QED BY <1>3, <2>1 DEF Carries
<1>14. CASE Election
  BY <1>1, <1>2, <1>5, <1>6, <1>7, <1>14 DEF Election, TimerFires, VoteStepDown, becomeLeader
<1>15. CASE Replication
  BY <1>1, <1>2, <1>4, <1>8, <1>9, <1>10, <1>11, <1>15
  DEF Replication, HeartBeatPanic, HeartBeatExit, Propose, AppendStale, AppendMismatch,
      AppendTruncateFails, AppendGap, AppendAccept, AppendSucceeded, AppendFailed
<1>16. CASE SnapshotTransfer
  BY <1>2, <1>12, <1>13, <1>16
  DEF SnapshotTransfer, SnapshotStale, HandleInstallSnapshot, SnapshotReply
<1>17. CASE Failure
  BY <1>1, <1>2, <1>4, <1>17 DEF Failure, Crash, Start, Lose
<1> QED BY <1>14, <1>15, <1>16, <1>17 DEF Next

\* A heartbeat sends entries of its log.
LEMMA HeartBeatWithin ==
    ASSUME TypeOK, NEW i \in Server, NEW p \in Server, ~OutOfRange(i, p),
           NEW S, node[i].log \in Seq(S)
    PROVE  AppendFor(i, p).Entries \in Seq(S)
<1> DEFINE n == node[i]
           pos == toSlicePos(n, nextIndex[i][p])
           tail == SubSeq(n.log, pos + 1, Len(n.log))
<1>1. AppendFor(i, p).Entries = IF Compacted(i, p) THEN <<>> ELSE tail
  BY DEF AppendFor
<1>2. CASE Compacted(i, p)
  BY <1>1, <1>2
<1>3. CASE ~Compacted(i, p)
  <2>1. n.logOffset \in Nat /\ nextIndex[i][p] \in Nat
    BY DEF TypeOK, Node
  <2>2. pos \in 0 .. Len(n.log)
    BY <1>3, <2>1 DEF toSlicePos, Compacted, OutOfRange
  <2> HIDE DEF pos
  <2>3. tail \in Seq(S)
    BY <2>2, Suffix
  <2> QED BY <1>1, <1>3, <2>3
<1> QED BY <1>2, <1>3

\* What SendAppendEntries sends is what it was given or what its log holds.
LEMMA SentWithin ==
    ASSUME TypeOK, NEW c \in UnderWay, c.kind = "append", c.at = "spawned",
           NEW seen \in SUBSET Shown(c),
           NEW S, node[c.from].log \in Seq(S), c.Entries \in Seq(S)
    PROVE  Sent(c, seen).Entries \in Seq(S)
<1> DEFINE n == node[c.from]
           shown == [k \in DOMAIN c.Entries |->
                        IF k \in seen THEN EntryAt(n, c.Entries[k].Index) ELSE c.Entries[k]]
<1>1. c \in AppendEntriesCall /\ n \in Node
  BY CallKind DEF TypeOK
<1>2. \A k \in DOMAIN c.Entries : c.Entries[k] \in S
  OBVIOUS
<1>3. \A k \in seen : EntryAt(n, c.Entries[k].Index) \in S
  <2> TAKE k \in seen
  <2>1. HasEntry(n, c.Entries[k].Index)
    BY DEF Shown
  <2>2. toSlicePos(n, c.Entries[k].Index) + 1 \in DOMAIN n.log
    BY <1>1, <2>1, EntryAtType
  <2> QED BY <2>2 DEF EntryAt
<1>4. shown \in Seq(S)
  <2>1. DOMAIN c.Entries = 1 .. Len(c.Entries) /\ Len(c.Entries) \in Nat
    OBVIOUS
  <2> QED BY <1>2, <1>3, <2>1
<1>5. Sent(c, seen).Entries = shown
  <2> HIDE DEF shown
  <2>1. \A a, b : [c EXCEPT !.at = a, !.LeaderCommit = b, !.Entries = shown].Entries = shown
    BY <1>1 DEF AppendEntriesCall
  <2> QED BY <2>1 DEF Sent, shown
<1> QED BY <1>4, <1>5

\* No step sends an entry that is not in S.
LEMMA CallsStep ==
    ASSUME TypeOK, Next, NEW S, LogsWithin(node, S), CallsWithin(UnderWay, S)
    PROVE  CallsWithin(UnderWay', S)
<1> SUFFICES ASSUME NEW d \in UnderWay', Carries(d) PROVE d.Entries \in Seq(S)
  BY DEF CallsWithin, Carries
<1>1. CASE d \in UnderWay
  BY <1>1 DEF CallsWithin, Carries
<1>2. ASSUME NEW i \in Server, NEW p \in Server, HeartBeat(i), d = AppendFor(i, p)
      PROVE  d.Entries \in Seq(S)
  BY <1>2, HeartBeatWithin DEF HeartBeat, LogsWithin, Within
<1>3. ASSUME NEW c \in UnderWay, SendAppendEntries(c), NEW seen \in SUBSET Shown(c),
             d = Sent(c, seen)
      PROVE  d.Entries \in Seq(S)
  <2>1. c.kind = "append" /\ c.at = "spawned" /\ c.from \in Server
    BY <1>3, CallKind DEF SendAppendEntries, TypeOK
  <2>2. node[c.from].log \in Seq(S) /\ c.Entries \in Seq(S)
    BY <2>1 DEF LogsWithin, Within, CallsWithin
  <2> QED BY <1>3, <2>1, <2>2, SentWithin
<1> QED BY <1>1, <1>2, <1>3, NewAppend

-----------------------------------------------------------------------------
\* Whoever leads has been elected in its present term.
LeadersElected == \A i \in Server : state[i] = Leader => <<i, currentTerm[i]>> \in elected

\* A leader's term changes only together with its state.
LEMMA LeaderTermStands ==
    ASSUME TypeOK, Next
    PROVE  \A i \in Server : state'[i] = Leader => currentTerm'[i] = currentTerm[i]
<1> DEFINE Goal == \A i \in Server : state'[i] = Leader => currentTerm'[i] = currentTerm[i]
<1>0. currentTerm \in [Server -> Nat] /\ state \in [Server -> {Follower, Candidate, Leader}]
  BY DEF TypeOK
<1>1. CASE UNCHANGED currentTerm
  BY <1>1
<1>2. ASSUME NEW i \in Server, becomeCandidate(i) \/ Die(i) PROVE Goal
  BY <1>0, <1>2, DistinctStates DEF becomeCandidate, Die
<1>3. ASSUME NEW c \in UnderWay, HandleRequestVote(c) PROVE Goal
  <2>1. c.to \in Server
    BY CallKind DEF TypeOK
  <2>2. \A j \in Server : j # c.to => currentTerm'[j] = currentTerm[j]
    BY <1>0, <1>3 DEF HandleRequestVote
  <2>3. /\ currentTerm'[c.to] = IF c.Term > currentTerm[c.to] THEN c.Term ELSE currentTerm[c.to]
        /\ state'[c.to] = IF c.Term > currentTerm[c.to] THEN Follower ELSE state[c.to]
    BY <1>0, <1>3, <2>1 DEF HandleRequestVote
  <2>4. state'[c.to] = Leader => currentTerm'[c.to] = currentTerm[c.to]
    BY <2>3, DistinctStates
  <2> QED BY <2>2, <2>4
<1>4. ASSUME NEW i \in Server, NEW term, StepDown(i, term) PROVE Goal
  BY <1>0, <1>4, DistinctStates DEF StepDown
<1>5. ASSUME NEW c \in UnderWay, FollowLeader(c) PROVE Goal
  <2>1. c.to \in Server
    BY CallKind DEF TypeOK
  <2> QED BY <1>0, <1>5, <2>1, DistinctStates DEF FollowLeader
<1>6. \A c \in UnderWay : c.from \in Server
  BY CallKind DEF TypeOK
<1>7. CASE Election
  BY <1>1, <1>2, <1>3, <1>4, <1>6, <1>7, Zenon
  DEF Election, TimerFires, VoteReply, VoteStepDown, becomeLeader, electionVars
<1>8. CASE Replication
  BY <1>1, <1>2, <1>4, <1>5, <1>6, <1>8, Zenon
  DEF Replication, HeartBeat, HeartBeatPanic, HeartBeatExit, Propose,
      SendAppendEntries, AppendStale, AppendMismatch, AppendTruncateFails, AppendGap,
      AppendAccept, AppendReplyStepDown, AppendSucceeded, AppendFailed, FollowAppend,
      electionVars
<1>9. CASE SnapshotTransfer
  BY <1>1, <1>4, <1>5, <1>6, <1>9, Zenon
  DEF SnapshotTransfer, SendInstallSnapshot, SnapshotStale, HandleInstallSnapshot,
      SnapshotReply, electionVars
<1>10. CASE Failure
  BY <1>1, <1>2, <1>10, Zenon DEF Failure, Crash, Start, Lose, electionVars
<1> QED BY <1>7, <1>8, <1>9, <1>10 DEF Next

\* A step keeps LeadersElected.
LEMMA LeadersElectedStep ==
    ASSUME TypeOK, LeadersElected, Next
    PROVE  LeadersElected'
<1>1. CASE Calm
  BY <1>1, LeaderTermStands DEF Calm, LeadersElected
<1>2. ASSUME NEW c \in UnderWay, becomeLeader(c) PROVE LeadersElected'
  BY <1>2, Elected, LeaderTermStands DEF LeadersElected
<1> QED BY <1>1, <1>2, CalmUnlessElected

\* The entries of terms that had a leader.
OfLeaders == {e \in Entry : \E x \in elected : x[2] = e.Term}

\* The inductive invariant behind EntriesFromLeaders: leaders are elected, and
\* the entries on their way are of such terms too.
OriginInv ==
    /\ LeadersElected
    /\ LogsWithin(node, OfLeaders)
    /\ CallsWithin(UnderWay, OfLeaders)

\* OriginInv holds in every state.
LEMMA OriginInvAlways == Spec => []OriginInv
<1>1. Init => OriginInv
  <2> SUFFICES ASSUME Init PROVE OriginInv
    OBVIOUS
  <2>1. LeadersElected
    BY DistinctStates DEF Init, LeadersElected
  <2>2. \A S : <<>> \in Seq(S)
    OBVIOUS
  <2>3. EmptyNode.log = <<>> /\ EmptyNode.wal = <<>>
    BY DEF EmptyNode, OnDisk
  <2> QED BY <2>1, <2>2, <2>3, InitFacts DEF OriginInv, LogsWithin, CallsWithin, Within
<1>2. TypeOK /\ OriginInv /\ [Next]_vars => OriginInv'
  <2>1. ASSUME OriginInv, UNCHANGED vars PROVE OriginInv'
    BY <2>1, Stutter DEF OriginInv, LeadersElected, LogsWithin, CallsWithin, Within, OfLeaders
  <2>2. ASSUME TypeOK, OriginInv, Next PROVE OriginInv'
    <3>1. LeadersElected'
      BY <2>2, LeadersElectedStep DEF OriginInv
    <3>2. elected \subseteq elected'
      BY <2>2, CalmUnlessElected, Elected DEF Calm
    <3> DEFINE S == OfLeaders'
    <3>3. OfLeaders \subseteq S /\ S \subseteq Entry
      BY <3>2 DEF OfLeaders
    <3>4. \A s \in Seq(OfLeaders) : s \in Seq(S)
      BY <3>3, SeqMonotonic
    <3>5. LogsWithin(node, S) /\ CallsWithin(UnderWay, S)
      BY <2>2, <3>4 DEF OriginInv, LogsWithin, CallsWithin, Within
    <3>6. ASSUME NEW i \in Server, <<i, currentTerm[i]>> \in elected',
                 NEW command \in Command \cup {NoOp}
          PROVE  NewEntry(node[i], currentTerm[i], command) \in S
      <4> DEFINE e == NewEntry(node[i], currentTerm[i], command)
                 x == <<i, currentTerm[i]>>
      <4>1. e \in Entry
        BY <2>2, NewEntryType DEF TypeOK
      <4>2. e.Term = x[2] /\ x \in elected'
        BY <3>6 DEF NewEntry
      <4> QED BY <4>1, <4>2 DEF OfLeaders
    <3>7. Adds(S)
      <4>1. ASSUME NEW c \in UnderWay, becomeLeader(c)
            PROVE  NewEntry(node[c.from], currentTerm[c.from], NoOp) \in S
        BY <2>2, <3>6, <4>1, Elected
      <4>2. ASSUME NEW i \in Server, NEW command \in Command, Propose(i, command)
            PROVE  NewEntry(node[i], currentTerm[i], command) \in S
        BY <2>2, <3>2, <3>6, <4>2 DEF Propose, OriginInv, LeadersElected
      <4> QED BY <4>1, <4>2 DEF Adds
    <3> HIDE DEF S
    <3>8. LogsWithin(node', S)
      BY <2>2, <3>3, <3>5, <3>7, LogsStep
    <3>9. CallsWithin(UnderWay', S)
      BY <2>2, <3>5, CallsStep
    <3> QED BY <3>1, <3>8, <3>9 DEF OriginInv, S, LogsWithin, CallsWithin, Within
  <2> QED BY <2>1, <2>2
<1> QED BY <1>1, <1>2, TypeCorrect, PTL DEF Spec

\* Every entry is of a term in which some node was elected, with late
\* goroutines, crashes, restarts and snapshots (becomeLeader, Propose:741,
\* HandleAppendEntries, loadPersistedState).
THEOREM EntriesFromLeadersAlways == Spec => []EntriesFromLeaders
<1>1. OriginInv => EntriesFromLeaders
  <2> SUFFICES ASSUME OriginInv, NEW i \in Server, NEW s \in {node[i].log, node[i].wal},
                      NEW p \in DOMAIN s
               PROVE  \E e \in elected : e[2] = s[p].Term
    BY DEF EntriesFromLeaders
  <2>1. s \in Seq(OfLeaders)
    BY DEF OriginInv, LogsWithin, Within
  <2>2. s[p] \in OfLeaders
    BY <2>1
  <2> QED BY <2>2 DEF OfLeaders
<1> QED BY <1>1, OriginInvAlways, PTL

-----------------------------------------------------------------------------
(* Election safety for clusters of every size: when goroutines run before    *)
(* their node leaves their term and no process has died, no two nodes become *)
(* leader of one term.  The votes that were ever cast are not part of the    *)
(* program's state; the invariant says that there is a set of them.          *)

VoteCalls == {c \in UnderWay : c.kind = "vote"}

\* Who has voted for j in term t, where W holds votes <<voter, term, candidate>>.
Voters(W, j, t) == {i \in Server : <<i, t, j>> \in W}

\* The nodes whose answer to round r is not counted yet.
Open(r) == {i \in Server : \E c \in VoteCalls :
                              c.round = r /\ c.to = i /\ c.at \in {"request", "reply"}}

\* A node has one vote in a term.
OneVote(W) == \A x, y \in W : (x[1] = y[1] /\ x[2] = y[2]) => x[3] = y[3]

\* A node remembers its vote as long as it is in that term.
Remembered(W) ==
    \A x \in W : /\ x[2] <= currentTerm[x[1]]
                 /\ x[2] = currentTerm[x[1]] => votedFor[x[1]] = x[3]

\* No two goroutines ask the same node in the same round.
Single ==
    /\ \A c \in VoteCalls : calls[c] = 1
    /\ \A c \in VoteCalls : c.round \in DOMAIN votes /\ c.from # c.to
    /\ \A c, d \in VoteCalls : c.round = d.round =>
          c.from = d.from /\ c.Term = d.Term /\ (c.to = d.to => c = d)

\* A vote that is on its way back has been cast.
Granted(W) ==
    \A c \in VoteCalls : (c.at = "reply" /\ c.VoteGranted) => <<c.to, c.Term, c.from>> \in W

\* The counter of a round counts votes that have been cast, each once.
Counted(W) ==
    \A c \in VoteCalls :
        votes[c.round] <= Cardinality(Voters(W, c.from, c.Term) \ Open(c.round))

\* becomeLeader is called when the counter has reached a majority.
Enough == \A c \in VoteCalls : c.at = "lead" => votes[c.round] >= Majority

\* Every leader there ever was had the votes of a majority.
Supported(W) == \A e \in elected : Cardinality(Voters(W, e[1], e[2])) >= Majority

\* W can be the votes cast so far.
Ballots(W) ==
    /\ W \subseteq Server \X Nat \X Server
    /\ OneVote(W)
    /\ Remembered(W)
    /\ Single
    /\ Granted(W)
    /\ Counted(W)
    /\ Enough
    /\ Supported(W)

\* Counting sets of nodes.
LEMMA Counting ==
    ASSUME NEW T \in SUBSET Server, NEW S \in SUBSET T
    PROVE  /\ Cardinality(S) \in Nat /\ Cardinality(T) \in Nat
           /\ Cardinality(S) <= Cardinality(T)
           /\ \A x \in T \ S : Cardinality(S) + 1 <= Cardinality(T)
<1>1. IsFiniteSet(T)
  BY FS_Subset, ServerAssumption
<1>2. IsFiniteSet(S) /\ Cardinality(S) <= Cardinality(T)
  BY <1>1, FS_Subset
<1>3. Cardinality(S) \in Nat /\ Cardinality(T) \in Nat
  BY <1>1, <1>2, FS_CardinalityType
<1>4. ASSUME NEW x \in T \ S PROVE Cardinality(S) + 1 <= Cardinality(T)
  <2>1. Cardinality(S \cup {x}) = Cardinality(S) + 1
    BY <1>2, FS_AddElement
  <2>2. (S \cup {x}) \in SUBSET T
    OBVIOUS
  <2> QED BY <1>1, <2>1, <2>2, FS_Subset
<1> QED BY <1>2, <1>3, <1>4

\* Majority is a natural number, and two majorities have a node in common.
LEMMA Majorities ==
    /\ Majority \in Nat
    /\ \A S, T \in SUBSET Server :
          (Cardinality(S) >= Majority /\ Cardinality(T) >= Majority) => \E i \in Server : i \in S \cap T
<1>1. Cardinality(Server) \in Nat
  BY ServerAssumption, FS_CardinalityType
<1>2. Majority \in Nat /\ Majority + Majority > Cardinality(Server)
  BY <1>1 DEF Majority
<1>3. ASSUME NEW S \in SUBSET Server, NEW T \in SUBSET Server,
             Cardinality(S) >= Majority, Cardinality(T) >= Majority
      PROVE  \E i \in Server : i \in S \cap T
  <2>1. Cardinality(S) \in Nat /\ Cardinality(T) \in Nat
    BY Counting
  <2>2. Cardinality(S) + Cardinality(T) > Cardinality(Server)
    BY <1>1, <1>2, <1>3, <2>1
  <2>3. S \cap T # {}
    BY <2>2, ServerAssumption, FS_MajoritiesIntersect
  <2> QED BY <2>3
<1> QED BY <1>2, <1>3

\* One vote per node and term leaves one leader per term.
LEMMA SupportedMeansSafe ==
    ASSUME TypeOK, NEW W, Ballots(W)
    PROVE  ElectionSafety
<1> SUFFICES ASSUME NEW e \in elected, NEW f \in elected, e[2] = f[2] PROVE e[1] = f[1]
  BY DEF ElectionSafety
<1> DEFINE S == Voters(W, e[1], e[2])
           T == Voters(W, f[1], f[2])
<1>1. S \in SUBSET Server /\ T \in SUBSET Server
  BY DEF Voters
<1>2. Cardinality(S) >= Majority /\ Cardinality(T) >= Majority
  BY DEF Ballots, Supported
<1>3. PICK i \in Server : i \in S /\ i \in T
  BY <1>1, <1>2, Majorities
<1>4. <<i, e[2], e[1]>> \in W /\ <<i, f[2], f[1]>> \in W
  BY <1>3 DEF Voters
<1> QED BY <1>4 DEF Ballots, OneVote

-----------------------------------------------------------------------------
\* A bag without one copy of c.
LEMMA BagCounts ==
    ASSUME NEW B, NEW c
    PROVE  /\ \A x \in BagToSet(B) : (x # c /\ B[x] = 1) =>
                 x \in BagToSet(B (-) SetToBag({c})) /\ (B (-) SetToBag({c}))[x] = 1
           /\ B[c] = 1 => c \notin BagToSet(B (-) SetToBag({c}))
BY DEF BagToSet, SetToBag, (-)

\* A bag with one copy more of what is in S.
LEMMA BagAdds ==
    ASSUME NEW B, NEW S, NEW x, NEW C, C = B (+) SetToBag(S),
           (x \in BagToSet(B) /\ x \notin S /\ B[x] = 1) \/ (x \in S /\ x \notin BagToSet(B))
    PROVE  C[x] = 1
BY DEF BagToSet, SetToBag, (+)

\* A step that asks for no vote and counts none.
VoteNeutral ==
    /\ VoteCalls' \subseteq VoteCalls
    /\ \A x \in VoteCalls' : calls'[x] = calls[x]
    /\ UNCHANGED <<votes, elected>>

\* The calls for votes when some goroutine ends.
LEMMA VoteCallsFinish ==
    ASSUME Single, NEW c \in UnderWay, Finish(c)
    PROVE  /\ VoteCalls' \subseteq VoteCalls \ {c} \/ c \notin VoteCalls
           /\ VoteCalls' \subseteq VoteCalls
           /\ \A x \in VoteCalls' : calls'[x] = 1
<1>1. VoteCalls' \subseteq VoteCalls
  BY CallsChange DEF VoteCalls
<1>2. calls' = calls (-) SetToBag({c})
  BY DEF Finish
<1>3. c \in VoteCalls => c \notin VoteCalls'
  BY <1>2, BagCounts DEF Single, VoteCalls, UnderWay
<1>4. ASSUME NEW x \in VoteCalls' PROVE calls'[x] = 1
  <2>1. x \in BagToSet(calls) /\ calls[x] = 1
    BY <1>1 DEF Single, VoteCalls, UnderWay
  <2>2. x # c
    BY <1>1, <1>3
  <2>3. (calls (-) SetToBag({c}))[x] = 1
    BY <2>1, <2>2, BagCounts
  <2> QED BY <1>2, <2>3
<1> QED BY <1>1, <1>3, <1>4

\* The calls for votes when some goroutine goes on as d.
LEMMA VoteCallsContinue ==
    ASSUME Single, NEW c \in UnderWay, NEW d, d \notin VoteCalls, Continue(c, d) \/ Reply(c, d)
    PROVE  /\ VoteCalls' \subseteq (VoteCalls \ {c}) \cup {d} \/ c \notin VoteCalls
           /\ VoteCalls' \subseteq VoteCalls \cup {d}
           /\ \A x \in VoteCalls' : calls'[x] = 1
<1>1. CASE Finish(c)
  BY <1>1, VoteCallsFinish
<1>2. CASE Continue(c, d)
  <2> DEFINE B == calls (-) SetToBag({c})
  <2>1. calls' = B (+) SetToBag({d})
    BY <1>2 DEF Continue
  <2>2. BagToSet(B) \subseteq BagToSet(calls)
    BY BagChange
  <2>3. c \in VoteCalls => c \notin BagToSet(B)
    BY BagCounts DEF Single, VoteCalls, UnderWay
  <2>4. \A x \in BagToSet(B) : x \in VoteCalls => B[x] = 1
    BY <2>2, <2>3, BagCounts DEF Single, VoteCalls, UnderWay
  <2> HIDE DEF B
  <2>5. UnderWay' = BagToSet(B) \cup {d}
    BY <2>1, BagChange DEF UnderWay
  <2>6. \A x \in VoteCalls' : x \in VoteCalls \/ x = d
    BY <2>2, <2>5 DEF VoteCalls, UnderWay
  <2>7. \A x \in VoteCalls' : (x \in BagToSet(B) /\ x # d) \/ x = d
    BY <2>5 DEF VoteCalls
  <2>8. ASSUME NEW x \in VoteCalls' PROVE calls'[x] = 1
    <3>1. CASE x = d
      <4>1. d \notin BagToSet(B)
        BY <2>2, <2>8, <3>1 DEF VoteCalls, UnderWay
      <4>2. x \in {d} /\ x \notin BagToSet(B)
        BY <3>1, <4>1
      <4> QED BY <2>1, <4>2, BagAdds
    <3>2. CASE x # d
      <4>1. x \in BagToSet(B) /\ x \notin {d} /\ B[x] = 1
        BY <2>4, <2>6, <2>7, <2>8, <3>2
      <4> QED BY <2>1, <4>1, BagAdds
    <3> QED BY <3>1, <3>2
  <2>9. c \in VoteCalls => VoteCalls' \subseteq (VoteCalls \ {c}) \cup {d}
    BY <2>3, <2>6, <2>7
  <2> QED BY <2>6, <2>8, <2>9
<1> QED BY <1>1, <1>2 DEF Reply

\* The calls for votes when goroutines of another kind start.
LEMMA VoteCallsStart ==
    ASSUME Single, NEW S, \A d \in S : d.kind # "vote", calls' = calls (+) SetToBag(S)
    PROVE  VoteCalls' \subseteq VoteCalls /\ \A x \in VoteCalls' : calls'[x] = 1
<1>1. VoteCalls' \subseteq VoteCalls /\ \A x \in VoteCalls' : x \notin S
  BY CallsChange DEF VoteCalls
<1>2. \A x \in VoteCalls' : x \in BagToSet(calls) /\ calls[x] = 1
  BY <1>1 DEF Single, VoteCalls, UnderWay
<1> QED BY <1>1, <1>2, BagAdds

\* Every step is one of an election, a death, or leaves elections alone.
LEMMA VoteNeutralUnless ==
    ASSUME TypeOK, Single, Next
    PROVE  \/ VoteNeutral
           \/ \E i \in Server : Die(i) \/ becomeCandidate(i)
           \/ \E c \in UnderWay : HandleRequestVote(c) \/ VoteReply(c) \/ becomeLeader(c)
<1>0. \A x \in VoteCalls : calls[x] = 1
  BY DEF Single
<1>1. ASSUME UNCHANGED <<calls, votes, elected>> PROVE VoteNeutral
  BY <1>1 DEF VoteNeutral, VoteCalls, UnderWay
<1>2. ASSUME NEW c \in UnderWay, Finish(c), UNCHANGED <<votes, elected>> PROVE VoteNeutral
  BY <1>0, <1>2, VoteCallsFinish DEF VoteNeutral
<1>3. ASSUME NEW c \in UnderWay, NEW d, Continue(c, d) \/ Reply(c, d), d.kind # "vote",
             UNCHANGED <<votes, elected>>
      PROVE  VoteNeutral
  <2>1. d \notin VoteCalls /\ d \notin VoteCalls'
    BY <1>3 DEF VoteCalls
  <2> QED BY <1>0, <1>3, <2>1, VoteCallsContinue DEF VoteNeutral
<1>4. ASSUME NEW i \in Server, HeartBeat(i) PROVE VoteNeutral
  <2>1. PICK started \in SUBSET Spawned(i) : calls' = calls (+) SetToBag(started)
    BY <1>4 DEF HeartBeat
  <2>2. \A d \in started : d.kind # "vote"
    <3>1. \A p : AppendFor(i, p).kind = "append" /\ SnapshotFor(i, p).kind = "snapshot"
      BY DEF AppendFor, SnapshotFor
    <3> QED BY <3>1 DEF Spawned
  <2>3. UNCHANGED <<votes, elected>>
    BY <1>4 DEF HeartBeat
  <2> QED BY <1>0, <2>1, <2>2, <2>3, VoteCallsStart DEF VoteNeutral
<1>5. ASSUME NEW c \in UnderWay, SendAppendEntries(c) PROVE VoteNeutral
  <2>1. PICK seen \in SUBSET Shown(c) : Continue(c, Sent(c, seen))
    BY <1>5, Zenon DEF SendAppendEntries, Sent, Shown
  <2>2. c \in AppendEntriesCall /\ UNCHANGED <<votes, elected>>
    BY <1>5, CallKind DEF SendAppendEntries, TypeOK
  <2>3. Sent(c, seen).kind = "append"
    BY <2>2 DEF Sent, AppendEntriesCall
  <2> QED BY <1>3, <2>1, <2>2, <2>3
<1>6. ASSUME NEW c \in UnderWay, NEW term, NEW success, NEW conflict,
             AppendReply(c, term, success, conflict), UNCHANGED <<votes, elected>>
      PROVE  VoteNeutral
  <2>1. \E a : Reply(c, a) /\ a.kind = "append"
    BY <1>6 DEF AppendReply
  <2> QED BY <1>3, <1>6, <2>1
<1>7. ASSUME NEW c \in UnderWay, AppendReplyStepDown(c) PROVE VoteNeutral
  <2> DEFINE a == [c EXCEPT !.at = "stepped"]
  <2>1. c \in AppendEntriesAnswer /\ Continue(c, a) /\ UNCHANGED <<votes, elected>>
    BY <1>7, CallKind DEF AppendReplyStepDown, TypeOK
  <2>2. a.kind = "append"
    BY <2>1 DEF AppendEntriesAnswer
  <2> HIDE DEF a
  <2> QED BY <1>3, <2>1, <2>2
<1>8. ASSUME NEW c \in UnderWay, SendInstallSnapshot(c) PROVE VoteNeutral
  <2> DEFINE a == [c EXCEPT !.at = "request", !.snapshot = node[c.from].snapshot]
  <2>1. c \in InstallSnapshotCall /\ Continue(c, a) /\ UNCHANGED <<votes, elected>>
    BY <1>8, CallKind DEF SendInstallSnapshot, TypeOK
  <2>2. a.kind = "snapshot"
    BY <2>1 DEF InstallSnapshotCall
  <2> HIDE DEF a
  <2> QED BY <1>3, <2>1, <2>2
<1>9. ASSUME NEW c \in UnderWay, NEW term, SnapshotAnswer(c, term), UNCHANGED <<votes, elected>>
      PROVE  VoteNeutral
  <2>1. \E a : Reply(c, a) /\ a.kind = "snapshot"
    BY <1>9 DEF SnapshotAnswer
  <2> QED BY <1>3, <1>9, <2>1
<1>10. CASE Election
  BY <1>1, <1>2, <1>10, Zenon DEF Election, TimerFires, VoteStepDown
<1>11. CASE Replication
  BY <1>1, <1>2, <1>4, <1>5, <1>6, <1>7, <1>11, Zenon
  DEF Replication, HeartBeatPanic, HeartBeatExit, Propose, AppendStale, AppendMismatch,
      AppendTruncateFails, AppendGap, AppendAccept, AppendSucceeded, AppendFailed,
      FollowAppend, FollowLeader
<1>12. CASE SnapshotTransfer
  BY <1>2, <1>8, <1>9, <1>12, Zenon
  DEF SnapshotTransfer, SnapshotStale, HandleInstallSnapshot, SnapshotReply, FollowLeader
<1>13. CASE Failure
  BY <1>1, <1>2, <1>13, Zenon DEF Failure, Crash, Start, Lose
<1> QED BY <1>10, <1>11, <1>12, <1>13 DEF Next

-----------------------------------------------------------------------------
\* Votes that stand are remembered.
LEMMA RememberedStep ==
    ASSUME TypeOK, TypeOK', NEW W, W \subseteq Server \X Nat \X Server, Remembered(W),
           \A i \in Server : Stands(i)
    PROVE  Remembered(W)'
<1> SUFFICES ASSUME NEW x \in W
             PROVE  /\ x[2] <= currentTerm'[x[1]]
                    /\ x[2] = currentTerm'[x[1]] => votedFor'[x[1]] = x[3]
  BY DEF Remembered
<1>1. x[1] \in Server /\ x[2] \in Nat /\ x[3] \in Server /\ x[3] # Nil
  BY ServerAssumption
<1>2. currentTerm[x[1]] \in Nat /\ currentTerm'[x[1]] \in Nat
  BY <1>1 DEF TypeOK
<1>3. x[2] <= currentTerm[x[1]] /\ (x[2] = currentTerm[x[1]] => votedFor[x[1]] = x[3])
  BY DEF Remembered
<1> QED BY <1>1, <1>2, <1>3 DEF Stands

\* c and d are stages of one goroutine of requestVotes.
SameGoroutine(c, d) ==
    c.round = d.round /\ c.from = d.from /\ c.to = d.to /\ c.Term = d.Term

\* A call for a vote whose answer was not counted before the step either.
Follows(d) ==
    \E c \in VoteCalls : /\ SameGoroutine(c, d)
                         /\ d.at \in {"request", "reply"} => c.at \in {"request", "reply"}

\* Votes cast remain cast, so what has been counted remains true.
LEMMA CountedOne ==
    ASSUME NEW W, NEW W1, W \subseteq W1, Counted(W), votes \in Seq(Nat), Single,
           NEW d \in VoteCalls', votes'[d.round] = votes[d.round],
           \A x \in VoteCalls' : x.round = d.round => Follows(x)
    PROVE  votes'[d.round] <= Cardinality(Voters(W1, d.from, d.Term) \ Open(d.round)')
<1>1. PICK c \in VoteCalls : SameGoroutine(c, d)
  BY DEF Follows
<1>2. Open(d.round)' \subseteq Open(d.round)
  BY DEF Open, Follows, SameGoroutine
<1> DEFINE S == Voters(W, d.from, d.Term) \ Open(d.round)
           T == Voters(W1, d.from, d.Term) \ Open(d.round)'
<1>3. S \in SUBSET T /\ T \in SUBSET Server
  BY <1>2 DEF Voters
<1>4. votes[d.round] <= Cardinality(S)
  BY <1>1 DEF Counted, SameGoroutine
<1>5. votes[d.round] \in Nat
  BY <1>1 DEF SameGoroutine, Single
<1> HIDE DEF S, T
<1>6. Cardinality(S) \in Nat /\ Cardinality(T) \in Nat /\ Cardinality(S) <= Cardinality(T)
  BY <1>3, Counting
<1>7. votes'[d.round] <= Cardinality(T)
  BY <1>4, <1>5, <1>6
<1> QED BY <1>7 DEF T

\* The same, when no new call is made.
LEMMA CountedKept ==
    ASSUME NEW W, NEW W1, W \subseteq W1, Counted(W), votes \in Seq(Nat), Single,
           \A d \in VoteCalls' : Follows(d) /\ votes'[d.round] = votes[d.round]
    PROVE  Counted(W1)'
BY CountedOne DEF Counted

\* A majority remains one when more votes are cast.
LEMMA SupportedKept ==
    ASSUME NEW W, NEW W1, W \subseteq W1, Supported(W), UNCHANGED elected
    PROVE  Supported(W1)'
<1> SUFFICES ASSUME NEW e \in elected PROVE Cardinality(Voters(W1, e[1], e[2])) >= Majority
  BY DEF Supported
<1> DEFINE S == Voters(W, e[1], e[2])
           T == Voters(W1, e[1], e[2])
<1>1. S \in SUBSET T /\ T \in SUBSET Server
  BY DEF Voters
<1>2. Cardinality(S) >= Majority
  BY DEF Supported
<1> HIDE DEF S, T
<1>3. Cardinality(S) \in Nat /\ Cardinality(T) \in Nat /\ Cardinality(S) <= Cardinality(T)
  BY <1>1, Counting
<1>4. Cardinality(T) >= Majority
  BY <1>2, <1>3, Majorities
<1> QED BY <1>4 DEF T

\* Ballots do not change in a step that leaves elections alone.
LEMMA NeutralBallots ==
    ASSUME TypeOK, TypeOK', NEW W, Ballots(W), VoteNeutral, \A i \in Server : Stands(i)
    PROVE  Ballots(W)'
<1>1. W \subseteq Server \X Nat \X Server /\ OneVote(W) /\ Single /\ votes \in Seq(Nat)
  BY DEF Ballots, TypeOK
<1>2. Remembered(W)'
  BY <1>1, RememberedStep DEF Ballots
<1>3. Single'
  BY DEF Single, Ballots, VoteNeutral
<1>4. Granted(W)' /\ Enough'
  BY DEF Ballots, VoteNeutral, Granted, Enough
<1>5. Counted(W)'
  <2>1. \A d \in VoteCalls' : Follows(d) /\ votes'[d.round] = votes[d.round]
    BY DEF Follows, SameGoroutine, VoteNeutral
  <2> QED BY <1>1, <2>1, CountedKept DEF Ballots
<1>6. Supported(W)'
  BY SupportedKept DEF Ballots, VoteNeutral
<1> QED BY <1>1, <1>2, <1>3, <1>4, <1>5, <1>6 DEF Ballots, OneVote

\* A goroutine of requestVotes ends or goes on, and no vote is counted.
LEMMA GoesOn ==
    ASSUME TypeOK, Single, NEW c \in VoteCalls, NEW d, d.kind = "vote", SameGoroutine(c, d),
           d.at # c.at, Continue(c, d) \/ Reply(c, d) \/ Finish(c),
           DOMAIN votes' = DOMAIN votes
    PROVE  /\ VoteCalls' \subseteq (VoteCalls \ {c}) \cup {d}
           /\ Single'
           /\ \A x \in VoteCalls' : (x.round = c.round /\ x.to = c.to) => x = d
<1>1. d \notin VoteCalls
  BY DEF Single, SameGoroutine
<1>2. c \in UnderWay
  BY DEF VoteCalls
<1>3. /\ VoteCalls' \subseteq (VoteCalls \ {c}) \cup {d}
      /\ \A x \in VoteCalls' : calls'[x] = 1
  BY <1>1, <1>2, VoteCallsContinue, VoteCallsFinish
<1>4. \A x \in VoteCalls : /\ x.round \in DOMAIN votes /\ x.from # x.to
                           /\ x.round = c.round => x.from = c.from /\ x.Term = c.Term
                           /\ (x.round = c.round /\ x.to = c.to) => x = c
  BY DEF Single
<1>5. \A x \in VoteCalls' : x.round \in DOMAIN votes' /\ x.from # x.to
  BY <1>3, <1>4 DEF SameGoroutine
<1>6. \A x, y \in VoteCalls' : x.round = y.round =>
         x.from = y.from /\ x.Term = y.Term /\ (x.to = y.to => x = y)
  <2> SUFFICES ASSUME NEW x \in VoteCalls', NEW y \in VoteCalls', x.round = y.round
               PROVE  x.from = y.from /\ x.Term = y.Term /\ (x.to = y.to => x = y)
    OBVIOUS
  <2>1. CASE x = d /\ y = d
    BY <2>1
  <2>2. CASE x # d /\ y # d
    <3>1. x \in VoteCalls /\ y \in VoteCalls
      BY <1>3, <2>2
    <3> QED BY <3>1 DEF Single
  <2>3. CASE x = d /\ y # d
    <3>1. y \in VoteCalls /\ y # c
      BY <1>3, <2>3
    <3> QED BY <1>4, <2>3, <3>1 DEF SameGoroutine
  <2>4. CASE x # d /\ y = d
    <3>1. x \in VoteCalls /\ x # c
      BY <1>3, <2>4
    <3> QED BY <1>4, <2>4, <3>1 DEF SameGoroutine
  <2> QED BY <2>1, <2>2, <2>3, <2>4
<1>7. \A x \in VoteCalls' : (x.round = c.round /\ x.to = c.to) => x = d
  BY <1>3, <1>4
<1> QED BY <1>3, <1>5, <1>6, <1>7 DEF Single

\* The votes in W1 that are not in W are the ones that the step casts.
Casts(W, W1) ==
    /\ W \subseteq W1
    /\ \A x \in W1 \ W :
          \/ \E c \in UnderWay : /\ HandleRequestVote(c) /\ GrantsVote(c.to, c)
                                 /\ x = <<c.to, c.Term, c.from>>
          \/ \E i \in Server : becomeCandidate(i) /\ x = <<i, currentTerm[i] + 1, i>>

\* HandleRequestVote: a vote that is given joins the ballots.
LEMMA VoteBallots ==
    ASSUME TypeOK, TypeOK', NEW W, Ballots(W), NEW c \in UnderWay, HandleRequestVote(c),
           \A i \in Server : Stands(i)
    PROVE  \E W1 : Ballots(W1)' /\ Casts(W, W1)
<1>1. c.from \in Server /\ c.to \in Server /\ c.Term \in Nat /\ c \in VoteCalls
  BY CallKind DEF TypeOK, HandleRequestVote, VoteCalls
<1>2. W \subseteq Server \X Nat \X Server /\ OneVote(W) /\ Single /\ votes \in Seq(Nat)
  BY DEF Ballots, TypeOK
<1>3. PICK granted : granted = GrantsVote(c.to, c)
  OBVIOUS
<1>4. PICK W1 : W1 = IF granted THEN W \cup {<<c.to, c.Term, c.from>>} ELSE W
  OBVIOUS
<1>5. W \subseteq W1 /\ W1 \subseteq Server \X Nat \X Server
  BY <1>1, <1>2, <1>4
<1>6. ASSUME granted PROVE /\ currentTerm'[c.to] = c.Term /\ votedFor'[c.to] = c.from
                           /\ \A x \in W : (x[1] = c.to /\ x[2] = c.Term) => x[3] = c.from
  <2>1. /\ c.Term >= currentTerm[c.to]
        /\ c.Term > currentTerm[c.to] \/ votedFor[c.to] \in {Nil, c.from}
    BY <1>3, <1>6 DEF GrantsVote
  <2>2. currentTerm[c.to] \in Nat
    BY <1>1 DEF TypeOK
  <2>3. /\ votedFor'[c.to] = c.from
        /\ currentTerm'[c.to] = IF c.Term > currentTerm[c.to] THEN c.Term ELSE currentTerm[c.to]
    BY <1>1, <1>3, <1>6, VoteTypes DEF HandleRequestVote
  <2>4. ASSUME NEW x \in W, x[1] = c.to, x[2] = c.Term PROVE x[3] = c.from
    <3>1. c.Term <= currentTerm[c.to] /\ (c.Term = currentTerm[c.to] => votedFor[c.to] = x[3])
      BY <2>4 DEF Ballots, Remembered
    <3>2. x[3] # Nil
      BY <1>2, ServerAssumption
    <3> QED BY <1>1, <2>1, <2>2, <3>1, <3>2
  <2> QED BY <1>1, <2>1, <2>2, <2>3, <2>4
<1>7. OneVote(W1)
  <2>1. CASE ~granted
    BY <1>2, <1>4, <2>1
  <2>2. CASE granted
    BY <1>2, <1>4, <1>6, <2>2 DEF OneVote
  <2> QED BY <2>1, <2>2
<1>8. Remembered(W1)'
  <2>1. Remembered(W)'
    BY <1>2, RememberedStep DEF Ballots
  <2>2. CASE ~granted
    BY <1>4, <2>1, <2>2
  <2>3. CASE granted
    <3> DEFINE y == <<c.to, c.Term, c.from>>
    <3>1. y[2] <= currentTerm'[y[1]] /\ votedFor'[y[1]] = y[3]
      BY <1>1, <1>6, <2>3
    <3>2. \A x \in W1 : x \in W \/ x = y
      BY <1>4
    <3> HIDE DEF y
    <3> QED BY <2>1, <3>1, <3>2 DEF Remembered
  <2> QED BY <2>2, <2>3
<1>9. PICK d : /\ Reply(c, d) /\ d.kind = "vote" /\ d.at = "reply" /\ SameGoroutine(c, d)
               /\ d.VoteGranted = granted
  BY <1>3 DEF HandleRequestVote, SameGoroutine
<1>10. c.at = "request" /\ UNCHANGED <<votes, elected>>
  BY DEF HandleRequestVote
<1>11. VoteCalls' \subseteq (VoteCalls \ {c}) \cup {d} /\ Single'
  BY <1>1, <1>2, <1>9, <1>10, GoesOn
<1>12. Granted(W1)'
  <2> SUFFICES ASSUME NEW x \in VoteCalls', x.at = "reply", x.VoteGranted
               PROVE  <<x.to, x.Term, x.from>> \in W1
    BY DEF Granted
  <2>1. CASE x = d
    BY <1>4, <1>9, <2>1 DEF SameGoroutine
  <2>2. CASE x \in VoteCalls
    BY <1>5, <2>2 DEF Ballots, Granted
  <2> QED BY <1>11, <2>1, <2>2
<1>13. Enough'
  BY <1>9, <1>10, <1>11 DEF Enough, Ballots
<1>14. Counted(W1)'
  <2>1. \A x \in VoteCalls' : Follows(x) /\ votes'[x.round] = votes[x.round]
    BY <1>1, <1>9, <1>10, <1>11 DEF Follows, SameGoroutine
  <2> QED BY <1>2, <1>5, <2>1, CountedKept DEF Ballots
<1>15. Supported(W1)'
  BY <1>5, <1>10, SupportedKept DEF Ballots
<1>16. Ballots(W1)'
  BY <1>5, <1>7, <1>8, <1>11, <1>12, <1>13, <1>14, <1>15 DEF Ballots, OneVote
<1>17. Casts(W, W1)
  BY <1>3, <1>4, <1>5 DEF Casts
<1> QED BY <1>16, <1>17

\* VoteReply: each vote is counted when its goroutine takes voteMu, and once.
LEMMA ReplyBallots ==
    ASSUME TypeOK, TypeOK', NEW W, Ballots(W), NEW c \in UnderWay, VoteReply(c),
           \A i \in Server : Stands(i)
    PROVE  Ballots(W)'
<1>1. c \in RequestVoteAnswer /\ c.to \in Server /\ c \in VoteCalls /\ c.at = "reply"
  BY CallKind DEF TypeOK, VoteReply, VoteCalls
<1>2. W \subseteq Server \X Nat \X Server /\ OneVote(W) /\ Single /\ votes \in Seq(Nat)
  BY DEF Ballots, TypeOK
<1>3. Remembered(W)'
  BY <1>2, RememberedStep DEF Ballots
<1>4. UNCHANGED elected
  BY DEF VoteReply
<1>5. Supported(W)'
  BY <1>4, SupportedKept DEF Ballots
<1>6. ASSUME NEW at \in {"stepdown", "lead"}
      PROVE  LET d == [c EXCEPT !.at = at]
             IN  d.kind = "vote" /\ d.at = at /\ SameGoroutine(c, d) /\ d.at # c.at
  BY <1>1 DEF RequestVoteAnswer, SameGoroutine
<1>7. PICK d : /\ Continue(c, d) \/ Finish(c)
               /\ d.kind = "vote" /\ d.at \in {"stepdown", "lead"} /\ SameGoroutine(c, d)
               /\ d.at # c.at
               /\ \/ UNCHANGED votes /\ (d \in VoteCalls' => d.at = "stepdown")
                  \/ /\ votes' = [votes EXCEPT ![c.round] = @ + 1] /\ c.VoteGranted
                     /\ d \in VoteCalls' => votes[c.round] + 1 >= Majority
  <2>0. ASSUME NEW a, Finish(c), SameGoroutine(c, a), a.at # c.at PROVE a \notin VoteCalls'
    <3>1. VoteCalls' \subseteq VoteCalls
      BY <1>2, <2>0, VoteCallsFinish
    <3> QED BY <1>1, <1>2, <2>0, <3>1 DEF Single, SameGoroutine
  <2>1. CASE Continue(c, [c EXCEPT !.at = "stepdown"]) /\ UNCHANGED votes
    BY <1>6, <2>1
  <2>2. CASE /\ votes' = [votes EXCEPT ![c.round] = @ + 1] /\ c.VoteGranted
             /\ votes[c.round] + 1 >= Majority /\ Continue(c, [c EXCEPT !.at = "lead"])
    BY <1>6, <2>2
  <2>3. CASE /\ votes' = [votes EXCEPT ![c.round] = @ + 1] /\ c.VoteGranted /\ Finish(c)
    BY <1>6, <2>0, <2>3
  <2>4. CASE Finish(c) /\ UNCHANGED votes
    BY <1>6, <2>0, <2>4
  <2> QED BY <2>1, <2>2, <2>3, <2>4 DEF VoteReply
<1>8. DOMAIN votes' = DOMAIN votes
  BY <1>7
<1>9. /\ VoteCalls' \subseteq (VoteCalls \ {c}) \cup {d} /\ Single'
      /\ \A x \in VoteCalls' : (x.round = c.round /\ x.to = c.to) => x = d
  BY <1>1, <1>2, <1>7, <1>8, GoesOn
<1>10. Granted(W)'
  BY <1>7, <1>9 DEF Granted, Ballots
<1>11. c.round \in DOMAIN votes /\ \A r \in DOMAIN votes : votes[r] \in Nat
  BY <1>1, <1>2 DEF Single
<1>12. Enough'
  <2> SUFFICES ASSUME NEW x \in VoteCalls', x.at = "lead" PROVE votes'[x.round] >= Majority
    BY DEF Enough
  <2>1. CASE x = d
    <3>1. votes' = [votes EXCEPT ![c.round] = @ + 1] /\ votes[c.round] + 1 >= Majority
      BY <1>7, <2>1
    <3> QED BY <1>7, <1>11, <2>1, <3>1 DEF SameGoroutine
  <2>2. CASE x \in VoteCalls
    <3>1. x.round \in DOMAIN votes /\ votes[x.round] >= Majority
      BY <1>2, <2>2 DEF Ballots, Enough, Single
    <3>2. votes'[x.round] \in {votes[x.round], votes[x.round] + 1}
      BY <1>7, <3>1
    <3> QED BY <1>11, <3>1, <3>2, Majorities
  <2> QED BY <1>9, <2>1, <2>2
<1>13. Counted(W)'
  <2>1. \A x \in VoteCalls' : Follows(x)
    BY <1>1, <1>7, <1>9 DEF Follows, SameGoroutine
  <2>2. CASE UNCHANGED votes
    BY <1>2, <2>1, <2>2, CountedKept DEF Ballots
  <2>3. CASE votes' = [votes EXCEPT ![c.round] = @ + 1] /\ c.VoteGranted
    <3> SUFFICES ASSUME NEW x \in VoteCalls'
                 PROVE  votes'[x.round] <= Cardinality(Voters(W, x.from, x.Term) \ Open(x.round)')
      BY DEF Counted
    <3> DEFINE S == Voters(W, x.from, x.Term) \ Open(x.round)
               T == Voters(W, x.from, x.Term) \ Open(x.round)'
    <3>1. PICK y \in VoteCalls : SameGoroutine(y, x)
      BY <2>1 DEF Follows
    <3>2. votes[x.round] <= Cardinality(S) /\ x.round \in DOMAIN votes
      BY <1>2, <3>1 DEF Ballots, Counted, SameGoroutine, Single
    <3>3. Open(x.round)' \subseteq Open(x.round)
      BY <2>1 DEF Open, Follows, SameGoroutine
    <3>4. S \in SUBSET T /\ T \in SUBSET Server
      BY <3>3 DEF Voters
    <3>5. CASE x.round # c.round
      <4> HIDE DEF S, T
      <4>1. votes'[x.round] = votes[x.round]
        BY <2>3, <3>2, <3>5
      <4>2. votes'[x.round] <= Cardinality(T)
        BY <1>11, <3>2, <3>4, <4>1, Counting
      <4> QED BY <4>2 DEF T
    <3>6. CASE x.round = c.round
      <4>1. c.from = x.from /\ c.Term = x.Term
        BY <1>1, <1>2, <3>1, <3>6 DEF Single, SameGoroutine
      <4>2. c.to \in Voters(W, x.from, x.Term)
        BY <1>1, <2>3, <4>1 DEF Voters, Ballots, Granted
      <4>3. c.to \in Open(x.round)
        BY <1>1, <3>6 DEF Open
      <4>4. c.to \notin Open(x.round)'
        BY <1>7, <1>9, <3>6 DEF Open
      <4>5. c.to \in T \ S
        BY <4>2, <4>3, <4>4
      <4> HIDE DEF S, T
      <4>6. Cardinality(S) \in Nat /\ Cardinality(T) \in Nat /\ Cardinality(S) + 1 <= Cardinality(T)
        BY <3>4, <4>5, Counting
      <4>7. votes'[x.round] = votes[x.round] + 1
        BY <2>3, <3>2, <3>6
      <4>8. votes'[x.round] <= Cardinality(T)
        BY <1>11, <3>2, <4>6, <4>7
      <4> QED BY <4>8 DEF T
    <3> QED BY <3>5, <3>6
  <2> QED BY <1>7, <2>2, <2>3
<1> QED BY <1>2, <1>3, <1>5, <1>9, <1>10, <1>12, <1>13 DEF Ballots, OneVote

\* requestVotes: the calls of a new round are new.
LEMMA NewRound ==
    ASSUME TypeOK, Single, NEW i \in Server, becomeCandidate(i)
    PROVE  LET S == RequestVotes(i, currentTerm[i] + 1, Len(votes) + 1)
           IN  /\ VoteCalls' = VoteCalls \cup S
               /\ Single'
               /\ \A x \in VoteCalls : x.round # Len(votes) + 1
<1> DEFINE t == currentTerm[i] + 1
           r == Len(votes) + 1
           S == RequestVotes(i, t, r)
<1>1. votes \in Seq(Nat) /\ votes' = Append(votes, 1) /\ calls' = calls (+) SetToBag(S)
  BY DEF TypeOK, becomeCandidate
<1>2. \A x \in S : /\ x.kind = "vote" /\ x.round = r /\ x.from = i /\ x.Term = t
                   /\ x.to # i /\ x.at = "request"
  BY DEF RequestVotes
<1>3. \A x, y \in S : x.to = y.to => x = y
  BY DEF RequestVotes
<1> HIDE DEF S
<1>4. VoteCalls' = VoteCalls \cup S
  <2>1. UnderWay' = UnderWay \cup S
    BY <1>1, CallsChange
  <2> QED BY <1>2, <2>1 DEF VoteCalls
<1>5. \A x \in VoteCalls : x.round # r
  BY <1>1 DEF Single
<1>6. ASSUME NEW x \in VoteCalls' PROVE calls'[x] = 1
  <2>1. CASE x \in S
    <3>1. x \notin BagToSet(calls)
      BY <1>2, <1>5, <2>1 DEF VoteCalls, UnderWay
    <3> QED BY <1>1, <2>1, <3>1, BagAdds
  <2>2. CASE x \in VoteCalls /\ x \notin S
    <3>1. x \in BagToSet(calls) /\ calls[x] = 1
      BY <2>2 DEF Single, VoteCalls, UnderWay
    <3> QED BY <1>1, <2>2, <3>1, BagAdds
  <2> QED BY <1>4, <2>1, <2>2
<1>7. DOMAIN votes \subseteq DOMAIN votes' /\ r \in DOMAIN votes'
  BY <1>1
<1>8. \A x \in VoteCalls' : x.round \in DOMAIN votes' /\ x.from # x.to
  BY <1>2, <1>4, <1>7 DEF Single
<1>9. \A x, y \in VoteCalls' : x.round = y.round =>
         x.from = y.from /\ x.Term = y.Term /\ (x.to = y.to => x = y)
  BY <1>2, <1>3, <1>4, <1>5 DEF Single
<1>10. Single'
  BY <1>6, <1>8, <1>9 DEF Single
<1> QED BY <1>4, <1>5, <1>10 DEF S

\* becomeCandidate: the candidate's own vote joins the ballots.
LEMMA CandidateBallots ==
    ASSUME TypeOK, TypeOK', NEW W, Ballots(W), NEW i \in Server, becomeCandidate(i),
           \A j \in Server : Stands(j)
    PROVE  \E W1 : Ballots(W1)' /\ Casts(W, W1)
<1>1. W \subseteq Server \X Nat \X Server /\ OneVote(W) /\ Single /\ votes \in Seq(Nat)
  BY DEF Ballots, TypeOK
<1>2. PICK t : t = currentTerm[i] + 1
  OBVIOUS
<1>3. PICK r : r = Len(votes) + 1
  OBVIOUS
<1>4. PICK W1 : W1 = W \cup {<<i, t, i>>}
  OBVIOUS
<1>5. currentTerm[i] \in Nat /\ t \in Nat /\ currentTerm'[i] = t /\ votedFor'[i] = i
  BY <1>2, VoteTypes DEF becomeCandidate
<1>6. W \subseteq W1 /\ W1 \subseteq Server \X Nat \X Server
  BY <1>1, <1>4, <1>5
<1>7. \A x \in W : ~(x[1] = i /\ x[2] = t)
  BY <1>1, <1>2, <1>5 DEF Ballots, Remembered
<1>8. OneVote(W1)
  BY <1>1, <1>4, <1>7 DEF OneVote
<1>9. Remembered(W1)'
  <2>1. Remembered(W)'
    BY <1>1, RememberedStep DEF Ballots
  <2> DEFINE y == <<i, t, i>>
  <2>2. y[2] <= currentTerm'[y[1]] /\ votedFor'[y[1]] = y[3]
    BY <1>5
  <2>3. \A x \in W1 : x \in W \/ x = y
    BY <1>4
  <2> HIDE DEF y
  <2> QED BY <2>1, <2>2, <2>3 DEF Remembered
<1>10. PICK S : S = RequestVotes(i, t, r)
  OBVIOUS
<1>11. VoteCalls' = VoteCalls \cup S /\ Single' /\ \A x \in VoteCalls : x.round # r
  BY <1>1, <1>2, <1>3, <1>10, NewRound
<1>12. \A x \in S : x.round = r /\ x.from = i /\ x.Term = t /\ x.to # i /\ x.at = "request"
  BY <1>10 DEF RequestVotes
<1>13. UNCHANGED elected /\ votes' = Append(votes, 1)
  BY DEF becomeCandidate
<1>14. votes'[r] = 1 /\ \A q \in DOMAIN votes : votes'[q] = votes[q]
  BY <1>1, <1>3, <1>13
<1>15. Granted(W1)'
  BY <1>6, <1>11, <1>12 DEF Granted, Ballots
<1>16. Enough'
  BY <1>1, <1>11, <1>12, <1>14 DEF Enough, Ballots, Single
<1>17. Counted(W1)'
  <2> SUFFICES ASSUME NEW x \in VoteCalls'
               PROVE  votes'[x.round] <= Cardinality(Voters(W1, x.from, x.Term) \ Open(x.round)')
    BY DEF Counted
  <2>1. CASE x \in VoteCalls
    <3>1. x.round \in DOMAIN votes /\ x.round # r
      BY <1>1, <1>11, <2>1 DEF Single
    <3>2. \A y \in VoteCalls' : y.round = x.round => Follows(y)
      BY <1>11, <1>12, <3>1 DEF Follows, SameGoroutine
    <3> QED BY <1>1, <1>6, <1>14, <3>1, <3>2, CountedOne DEF Ballots
  <2>2. CASE x \in S
    <3> DEFINE T == Voters(W1, x.from, x.Term) \ Open(x.round)'
    <3>1. i \in Voters(W1, x.from, x.Term)
      BY <1>4, <1>12, <2>2 DEF Voters
    <3>2. i \notin Open(x.round)'
      BY <1>11, <1>12, <2>2 DEF Open
    <3>3. i \in T \ {} /\ T \in SUBSET Server /\ {} \in SUBSET T
      BY <3>1, <3>2 DEF Voters
    <3> HIDE DEF T
    <3>4. Cardinality({}) + 1 <= Cardinality(T)
      BY <3>3, Counting
    <3>5. 1 <= Cardinality(T)
      BY <3>4, FS_EmptySet
    <3> QED BY <1>12, <1>14, <2>2, <3>5 DEF T
  <2> QED BY <1>11, <2>1, <2>2
<1>18. Supported(W1)'
  BY <1>6, <1>13, SupportedKept DEF Ballots
<1>19. Ballots(W1)'
  BY <1>6, <1>8, <1>9, <1>11, <1>15, <1>16, <1>17, <1>18 DEF Ballots, OneVote
<1>20. Casts(W, W1)
  BY <1>2, <1>4 DEF Casts
<1> QED BY <1>19, <1>20

\* becomeLeader: a goroutine that runs in time makes its node leader of the
\* term that its round has counted a majority of votes for.
LEMMA LeaderBallots ==
    ASSUME ~LateWork, TypeOK, TypeOK', NEW W, Ballots(W), NEW c \in UnderWay, becomeLeader(c),
           \A j \in Server : Stands(j)
    PROVE  Ballots(W)'
<1>1. W \subseteq Server \X Nat \X Server /\ OneVote(W) /\ Single /\ votes \in Seq(Nat)
  BY DEF Ballots, TypeOK
<1>2. c \in VoteCalls /\ c.at = "lead" /\ Finish(c) /\ c.Term = currentTerm[c.from]
  BY DEF becomeLeader, InTime, VoteCalls
<1>3. elected' = elected \cup {<<c.from, c.Term>>} /\ UNCHANGED votes
  BY <1>2, Elected DEF becomeLeader
<1>4. /\ VoteCalls' \subseteq VoteCalls
      /\ \A x \in VoteCalls' : calls'[x] = calls[x]
  BY <1>1, VoteCallsFinish DEF Single, becomeLeader
<1>5. Remembered(W)'
  BY <1>1, RememberedStep DEF Ballots
<1>6. Single'
  BY <1>1, <1>3, <1>4 DEF Single
<1>7. Granted(W)' /\ Enough'
  BY <1>3, <1>4 DEF Ballots, Granted, Enough
<1>8. Counted(W)'
  <2>1. \A d \in VoteCalls' : Follows(d) /\ votes'[d.round] = votes[d.round]
    BY <1>3, <1>4 DEF Follows, SameGoroutine
  <2> QED BY <1>1, <2>1, CountedKept DEF Ballots
<1>9. Supported(W)'
  <2> DEFINE T == Voters(W, c.from, c.Term)
             S == T \ Open(c.round)
  <2>1. S \in SUBSET T /\ T \in SUBSET Server
    BY DEF Voters
  <2>2. votes[c.round] >= Majority /\ votes[c.round] <= Cardinality(S)
    BY <1>2 DEF Ballots, Enough, Counted
  <2>3. votes[c.round] \in Nat
    BY <1>1, <1>2 DEF Single
  <2> HIDE DEF S, T
  <2>4. Cardinality(T) >= Majority
    BY <2>1, <2>2, <2>3, Counting, Majorities
  <2>5. Cardinality(Voters(W, c.from, c.Term)) >= Majority
    BY <2>4 DEF T
  <2> SUFFICES ASSUME NEW e \in elected' PROVE Cardinality(Voters(W, e[1], e[2])) >= Majority
    BY DEF Supported
  <2>6. CASE e \in elected
    BY <2>6 DEF Ballots, Supported
  <2>7. CASE e = <<c.from, c.Term>>
    BY <2>5, <2>7
  <2> QED BY <1>3, <2>6, <2>7
<1> QED BY <1>1, <1>5, <1>6, <1>7, <1>8, <1>9 DEF Ballots, OneVote

-----------------------------------------------------------------------------
\* The inductive invariant behind election safety: until a process dies, there
\* is a set of votes that everything in the state agrees with.
ElectionInv ==
    /\ Started
    /\ NoLateStepDown
    /\ NoCrash => \E W : Ballots(W)

\* Nobody has voted in the initial state.
LEMMA InitBallots ==
    ASSUME Init
    PROVE  Ballots({})
BY InitFacts DEF Init, Ballots, OneVote, Remembered, Single, Granted, Counted, Enough,
                 Supported, VoteCalls

\* Ballots through a step in which no process dies.
LEMMA BallotsStep ==
    ASSUME ~LateWork, TypeOK, TypeOK', NoLateStepDown, Started', NoCrash', Next,
           NEW W, Ballots(W)
    PROVE  \E W1 : Ballots(W1)' /\ Casts(W, W1)
<1>1. \A i \in Server : Stands(i)
  BY VoteStep DEF Started, NoCrash
<1>2. ASSUME NEW i \in Server, Die(i) PROVE FALSE
  <2>1. ~alive'[i]
    BY <1>2 DEF Die, TypeOK
  <2> QED BY <2>1 DEF Started, NoCrash
<1>3. CASE VoteNeutral
  BY <1>1, <1>3, NeutralBallots DEF Casts
<1>4. ASSUME NEW i \in Server, becomeCandidate(i) PROVE \E W1 : Ballots(W1)' /\ Casts(W, W1)
  BY <1>1, <1>4, CandidateBallots
<1>5. ASSUME NEW c \in UnderWay, HandleRequestVote(c) PROVE \E W1 : Ballots(W1)' /\ Casts(W, W1)
  BY <1>1, <1>5, VoteBallots
<1>6. ASSUME NEW c \in UnderWay, VoteReply(c) PROVE \E W1 : Ballots(W1)' /\ Casts(W, W1)
  BY <1>1, <1>6, ReplyBallots DEF Casts
<1>7. ASSUME NEW c \in UnderWay, becomeLeader(c) PROVE \E W1 : Ballots(W1)' /\ Casts(W, W1)
  BY <1>1, <1>7, LeaderBallots DEF Casts
<1>8. Single
  BY DEF Ballots
<1> QED BY <1>2, <1>3, <1>4, <1>5, <1>6, <1>7, <1>8, VoteNeutralUnless

\* ElectionInv holds in every state of a timely execution.
LEMMA ElectionInvAlways == ~LateWork => (Spec => []ElectionInv)
<1> SUFFICES ASSUME ~LateWork PROVE Spec => []ElectionInv
  OBVIOUS
<1>1. Init => ElectionInv
  <2> SUFFICES ASSUME Init PROVE ElectionInv
    OBVIOUS
  <2>1. Started
    BY DEF Init, Started
  <2>2. NoLateStepDown
    BY InitFacts DEF NoLateStepDown
  <2> QED BY <2>1, <2>2, InitBallots DEF ElectionInv
<1>2. TypeOK /\ TypeOK' /\ ElectionInv /\ [Next]_vars => ElectionInv'
  <2>1. ASSUME ElectionInv, UNCHANGED vars PROVE ElectionInv'
    <3>1. VoteCalls' = VoteCalls /\ UNCHANGED <<votes, calls, currentTerm, votedFor, elected>>
      BY <2>1, Stutter DEF vars, VoteCalls
    <3>2. ASSUME NEW W, Ballots(W) PROVE Ballots(W)'
      BY <3>1, <3>2 DEF Ballots, OneVote, Remembered, Single, Granted, Counted, Enough,
                        Supported, Open
    <3>3. Started' /\ NoLateStepDown' /\ (NoCrash' => NoCrash)
      BY <2>1, Stutter DEF ElectionInv, Started, NoLateStepDown, NoCrash
    <3> QED BY <2>1, <3>2, <3>3 DEF ElectionInv
  <2>2. ASSUME TypeOK, TypeOK', ElectionInv, Next PROVE ElectionInv'
    <3>1. Started'
      BY <2>2, ProcessChange DEF ElectionInv, Started
    <3>2. NoLateStepDown'
      BY <2>2, NextFacts DEF CallFacts, NewCall, NoLateStepDown, ElectionInv
    <3>3. NoCrash' => NoCrash
      BY <2>2, ProcessChange DEF NoCrash
    <3>4. NoCrash' => \E W1 : Ballots(W1)'
      BY <2>2, <3>1, <3>3, BallotsStep DEF ElectionInv
    <3> QED BY <3>1, <3>2, <3>4 DEF ElectionInv
  <2> QED BY <2>1, <2>2
<1> QED BY <1>1, <1>2, TypeCorrect, PTL DEF Spec

\* When goroutines run before their node leaves their term, and until a process
\* dies, no two nodes become leader of one term (requestVotes, becomeLeader,
\* HandleRequestVote).  Both conditions are needed: the runs stale_vote and
\* restart_vote show what happens without them.
THEOREM ElectionSafetyInTime == ~LateWork => (Spec => [](NoCrash => ElectionSafety))
<1> SUFFICES ASSUME ~LateWork PROVE Spec => [](NoCrash => ElectionSafety)
  OBVIOUS
<1>1. TypeOK /\ ElectionInv => (NoCrash => ElectionSafety)
  BY SupportedMeansSafe DEF ElectionInv
<1> QED BY <1>1, TypeCorrect, ElectionInvAlways, PTL
=============================================================================
