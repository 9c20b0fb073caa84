--------------------------- MODULE RaftProperties ---------------------------
(***************************************************************************)
(* What the Raft node of jin-kv is meant to guarantee.  Which of these     *)
(* hold depends on what may happen: whether a goroutine can outlive the    *)
(* term it was started in (LateWork), whether processes crash and whether  *)
(* the log is compacted.  The runs say which holds where.                  *)
(***************************************************************************)
EXTENDS Raft

\* Every field of struct Raft, both files and every RPC keep their types; in
\* particular no uint64 goes below zero (nextIndex, which is decremented).
TypeOK ==
    /\ currentTerm \in [Server -> Nat]
    /\ votedFor \in [Server -> Server \cup {Nil}]
    /\ state \in [Server -> {Follower, Candidate, Leader}]
    /\ leaderID \in [Server -> Server \cup {Nil}]
    /\ armed \in [Server -> BOOLEAN]
    /\ electing \in [Server -> BOOLEAN]
    /\ node \in [Server -> Node]
    /\ nextIndex \in [Server -> [Server -> Nat]]
    /\ matchIndex \in [Server -> [Server -> Nat]]
    /\ leaderGeneration \in [Server -> Nat]
    /\ loops \in [Server -> SUBSET Nat]
    /\ votes \in Seq(Nat)
    /\ UnderWay \subseteq Call
    /\ alive \in [Server -> BOOLEAN]
    /\ incarnation \in [Server -> Nat]
    /\ elected \subseteq Server \X Nat

-----------------------------------------------------------------------------
(* Elections.                                                              *)

\* Two nodes never become leader of one term, at whatever times their
\* becomeLeader runs (requestVotes, becomeLeader, HandleRequestVote).
ElectionSafety ==
    \A e, f \in elected : e[2] = f[2] => e[1] = f[1]

\* While a process runs, its term never goes back and a vote given in a term
\* is never taken back or given to another candidate (HandleRequestVote,
\* HandleAppendEntries and the three places that step down).
VotesStand ==
    [][\A i \in Server :
          alive'[i] =>
             /\ currentTerm[i] <= currentTerm'[i]
             /\ (currentTerm[i] = currentTerm'[i] /\ votedFor[i] # Nil)
                    => votedFor'[i] = votedFor[i]]_vars

\* A leader gives up its leadership only to a newer term or by dying: no RPC
\* of its own term makes it a follower (HandleAppendEntries:327,
\* HandleInstallSnapshot:776).
LeaderKeepsTerm ==
    [][\A i \in Server :
          (state[i] = Leader /\ alive'[i] /\ currentTerm'[i] = currentTerm[i])
              => state'[i] = Leader]_vars

\* A leader always has the heartbeat loop of its present generation running,
\* through any number of elections won, lost and won again: an older loop
\* that ends does not silence it (becomeLeader, heartBeatLoop:603).
LeaderBeats ==
    \A i \in Server : state[i] = Leader => leaderGeneration[i] \in loops[i]

\* The node that LeaderID() names to a client has at some time won an
\* election, also after restarts and late messages (HandleAppendEntries:335).
LeaderHintWasElected ==
    \A i \in Server : leaderID[i] # Nil => \E e \in elected : e[1] = leaderID[i]

\* A running node whose election timer has stopped without an election, and
\* that does not lead, has led before: only the tick that a leader swallows
\* leaves a node waiting for others to call it (electionLoop:460).
IdleWasLeader ==
    \A i \in Server :
        (alive[i] /\ ~armed[i] /\ ~electing[i]) => \E e \in elected : e[1] = i

-----------------------------------------------------------------------------
(* The replicated log.                                                     *)

BothHave(i, j, k) == HasEntry(node[i], k) /\ HasEntry(node[j], k)

SameEntry(i, j, k) == EntryAt(node[i], k) = EntryAt(node[j], k)

\* Where two logs hold an entry of the same index and term, they agree on
\* every earlier index that both still hold (the consistency check, the
\* truncation and the gap check of HandleAppendEntries).
LogMatching ==
    \A i, j \in Server : \A k \in 1 .. MaxIndex :
        (/\ BothHave(i, j, k)
         /\ EntryAt(node[i], k).Term = EntryAt(node[j], k).Term)
            => \A m \in 1 .. k : BothHave(i, j, m) => SameEntry(i, j, m)

\* A leader holds, or has compacted, every entry that a node of no newer term
\* has marked committed (requestVotes, isCandidateLogUpToDate,
\* tryAdvanceCommitIndex).
LeaderCompleteness ==
    \A i, j \in Server :
        (state[i] = Leader /\ currentTerm[i] >= currentTerm[j]) =>
            \A k \in node[i].logOffset + 1 .. node[j].commitIndex :
                HasEntry(node[j], k) => HasEntry(node[i], k) /\ SameEntry(i, j, k)

\* Nodes that have applied the same number of entries hold the same data,
\* whether they applied them one by one or restored a snapshot.
StateMachineSafety ==
    \A i, j \in Server :
        node[i].lastApplied = node[j].lastApplied => node[i].data = node[j].data

\* The heartbeat of a leader never slices its log out of range, whatever
\* ConflictIndex a follower answered with (heartBeatLoop:644).
NextIndexInLog ==
    \A i, p \in Server : state[i] = Leader => ~OutOfRange(i, p)

\* As long as no process has restarted, r.log[p] has index logOffset + p + 1,
\* through truncations, compactions, installed snapshots and late messages:
\* what toSlicePos takes for granted (raft.go:75).
LogContiguous ==
    (\A j \in Server : incarnation[j] = 0) =>
        \A i \in Server : \A p \in DOMAIN node[i].log :
            node[i].log[p].Index = node[i].logOffset + p

\* The log in memory starts right after the snapshot on disk, the state
\* machine is never behind the snapshot, and where it stands at the snapshot
\* it holds the snapshot's data: a restart, which begins there, leaves no hole
\* (maybeSnapshot, compactLog, HandleInstallSnapshot, loadPersistedState).
SnapshotMeetsLog ==
    \A i \in Server : alive[i] =>
        /\ node[i].snapshot.index = node[i].logOffset
        /\ node[i].logOffset <= node[i].lastApplied
        /\ node[i].lastApplied = node[i].logOffset
              => node[i].data = node[i].snapshot.data

\* Every entry, in memory or in a WAL, is of a term in which some node was
\* elected: a request that passed IsLeader adds nothing when its node has
\* lost the leadership before Propose (httpapi.go:40-51, Propose:741).
EntriesFromLeaders ==
    \A i \in Server :
        \A s \in {node[i].log, node[i].wal} : \A p \in DOMAIN s :
            \E e \in elected : e[2] = s[p].Term

\* An entry of a leader's own term that a majority of the nodes holds, the
\* leader included, is committed (tryAdvanceCommitIndex:466).
MajorityCommits ==
    \A i \in Server : state[i] = Leader =>
        \A k \in 1 .. LastIndex(node[i]) :
            (/\ HasEntry(node[i], k)
             /\ EntryAt(node[i], k).Term = currentTerm[i]
             /\ Cardinality({p \in Server : p = i \/ matchIndex[i][p] >= k}) >= Majority)
                => node[i].commitIndex >= k

=============================================================================
