------------------------------- MODULE MCRaft -------------------------------
(***************************************************************************)
(* The Raft node for TLC.                                                  *)
(***************************************************************************)
EXTENDS RaftProperties, TLC

Symmetry == Permutations(Server)

\* A vote call that cannot change anything but its own round's counter: its
\* goroutine will not run, or the election is decided.
Spent(c) ==
    /\ c.kind = "vote"
    /\ \/ ~InTime(c) /\ (c.at = "request" => c.Term < currentTerm[c.to])
       \/ /\ c.at = "reply" /\ state[c.from] # Candidate
          /\ c.replyTerm <= currentTerm[c.from]

\* Two states are one for TLC when they differ only in what no later step and
\* no property can see.  Without late goroutines and crashes that is: the
\* leader bookkeeping of a node that does not lead, a loop about to end, spent
\* vote calls and the counters of their rounds, the timers after the last
\* election, and leaderID, which no step reads.
LiveState ==
    IF LateWork \/ MaxCrashes > 0 THEN vars
    ELSE <<electionVars, electing,
           [i \in Server |-> armed[i] \/ ~MayElect],
           node,
           [i \in {j \in Server : state[j] = Leader} |->
               <<nextIndex[i], matchIndex[i], leaderGeneration[i] \in loops[i]>>],
           Len(votes),
           [c \in {d \in UnderWay : ~Spent(d)} |->
               <<calls[c], IF c.kind = "vote" THEN votes[c.round] ELSE 0>>],
           processVars, elected>>

\* Part of the executions, for the search of a long one: elections come one
\* after the other, the first leader reaches nobody before the second is
\* elected, no snapshot is under way and nobody steps down on a reply.
OneAfterTheOther ==
    /\ Len(votes) = 2 => elected # {}
    /\ \A i, j \in Server : electing[i] /\ electing[j] => i = j
    /\ \A c \in UnderWay : /\ c.kind = "append" => Cardinality(elected) = 2
                           /\ c.kind # "snapshot"
                           /\ c.at # "stepdown"

=============================================================================
