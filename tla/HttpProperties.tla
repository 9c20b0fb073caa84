--------------------------- MODULE HttpProperties ---------------------------
(***************************************************************************)
(* What clients of jin-kv can rely on, and what must eventually happen     *)
(* once faults have stopped.                                               *)
(***************************************************************************)
EXTENDS HttpApi, RaftProperties

\* A request is at one of the places of HandleSet, at a node it was sent to.
HttpTypeOK ==
    /\ request \in [Client -> SetRequest]
    /\ lost \in Nat

\* A client that is told to try another node is never sent back to the node
\* that it asked, however often that node led before (HandleSet:41,
\* HandleAppendEntries:335, HandleInstallSnapshot).
RedirectedElsewhere ==
    \A c \in Client :
        request[c].at = "redirected" => request[c].leaderID # request[c].to

\* Every request is answered, or its process dies under it.  (The model stops
\* proposals at MaxIndex.)
Answered ==
    \A c \in Client :
        []<>(\/ request[c].at \notin Pending
             \/ LastIndex(node[request[c].to]) >= MaxIndex)

\* A heartbeat loop ends after its node has lost the leadership, also if the
\* node has won it again before the next tick: in the end only a leader has
\* one, and it has one (heartBeatLoop:603).
OldLoopsEnd ==
    []<>(\A i \in Server : loops[i] = IF state[i] = Leader THEN {leaderGeneration[i]}
                                    ELSE {})

\* All that the leader has in its log has been applied by everyone.
Converged(i) ==
    \A j \in Server : /\ node[j].lastApplied = LastIndex(node[i])
                      /\ node[j].commitIndex = LastIndex(node[i])
                      /\ node[j].data = node[i].data

\* When a node leads for good and faults are over, everything proposed to it
\* is replicated, committed and applied on every node, whatever crashes,
\* lost calls and elections have left behind (heartBeatLoop,
\* HandleAppendEntries, tryAdvanceCommitIndex).
Convergence ==
    \A i \in Server : <>[](state[i] = Leader) => <>[]Converged(i)

=============================================================================
