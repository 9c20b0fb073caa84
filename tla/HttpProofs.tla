----------------------------- MODULE HttpProofs -----------------------------
(*****************************************************************************)
(* Proofs about the HTTP API: what the service does to the nodes, the nodes  *)
(* may do on their own, so that all that is proved of them holds under it;   *)
(* and a client is never sent back to the node that it asked.                *)
(*****************************************************************************)
EXTENDS HttpProperties, RaftLeadershipProofs

\* A request that waits for the second half of HandleSet.
LEMMA PendingType ==
    ASSUME NEW r \in SetRequest, r.at \in Pending
    PROVE  r.to \in Server /\ r.inc \in Nat /\ r.command \in Command
BY DEF SetRequest, Pending

\* A step of the service is a step of the nodes, or leaves them alone.
LEMMA NodesStep ==
    ASSUME HttpTypeOK, [HttpNext]_allVars
    PROVE  [Next]_vars
<1>1. CASE UNCHANGED allVars
  BY <1>1 DEF allVars
<1>2. ASSUME NEW c \in Client, NEW i \in Server, NEW command \in Command,
             IsLeader(c, i, command)
      PROVE  UNCHANGED vars
  BY <1>2 DEF IsLeader
<1>3. ASSUME NEW c \in Client, LeaderID(c) \/ ProposeRefused(c) \/ Reset(c)
      PROVE  UNCHANGED vars
  BY <1>3, Zenon DEF LeaderID, ProposeRefused, Reset
<1>4. ASSUME NEW c \in Client, ProposeAccepted(c) PROVE Next
  <2>1. request[c].to \in Server /\ request[c].command \in Command
    BY <1>4, PendingType DEF ProposeAccepted, Served, HttpTypeOK
  <2>2. Propose(request[c].to, request[c].command)
    BY <1>4 DEF ProposeAccepted
  <2> QED BY <2>1, <2>2, Zenon DEF Next, Replication
<1>5. ASSUME NEW c \in UnderWay, CallLost(c) \/ CallTooLate(c) PROVE Next
  BY <1>5, Zenon DEF CallLost, CallTooLate, Next, Failure
<1>6. CASE Nodes
  <2>1. \A i \in Mortal : i \in Server
    BY HttpAssumption
  <2> QED BY <1>5, <1>6, <2>1, Zenon DEF Nodes, Next, Failure
<1> QED BY <1>1, <1>2, <1>3, <1>4, <1>5, <1>6 DEF HttpNext, Http, HandleSet

\* A step changes the request of one client at most, and to a request.
LEMMA RequestsTyped ==
    ASSUME TypeOK, HttpTypeOK, [HttpNext]_allVars
    PROVE  HttpTypeOK'
<1>1. ASSUME NEW c \in Client, NEW r \in SetRequest, request' = [request EXCEPT ![c] = r]
      PROVE  request' \in [Client -> SetRequest]
  BY <1>1 DEF HttpTypeOK
<1>2. CASE UNCHANGED httpVars
  BY <1>2 DEF httpVars, HttpTypeOK
<1>3. ASSUME NEW c \in Client, NEW i \in Server, NEW command \in Command,
             IsLeader(c, i, command)
      PROVE  HttpTypeOK'
  <2> DEFINE r == [at |-> IF state[i] = Leader THEN "Propose" ELSE "LeaderID",
                   to |-> i, inc |-> incarnation[i], command |-> command]
  <2>1. incarnation[i] \in Nat
    BY DEF TypeOK
  <2>2. r \in SetRequest
    BY <2>1 DEF SetRequest, Pending
  <2>3. request' = [request EXCEPT ![c] = r] /\ lost' = lost
    BY <1>3 DEF IsLeader
  <2> HIDE DEF r
  <2> QED BY <1>1, <2>2, <2>3 DEF HttpTypeOK
<1>4. ASSUME NEW c \in Client, LeaderID(c) PROVE HttpTypeOK'
  <2> DEFINE r == [at |-> "redirected", to |-> request[c].to,
                   leaderID |-> leaderID[request[c].to]]
  <2>1. request[c].to \in Server
    BY <1>4, PendingType DEF LeaderID, Served, HttpTypeOK
  <2>2. leaderID[request[c].to] \in Server \cup {Nil}
    BY <2>1 DEF TypeOK
  <2>3. r \in SetRequest
    BY <2>1, <2>2 DEF SetRequest
  <2>4. request' = [request EXCEPT ![c] = r] /\ lost' = lost
    BY <1>4 DEF LeaderID
  <2> HIDE DEF r
  <2> QED BY <1>1, <2>3, <2>4 DEF HttpTypeOK
<1>5. ASSUME NEW c \in Client, ProposeAccepted(c) \/ ProposeRefused(c) \/ Reset(c)
      PROVE  HttpTypeOK'
  <2>1. PICK at \in {"proposed", "refused", "lost"} :
           request' = [request EXCEPT ![c] = [at |-> at]] /\ lost' = lost
    BY <1>5 DEF ProposeAccepted, ProposeRefused, Reset
  <2>2. [at |-> at] \in SetRequest
    BY DEF SetRequest
  <2> QED BY <1>1, <2>1, <2>2 DEF HttpTypeOK
<1>6. ASSUME NEW c \in UnderWay, CallLost(c) PROVE HttpTypeOK'
  BY <1>6 DEF CallLost, HttpTypeOK
<1> QED BY <1>2, <1>3, <1>4, <1>5, <1>6 DEF HttpNext, Http, HandleSet, allVars

\* The requests and the nodes under them are well formed: HandleSet answers
\* with an id of a node or with none (HandleSet:40-49).
THEOREM HttpTypeCorrect == HttpSpec => [](TypeOK /\ HttpTypeOK)
<1>1. HttpInit => TypeOK /\ HttpTypeOK
  <2>1. [at |-> "new"] \in SetRequest
    BY DEF SetRequest
  <2> QED BY <2>1, InitFacts DEF HttpInit, HttpTypeOK
<1>2. TypeOK /\ HttpTypeOK /\ [HttpNext]_allVars => (TypeOK /\ HttpTypeOK)'
  <2> SUFFICES ASSUME TypeOK, HttpTypeOK, [HttpNext]_allVars
               PROVE  TypeOK' /\ HttpTypeOK'
    OBVIOUS
  <2>1. UNCHANGED vars => TypeOK'
    BY DEF vars, electionVars, timerVars, leaderVars, loopVars, processVars, TypeOK, UnderWay
  <2>2. TypeOK'
    BY <2>1, NodesStep, TypeStep
  <2> QED BY <2>2, RequestsTyped
<1> QED BY <1>1, <1>2, PTL DEF HttpSpec

\* Under the HTTP API the nodes behave as Raft says: what is proved of Spec
\* holds of the service (HandleSet calls Propose and nothing else that changes
\* a node; main.go:70-73).
THEOREM ServiceImplementsRaft == HttpSpec => Spec
<1>1. HttpInit => Init
  BY DEF HttpInit
<1>2. HttpTypeOK /\ [HttpNext]_allVars => [Next]_vars
  BY NodesStep
<1> QED BY <1>1, <1>2, HttpTypeCorrect, PTL DEF HttpSpec, Spec

-----------------------------------------------------------------------------
\* No node's leader hint is the node itself, and no node sends AppendEntries to
\* itself (heartBeatLoop skips r.id).
NoSelfHint ==
    /\ \A i \in Server : leaderID[i] # i
    /\ \A c \in UnderWay : Carries(c) => c.from # c.to

\* A call goes on between the same two nodes.
LEMMA SentEnds ==
    ASSUME TypeOK, NEW c \in UnderWay, c.kind = "append", c.at = "spawned", NEW seen
    PROVE  Sent(c, seen).from = c.from /\ Sent(c, seen).to = c.to
<1>1. c \in AppendEntriesCall
  BY CallKind DEF TypeOK
<1>2. \A a, b, e : /\ [c EXCEPT !.at = a, !.LeaderCommit = b, !.Entries = e].from = c.from
                   /\ [c EXCEPT !.at = a, !.LeaderCommit = b, !.Entries = e].to = c.to
  BY <1>1 DEF AppendEntriesCall
<1> QED BY <1>2 DEF Sent

\* A step of the nodes gives no node itself as its leader.
LEMMA NoSelfHintStep ==
    ASSUME TypeOK, NoSelfHint, [Next]_vars
    PROVE  NoSelfHint'
<1>1. CASE UNCHANGED vars
  BY <1>1, Stutter DEF NoSelfHint
<1>2. CASE Next
  <2>1. ASSUME NEW i \in Server PROVE leaderID'[i] # i
    <3>1. CASE leaderID'[i] \in {leaderID[i], Nil}
      BY <3>1, ServerAssumption DEF NoSelfHint
    <3>2. ASSUME NEW c \in UnderWay, c.kind = "append", c.at = "request", c.to = i,
                 leaderID'[i] = c.from
          PROVE  leaderID'[i] # i
      BY <3>2 DEF NoSelfHint, Carries
    <3> QED BY <1>2, <3>1, <3>2, CalmUnlessElected, Elected DEF Calm
  <2>2. ASSUME NEW d \in UnderWay', Carries(d) PROVE d.from # d.to
    <3>1. CASE d \in UnderWay
      BY <2>2, <3>1 DEF NoSelfHint
    <3>2. ASSUME NEW i \in Server, NEW p \in Server \ {i}, d = AppendFor(i, p)
          PROVE  d.from # d.to
      BY <3>2 DEF AppendFor
    <3>3. ASSUME NEW c \in UnderWay, SendAppendEntries(c), NEW seen, d = Sent(c, seen)
          PROVE  d.from # d.to
      <4>1. c.kind = "append" /\ c.at = "spawned"
        BY <3>3 DEF SendAppendEntries
      <4>2. c.from # c.to
        BY <4>1 DEF NoSelfHint, Carries
      <4> QED BY <3>3, <4>1, <4>2, SentEnds
    <3> QED BY <1>2, <2>2, <3>1, <3>2, <3>3, NewAppend
  <2> QED BY <2>1, <2>2 DEF NoSelfHint
<1> QED BY <1>1, <1>2

\* A client that is told to try another node is never sent back to the node
\* that it asked: whatever the order of elections, late calls, crashes and the
\* two locked parts of HandleSet (HandleSet:41, HandleAppendEntries:335).
THEOREM RedirectedElsewhereAlways == HttpSpec => []RedirectedElsewhere
<1>1. HttpInit => NoSelfHint /\ RedirectedElsewhere
  BY InitFacts, ServerAssumption DEF HttpInit, Init, NoSelfHint, RedirectedElsewhere
<1>2. /\ TypeOK /\ HttpTypeOK /\ NoSelfHint /\ RedirectedElsewhere /\ [HttpNext]_allVars
      => (NoSelfHint /\ RedirectedElsewhere)'
  <2> SUFFICES ASSUME TypeOK, HttpTypeOK, NoSelfHint, RedirectedElsewhere, [HttpNext]_allVars
               PROVE  NoSelfHint' /\ RedirectedElsewhere'
    OBVIOUS
  <2>1. NoSelfHint'
    BY NodesStep, NoSelfHintStep
  <2>2. ASSUME UNCHANGED request PROVE RedirectedElsewhere'
    BY <2>2 DEF RedirectedElsewhere
  <2>3. ASSUME NEW c \in Client, NEW r, request' = [request EXCEPT ![c] = r],
               r.at = "redirected" => r.leaderID # r.to
        PROVE  RedirectedElsewhere'
    BY <2>3 DEF RedirectedElsewhere, HttpTypeOK
  <2>4. ASSUME NEW c \in Client, LeaderID(c) PROVE RedirectedElsewhere'
    <3> DEFINE i == request[c].to
               r == [at |-> "redirected", to |-> i, leaderID |-> leaderID[i]]
    <3>1. i \in Server
      BY <2>4, PendingType DEF LeaderID, Served, HttpTypeOK
    <3>2. leaderID[i] # i
      BY <3>1 DEF NoSelfHint
    <3>3. request' = [request EXCEPT ![c] = r] /\ r.leaderID # r.to
      BY <2>4, <3>2 DEF LeaderID
    <3> HIDE DEF r
    <3> QED BY <2>3, <3>3
  <2>5. ASSUME NEW c \in Client, NEW i \in Server, NEW command \in Command,
               IsLeader(c, i, command)
        PROVE  RedirectedElsewhere'
    <3> DEFINE r == [at |-> IF state[i] = Leader THEN "Propose" ELSE "LeaderID",
                     to |-> i, inc |-> incarnation[i], command |-> command]
    <3>1. request' = [request EXCEPT ![c] = r] /\ r.at # "redirected"
      BY <2>5 DEF IsLeader
    <3> HIDE DEF r
    <3> QED BY <2>3, <3>1
  <2>6. ASSUME NEW c \in Client, ProposeAccepted(c) \/ ProposeRefused(c) \/ Reset(c)
        PROVE  RedirectedElsewhere'
    <3>1. PICK at \in {"proposed", "refused", "lost"} : request' = [request EXCEPT ![c] = [at |-> at]]
      BY <2>6 DEF ProposeAccepted, ProposeRefused, Reset
    <3> QED BY <2>3, <3>1
  <2>7. RedirectedElsewhere'
    BY <2>2, <2>4, <2>5, <2>6 DEF HttpNext, Http, HandleSet, CallLost, httpVars, allVars
  <2> QED BY <2>1, <2>7
<1> QED BY <1>1, <1>2, HttpTypeCorrect, PTL DEF HttpSpec

=============================================================================
