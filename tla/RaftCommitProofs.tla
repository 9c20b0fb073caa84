------------------------- MODULE RaftCommitProofs --------------------------
(***************************************************************************)
(* What is committed stays.  In undisturbed executions a leader has every  *)
(* entry that is committed, and nodes that have applied the same number of *)
(* entries hold the same data.                                             *)
(*                                                                         *)
(* The argument is Raft's, for the rules of this code.  Beside the votes W *)
(* and the logs H of the leaders there is a third history, the set A of    *)
(* <<p, t, m>> such that node p, in term t, has had the first m entries of *)
(* the leader of t and nothing else.  An entry of a leader's own term is   *)
(* committed when a majority stands for it in A.  A node that is in A for  *)
(* an entry has it, or a later leader did not; and it votes only for a     *)
(* node of which this is true as well.                                     *)
(***************************************************************************)
EXTENDS RaftReplicationProofs

-----------------------------------------------------------------------------
(* Entries and terms.                                                      *)

\* The k-th entry of s is of term t.
Has(s, t, k) == k \in DOMAIN s /\ s[k].Term = t

\* A leader between t and u did not have the k-th entry of term t.
Lost(H, t, k, u) ==
    \E v \in Nat : t < v /\ v < u /\ H[v] # <<>> /\ ~Has(H[v], t, k)

\* Terms do not fall along a leader's log, and it ends in an entry of its own.
Rising(H) ==
    \A t \in Nat : H[t] # <<>> =>
        /\ H[t][Len(H[t])].Term = t
        /\ \A q, r \in DOMAIN H[t] : q <= r => H[t][q].Term <= H[t][r].Term

LogTerms == \A i \in Server : \A k \in DOMAIN node[i].log : node[i].log[k].Term <= currentTerm[i]

\* The last position of a log.
LEMMA LastPosition ==
    ASSUME NEW s \in Seq(Entry)
    PROVE  /\ s # <<>> <=> Len(s) \in DOMAIN s
           /\ s # <<>> <=> Len(s) >= 1
           /\ \A k \in DOMAIN s : s # <<>> /\ k <= Len(s)
<1>1. Len(s) \in Nat /\ DOMAIN s = 1 .. Len(s)
  BY LogElements
<1>2. s = <<>> <=> Len(s) = 0
  BY EmptySeq
<1> QED BY <1>1, <1>2

\* No entry of a leader's log is newer than the leader.
LEMMA RisingBound ==
    ASSUME NEW H \in [Nat -> Seq(Entry)], Rising(H), NEW t \in Nat, NEW q \in DOMAIN H[t]
    PROVE  H[t][q].Term <= t
<1>1. H[t] \in Seq(Entry)
  OBVIOUS
<1>2. H[t] # <<>> /\ Len(H[t]) \in DOMAIN H[t] /\ q <= Len(H[t])
  BY <1>1, LastPosition
<1> QED BY <1>2 DEF Rising

\* The same for a log that agrees with it.
LEMMA AgreeBound ==
    ASSUME NEW H \in [Nat -> Seq(Entry)], Rising(H), NEW t \in Nat, NEW m \in Seq(Entry),
           Agree(m, H[t], Len(m)), NEW k \in DOMAIN m
    PROVE  m[k].Term <= t
<1>1. PICK f \in Seq(Entry) : f = H[t]
  OBVIOUS
<1>2. Len(m) \in Nat /\ k \in 1 .. Len(m) /\ Len(f) \in Nat /\ DOMAIN f = 1 .. Len(f)
  BY LogElements
<1>3. Len(m) <= Len(f) /\ \A q \in 1 .. Len(m) : m[q] = f[q]
  BY <1>1 DEF Agree
<1>4. k \in DOMAIN f /\ m[k] = f[k]
  BY <1>2, <1>3
<1> QED BY <1>1, <1>4, RisingBound

\* Along any log that comes from leaders terms do not fall, and all of it was
\* in the log of the leader of its last entry.
LEMMA RisingLog ==
    ASSUME NEW H \in [Nat -> Seq(Entry)], Rising(H), NEW s \in Seq(Entry), Traced(H, s), s # <<>>
    PROVE  LET t == s[Len(s)].Term
           IN  /\ Len(s) \in DOMAIN s /\ t \in Nat /\ Agree(s, H[t], Len(s)) /\ H[t] # <<>>
               /\ \A q, r \in DOMAIN s : q <= r => s[q].Term <= s[r].Term
<1>1. Len(s) \in DOMAIN s /\ Len(s) \in Nat /\ DOMAIN s = 1 .. Len(s) /\ Len(s) >= 1
  BY LastPosition, LogElements
<1>2. PICK t \in Nat : t = s[Len(s)].Term
  BY <1>1, LogElements
<1>3. Agree(s, H[t], Len(s))
  BY <1>1, <1>2 DEF Traced
<1>4. H[t] \in Seq(Entry) /\ Len(H[t]) \in Nat /\ DOMAIN H[t] = 1 .. Len(H[t])
  BY LogElements
<1>5. Len(s) <= Len(H[t]) /\ \A q \in DOMAIN s : q \in DOMAIN H[t] /\ s[q] = H[t][q]
  <2>1. Len(s) <= Len(H[t]) /\ \A q \in 1 .. Len(s) : s[q] = H[t][q]
    BY <1>3 DEF Agree
  <2>2. \A q \in 1 .. Len(s) : q \in 1 .. Len(H[t])
    BY <1>1, <1>4, <2>1, Below
  <2> QED BY <1>1, <1>4, <2>1, <2>2, Zenon
<1>6. H[t] # <<>>
  BY <1>1, <1>4, <1>5, LastPosition
<1>7. \A q, r \in DOMAIN s : q <= r => s[q].Term <= s[r].Term
  BY <1>5, <1>6 DEF Rising
<1> QED BY <1>1, <1>2, <1>3, <1>6, <1>7

\* What a log holds, one that starts with it does, too.
LEMMA HasGrows ==
    ASSUME NEW r \in Seq(Entry), NEW s \in Seq(Entry), Grows(r, s), NEW t, NEW k, Has(r, t, k)
    PROVE  Has(s, t, k)
<1>1. /\ Len(r) \in Nat /\ DOMAIN r = 1 .. Len(r) /\ Len(s) \in Nat /\ DOMAIN s = 1 .. Len(s)
  BY LogElements
<1> QED BY <1>1 DEF Has, Grows

\* An entry of a longer log that a shorter one reaches.
LEMMA HasBack ==
    ASSUME NEW H \in [Nat -> Seq(Entry)], NEW G \in [Nat -> Seq(Entry)],
           \A v \in Nat : Grows(H[v], G[v]),
           NEW t \in Nat, NEW k, Has(G[t], t, k), k <= Len(H[t])
    PROVE  Has(H[t], t, k)
<1>1. /\ Len(H[t]) \in Nat /\ DOMAIN H[t] = 1 .. Len(H[t])
      /\ Len(G[t]) \in Nat /\ DOMAIN G[t] = 1 .. Len(G[t])
  BY LogElements
<1>2. k \in 1 .. Len(H[t]) /\ G[t][k].Term = t
  BY <1>1 DEF Has
<1>3. G[t][k] = H[t][k]
  BY <1>2 DEF Grows
<1> QED BY <1>1, <1>2, <1>3 DEF Has

\* A leader that does not have an entry of an older term never will.
LEMMA LostGrows ==
    ASSUME NEW H \in [Nat -> Seq(Entry)], NEW G \in [Nat -> Seq(Entry)], Rising(H), Rising(G),
           \A t \in Nat : Grows(H[t], G[t]),
           NEW t \in Nat, NEW k, NEW u \in Nat, NEW w \in Nat, u <= w, Lost(H, t, k, u)
    PROVE  Lost(G, t, k, w)
<1>1. PICK v \in Nat : t < v /\ v < u /\ H[v] # <<>> /\ ~Has(H[v], t, k)
  BY DEF Lost
<1>2. /\ H[v] \in Seq(Entry) /\ G[v] \in Seq(Entry)
      /\ Len(H[v]) \in Nat /\ DOMAIN H[v] = 1 .. Len(H[v])
      /\ Len(G[v]) \in Nat /\ DOMAIN G[v] = 1 .. Len(G[v])
  BY LogElements
<1>3. Len(H[v]) <= Len(G[v]) /\ \A q \in 1 .. Len(H[v]) : G[v][q] = H[v][q]
  BY DEF Grows
<1>4. Len(H[v]) >= 1 /\ H[v][Len(H[v])].Term = v
  BY <1>1, <1>2, LastPosition DEF Rising
<1>5. Len(H[v]) \in DOMAIN G[v] /\ G[v][Len(H[v])].Term = v /\ G[v] # <<>>
  <2>1. Len(H[v]) \in 1 .. Len(H[v]) /\ Len(H[v]) \in 1 .. Len(G[v])
    BY <1>2, <1>3, <1>4
  <2>2. G[v][Len(H[v])] = H[v][Len(H[v])] /\ Len(H[v]) \in DOMAIN G[v]
    BY <1>2, <1>3, <2>1, Zenon
  <2> QED BY <1>2, <1>4, <2>2, LastPosition
<1>6. ~Has(G[v], t, k)
  <2> SUFFICES ASSUME Has(G[v], t, k) PROVE FALSE
    OBVIOUS
  <2>1. k \in 1 .. Len(G[v]) /\ G[v][k].Term = t
    BY <1>2 DEF Has
  <2>2. CASE k <= Len(H[v])
    <3>1. k \in 1 .. Len(H[v])
      BY <1>2, <2>1, <2>2
    <3> QED BY <1>1, <1>2, <1>3, <2>1, <3>1 DEF Has
  <2>3. CASE ~(k <= Len(H[v]))
    <3>1. Len(H[v]) <= k
      BY <1>2, <2>1, <2>3
    <3>2. v <= t
      BY <1>2, <1>5, <2>1, <3>1 DEF Rising
    <3> QED BY <1>1, <3>2
  <2> QED BY <2>2, <2>3
<1>7. v < w
  BY <1>1
<1> QED BY <1>1, <1>5, <1>6, <1>7 DEF Lost

\* The request c changes the log of p: what agrees with the leader's log
\* stays, and the rest is cut off or comes from the leader.
Moves(H, p, c) ==
    LET r == node[p].log
        m == node'[p].log
        s == H[c.Term]
    IN  /\ c \in UnderWay /\ FollowAppend(c) /\ c.to = p
        /\ currentTerm'[p] = c.Term /\ currentTerm[p] <= c.Term
        /\ \A x \in Nat : Agree(r, s, x) => Agree(m, s, x)
        /\ Agree(m, r, Len(m)) \/ Agree(m, s, Len(m))

\* How a log moves.
LEMMA LogMoves ==
    ASSUME Stepping, NEW H, MatchInv(H), NEW p \in Server
    PROVE  \/ node'[p].log = node[p].log
           \/ state'[p] = Leader /\ Grows(node[p].log, node'[p].log)
           \/ \E c : Moves(H, p, c)
<1>0. Undisturbed /\ Known /\ UndisturbedInv /\ Next /\ TypeOK
  BY DEF Stepping, Known
<1>1. node[p].log \in Seq(Entry) /\ node'[p].log \in Seq(Entry)
  BY DEF Stepping, Known, TypeOK, Node
<1>2. ASSUME NEW c \in UnderWay, FollowAppend(c), c.to = p
      PROVE  currentTerm'[p] = c.Term /\ currentTerm[p] <= c.Term
  BY <1>0, <1>2 DEF FollowAppend, FollowLeader, TypeOK
<1>3. ASSUME NEW c \in UnderWay, NEW k, FollowAppend(c), c.to = p, Cuts(c, k),
             node'[p].log = SubSeq(node[p].log, 1, toSlicePos(node[p], c.Entries[k].Index))
      PROVE  Moves(H, p, c)
  <2>1. /\ Agree(node'[p].log, node[p].log, Len(node'[p].log))
        /\ \A x \in Nat : Agree(node[p].log, H[c.Term], x) => Agree(node'[p].log, H[c.Term], x)
    BY <1>0, <1>3, CutLog
  <2> QED BY <1>2, <1>3, <2>1 DEF Moves
<1>4. ASSUME NEW c \in UnderWay, NEW k, FollowAppend(c), c.to = p, Accepts(c, k),
             node'[p].log = StoreEntries(node[p], c.Entries, k).log,
             node'[p].log # node[p].log
      PROVE  Moves(H, p, c)
  <2>1. /\ Agree(node'[p].log, H[c.Term], Len(node'[p].log))
        /\ \A x \in Nat : Agree(node[p].log, H[c.Term], x) => Agree(node'[p].log, H[c.Term], x)
    BY <1>0, <1>1, <1>4, AcceptedLog
  <2> QED BY <1>2, <1>4, <2>1 DEF Moves
<1>5. state'[p] = Leader => Grows(node[p].log, node'[p].log)
  BY <1>0, LeaderLogGrows
<1>6. LogStep(p)
  BY <1>0, LogSteps
<1> QED BY <1>3, <1>4, <1>5, <1>6 DEF LogStep

\* A log with one more entry, of a term that is not older.
LEMMA RisingAppend ==
    ASSUME NEW r \in Seq(Entry), NEW e \in Entry, \A q \in DOMAIN r : r[q].Term <= e.Term,
           \A q, p \in DOMAIN r : q <= p => r[q].Term <= r[p].Term,
           NEW s, s = r \o <<e>>
    PROVE  /\ s \in Seq(Entry) /\ s[Len(s)].Term = e.Term
           /\ \A q, p \in DOMAIN s : q <= p => s[q].Term <= s[p].Term
<1>1. /\ s \in Seq(Entry) /\ Len(s) = Len(r) + 1 /\ s[Len(r) + 1] = e
      /\ \A q \in 1 .. Len(r) : s[q] = r[q]
  OBVIOUS
<1>2. Len(r) \in Nat /\ DOMAIN r = 1 .. Len(r) /\ DOMAIN s = 1 .. Len(r) + 1 /\ e.Term \in Nat
  BY <1>1, LogElements DEF Entry
<1>3. ASSUME NEW q \in DOMAIN s, NEW p \in DOMAIN s, q <= p PROVE s[q].Term <= s[p].Term
  <2>1. CASE p \in DOMAIN r
    <3>1. q \in DOMAIN r
      BY <1>2, <1>3, <2>1
    <3> QED BY <1>1, <1>2, <1>3, <2>1, <3>1
  <2>2. CASE p \notin DOMAIN r
    <3>1. p = Len(r) + 1 /\ s[p] = e
      BY <1>1, <1>2, <2>2
    <3>2. q \in DOMAIN r \/ q = p
      BY <1>2, <3>1
    <3> QED BY <1>1, <1>2, <3>1, <3>2
  <2> QED BY <2>1, <2>2
<1> QED BY <1>1, <1>3

\* Terms keep rising along the logs.
LEMMA RisingStep ==
    ASSUME Stepping, NEW H, MatchInv(H), Rising(H), LogTerms, NEW G, G = Led(H)
    PROVE  Rising(G) /\ LogTerms'
<1>0. Undisturbed /\ Known /\ UndisturbedInv /\ Next /\ TypeOK
  BY DEF Stepping, Known
<1>1. H \in [Nat -> Seq(Entry)] /\ G \in [Nat -> Seq(Entry)]
  BY LedGrows
<1>2. \A i \in Server : /\ node[i].log \in Seq(Entry) /\ node'[i].log \in Seq(Entry)
                        /\ currentTerm[i] \in Nat /\ currentTerm'[i] \in Nat
                        /\ currentTerm[i] <= currentTerm'[i]
  BY <1>0, TermsGrow, NodesRun DEF Stepping, Known, TypeOK, Node, Stands
<1>3. Rising(G)
  <2> SUFFICES ASSUME NEW t \in Nat, G[t] # <<>>
               PROVE  /\ G[t][Len(G[t])].Term = t
                      /\ \A q, r \in DOMAIN G[t] : q <= r => G[t][q].Term <= G[t][r].Term
    BY DEF Rising
  <2>1. CASE G[t] = H[t]
    BY <2>1 DEF Rising
  <2>2. CASE Adds1(H, t)
    <3>1. PICK i \in Server, e \in Entry :
             currentTerm[i] = t /\ e.Term = t /\ G[t] = node[i].log \o <<e>>
      BY <2>2 DEF Adds1
    <3>2. PICK s \in Seq(Entry) : s = node[i].log
      BY <1>2
    <3>3. \A q \in DOMAIN s : s[q].Term <= e.Term
      BY <3>1, <3>2 DEF LogTerms
    <3>4. \A q, r \in DOMAIN s : q <= r => s[q].Term <= s[r].Term
      <4>1. CASE s = <<>>
        BY <4>1
      <4>2. CASE s # <<>>
        BY <1>1, <3>2, <4>2, RisingLog DEF MatchInv
      <4> QED BY <4>1, <4>2
    <3> QED BY <3>1, <3>2, <3>3, <3>4, RisingAppend
  <2> QED BY <2>1, <2>2, LedSteps
<1>4. ASSUME NEW i \in Server, NEW k \in DOMAIN node'[i].log
      PROVE  node'[i].log[k].Term <= currentTerm'[i]
  <2> DEFINE r == node[i].log
             m == node'[i].log
  <2>0. /\ Len(m) \in Nat /\ DOMAIN m = 1 .. Len(m) /\ Len(r) \in Nat /\ DOMAIN r = 1 .. Len(r)
        /\ m[k].Term \in Nat /\ k \in 1 .. Len(m) /\ k \in DOMAIN m
    BY <1>2, <1>4, LogElements
  <2>1. CASE Agree(m, r, Len(m))
    <3>1. k \in DOMAIN r /\ m[k] = r[k]
      BY <2>0, <2>1 DEF Agree
    <3>2. r[k].Term <= currentTerm[i] /\ r[k].Term \in Nat
      BY <1>2, <3>1, LogElements DEF LogTerms
    <3> QED BY <1>2, <3>1, <3>2
  <2>2. ASSUME NEW t \in Nat, t = currentTerm'[i], NEW F \in [Nat -> Seq(Entry)], Rising(F),
               Agree(m, F[t], Len(m))
        PROVE  m[k].Term <= currentTerm'[i]
    <3>1. m \in Seq(Entry) /\ F[t] \in Seq(Entry)
      BY <1>2
    <3> HIDE DEF m
    <3> QED BY <2>0, <2>2, <3>1, AgreeBound
  <2>3. CASE state'[i] = Leader
    <3>1. m = G[currentTerm'[i]]
      BY <2>3, LedLeaders
    <3>2. Agree(m, G[currentTerm'[i]], Len(m))
      <4> HIDE DEF m
      <4> QED BY <2>0, <3>1 DEF Agree
    <3> QED BY <1>1, <1>2, <1>3, <2>2, <3>2
  <2>4. ASSUME NEW c, Moves(H, i, c) PROVE m[k].Term <= currentTerm'[i]
    <3>1. currentTerm'[i] = c.Term /\ (Agree(m, r, Len(m)) \/ Agree(m, H[c.Term], Len(m)))
      BY <2>4 DEF Moves
    <3> QED BY <1>1, <1>2, <2>1, <2>2, <3>1
  <2>5. CASE m = r
    <3>1. Agree(m, r, Len(m))
      <4> HIDE DEF m, r
      <4> QED BY <2>0, <2>5 DEF Agree
    <3> QED BY <2>1, <3>1
  <2> QED BY <2>1, <2>3, <2>4, <2>5, LogMoves
<1> QED BY <1>3, <1>4 DEF LogTerms

-----------------------------------------------------------------------------
(* Acknowledgements.                                                       *)

\* In term t the node p has had the first k entries of the leader of t.
Acked(A, p, t, k) == \E m \in Nat : k <= m /\ <<p, t, m>> \in A

\* All of the log of p is the log of the leader of its term.
Mirrors(H, p) ==
    /\ H[currentTerm[p]] # <<>>
    /\ Agree(node[p].log, H[currentTerm[p]], Len(node[p].log))

\* Of what p acknowledged before term u, s holds what no leader has lost.
Covers(H, A, p, s, u) ==
    \A t, k \in Nat :
        (t < u /\ Acked(A, p, t, k) /\ Has(H[t], t, k)) => Has(s, t, k) \/ Lost(H, t, k, u)

\* A is about what nodes hold, and they still cover it.
AckInv(H, A) ==
    /\ A \subseteq Server \X Nat \X Nat
    /\ \A p \in Server : Mirrors(H, p) => <<p, currentTerm[p], Len(node[p].log)>> \in A
    /\ \A p \in Server : \A t, m \in Nat : <<p, t, m>> \in A =>
          /\ t <= currentTerm[p] /\ m <= Len(H[t])
          /\ t = currentTerm[p] => Mirrors(H, p) /\ m <= Len(node[p].log)
    /\ \A p \in Server : Covers(H, A, p, node[p].log, currentTerm[p] + 1)

\* The nodes that mirror their leader after the step are added.
Acks(H, A, G) ==
    A \cup {<<p, currentTerm'[p], Len(node'[p].log)>> :
               p \in {q \in Server : Mirrors(G, q)'}}

\* A vote in a term that has no leader's log yet went to a node that covers
\* what the voter had acknowledged; requests tell how the candidate's log ends.
VoteInv(W, H, A) ==
    /\ \A p, q \in Server : \A t \in Nat : <<p, t, q>> \in W =>
          /\ t <= currentTerm[q]
          /\ (t = currentTerm[q] /\ H[t] = <<>>) => Covers(H, A, p, node[q].log, t)
    /\ \A c \in VoteCalls : c.at = "request" =>
          /\ c.Term <= currentTerm[c.from]
          /\ (c.Term = currentTerm[c.from] /\ H[c.Term] = <<>>) =>
                /\ c.LastLogIndex = Len(node[c.from].log)
                /\ c.LastLogTerm = LastTerm(node[c.from])

\* A majority has not acknowledged before u what the leader of u lacks.
LeaderInv(H, A) ==
    \A u \in Nat : H[u] # <<>> =>
        \E Q \in SUBSET Server :
            /\ Cardinality(Q) >= Majority
            /\ \A p \in Q : u <= currentTerm[p] /\ Covers(H, A, p, H[u], u)

-----------------------------------------------------------------------------
(* Replication and commitment.                                             *)

\* The last entry that the request c speaks of.
LastOf(c) == c.PrevLogIndex + Len(c.Entries)

\* Requests end in an entry of their own term; what a leader takes for stored
\* by a peer the peer has acknowledged.
SendInv(H, A) ==
    /\ \A c \in UnderWay : Carries(c) =>
          /\ Has(H[c.Term], c.Term, LastOf(c))
          /\ c.Entries = <<>> => Acked(A, c.to, c.Term, LastOf(c))
    /\ \A c \in UnderWay : (c.kind = "append" /\ c.at \in {"reply", "stepped"}) =>
          /\ (c.Success /\ c.lastSent > 0) => Acked(A, c.to, c.Term, c.lastSent)
          /\ c.ConflictIndex <= Len(H[c.Term])
    /\ \A i, p \in Server : state[i] = Leader =>
          /\ node[i].log # <<>>
          /\ (p # i /\ nextIndex[i][p] = Len(node[i].log) + 1) =>
                Acked(A, p, currentTerm[i], Len(node[i].log))
          /\ matchIndex[i][p] > 0 => p # i /\ Acked(A, p, currentTerm[i], matchIndex[i][p])

\* A majority has acknowledged the k-th entry of term t.
Chosen(H, A, t, k) ==
    /\ Has(H[t], t, k)
    /\ \E Q \in SUBSET Server : Cardinality(Q) >= Majority /\ \A p \in Q : Acked(A, p, t, k)

\* The first n entries of s are chosen, by term u.
Settled(H, A, s, n, u) ==
    \E t, k \in Nat : t <= u /\ n <= k /\ Chosen(H, A, t, k) /\ Agree(s, H[t], n)

\* What p has applied is chosen, and its data is what it has applied.
Applied(H, A, p) ==
    LET n == node[p]
    IN  /\ n.commitIndex <= n.lastApplied
        /\ n.lastApplied > 0 => Settled(H, A, n.log, n.lastApplied, currentTerm[p])
        /\ n.data = ApplyAll(EmptyStore, n.log, 1 .. n.lastApplied)

\* So is what a request tells to apply.
CommitInv(H, A) ==
    /\ \A p \in Server : Applied(H, A, p)
    /\ \A c \in UnderWay : (Carries(c) /\ c.LeaderCommit > 0) =>
          \E t, k \in Nat : t <= c.Term /\ c.LeaderCommit <= k /\ Chosen(H, A, t, k)

-----------------------------------------------------------------------------
(* A step and the histories after it.                                      *)

Onward(H, A, G, B) ==
    /\ Stepping /\ MatchInv(H) /\ Rising(H) /\ LogTerms /\ G = Led(H) /\ B = Acks(H, A, G)

\* What the lemmas below use of a step.
LEMMA OnwardFacts ==
    ASSUME NEW H, NEW A, NEW G, NEW B, Onward(H, A, G, B)
    PROVE  /\ Undisturbed /\ Known /\ UndisturbedInv /\ Next /\ TypeOK /\ TypeOK'
           /\ H \in [Nat -> Seq(Entry)] /\ G \in [Nat -> Seq(Entry)]
           /\ \A t \in Nat : Grows(H[t], G[t])
           /\ Rising(G) /\ MatchInv(G)' /\ A \subseteq B
           /\ \A i \in Server : /\ node[i].log \in Seq(Entry) /\ node'[i].log \in Seq(Entry)
                                /\ node[i] \in Node /\ node'[i] \in Node
                                /\ currentTerm[i] \in Nat /\ currentTerm'[i] \in Nat
                                /\ currentTerm[i] <= currentTerm'[i]
<1>1. Stepping /\ MatchInv(H) /\ Rising(H) /\ LogTerms /\ G = Led(H) /\ B = Acks(H, A, G)
  BY DEF Onward
<1>2. Undisturbed /\ Known /\ Known' /\ UndisturbedInv /\ Next /\ TypeOK /\ TypeOK'
  BY <1>1 DEF Stepping, Known
<1>3. \A i \in Server : /\ node[i].log \in Seq(Entry) /\ node'[i].log \in Seq(Entry)
                        /\ node[i] \in Node /\ node'[i] \in Node
                        /\ currentTerm[i] \in Nat /\ currentTerm'[i] \in Nat
                        /\ currentTerm[i] <= currentTerm'[i]
  BY <1>2, TermsGrow DEF TypeOK, Node, Stands
<1>4. H \in [Nat -> Seq(Entry)] /\ G \in [Nat -> Seq(Entry)] /\ \A t \in Nat : Grows(H[t], G[t])
  BY <1>1, LedGrows
<1>5. Rising(G) /\ MatchInv(G)'
  BY <1>1, RisingStep, MatchStep
<1>6. A \subseteq B
  BY <1>1 DEF Acks
<1> QED BY <1>2, <1>3, <1>4, <1>5, <1>6

\* What was acknowledged in a term that has passed.
LEMMA AckedBefore ==
    ASSUME NEW H, NEW A, NEW G, NEW B, Onward(H, A, G, B), AckInv(H, A),
           NEW p \in Server, NEW t \in Nat, NEW k \in Nat, t < currentTerm'[p], Acked(B, p, t, k)
    PROVE  Acked(A, p, t, k) /\ k <= Len(H[t]) /\ t <= currentTerm[p]
<1>1. PICK m \in Nat : k <= m /\ <<p, t, m>> \in B
  BY DEF Acked
<1>2. <<p, t, m>> \in A
  <2> SUFFICES ASSUME <<p, t, m>> \notin A PROVE FALSE
    OBVIOUS
  <2>1. PICK q \in Server : <<p, t, m>> = <<q, currentTerm'[q], Len(node'[q].log)>>
    BY <1>1 DEF Onward, Acks
  <2>2. t = currentTerm'[p]
    BY <2>1
  <2>3. currentTerm'[p] \in Nat
    BY OnwardFacts
  <2> QED BY <2>2, <2>3
<1>3. m <= Len(H[t]) /\ t <= currentTerm[p]
  BY <1>2 DEF AckInv
<1>4. Len(H[t]) \in Nat
  BY OnwardFacts, LogElements
<1> QED BY <1>1, <1>2, <1>3, <1>4 DEF Acked

\* What is covered stays covered.
LEMMA CoversKept ==
    ASSUME NEW H, NEW A, NEW G, NEW B, Onward(H, A, G, B), AckInv(H, A),
           NEW p \in Server, NEW u \in Nat, u <= currentTerm'[p],
           NEW r \in Seq(Entry), NEW s \in Seq(Entry), Grows(r, s), Covers(H, A, p, r, u)
    PROVE  Covers(G, B, p, s, u)
<1> SUFFICES ASSUME NEW t \in Nat, NEW k \in Nat, t < u, Acked(B, p, t, k), Has(G[t], t, k)
             PROVE  Has(s, t, k) \/ Lost(G, t, k, u)
  BY DEF Covers
<1>0. /\ H \in [Nat -> Seq(Entry)] /\ G \in [Nat -> Seq(Entry)] /\ Rising(H) /\ Rising(G)
      /\ \A v \in Nat : Grows(H[v], G[v])
  BY OnwardFacts DEF Onward
<1>1. t < currentTerm'[p]
  <2>1. currentTerm'[p] \in Nat
    BY OnwardFacts
  <2> QED BY <2>1
<1>2. Acked(A, p, t, k) /\ k <= Len(H[t])
  BY <1>1, AckedBefore
<1>3. Has(H[t], t, k)
  BY <1>0, <1>2, HasBack
<1>4. Has(r, t, k) \/ Lost(H, t, k, u)
  BY <1>2, <1>3 DEF Covers
<1>5. CASE Has(r, t, k)
  BY <1>5, HasGrows
<1>6. CASE Lost(H, t, k, u)
  <2>1. u <= u
    OBVIOUS
  <2>2. Lost(G, t, k, u)
    BY <1>0, <1>6, <2>1, LostGrows
  <2> QED BY <2>2
<1> QED BY <1>4, <1>5, <1>6

\* The k-th entry of p is still there, or the leader it follows has another.
LEMMA EntryKept ==
    ASSUME NEW H, NEW A, NEW G, NEW B, Onward(H, A, G, B), NEW p \in Server,
           NEW t \in Nat, NEW k \in Nat, Has(node[p].log, t, k)
    PROVE  Has(node'[p].log, t, k) \/ \E c : Moves(H, p, c) /\ ~Has(H[c.Term], t, k)
<1>0. node[p].log \in Seq(Entry) /\ node'[p].log \in Seq(Entry) /\ H \in [Nat -> Seq(Entry)]
  BY OnwardFacts
<1>1. CASE node'[p].log = node[p].log
  BY <1>1
<1>2. CASE Grows(node[p].log, node'[p].log)
  BY <1>0, <1>2, HasGrows
<1>3. ASSUME NEW c, Moves(H, p, c), Has(H[c.Term], t, k)
      PROVE  Has(node'[p].log, t, k)
  <2>1. c.Term \in Nat /\ \A x \in Nat : Agree(node[p].log, H[c.Term], x) => Agree(node'[p].log, H[c.Term], x)
    BY <1>3, OnwardFacts, CallKind DEF Moves, TypeOK
  <2>2. PICK r \in Seq(Entry), s \in Seq(Entry), m \in Seq(Entry) :
           r = node[p].log /\ s = H[c.Term] /\ m = node'[p].log
    BY <1>0, <2>1
  <2>3. Traced(H, r) /\ Traced(H, s)
    BY <2>1, <2>2 DEF Onward, MatchInv
  <2>4. k \in DOMAIN r /\ k \in DOMAIN s /\ r[k].Term = t /\ s[k].Term = t
    BY <1>3, <2>2 DEF Has
  <2>5. Agree(r, s, k)
    BY <1>0, <2>3, <2>4, TermAgrees
  <2>6. Agree(m, s, k)
    BY <2>1, <2>2, <2>5
  <2>7. Len(m) \in Nat /\ DOMAIN m = 1 .. Len(m) /\ k \in Nat /\ k >= 1
    BY <2>4, LogElements
  <2>8. k \in DOMAIN m /\ m[k] = s[k]
    BY <2>6, <2>7 DEF Agree
  <2> QED BY <2>2, <2>4, <2>8 DEF Has
<1> QED BY <1>1, <1>2, <1>3, LogMoves DEF Onward

\* A request that changes a log carries entries of a leader.
LEMMA MovesFrom ==
    ASSUME NEW H, NEW A, TypeOK, H \in [Nat -> Seq(Entry)], SendInv(H, A), NEW p, NEW c, Moves(H, p, c)
    PROVE  Carries(c) /\ c.Term \in Nat /\ H[c.Term] \in Seq(Entry) /\ H[c.Term] # <<>>
<1>1. c \in UnderWay /\ FollowAppend(c)
  BY DEF Moves
<1>2. Carries(c)
  BY <1>1 DEF Carries, FollowAppend, FollowLeader
<1>3. c.Term \in Nat
  BY <1>1, CallKind DEF TypeOK
<1>4. H[c.Term] \in Seq(Entry) /\ Has(H[c.Term], c.Term, LastOf(c))
  BY <1>1, <1>2, <1>3 DEF SendInv
<1>5. H[c.Term] # <<>>
  BY <1>4, LastPosition DEF Has
<1> QED BY <1>2, <1>3, <1>4, <1>5

\* A log of which all agrees with s still does when s grows.
LEMMA AgreeGrows ==
    ASSUME NEW r \in Seq(Entry), NEW s \in Seq(Entry), NEW g \in Seq(Entry), Grows(s, g),
           NEW x \in Nat, Agree(r, s, x)
    PROVE  Agree(r, g, x)
<1>1. Len(r) \in Nat /\ Len(s) \in Nat /\ Len(g) \in Nat
  BY LogElements
<1>2. x <= Len(r) /\ x <= Len(s) /\ \A q \in 1 .. x : r[q] = s[q]
  BY DEF Agree
<1>3. Len(s) <= Len(g) /\ \A q \in 1 .. Len(s) : g[q] = s[q]
  BY DEF Grows
<1>4. x <= Len(g)
  BY <1>1, <1>2, <1>3
<1>5. ASSUME NEW q \in 1 .. x PROVE r[q] = g[q]
  <2>1. q \in 1 .. Len(s)
    BY <1>1, <1>2
  <2> QED BY <1>2, <1>3, <1>5, <2>1
<1> QED BY <1>2, <1>4, <1>5 DEF Agree

\* In its term a node that mirrors the leader goes on doing so, and its log
\* does not get shorter.
LEMMA MirrorsKept ==
    ASSUME NEW H, NEW A, NEW G, NEW B, Onward(H, A, G, B), NEW p \in Server,
           currentTerm'[p] = currentTerm[p], Mirrors(H, p)
    PROVE  Mirrors(G, p)' /\ Len(node[p].log) <= Len(node'[p].log)
<1>0. H \in [Nat -> Seq(Entry)] /\ G \in [Nat -> Seq(Entry)]
  BY OnwardFacts
<1>1. PICK t \in Nat : t = currentTerm[p]
  BY OnwardFacts
<1>2. PICK r \in Seq(Entry), m \in Seq(Entry), s \in Seq(Entry), g \in Seq(Entry) :
         r = node[p].log /\ m = node'[p].log /\ s = H[t] /\ g = G[t]
  BY <1>0, OnwardFacts
<1>3. Grows(s, g) /\ s # <<>> /\ Agree(r, s, Len(r))
  BY <1>1, <1>2, OnwardFacts DEF Mirrors
<1>4. /\ Len(r) \in Nat /\ Len(s) \in Nat /\ Len(g) \in Nat /\ Len(m) \in Nat
  BY LogElements
<1>5. g # <<>>
  BY <1>3, <1>4, LastPosition DEF Grows
<1> SUFFICES Agree(m, g, Len(m)) /\ Len(r) <= Len(m)
  BY <1>1, <1>2, <1>5 DEF Mirrors
<1>6. CASE m = r
  BY <1>3, <1>4, <1>6, AgreeGrows
<1>7. CASE state'[p] = Leader /\ Grows(r, m)
  <2>1. m = g
    BY <1>1, <1>2, <1>7, LedLeaders DEF Onward
  <2>2. Agree(m, g, Len(m))
    BY <1>4, <2>1 DEF Agree
  <2> QED BY <1>7, <2>2 DEF Grows
<1>8. ASSUME NEW c, Moves(H, p, c)
      PROVE  Agree(m, g, Len(m)) /\ Len(r) <= Len(m)
  <2>1. Agree(m, s, Len(r))
    BY <1>1, <1>2, <1>3, <1>4, <1>8 DEF Moves
  <2>2. Len(r) <= Len(m)
    BY <2>1 DEF Agree
  <2>3. Agree(m, r, Len(m)) \/ Agree(m, s, Len(m))
    BY <1>1, <1>2, <1>8 DEF Moves
  <2>4. Agree(m, s, Len(m))
    <3>1. CASE Agree(m, r, Len(m))
      <4>1. Len(m) = Len(r)
        BY <1>4, <2>2, <3>1 DEF Agree
      <4> QED BY <2>1, <4>1
    <3> QED BY <2>3, <3>1
  <2> QED BY <1>3, <1>4, <2>2, <2>4, AgreeGrows
<1> QED BY <1>2, <1>6, <1>7, <1>8, LogMoves DEF Onward

\* The acknowledgements after a step.
LEMMA AckStep ==
    ASSUME NEW H, NEW A, NEW G, NEW B, Onward(H, A, G, B), AckInv(H, A), SendInv(H, A)
    PROVE  AckInv(G, B)'
<1>0. /\ H \in [Nat -> Seq(Entry)] /\ G \in [Nat -> Seq(Entry)] /\ Rising(H) /\ Rising(G)
      /\ \A t \in Nat : Grows(H[t], G[t])
  BY OnwardFacts DEF Onward
<1>1. B \subseteq Server \X Nat \X Nat
  <2>1. \A p \in Server : currentTerm'[p] \in Nat /\ Len(node'[p].log) \in Nat
    BY OnwardFacts, LogElements
  <2> QED BY <2>1 DEF Onward, Acks, AckInv
<1>2. ASSUME NEW p \in Server, Mirrors(G, p)'
      PROVE  <<p, currentTerm'[p], Len(node'[p].log)>> \in B
  BY <1>2, Zenon DEF Onward, Acks
<1>3. ASSUME NEW p \in Server, NEW t \in Nat, NEW m \in Nat, <<p, t, m>> \in B
      PROVE  /\ t <= currentTerm'[p] /\ m <= Len(G[t])
             /\ t = currentTerm'[p] => Mirrors(G, p)' /\ m <= Len(node'[p].log)
  <2>0. /\ currentTerm[p] \in Nat /\ currentTerm'[p] \in Nat /\ currentTerm[p] <= currentTerm'[p]
        /\ node[p].log \in Seq(Entry) /\ node'[p].log \in Seq(Entry)
    BY OnwardFacts
  <2>1. /\ Len(H[t]) \in Nat /\ Len(G[t]) \in Nat /\ Len(H[t]) <= Len(G[t])
        /\ Len(node[p].log) \in Nat /\ Len(node'[p].log) \in Nat
    BY <1>0, <2>0, LogElements DEF Grows
  <2>2. CASE <<p, t, m>> \in A
    <3>1. /\ t <= currentTerm[p] /\ m <= Len(H[t])
          /\ t = currentTerm[p] => Mirrors(H, p) /\ m <= Len(node[p].log)
      BY <2>2 DEF AckInv
    <3>2. t <= currentTerm'[p] /\ m <= Len(G[t])
      BY <2>0, <2>1, <3>1
    <3>3. ASSUME t = currentTerm'[p] PROVE Mirrors(G, p)' /\ m <= Len(node'[p].log)
      <4>1. t = currentTerm[p] /\ currentTerm'[p] = currentTerm[p]
        BY <2>0, <3>1, <3>3
      <4>2. Mirrors(G, p)' /\ Len(node[p].log) <= Len(node'[p].log)
        BY <3>1, <4>1, MirrorsKept
      <4> QED BY <2>1, <3>1, <4>1, <4>2
    <3> QED BY <3>2, <3>3
  <2>3. CASE <<p, t, m>> \notin A
    <3>1. PICK q \in Server : <<p, t, m>> = <<q, currentTerm'[q], Len(node'[q].log)>> /\ Mirrors(G, q)'
      BY <1>3, <2>3 DEF Onward, Acks
    <3>2. q = p /\ t = currentTerm'[p] /\ m = Len(node'[p].log)
      BY <3>1
    <3>3. Agree(node'[p].log, G[t], m)
      BY <3>1, <3>2 DEF Mirrors
    <3> QED BY <2>0, <3>1, <3>2, <3>3 DEF Agree
  <2> QED BY <2>2, <2>3
<1>4. ASSUME NEW p \in Server
      PROVE  Covers(G, B, p, node'[p].log, currentTerm'[p] + 1)
  <2> SUFFICES ASSUME NEW t \in Nat, NEW k \in Nat, t < currentTerm'[p] + 1,
                      Acked(B, p, t, k), Has(G[t], t, k)
               PROVE  Has(node'[p].log, t, k) \/ Lost(G, t, k, currentTerm'[p] + 1)
    BY DEF Covers
  <2>0. /\ currentTerm[p] \in Nat /\ currentTerm'[p] \in Nat /\ currentTerm[p] <= currentTerm'[p]
        /\ node[p].log \in Seq(Entry) /\ node'[p].log \in Seq(Entry) /\ TypeOK
    BY OnwardFacts
  <2>1. CASE t = currentTerm'[p]
    <3>1. PICK m \in Nat : k <= m /\ <<p, t, m>> \in B
      BY DEF Acked
    <3>2. Mirrors(G, p)' /\ m <= Len(node'[p].log)
      BY <1>3, <2>1, <3>1
    <3>3. PICK s \in Seq(Entry), g \in Seq(Entry) : s = node'[p].log /\ g = G[t]
      BY <1>0, <2>0
    <3>4. Agree(s, g, Len(s)) /\ m <= Len(s)
      BY <2>1, <3>2, <3>3 DEF Mirrors
    <3>5. Len(s) \in Nat /\ DOMAIN s = 1 .. Len(s) /\ k \in DOMAIN g /\ g[k].Term = t /\ k >= 1
      BY <3>3, LogElements DEF Has
    <3>6. k \in DOMAIN s /\ s[k] = g[k]
      BY <3>1, <3>4, <3>5 DEF Agree
    <3> QED BY <3>3, <3>5, <3>6 DEF Has
  <2>2. CASE t # currentTerm'[p]
    <3>1. t < currentTerm'[p]
      BY <2>0, <2>2
    <3>2. Acked(A, p, t, k) /\ k <= Len(H[t]) /\ t <= currentTerm[p]
      BY <3>1, AckedBefore
    <3>3. Has(H[t], t, k)
      BY <1>0, <3>2, HasBack
    <3>4. t < currentTerm[p] + 1 /\ currentTerm[p] + 1 <= currentTerm'[p] + 1
          /\ currentTerm[p] + 1 \in Nat /\ currentTerm'[p] + 1 \in Nat
      BY <2>0, <3>2
    <3>5. Has(node[p].log, t, k) \/ Lost(H, t, k, currentTerm[p] + 1)
      BY <3>2, <3>3, <3>4 DEF AckInv, Covers
    <3>8. PICK u \in Nat, w \in Nat : u = currentTerm[p] + 1 /\ w = currentTerm'[p] + 1
      BY <3>4
    <3>6. CASE Lost(H, t, k, currentTerm[p] + 1)
      <4>1. Lost(H, t, k, u) /\ u <= w
        BY <3>4, <3>6, <3>8
      <4>2. Lost(G, t, k, w)
        BY <1>0, <4>1, LostGrows
      <4> QED BY <3>8, <4>2
    <3>7. ASSUME NEW c, Moves(H, p, c), ~Has(H[c.Term], t, k)
          PROVE  Lost(G, t, k, currentTerm'[p] + 1)
      <4>1. c.Term \in Nat /\ H[c.Term] # <<>>
        BY <1>0, <2>0, <3>7, MovesFrom
      <4>2. c.Term = currentTerm'[p]
        BY <3>7 DEF Moves
      <4>3. t < c.Term /\ c.Term < w /\ w <= w
        BY <2>0, <3>1, <3>8, <4>2
      <4>4. Lost(H, t, k, w)
        BY <3>7, <4>1, <4>3 DEF Lost
      <4>5. Lost(G, t, k, w)
        BY <1>0, <4>3, <4>4, LostGrows
      <4> QED BY <3>8, <4>5
    <3> QED BY <3>5, <3>6, <3>7, EntryKept
  <2> QED BY <2>1, <2>2
<1> QED BY <1>1, <1>2, <1>3, <1>4, Zenon DEF AckInv

-----------------------------------------------------------------------------
(* Votes.                                                                  *)

\* A request for a vote is started by its candidate.
LEMMA NewRequest ==
    ASSUME TypeOK, Single, Next, \A i \in Server : ~Die(i),
           NEW d \in VoteCalls', d.at = "request"
    PROVE  \/ d \in VoteCalls
           \/ \E i \in Server : /\ becomeCandidate(i)
                                /\ d \in RequestVotes(i, currentTerm[i] + 1, Len(votes) + 1)
<1>1. CASE VoteNeutral
  BY <1>1 DEF VoteNeutral
<1>2. ASSUME NEW i \in Server, becomeCandidate(i)
      PROVE  d \in VoteCalls \/ d \in RequestVotes(i, currentTerm[i] + 1, Len(votes) + 1)
  BY <1>2, NewRound
<1>3. ASSUME NEW c, NEW a, Continue(c, a) \/ Reply(c, a), a.at # "request" PROVE d \in VoteCalls
  BY <1>3, CallsChange DEF VoteCalls
<1>4. ASSUME NEW c \in UnderWay, HandleRequestVote(c) PROVE d \in VoteCalls
  <2>1. \E a : Reply(c, a) /\ a.at = "reply"
    BY <1>4 DEF HandleRequestVote
  <2> QED BY <1>3, <2>1
<1>5. ASSUME NEW c \in UnderWay, Finish(c) PROVE d \in VoteCalls
  BY <1>5, CallsChange DEF VoteCalls
<1>6. ASSUME NEW c \in UnderWay, VoteReply(c) PROVE d \in VoteCalls
  <2>1. \A at : [c EXCEPT !.at = at].at = at
    <3>1. c \in RequestVoteAnswer
      BY <1>6, CallKind DEF VoteReply, TypeOK
    <3> QED BY <3>1 DEF RequestVoteAnswer
  <2> QED BY <1>3, <1>5, <1>6, <2>1 DEF VoteReply
<1>7. ASSUME NEW c \in UnderWay, becomeLeader(c) PROVE d \in VoteCalls
  BY <1>5, <1>7 DEF becomeLeader
<1> QED BY <1>1, <1>2, <1>4, <1>6, <1>7, VoteNeutralUnless

\* The term of the last entry, and when a log counts as up to date.
EndTerm(s) == IF s = <<>> THEN 0 ELSE s[Len(s)].Term

AsNew(s, r) == EndTerm(s) > EndTerm(r) \/ (EndTerm(s) = EndTerm(r) /\ Len(s) >= Len(r))

NoneAfter(s, u) == \A q \in DOMAIN s : s[q].Term <= u

\* Whoever finds the candidate's log up to date finds in it what itself holds,
\* or the candidate follows a leader that lost it.
LEMMA UpToDateCovers ==
    ASSUME NEW H, MatchInv(H), Rising(H), NEW r \in Seq(Entry), NEW s \in Seq(Entry),
           Traced(H, r), Traced(H, s), NEW u \in Nat, H[u] = <<>>, NoneAfter(s, u), AsNew(s, r),
           NEW t \in Nat, NEW k \in Nat, Has(r, t, k)
    PROVE  Has(s, t, k) \/ Lost(H, t, k, u)
<1>0. H \in [Nat -> Seq(Entry)]
  BY DEF MatchInv
<1>1. PICK lr \in Nat, ls \in Nat :
         /\ lr = IF r = <<>> THEN 0 ELSE r[Len(r)].Term
         /\ ls = IF s = <<>> THEN 0 ELSE s[Len(s)].Term
  BY LastPosition, LogElements
<1>2. ls > lr \/ (ls = lr /\ Len(s) >= Len(r))
  BY <1>1 DEF AsNew, EndTerm
<1>3. /\ Len(r) \in Nat /\ DOMAIN r = 1 .. Len(r) /\ Len(s) \in Nat /\ DOMAIN s = 1 .. Len(s)
      /\ k \in DOMAIN r /\ r[k].Term = t /\ r # <<>> /\ k <= Len(r)
  BY LogElements, LastPosition DEF Has
<1>4. /\ Len(r) \in DOMAIN r /\ Agree(r, H[lr], Len(r))
      /\ \A q, p \in DOMAIN r : q <= p => r[q].Term <= r[p].Term
  BY <1>0, <1>3, <1>1, RisingLog
<1>5. t <= lr
  BY <1>1, <1>3, <1>4
<1>6. s # <<>>
  <2> SUFFICES ASSUME s = <<>> PROVE FALSE
    OBVIOUS
  <2>1. ls = 0 /\ Len(s) = 0
    BY <1>1
  <2> QED BY <1>3, <1>2, <2>1
<1>7. Len(s) \in DOMAIN s /\ Agree(s, H[ls], Len(s)) /\ H[ls] # <<>> /\ s[Len(s)].Term = ls
  BY <1>0, <1>6, <1>1, RisingLog
<1>8. PICK h \in Seq(Entry) : h = H[ls]
  BY <1>0
<1>9. /\ Len(h) \in Nat /\ DOMAIN h = 1 .. Len(h) /\ Len(s) <= Len(h)
      /\ \A q \in 1 .. Len(s) : s[q] = h[q]
  BY <1>7, <1>8, LogElements DEF Agree
<1>10. CASE ls = lr
  <2>1. Len(r) <= Len(s)
    BY <1>3, <1>10, <1>2
  <2>2. k \in 1 .. Len(s) /\ k \in 1 .. Len(r)
    BY <1>3, <2>1
  <2>3. r[k] = h[k] /\ s[k] = h[k]
    BY <1>4, <1>8, <1>9, <1>10, <2>2 DEF Agree
  <2> QED BY <1>3, <2>2, <2>3 DEF Has
<1>11. CASE ls # lr
  <2>1. t < ls
    BY <1>5, <1>11, <1>2
  <2>2. ls < u
    <3>1. ls # u /\ ls <= u
      BY <1>7 DEF NoneAfter
    <3> QED BY <3>1
  <2>3. CASE ~Has(h, t, k)
    BY <1>7, <1>8, <2>1, <2>2, <2>3 DEF Lost
  <2>4. CASE Has(h, t, k)
    <3>1. k \in DOMAIN h /\ h[k].Term = t
      BY <2>4 DEF Has
    <3>2. Len(s) \in DOMAIN h /\ h[Len(s)].Term = ls
      BY <1>3, <1>7, <1>9
    <3>3. k <= Len(s)
      <4> SUFFICES ASSUME ~(k <= Len(s)) PROVE FALSE
        OBVIOUS
      <4>1. Len(s) <= k
        BY <1>3
      <4>2. ls <= t
        BY <1>7, <1>8, <3>1, <3>2, <4>1 DEF Rising
      <4> QED BY <2>1, <4>2
    <3>4. k \in 1 .. Len(s)
      BY <1>3, <3>3
    <3> QED BY <1>3, <1>9, <3>1, <3>4 DEF Has
  <2> QED BY <2>3, <2>4
<1> QED BY <1>10, <1>11

\* A vote is given to a node that covers what the voter has acknowledged.
LEMMA GrantCovers ==
    ASSUME TypeOK, AllWhole, NEW H, MatchInv(H), Rising(H), LogTerms, NEW A, AckInv(H, A),
           NEW p \in Server, NEW q \in Server, NEW u \in Nat, H[u] = <<>>,
           currentTerm[q] <= u, currentTerm[p] <= u,
           isCandidateLogUpToDate(node[p], LastTerm(node[q]), Len(node[q].log))
    PROVE  Covers(H, A, p, node[q].log, u)
<1> SUFFICES ASSUME NEW t \in Nat, NEW k \in Nat, t < u, Acked(A, p, t, k), Has(H[t], t, k)
             PROVE  Has(node[q].log, t, k) \/ Lost(H, t, k, u)
  BY DEF Covers
<1>1. /\ currentTerm[p] \in Nat /\ currentTerm[q] \in Nat /\ node[p] \in Node /\ node[q] \in Node
      /\ Whole(node[p])
  BY DEF TypeOK, AllWhole
<1>2. PICK r \in Seq(Entry), s \in Seq(Entry) : r = node[p].log /\ s = node[q].log
  BY <1>1 DEF Node
<1>3. Traced(H, r) /\ Traced(H, s)
  BY <1>2 DEF MatchInv
<1>4. CASE Has(r, t, k)
  <2>1. NoneAfter(s, u)
    <3>1. \A x \in DOMAIN s : s[x].Term \in Nat /\ s[x].Term <= currentTerm[q]
      BY <1>2, LogElements DEF LogTerms
    <3> QED BY <1>1, <3>1 DEF NoneAfter
  <2>2. LastTerm(node[p]) = EndTerm(r) /\ LastTerm(node[q]) = EndTerm(s) /\ LastIndex(node[p]) = Len(r)
    BY <1>1, <1>2, WholeFacts DEF LastTerm, EndTerm
  <2>3. AsNew(s, r)
    BY <1>2, <2>2, Zenon DEF isCandidateLogUpToDate, AsNew
  <2>4. Has(s, t, k) \/ Lost(H, t, k, u)
    BY <1>3, <1>4, <2>1, <2>3, UpToDateCovers
  <2> QED BY <1>2, <2>4
<1>5. CASE ~Has(r, t, k)
  <2>1. t <= currentTerm[p]
    BY DEF Acked, AckInv
  <2>2. t < currentTerm[p] + 1
    BY <1>1, <2>1
  <2>3. Lost(H, t, k, currentTerm[p] + 1)
    BY <1>2, <1>5, <2>2 DEF AckInv, Covers
  <2>4. PICK v \in Nat : t < v /\ v < currentTerm[p] + 1 /\ H[v] # <<>> /\ ~Has(H[v], t, k)
    BY <2>3 DEF Lost
  <2>5. v < u
    <3>1. v # u
      BY <2>4
    <3> QED BY <1>1, <2>4, <3>1
  <2> QED BY <2>4, <2>5 DEF Lost
<1> QED BY <1>4, <1>5

\* While its term has no leader's log, a candidate's log only grows.
LEMMA CandidateLogGrows ==
    ASSUME NEW H, NEW A, NEW G, NEW B, Onward(H, A, G, B), SendInv(H, A),
           NEW q \in Server, H[currentTerm'[q]] = <<>>
    PROVE  Grows(node[q].log, node'[q].log)
<1>1. \A c : ~Moves(H, q, c)
  <2> SUFFICES ASSUME NEW c, Moves(H, q, c) PROVE FALSE
    OBVIOUS
  <2>1. H[c.Term] # <<>>
    BY OnwardFacts, MovesFrom
  <2> QED BY <2>1 DEF Moves
<1>2. CASE node'[q].log = node[q].log
  <2>1. Len(node[q].log) \in Nat
    BY OnwardFacts, LogElements
  <2> QED BY <1>2, <2>1 DEF Grows
<1> QED BY <1>1, <1>2, LogMoves DEF Onward

\* Votes and requests for them after a step.
LEMMA CoverVotes ==
    ASSUME NEW H, NEW A, NEW G, NEW B, Onward(H, A, G, B), AckInv(H, A), SendInv(H, A),
           NEW W, Ballots(W), VoteInv(W, H, A), NEW W1, Ballots(W1)', Casts(W, W1)
    PROVE  VoteInv(W1, G, B)'
<1>0. /\ H \in [Nat -> Seq(Entry)] /\ G \in [Nat -> Seq(Entry)] /\ Next
      /\ \A t \in Nat : Grows(H[t], G[t])
      /\ TypeOK /\ Rising(H) /\ MatchInv(H) /\ LogTerms /\ AllWhole /\ Single
      /\ \A i \in Server : ~Die(i)
  BY OnwardFacts, NodesRun DEF Onward, UndisturbedInv, Ballots
<1>1. ASSUME NEW t \in Nat, G[t] = <<>> PROVE H[t] = <<>>
  <2>1. H[t] \in Seq(Entry) /\ Len(H[t]) \in Nat /\ Len(G[t]) = 0 /\ Len(H[t]) <= Len(G[t])
    BY <1>0, <1>1, LogElements DEF Grows
  <2> QED BY <2>1, EmptySeq
<1>2. ASSUME NEW p \in Server, NEW q \in Server, NEW t \in Nat, t <= currentTerm'[p],
             t = currentTerm'[q], G[t] = <<>>, Covers(H, A, p, node[q].log, t)
      PROVE  Covers(G, B, p, node'[q].log, t)
  <2>1. Grows(node[q].log, node'[q].log)
    BY <1>1, <1>2, CandidateLogGrows
  <2>2. PICK r \in Seq(Entry), s \in Seq(Entry) : r = node[q].log /\ s = node'[q].log
    BY OnwardFacts
  <2>3. Grows(r, s) /\ Covers(H, A, p, r, t)
    BY <1>2, <2>1, <2>2
  <2>4. Covers(G, B, p, s, t)
    BY <1>2, <2>3, CoversKept
  <2> QED BY <2>2, <2>4
<1>3. ASSUME NEW p \in Server, NEW q \in Server, NEW t \in Nat, <<p, t, q>> \in W1
      PROVE  /\ t <= currentTerm'[q]
             /\ (t = currentTerm'[q] /\ G[t] = <<>>) => Covers(G, B, p, node'[q].log, t)
  <2>0. /\ currentTerm[q] \in Nat /\ currentTerm'[q] \in Nat /\ currentTerm[q] <= currentTerm'[q]
        /\ currentTerm[p] \in Nat /\ currentTerm'[p] \in Nat /\ currentTerm[p] <= currentTerm'[p]
    BY OnwardFacts
  <2>1. t <= currentTerm'[p]
    BY <1>3 DEF Ballots, Remembered
  <2>2. CASE <<p, t, q>> \in W
    <3>1. t <= currentTerm[q]
      BY <2>2 DEF VoteInv
    <3>2. t <= currentTerm'[q]
      BY <2>0, <3>1
    <3>3. ASSUME t = currentTerm'[q], G[t] = <<>> PROVE Covers(G, B, p, node'[q].log, t)
      <4>1. t = currentTerm[q] /\ H[t] = <<>>
        BY <1>1, <2>0, <3>1, <3>3
      <4>2. Covers(H, A, p, node[q].log, t)
        BY <2>2, <4>1 DEF VoteInv
      <4> QED BY <1>2, <2>1, <3>3, <4>2
    <3> QED BY <3>2, <3>3
  <2>3. ASSUME becomeCandidate(q), p = q, t = currentTerm[q] + 1
        PROVE  /\ t <= currentTerm'[q]
               /\ (t = currentTerm'[q] /\ G[t] = <<>>) => Covers(G, B, p, node'[q].log, t)
    <3>1. Covers(H, A, p, node[q].log, t)
      BY <2>3 DEF AckInv
    <3> QED BY <1>2, <2>1, <2>3, <3>1
  <2>4. ASSUME NEW c \in UnderWay, HandleRequestVote(c), GrantsVote(c.to, c),
               p = c.to, t = c.Term, q = c.from
        PROVE  /\ t <= currentTerm'[q]
               /\ (t = currentTerm'[q] /\ G[t] = <<>>) => Covers(G, B, p, node'[q].log, t)
    <3>1. c \in VoteCalls /\ c.at = "request" /\ c.from # c.to
      BY <1>0, <2>4 DEF HandleRequestVote, VoteCalls, Single
    <3>2. currentTerm'[q] = currentTerm[q]
      BY <1>0, <2>4, <3>1 DEF HandleRequestVote, TypeOK
    <3>3. t <= currentTerm[q]
      BY <2>4, <3>1 DEF VoteInv
    <3>4. ASSUME t = currentTerm'[q], G[t] = <<>> PROVE Covers(G, B, p, node'[q].log, t)
      <4>1. t = currentTerm[q] /\ H[t] = <<>>
        BY <1>1, <3>2, <3>4
      <4>2. c.LastLogIndex = Len(node[q].log) /\ c.LastLogTerm = LastTerm(node[q])
        BY <2>4, <3>1, <4>1 DEF VoteInv
      <4>3. /\ isCandidateLogUpToDate(node[p], LastTerm(node[q]), Len(node[q].log))
            /\ t >= currentTerm[p]
        BY <2>4, <4>2 DEF GrantsVote
      <4>4. currentTerm[q] <= t /\ currentTerm[p] <= t
        BY <2>0, <4>1, <4>3
      <4>5. Covers(H, A, p, node[q].log, t)
        BY <1>0, <4>1, <4>3, <4>4, GrantCovers
      <4> QED BY <1>2, <2>1, <3>4, <4>5
    <3> QED BY <3>2, <3>3, <3>4
  <2> QED BY <1>3, <2>2, <2>3, <2>4 DEF Casts
<1>4. ASSUME NEW d \in VoteCalls', d.at = "request"
      PROVE  /\ d.Term <= currentTerm'[d.from]
             /\ (d.Term = currentTerm'[d.from] /\ G[d.Term] = <<>>) =>
                   /\ d.LastLogIndex = Len(node'[d.from].log)
                   /\ d.LastLogTerm = LastTerm(node'[d.from])
  <2>1. CASE d \in VoteCalls
    <3>1. d.from \in Server /\ d.Term \in Nat
      BY <1>0, <2>1, CallKind DEF VoteCalls, TypeOK
    <3>2. /\ currentTerm[d.from] \in Nat /\ currentTerm'[d.from] \in Nat
          /\ currentTerm[d.from] <= currentTerm'[d.from] /\ d.Term <= currentTerm[d.from]
      BY <1>4, <2>1, <3>1, OnwardFacts DEF VoteInv
    <3>3. ASSUME d.Term = currentTerm'[d.from], G[d.Term] = <<>>
          PROVE  /\ d.LastLogIndex = Len(node'[d.from].log)
                 /\ d.LastLogTerm = LastTerm(node'[d.from])
      <4>1. d.Term = currentTerm[d.from] /\ H[d.Term] = <<>>
        BY <1>1, <3>1, <3>2, <3>3
      <4>2. /\ d.LastLogIndex = Len(node[d.from].log)
            /\ d.LastLogTerm = LastTerm(node[d.from])
        BY <1>4, <2>1, <4>1 DEF VoteInv
      <4>3. node'[d.from].log = node[d.from].log
        <5>1. \A c : ~Moves(H, d.from, c)
          <6> SUFFICES ASSUME NEW c, Moves(H, d.from, c) PROVE FALSE
            OBVIOUS
          <6>1. H[c.Term] # <<>>
            BY <1>0, MovesFrom
          <6> QED BY <3>3, <4>1, <6>1 DEF Moves
        <5>2. CASE state'[d.from] = Leader /\ Grows(node[d.from].log, node'[d.from].log)
          <6>1. node'[d.from].log = <<>>
            BY <3>1, <3>3, <5>2, LedLeaders DEF Onward
          <6>2. node[d.from].log \in Seq(Entry) /\ Len(node[d.from].log) \in Nat
            BY <3>1, OnwardFacts, LogElements
          <6>3. Len(node[d.from].log) = 0
            BY <5>2, <6>1, <6>2 DEF Grows
          <6> QED BY <6>1, <6>2, <6>3, EmptySeq
        <5> QED BY <3>1, <5>1, <5>2, LogMoves DEF Onward
      <4> QED BY <4>2, <4>3 DEF LastTerm
    <3>4. d.Term <= currentTerm'[d.from]
      BY <3>1, <3>2
    <3> QED BY <3>3, <3>4
  <2>2. ASSUME NEW i \in Server, becomeCandidate(i),
               d \in RequestVotes(i, currentTerm[i] + 1, Len(votes) + 1)
        PROVE  /\ d.Term <= currentTerm'[d.from]
               /\ d.LastLogIndex = Len(node'[d.from].log)
               /\ d.LastLogTerm = LastTerm(node'[d.from])
    <3>1. /\ d.from = i /\ d.Term = currentTerm[i] + 1 /\ d.LastLogTerm = LastTerm(node[i])
          /\ d.LastLogIndex = IF node[i].log = <<>> THEN 0 ELSE LastIndex(node[i])
      BY <2>2 DEF RequestVotes
    <3>2. node' = node /\ currentTerm'[i] = currentTerm[i] + 1 /\ currentTerm'[i] \in Nat
      BY <1>0, <2>2, OnwardFacts DEF becomeCandidate, TypeOK
    <3>3. node[i] \in Node /\ Whole(node[i])
      BY <1>0 DEF TypeOK, AllWhole
    <3>4. LastIndex(node[i]) = Len(node[i].log)
      BY <3>3, WholeFacts
    <3> QED BY <3>1, <3>2, <3>4
  <2> QED BY <1>0, <1>4, <2>1, <2>2, NewRequest
<1> QED BY <1>3, <1>4 DEF VoteInv

\* A leader of which no log was known was elected by those whose
\* acknowledgements it covers.
LEMMA LeaderCovers ==
    ASSUME NEW H, NEW A, NEW G, NEW B, Onward(H, A, G, B), AckInv(H, A), LeaderInv(H, A),
           NEW W, Ballots(W), VoteInv(W, H, A), NEW W1, Ballots(W1)', Casts(W, W1)
    PROVE  LeaderInv(G, B)'
<1>0. /\ H \in [Nat -> Seq(Entry)] /\ G \in [Nat -> Seq(Entry)]
      /\ \A t \in Nat : Grows(H[t], G[t])
      /\ \A p \in Server : /\ currentTerm[p] \in Nat /\ currentTerm'[p] \in Nat
                           /\ currentTerm[p] <= currentTerm'[p]
  BY OnwardFacts
<1> SUFFICES ASSUME NEW u \in Nat, G[u] # <<>>
             PROVE  \E Q \in SUBSET Server :
                       /\ Cardinality(Q) >= Majority
                       /\ \A p \in Q : u <= currentTerm'[p] /\ Covers(G, B, p, G[u], u)
  BY DEF LeaderInv, Majority
<1>1. PICK h \in Seq(Entry), g \in Seq(Entry) : h = H[u] /\ g = G[u] /\ Grows(h, g)
  BY <1>0
<1>2. CASE h # <<>>
  <2>1. PICK Q \in SUBSET Server :
           /\ Cardinality(Q) >= Majority
           /\ \A p \in Q : u <= currentTerm[p] /\ Covers(H, A, p, h, u)
    BY <1>1, <1>2 DEF LeaderInv
  <2>2. ASSUME NEW p \in Q PROVE u <= currentTerm'[p] /\ Covers(G, B, p, g, u)
    <3>1. p \in Server
      OBVIOUS
    <3>2. u <= currentTerm[p] /\ Covers(H, A, p, h, u)
      BY <2>1
    <3>3. u <= currentTerm'[p]
      <4>1. /\ currentTerm[p] \in Nat /\ currentTerm'[p] \in Nat /\ currentTerm[p] <= currentTerm'[p]
        BY <1>0, <3>1
      <4> QED BY <3>2, <4>1
    <3> QED BY <1>1, <3>1, <3>2, <3>3, CoversKept
  <2> QED BY <1>1, <2>1, <2>2
<1>3. CASE h = <<>>
  <2>1. PICK i \in Server, e \in Entry :
           /\ state'[i] = Leader /\ currentTerm[i] = u /\ currentTerm'[i] = u
           /\ node'[i].log = node[i].log \o <<e>> /\ g = node[i].log \o <<e>>
    <3>1. Led(H)[u] = g /\ g # h
      BY <1>1, <1>3 DEF Onward
    <3>2. Adds1(H, u)
      BY <1>1, <3>1, LedSteps DEF Onward
    <3> QED BY <3>1, <3>2, Zenon DEF Adds1
  <2>2. PICK r \in Seq(Entry) : r = node[i].log
    BY OnwardFacts
  <2>3. Len(g) = Len(r) + 1 /\ Len(r) \in Nat /\ \A q \in 1 .. Len(r) : g[q] = r[q]
    BY <2>1, <2>2
  <2>4. Grows(r, g) /\ node'[i].log # node[i].log
    BY <2>1, <2>2, <2>3 DEF Grows
  <2>5. <<i, u>> \in elected'
    BY <2>1 DEF Onward, Stepping, Known, LeadersElected
  <2>6. Cardinality(Voters(W1, i, u)) >= Majority
    BY <2>5 DEF Ballots, Supported, Majority
  <2>7. ASSUME NEW p \in Voters(W1, i, u) PROVE u <= currentTerm'[p] /\ Covers(G, B, p, g, u)
    <3>1. p \in Server /\ <<p, u, i>> \in W1
      BY DEF Voters
    <3>2. u <= currentTerm'[p]
      BY <3>1 DEF Ballots, Remembered
    <3>3. <<p, u, i>> \in W
      <4> SUFFICES ASSUME <<p, u, i>> \notin W PROVE node'[i].log = node[i].log
        BY <2>4
      <4>1. UNCHANGED node
        BY <3>1 DEF Casts, HandleRequestVote, becomeCandidate
      <4> QED BY <4>1
    <3>4. Covers(H, A, p, r, u)
      BY <1>1, <1>3, <2>1, <2>2, <3>1, <3>3 DEF VoteInv
    <3> QED BY <2>4, <3>1, <3>2, <3>4, CoversKept
  <2>8. Voters(W1, i, u) \in SUBSET Server
    BY DEF Voters
  <2> QED BY <1>1, <2>6, <2>7, <2>8
<1> QED BY <1>2, <1>3

-----------------------------------------------------------------------------
(* Requests and answers.                                                   *)

\* What an accepted request makes of a node.
LEMMA AcceptedNode ==
    ASSUME Undisturbed, Known, UndisturbedInv, NEW c \in UnderWay, AppendAccept(c)
    PROVE  /\ FollowAppend(c) /\ c.to \in Server
           /\ \E k : LET m == StoreEntries(node[c.to], c.Entries, k)
                     IN  /\ Accepts(c, k) /\ m \in Node /\ Whole(m) /\ SameData(node[c.to], m)
                         /\ node'[c.to] = FollowCommit(m, c.LeaderCommit)
                         /\ node'[c.to].log = m.log
<1>1. FollowAppend(c) /\ c.to \in Server /\ node \in [Server -> Node] /\ c \in Call
  BY CallKind DEF AppendAccept, Known, TypeOK
<1>2. PICK k : /\ Accepts(c, k)
               /\ node' = [node EXCEPT ![c.to] =
                    maybeSnapshot(FollowCommit(StoreEntries(node[c.to], c.Entries, k), c.LeaderCommit))]
  <2>1. PICK k \in 1 .. Len(c.Entries) + 1 :
              /\ PrevMatches(node[c.to], c)
              /\ FirstNew(node[c.to], c.Entries, k)
              /\ k \in DOMAIN c.Entries =>
                    IF Conflicts(node[c.to], c.Entries, k)
                    THEN CanTruncateAfter(node[c.to].wal, c.Entries[k].Index - 1)
                    ELSE LinesUp(node[c.to], c.Entries, k)
              /\ node' = [node EXCEPT ![c.to] =
                    maybeSnapshot(FollowCommit(StoreEntries(node[c.to], c.Entries, k), c.LeaderCommit))]
    BY Zenon DEF AppendAccept
  <2> QED BY <2>1, Zenon DEF Accepts
<1>3. PICK m : m = StoreEntries(node[c.to], c.Entries, k)
  OBVIOUS
<1>4. m \in Node /\ Whole(m) /\ SameData(node[c.to], m)
  BY <1>1, <1>2, <1>3, StoredWhole
<1>5. c.LeaderCommit \in Nat
  BY <1>1, CallKind DEF FollowAppend, FollowLeader, AppendEntriesCall
<1>6. /\ maybeSnapshot(FollowCommit(m, c.LeaderCommit)) = FollowCommit(m, c.LeaderCommit)
      /\ FollowCommit(m, c.LeaderCommit).log = m.log
  BY <1>4, <1>5, CommitOnly DEF SameLog
<1>7. node'[c.to] = FollowCommit(m, c.LeaderCommit)
  BY <1>1, <1>2, <1>3, <1>6
<1> QED BY <1>1, <1>2, <1>3, <1>4, <1>6, <1>7, Zenon

\* A log that holds an entry of its node's leader agrees with it altogether.
LEMMA SameTermAgrees ==
    ASSUME NEW H, NEW r \in Seq(Entry), NEW t \in Nat, NEW x \in Nat, H \in [Nat -> Seq(Entry)],
           Rising(H), Traced(H, r), NoneAfter(r, t), Has(H[t], t, x), Agree(r, H[t], x)
    PROVE  Agree(r, H[t], Len(r)) /\ x <= Len(r)
<1>1. PICK s \in Seq(Entry) : s = H[t]
  OBVIOUS
<1>2. /\ Len(r) \in Nat /\ DOMAIN r = 1 .. Len(r) /\ Len(s) \in Nat /\ DOMAIN s = 1 .. Len(s)
  BY LogElements
<1>3. x \in DOMAIN s /\ s[x].Term = t /\ x <= Len(r) /\ \A q \in 1 .. x : r[q] = s[q]
  BY <1>1 DEF Has, Agree
<1>4. x \in DOMAIN r /\ r[x].Term = t
  <2>1. x \in 1 .. Len(r) /\ x \in 1 .. x
    BY <1>2, <1>3
  <2>2. r[x] = s[x]
    BY <1>3, <2>1
  <2> QED BY <1>2, <1>3, <2>1, <2>2
<1>5. r # <<>> /\ Len(r) \in DOMAIN r
  BY <1>4, LastPosition
<1>6. PICK y \in Nat : y = r[Len(r)].Term
  BY <1>5, LogElements
<1>7. t <= y /\ y <= t
  BY <1>2, <1>3, <1>4, <1>5, <1>6, RisingLog DEF NoneAfter
<1>8. r[Len(r)].Term = t
  <2>1. y = t
    BY <1>7
  <2> QED BY <1>6, <2>1
<1> QED BY <1>3, <1>5, <1>8 DEF Traced

\* Whoever accepts a request mirrors the leader, up to the last entry of the
\* request at least.
LEMMA AcceptMirrors ==
    ASSUME NEW H, NEW A, NEW G, NEW B, Onward(H, A, G, B), AckInv(H, A), SendInv(H, A),
           NEW c \in UnderWay, AppendAccept(c)
    PROVE  /\ c.to \in Server /\ c.Term \in Nat /\ currentTerm'[c.to] = c.Term /\ Carries(c)
           /\ Agree(node'[c.to].log, H[c.Term], Len(node'[c.to].log))
           /\ LastOf(c) \in Nat /\ LastOf(c) <= Len(node'[c.to].log) /\ Has(H[c.Term], c.Term, LastOf(c))
           /\ Acked(B, c.to, c.Term, LastOf(c))
<1>0. /\ Undisturbed /\ Known /\ UndisturbedInv /\ TypeOK /\ MatchInv(H) /\ Rising(H) /\ LogTerms
      /\ H \in [Nat -> Seq(Entry)] /\ G \in [Nat -> Seq(Entry)]
  BY OnwardFacts DEF Onward
<1>1. PICK k : LET m == StoreEntries(node[c.to], c.Entries, k)
               IN  /\ FollowAppend(c) /\ c.to \in Server
                   /\ Accepts(c, k) /\ m \in Node /\ Whole(m) /\ SameData(node[c.to], m)
                   /\ node'[c.to] = FollowCommit(m, c.LeaderCommit)
                   /\ node'[c.to].log = m.log
  BY <1>0, AcceptedNode
<1>2. /\ c.Term \in Nat /\ c.Entries \in Seq(Entry) /\ c.PrevLogIndex \in Nat
      /\ node[c.to] \in Node /\ Whole(node[c.to]) /\ node[c.to].log \in Seq(Entry)
      /\ Traced(H, node[c.to].log)
  BY <1>0, <1>1, RequestFacts
<1>3. Carries(c) /\ currentTerm'[c.to] = c.Term /\ c.Term >= currentTerm[c.to]
  BY <1>0, <1>1 DEF FollowAppend, FollowLeader, Carries, TypeOK
<1>4. PICK r \in Seq(Entry), m \in Seq(Entry), s \in Seq(Entry), L \in Nat :
         /\ r = node[c.to].log /\ m = node'[c.to].log /\ s = H[c.Term]
         /\ L = LastOf(c)
  <2>1. Len(c.Entries) \in Nat
    BY <1>2, LogElements
  <2>2. LastOf(c) \in Nat
    BY <1>2, <2>1 DEF LastOf
  <2>3. node'[c.to].log \in Seq(Entry) /\ H[c.Term] \in Seq(Entry)
    BY <1>0, <1>1, <1>2, OnwardFacts
  <2> QED BY <1>2, <2>2, <2>3
<1>5. Has(H[c.Term], c.Term, L) /\ (c.Entries = <<>> => Acked(A, c.to, c.Term, L))
  BY <1>3, <1>4 DEF SendInv
<1>6. Agree(m, s, Len(m)) /\ L <= Len(m)
  <2>1. CASE c.Entries = <<>>
    <3>1. PICK x \in Nat : L <= x /\ <<c.to, c.Term, x>> \in A
      BY <1>5, <2>1 DEF Acked
    <3>2. c.Term <= currentTerm[c.to]
      BY <1>1, <1>2, <3>1 DEF AckInv
    <3>3. currentTerm[c.to] \in Nat
      BY <1>0, <1>1 DEF TypeOK
    <3>4. c.Term = currentTerm[c.to]
      BY <1>2, <1>3, <3>2, <3>3
    <3>5. Mirrors(H, c.to) /\ x <= Len(r)
      BY <1>1, <1>2, <1>4, <3>1, <3>4 DEF AckInv
    <3>6. Agree(r, s, Len(r))
      BY <1>4, <3>4, <3>5 DEF Mirrors
    <3>7. m = r
      <4>1. k = Len(c.Entries) + 1
        BY <1>1, <2>1 DEF Accepts
      <4>2. k \in 1 .. Len(c.Entries) + 1 /\ k \notin DOMAIN c.Entries
        BY <1>1, <2>1 DEF Accepts
      <4>3. StoreEntries(node[c.to], c.Entries, k).log = node[c.to].log
        BY <1>2, <4>1, <4>2, StoredLog
      <4> QED BY <1>1, <1>4, <4>3
    <3>8. Len(r) \in Nat
      BY LogElements
    <3> QED BY <3>1, <3>5, <3>6, <3>7, <3>8
  <2>2. CASE c.Entries # <<>>
    <3>1. (m = r \/ Agree(m, s, Len(m))) /\ Agree(m, s, L)
      BY <1>0, <1>1, <1>4, <2>2, AcceptedLog DEF LastOf
    <3>2. CASE m = r
      <4>1. NoneAfter(r, c.Term)
        <5>1. currentTerm[c.to] \in Nat /\ \A q \in DOMAIN r : r[q].Term \in Nat /\ r[q].Term <= currentTerm[c.to]
          BY <1>0, <1>1, <1>4, LogElements DEF TypeOK, LogTerms
        <5> QED BY <1>2, <1>3, <5>1 DEF NoneAfter
      <4>2. Agree(r, H[c.Term], L) /\ Traced(H, r)
        BY <1>2, <1>4, <3>1, <3>2
      <4>3. Agree(r, H[c.Term], Len(r)) /\ L <= Len(r)
        BY <1>0, <1>2, <1>5, <4>1, <4>2, SameTermAgrees
      <4> QED BY <1>4, <3>2, <4>3
    <3>3. CASE Agree(m, s, Len(m))
      BY <3>1, <3>3 DEF Agree
    <3> QED BY <3>1, <3>2, <3>3
  <2> QED BY <2>1, <2>2
<1>7. Acked(B, c.to, c.Term, L)
  <2>1. PICK g \in Seq(Entry) : g = G[c.Term] /\ Grows(s, g)
    <3>1. Grows(H[c.Term], G[c.Term])
      BY <1>2, OnwardFacts
    <3> QED BY <1>0, <1>2, <1>4, <3>1
  <2>2. Len(m) \in Nat /\ Len(s) \in Nat /\ Len(g) \in Nat
    BY LogElements
  <2>3. Agree(m, g, Len(m))
    BY <1>6, <2>1, <2>2, AgreeGrows
  <2>4. g # <<>>
    <3>1. s # <<>>
      BY <1>4, <1>5, LastPosition DEF Has
    <3> QED BY <2>1, <2>2, <3>1, LastPosition DEF Grows
  <2>5. Mirrors(G, c.to)'
    BY <1>3, <1>4, <2>1, <2>3, <2>4 DEF Mirrors
  <2>6. <<c.to, c.Term, Len(m)>> \in B
    BY <1>1, <1>3, <1>4, <2>5, Zenon DEF Onward, Acks
  <2> QED BY <1>6, <2>2, <2>6 DEF Acked
<1> QED BY <1>1, <1>2, <1>3, <1>4, <1>5, <1>6, <1>7

\* What is acknowledged stays so.
LEMMA AckedGrows ==
    ASSUME NEW A, NEW B, A \subseteq B, NEW p, NEW t, NEW k, Acked(A, p, t, k)
    PROVE  Acked(B, p, t, k)
BY DEF Acked

\* Requests after a step.
LEMMA SendRequests ==
    ASSUME NEW H, NEW A, NEW G, NEW B, Onward(H, A, G, B), SendInv(H, A),
           NEW d \in UnderWay', Carries(d)
    PROVE  /\ Has(G[d.Term], d.Term, LastOf(d))
           /\ d.Entries = <<>> => Acked(B, d.to, d.Term, LastOf(d))
<1>0. /\ Undisturbed /\ Known /\ UndisturbedInv /\ Next /\ TypeOK /\ MatchInv(H) /\ Rising(H)
      /\ H \in [Nat -> Seq(Entry)] /\ G \in [Nat -> Seq(Entry)]
      /\ \A t \in Nat : Grows(H[t], G[t])
      /\ A \subseteq B
  BY OnwardFacts DEF Onward
<1>1. ASSUME NEW t \in Nat, NEW k, Has(H[t], t, k) PROVE Has(G[t], t, k)
  BY <1>0, <1>1, HasGrows
<1>2. ASSUME NEW c \in UnderWay, Carries(c), d.Term = c.Term, d.to = c.to, d.Entries = c.Entries,
             d.PrevLogIndex = c.PrevLogIndex
      PROVE  /\ Has(G[d.Term], d.Term, LastOf(d))
             /\ d.Entries = <<>> => Acked(B, d.to, d.Term, LastOf(d))
  <2>1. c.Term \in Nat /\ LastOf(d) = LastOf(c)
    BY <1>0, <1>2, CallKind DEF TypeOK, LastOf
  <2>2. Has(H[c.Term], c.Term, LastOf(c)) /\ (c.Entries = <<>> => Acked(A, c.to, c.Term, LastOf(c)))
    BY <1>2 DEF SendInv
  <2> QED BY <1>0, <1>1, <1>2, <2>1, <2>2, AckedGrows
<1>3. ASSUME NEW i \in Server, NEW p \in Server, p # i, HeartBeat(i), d = AppendFor(i, p)
      PROVE  /\ Has(G[d.Term], d.Term, LastOf(d))
             /\ d.Entries = <<>> => Acked(B, d.to, d.Term, LastOf(d))
  <2>0. state[i] = Leader
    BY <1>3 DEF HeartBeat
  <2>1. PICK t \in Nat, h \in Seq(Entry), L \in Nat :
           t = currentTerm[i] /\ h = node[i].log /\ h = H[t] /\ h # <<>> /\ L = Len(h)
    <3>1. currentTerm[i] \in Nat /\ node[i].log \in Seq(Entry)
      BY OnwardFacts
    <3>2. node[i].log = H[currentTerm[i]] /\ node[i].log # <<>> /\ Len(node[i].log) \in Nat
      BY <1>0, <2>0, <3>1, LogElements DEF MatchInv, SendInv
    <3> QED BY <3>1, <3>2
  <2>2. /\ d.Term = t /\ d.to = p /\ d.PrevLogIndex = nextIndex[i][p] - 1
        /\ d.Entries \in Seq(Entry) /\ Len(d.Entries) = L - (nextIndex[i][p] - 1)
    <3>1. LET a == AppendFor(i, p) IN a.Term = currentTerm[i] /\ a.to = p
      BY DEF AppendFor
    <3>2. AppendFor(i, p).Entries \in Seq(Entry)
      BY <1>0, <2>0, AppendForCopied
    <3>3. AppendFor(i, p).PrevLogIndex = nextIndex[i][p] - 1
      BY <1>0, <2>0, AppendForCopied
    <3>4. Len(AppendFor(i, p).Entries) = Len(node[i].log) - (nextIndex[i][p] - 1)
      BY <1>0, <2>0, AppendForCopied
    <3> QED BY <1>3, <2>1, <3>1, <3>2, <3>3, <3>4, Zenon
  <2>3. nextIndex[i][p] \in Nat
    BY <1>0 DEF TypeOK
  <2>4. LastOf(d) = L
    BY <2>2, <2>3 DEF LastOf
  <2>5. Has(H[t], t, L)
    BY <2>1, LastPosition, <1>0 DEF Has, Rising
  <2>6. ASSUME d.Entries = <<>> PROVE Acked(B, d.to, d.Term, LastOf(d))
    <3>1. Len(d.Entries) = 0
      BY <2>6
    <3>2. nextIndex[i][p] = L + 1
      BY <2>2, <2>3, <3>1
    <3>3. Acked(A, p, t, L)
      BY <1>3, <2>0, <2>1, <3>2 DEF SendInv
    <3> QED BY <1>0, <2>2, <2>4, <3>3, AckedGrows
  <2> QED BY <1>1, <2>2, <2>4, <2>5, <2>6
<1>4. ASSUME NEW c \in UnderWay, SendAppendEntries(c), NEW seen \in SUBSET Shown(c), d = Sent(c, seen)
      PROVE  /\ Has(G[d.Term], d.Term, LastOf(d))
             /\ d.Entries = <<>> => Acked(B, d.to, d.Term, LastOf(d))
  <2>1. Carries(c)
    BY <1>4 DEF SendAppendEntries, Carries
  <2>2. d.Term = c.Term /\ d.to = c.to /\ d.Entries = c.Entries /\ d.PrevLogIndex = c.PrevLogIndex
    BY <1>0, <1>4, SentIsCopied
  <2> QED BY <1>2, <2>1, <2>2
<1> QED BY <1>0, <1>2, <1>3, <1>4, NewAppend

\* Answers after a step.
LEMMA SendAnswers ==
    ASSUME NEW H, NEW A, NEW G, NEW B, Onward(H, A, G, B), AckInv(H, A), SendInv(H, A),
           NEW d \in UnderWay', d.kind = "append", d.at \in {"reply", "stepped"}
    PROVE  /\ (d.Success /\ d.lastSent > 0) => Acked(B, d.to, d.Term, d.lastSent)
           /\ d.ConflictIndex <= Len(G[d.Term])
<1>0. /\ Undisturbed /\ Known /\ UndisturbedInv /\ Next /\ TypeOK /\ TypeOK' /\ MatchInv(H)
      /\ H \in [Nat -> Seq(Entry)] /\ G \in [Nat -> Seq(Entry)]
      /\ \A t \in Nat : Grows(H[t], G[t])
      /\ A \subseteq B
  BY OnwardFacts DEF Onward
<1>1. d.Term \in Nat /\ d.ConflictIndex \in Nat
  BY <1>0, CallKind DEF TypeOK, AppendEntriesAnswer
<1>2. /\ Len(H[d.Term]) \in Nat /\ Len(G[d.Term]) \in Nat /\ Len(H[d.Term]) <= Len(G[d.Term])
  BY <1>0, <1>1, LogElements DEF Grows
<1>3. ASSUME NEW c \in UnderWay, c.kind = "append", c.at \in {"reply", "stepped"}, d.Term = c.Term,
             d.to = c.to, d.Success = c.Success, d.lastSent = c.lastSent,
             d.ConflictIndex = c.ConflictIndex
      PROVE  /\ (d.Success /\ d.lastSent > 0) => Acked(B, d.to, d.Term, d.lastSent)
             /\ d.ConflictIndex <= Len(G[d.Term])
  <2>1. /\ (d.Success /\ d.lastSent > 0) => Acked(A, d.to, d.Term, d.lastSent)
        /\ d.ConflictIndex <= Len(H[d.Term])
    BY <1>3 DEF SendInv
  <2>2. d.ConflictIndex <= Len(G[d.Term])
    BY <1>1, <1>2, <2>1
  <2> QED BY <1>0, <2>1, <2>2, AckedGrows
<1>4. ASSUME d.ConflictIndex = 0 PROVE d.ConflictIndex <= Len(G[d.Term])
  BY <1>2, <1>4
<1>5. ASSUME NEW c \in UnderWay, AppendAccept(c), d.Term = c.Term, d.to = c.to,
             d.lastSent = IF c.Entries = <<>> THEN 0 ELSE c.Entries[Len(c.Entries)].Index
      PROVE  d.lastSent > 0 => Acked(B, d.to, d.Term, d.lastSent)
  <2> SUFFICES ASSUME d.lastSent > 0 PROVE Acked(B, d.to, d.Term, d.lastSent)
    OBVIOUS
  <2>1. c.Entries # <<>> /\ d.lastSent = c.Entries[Len(c.Entries)].Index
    BY <1>5
  <2>2. FollowAppend(c)
    BY <1>5 DEF AppendAccept
  <2>3. /\ c.Entries \in Seq(Entry)
        /\ \A q \in DOMAIN c.Entries : c.Entries[q].Index = c.PrevLogIndex + q
    BY <1>0, <2>2, RequestFacts
  <2>4. Len(c.Entries) \in DOMAIN c.Entries
    BY <2>1, <2>3, LastPosition
  <2>5. d.lastSent = LastOf(c)
    BY <2>1, <2>3, <2>4 DEF LastOf
  <2> QED BY <1>5, <2>5, AcceptMirrors
<1>6. ASSUME NEW c \in UnderWay, AppendGap(c), d.Term = c.Term,
             d.ConflictIndex = node[c.to].logOffset + Len(node[c.to].log) + 1
      PROVE  d.ConflictIndex <= Len(G[d.Term])
  <2>1. PICK k \in DOMAIN c.Entries :
           /\ FollowAppend(c) /\ FirstNew(node[c.to], c.Entries, k)
           /\ ~Conflicts(node[c.to], c.Entries, k) /\ ~LinesUp(node[c.to], c.Entries, k)
    BY <1>6 DEF AppendGap
  <2>2. /\ c.Entries \in Seq(Entry) /\ c.PrevLogIndex \in Nat /\ node[c.to] \in Node /\ Whole(node[c.to])
        /\ c.PrevLogIndex + k \in DOMAIN H[c.Term] /\ c.Entries[k].Index = c.PrevLogIndex + k
    BY <1>0, <2>1, RequestFacts
  <2>3. PICK x \in Nat, a \in Nat, b \in Nat :
           x = c.Entries[k].Index /\ a = Len(node[c.to].log) /\ b = Len(H[d.Term])
    BY <1>2, <2>2, WholeFacts, LogElements
  <2>4. x \in 1 .. b
    BY <1>0, <1>1, <1>6, <2>2, <2>3, LogElements
  <2>5. x \notin 1 .. a
    <3>1. ~HasEntry(node[c.to], x)
      BY <2>1, <2>3 DEF Conflicts
    <3>2. x \notin DOMAIN node[c.to].log /\ DOMAIN node[c.to].log = 1 .. a
      BY <2>2, <2>3, <3>1, WholeFacts
    <3> QED BY <3>2
  <2>6. node[c.to].logOffset = 0
    BY <2>2 DEF Whole
  <2>7. x # a + 1
    BY <2>1, <2>3, <2>6 DEF LinesUp
  <2>8. d.ConflictIndex = a + 1
    BY <1>6, <2>3, <2>6
  <2>9. a + 1 <= b
    BY <2>4, <2>5, <2>7
  <2> QED BY <1>2, <2>3, <2>8, <2>9
<1>7. ASSUME NEW c \in UnderWay, Answers(c, d)
      PROVE  /\ (d.Success /\ d.lastSent > 0) => Acked(B, d.to, d.Term, d.lastSent)
             /\ d.ConflictIndex <= Len(G[d.Term])
  BY <1>3, <1>4, <1>5, <1>6, <1>7, Zenon DEF Answers
<1>8. CASE d \in UnderWay
  BY <1>3, <1>8
<1> QED BY <1>0, <1>7, <1>8, NewAnswer

\* What changes matchIndex.
LEMMA MatchIndexSteps ==
    ASSUME Next
    PROVE  \/ UNCHANGED matchIndex
           \/ \E i \in Server : Die(i)
           \/ \E c \in UnderWay : becomeLeader(c) \/ AppendSucceeded(c) \/ SnapshotReply(c)
<1> DEFINE Goal == \/ UNCHANGED matchIndex
                   \/ \E i \in Server : Die(i)
                   \/ \E c \in UnderWay : becomeLeader(c) \/ AppendSucceeded(c) \/ SnapshotReply(c)
<1>1. ASSUME Election PROVE Goal
  BY <1>1, Zenon DEF Election, TimerFires, becomeCandidate, HandleRequestVote, VoteReply,
                     VoteStepDown, leaderVars
<1>2. ASSUME Replication PROVE Goal
  BY <1>2, Zenon DEF Replication, HeartBeat, HeartBeatPanic, HeartBeatExit, Propose,
                     SendAppendEntries, AppendStale, AppendMismatch, AppendTruncateFails,
                     AppendGap, AppendAccept, FollowAppend, FollowLeader, AppendReplyStepDown,
                     AppendFailed, leaderVars
<1>3. ASSUME SnapshotTransfer PROVE Goal
  BY <1>3, Zenon DEF SnapshotTransfer, SendInstallSnapshot, SnapshotStale, HandleInstallSnapshot,
                     FollowLeader, leaderVars
<1>4. ASSUME Failure PROVE Goal
  BY <1>4, Zenon DEF Failure, Crash, Start, Lose, leaderVars
<1> QED BY <1>1, <1>2, <1>3, <1>4 DEF Next

\* A leader's bookkeeping is about its own term.
LEMMA BookkeepingTerm ==
    ASSUME NEW H, NEW A, NEW G, NEW B, Onward(H, A, G, B), SendInv(H, A),
           NEW c \in UnderWay, AtBookkeeping(c)
    PROVE  /\ c.from \in Server /\ c.to \in Server /\ c.from # c.to /\ c.Term \in Nat
           /\ c.lastSent \in Nat /\ c.ConflictIndex \in Nat /\ c.Success \in BOOLEAN
           /\ c.Success => /\ c.Term = currentTerm[c.from]
                           /\ c.lastSent > 0 => Acked(A, c.to, c.Term, c.lastSent)
           /\ c.ConflictIndex > 0 => /\ c.Term = currentTerm[c.from]
                                     /\ c.ConflictIndex <= Len(H[c.Term])
<1>0. Undisturbed /\ UndisturbedInv /\ TypeOK
  BY OnwardFacts
<1>1. c.kind = "append" /\ c.at \in {"reply", "stepped"} /\ c \in Call
  BY <1>0 DEF AtBookkeeping, TypeOK
<1>2. /\ c.from \in Server /\ c.to \in Server /\ c.Term \in Nat
      /\ c.lastSent \in Nat /\ c.ConflictIndex \in Nat /\ c.Success \in BOOLEAN
  BY <1>1, CallKind DEF AppendEntriesAnswer
<1>3. c.at = "stepped" => ~c.Success /\ c.ConflictIndex = 0
  BY <1>0, <1>1 DEF UndisturbedInv, ReachInv
<1>4. c.at # "stepped" => c.Term = currentTerm[c.from]
  BY <1>0 DEF AtBookkeeping, InTime, Undisturbed
<1>5. c.from # c.to
  BY <1>0, <1>1 DEF UndisturbedInv, AppendsOnly
<1> QED BY <1>1, <1>2, <1>3, <1>4, <1>5 DEF SendInv

\* nextIndex and matchIndex after a step.
LEMMA SendIndices ==
    ASSUME NEW H, NEW A, NEW G, NEW B, Onward(H, A, G, B), SendInv(H, A),
           NEW i \in Server, NEW p \in Server, state'[i] = Leader
    PROVE  /\ node'[i].log # <<>>
           /\ (p # i /\ nextIndex'[i][p] = Len(node'[i].log) + 1) =>
                 Acked(B, p, currentTerm'[i], Len(node'[i].log))
           /\ matchIndex'[i][p] > 0 => p # i /\ Acked(B, p, currentTerm'[i], matchIndex'[i][p])
<1>0. /\ Undisturbed /\ Known /\ UndisturbedInv /\ Next /\ TypeOK /\ TypeOK' /\ MatchInv(H) /\ A \subseteq B
      /\ nextIndex \in [Server -> [Server -> Nat]] /\ matchIndex \in [Server -> [Server -> Nat]]
      /\ \A c \in UnderWay : c.from \in Server /\ c.to \in Server
      /\ \A j \in Server : ~Die(j)
  <2>1. Undisturbed /\ Known /\ UndisturbedInv /\ Next /\ TypeOK /\ TypeOK' /\ MatchInv(H) /\ A \subseteq B
    BY OnwardFacts DEF Onward
  <2>2. /\ nextIndex \in [Server -> [Server -> Nat]] /\ matchIndex \in [Server -> [Server -> Nat]]
        /\ \A c \in UnderWay : c.from \in Server /\ c.to \in Server
    BY <2>1, CallKind DEF TypeOK
  <2>3. \A j \in Server : ~Die(j)
    BY <2>1, NodesRun
  <2> QED BY <2>1, <2>2, <2>3
<1>1. PICK r \in Seq(Entry), m \in Seq(Entry), t \in Nat :
         r = node[i].log /\ m = node'[i].log /\ t = currentTerm[i] /\ t = currentTerm'[i]
  <2>1. node[i].log \in Seq(Entry) /\ node'[i].log \in Seq(Entry) /\ currentTerm[i] \in Nat
    BY OnwardFacts
  <2>2. currentTerm'[i] = currentTerm[i]
    BY <1>0, LeaderTermStands
  <2> QED BY <2>1, <2>2
<1>2. /\ Len(r) \in Nat /\ Len(m) \in Nat /\ Len(r) <= Len(m)
  BY <1>0, <1>1, LeaderLogGrows, LogElements DEF Grows
<1>3. ASSUME NEW c \in UnderWay, becomeLeader(c), c.from = i
      PROVE  /\ m # <<>> /\ nextIndex'[i][p] # Len(m) + 1 /\ matchIndex'[i][p] = 0
  <2>1. /\ nextIndex'[i][p] = LastIndex(node[i]) + 1 /\ matchIndex'[i][p] = 0
        /\ node'[i] = AppendAll(node[i], <<NewEntry(node[i], currentTerm[i], NoOp)>>)
    BY <1>0, <1>3 DEF becomeLeader, TypeOK
  <2>2. node[i] \in Node /\ Whole(node[i])
    BY <1>0 DEF TypeOK, UndisturbedInv, AllWhole
  <2>3. LastIndex(node[i]) = Len(r)
    BY <1>1, <2>2, WholeFacts
  <2>4. PICK e \in Entry : e = NewEntry(node[i], currentTerm[i], NoOp)
    BY <1>1, <2>2, NewEntryType
  <2>5. m = r \o <<e>>
    BY <1>1, <2>1, <2>2, <2>4, AppendSameData
  <2>6. Len(m) = Len(r) + 1
    BY <2>5
  <2> QED BY <1>2, <2>1, <2>3, <2>6, LastPosition
<1>4. ASSUME state[i] = Leader
      PROVE  /\ r # <<>> /\ r = H[t] /\ nextIndex[i][p] \in 1 .. Len(r) + 1
             /\ (p # i /\ nextIndex[i][p] = Len(r) + 1) => Acked(A, p, t, Len(r))
             /\ matchIndex[i][p] > 0 => p # i /\ Acked(A, p, t, matchIndex[i][p])
  BY <1>0, <1>1, <1>4 DEF SendInv, MatchInv, UndisturbedInv, NextInv
<1>5. ASSUME state[i] = Leader, nextIndex'[i][p] = nextIndex[i][p], p # i,
             nextIndex'[i][p] = Len(m) + 1
      PROVE  Acked(A, p, t, Len(m))
  <2>1. nextIndex[i][p] = Len(r) + 1 /\ Len(m) = Len(r)
    BY <1>2, <1>4, <1>5
  <2> QED BY <1>4, <1>5, <2>1
<1>6. ASSUME NEW c \in UnderWay, AppendSucceeded(c) \/ AppendFailed(c), state[i] = Leader, p # i,
             nextIndex'[i][p] = Len(m) + 1
      PROVE  Acked(A, p, t, Len(m))
  <2>1. AtBookkeeping(c) /\ nextIndex' = [nextIndex EXCEPT ![c.from][c.to] = NextIndexAfter(@, c)]
    BY <1>6 DEF AppendSucceeded, AppendFailed
  <2>2. CASE c.from = i /\ c.to = p
    <3>1. nextIndex'[i][p] = NextIndexAfter(nextIndex[i][p], c)
      BY <1>0, <2>1, <2>2
    <3>2. PICK x \in Nat : x = nextIndex[i][p] /\ x \in 1 .. Len(r) + 1
      BY <1>0, <1>4, <1>6
    <3>3. /\ c.lastSent \in Nat /\ c.ConflictIndex \in Nat /\ c.Success \in BOOLEAN
          /\ c.Success /\ c.lastSent > 0 => Acked(A, p, t, c.lastSent)
      BY <1>1, <2>1, <2>2, BookkeepingTerm
    <3>4. c.ConflictIndex > 0 => c.ConflictIndex <= Len(r)
      BY <1>1, <1>4, <1>6, <2>1, <2>2, BookkeepingTerm
    <3>5. CASE c.Success /\ c.lastSent > 0
      <4>1. Len(m) = c.lastSent
        BY <1>2, <1>6, <3>1, <3>3, <3>5 DEF NextIndexAfter
      <4> QED BY <3>3, <3>5, <4>1
    <3>6. CASE NextIndexAfter(x, c) = x
      BY <1>5, <1>6, <3>1, <3>2, <3>6
    <3>7. CASE ~c.Success /\ c.ConflictIndex > 0
      BY <1>2, <1>6, <3>1, <3>3, <3>4, <3>7 DEF NextIndexAfter
    <3>8. CASE NextIndexAfter(x, c) = x - 1
      BY <1>2, <1>6, <3>1, <3>2, <3>8
    <3> QED BY <3>5, <3>6, <3>7, <3>8 DEF NextIndexAfter
  <2>3. CASE ~(c.from = i /\ c.to = p)
    <3>1. nextIndex'[i][p] = nextIndex[i][p]
      BY <1>0, <2>1, <2>3
    <3> QED BY <1>5, <1>6, <3>1
  <2> QED BY <2>2, <2>3
<1>7. ASSUME NEW c \in UnderWay, SnapshotReply(c) PROVE FALSE
  BY <1>0, <1>7 DEF SnapshotReply, UndisturbedInv, AppendsOnly
<1>8. ASSUME NEW c \in UnderWay, becomeLeader(c), c.from # i
      PROVE  nextIndex'[i][p] = nextIndex[i][p] /\ matchIndex'[i][p] = matchIndex[i][p]
  BY <1>0, <1>8 DEF becomeLeader
<1>9. state[i] = Leader \/ \E c \in UnderWay : becomeLeader(c) /\ c.from = i
  BY <1>0, CalmUnlessElected, Elected DEF Calm
<1>10. m # <<>>
  BY <1>2, <1>3, <1>4, <1>9, LastPosition
<1>11. ASSUME p # i, nextIndex'[i][p] = Len(m) + 1 PROVE Acked(B, p, t, Len(m))
  <2>1. state[i] = Leader
    BY <1>3, <1>9, <1>11
  <2>2. Acked(A, p, t, Len(m))
    BY <1>0, <1>3, <1>5, <1>6, <1>7, <1>8, <1>11, <2>1, NextIndexSteps
  <2> QED BY <1>0, <2>2, AckedGrows
<1>12. ASSUME NEW c \in UnderWay, AppendSucceeded(c), state[i] = Leader, matchIndex'[i][p] > 0
       PROVE  p # i /\ Acked(A, p, t, matchIndex'[i][p])
  <2>1. AtBookkeeping(c) /\ c.Success
    BY <1>12 DEF AppendSucceeded
  <2>2. \/ UNCHANGED matchIndex
        \/ c.lastSent > 0 /\ matchIndex' = [matchIndex EXCEPT ![c.from][c.to] = c.lastSent]
    BY <1>12 DEF AppendSucceeded
  <2>3. CASE matchIndex'[i][p] = matchIndex[i][p]
    BY <1>4, <1>12, <2>3
  <2>4. CASE c.from = i /\ c.to = p /\ c.lastSent > 0 /\ matchIndex'[i][p] = c.lastSent
    BY <1>1, <2>1, <2>4, BookkeepingTerm
  <2>5. \/ matchIndex'[i][p] = matchIndex[i][p]
        \/ c.from = i /\ c.to = p /\ c.lastSent > 0 /\ matchIndex'[i][p] = c.lastSent
    <3>1. CASE UNCHANGED matchIndex
      BY <3>1
    <3>2. CASE c.lastSent > 0 /\ matchIndex' = [matchIndex EXCEPT ![c.from][c.to] = c.lastSent]
      <4>1. matchIndex \in [Server -> [Server -> Nat]] /\ c.from \in Server /\ c.to \in Server
        BY <1>0
      <4>2. CASE c.from = i /\ c.to = p
        BY <3>2, <4>1, <4>2
      <4>3. CASE ~(c.from = i /\ c.to = p)
        BY <3>2, <4>1, <4>3
      <4> QED BY <4>2, <4>3
    <3> QED BY <2>2, <3>1, <3>2
  <2> QED BY <2>3, <2>4, <2>5
<1>13. ASSUME matchIndex'[i][p] > 0 PROVE p # i /\ Acked(B, p, t, matchIndex'[i][p])
  <2>1. state[i] = Leader
    BY <1>3, <1>9, <1>13
  <2>2. CASE UNCHANGED matchIndex
    <3>1. matchIndex'[i][p] = matchIndex[i][p]
      BY <2>2
    <3> QED BY <1>0, <1>4, <1>13, <2>1, <3>1, AckedGrows
  <2>3. ASSUME NEW c \in UnderWay, becomeLeader(c) PROVE p # i /\ Acked(B, p, t, matchIndex'[i][p])
    <3>1. c.from # i
      BY <1>3, <1>13, <2>3
    <3>2. matchIndex'[i][p] = matchIndex[i][p]
      BY <1>8, <2>3, <3>1
    <3> QED BY <1>0, <1>4, <1>13, <2>1, <3>2, AckedGrows
  <2>4. ASSUME NEW c \in UnderWay, AppendSucceeded(c) PROVE p # i /\ Acked(B, p, t, matchIndex'[i][p])
    BY <1>0, <1>12, <1>13, <2>1, <2>4, AckedGrows
  <2> QED BY <1>0, <1>7, <2>2, <2>3, <2>4, MatchIndexSteps
<1> QED BY <1>1, <1>10, <1>11, <1>13

\* Replication after a step.
LEMMA SendStep ==
    ASSUME NEW H, NEW A, NEW G, NEW B, Onward(H, A, G, B), AckInv(H, A), SendInv(H, A)
    PROVE  SendInv(G, B)'
<1>1. \A d \in UnderWay' : Carries(d) =>
         /\ Has(G[d.Term], d.Term, LastOf(d))
         /\ d.Entries = <<>> => Acked(B, d.to, d.Term, LastOf(d))
  BY SendRequests
<1>2. \A d \in UnderWay' : (d.kind = "append" /\ d.at \in {"reply", "stepped"}) =>
         /\ (d.Success /\ d.lastSent > 0) => Acked(B, d.to, d.Term, d.lastSent)
         /\ d.ConflictIndex <= Len(G[d.Term])
  BY SendAnswers
<1>3. \A i, p \in Server : state'[i] = Leader =>
         /\ node'[i].log # <<>>
         /\ (p # i /\ nextIndex'[i][p] = Len(node'[i].log) + 1) =>
               Acked(B, p, currentTerm'[i], Len(node'[i].log))
         /\ matchIndex'[i][p] > 0 => p # i /\ Acked(B, p, currentTerm'[i], matchIndex'[i][p])
  BY SendIndices
<1> QED BY <1>1, <1>2, <1>3 DEF SendInv, Carries, LastOf

-----------------------------------------------------------------------------
(* What is chosen stays.                                                   *)

\* Every later leader has what a majority has acknowledged: the first that
\* had it not would have been elected by somebody who covers it.
LEMMA ChosenStays ==
    ASSUME NEW H, NEW A, LeaderInv(H, A), NEW t \in Nat, NEW k \in Nat, Chosen(H, A, t, k),
           NEW u \in Nat, t < u, H[u] # <<>>
    PROVE  Has(H[u], t, k)
<1> DEFINE Missing == {v \in Nat : t < v /\ H[v] # <<>> /\ ~Has(H[v], t, k)}
<1> SUFFICES ASSUME Missing # {} PROVE FALSE
  OBVIOUS
<1>1. PICK v \in Missing : \A w \in Missing : v <= w
  <2>1. Missing \subseteq Nat
    OBVIOUS
  <2> HIDE DEF Missing
  <2> QED BY <2>1, LeastNatural
<1>2. v \in Nat /\ t < v /\ H[v] # <<>> /\ ~Has(H[v], t, k)
  OBVIOUS
<1>3. PICK Q \in SUBSET Server : Cardinality(Q) >= Majority /\ \A p \in Q : Covers(H, A, p, H[v], v)
  BY <1>2 DEF LeaderInv
<1>4. PICK R \in SUBSET Server : Cardinality(R) >= Majority /\ \A p \in R : Acked(A, p, t, k)
  BY DEF Chosen
<1>5. PICK p \in Server : p \in Q \cap R
  BY <1>3, <1>4, Majorities
<1>6. Covers(H, A, p, H[v], v) /\ Acked(A, p, t, k) /\ Has(H[t], t, k)
  BY <1>3, <1>4, <1>5 DEF Chosen
<1>7. Lost(H, t, k, v)
  BY <1>2, <1>6 DEF Covers
<1>8. PICK w \in Nat : t < w /\ w < v /\ H[w] # <<>> /\ ~Has(H[w], t, k)
  BY <1>7 DEF Lost
<1>9. v <= w
  BY <1>1, <1>8
<1> QED BY <1>2, <1>8, <1>9

\* So the logs of the leaders agree on it and on all that is before it.
LEMMA ChosenAgree ==
    ASSUME NEW H, MatchInv(H), NEW A, LeaderInv(H, A), NEW t \in Nat, NEW k \in Nat,
           Chosen(H, A, t, k), NEW u \in Nat, t <= u, H[u] # <<>>
    PROVE  Agree(H[t], H[u], k)
<1>0. H \in [Nat -> Seq(Entry)] /\ Traced(H, H[t]) /\ Traced(H, H[u])
  BY DEF MatchInv
<1>1. PICK r \in Seq(Entry), s \in Seq(Entry) : r = H[t] /\ s = H[u]
  BY <1>0
<1>2. Has(r, t, k)
  BY <1>1 DEF Chosen
<1>3. Has(s, t, k)
  <2>1. CASE t = u
    BY <1>1, <1>2, <2>1
  <2>2. CASE t # u
    <3>1. t < u
      BY <2>2
    <3> QED BY <1>1, <3>1, ChosenStays
  <2> QED BY <2>1, <2>2
<1>4. k \in DOMAIN r /\ k \in DOMAIN s /\ r[k].Term = s[k].Term
  BY <1>2, <1>3 DEF Has
<1>5. Agree(r, s, k)
  BY <1>0, <1>1, <1>4, TermAgrees
<1> QED BY <1>1, <1>5

\* Agreement on a part, and from one log to another.
LEMMA AgreePart ==
    ASSUME NEW r \in Seq(Entry), NEW s \in Seq(Entry), NEW k \in Nat, Agree(r, s, k),
           NEW n \in Nat, n <= k
    PROVE  Agree(r, s, n) /\ Agree(s, r, n)
<1>1. Len(r) \in Nat /\ Len(s) \in Nat
  BY LogElements
<1>2. k <= Len(r) /\ k <= Len(s) /\ \A q \in 1 .. k : r[q] = s[q]
  BY DEF Agree
<1>3. n <= Len(r) /\ n <= Len(s)
  BY <1>1, <1>2
<1>4. \A q \in 1 .. n : q \in 1 .. k
  OBVIOUS
<1> QED BY <1>2, <1>3, <1>4 DEF Agree

LEMMA AgreeTrans ==
    ASSUME NEW r \in Seq(Entry), NEW s \in Seq(Entry), NEW h \in Seq(Entry), NEW n \in Nat,
           Agree(r, s, n), Agree(s, h, n)
    PROVE  Agree(r, h, n)
BY DEF Agree

\* What is chosen stays so.
LEMMA ChosenGrows ==
    ASSUME NEW H, NEW A, NEW G, NEW B, Onward(H, A, G, B), NEW t \in Nat, NEW k \in Nat,
           Chosen(H, A, t, k)
    PROVE  Chosen(G, B, t, k)
<1>1. H[t] \in Seq(Entry) /\ G[t] \in Seq(Entry) /\ Grows(H[t], G[t]) /\ A \subseteq B
  <2>1. /\ H \in [Nat -> Seq(Entry)] /\ G \in [Nat -> Seq(Entry)]
        /\ Grows(H[t], G[t]) /\ A \subseteq B
    BY OnwardFacts
  <2> QED BY <2>1
<1>2. Has(G[t], t, k)
  BY <1>1, HasGrows DEF Chosen
<1>3. PICK Q \in SUBSET Server : Cardinality(Q) >= Majority /\ \A p \in Q : Acked(A, p, t, k)
  BY DEF Chosen
<1>4. \A p \in Q : Acked(B, p, t, k)
  BY <1>1, <1>3, AckedGrows
<1> QED BY <1>2, <1>3, <1>4 DEF Chosen

\* The settled part of a log is not touched.
LEMMA SettledStep ==
    ASSUME NEW H, NEW A, NEW G, NEW B, Onward(H, A, G, B), LeaderInv(H, A), SendInv(H, A),
           NEW p \in Server, NEW n \in Nat, Settled(H, A, node[p].log, n, currentTerm[p])
    PROVE  /\ Settled(G, B, node'[p].log, n, currentTerm'[p])
           /\ Agree(node[p].log, node'[p].log, n)
<1>0. /\ H \in [Nat -> Seq(Entry)] /\ G \in [Nat -> Seq(Entry)] /\ TypeOK
      /\ \A v \in Nat : Grows(H[v], G[v])
      /\ currentTerm[p] \in Nat /\ currentTerm'[p] \in Nat /\ currentTerm[p] <= currentTerm'[p]
  BY OnwardFacts
<1>1. PICK t \in Nat, k \in Nat :
         /\ t <= currentTerm[p] /\ n <= k /\ Chosen(H, A, t, k)
         /\ Agree(node[p].log, H[t], n)
  BY DEF Settled
<1>2. PICK r \in Seq(Entry), m \in Seq(Entry), h \in Seq(Entry), g \in Seq(Entry) :
         r = node[p].log /\ m = node'[p].log /\ h = H[t] /\ g = G[t]
  BY <1>0, OnwardFacts
<1>3. Agree(r, h, n) /\ Grows(h, g) /\ n <= n /\ Len(r) \in Nat /\ Len(m) \in Nat
  <2>1. n <= n /\ Len(r) \in Nat /\ Len(m) \in Nat
    BY LogElements
  <2> QED BY <1>0, <1>1, <1>2, <2>1, Zenon
<1>4. Agree(h, r, n) /\ n <= Len(r)
  BY <1>3, AgreePart DEF Agree
<1>5. t <= currentTerm'[p]
  <2>1. PICK a \in Nat, b \in Nat : a = currentTerm[p] /\ b = currentTerm'[p]
    BY <1>0
  <2>2. t <= a /\ a <= b
    BY <1>0, <1>1, <2>1
  <2>3. t <= b
    BY <2>2
  <2> QED BY <2>1, <2>3
<1>6. Agree(r, m, n) /\ Agree(m, h, n)
  <2>1. CASE Grows(r, m)
    <3>1. Agree(r, r, n)
      BY <1>4 DEF Agree
    <3>2. Agree(r, m, n)
      BY <2>1, <3>1, AgreeGrows
    <3>3. Agree(m, r, n)
      BY <1>3, <3>2, AgreePart
    <3> QED BY <1>3, <3>2, <3>3, AgreeTrans
  <2>2. CASE m = r
    BY <1>3, <1>4, <2>2 DEF Agree
  <2>3. ASSUME NEW c, Moves(H, p, c) PROVE Agree(r, m, n) /\ Agree(m, h, n)
    <3>1. c.Term \in Nat /\ H[c.Term] # <<>>
      BY <1>0, <2>3, MovesFrom
    <3>2. c.Term = currentTerm'[p]
      BY <2>3 DEF Moves
    <3>3. t <= c.Term
      BY <1>5, <3>2
    <3>4. PICK s \in Seq(Entry) : s = H[c.Term]
      BY <1>0, <3>1
    <3>5. Agree(h, s, k)
      BY <1>1, <1>2, <3>1, <3>3, <3>4, ChosenAgree DEF Onward
    <3>6. Agree(h, s, n) /\ Agree(s, h, n)
      BY <1>1, <3>5, AgreePart
    <3>7. Agree(r, s, n)
      BY <1>3, <3>6, AgreeTrans
    <3>8. Agree(m, s, n)
      BY <1>2, <2>3, <3>4, <3>7 DEF Moves
    <3>9. Agree(m, h, n)
      BY <3>6, <3>8, AgreeTrans
    <3>10. Agree(h, m, n)
      BY <1>3, <3>9, AgreePart
    <3> QED BY <1>3, <3>9, <3>10, AgreeTrans
  <2> QED BY <1>2, <2>1, <2>2, <2>3, LogMoves DEF Onward
<1>7. Agree(m, g, n)
  BY <1>3, <1>6, AgreeGrows
<1>8. Chosen(G, B, t, k)
  BY <1>1, ChosenGrows
<1> QED BY <1>1, <1>2, <1>6, <1>7, <1>5, <1>8 DEF Settled

-----------------------------------------------------------------------------
(* What a state machine holds.                                             *)

\* The positions in P that set key.
Sets(s, P, key) == {q \in P : s[q].Data # NoOp /\ s[q].Data.key = key}

Last(T) == CHOOSE q \in T : \A x \in T : x <= q

\* The value of a key is what was set last.
LEMMA ApplyAllAt ==
    ASSUME NEW data, NEW s, NEW P
    PROVE  ApplyAll(data, s, P) =
              [key \in Key |-> IF Sets(s, P, key) = {} THEN data[key]
                               ELSE s[Last(Sets(s, P, key))].Data.value]
BY DEF ApplyAll, Sets, Last

\* The last position of a set of positions.
LEMMA LastIn ==
    ASSUME NEW n \in Nat, NEW T, T \subseteq 1 .. n, T # {}
    PROVE  Last(T) \in T /\ \A x \in T : x <= Last(T)
<1>1. \E q \in T : \A x \in T : x <= q
  BY GreatestNatural
<1> QED BY <1>1, Zenon DEF Last

\* Logs that agree give the same data.
LEMMA ApplySame ==
    ASSUME NEW data, NEW n \in Nat, NEW r \in Seq(Entry), NEW s \in Seq(Entry), Agree(r, s, n)
    PROVE  ApplyAll(data, r, 1 .. n) = ApplyAll(data, s, 1 .. n)
<1>1. \A q \in 1 .. n : r[q] = s[q]
  BY DEF Agree
<1>2. ASSUME NEW key \in Key PROVE Sets(r, 1 .. n, key) = Sets(s, 1 .. n, key)
  BY <1>1 DEF Sets
<1>3. ASSUME NEW key \in Key, Sets(r, 1 .. n, key) # {}
      PROVE  r[Last(Sets(r, 1 .. n, key))] = s[Last(Sets(r, 1 .. n, key))]
  <2>1. Sets(r, 1 .. n, key) \subseteq 1 .. n
    BY DEF Sets
  <2>2. Last(Sets(r, 1 .. n, key)) \in 1 .. n
    BY <1>3, <2>1, LastIn
  <2> QED BY <1>1, <2>2
<1> QED BY <1>2, <1>3, ApplyAllAt

\* Applying in two parts.
LEMMA ApplyMore ==
    ASSUME NEW data, NEW s, NEW a \in Nat, NEW b \in Nat, a <= b,
           NEW P, P = {q \in 1 .. b : q \in a + 1 .. b}
    PROVE  ApplyAll(ApplyAll(data, s, 1 .. a), s, P) = ApplyAll(data, s, 1 .. b)
<1> DEFINE first == ApplyAll(data, s, 1 .. a)
<1>1. ASSUME NEW key \in Key
      PROVE  (IF Sets(s, P, key) = {} THEN first[key] ELSE s[Last(Sets(s, P, key))].Data.value)
                = (IF Sets(s, 1 .. b, key) = {} THEN data[key]
                   ELSE s[Last(Sets(s, 1 .. b, key))].Data.value)
  <2>1. PICK T, U, V : T = Sets(s, P, key) /\ U = Sets(s, 1 .. b, key) /\ V = Sets(s, 1 .. a, key)
    OBVIOUS
  <2>2. T \subseteq U /\ V \subseteq U /\ U \subseteq T \cup V
    BY <2>1 DEF Sets
  <2>3. T \subseteq 1 .. b /\ U \subseteq 1 .. b /\ \A x \in T, y \in V : y <= x
    BY <2>1 DEF Sets
  <2>4. first[key] = IF V = {} THEN data[key] ELSE s[Last(V)].Data.value
    BY <2>1, ApplyAllAt
  <2>5. CASE T = {}
    <3>1. U = V
      BY <2>2, <2>5
    <3> QED BY <2>1, <2>4, <2>5, <3>1
  <2>6. CASE T # {}
    <3>1. U # {}
      BY <2>2, <2>6
    <3>2. Last(T) \in T /\ Last(U) \in U /\ (\A x \in T : x <= Last(T)) /\ \A x \in U : x <= Last(U)
      BY <2>3, <2>6, <3>1, LastIn
    <3>3. Last(T) \in 1 .. b /\ Last(U) \in 1 .. b /\ Last(T) <= Last(U)
      BY <2>2, <2>3, <3>2
    <3>4. Last(U) <= Last(T)
      BY <2>2, <2>3, <3>2
    <3>5. Last(U) = Last(T)
      BY <3>3, <3>4
    <3> QED BY <2>1, <2>6, <3>1, <3>5
  <2> QED BY <2>5, <2>6
<1>2. ApplyAll(first, s, P) =
         [key \in Key |-> IF Sets(s, P, key) = {} THEN first[key] ELSE s[Last(Sets(s, P, key))].Data.value]
  BY ApplyAllAt
<1>3. ApplyAll(data, s, 1 .. b) =
         [key \in Key |-> IF Sets(s, 1 .. b, key) = {} THEN data[key]
                          ELSE s[Last(Sets(s, 1 .. b, key))].Data.value]
  BY ApplyAllAt
<1> HIDE DEF first
<1>4. ApplyAll(first, s, P) = ApplyAll(data, s, 1 .. b)
  BY <1>1, <1>2, <1>3
<1> QED BY <1>4 DEF first

\* Nothing applied, nothing held.
LEMMA ApplyNothing ==
    ASSUME NEW s
    PROVE  ApplyAll(EmptyStore, s, 1 .. 0) = EmptyStore
<1>1. \A key \in Key : Sets(s, 1 .. 0, key) = {}
  BY DEF Sets
<1> QED BY <1>1, ApplyAllAt DEF EmptyStore

\* The node after the loop that applies what is committed.
LEMMA ApplyCommittedTo ==
    ASSUME NEW n \in Node, Whole(n), n.lastApplied <= Len(n.log), NEW to \in Nat, to <= Len(n.log),
           n.data = ApplyAll(EmptyStore, n.log, 1 .. n.lastApplied)
    PROVE  LET m == ApplyCommitted([n EXCEPT !.commitIndex = to])
           IN  /\ m.commitIndex = to
               /\ m.lastApplied = IF n.lastApplied < to THEN to ELSE n.lastApplied
               /\ m.data = ApplyAll(EmptyStore, n.log, 1 .. m.lastApplied)
<1> DEFINE x == [n EXCEPT !.commitIndex = to]
           P == {p \in DOMAIN x.log : x.logOffset + p \in x.lastApplied + 1 .. x.commitIndex}
<1>1. /\ x.commitIndex = to /\ x.log = n.log /\ x.lastApplied = n.lastApplied /\ x.data = n.data
      /\ x.logOffset = 0 /\ x \in Node
  BY DEF Node, Whole
<1>2. n.lastApplied \in Nat /\ n.log \in Seq(Entry) /\ Len(n.log) \in Nat /\ DOMAIN n.log = 1 .. Len(n.log)
  BY LogElements DEF Node
<1>3. CASE n.lastApplied < to
  <2>1. PICK a \in Nat, s \in Seq(Entry) : a = n.lastApplied /\ s = n.log
    BY <1>2
  <2>2. ApplyCommitted(x) = [x EXCEPT !.lastApplied = x.commitIndex, !.data = ApplyAll(x.data, x.log, P)]
    BY <1>1, <1>3 DEF ApplyCommitted
  <2>3. P = {q \in 1 .. to : q \in a + 1 .. to}
    <3>1. P = {q \in 1 .. Len(s) : 0 + q \in a + 1 .. to}
      BY <1>1, <1>2, <2>1
    <3>2. Len(s) \in Nat /\ to <= Len(s)
      BY <1>2, <2>1
    <3> HIDE DEF P
    <3> QED BY <3>1, <3>2
  <2>4. x.data = ApplyAll(EmptyStore, s, 1 .. a) /\ x.log = s /\ a <= to
    BY <1>1, <1>2, <1>3, <2>1
  <2> HIDE DEF P
  <2>5. ApplyAll(x.data, x.log, P) = ApplyAll(EmptyStore, s, 1 .. to)
    <3> HIDE DEF x
    <3>1. ApplyAll(ApplyAll(EmptyStore, s, 1 .. a), s, P) = ApplyAll(EmptyStore, s, 1 .. to)
      BY <2>3, <2>4, ApplyMore
    <3> QED BY <2>4, <3>1
  <2>6. /\ ApplyCommitted(x).commitIndex = to /\ ApplyCommitted(x).lastApplied = to
        /\ ApplyCommitted(x).data = ApplyAll(EmptyStore, s, 1 .. to)
    <3> HIDE DEF x
    <3> QED BY <1>1, <2>2, <2>5 DEF Node
  <2> QED BY <1>3, <2>1, <2>6
<1>4. CASE ~(n.lastApplied < to)
  <2>1. ApplyCommitted(x) = x
    BY <1>1, <1>4 DEF ApplyCommitted
  <2> QED BY <1>1, <1>4, <2>1
<1> QED BY <1>3, <1>4


-----------------------------------------------------------------------------
(* Commitment.                                                             *)

\* What tryAdvanceCommitIndex counts is a majority: the leader's own entry in
\* matchIndex is 0, and its last index stands for it.
LEMMA CountedIsChosen ==
    ASSUME NEW i \in Server, NEW match \in [Server -> Nat], NEW h \in Seq(Entry), NEW B, NEW t \in Nat,
           \A p \in Server : match[p] > 0 => p # i /\ Acked(B, p, t, match[p]),
           Acked(B, i, t, Len(h)),
           NEW v \in 1 .. Len(h), IsMajorityIndex(match, Len(h), v)
    PROVE  \E Q \in SUBSET Server : Cardinality(Q) >= Majority /\ \A p \in Q : Acked(B, p, t, v)
<1> DEFINE P == {p \in Server : match[p] >= v}
           Q == P \cup {i}
<1>1. Len(h) \in Nat /\ v \in Nat /\ v <= Len(h) /\ v > 0 /\ Len(h) >= v
  BY LogElements
<1>2. i \notin P /\ \A p \in P : Acked(B, p, t, match[p]) /\ match[p] >= v /\ match[p] \in Nat
  BY <1>1
<1>3. IsFiniteSet(P) /\ Cardinality(P) \in Nat /\ Cardinality(Server) \in Nat
  BY ServerAssumption, FS_Subset, FS_CardinalityType
<1>4. Cardinality(Q) = Cardinality(P) + 1
  BY <1>2, <1>3, FS_AddElement
<1>5. (Cardinality(Server) + 1) \div 2 < Cardinality(P) + 1
  BY <1>1 DEF IsMajorityIndex
<1>6. Cardinality(Q) >= Majority
  BY <1>3, <1>4, <1>5 DEF Majority
<1>7. ASSUME NEW p \in Q PROVE Acked(B, p, t, v)
  <2>1. CASE p \in P
    <3>1. PICK m \in Nat : match[p] <= m /\ <<p, t, m>> \in B
      BY <1>2, <2>1 DEF Acked
    <3>2. v <= m
      BY <1>1, <1>2, <2>1, <3>1
    <3> QED BY <3>1, <3>2, Zenon DEF Acked
  <2>2. CASE p = i
    <3>1. PICK m \in Nat : Len(h) <= m /\ <<i, t, m>> \in B
      BY DEF Acked
    <3>2. v <= m
      BY <1>1, <3>1
    <3> QED BY <2>2, <3>1, <3>2, Zenon DEF Acked
  <2> QED BY <2>1, <2>2
<1>8. Q \in SUBSET Server
  OBVIOUS
<1> QED BY <1>6, <1>7, <1>8

\* A node that commits nothing keeps what it has applied.
LEMMA KeepsApplied ==
    ASSUME NEW H, NEW A, NEW G, NEW B, Onward(H, A, G, B), LeaderInv(H, A), SendInv(H, A),
           NEW p \in Server, Applied(H, A, p), SameData(node[p], node'[p])
    PROVE  Applied(G, B, p)'
<1>1. PICK r \in Seq(Entry), m \in Seq(Entry), n \in Nat :
         r = node[p].log /\ m = node'[p].log /\ n = node[p].lastApplied
  BY OnwardFacts DEF Node
<1>2. /\ node'[p].commitIndex = node[p].commitIndex /\ node'[p].lastApplied = n
      /\ node'[p].data = node[p].data
  BY <1>1 DEF SameData
<1>3. /\ node[p].commitIndex <= n /\ (n > 0 => Settled(H, A, r, n, currentTerm[p]))
      /\ node[p].data = ApplyAll(EmptyStore, r, 1 .. n)
  BY <1>1 DEF Applied
<1>4. (n > 0 => Settled(G, B, m, n, currentTerm'[p])) /\ Agree(r, m, n)
  <2>1. CASE n = 0
    <3>1. Len(r) \in Nat /\ Len(m) \in Nat
      BY LogElements
    <3> QED BY <2>1, <3>1 DEF Agree
  <2>2. CASE n > 0
    BY <1>1, <1>3, <2>2, SettledStep
  <2> QED BY <2>1, <2>2
<1>5. ApplyAll(EmptyStore, r, 1 .. n) = ApplyAll(EmptyStore, m, 1 .. n)
  BY <1>4, ApplySame
<1> QED BY <1>1, <1>2, <1>3, <1>4, <1>5 DEF Applied

\* A node that commits, and applies what it has not applied yet.
LEMMA CommitsTo ==
    ASSUME NEW H, NEW A, NEW G, NEW B, Onward(H, A, G, B), LeaderInv(H, A), SendInv(H, A),
           NEW p \in Server, Applied(H, A, p),
           NEW m \in Node, Whole(m), SameData(node[p], m), NEW to \in Nat, to <= Len(m.log),
           node'[p].log = m.log, node'[p] = ApplyCommitted([m EXCEPT !.commitIndex = to]),
           to > node[p].lastApplied => Settled(G, B, m.log, to, currentTerm'[p])
    PROVE  Applied(G, B, p)'
<1>1. PICK r \in Seq(Entry), s \in Seq(Entry), n \in Nat :
         r = node[p].log /\ s = m.log /\ n = node[p].lastApplied
  BY OnwardFacts DEF Node
<1>2. m.lastApplied = n /\ m.data = node[p].data
  BY <1>1 DEF SameData
<1>3. /\ (n > 0 => Settled(H, A, r, n, currentTerm[p]))
      /\ node[p].data = ApplyAll(EmptyStore, r, 1 .. n)
  BY <1>1 DEF Applied
<1>4. (n > 0 => Settled(G, B, s, n, currentTerm'[p])) /\ Agree(r, s, n)
  <2>1. CASE n = 0
    <3>1. Len(r) \in Nat /\ Len(s) \in Nat
      BY LogElements
    <3> QED BY <2>1, <3>1 DEF Agree
  <2>2. CASE n > 0
    BY <1>1, <1>3, <2>2, SettledStep
  <2> QED BY <2>1, <2>2
<1>5. m.data = ApplyAll(EmptyStore, s, 1 .. n) /\ n <= Len(s)
  <2>1. ApplyAll(EmptyStore, r, 1 .. n) = ApplyAll(EmptyStore, s, 1 .. n)
    BY <1>4, ApplySame
  <2> QED BY <1>2, <1>3, <1>4, <2>1 DEF Agree
<1>6. PICK d \in Nat : d = IF n < to THEN to ELSE n
  OBVIOUS
<1>7. /\ node'[p].commitIndex = to /\ node'[p].lastApplied = d
      /\ node'[p].data = ApplyAll(EmptyStore, s, 1 .. d)
  BY <1>1, <1>2, <1>5, <1>6, ApplyCommittedTo
<1>8. to <= d
  BY <1>6
<1>9. d > 0 => Settled(G, B, s, d, currentTerm'[p])
  <2>1. CASE n < to
    BY <1>1, <1>6, <2>1
  <2>2. CASE ~(n < to)
    BY <1>4, <1>6, <2>2
  <2> QED BY <2>1, <2>2
<1> QED BY <1>1, <1>7, <1>8, <1>9 DEF Applied

\* A leader that counts its peers.
LEMMA LeaderCommits ==
    ASSUME NEW H, NEW A, NEW G, NEW B, Onward(H, A, G, B), LeaderInv(H, A), SendInv(H, A),
           AckInv(G, B)', SendInv(G, B)', NEW i \in Server, Applied(H, A, i),
           NEW c \in UnderWay, AppendSucceeded(c), c.from = i,
           node'[i] = tryAdvanceCommitIndex(node[i], matchIndex'[i], currentTerm[i])
    PROVE  Applied(G, B, i)'
<1> DEFINE n == node[i]
           match == matchIndex'[i]
           ready == {v \in n.logOffset + 1 .. n.logOffset + Len(n.log) :
                        IsMajorityIndex(match, LastIndex(n), v) /\ EntryAt(n, v).Term = currentTerm[i]}
           to == CHOOSE v \in ready : TRUE
<1>0. Undisturbed /\ Known /\ UndisturbedInv /\ TypeOK /\ TypeOK' /\ Stepping
  BY OnwardFacts DEF Onward
<1>1. n \in Node /\ Whole(n) /\ matchIndex'[i] \in [Server -> Nat]
  BY <1>0 DEF TypeOK, UndisturbedInv, AllWhole
<1>2. node'[i] = IF ready = {} THEN n
                 ELSE maybeSnapshot(ApplyCommitted([n EXCEPT !.commitIndex = to]))
  BY DEF tryAdvanceCommitIndex
<1>3. CASE ready = {}
  BY <1>2, <1>3, KeepsApplied DEF SameData
<1>4. CASE ready # {}
  <2>1. to \in ready
    BY <1>4
  <2>2. /\ to \in 1 .. Len(n.log) /\ to \in Nat /\ to <= Len(n.log)
        /\ IsMajorityIndex(match, Len(n.log), to) /\ n.log[to].Term = currentTerm[i]
    <3>1. to \in 0 + 1 .. 0 + Len(n.log) /\ Len(n.log) \in Nat
      BY <1>1, <2>1, WholeFacts DEF Whole
    <3>2. to \in 1 .. Len(n.log) /\ to \in Nat /\ to <= Len(n.log)
      BY <3>1
    <3>3. LastIndex(n) = Len(n.log) /\ EntryAt(n, to) = n.log[to]
      <4> HIDE DEF n, to
      <4> QED BY <1>1, <3>2, WholeFacts
    <3>4. IsMajorityIndex(match, LastIndex(n), to) /\ EntryAt(n, to).Term = currentTerm[i]
      BY <2>1
    <3> QED BY <3>2, <3>3, <3>4
  <2> HIDE DEF ready, to
  <2>3. node'[i] = ApplyCommitted([n EXCEPT !.commitIndex = to]) /\ node'[i].log = n.log
    <3>1. /\ maybeSnapshot(ApplyCommitted([n EXCEPT !.commitIndex = to]))
                = ApplyCommitted([n EXCEPT !.commitIndex = to])
          /\ SameLog(n, ApplyCommitted([n EXCEPT !.commitIndex = to]))
      BY <1>0, <1>1, <2>2, CommitOnly
    <3> QED BY <1>2, <1>4, <3>1 DEF SameLog
  <2>4. state'[i] = Leader /\ currentTerm'[i] = currentTerm[i]
    <3>1. AtBookkeeping(c) /\ c.Success /\ UNCHANGED electionVars
      BY DEF AppendSucceeded
    <3>2. c.Term = currentTerm[i]
      BY <3>1, BookkeepingTerm
    <3>3. <<i, currentTerm[i]>> \in elected
      BY <1>0, <3>1, <3>2 DEF AtBookkeeping, UndisturbedInv, AppendsOnly
    <3>4. state[i] = Leader
      BY <1>0, <3>3 DEF UndisturbedInv, ElectedLeads
    <3> QED BY <3>1, <3>4 DEF electionVars
  <2>5. PICK t \in Nat, h \in Seq(Entry) : t = currentTerm'[i] /\ h = n.log
    BY <1>0, <1>1 DEF TypeOK, Node
  <2>6. G[t] = h
    BY <1>0, <2>3, <2>4, <2>5, LedLeaders DEF Onward
  <2>7. Has(h, t, to) /\ Len(h) \in Nat /\ h # <<>>
    BY <2>2, <2>4, <2>5, LogElements, LastPosition DEF Has
  <2>8. Acked(B, i, t, Len(h))
    <3>1. Mirrors(G, i)'
      BY <2>3, <2>5, <2>6, <2>7 DEF Mirrors, Agree
    <3>2. <<i, t, Len(h)>> \in B
      BY <2>3, <2>5, <3>1 DEF AckInv, Mirrors
    <3> QED BY <2>7, <3>2 DEF Acked
  <2>9. \A p \in Server : match[p] > 0 => p # i /\ Acked(B, p, t, match[p])
    BY <2>4, <2>5 DEF SendInv
  <2>10. Chosen(G, B, t, to)
    <3> HIDE DEF match
    <3>1. match \in [Server -> Nat]
      BY <1>1 DEF match
    <3>2. \E Q \in SUBSET Server : Cardinality(Q) >= Majority /\ \A p \in Q : Acked(B, p, t, to)
      BY <2>2, <2>5, <2>8, <2>9, <3>1, CountedIsChosen
    <3> QED BY <2>6, <2>7, <3>2 DEF Chosen
  <2>11. Settled(G, B, h, to, currentTerm'[i])
    <3>1. Agree(h, G[t], to) /\ t <= t /\ to <= to
      BY <2>2, <2>5, <2>6, <2>7 DEF Agree
    <3> QED BY <2>2, <2>5, <2>10, <3>1 DEF Settled
  <2>12. SameData(node[i], n)
    BY DEF SameData
  <2> HIDE DEF match
  <2> QED BY <1>1, <2>2, <2>3, <2>5, <2>11, <2>12, CommitsTo
<1> QED BY <1>3, <1>4

\* A follower that is told what is committed.
LEMMA FollowerCommits ==
    ASSUME NEW H, NEW A, NEW G, NEW B, Onward(H, A, G, B), LeaderInv(H, A), SendInv(H, A),
           AckInv(H, A), CommitInv(H, A), NEW c \in UnderWay, AppendAccept(c)
    PROVE  Applied(G, B, c.to)'
<1>0. /\ Undisturbed /\ Known /\ UndisturbedInv /\ TypeOK /\ MatchInv(H)
      /\ H \in [Nat -> Seq(Entry)] /\ G \in [Nat -> Seq(Entry)]
  BY OnwardFacts DEF Onward
<1>1. /\ c.to \in Server /\ c.Term \in Nat /\ currentTerm'[c.to] = c.Term /\ Carries(c)
      /\ Agree(node'[c.to].log, H[c.Term], Len(node'[c.to].log))
      /\ Has(H[c.Term], c.Term, LastOf(c))
  BY AcceptMirrors
<1>2. PICK k : LET m == StoreEntries(node[c.to], c.Entries, k)
               IN  /\ m \in Node /\ Whole(m) /\ SameData(node[c.to], m)
                   /\ node'[c.to] = FollowCommit(m, c.LeaderCommit)
                   /\ node'[c.to].log = m.log
  BY <1>0, AcceptedNode
<1>3. PICK m \in Node : /\ Whole(m) /\ SameData(node[c.to], m)
                        /\ node'[c.to] = FollowCommit(m, c.LeaderCommit)
                        /\ node'[c.to].log = m.log
  BY <1>2
<1>4. c.LeaderCommit \in Nat
  BY <1>0, <1>1, CallKind DEF Carries, AppendEntriesCall, TypeOK
<1>5. PICK to \in Nat : to = FollowedIndex(m, c.LeaderCommit)
  BY <1>4, CommitSameLog
<1>6. node'[c.to] = ApplyCommitted([m EXCEPT !.commitIndex = to])
  BY <1>3, <1>4, <1>5, CommitSameLog
<1>7. PICK s \in Seq(Entry), h \in Seq(Entry), n \in Nat, x \in Nat, lc \in Nat :
         /\ s = m.log /\ h = H[c.Term] /\ n = node[c.to].lastApplied
         /\ x = node[c.to].commitIndex /\ lc = c.LeaderCommit
  BY <1>0, <1>1, <1>4 DEF Node, TypeOK
<1>8. /\ Applied(H, A, c.to) /\ x <= n
      /\ n > 0 => Settled(H, A, node[c.to].log, n, currentTerm[c.to])
  BY <1>1, <1>7 DEF CommitInv, Applied
<1>9. Len(s) \in Nat /\ n <= Len(s)
  <2>1. Len(s) \in Nat
    BY LogElements
  <2>2. CASE n = 0
    BY <2>1, <2>2
  <2>3. CASE n > 0
    <3>1. Agree(node[c.to].log, node'[c.to].log, n)
      BY <1>1, <1>8, <2>3, SettledStep
    <3> QED BY <1>3, <1>7, <2>1, <3>1 DEF Agree
  <2> QED BY <2>1, <2>2, <2>3
<1>10. to = IF lc > x THEN IF lc < Len(s) THEN lc ELSE Len(s) ELSE x
  <2>1. LastIndex(m) = Len(s) /\ m.commitIndex = x
    BY <1>3, <1>7, WholeFacts DEF SameData
  <2> QED BY <1>5, <1>7, <2>1 DEF FollowedIndex
<1>11. to <= Len(s)
  BY <1>8, <1>9, <1>10
<1>12. ASSUME to > n PROVE Settled(G, B, s, to, currentTerm'[c.to])
  <2>1. lc > 0 /\ to <= lc
    BY <1>8, <1>9, <1>10, <1>12
  <2>2. PICK t \in Nat, k1 \in Nat : t <= c.Term /\ lc <= k1 /\ Chosen(H, A, t, k1)
    BY <1>1, <1>7, <2>1 DEF CommitInv
  <2>3. PICK f \in Seq(Entry), g \in Seq(Entry) : f = H[t] /\ g = G[t]
    BY <1>0
  <2>4. Agree(f, h, k1)
    <3>1. h # <<>>
      BY <1>1, <1>7, LastPosition DEF Has
    <3> QED BY <1>0, <1>1, <1>7, <2>2, <2>3, <3>1, ChosenAgree
  <2>5. to <= k1
    BY <2>1, <2>2
  <2>6. Agree(h, f, to)
    BY <2>4, <2>5, AgreePart
  <2>7. Agree(s, h, to)
    BY <1>1, <1>3, <1>7, <1>9, <1>11, AgreePart
  <2>8. Agree(s, f, to)
    BY <2>6, <2>7, AgreeTrans
  <2>9. Grows(f, g)
    BY <2>3, OnwardFacts
  <2>10. Agree(s, g, to)
    BY <2>8, <2>9, AgreeGrows
  <2>11. Chosen(G, B, t, k1)
    BY <2>2, ChosenGrows
  <2> QED BY <1>1, <2>2, <2>3, <2>5, <2>10, <2>11 DEF Settled
<1> QED BY <1>1, <1>3, <1>6, <1>7, <1>8, <1>11, <1>12, CommitsTo

\* What nodes have applied after a step.
LEMMA AppliedStep ==
    ASSUME NEW H, NEW A, NEW G, NEW B, Onward(H, A, G, B), LeaderInv(H, A), SendInv(H, A),
           AckInv(H, A), CommitInv(H, A), AckInv(G, B)', SendInv(G, B)', NEW i \in Server
    PROVE  Applied(G, B, i)'
<1>0. Undisturbed /\ Known /\ UndisturbedInv /\ TypeOK /\ Next /\ node[i] \in Node /\ Applied(H, A, i)
  BY OnwardFacts DEF CommitInv
<1>1. ASSUME SameData(node[i], node'[i]) PROVE Applied(G, B, i)'
  BY <1>0, <1>1, KeepsApplied
<1>2. CASE node'[i] = node[i]
  BY <1>1, <1>2 DEF SameData
<1>3. ASSUME NEW entries, node'[i] = AppendAll(node[i], entries) PROVE Applied(G, B, i)'
  BY <1>0, <1>1, <1>3, AppendSameData
<1>4. ASSUME NEW index, node'[i] = TruncateLog(node[i], index) PROVE Applied(G, B, i)'
  BY <1>0, <1>1, <1>4, TruncateSameData
<1>5. ASSUME NEW c \in UnderWay, AppendSucceeded(c), c.from = i,
             node'[i] = tryAdvanceCommitIndex(node[i], matchIndex'[i], currentTerm[i])
      PROVE  Applied(G, B, i)'
  BY <1>0, <1>5, LeaderCommits
<1>6. ASSUME NEW c \in UnderWay, AppendAccept(c), c.to = i PROVE Applied(G, B, i)'
  BY <1>6, FollowerCommits
<1>7. ASSUME NEW c \in UnderWay, HandleInstallSnapshot(c) PROVE FALSE
  BY <1>0, <1>7 DEF HandleInstallSnapshot, UndisturbedInv, AppendsOnly
<1>8. ~Die(i) /\ ~Start(i)
  BY <1>0, NodesRun
<1>9. NodeStep(i)
  BY <1>0, NodeSteps
<1> QED BY <1>2, <1>3, <1>4, <1>5, <1>6, <1>7, <1>8, <1>9, Zenon DEF NodeStep

\* Commitment after a step.
LEMMA CommitStep ==
    ASSUME NEW H, NEW A, NEW G, NEW B, Onward(H, A, G, B), LeaderInv(H, A), SendInv(H, A),
           AckInv(H, A), CommitInv(H, A), AckInv(G, B)', SendInv(G, B)'
    PROVE  CommitInv(G, B)'
<1> DEFINE Backed(F, C, d) ==
               \E t, k \in Nat : t <= d.Term /\ d.LeaderCommit <= k /\ Chosen(F, C, t, k)
<1>0. Undisturbed /\ Known /\ UndisturbedInv /\ TypeOK /\ Next
  BY OnwardFacts
<1>1. \A i \in Server : Applied(G, B, i)'
  BY AppliedStep
<1>2. ASSUME NEW d, Backed(H, A, d) PROVE Backed(G, B, d)
  BY <1>2, ChosenGrows
<1>3. ASSUME NEW d \in UnderWay', Carries(d), d.LeaderCommit > 0 PROVE Backed(G, B, d)
  <2>1. CASE d \in UnderWay
    BY <1>2, <1>3, <2>1 DEF CommitInv
  <2>2. ASSUME NEW i \in Server, NEW p \in Server \ {i}, d = AppendFor(i, p) PROVE FALSE
    BY <1>3, <2>2 DEF AppendFor
  <2>3. ASSUME NEW c \in UnderWay, SendAppendEntries(c), NEW seen \in SUBSET Shown(c), d = Sent(c, seen)
        PROVE  Backed(H, A, d)
    <3>1. c.from \in Server /\ c.Term \in Nat /\ c.kind = "append" /\ c.at = "spawned"
      BY <1>0, <2>3, CallKind DEF TypeOK, SendAppendEntries, AppendEntriesCall
    <3>2. c.Term = currentTerm[c.from]
      BY <1>0, <2>3 DEF SendAppendEntries, InTime, Undisturbed
    <3>3. d.Term = c.Term /\ d.LeaderCommit = node[c.from].commitIndex
      BY <1>0, <2>3, <3>1, CallKind DEF Sent, TypeOK, AppendEntriesCall
    <3>4. PICK a \in Nat, x \in Nat : a = node[c.from].lastApplied /\ x = node[c.from].commitIndex
      BY <1>0, <3>1 DEF TypeOK, Node
    <3>5. x <= a /\ (a > 0 => Settled(H, A, node[c.from].log, a, currentTerm[c.from]))
      BY <3>1, <3>4 DEF CommitInv, Applied
    <3>6. x > 0 /\ a > 0
      BY <1>3, <3>3, <3>4, <3>5
    <3>7. PICK t \in Nat, k \in Nat : t <= currentTerm[c.from] /\ a <= k /\ Chosen(H, A, t, k)
      BY <3>5, <3>6 DEF Settled
    <3>8. x <= k
      BY <3>5, <3>7
    <3> QED BY <3>2, <3>3, <3>4, <3>7, <3>8
  <2> QED BY <1>0, <1>2, <1>3, <2>1, <2>2, <2>3, NewAppend
<1> QED BY <1>1, <1>3 DEF CommitInv, Carries

-----------------------------------------------------------------------------
(* All of it together.                                                     *)

\* The histories W, H and A explain the state.
Explained(W, H, A) ==
    /\ Ballots(W) /\ MatchInv(H) /\ Rising(H) /\ LogTerms
    /\ AckInv(H, A) /\ VoteInv(W, H, A) /\ LeaderInv(H, A)
    /\ SendInv(H, A) /\ CommitInv(H, A)

\* The inductive invariant behind leader completeness.
CommitmentInv == \E W, H, A : Explained(W, H, A)

\* Nothing has happened in the initial state.
LEMMA ExplainedInit ==
    ASSUME Init
    PROVE  Explained({}, [t \in Nat |-> <<>>], {})
<1> DEFINE E == [t \in Nat |-> <<>>]
<1>1. UnderWay = {} /\ VoteCalls = {} /\ \A i \in Server : node[i] = EmptyNode
  BY InitFacts DEF VoteCalls
<1>2. \A i \in Server : state[i] # Leader /\ currentTerm[i] = 0
  BY DistinctStates DEF Init
<1>3. \A i \in Server : /\ node[i].log = <<>> /\ node[i].commitIndex = 0 /\ node[i].lastApplied = 0
                        /\ node[i].data = EmptyStore
  BY <1>1 DEF EmptyNode, OnDisk
<1>4. \A t \in Nat : E[t] = <<>>
  OBVIOUS
<1>5. E \in [Nat -> Seq(Entry)]
  OBVIOUS
<1> HIDE DEF E
<1>6. MatchInv(E)
  <2>1. \A H : Traced(H, <<>>)
    BY DEF Traced
  <2> QED BY <1>1, <1>2, <1>3, <1>4, <1>5, <2>1 DEF MatchInv
<1>7. Rising(E) /\ LogTerms
  BY <1>3, <1>4 DEF Rising, LogTerms
<1>8. AckInv(E, {})
  <2>1. \A p \in Server : ~Mirrors(E, p)
    BY <1>2, <1>4 DEF Mirrors
  <2> QED BY <2>1 DEF AckInv, Covers, Acked
<1>9. VoteInv({}, E, {})
  BY <1>1 DEF VoteInv
<1>10. LeaderInv(E, {})
  BY <1>4 DEF LeaderInv
<1>11. SendInv(E, {})
  BY <1>1, <1>2 DEF SendInv
<1>12. CommitInv(E, {})
  <2>1. \A p \in Server : Applied(E, {}, p)
    BY <1>3, ApplyNothing DEF Applied
  <2> QED BY <1>1, <2>1 DEF CommitInv
<1>13. Ballots({})
  BY InitBallots
<1>14. Explained({}, E, {})
  BY <1>6, <1>7, <1>8, <1>9, <1>10, <1>11, <1>12, <1>13 DEF Explained
<1> QED BY <1>14 DEF E

\* Every step can be explained by histories that go on.
LEMMA ExplainedStep ==
    ASSUME Stepping, NEW W, NEW H, NEW A, Explained(W, H, A)
    PROVE  \E W1, G, B : Explained(W1, G, B)'
<1>0. /\ Ballots(W) /\ MatchInv(H) /\ Rising(H) /\ LogTerms
      /\ AckInv(H, A) /\ VoteInv(W, H, A) /\ LeaderInv(H, A)
      /\ SendInv(H, A) /\ CommitInv(H, A)
  BY DEF Explained
<1>1. PICK W1 : Ballots(W1)' /\ Casts(W, W1)
  <2>1. /\ ~LateWork /\ TypeOK /\ TypeOK' /\ NoLateStepDown /\ Started' /\ NoCrash' /\ Next
    BY DEF Stepping, Undisturbed, Known, ElectionInv, UndisturbedInv
  <2> QED BY <1>0, <2>1, BallotsStep
<1>2. PICK G : G = Led(H)
  OBVIOUS
<1>3. PICK B : B = Acks(H, A, G)
  OBVIOUS
<1>4. Onward(H, A, G, B)
  BY <1>0, <1>2, <1>3 DEF Onward
<1>5. MatchInv(G)'
  BY <1>0, <1>2, MatchStep
<1>6. Rising(G)' /\ LogTerms'
  <2>1. Rising(G) /\ LogTerms'
    BY <1>0, <1>2, RisingStep
  <2> QED BY <2>1 DEF Rising
<1>7. AckInv(G, B)'
  BY <1>0, <1>4, AckStep
<1>8. VoteInv(W1, G, B)'
  BY <1>0, <1>1, <1>4, CoverVotes
<1>9. LeaderInv(G, B)'
  BY <1>0, <1>1, <1>4, LeaderCovers
<1>10. SendInv(G, B)'
  BY <1>0, <1>4, SendStep
<1>11. CommitInv(G, B)'
  BY <1>0, <1>4, <1>7, <1>10, CommitStep
<1>12. Explained(W1, G, B)'
  BY <1>1, <1>5, <1>6, <1>7, <1>8, <1>9, <1>10, <1>11 DEF Explained
<1> QED BY <1>12

\* A step that changes nothing.
LEMMA ExplainedStutter ==
    ASSUME UNCHANGED vars, NEW W, NEW H, NEW A, Explained(W, H, A)
    PROVE  Explained(W, H, A)'
<1>1. /\ UNCHANGED <<currentTerm, votedFor, state, node, nextIndex, matchIndex, votes, calls, elected>>
      /\ UnderWay' = UnderWay /\ VoteCalls' = VoteCalls
  BY Stutter DEF vars, electionVars, leaderVars, VoteCalls
<1>2. Ballots(W)'
  BY <1>1 DEF Explained, Ballots, OneVote, Remembered, Single, Granted, Counted, Enough,
              Supported, Open
<1>3. MatchInv(H)' /\ Rising(H)' /\ LogTerms'
  BY <1>1 DEF Explained, MatchInv, Rising, LogTerms
<1>4. AckInv(H, A)'
  BY <1>1 DEF Explained, AckInv, Mirrors
<1>5. VoteInv(W, H, A)'
  BY <1>1 DEF Explained, VoteInv
<1>6. LeaderInv(H, A)'
  BY <1>1 DEF Explained, LeaderInv
<1>7. SendInv(H, A)'
  BY <1>1 DEF Explained, SendInv
<1>8. CommitInv(H, A)'
  BY <1>1 DEF Explained, CommitInv, Applied
<1> QED BY <1>2, <1>3, <1>4, <1>5, <1>6, <1>7, <1>8 DEF Explained

\* CommitmentInv holds in every state of an undisturbed execution.
LEMMA CommitmentInvAlways == Undisturbed => (Spec => []CommitmentInv)
<1> SUFFICES ASSUME Undisturbed PROVE Spec => []CommitmentInv
  OBVIOUS
<1> DEFINE K == Known /\ UndisturbedInv
<1>1. Init => CommitmentInv
  BY ExplainedInit DEF CommitmentInv
<1>2. K /\ K' /\ CommitmentInv /\ [Next]_vars => CommitmentInv'
  <2> SUFFICES ASSUME K, K', NEW W, NEW H, NEW A, Explained(W, H, A), [Next]_vars
               PROVE  \E W1, G, B : Explained(W1, G, B)'
    BY DEF CommitmentInv
  <2>1. CASE Next
    <3>1. Stepping
      BY <2>1 DEF Stepping
    <3> QED BY <3>1, ExplainedStep
  <2>2. CASE UNCHANGED vars
    BY <2>2, ExplainedStutter
  <2> QED BY <2>1, <2>2
<1>3. Spec => []K
  BY UndisturbedInvAlways
<1> QED BY <1>1, <1>2, <1>3, PTL DEF Spec

\* In undisturbed executions a leader holds every entry that a node of no
\* newer term has marked committed (requestVotes, isCandidateLogUpToDate,
\* tryAdvanceCommitIndex).
THEOREM LeaderCompletenessUndisturbed == Undisturbed => (Spec => []LeaderCompleteness)
<1> SUFFICES ASSUME Undisturbed PROVE Spec => []LeaderCompleteness
  OBVIOUS
<1>1. ASSUME Known, UndisturbedInv, NEW W, NEW H, NEW A, Explained(W, H, A)
      PROVE  LeaderCompleteness
  <2> SUFFICES ASSUME NEW i \in Server, NEW j \in Server, state[i] = Leader,
                      currentTerm[i] >= currentTerm[j],
                      NEW k \in node[i].logOffset + 1 .. node[j].commitIndex,
                      HasEntry(node[j], k)
               PROVE  HasEntry(node[i], k) /\ SameEntry(i, j, k)
    BY DEF LeaderCompleteness
  <2>0. \A x \in {i, j} : node[x] \in Node /\ Whole(node[x]) /\ currentTerm[x] \in Nat
    BY <1>1 DEF Known, TypeOK, UndisturbedInv, AllWhole
  <2>1. PICK u \in Nat, v \in Nat, r \in Seq(Entry), s \in Seq(Entry), n \in Nat, x \in Nat :
           /\ u = currentTerm[i] /\ v = currentTerm[j] /\ r = node[i].log /\ s = node[j].log
           /\ n = node[j].lastApplied /\ x = node[j].commitIndex
    BY <2>0 DEF Node
  <2>2. k \in 1 .. x /\ v <= u
    <3>1. k \in 0 + 1 .. x
      BY <2>0, <2>1 DEF Whole
    <3> QED BY <2>1, <3>1
  <2>3. x <= n /\ (n > 0 => Settled(H, A, s, n, v))
    BY <1>1, <2>1 DEF Explained, CommitInv, Applied
  <2>4. k \in 1 .. n /\ n > 0
    BY <2>2, <2>3
  <2>5. PICK t \in Nat, y \in Nat : t <= v /\ n <= y /\ Chosen(H, A, t, y) /\ Agree(s, H[t], n)
    BY <2>3, <2>4 DEF Settled
  <2>6. /\ r = H[u] /\ r # <<>> /\ H \in [Nat -> Seq(Entry)] /\ MatchInv(H) /\ LeaderInv(H, A)
    BY <1>1, <2>1 DEF Explained, MatchInv, SendInv
  <2>7. t <= u
    BY <2>2, <2>5
  <2>8. PICK h \in Seq(Entry) : h = H[t]
    BY <2>6
  <2>9. Agree(h, r, y)
    BY <2>5, <2>6, <2>7, <2>8, ChosenAgree
  <2>10. Agree(h, r, n)
    BY <2>5, <2>9, AgreePart
  <2>11. Agree(s, r, n)
    BY <2>5, <2>8, <2>10, AgreeTrans
  <2>12. k \in 1 .. Len(r) /\ k \in 1 .. Len(s) /\ s[k] = r[k]
    <3>1. Len(r) \in Nat /\ Len(s) \in Nat /\ n <= Len(r) /\ n <= Len(s) /\ \A q \in 1 .. n : s[q] = r[q]
      BY <2>11, LogElements DEF Agree
    <3> QED BY <2>4, <3>1
  <2>13. /\ k \in DOMAIN node[i].log /\ k \in DOMAIN node[j].log
         /\ node[i].log[k] = node[j].log[k]
    BY <2>1, <2>12, LogElements
  <2> QED BY <2>0, <2>13, WholeFacts DEF SameEntry
<1>2. Known /\ UndisturbedInv /\ CommitmentInv => LeaderCompleteness
  BY <1>1 DEF CommitmentInv
<1> QED BY <1>2, UndisturbedInvAlways, CommitmentInvAlways, PTL

\* In undisturbed executions nodes that have applied the same number of
\* entries hold the same data (HandleAppendEntries, tryAdvanceCommitIndex,
\* StateMachine.Apply).
THEOREM StateMachineSafetyUndisturbed == Undisturbed => (Spec => []StateMachineSafety)
<1> SUFFICES ASSUME Undisturbed PROVE Spec => []StateMachineSafety
  OBVIOUS
<1>1. ASSUME Known, UndisturbedInv, NEW W, NEW H, NEW A, Explained(W, H, A)
      PROVE  StateMachineSafety
  <2>0. H \in [Nat -> Seq(Entry)] /\ MatchInv(H) /\ LeaderInv(H, A)
    BY <1>1 DEF Explained, MatchInv
  <2>1. ASSUME NEW r \in Seq(Entry), NEW s \in Seq(Entry), NEW n \in Nat,
               NEW t \in Nat, NEW x \in Nat, NEW u \in Nat, NEW y \in Nat, t <= u, n <= x, n <= y,
               Chosen(H, A, t, x), Chosen(H, A, u, y), Agree(r, H[t], n), Agree(s, H[u], n)
        PROVE  Agree(r, s, n) /\ Agree(s, r, n)
    <3>1. PICK f \in Seq(Entry), g \in Seq(Entry) : f = H[t] /\ g = H[u]
      BY <2>0
    <3>2. g # <<>>
      BY <2>1, <3>1, LastPosition DEF Chosen, Has
    <3>3. Agree(f, g, x)
      BY <2>0, <2>1, <3>1, <3>2, ChosenAgree
    <3>4. Agree(f, g, n)
      BY <2>1, <3>3, AgreePart
    <3>5. Agree(r, g, n)
      BY <2>1, <3>1, <3>4, AgreeTrans
    <3>6. n <= n
      OBVIOUS
    <3>7. Agree(g, s, n)
      BY <2>1, <3>1, <3>6, AgreePart
    <3>8. Agree(r, s, n)
      BY <3>5, <3>7, AgreeTrans
    <3> QED BY <3>6, <3>8, AgreePart
  <2> SUFFICES ASSUME NEW i \in Server, NEW j \in Server,
                      node[i].lastApplied = node[j].lastApplied
               PROVE  node[i].data = node[j].data
    BY DEF StateMachineSafety
  <2>2. PICK r \in Seq(Entry), s \in Seq(Entry), n \in Nat :
           r = node[i].log /\ s = node[j].log /\ n = node[i].lastApplied /\ n = node[j].lastApplied
    BY <1>1 DEF Known, TypeOK, Node
  <2>3. /\ node[i].data = ApplyAll(EmptyStore, r, 1 .. n) /\ node[j].data = ApplyAll(EmptyStore, s, 1 .. n)
        /\ n > 0 => /\ Settled(H, A, r, n, currentTerm[i])
                    /\ Settled(H, A, s, n, currentTerm[j])
    BY <1>1, <2>2 DEF Explained, CommitInv, Applied
  <2>4. CASE n = 0
    BY <2>3, <2>4, ApplyNothing
  <2>5. CASE n > 0
    <3>1. PICK t \in Nat, x \in Nat : n <= x /\ Chosen(H, A, t, x) /\ Agree(r, H[t], n)
      BY <2>3, <2>5 DEF Settled
    <3>2. PICK u \in Nat, y \in Nat : n <= y /\ Chosen(H, A, u, y) /\ Agree(s, H[u], n)
      BY <2>3, <2>5 DEF Settled
    <3>3. t <= u \/ u <= t
      OBVIOUS
    <3>4. Agree(r, s, n)
      BY <2>1, <3>1, <3>2, <3>3
    <3> QED BY <2>3, <3>4, ApplySame
  <2> QED BY <2>4, <2>5
<1>2. Known /\ UndisturbedInv /\ CommitmentInv => StateMachineSafety
  BY <1>1 DEF CommitmentInv
<1> QED BY <1>2, UndisturbedInvAlways, CommitmentInvAlways, PTL
=============================================================================
