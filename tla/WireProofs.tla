----------------------------- MODULE WireProofs -----------------------------
(*****************************************************************************)
(* Proofs about the encodings and the transport.  What is decoded is what    *)
(* was encoded, for requests of every size; a frame that arrives is the one  *)
(* that was sent, wherever a connection breaks; so a call over the wire is a *)
(* call of Rpc.                                                              *)
(*****************************************************************************)
EXTENDS WireProperties, TLAPS, WellFoundedInduction, SequenceTheorems, FiniteSetTheorems

Cell == Nat \cup STRING \cup BOOLEAN \cup ReplyTerm

\* A frame as the cells that cross the network, and where its parts end there.
Stream(type, payload) == <<type, Len(payload)>> \o payload

Offset(payload, j) == IF j < 3 THEN j ELSE 2 + Len(payload)

\* A frame on its way: the l parts that are not written yet, the n cells that
\* have arrived and the r parts that were read, in this order from its end.  On
\* a live connection nothing is missing in between.
TransitAt(type, payload, unwritten, l, cells, n, parts, r, live) ==
    /\ type \in Cell /\ payload \in Seq(Cell)
    /\ unwritten \in Seq(Seq(Cell)) /\ cells \in Seq(Cell) /\ parts \in Seq(Seq(Cell))
    /\ l \in 0 .. 3 /\ r \in 0 .. 3
    /\ \A p \in 1 .. l : unwritten[p] = Frame(type, payload)[3 - l + p]
    /\ \A p \in 1 .. r : parts[p] = Frame(type, payload)[p]
    /\ Offset(payload, r) + n <= Offset(payload, 3 - l)
    /\ live => Offset(payload, r) + n = Offset(payload, 3 - l)
    /\ \A p \in 1 .. n : cells[p] = Stream(type, payload)[Offset(payload, r) + p]

Transit(type, payload, unwritten, cells, parts, live) ==
    TransitAt(type, payload, unwritten, Len(unwritten), cells, Len(cells), parts, Len(parts), live)

Carried(c, e, type, payload) ==
    Transit(type, payload, toWrite[c][e], inbound[c][Other(e)], got[c][Other(e)],
            Connected(c, e))

Nothing(c, e) == toWrite[c][e] = <<>> /\ inbound[c][Other(e)] = <<>> /\ got[c][Other(e)] = <<>>

\* Not dialled yet.
Fresh(c) ==
    /\ asked[c] = None /\ handled[c] = <<>> /\ result[c] = None /\ link[c] = "none"
    /\ \A e \in End : pc[c][e] = "idle" /\ Nothing(c, e)

Sent(c) ==
    /\ asked[c] \in Request /\ link[c] # "none"
    /\ pc[c]["client"] # "idle"
    /\ pc[c]["client"] # "closed" => result[c] = None
    /\ pc[c]["client"] = "write" => toWrite[c]["client"] # <<>>
    /\ \E payload \in EncodeRequest(asked[c]) :
          Carried(c, "client", asked[c].type, payload)

Unanswered(c) ==
    /\ handled[c] = <<>> /\ Nothing(c, "server")
    /\ pc[c]["server"] # "write" /\ result[c] \in {None, Failed}

ReplyPayload(r, reply) == EncodeStruct(ReplyFields(ReplyType(r.type)), reply)

Answering(c) ==
    \E reply \in Reply(asked[c]) :
        /\ handled[c] = <<[request |-> asked[c], reply |-> reply]>>
        /\ pc[c]["server"] \in {"write", "closed"}
        /\ pc[c]["server"] = "write" => toWrite[c]["server"] # <<>>
        /\ result[c] \in {None, Failed, reply}
        /\ Carried(c, "server", ReplyType(asked[c].type), ReplyPayload(asked[c], reply))

Cells == Seq(Cell)
Parts == Seq(Seq(Cell))

Places ==
    /\ asked \in [Conn -> Request \cup {None}]
    /\ link \in [Conn -> {"none", "open", "broken", "silent"}]
    /\ pc \in [Conn -> [End -> {"idle", "write", "read", "closed"}]]
    /\ handled = [c \in Conn |-> handled[c]] /\ result = [c \in Conn |-> result[c]]
    /\ toWrite \in [Conn -> [End -> Parts]]
    /\ inbound \in [Conn -> [End -> Cells]]
    /\ got \in [Conn -> [End -> Parts]]

Call(c) == Fresh(c) \/ (Sent(c) /\ (Unanswered(c) \/ Answering(c)))

WireInv == Places /\ \A c \in Conn : Call(c)

-----------------------------------------------------------------------------
(* Naturals and sequences.                                                   *)

\* A nonempty set of naturals has a least element: the form of induction the
\* proofs below use.
LEMMA LeastNatural ==
    ASSUME NEW T, T \subseteq Nat, T # {}
    PROVE  \E x \in T : \A y \in T : x <= y
<1> DEFINE R == OpToRel(<, Nat)
<1>1. IsWellFoundedOn(R, Nat)
  BY NatLessThanWellFounded, Zenon
<1>2. \A x, y \in Nat : y < x => <<y, x>> \in R
  BY DEF OpToRel
<1> HIDE DEF R
<1>3. \E x \in T : \A y \in T : ~ (<<y, x>> \in R)
  BY <1>1, WFMin
<1>4. PICK x \in T : \A y \in T : ~ (<<y, x>> \in R)
  BY <1>3
<1>5. \A y \in T : ~ (y < x)
  BY <1>2, <1>4
<1>6. \A y \in T : x <= y
  BY <1>5
<1> QED BY <1>4, <1>6

\* The first k elements of a sequence.
LEMMA Prefix ==
    ASSUME NEW S, NEW s \in Seq(S), NEW k \in 0 .. Len(s)
    PROVE  /\ SubSeq(s, 1, k) \in Seq(S)
           /\ Len(SubSeq(s, 1, k)) = k
           /\ \A p \in 1 .. k : SubSeq(s, 1, k)[p] = s[p]
<1>1. k \in Int /\ k >= 0 /\ \A p \in 1 .. k : s[p] \in S
  OBVIOUS
<1>2. /\ SubSeq(s, 1, k) \in Seq(S)
      /\ Len(SubSeq(s, 1, k)) = IF 1 <= k THEN k - 1 + 1 ELSE 0
      /\ \A p \in 1 .. k - 1 + 1 : SubSeq(s, 1, k)[p] = s[1 + p - 1]
  BY <1>1, SubSeqProperties
<1> QED BY <1>1, <1>2

\* What is left of a sequence after its first k elements.
LEMMA Suffix ==
    ASSUME NEW S, NEW s \in Seq(S), NEW k \in 0 .. Len(s)
    PROVE  /\ SubSeq(s, k + 1, Len(s)) \in Seq(S)
           /\ Len(SubSeq(s, k + 1, Len(s))) = Len(s) - k
           /\ \A p \in 1 .. Len(s) - k : SubSeq(s, k + 1, Len(s))[p] = s[k + p]
<1>1. /\ k \in Nat /\ k + 1 \in Int /\ Len(s) \in Int /\ k <= Len(s)
      /\ \A p \in k + 1 .. Len(s) : s[p] \in S
  OBVIOUS
<1> DEFINE m == k + 1
           t == SubSeq(s, m, Len(s))
<1>2. /\ t \in Seq(S)
      /\ Len(t) = IF m <= Len(s) THEN Len(s) - m + 1 ELSE 0
      /\ \A p \in 1 .. Len(s) - m + 1 : t[p] = s[m + p - 1]
  <2> HIDE DEF m
  <2>1. m \in Int /\ Len(s) \in Int /\ \A p \in m .. Len(s) : s[p] \in S
    BY <1>1 DEF m
  <2> QED BY <2>1, SubSeqProperties
<1> HIDE DEF t
<1>3. \A p \in 1 .. Len(s) - k : p \in 1 .. Len(s) - m + 1 /\ m + p - 1 = k + p
  BY <1>1
<1>4. Len(t) = Len(s) - k
  BY <1>1, <1>2
<1>5. \A p \in 1 .. Len(s) - k : t[p] = s[k + p]
  BY <1>2, <1>3
<1> QED BY <1>2, <1>4, <1>5 DEF t

\* What stands before and behind the joint of two sequences.
LEMMA Joined ==
    ASSUME NEW S, NEW s \in Seq(S), NEW t \in Seq(S)
    PROVE  /\ s \o t \in Seq(S) /\ Len(s \o t) = Len(s) + Len(t)
           /\ \A p \in 1 .. Len(s) : (s \o t)[p] = s[p]
           /\ \A p \in 1 .. Len(t) : (s \o t)[Len(s) + p] = t[p]
           /\ SubSeq(s \o t, Len(s) + 1, Len(s) + Len(t)) = t
<1>0. PICK b : b = s \o t
  OBVIOUS
<1>1. Len(s) \in Nat /\ Len(t) \in Nat
  OBVIOUS
<1>2. /\ b \in Seq(S) /\ Len(b) = Len(s) + Len(t)
      /\ \A p \in 1 .. Len(s) + Len(t) : b[p] = IF p <= Len(s) THEN s[p] ELSE t[p - Len(s)]
  BY <1>0, ConcatProperties
<1>3. PICK m \in Nat, n \in Nat : m = Len(s) /\ n = Len(t)
  BY <1>1
<1>4. \A p \in 1 .. m : b[p] = s[p]
  BY <1>2, <1>3
<1>5. ASSUME NEW p \in 1 .. n PROVE b[m + p] = t[p]
  <2>1. m + p \in 1 .. m + n /\ ~(m + p <= m) /\ m + p - m = p
    OBVIOUS
  <2> QED BY <1>2, <1>3, <2>1
<1>6. PICK u : u = SubSeq(b, m + 1, Len(b))
  OBVIOUS
<1>7. Len(b) = m + n /\ m \in 0 .. Len(b)
  BY <1>2, <1>3
<1>8. u \in Seq(S) /\ Len(u) = n /\ \A p \in 1 .. n : u[p] = b[m + p]
  <2>1. Len(b) - m = n
    BY <1>7
  <2> QED BY <1>2, <1>6, <1>7, <2>1, Suffix
<1>9. u = t
  BY <1>3, <1>5, <1>8, SeqEqual
<1> QED BY <1>0, <1>2, <1>3, <1>4, <1>5, <1>6, <1>7, <1>9

\* What is true of 0, and of the next number with every number below n, is
\* true up to n; with a set in place of a predicate.
LEMMA UpTo ==
    ASSUME NEW n \in Nat, NEW G, 0 \in G,
           \A m \in 1 .. n : m - 1 \in G => m \in G
    PROVE  0 .. n \subseteq G
<1> DEFINE T == {m \in 0 .. n : m \notin G}
<1> SUFFICES ASSUME T # {} PROVE FALSE
  OBVIOUS
<1>1. T \subseteq Nat
  OBVIOUS
<1>2. PICK x \in T : \A y \in T : x <= y
  BY <1>1, LeastNatural
<1>3. x \in 1 .. n /\ x - 1 \in 0 .. n /\ x - 1 \notin T
  BY <1>2
<1> QED BY <1>3

\* g[m] is the first m of n parts behind each other.
Grown(S, n, part, g) ==
    /\ n \in Nat /\ part \in [1 .. n -> Seq(S)] /\ g \in [0 .. n -> Seq(S)]
    /\ g[0] = <<>>
    /\ \A m \in 1 .. n : g[m] = g[m - 1] \o part[m]

\* The m-th of n parts ends at at[m].
LaidOut(n, part, whole, at) ==
    /\ at \in [0 .. n -> Nat] /\ at[0] = 0
    /\ \A m \in 1 .. n : at[m] = at[m - 1] + Len(part[m])
    /\ Len(whole) = at[n]
    /\ \A m \in 1 .. n :
          /\ at[m] <= at[n]
          /\ \A q \in 1 .. Len(part[m]) : whole[at[m - 1] + q] = part[m][q]

\* Parts can be put behind each other.
LEMMA CanGrow ==
    ASSUME NEW S, NEW n \in Nat, NEW part \in [1 .. n -> Seq(S)]
    PROVE  \E g : Grown(S, n, part, g)
<1> DEFINE Good(g, m) == g[0] = <<>> /\ \A i \in 1 .. m : g[i] = g[i - 1] \o part[i]
           G == {m \in 0 .. n : \E g \in [0 .. m -> Seq(S)] : Good(g, m)}
<1>1. 0 \in G
  <2>1. [i \in 0 .. 0 |-> <<>>] \in [0 .. 0 -> Seq(S)] /\ Good([i \in 0 .. 0 |-> <<>>], 0)
    OBVIOUS
  <2> HIDE DEF Good
  <2>2. \E g \in [0 .. 0 -> Seq(S)] : Good(g, 0)
    BY <2>1, Zenon
  <2>3. 0 \in 0 .. n
    OBVIOUS
  <2> QED BY <2>2, <2>3
<1>2. ASSUME NEW m \in 1 .. n, m - 1 \in G PROVE m \in G
  <2>1. PICK g \in [0 .. m - 1 -> Seq(S)] : Good(g, m - 1)
    BY <1>2
  <2>2. m - 1 \in 0 .. m - 1 /\ g[m - 1] \in Seq(S) /\ part[m] \in Seq(S)
    OBVIOUS
  <2>3. PICK next \in Seq(S) : next = g[m - 1] \o part[m]
    BY <2>2, ConcatProperties
  <2> DEFINE h == [i \in 0 .. m |-> IF i = m THEN next ELSE g[i]]
  <2>4. h \in [0 .. m -> Seq(S)] /\ h[m] = next /\ \A i \in 0 .. m - 1 : h[i] = g[i]
    OBVIOUS
  <2> HIDE DEF h
  <2>5. h[0] = <<>>
    BY <2>1, <2>4
  <2>6. ASSUME NEW i \in 1 .. m PROVE h[i] = h[i - 1] \o part[i]
    <3>1. i - 1 \in 0 .. m - 1 /\ h[i - 1] = g[i - 1]
      BY <2>4
    <3>2. CASE i = m
      BY <2>3, <2>4, <3>1, <3>2
    <3>3. CASE i # m
      <4>1. i \in 1 .. m - 1 /\ i \in 0 .. m - 1
        BY <3>3
      <4> QED BY <2>1, <2>4, <3>1, <4>1
    <3> QED BY <3>2, <3>3
  <2>7. Good(h, m)
    BY <2>5, <2>6
  <2> HIDE DEF Good
  <2> QED BY <2>4, <2>7
<1> HIDE DEF Good
<1>3. n \in G
  <2> HIDE DEF G
  <2>1. 0 .. n \subseteq G
    BY <1>1, <1>2, UpTo
  <2> QED BY <2>1
<1>4. PICK g \in [0 .. n -> Seq(S)] : Good(g, n)
  BY <1>3
<1>5. Grown(S, n, part, g)
  BY <1>4 DEF Good, Grown
<1> QED BY <1>5

\* The parts of a sequence that has grown part by part.
LEMMA Stacked ==
    ASSUME NEW S, NEW n, NEW part, NEW g, Grown(S, n, part, g)
    PROVE  \E at : LaidOut(n, part, g[n], at)
<1> USE DEF Grown
<1> DEFINE at == [m \in 0 .. n |-> Len(g[m])]
           len == [m \in 1 .. n |-> Len(part[m])]
           Laid(i, m) == /\ at[m] <= at[i]
                         /\ \A q \in 1 .. len[m] : g[i][at[m - 1] + q] = part[m][q]
           G == {i \in 0 .. n : \A m \in 1 .. i : Laid(i, m)}
<1>1. at \in [0 .. n -> Nat] /\ at[0] = 0 /\ len \in [1 .. n -> Nat]
  OBVIOUS
<1>2. (\A m \in 0 .. n : at[m] = Len(g[m])) /\ (\A m \in 1 .. n : len[m] = Len(part[m]))
  OBVIOUS
<1> HIDE DEF at, len
<1>3. ASSUME NEW m \in 1 .. n
      PROVE  /\ m - 1 \in 0 .. n /\ m \in 0 .. n
             /\ at[m] = at[m - 1] + len[m] /\ at[m - 1] \in Nat /\ len[m] \in Nat
             /\ \A p \in 1 .. at[m] :
                   g[m][p] = IF p <= at[m - 1] THEN g[m - 1][p] ELSE part[m][p - at[m - 1]]
  <2>1. m - 1 \in 0 .. n /\ m \in 0 .. n
    OBVIOUS
  <2>2. PICK u \in Seq(S), v \in Seq(S) : u = g[m - 1] /\ v = part[m]
    BY <2>1
  <2>3. g[m] = u \o v
    BY <2>2
  <2>4. at[m - 1] = Len(u) /\ at[m] = Len(u \o v) /\ len[m] = Len(v)
    BY <1>2, <2>1, <2>2, <2>3
  <2>5. at[m] = at[m - 1] + len[m] /\ at[m - 1] \in Nat /\ len[m] \in Nat
    BY <1>1, <2>1, <2>4, ConcatProperties
  <2>6. \A p \in 1 .. at[m] : g[m][p] = IF p <= at[m - 1] THEN u[p] ELSE v[p - at[m - 1]]
    BY <2>3, <2>4, <2>5, ConcatProperties
  <2> QED BY <2>1, <2>2, <2>5, <2>6
<1>4. 0 \in G
  OBVIOUS
<1>5. ASSUME NEW i \in 1 .. n, i - 1 \in G PROVE i \in G
  <2>1. \A m \in 1 .. i - 1 : Laid(i - 1, m)
    BY <1>5
  <2>2. ASSUME NEW m \in 1 .. i PROVE Laid(i, m)
    <3>1. PICK a \in Nat, l \in Nat : a = at[i - 1] /\ l = len[i] /\ at[i] = a + l
      BY <1>3
    <3>2. \A p \in 1 .. a + l : g[i][p] = IF p <= a THEN g[i - 1][p] ELSE part[i][p - a]
      BY <1>3, <3>1
    <3>3. CASE m = i
      <4>1. \A q \in 1 .. l : g[i][a + q] = part[i][q]
        BY <3>2
      <4>2. a + l <= a + l
        OBVIOUS
      <4> QED BY <3>1, <3>3, <4>1, <4>2
    <3>4. CASE m # i
      <4>1. m \in 1 .. i - 1 /\ m \in 1 .. n
        BY <3>4
      <4>2. PICK b \in Nat, k \in Nat : b = at[m - 1] /\ k = len[m] /\ at[m] = b + k
        BY <1>3, <4>1
      <4>3. b + k <= a /\ \A q \in 1 .. k : g[i - 1][b + q] = part[m][q]
        BY <2>1, <3>1, <4>1, <4>2
      <4>4. ASSUME NEW q \in 1 .. k PROVE g[i][b + q] = part[m][q]
        <5>1. b + q \in 1 .. a + l /\ b + q <= a
          BY <4>3
        <5> QED BY <3>2, <4>3, <5>1
      <4>5. b + k <= a + l
        BY <4>3
      <4> QED BY <3>1, <4>2, <4>4, <4>5
    <3> QED BY <3>3, <3>4
  <2> HIDE DEF Laid
  <2> QED BY <2>2
<1> HIDE DEF Laid
<1>6. n \in G
  <2> HIDE DEF G
  <2>1. 0 .. n \subseteq G
    BY <1>4, <1>5, UpTo
  <2> QED BY <2>1
<1>7. \A m \in 1 .. n : Laid(n, m)
  BY <1>6
<1>8. \A m \in 1 .. n : /\ at[m] <= at[n]
                        /\ \A q \in 1 .. Len(part[m]) : g[n][at[m - 1] + q] = part[m][q]
  BY <1>2, <1>7 DEF Laid
<1>9. \A m \in 1 .. n : at[m] = at[m - 1] + Len(part[m])
  BY <1>2, <1>3
<1>10. Len(g[n]) = at[n]
  BY <1>2
<1>11. LaidOut(n, part, g[n], at)
  BY <1>1, <1>8, <1>9, <1>10 DEF LaidOut
<1> QED BY <1>11

\* One sequence behind the other.
LEMMA Flattened ==
    ASSUME NEW S, NEW n \in Nat, NEW seqs \in [1 .. n -> Seq(S)]
    PROVE  FlattenSeq(seqs) \in Seq(S) /\ \E at : LaidOut(n, seqs, FlattenSeq(seqs), at)
<1>1. seqs \in Seq(Seq(S)) /\ Len(seqs) = n
  BY LenProperties, SeqDef
<1>2. \A m \in 1 .. n : seqs[m] \in Seq(S) /\ Len(seqs[m]) \in Nat
  OBVIOUS
<1>3. PICK g : Grown(S, n, seqs, g)
  BY CanGrow
<1>4. g \in [0 .. n -> Seq(S)] /\ g[0] = <<>> /\ \A m \in 1 .. n : g[m] = g[m - 1] \o seqs[m]
  BY <1>3 DEF Grown
<1>6. FlattenSeq(seqs) = g[n]
  <2>1. CASE n = 0
    <3>1. seqs = <<>> BY <1>1, <2>1, EmptySeq
    <3> QED BY <1>1, <1>4, <2>1, <3>1 DEF FlattenSeq
  <2>2. CASE n # 0
    <3> DEFINE Is(f) == f = [i \in 1 .. n |-> IF i = 1 THEN seqs[i] ELSE f[i - 1] \o seqs[i]]
               flatten == CHOOSE f : Is(f)
               h == [i \in 1 .. n |-> g[i]]
    <3>1. g[1] = seqs[1]
      <4>1. 1 \in 1 .. n /\ seqs[1] \in Seq(S) BY <1>2, <2>2
      <4>2. g[1] = g[1 - 1] \o seqs[1] BY <1>4, <4>1
      <4>3. <<>> \o seqs[1] = seqs[1] BY <4>1, ConcatEmptySeq
      <4>4. g[1 - 1] = <<>> BY <1>4
      <4> QED BY <4>2, <4>3, <4>4
    <3>2. \A i \in 1 .. n : h[i] = IF i = 1 THEN seqs[i] ELSE h[i - 1] \o seqs[i]
      <4> SUFFICES ASSUME NEW i \in 1 .. n
                   PROVE  h[i] = IF i = 1 THEN seqs[i] ELSE h[i - 1] \o seqs[i]
        OBVIOUS
      <4>1. CASE i = 1 BY <3>1, <4>1
      <4>2. CASE i # 1
        <5>1. i - 1 \in 1 .. n BY <4>2
        <5>2. h[i] = g[i] /\ h[i - 1] = g[i - 1] BY <5>1
        <5> QED BY <1>4, <4>2, <5>2
      <4> QED BY <4>1, <4>2
    <3>3. h = [i \in 1 .. n |-> h[i]]
      OBVIOUS
    <3>4. \E f : Is(f)
      <4> HIDE DEF h
      <4>1. Is(h) BY <3>2, <3>3
      <4> QED BY <4>1
    <3>5. Is(flatten)
      <4> HIDE DEF Is
      <4> QED BY <3>4
    <3>6. FlattenSeq(seqs) = flatten[n]
      BY <1>1, <2>2 DEF FlattenSeq
    <3> HIDE DEF flatten
    <3>7. \A i \in 1 .. n : flatten[i] = IF i = 1 THEN seqs[i] ELSE flatten[i - 1] \o seqs[i]
      BY <3>5
    <3> DEFINE G == {0} \cup {i \in 1 .. n : flatten[i] = g[i]}
    <3>8. ASSUME NEW m \in 1 .. n, m - 1 \in G PROVE m \in G
      <4>1. CASE m = 1 BY <3>1, <3>7, <4>1
      <4>2. CASE m # 1
        <5>1. flatten[m - 1] = g[m - 1] BY <3>8, <4>2
        <5> QED BY <5>1, <3>7, <4>2, <1>4
      <4> QED BY <4>1, <4>2
    <3>9. 0 .. n \subseteq G
      <4>1. 0 \in G OBVIOUS
      <4> HIDE DEF G
      <4> QED BY <3>8, <4>1, UpTo
    <3> QED BY <2>2, <3>6, <3>9
  <2> QED BY <2>1, <2>2
<1>7. \E at : LaidOut(n, seqs, g[n], at)
  BY <1>3, Stacked
<1>8. g[n] \in Seq(S)
  BY <1>4
<1> QED BY <1>6, <1>7, <1>8

-----------------------------------------------------------------------------
(* The encodings.                                                            *)

\* Ends finds the ends of strings that are all there.
LEMMA EndsFound ==
    ASSUME NEW data, NEW count \in Nat, NEW E \in [0 .. count -> Nat],
           \A m \in 1 .. count :
              /\ E[m - 1] < Len(data)
              /\ E[m] = E[m - 1] + 1 + data[E[m - 1] + 1]
    PROVE  Ends(data, E[0], count) = E
<1> DEFINE Step(f, m) == IF m = 0 THEN E[0]
                         ELSE IF f[m - 1] < Len(data) THEN f[m - 1] + 1 + data[f[m - 1] + 1]
                         ELSE Len(data) + 1
           Is(f) == f = [m \in 0 .. count |-> Step(f, m)]
           end == CHOOSE f : Is(f)
<1>1. ASSUME NEW m \in 0 .. count PROVE E[m] = Step(E, m)
  <2>1. CASE m = 0 BY <2>1
  <2>2. CASE m # 0
    <3>1. m \in 1 .. count BY <2>2
    <3> QED BY <2>2, <3>1
  <2> QED BY <2>1, <2>2
<1>2. \E f : Is(f)
  <2>1. E = [m \in 0 .. count |-> E[m]] OBVIOUS
  <2> HIDE DEF Step
  <2>2. Is(E) BY <1>1, <2>1
  <2> HIDE DEF Is
  <2> QED BY <2>2
<1>3. Is(end)
  <2> HIDE DEF Is
  <2> QED BY <1>2
<1>4. Ends(data, E[0], count) = end
  BY DEF Ends
<1> HIDE DEF end
<1>5. end = [m \in 0 .. count |-> end[m]] /\ \A m \in 0 .. count : end[m] = Step(end, m)
  <2> HIDE DEF Step
  <2> QED BY <1>3
<1> DEFINE G == {m \in 0 .. count : end[m] = E[m]}
<1>6. 0 \in G
  BY <1>5
<1>7. ASSUME NEW m \in 1 .. count, m - 1 \in G PROVE m \in G
  <2>1. m \in 0 .. count /\ end[m - 1] = E[m - 1]
    BY <1>7
  <2>2. end[m] = Step(end, m) /\ E[m] = Step(E, m)
    <3> HIDE DEF Step
    <3> QED BY <1>1, <1>5, <2>1
  <2>3. Step(end, m) = Step(E, m)
    BY <2>1
  <2> QED BY <2>1, <2>2, <2>3
<1>8. 0 .. count \subseteq G
  <2> HIDE DEF G
  <2> QED BY <1>6, <1>7, UpTo
<1> QED BY <1>4, <1>5, <1>8

\* A log entry comes back from its bytes, also when they are a copy.
LEMMA EntryReturns ==
    ASSUME NEW e \in [Term : Nat, Index : Nat, Data : Seq(STRING)]
    PROVE  /\ encode(e) \in Seq(Cell) /\ Len(encode(e)) >= 3
           /\ decode(encode(e)) = Decoded(e)
<1>1. PICK d \in Seq(STRING) : d = e.Data
  OBVIOUS
<1>2. PICK h : h = <<e.Term, e.Index, Len(d)>>
  OBVIOUS
<1>3. d \in Seq(Cell) /\ h \in Seq(Cell) /\ Len(h) = 3 /\ Len(d) \in Nat
      /\ h[1] = e.Term /\ h[2] = e.Index /\ h[3] = Len(d)
  <2>1. d \in Seq(Cell)
    BY SeqMonotonic DEF Cell
  <2> QED BY <1>2, <2>1 DEF Cell
<1>4. encode(e) = h \o d
  BY <1>1, <1>2 DEF encode
<1>5. PICK b : b = h \o d
  OBVIOUS
<1>6. /\ b \in Seq(Cell) /\ Len(b) = 3 + Len(d) /\ SubSeq(b, 4, 3 + Len(d)) = d
      /\ b[1] = e.Term /\ b[2] = e.Index /\ b[3] = Len(d)
  <2>1. /\ b \in Seq(Cell) /\ Len(b) = Len(h) + Len(d)
        /\ \A p \in 1 .. Len(h) : b[p] = h[p]
        /\ SubSeq(b, Len(h) + 1, Len(h) + Len(d)) = d
    <3>1. h \in Seq(Cell) /\ d \in Seq(Cell)
      BY <1>3
    <3> QED BY <1>5, <3>1, Joined, ZenonT(40)
  <2> QED BY <1>3, <2>1
<1>7. e = [Term |-> e.Term, Index |-> e.Index, Data |-> d]
  BY <1>1
<1>8. decode(b) = Decoded([Term |-> e.Term, Index |-> e.Index, Data |-> d])
  <2>1. ~(Len(b) < 3 \/ Len(b) < 3 + b[3])
    BY <1>3, <1>6
  <2>2. decode(b) = Decoded([Term |-> b[1], Index |-> b[2], Data |-> SubSeq(b, 4, 3 + b[3])])
    BY <2>1, Zenon DEF decode
  <2> QED BY <1>6, <2>2, Zenon
<1> QED BY <1>3, <1>4, <1>5, <1>6, <1>7, <1>8

\* One cell that counts, and what it counts.
LEMMA Counted ==
    ASSUME NEW t \in Seq(Cell), NEW b, b = <<Len(t)>> \o t
    PROVE  /\ b \in Seq(Cell) /\ Len(b) = 1 + Len(t) /\ b[1] = Len(t)
           /\ \A p \in 1 .. Len(t) : b[1 + p] = t[p]
<1>1. PICK s : s = <<Len(t)>>
  OBVIOUS
<1>2. s \in Seq(Cell) /\ Len(s) = 1 /\ s[1] = Len(t)
  BY <1>1 DEF Cell
<1>3. b = s \o t
  BY <1>1
<1>4. /\ s \o t \in Seq(Cell) /\ Len(s \o t) = Len(s) + Len(t)
      /\ \A p \in 1 .. Len(s) : (s \o t)[p] = s[p]
      /\ \A p \in 1 .. Len(t) : (s \o t)[Len(s) + p] = t[p]
  <2>1. s \in Seq(Cell)
    BY <1>2
  <2> QED BY <2>1, Joined, ZenonT(40)
<1> QED BY <1>2, <1>3, <1>4

\* Counted strings behind a header of k cells, and where they end.
Strings(data, k, n, code, E) ==
    /\ data \in Seq(Cell) /\ n \in Nat /\ k \in Nat
    /\ E \in [0 .. n -> Nat] /\ E[0] = k /\ E[n] = Len(data)
    /\ \A m \in 1 .. n :
          /\ code[m] \in Seq(Cell)
          /\ E[m] = E[m - 1] + 1 + Len(code[m]) /\ E[m] <= Len(data)
          /\ data[E[m - 1] + 1] = Len(code[m])
          /\ \A p \in 1 .. Len(code[m]) : data[E[m - 1] + 1 + p] = code[m][p]

Behind(data, k, flat) ==
    /\ data \in Seq(Cell) /\ Len(data) = k + Len(flat)
    /\ \A p \in 1 .. Len(flat) : data[k + p] = flat[p]

\* Counted strings that are put behind each other, and behind a header.
LEMMA StringsLaid ==
    ASSUME NEW n \in Nat, NEW k \in Nat, NEW code, NEW part, NEW flat, NEW at,
           NEW data \in Seq(Cell),
           \A m \in 1 .. n : code[m] \in Seq(Cell) /\ part[m] = <<Len(code[m])>> \o code[m],
           LaidOut(n, part, flat, at), Len(data) = k + Len(flat),
           \A p \in 1 .. Len(flat) : data[k + p] = flat[p]
    PROVE  \E E : Strings(data, k, n, code, E)
<1> DEFINE E == [m \in 0 .. n |-> k + at[m]]
<1>1. at \in [0 .. n -> Nat] /\ at[0] = 0 /\ Len(flat) = at[n]
  BY DEF LaidOut
<1>2. E \in [0 .. n -> Nat] /\ E[0] = k /\ E[n] = Len(data) /\ \A m \in 0 .. n : E[m] = k + at[m]
  BY <1>1
<1> HIDE DEF E
<1>3. ASSUME NEW m \in 1 .. n
      PROVE  /\ E[m] = E[m - 1] + 1 + Len(code[m]) /\ E[m] <= Len(data)
             /\ data[E[m - 1] + 1] = Len(code[m])
             /\ \A p \in 1 .. Len(code[m]) : data[E[m - 1] + 1 + p] = code[m][p]
  <2>1. m - 1 \in 0 .. n /\ m \in 0 .. n /\ n \in 0 .. n
    OBVIOUS
  <2>2. PICK c, b : c = code[m] /\ b = part[m]
    OBVIOUS
  <2>3. c \in Seq(Cell) /\ b = <<Len(c)>> \o c
    BY <2>2
  <2>4. /\ Len(b) = 1 + Len(c) /\ b[1] = Len(c)
        /\ \A p \in 1 .. Len(c) : b[1 + p] = c[p]
    BY <2>3, Counted
  <2>5. PICK a \in Nat, l \in Nat, f \in Nat :
            a = at[m - 1] /\ l = Len(c) /\ f = Len(flat)
    <3>1. at[m - 1] \in Nat /\ Len(c) \in Nat /\ Len(flat) \in Nat
      BY <1>1, <2>1, <2>3
    <3> QED BY <3>1
  <2>6. /\ at[m] = a + Len(b) /\ at[m] <= f
        /\ \A q \in 1 .. Len(b) : flat[a + q] = b[q]
    BY <1>1, <2>2, <2>5 DEF LaidOut
  <2>7. Len(b) = 1 + l
    BY <2>4, <2>5
  <2>8. at[m] = a + 1 + l /\ a + 1 + l <= f
    BY <2>6, <2>7
  <2>9. data[k + a + 1] = l /\ \A p \in 1 .. l : data[k + a + 1 + p] = c[p]
    <3>1. \A q \in 1 .. 1 + l : flat[a + q] = b[q]
      BY <2>6, <2>7
    <3>2. b[1] = l /\ \A p \in 1 .. l : b[1 + p] = c[p]
      BY <2>4, <2>5
    <3>3. \A p \in 1 .. f : data[k + p] = flat[p]
      BY <2>5
    <3>4. ASSUME NEW q \in 1 .. 1 + l PROVE data[k + a + q] = b[q]
      <4>1. a + q \in 1 .. f /\ k + (a + q) = k + a + q
        BY <2>8
      <4>2. data[k + (a + q)] = flat[a + q] /\ flat[a + q] = b[q]
        BY <3>1, <3>3, <4>1
      <4> QED BY <4>1, <4>2
    <3>5. data[k + a + 1] = l
      BY <3>2, <3>4
    <3>6. ASSUME NEW p \in 1 .. l PROVE data[k + a + 1 + p] = c[p]
      <4>1. 1 + p \in 1 .. 1 + l /\ k + a + (1 + p) = k + a + 1 + p
        OBVIOUS
      <4> QED BY <3>2, <3>4, <4>1
    <3> QED BY <3>5, <3>6
  <2>10. E[m - 1] = k + a /\ E[m] = k + a + 1 + l /\ Len(data) = k + f
    <3>1. E[m - 1] = k + at[m - 1] /\ E[m] = k + at[m]
      BY <1>2, <2>1
    <3>2. k + (a + 1 + l) = k + a + 1 + l
      OBVIOUS
    <3> QED BY <2>5, <2>8, <3>1, <3>2
  <2>11. k + a + 1 + l <= k + f
    BY <2>8
  <2>12. code[m] = c /\ Len(code[m]) = l
    BY <2>2, <2>5
  <2> QED BY <2>9, <2>10, <2>11, <2>12, Zenon
<1>4. Strings(data, k, n, code, E)
  BY <1>2, <1>3 DEF Strings
<1> QED BY <1>4

\* Ends finds where they end.
LEMMA StringsFound ==
    ASSUME NEW data, NEW k, NEW n, NEW code, NEW E, Strings(data, k, n, code, E)
    PROVE  Ends(data, k, n) = E
<1>0. /\ data \in Seq(Cell) /\ k \in Nat /\ n \in Nat
      /\ \A m \in 1 .. n : code[m] \in Seq(Cell)
  BY DEF Strings
<1>1. E \in [0 .. n -> Nat] /\ E[0] = k
  BY DEF Strings
<1>2. ASSUME NEW m \in 1 .. n
      PROVE  /\ E[m - 1] < Len(data)
             /\ E[m] = E[m - 1] + 1 + data[E[m - 1] + 1]
  <2>1. m - 1 \in 0 .. n
    BY <1>0
  <2>2. PICK a \in Nat, l \in Nat, d \in Nat : a = E[m - 1] /\ l = Len(code[m]) /\ d = Len(data)
    <3>1. E[m - 1] \in Nat /\ Len(code[m]) \in Nat /\ Len(data) \in Nat
      BY <1>0, <1>1, <2>1
    <3> QED BY <3>1
  <2>3. E[m] = a + 1 + l /\ E[m] <= d /\ data[a + 1] = l
    BY <2>2 DEF Strings
  <2>4. a < d
    BY <2>3
  <2> QED BY <2>2, <2>3, <2>4
<1>3. Ends(data, E[0], n) = E
  BY <1>0, <1>1, <1>2, EndsFound
<1> QED BY <1>1, <1>3

\* What lies between two ends is the string.
Cut(data, n, code, E) ==
    \A m \in 1 .. n :
        /\ E[m - 1] \in Nat /\ Len(code[m]) \in Nat
        /\ E[m] = E[m - 1] + 1 + Len(code[m]) /\ E[m] <= Len(data)
        /\ code[m] = [p \in 1 .. Len(code[m]) |-> data[E[m - 1] + 1 + p]]
        /\ SubSeq(data, E[m - 1] + 2, E[m]) = code[m]

\* A string is what is cut out between two ends.
LEMMA Between ==
    ASSUME NEW data, NEW k, NEW n, NEW code, NEW E, Strings(data, k, n, code, E)
    PROVE  Cut(data, n, code, E)
<1>0. /\ data \in Seq(Cell) /\ n \in Nat /\ E \in [0 .. n -> Nat]
      /\ \A m \in 1 .. n : code[m] \in Seq(Cell)
  BY DEF Strings
<1>1. ASSUME NEW m \in 1 .. n
      PROVE  /\ E[m - 1] \in Nat /\ Len(code[m]) \in Nat
             /\ E[m] = E[m - 1] + 1 + Len(code[m]) /\ E[m] <= Len(data)
             /\ code[m] = [p \in 1 .. Len(code[m]) |-> data[E[m - 1] + 1 + p]]
             /\ SubSeq(data, E[m - 1] + 2, E[m]) = code[m]
  <2>1. m - 1 \in 0 .. n /\ E \in [0 .. n -> Nat]
    BY <1>0
  <2>2. PICK a \in Nat, l \in Nat, d \in Nat, c \in Seq(Cell) :
            a = E[m - 1] /\ l = Len(c) /\ d = Len(data) /\ c = code[m]
    <3>1. E[m - 1] \in Nat /\ Len(code[m]) \in Nat /\ Len(data) \in Nat /\ code[m] \in Seq(Cell)
      BY <1>0, <2>1
    <3> QED BY <3>1
  <2>3. E[m] = a + 1 + l /\ E[m] <= d /\ \A p \in 1 .. l : data[a + 1 + p] = c[p]
    BY <2>2 DEF Strings
  <2>4. c = [p \in 1 .. l |-> c[p]]
    BY <2>2
  <2>5. c = [p \in 1 .. l |-> data[a + 1 + p]]
    BY <2>3, <2>4
  <2>6. PICK u, v, w : u = a + 2 /\ v = a + 1 + l /\ w = SubSeq(data, u, v)
    OBVIOUS
  <2>7. u \in Int /\ v \in Int /\ \A i \in u .. v : data[i] \in Cell
    <3>1. u \in Int /\ v \in Int /\ v <= d /\ u >= 1
      BY <2>3, <2>6
    <3>2. \A i \in u .. v : i \in 1 .. d
      BY <3>1
    <3>3. \A i \in 1 .. d : data[i] \in Cell
      BY <1>0, <2>2, ElementOfSeq
    <3> QED BY <3>1, <3>2, <3>3
  <2>8. /\ w \in Seq(Cell) /\ Len(w) = (IF u <= v THEN v - u + 1 ELSE 0)
        /\ \A i \in 1 .. v - u + 1 : w[i] = data[u + i - 1]
    BY <2>6, <2>7, SubSeqProperties
  <2>9. v - u + 1 = l /\ (IF u <= v THEN v - u + 1 ELSE 0) = l
    BY <2>6
  <2>10. ASSUME NEW i \in 1 .. l PROVE w[i] = c[i]
    <3>1. u + i - 1 = a + 1 + i
      BY <2>6
    <3>2. w[i] = data[u + i - 1]
      BY <2>8, <2>9
    <3> QED BY <2>3, <3>1, <3>2
  <2>11. w = c
    BY <2>2, <2>8, <2>9, <2>10, SeqEqual
  <2>12. SubSeq(data, E[m - 1] + 2, E[m]) = c
    BY <2>2, <2>3, <2>6, <2>11
  <2>13. code[m] = [p \in 1 .. Len(code[m]) |-> data[E[m - 1] + 1 + p]]
    BY <2>2, <2>5, Zenon
  <2>14. /\ E[m - 1] \in Nat /\ Len(code[m]) \in Nat
         /\ E[m] = E[m - 1] + 1 + Len(code[m]) /\ E[m] <= Len(data)
    BY <2>2, <2>3
  <2> QED BY <2>2, <2>12, <2>13, <2>14, Zenon
<1> QED BY <1>1, Zenon DEF Cut

\* The m-th code is that of the m-th entry.
Codes(n, ents, code) ==
    /\ ents = [m \in 1 .. n |-> ents[m]]
    /\ \A m \in 1 .. n : Len(code[m]) >= 3 /\ decode(code[m]) = Decoded(ents[m])

\* The entries come back from what follows the counter of AppendEntriesArgs.
LEMMA EntriesReturn ==
    ASSUME NEW data, NEW n, NEW code, NEW E, NEW ents,
           Strings(data, 6, n, code, E), Codes(n, ents, code)
    PROVE  DecodeEntries(data, n) = Decoded(ents)
<1>0. Cut(data, n, code, E) /\ Ends(data, 6, n) = E
  BY Between, StringsFound
<1>1. data \in Seq(Cell) /\ n \in Nat
  BY DEF Strings
<1>2. /\ ents = [m \in 1 .. n |-> ents[m]]
      /\ \A m \in 1 .. n : Len(code[m]) >= 3 /\ decode(code[m]) = Decoded(ents[m])
  BY DEF Codes
<1> DEFINE buffer(m) == [p \in 1 .. E[m] - E[m - 1] - 1 |->
                            IF E[m - 1] + 1 + p \in DOMAIN data
                            THEN data[E[m - 1] + 1 + p] ELSE 0]
<1>3. ASSUME NEW m \in 1 .. n
      PROVE  buffer(m) = code[m] /\ ~(E[m - 1] + 2 > Len(data))
  <2>1. /\ E[m - 1] \in Nat /\ Len(code[m]) \in Nat
        /\ E[m] = E[m - 1] + 1 + Len(code[m]) /\ E[m] <= Len(data)
        /\ code[m] = [p \in 1 .. Len(code[m]) |-> data[E[m - 1] + 1 + p]]
    BY <1>0, Zenon DEF Cut
  <2>2. PICK a \in Nat, l \in Nat, d \in Nat : a = E[m - 1] /\ l = Len(code[m]) /\ d = Len(data)
    <3>1. Len(data) \in Nat
      BY <1>1
    <3> QED BY <2>1, <3>1, Zenon
  <2>3. E[m] = a + 1 + l /\ a + 1 + l <= d /\ l >= 3
    BY <1>2, <2>1, <2>2
  <2>4. E[m] - E[m - 1] - 1 = l
    BY <2>2, <2>3, SMTT(30)
  <2>5. \A p \in 1 .. l : E[m - 1] + 1 + p \in DOMAIN data
    <3>1. DOMAIN data = 1 .. d
      BY <1>1, <2>2
    <3>2. \A p \in 1 .. l : a + 1 + p \in 1 .. d
      BY <2>3
    <3> QED BY <2>2, <3>1, <3>2
  <2>6. buffer(m) = [p \in 1 .. l |-> IF E[m - 1] + 1 + p \in DOMAIN data
                                      THEN data[E[m - 1] + 1 + p] ELSE 0]
    BY <2>4, Zenon
  <2>7. buffer(m) = [p \in 1 .. l |-> data[E[m - 1] + 1 + p]]
    BY <2>5, <2>6
  <2>8. ~(E[m - 1] + 2 > Len(data))
    BY <2>2, <2>3, SMTT(30)
  <2> HIDE DEF buffer
  <2> QED BY <2>1, <2>2, <2>7, <2>8, Zenon
<1> HIDE DEF buffer
<1>4. ASSUME NEW m \in 1 .. n
      PROVE  decode(buffer(m)).ok /\ decode(buffer(m)).value = ents[m]
  <2>1. decode(buffer(m)) = [ok |-> TRUE, value |-> ents[m]]
    BY <1>2, <1>3, Zenon DEF Decoded
  <2> QED BY <2>1
<1>5. DecodeEntries(data, n) =
         IF \E m \in 1 .. n : E[m - 1] + 2 > Len(data) \/ ~decode(buffer(m)).ok
         THEN Malformed
         ELSE Decoded([m \in 1 .. n |-> decode(buffer(m)).value])
  BY <1>0, Zenon DEF DecodeEntries, buffer
<1>6. [m \in 1 .. n |-> decode(buffer(m)).value] = ents
  BY <1>2, <1>4
<1> QED BY <1>3, <1>4, <1>5, <1>6, Zenon

\* AppendEntriesArgs come back from their bytes.
LEMMA AppendReturns ==
    ASSUME NEW r, IsAppend(r)
    PROVE  /\ EncodeAppendEntriesArgs(r.args) \in Seq(Cell)
           /\ DecodeAppendEntriesArgs(EncodeAppendEntriesArgs(r.args)) = Decoded(r.args)
<1>1. PICK a : a = r.args
  OBVIOUS
<1>2. a \in [Term : Nat, LeaderID : Nat, PrevLogIndex : Nat, PrevLogTerm : Nat,
             Entries : Seq([Term : Nat, Index : Nat, Data : Seq(STRING)]), LeaderCommit : Nat]
  BY <1>1 DEF IsAppend
<1> DEFINE Rec == [Term : Nat, Index : Nat, Data : Seq(STRING)]
<1>3. PICK ents \in Seq(Rec) : ents = a.Entries
  BY <1>2
<1>4. /\ ents = [p \in DOMAIN ents |-> ents[p]]
      /\ \A p \in DOMAIN ents : /\ encode(ents[p]) \in Seq(Cell) /\ Len(encode(ents[p])) >= 3
                                /\ decode(encode(ents[p])) = Decoded(ents[p])
  <2>1. ents = [p \in DOMAIN ents |-> ents[p]]
    OBVIOUS
  <2>2. ASSUME NEW p \in DOMAIN ents PROVE ents[p] \in Rec
    <3> HIDE DEF Rec
    <3> QED OBVIOUS
  <2>3. \A e \in Rec : /\ encode(e) \in Seq(Cell) /\ Len(encode(e)) >= 3
                       /\ decode(encode(e)) = Decoded(e)
    BY EntryReturns
  <2> HIDE DEF Rec
  <2> QED BY <2>1, <2>2, <2>3, Zenon
<1> HIDE DEF Rec
<1>5. PICK n \in Nat : n = Len(ents) /\ DOMAIN ents = 1 .. n
  BY LenProperties
<1>0. PICK code : code = [m \in 1 .. n |-> encode(ents[m])]
  OBVIOUS
<1>6. \A m \in 1 .. n : /\ code[m] = encode(ents[m]) /\ code[m] \in Seq(Cell)
                        /\ Len(code[m]) >= 3 /\ decode(code[m]) = Decoded(ents[m])
  BY <1>4, <1>5, <1>0
<1>7. PICK part : part = [p \in DOMAIN ents |-> <<Len(encode(ents[p]))>> \o encode(ents[p])]
  OBVIOUS
<1>8. \A m \in 1 .. n : part[m] = <<Len(code[m])>> \o code[m]
  BY <1>5, <1>6, <1>7
<1>9. ASSUME NEW m \in 1 .. n PROVE part[m] \in Seq(Cell)
  <2>1. PICK c, b : c \in Seq(Cell) /\ c = code[m] /\ b = part[m]
    BY <1>6
  <2>2. b = <<Len(c)>> \o c
    BY <1>8, <2>1
  <2>3. b \in Seq(Cell)
    BY <2>1, <2>2, Counted
  <2> QED BY <2>1, <2>3
<1>10. part \in [1 .. n -> Seq(Cell)]
  BY <1>5, <1>7, <1>9
<1>11. PICK flat \in Seq(Cell) : flat = FlattenSeq(part)
  BY <1>10, Flattened
<1>12. PICK at : LaidOut(n, part, flat, at)
  BY <1>10, <1>11, Flattened
<1>13. PICK h : h = <<a.Term, a.LeaderID, a.PrevLogIndex, a.PrevLogTerm, a.LeaderCommit, n>>
  OBVIOUS
<1>14. /\ h \in Seq(Cell) /\ Len(h) = 6
       /\ h[1] = a.Term /\ h[2] = a.LeaderID /\ h[3] = a.PrevLogIndex
       /\ h[4] = a.PrevLogTerm /\ h[5] = a.LeaderCommit /\ h[6] = n
  BY <1>2, <1>13 DEF Cell
<1>15. PICK data : data = h \o flat
  OBVIOUS
<1>16. EncodeAppendEntriesArgs(a) = data
  BY <1>3, <1>5, <1>7, <1>11, <1>13, <1>15 DEF EncodeAppendEntriesArgs
<1>17. /\ data \in Seq(Cell) /\ Len(data) = 6 + Len(flat)
       /\ \A p \in 1 .. 6 : data[p] = h[p]
       /\ \A p \in 1 .. Len(flat) : data[6 + p] = flat[p]
  <2>1. h \in Seq(Cell)
    BY <1>14
  <2>2. /\ h \o flat \in Seq(Cell) /\ Len(h \o flat) = Len(h) + Len(flat)
        /\ \A p \in 1 .. Len(h) : (h \o flat)[p] = h[p]
        /\ \A p \in 1 .. Len(flat) : (h \o flat)[Len(h) + p] = flat[p]
    BY <2>1, Joined, ZenonT(40)
  <2> QED BY <1>14, <1>15, <2>2
<1>18. PICK E : Strings(data, 6, n, code, E)
  BY <1>6, <1>8, <1>12, <1>17, StringsLaid
<1>19. DecodeEntries(data, n) = Decoded(ents)
  <2>1. Codes(n, ents, code)
    BY <1>4, <1>5, <1>6 DEF Codes
  <2> QED BY <1>18, <2>1, EntriesReturn
<1>20. /\ ~(Len(data) < 6) /\ data[6] = n
       /\ data[1] = a.Term /\ data[2] = a.LeaderID /\ data[3] = a.PrevLogIndex
       /\ data[4] = a.PrevLogTerm /\ data[5] = a.LeaderCommit
  BY <1>14, <1>17
<1>21. DecodeAppendEntriesArgs(data) =
          Decoded([Term |-> data[1], LeaderID |-> data[2], PrevLogIndex |-> data[3],
                   PrevLogTerm |-> data[4], LeaderCommit |-> data[5], Entries |-> ents])
  <2>1. DecodeEntries(data, data[6]).ok /\ DecodeEntries(data, data[6]).value = ents
    <3>1. DecodeEntries(data, data[6]) = [ok |-> TRUE, value |-> ents]
      BY <1>19, <1>20, Zenon DEF Decoded
    <3> QED BY <3>1
  <2> QED BY <1>20, <2>1, Zenon DEF DecodeAppendEntriesArgs
<1>22. a = [Term |-> a.Term, LeaderID |-> a.LeaderID, PrevLogIndex |-> a.PrevLogIndex,
            PrevLogTerm |-> a.PrevLogTerm, LeaderCommit |-> a.LeaderCommit, Entries |-> ents]
  BY <1>2, <1>3
<1> QED BY <1>1, <1>16, <1>17, <1>20, <1>21, <1>22

\* Odd and even numbers up to 2 * n.
LEMMA Halves ==
    ASSUME NEW n \in Nat
    PROVE  /\ \A i \in 1 .. 2 * n : \E m \in 1 .. n : i = 2 * m \/ i = 2 * m - 1
           /\ \A m \in 0 .. n : 2 * m \in 0 .. 2 * n /\ (2 * m) % 2 = 0 /\ (2 * m) \div 2 = m
           /\ \A m \in 1 .. n : /\ 2 * m - 1 \in 1 .. 2 * n /\ (2 * m - 1) % 2 = 1
                                /\ 2 * m \in 1 .. 2 * n /\ (2 * m) \div 2 = m
                                /\ (2 * m - 1) \div 2 = m - 1
<1>1. ASSUME NEW i \in 1 .. 2 * n PROVE \E m \in 1 .. n : i = 2 * m \/ i = 2 * m - 1
  <2>1. PICK m : m = (i + 1) \div 2
    OBVIOUS
  <2>2. m \in Int /\ (2 * m = i + 1 \/ 2 * m + 1 = i + 1)
    BY <2>1
  <2>3. m \in 1 .. n /\ (i = 2 * m \/ i = 2 * m - 1)
    BY <2>2
  <2> QED BY <2>3
<1>2. ASSUME NEW m \in 0 .. n
      PROVE  2 * m \in 0 .. 2 * n /\ (2 * m) % 2 = 0 /\ (2 * m) \div 2 = m
  OBVIOUS
<1>3. ASSUME NEW m \in 1 .. n
      PROVE  /\ 2 * m - 1 \in 1 .. 2 * n /\ (2 * m - 1) % 2 = 1
             /\ 2 * m \in 1 .. 2 * n /\ (2 * m) \div 2 = m
             /\ (2 * m - 1) \div 2 = m - 1
  OBVIOUS
<1> QED BY <1>1, <1>2, <1>3, Zenon

\* A counted key and a counted value behind each other.
LEMMA PairCounted ==
    ASSUME NEW x \in Seq(Cell), NEW y \in Seq(Cell),
           NEW b, b = <<Len(x)>> \o x \o <<Len(y)>> \o y
    PROVE  /\ b \in Seq(Cell) /\ Len(b) = 1 + Len(x) + 1 + Len(y)
           /\ b[1] = Len(x) /\ \A p \in 1 .. Len(x) : b[1 + p] = x[p]
           /\ b[1 + Len(x) + 1] = Len(y)
           /\ \A p \in 1 .. Len(y) : b[1 + Len(x) + 1 + p] = y[p]
<1>1. PICK u, v, w : u = <<Len(x)>> \o x /\ v = <<Len(y)>> \o y /\ w = <<Len(y)>>
  OBVIOUS
<1>2. /\ u \in Seq(Cell) /\ Len(u) = 1 + Len(x) /\ u[1] = Len(x)
      /\ \A p \in 1 .. Len(x) : u[1 + p] = x[p]
  BY <1>1, Counted
<1>3. /\ v \in Seq(Cell) /\ Len(v) = 1 + Len(y) /\ v[1] = Len(y)
      /\ \A p \in 1 .. Len(y) : v[1 + p] = y[p]
  BY <1>1, Counted
<1>4. w \in Seq(Cell)
  BY <1>1 DEF Cell
<1>5. b = u \o v
  <2>1. u \in Seq(Cell)
    BY <1>2
  <2>2. (u \o w) \o y = u \o (w \o y)
    BY <1>4, <2>1, ConcatAssociative, SMTT(30)
  <2> QED BY <1>1, <2>2
<1>6. /\ b \in Seq(Cell) /\ Len(b) = Len(u) + Len(v)
      /\ \A p \in 1 .. Len(u) : b[p] = u[p]
      /\ \A p \in 1 .. Len(v) : b[Len(u) + p] = v[p]
  <2>1. u \in Seq(Cell) /\ v \in Seq(Cell)
    BY <1>2, <1>3
  <2>2. /\ u \o v \in Seq(Cell) /\ Len(u \o v) = Len(u) + Len(v)
        /\ \A p \in 1 .. Len(u) : (u \o v)[p] = u[p]
        /\ \A p \in 1 .. Len(v) : (u \o v)[Len(u) + p] = v[p]
    BY <2>1, Joined, ZenonT(40)
  <2> QED BY <1>5, <2>2
<1>7. PICK k \in Nat, l \in Nat : k = Len(x) /\ l = Len(y)
  OBVIOUS
<1>8. Len(u) = 1 + k /\ Len(v) = 1 + l
  BY <1>2, <1>3, <1>7
<1>9. Len(b) = 1 + k + 1 + l
  BY <1>6, <1>8
<1>10. b[1] = k /\ \A p \in 1 .. k : b[1 + p] = x[p]
  BY <1>2, <1>6, <1>7, <1>8
<1>11. ASSUME NEW q \in 1 .. 1 + l PROVE b[1 + k + q] = v[q]
  BY <1>6, <1>8
<1>12. b[1 + k + 1] = l
  BY <1>3, <1>7, <1>11
<1>13. ASSUME NEW p \in 1 .. l PROVE b[1 + k + 1 + p] = y[p]
  <2>1. 1 + p \in 1 .. 1 + l /\ 1 + k + (1 + p) = 1 + k + 1 + p
    OBVIOUS
  <2> QED BY <1>3, <1>7, <1>11, <2>1
<1> QED BY <1>6, <1>7, <1>9, <1>10, <1>12, <1>13

\* A pair of x and of y cells that starts behind a cells and ends within f.
LEMMA PairWithin ==
    ASSUME NEW k \in Nat, NEW a \in Nat, NEW x \in Nat, NEW y \in Nat, NEW f \in Nat,
           a + 1 + x + 1 + y <= f
    PROVE  /\ k + a + 1 + x + 1 + y <= k + f
           /\ \A q \in 1 .. 1 + x + 1 + y : a + q \in 1 .. f /\ k + (a + q) = k + a + q
OBVIOUS

\* n keys and values, alternating in code and in pairs in part.
Paired(n, key, val, code, part) ==
    \A m \in 1 .. n :
        /\ key[m] \in Seq(Cell) /\ val[m] \in Seq(Cell)
        /\ code[2 * m - 1] = key[m] /\ code[2 * m] = val[m]
        /\ part[m] = <<Len(key[m])>> \o key[m] \o <<Len(val[m])>> \o val[m]

\* Keys and values behind a header of k cells are counted strings.
LEMMA PairsLaid ==
    ASSUME NEW n \in Nat, NEW k \in Nat, NEW key, NEW val, NEW code, NEW part, NEW flat, NEW at,
           NEW data, Paired(n, key, val, code, part), LaidOut(n, part, flat, at),
           Behind(data, k, flat)
    PROVE  \E E : Strings(data, k, 2 * n, code, E)
<1> USE DEF Paired, Behind
<1> DEFINE E == [i \in 0 .. 2 * n |-> IF i % 2 = 0 THEN k + at[i \div 2]
                                      ELSE k + at[i \div 2] + 1 + Len(code[i])]
<1>1. at \in [0 .. n -> Nat] /\ at[0] = 0 /\ Len(flat) = at[n] /\ Len(flat) \in Nat
  BY DEF LaidOut
<1>2. \A m \in 0 .. n : E[2 * m] = k + at[m]
  BY Halves
<1>3. ASSUME NEW m \in 1 .. n PROVE E[2 * m - 1] = k + at[m - 1] + 1 + Len(key[m])
  <2>1. PICK j : j = 2 * m - 1
    OBVIOUS
  <2>2. j \in 0 .. 2 * n /\ j % 2 = 1 /\ j \div 2 = m - 1
    BY <2>1, Halves
  <2>3. E[j] = k + at[j \div 2] + 1 + Len(code[j])
    BY <2>2
  <2> HIDE DEF E
  <2> QED BY <2>1, <2>2, <2>3
<1> HIDE DEF E
<1>4. ASSUME NEW m \in 1 .. n
      PROVE  \E a \in Nat, x \in Nat, y \in Nat :
                /\ E[2 * m - 2] = k + a /\ x = Len(key[m]) /\ y = Len(val[m])
                /\ E[2 * m - 1] = k + a + 1 + x /\ E[2 * m] = k + a + 1 + x + 1 + y
                /\ k + a + 1 + x + 1 + y <= Len(data)
                /\ data[k + a + 1] = x /\ data[k + a + 1 + x + 1] = y
                /\ \A p \in 1 .. x : data[k + a + 1 + p] = key[m][p]
                /\ \A p \in 1 .. y : data[k + a + 1 + x + 1 + p] = val[m][p]
  <2>1. m - 1 \in 0 .. n /\ m \in 0 .. n /\ n \in 0 .. n /\ 2 * (m - 1) = 2 * m - 2
    OBVIOUS
  <2>2. PICK c, d, b : c = key[m] /\ d = val[m] /\ b = part[m]
    OBVIOUS
  <2>3. c \in Seq(Cell) /\ d \in Seq(Cell) /\ b = <<Len(c)>> \o c \o <<Len(d)>> \o d
    BY <2>2
  <2>4. /\ Len(b) = 1 + Len(c) + 1 + Len(d)
        /\ b[1] = Len(c) /\ \A p \in 1 .. Len(c) : b[1 + p] = c[p]
        /\ b[1 + Len(c) + 1] = Len(d)
        /\ \A p \in 1 .. Len(d) : b[1 + Len(c) + 1 + p] = d[p]
    BY <2>3, PairCounted
  <2>5. PICK a \in Nat, x \in Nat, y \in Nat, f \in Nat :
            a = at[m - 1] /\ x = Len(c) /\ y = Len(d) /\ f = Len(flat)
    <3>1. at[m - 1] \in Nat /\ Len(c) \in Nat /\ Len(d) \in Nat /\ Len(flat) \in Nat
      BY <1>1, <2>1, <2>3
    <3> QED BY <3>1
  <2>6. /\ at[m] = a + Len(b) /\ at[m] <= f
        /\ \A q \in 1 .. Len(b) : flat[a + q] = b[q]
    BY <1>1, <2>2, <2>5 DEF LaidOut
  <2>7. Len(b) = 1 + x + 1 + y
    BY <2>4, <2>5
  <2>8. at[m] = a + 1 + x + 1 + y /\ a + 1 + x + 1 + y <= f
    BY <2>6, <2>7, SMTT(30)
  <2>9. ASSUME NEW q \in 1 .. 1 + x + 1 + y PROVE data[k + a + q] = b[q]
    <3>1. a + q \in 1 .. f /\ k + (a + q) = k + a + q
      <4>1. a + 1 + x + 1 + y <= f
        BY <2>8
      <4>2. \A r \in 1 .. 1 + x + 1 + y : a + r \in 1 .. f /\ k + (a + r) = k + a + r
        BY <4>1, PairWithin
      <4> QED BY <4>2, Zenon
    <3>2. data[k + (a + q)] = flat[a + q]
      BY <2>5, <3>1
    <3>3. flat[a + q] = b[q]
      BY <2>6, <2>7
    <3> QED BY <3>1, <3>2, <3>3
  <2>10. data[k + a + 1] = x
    <3>1. 1 \in 1 .. 1 + x + 1 + y
      OBVIOUS
    <3>2. b[1] = x
      BY <2>4, <2>5, Zenon
    <3>3. data[k + a + 1] = b[1]
      BY <2>9, <3>1, Zenon
    <3> QED BY <3>2, <3>3, Zenon
  <2>11. ASSUME NEW p \in 1 .. x PROVE data[k + a + 1 + p] = c[p]
    <3>1. 1 + p \in 1 .. 1 + x + 1 + y /\ k + a + (1 + p) = k + a + 1 + p
      OBVIOUS
    <3>2. b[1 + p] = c[p]
      BY <2>4, <2>5, Zenon
    <3>3. data[k + a + (1 + p)] = b[1 + p]
      BY <2>9, <3>1, Zenon
    <3> QED BY <3>1, <3>2, <3>3
  <2>12. data[k + a + 1 + x + 1] = y
    <3>1. 1 + x + 1 \in 1 .. 1 + x + 1 + y /\ k + a + (1 + x + 1) = k + a + 1 + x + 1
      OBVIOUS
    <3>2. b[1 + x + 1] = y
      BY <2>4, <2>5
    <3>3. data[k + a + (1 + x + 1)] = b[1 + x + 1]
      BY <2>9, <3>1
    <3> QED BY <3>1, <3>2, <3>3
  <2>13. ASSUME NEW p \in 1 .. y PROVE data[k + a + 1 + x + 1 + p] = d[p]
    <3>1. /\ 1 + x + 1 + p \in 1 .. 1 + x + 1 + y
          /\ k + a + (1 + x + 1 + p) = k + a + 1 + x + 1 + p
      OBVIOUS
    <3>2. b[1 + x + 1 + p] = d[p]
      BY <2>4, <2>5
    <3> QED BY <2>9, <3>1, <3>2
  <2>14. E[2 * m - 2] = k + a
    BY <1>2, <2>1, <2>5
  <2>15. E[2 * m - 1] = k + a + 1 + x
    BY <1>3, <2>2, <2>5
  <2>16. E[2 * m] = k + a + 1 + x + 1 + y
    <3>1. E[2 * m] = k + at[m]
      BY <1>2, <2>1
    <3> QED BY <2>8, <3>1, SMTT(30)
  <2>17. k + a + 1 + x + 1 + y <= Len(data)
    <3>1. Len(data) = k + f
      BY <2>5
    <3>2. k + a + 1 + x + 1 + y <= k + f
      BY <2>8, PairWithin, Zenon
    <3> QED BY <3>1, <3>2
  <2>18. x = Len(key[m]) /\ y = Len(val[m])
    BY <2>2, <2>5
  <2>19. \A p \in 1 .. x : data[k + a + 1 + p] = key[m][p]
    BY <2>2, <2>11
  <2>20. \A p \in 1 .. y : data[k + a + 1 + x + 1 + p] = val[m][p]
    BY <2>2, <2>13
  <2> WITNESS a \in Nat, x \in Nat, y \in Nat
  <2> QED BY <2>10, <2>12, <2>14, <2>15, <2>16, <2>17, <2>18, <2>19, <2>20, Zenon
<1>5. ASSUME NEW i \in 1 .. 2 * n
      PROVE  /\ code[i] \in Seq(Cell) /\ E[i] \in Nat
             /\ E[i] = E[i - 1] + 1 + Len(code[i]) /\ E[i] <= Len(data)
             /\ data[E[i - 1] + 1] = Len(code[i])
             /\ \A p \in 1 .. Len(code[i]) : data[E[i - 1] + 1 + p] = code[i][p]
  <2>1. PICK m \in 1 .. n : i = 2 * m \/ i = 2 * m - 1
    BY Halves
  <2>2. PICK a \in Nat, x \in Nat, y \in Nat :
          /\ E[2 * m - 2] = k + a /\ x = Len(key[m]) /\ y = Len(val[m])
          /\ E[2 * m - 1] = k + a + 1 + x /\ E[2 * m] = k + a + 1 + x + 1 + y
          /\ k + a + 1 + x + 1 + y <= Len(data)
          /\ data[k + a + 1] = x /\ data[k + a + 1 + x + 1] = y
          /\ \A p \in 1 .. x : data[k + a + 1 + p] = key[m][p]
          /\ \A p \in 1 .. y : data[k + a + 1 + x + 1 + p] = val[m][p]
    BY <1>4
  <2>3. /\ key[m] \in Seq(Cell) /\ val[m] \in Seq(Cell)
        /\ code[2 * m - 1] = key[m] /\ code[2 * m] = val[m]
    OBVIOUS
  <2>4. PICK d \in Nat : d = Len(data)
    OBVIOUS
  <2>5. CASE i = 2 * m
    <3>1. i - 1 = 2 * m - 1 /\ k + a + 1 + x + 1 + y \in Nat
      BY <2>5
    <3>2. /\ E[i - 1] = k + a + 1 + x /\ E[i] = k + a + 1 + x + 1 + y
          /\ code[i] = val[m] /\ Len(code[i]) = y
      BY <2>2, <2>3, <2>5, <3>1
    <3> QED BY <2>2, <2>3, <3>1, <3>2, Zenon
  <2>6. CASE i = 2 * m - 1
    <3>1. i - 1 = 2 * m - 2 /\ k + a + 1 + x \in Nat
      BY <2>6
    <3>2. /\ E[i - 1] = k + a /\ E[i] = k + a + 1 + x
          /\ code[i] = key[m] /\ Len(code[i]) = x
      BY <2>2, <2>3, <2>6, <3>1
    <3>3. k + a + 1 + x <= Len(data)
      <4>1. k + a + 1 + x + 1 + y <= d
        BY <2>2, <2>4
      <4>2. k + a + 1 + x <= d
        BY <4>1
      <4> QED BY <2>4, <4>2
    <3> QED BY <2>2, <2>3, <3>1, <3>2, <3>3, Zenon
  <2> QED BY <2>1, <2>5, <2>6
<1>6. E \in [0 .. 2 * n -> Nat] /\ E[0] = k /\ E[2 * n] = Len(data)
  <2>1. E[0] = k
    <3>1. 0 \in 0 .. n /\ 2 * 0 = 0
      OBVIOUS
    <3>2. E[2 * 0] = k + at[0]
      BY <1>2, <3>1
    <3> QED BY <1>1, <3>1, <3>2
  <2>2. E[2 * n] = Len(data)
    <3>1. n \in 0 .. n
      OBVIOUS
    <3> QED BY <1>1, <1>2, <3>1
  <2>3. \A i \in 0 .. 2 * n : E[i] \in Nat
    BY <1>5, <2>1
  <2>4. E = [i \in 0 .. 2 * n |-> E[i]]
    BY DEF E
  <2> QED BY <2>1, <2>2, <2>3, <2>4
<1>7. Strings(data, k, 2 * n, code, E)
  BY <1>5, <1>6 DEF Strings
<1> QED BY <1>7

\* order visits each of the n keys in K once.
Enumerates(n, K, order) ==
    /\ n \in Nat /\ order \in [1 .. n -> K]
    /\ \A i, j \in 1 .. n : order[i] = order[j] => i = j
    /\ \A x \in K : \E i \in 1 .. n : order[i] = x

\* An order in which range visits a map.
LEMMA Visited ==
    ASSUME NEW K, IsFiniteSet(K), NEW order \in SetToSeqs(K)
    PROVE  \E n : Enumerates(n, K, order)
<1>1. PICK n \in Nat : n = Cardinality(K)
  BY FS_CardinalityType
<1>2. order \in [1 .. n -> K] /\ \A i, j \in 1 .. n : order[i] = order[j] => i = j
  BY <1>1 DEF SetToSeqs
<1>3. order \in Injection(1 .. n, K)
  BY <1>2, Zenon DEF Injection, IsInjective
<1>4. Cardinality(1 .. n) = n
  BY FS_Interval
<1>5. order \in Surjection(1 .. n, K)
  BY <1>1, <1>3, <1>4, FS_Injection, Zenon
<1>6. \A x \in K : \E i \in 1 .. n : order[i] = x
  BY <1>5, Zenon DEF Surjection
<1>7. Enumerates(n, K, order)
  BY <1>2, <1>6, Zenon DEF Enumerates
<1> QED BY <1>7

ValuesOf(K, map, n, order, val) ==
    map = [k \in K |-> map[k]] /\ \A m \in 1 .. n : val[m] = map[order[m]]

\* The map comes back from its keys and values.
LEMMA SnapshotDecoded ==
    ASSUME NEW K, NEW map, NEW n, NEW order, NEW val, NEW data, NEW code, NEW part, NEW E,
           Enumerates(n, K, order), ValuesOf(K, map, n, order, val),
           Paired(n, order, val, code, part), Strings(data, 3, 2 * n, code, E)
    PROVE  data[3] = n =>
              DecodeSnapshot(data) = Decoded([index |-> data[1], term |-> data[2], data |-> map])
<1> SUFFICES ASSUME data[3] = n
             PROVE  DecodeSnapshot(data) =
                       Decoded([index |-> data[1], term |-> data[2], data |-> map])
  OBVIOUS
<1>0. /\ n \in Nat /\ order \in [1 .. n -> K]
      /\ \A i, j \in 1 .. n : order[i] = order[j] => i = j
      /\ \A x \in K : \E i \in 1 .. n : order[i] = x
      /\ \A m \in 1 .. n : code[2 * m - 1] = order[m] /\ code[2 * m] = map[order[m]]
  BY DEF Enumerates, Paired, ValuesOf
<1> USE <1>0
<1> DEFINE end == Ends(data, 3, 2 * data[3])
           string(m) == SubSeq(data, end[m - 1] + 2, end[m])
           LastOf(k, m) == /\ string(2 * m - 1) = k
                           /\ \A l \in m + 1 .. data[3] : string(2 * l - 1) # k
           last(k) == CHOOSE m \in 1 .. data[3] : LastOf(k, m)
           keys == {string(2 * m - 1) : m \in 1 .. data[3]}
<1>4. DecodeSnapshot(data) =
         IF Len(data) < 3 THEN Malformed
         ELSE IF end[2 * data[3]] > Len(data) THEN Malformed
         ELSE Decoded([index |-> data[1], term |-> data[2],
                       data |-> [k \in keys |-> string(2 * last(k))]])
  BY Zenon DEF DecodeSnapshot
<1>1. Cut(data, 2 * n, code, E) /\ end = E
  BY Between, StringsFound
<1> HIDE DEF end
<1>2. \A m \in 1 .. 2 * n : string(m) = code[m]
  BY <1>1, Zenon DEF Cut
<1>3. E[2 * n] = Len(data) /\ Len(data) \in Nat /\ Len(data) >= 3
  <2>1. data \in Seq(Cell) /\ E \in [0 .. 2 * n -> Nat] /\ E[0] = 3 /\ E[2 * n] = Len(data)
    BY DEF Strings
  <2>2. CASE n = 0
    <3>1. 2 * n = 0
      BY <2>2
    <3> QED BY <2>1, <3>1
  <2>3. CASE n # 0
    <3>1. 1 \in 1 .. 2 * n
      BY <2>3
    <3>2. /\ E[1 - 1] \in Nat /\ Len(code[1]) \in Nat
          /\ E[1] = E[1 - 1] + 1 + Len(code[1]) /\ E[1] <= Len(data)
      BY <1>1, <3>1, Zenon DEF Cut
    <3> QED BY <2>1, <3>2
  <2> QED BY <2>2, <2>3
<1> HIDE DEF string
<1>5. ASSUME NEW m \in 1 .. n
      PROVE  string(2 * m - 1) = order[m] /\ string(2 * m) = map[order[m]] /\ order[m] \in K
  <2>1. 2 * m - 1 \in 1 .. 2 * n /\ 2 * m \in 1 .. 2 * n
    OBVIOUS
  <2> QED BY <1>2, <2>1
<1>6. keys = K
  <2>1. ASSUME NEW x \in K PROVE \E i \in 1 .. n : string(2 * i - 1) = x
    <3>1. PICK i \in 1 .. n : order[i] = x
      OBVIOUS
    <3> QED BY <1>5, <3>1, Zenon
  <2>2. ASSUME NEW m \in 1 .. n PROVE string(2 * m - 1) \in K
    <3>1. string(2 * m - 1) = order[m] /\ order[m] \in K
      BY <1>5, Zenon
    <3> QED BY <3>1, Zenon
  <2>3. keys = {string(2 * m - 1) : m \in 1 .. n}
    OBVIOUS
  <2> HIDE DEF keys
  <2>4. ASSUME NEW x \in keys PROVE x \in K
    <3>1. PICK m \in 1 .. n : x = string(2 * m - 1)
      BY <2>3
    <3> QED BY <2>2, <3>1, Zenon
  <2>5. ASSUME NEW x \in K PROVE x \in keys
    <3>1. PICK i \in 1 .. n : string(2 * i - 1) = x
      BY <2>1, Zenon
    <3> QED BY <2>3, <3>1, Zenon
  <2> QED BY <2>4, <2>5, Zenon
<1>7. ASSUME NEW k \in K PROVE string(2 * last(k)) = map[k]
  <2>1. PICK i \in 1 .. n : order[i] = k
    OBVIOUS
  <2>2. LastOf(k, i)
    <3>1. string(2 * i - 1) = k
      BY <1>5, <2>1
    <3>2. ASSUME NEW l \in i + 1 .. n PROVE string(2 * l - 1) # k
      <4>1. l \in 1 .. n /\ l # i
        OBVIOUS
      <4>2. string(2 * l - 1) = order[l] /\ order[l] # order[i]
        BY <1>5, <4>1
      <4> QED BY <2>1, <4>2
    <3> QED BY <3>1, <3>2
  <2>3. last(k) \in 1 .. n /\ LastOf(k, last(k))
    <3> HIDE DEF LastOf
    <3> QED BY <2>2
  <2> HIDE DEF last
  <2>4. order[last(k)] = k
    BY <1>5, <2>3
  <2> QED BY <1>5, <2>3, <2>4
<1>8. [k \in keys |-> string(2 * last(k))] = map
  <2>1. map = [k \in K |-> map[k]]
    BY DEF ValuesOf
  <2> HIDE DEF last, keys
  <2> QED BY <1>6, <1>7, <2>1
<1>9. ~(Len(data) < 3) /\ ~(end[2 * data[3]] > Len(data))
  BY <1>1, <1>3
<1> QED BY <1>4, <1>8, <1>9, Zenon

\* A snapshot comes back from its bytes, in whatever order the map is visited.
LEMMA SnapshotReturns ==
    ASSUME NEW r, IsInstall(r), NEW order, order \in SetToSeqs(DOMAIN r.args.Snapshot.data)
    PROVE  /\ EncodeSnapshot(r.args.Snapshot, order) \in Seq(Cell)
           /\ DecodeSnapshot(EncodeSnapshot(r.args.Snapshot, order)) = Decoded(r.args.Snapshot)
<1>0. PICK s, K : s = r.args.Snapshot /\ K = DOMAIN s.data
  OBVIOUS
<1>1. PICK map : map = s.data /\ map \in [K -> Seq(STRING)]
                 /\ s \in [index : Nat, term : Nat, data : [K -> Seq(STRING)]]
                 /\ K \subseteq Seq(STRING) /\ IsFiniteSet(K)
  BY <1>0 DEF IsInstall
<1>2. PICK n \in Nat : Enumerates(n, K, order) /\ order \in [1 .. n -> K]
  BY <1>0, <1>1, Visited DEF Enumerates
<1>3. DOMAIN order = 1 .. n /\ Len(order) = n
  BY <1>2
<1>4. PICK val : val = [m \in 1 .. n |-> map[order[m]]]
  OBVIOUS
<1>5. \A m \in 1 .. n : /\ order[m] \in Seq(STRING) /\ val[m] \in Seq(STRING)
                        /\ val[m] = map[order[m]]
  BY <1>1, <1>2, <1>4
<1>6. \A m \in 1 .. n : order[m] \in Seq(Cell) /\ val[m] \in Seq(Cell)
  <2>1. \A x \in Seq(STRING) : x \in Seq(Cell)
    BY SeqMonotonic DEF Cell
  <2> QED BY <1>5, <2>1
<1>7. PICK part : part = [p \in DOMAIN order |->
                             <<Len(order[p])>> \o order[p]
                               \o <<Len(s.data[order[p]])>> \o s.data[order[p]]]
  OBVIOUS
<1>8. \A m \in 1 .. n : part[m] = <<Len(order[m])>> \o order[m] \o <<Len(val[m])>> \o val[m]
  BY <1>1, <1>3, <1>5, <1>7
<1>9. ASSUME NEW m \in 1 .. n PROVE part[m] \in Seq(Cell)
  <2>1. PICK c, d, b : /\ c \in Seq(Cell) /\ d \in Seq(Cell)
                     /\ c = order[m] /\ d = val[m] /\ b = part[m]
    BY <1>6
  <2>2. b = <<Len(c)>> \o c \o <<Len(d)>> \o d
    BY <1>8, <2>1
  <2>3. c \in Seq(Cell) /\ d \in Seq(Cell)
    BY <2>1
  <2>4. b \in Seq(Cell)
    BY <2>2, <2>3, PairCounted
  <2> QED BY <2>1, <2>4
<1>10. part \in [1 .. n -> Seq(Cell)]
  BY <1>3, <1>7, <1>9
<1>11. PICK flat \in Seq(Cell) : flat = FlattenSeq(part)
  BY <1>10, Flattened
<1>12. PICK at : LaidOut(n, part, flat, at)
  BY <1>10, <1>11, Flattened
<1>13. PICK h : h = <<s.index, s.term, n>>
  OBVIOUS
<1>14. h \in Seq(Cell) /\ Len(h) = 3 /\ h[1] = s.index /\ h[2] = s.term /\ h[3] = n
  BY <1>1, <1>13 DEF Cell
<1>15. PICK data : data = h \o flat
  OBVIOUS
<1>16. EncodeSnapshot(s, order) = data
  BY <1>3, <1>7, <1>11, <1>13, <1>15 DEF EncodeSnapshot
<1>17. /\ data \in Seq(Cell) /\ Len(data) = 3 + Len(flat)
       /\ \A p \in 1 .. 3 : data[p] = h[p]
       /\ \A p \in 1 .. Len(flat) : data[3 + p] = flat[p]
  <2>1. h \in Seq(Cell)
    BY <1>14
  <2>2. /\ h \o flat \in Seq(Cell) /\ Len(h \o flat) = Len(h) + Len(flat)
        /\ \A p \in 1 .. Len(h) : (h \o flat)[p] = h[p]
        /\ \A p \in 1 .. Len(flat) : (h \o flat)[Len(h) + p] = flat[p]
    BY <2>1, Joined
  <2>3. data \in Seq(Cell) /\ Len(data) = 3 + Len(flat)
    BY <1>14, <1>15, <2>2
  <2> QED BY <1>14, <1>15, <2>2, <2>3
<1>18. PICK code : code = [i \in 1 .. 2 * n |->
                             IF i % 2 = 0 THEN val[i \div 2] ELSE order[i \div 2 + 1]]
  OBVIOUS
<1>19. ASSUME NEW m \in 1 .. n PROVE code[2 * m - 1] = order[m] /\ code[2 * m] = val[m]
  <2>1. PICK i, j : i = 2 * m - 1 /\ j = 2 * m
    OBVIOUS
  <2>2. /\ i \in 1 .. 2 * n /\ i % 2 = 1 /\ i \div 2 = m - 1
        /\ j \in 1 .. 2 * n /\ j % 2 = 0 /\ j \div 2 = m
    BY <2>1, Halves
  <2>3. code[i] = order[i \div 2 + 1] /\ code[j] = val[j \div 2] /\ m - 1 + 1 = m
    BY <1>18, <2>2
  <2> QED BY <2>1, <2>2, <2>3
<1>20. Paired(n, order, val, code, part) /\ Behind(data, 3, flat)
  BY <1>6, <1>8, <1>17, <1>19 DEF Paired, Behind
<1>21. PICK E : Strings(data, 3, 2 * n, code, E)
  BY <1>12, <1>20, PairsLaid
<1>22. data[3] = n /\ data[1] = s.index /\ data[2] = s.term
  BY <1>14, <1>17
<1>23. DecodeSnapshot(data) = Decoded([index |-> data[1], term |-> data[2], data |-> map])
  <2>1. ValuesOf(K, map, n, order, val)
    BY <1>1, <1>5 DEF ValuesOf
  <2>2. data[3] = n
    BY <1>22
  <2>3. data[3] = n =>
          DecodeSnapshot(data) = Decoded([index |-> data[1], term |-> data[2], data |-> map])
    <3>1. Enumerates(n, K, order)
      BY <1>2
    <3>2. Paired(n, order, val, code, part)
      BY <1>20
    <3> QED BY <1>21, <2>1, <3>1, <3>2, SnapshotDecoded, Zenon
  <2> QED BY <2>2, <2>3
<1>24. s = [index |-> s.index, term |-> s.term, data |-> map]
  BY <1>1
<1> QED BY <1>0, <1>16, <1>17, <1>22, <1>23, <1>24

\* InstallSnapshotArgs come back from their bytes, and the snapshot in them.
LEMMA InstallReturns ==
    ASSUME NEW r, IsInstall(r), NEW p, p \in EncodeRequest(r)
    PROVE  p \in Seq(Cell) /\ DecodeRequest(r.type, p) = Decoded(r)
<1>1. PICK a, s : a = r.args /\ s = a.Snapshot
  OBVIOUS
<1>2. /\ r.type = 5 /\ a.Term \in Nat /\ a.LeaderID \in Nat /\ s.index \in Nat /\ s.term \in Nat
      /\ r = [type |-> r.type, args |-> a]
      /\ a = [Term |-> a.Term, LeaderID |-> a.LeaderID, Snapshot |-> s]
  BY <1>1 DEF IsInstall, MsgInstallSnapshotArgs
<1>3. PICK order \in SetToSeqs(DOMAIN s.data) :
          p = EncodeInstallSnapshotArgs(
                 [Term |-> a.Term, LeaderID |-> a.LeaderID, LastIncludedIndex |-> s.index,
                  LastIncludedTerm |-> s.term, Data |-> EncodeSnapshot(s, order)])
  BY <1>1, <1>2 DEF EncodeRequest, MsgRequestVoteArgs, MsgAppendEntriesArgs
<1>4. PICK d : d = EncodeSnapshot(s, order)
  OBVIOUS
<1>5. d \in Seq(Cell) /\ DecodeSnapshot(d) = Decoded(s)
  BY <1>1, <1>3, <1>4, SnapshotReturns
<1>6. PICK h : h = <<a.Term, a.LeaderID, s.index, s.term, Len(d)>>
  OBVIOUS
<1>7. /\ h \in Seq(Cell) /\ Len(h) = 5 /\ Len(d) \in Nat
      /\ h[1] = a.Term /\ h[2] = a.LeaderID /\ h[3] = s.index /\ h[4] = s.term /\ h[5] = Len(d)
  BY <1>2, <1>5, <1>6 DEF Cell
<1>8. p = h \o d
  BY <1>3, <1>4, <1>6 DEF EncodeInstallSnapshotArgs
<1>9. /\ p \in Seq(Cell) /\ Len(p) = 5 + Len(d) /\ SubSeq(p, 6, 5 + Len(d)) = d
      /\ \A i \in 1 .. 5 : p[i] = h[i]
  <2>1. h \in Seq(Cell) /\ d \in Seq(Cell)
    BY <1>5, <1>7
  <2>2. /\ h \o d \in Seq(Cell) /\ Len(h \o d) = Len(h) + Len(d)
        /\ \A i \in 1 .. Len(h) : (h \o d)[i] = h[i]
        /\ SubSeq(h \o d, Len(h) + 1, Len(h) + Len(d)) = d
    BY <2>1, Joined
  <2> QED BY <1>7, <1>8, <2>2
<1>10. p[1] = a.Term /\ p[2] = a.LeaderID /\ p[3] = s.index /\ p[4] = s.term /\ p[5] = Len(d)
  BY <1>7, <1>9
<1>11. DecodeInstallSnapshotArgs(p) =
          Decoded([Term |-> p[1], LeaderID |-> p[2], LastIncludedIndex |-> p[3],
                   LastIncludedTerm |-> p[4], Data |-> d])
  <2>1. ~(Len(p) < 5 \/ Len(p) < 5 + p[5])
    BY <1>7, <1>9, <1>10
  <2>2. SubSeq(p, 6, 5 + p[5]) = d
    BY <1>9, <1>10
  <2> QED BY <2>1, <2>2, Zenon DEF DecodeInstallSnapshotArgs
<1>12. PICK args : args = DecodeInstallSnapshotArgs(p)
  OBVIOUS
<1>13. args.ok /\ args.value.Term = a.Term /\ args.value.LeaderID = a.LeaderID /\ args.value.Data = d
  BY <1>10, <1>11, <1>12 DEF Decoded
<1>14. PICK snapshot : snapshot = DecodeSnapshot(args.value.Data)
  OBVIOUS
<1>15. snapshot.ok /\ snapshot.value = s
  BY <1>5, <1>13, <1>14 DEF Decoded
<1>16. DecodeRequest(5, p) =
          IF ~args.ok THEN Malformed
          ELSE IF ~snapshot.ok THEN Malformed
          ELSE Decoded([type |-> 5, args |-> [Term |-> args.value.Term,
                                              LeaderID |-> args.value.LeaderID,
                                              Snapshot |-> snapshot.value]])
  BY <1>12, <1>14 DEF DecodeRequest, MsgRequestVoteArgs, MsgAppendEntriesArgs, MsgInstallSnapshotArgs
<1>17. DecodeRequest(5, p) =
          Decoded([type |-> 5, args |-> [Term |-> a.Term, LeaderID |-> a.LeaderID, Snapshot |-> s]])
  BY <1>13, <1>15, <1>16, Zenon
<1> QED BY <1>2, <1>9, <1>17

\* r is a struct of the n fields f.
Struct(f, n, r) ==
    /\ DOMAIN f = 1 .. n /\ Len(f) = n
    /\ \A i, j \in 1 .. n : f[i] = f[j] => i = j
    /\ r = [g \in Range(f) |-> r[g]]
    /\ \A i \in 1 .. n : r[f[i]] \in Cell

\* A struct of fixed size comes back from its bytes.
LEMMA StructReturns ==
    ASSUME NEW f, NEW n \in Nat, NEW r, Struct(f, n, r)
    PROVE  EncodeStruct(f, r) \in Seq(Cell) /\ DecodeStruct(f, EncodeStruct(f, r)) = Decoded(r)
<1>1. PICK p : p = [i \in 1 .. n |-> r[f[i]]]
  OBVIOUS
<1>2. EncodeStruct(f, r) = p
  BY <1>1 DEF EncodeStruct, Struct
<1>3. p \in [1 .. n -> Cell]
  BY <1>1 DEF Struct
<1>4. p \in Seq(Cell) /\ Len(p) = n
  BY <1>3, IsASeq, LenProperties
<1>5. ASSUME NEW g \in Range(f)
      PROVE  p[CHOOSE i \in DOMAIN f : f[i] = g] = r[g]
  <2>1. PICK k : k = CHOOSE i \in DOMAIN f : f[i] = g
    OBVIOUS
  <2>2. \E i \in DOMAIN f : f[i] = g
    BY <1>5, Zenon DEF Range
  <2>3. k \in DOMAIN f /\ f[k] = g
    BY <2>1, <2>2, Zenon
  <2>4. k \in 1 .. n
    BY <2>3 DEF Struct
  <2>5. p[k] = r[f[k]]
    BY <1>1, <2>4
  <2> QED BY <2>1, <2>3, <2>5
<1>6. [g \in Range(f) |-> p[CHOOSE i \in DOMAIN f : f[i] = g]] = r
  <2>1. r = [g \in Range(f) |-> r[g]]
    BY DEF Struct
  <2> DEFINE q(g) == p[CHOOSE i \in DOMAIN f : f[i] = g]
  <2>2. \A g \in Range(f) : q(g) = r[g]
    BY <1>5
  <2> HIDE DEF q
  <2>3. [g \in Range(f) |-> q(g)] = [g \in Range(f) |-> r[g]]
    BY <2>2
  <2> QED BY <2>1, <2>3 DEF q
<1>7. ~(Len(p) < Len(f))
  BY <1>4 DEF Struct
<1> QED BY <1>2, <1>4, <1>6, <1>7 DEF DecodeStruct

\* RequestVoteArgs come back from their bytes.
LEMMA VoteReturns ==
    ASSUME NEW r, IsVote(r), NEW p, p = EncodeStruct(RequestVoteArgs, r.args)
    PROVE  p \in Seq(Cell) /\ DecodeRequest(r.type, p) = Decoded(r)
<1>1. PICK a : a = r.args
  OBVIOUS
<1>2. /\ r.type = 1 /\ r = [type |-> r.type, args |-> a]
      /\ a \in [Term : Nat, CandidateID : Nat, LastLogIndex : Nat, LastLogTerm : Nat]
  BY <1>1 DEF IsVote, MsgRequestVoteArgs
<1>3. PICK f : f = RequestVoteArgs
  OBVIOUS
<1>4. /\ DOMAIN f = 1 .. 4 /\ Len(f) = 4 /\ f[1] = "Term" /\ f[2] = "CandidateID"
      /\ f[3] = "LastLogIndex" /\ f[4] = "LastLogTerm"
  BY <1>3 DEF RequestVoteArgs
<1>5. Range(f) = {"Term", "CandidateID", "LastLogIndex", "LastLogTerm"}
  BY <1>4 DEF Range
<1>6. Struct(f, 4, a)
  <2>1. a = [g \in Range(f) |-> a[g]]
    BY <1>2, <1>5
  <2>2. \A i \in 1 .. 4 : a[f[i]] \in Cell
    BY <1>2, <1>4 DEF Cell
  <2> QED BY <1>4, <2>1, <2>2 DEF Struct
<1>7. p \in Seq(Cell) /\ DecodeStruct(RequestVoteArgs, p) = Decoded(a)
  BY <1>1, <1>3, <1>6, StructReturns
<1>8. PICK args : args = DecodeStruct(RequestVoteArgs, p)
  OBVIOUS
<1>9. args.ok /\ args.value = a
  BY <1>7, <1>8 DEF Decoded
<1>10. DecodeRequest(1, p) = IF ~args.ok THEN Malformed
                             ELSE Decoded([type |-> 1, args |-> args.value])
  BY <1>8 DEF DecodeRequest, MsgRequestVoteArgs, MsgInstallSnapshotArgs
<1> QED BY <1>2, <1>7, <1>9, <1>10

\* What a request is encoded to is decoded to the request.
LEMMA RequestReturns ==
    ASSUME NEW r \in Request, NEW p \in EncodeRequest(r)
    PROVE  p \in Seq(Cell) /\ DecodeRequest(r.type, p) = Decoded(r)
<1>1. IsVote(r) \/ IsAppend(r) \/ IsInstall(r)
  BY WireAssumption
<1>2. CASE IsVote(r)
  <2>1. r.type = 1
    BY <1>2 DEF IsVote, MsgRequestVoteArgs
  <2>2. p = EncodeStruct(RequestVoteArgs, r.args)
    BY <2>1 DEF EncodeRequest, MsgRequestVoteArgs
  <2> QED BY <1>2, <2>2, VoteReturns
<1>3. CASE IsAppend(r)
  <2>1. r.type = 3 /\ r = [type |-> 3, args |-> r.args]
    BY <1>3 DEF IsAppend, MsgAppendEntriesArgs
  <2>2. p = EncodeAppendEntriesArgs(r.args)
    BY <2>1 DEF EncodeRequest, MsgRequestVoteArgs, MsgAppendEntriesArgs
  <2>3. p \in Seq(Cell) /\ DecodeAppendEntriesArgs(p) = Decoded(r.args)
    BY <1>3, <2>2, AppendReturns
  <2>4. PICK args : args = DecodeAppendEntriesArgs(p)
    OBVIOUS
  <2>5. args.ok /\ args.value = r.args
    BY <2>3, <2>4 DEF Decoded
  <2>6. DecodeRequest(3, p) = IF ~args.ok THEN Malformed
                              ELSE Decoded([type |-> 3, args |-> args.value])
    BY <2>4 DEF DecodeRequest, MsgRequestVoteArgs, MsgAppendEntriesArgs, MsgInstallSnapshotArgs
  <2> QED BY <2>1, <2>3, <2>5, <2>6
<1>4. CASE IsInstall(r)
  BY <1>4, InstallReturns
<1> QED BY <1>1, <1>2, <1>3, <1>4

\* The three kinds of requests and replies.
LEMMA Kinds ==
    ASSUME NEW r \in Request
    PROVE  r.type \in {1, 3, 5}
BY WireAssumption DEF IsVote, IsAppend, IsInstall, MsgRequestVoteArgs, MsgAppendEntriesArgs,
                      MsgInstallSnapshotArgs

\* What a reply is encoded to is decoded to the reply.
LEMMA ReplyReturns ==
    ASSUME NEW r \in Request, NEW reply \in Reply(r)
    PROVE  /\ ReplyPayload(r, reply) \in Seq(Cell)
           /\ DecodeStruct(ReplyFields(ReplyType(r.type)), ReplyPayload(r, reply)) = Decoded(reply)
<1>1. PICK f : f = ReplyFields(ReplyType(r.type))
  OBVIOUS
<1>2. r.type \in {1, 3, 5}
  BY Kinds
<1>3. CASE r.type = 1
  <2>1. f = <<"Term", "VoteGranted">>
    BY <1>1, <1>3 DEF ReplyFields, ReplyType, RequestVoteReply, MsgRequestVoteReply
  <2>2. DOMAIN f = 1 .. 2 /\ Len(f) = 2 /\ f[1] = "Term" /\ f[2] = "VoteGranted"
    BY <2>1
  <2>3. reply \in [Term : ReplyTerm, VoteGranted : BOOLEAN]
    BY <1>3 DEF Reply, MsgRequestVoteArgs
  <2>4. Range(f) = {"Term", "VoteGranted"}
    BY <2>2 DEF Range
  <2>5. reply = [g \in Range(f) |-> reply[g]]
    BY <2>3, <2>4
  <2>6. reply.Term \in ReplyTerm /\ reply.VoteGranted \in BOOLEAN
    BY <2>3
  <2>7. reply.Term \in Cell /\ reply.VoteGranted \in Cell
    BY <2>6, Zenon DEF Cell
  <2>8. Struct(f, 2, reply)
    BY <2>2, <2>5, <2>7 DEF Struct
  <2> QED BY <1>1, <2>8, StructReturns DEF ReplyPayload
<1>4. CASE r.type = 3
  <2>1. f = <<"Term", "Success", "ConflictTerm", "ConflictIndex">>
    BY <1>1, <1>4 DEF ReplyFields, ReplyType, AppendEntriesReply, MsgRequestVoteReply,
                      MsgAppendEntriesReply
  <2>2. /\ DOMAIN f = 1 .. 4 /\ Len(f) = 4 /\ f[1] = "Term" /\ f[2] = "Success"
        /\ f[3] = "ConflictTerm" /\ f[4] = "ConflictIndex"
    BY <2>1
  <2>3. reply \in [Term : ReplyTerm, Success : BOOLEAN, ConflictTerm : {0},
                   ConflictIndex : ReplyTerm \cup {0}]
    BY <1>4 DEF Reply, MsgRequestVoteArgs, MsgAppendEntriesArgs
  <2>4. Range(f) = {"Term", "Success", "ConflictTerm", "ConflictIndex"}
    BY <2>2 DEF Range
  <2>5. reply = [g \in Range(f) |-> reply[g]]
    BY <2>3, <2>4
  <2>6. /\ reply.Term \in ReplyTerm /\ reply.Success \in BOOLEAN /\ reply.ConflictTerm \in {0}
        /\ reply.ConflictIndex \in ReplyTerm \cup {0} /\ 0 \in Nat
    BY <2>3
  <2>7. /\ reply.Term \in Cell /\ reply.Success \in Cell
        /\ reply.ConflictTerm \in Cell /\ reply.ConflictIndex \in Cell
    BY <2>6, Zenon DEF Cell
  <2>8. Struct(f, 4, reply)
    BY <2>2, <2>5, <2>7 DEF Struct
  <2> QED BY <1>1, <2>8, StructReturns DEF ReplyPayload
<1>5. CASE r.type = 5
  <2>1. f = <<"Term">>
    BY <1>1, <1>5 DEF ReplyFields, ReplyType, InstallSnapshotReply, MsgRequestVoteReply,
                      MsgAppendEntriesReply
  <2>2. DOMAIN f = 1 .. 1 /\ Len(f) = 1 /\ f[1] = "Term"
    BY <2>1
  <2>3. reply \in [Term : ReplyTerm]
    BY <1>5 DEF Reply, MsgRequestVoteArgs, MsgAppendEntriesArgs
  <2>4. Range(f) = {"Term"}
    BY <2>2 DEF Range
  <2>5. reply = [g \in Range(f) |-> reply[g]]
    BY <2>3, <2>4
  <2>6. reply.Term \in Cell
    BY <2>3 DEF Cell
  <2>7. Struct(f, 1, reply)
    BY <2>2, <2>5, <2>6 DEF Struct
  <2> QED BY <1>1, <2>7, StructReturns DEF ReplyPayload
<1> QED BY <1>2, <1>3, <1>4, <1>5

-----------------------------------------------------------------------------
(* A frame on its way.                                                       *)

\* The parts of a frame lie behind each other in its stream.
LEMMA FrameParts ==
    ASSUME NEW type \in Cell, NEW payload \in Seq(Cell), NEW j \in 1 .. 3
    PROVE  /\ Offset(payload, j - 1) \in Nat /\ Offset(payload, j) \in Nat
           /\ Frame(type, payload)[j] \in Seq(Cell)
           /\ Offset(payload, j) = Offset(payload, j - 1) + Len(Frame(type, payload)[j])
           /\ \A p \in 1 .. Len(Frame(type, payload)[j]) :
                 Frame(type, payload)[j][p] = Stream(type, payload)[Offset(payload, j - 1) + p]
<1>1. PICK n \in Nat : n = Len(payload)
  OBVIOUS
<1>2. n \in Cell
  BY DEF Cell
<1>3. PICK h : h = <<type, n>>
  OBVIOUS
<1>4. h \in Seq(Cell) /\ Len(h) = 2 /\ h[1] = type /\ h[2] = n
  BY <1>2, <1>3
<1>5. PICK s : s = Stream(type, payload)
  OBVIOUS
<1>6. s = h \o payload
  BY <1>1, <1>3, <1>5 DEF Stream
<1>7. /\ \A p \in 1 .. 2 : s[p] = h[p]
      /\ \A p \in 1 .. n : s[2 + p] = payload[p]
  <2>1. PICK d \in Seq(Cell) : d = payload
    OBVIOUS
  <2>2. h \in Seq(Cell)
    BY <1>4
  <2>3. /\ \A p \in 1 .. Len(h) : (h \o d)[p] = h[p]
        /\ \A p \in 1 .. Len(d) : (h \o d)[Len(h) + p] = d[p]
    BY <2>2, Joined, ZenonT(40)
  <2> QED BY <1>1, <1>4, <1>6, <2>1, <2>3
<1>8. PICK F : F = Frame(type, payload)
  OBVIOUS
<1>9. F[1] = <<type>> /\ F[2] = <<n>> /\ F[3] = payload
  BY <1>1, <1>8 DEF Frame
<1>0. /\ <<type>> \in Seq(Cell) /\ Len(<<type>>) = 1 /\ <<type>>[1] = type
      /\ <<n>> \in Seq(Cell) /\ Len(<<n>>) = 1 /\ <<n>>[1] = n
  BY <1>2
<1>10. CASE j = 1
  <2>1. Offset(payload, j - 1) = 0 /\ Offset(payload, j) = 1
    BY <1>10 DEF Offset
  <2>2. F[j] \in Seq(Cell) /\ Len(F[j]) = 1 /\ F[j][1] = type
    BY <1>0, <1>9, <1>10, Zenon
  <2>3. s[1] = type
    BY <1>4, <1>7
  <2> QED BY <1>5, <1>8, <2>1, <2>2, <2>3
<1>11. CASE j = 2
  <2>1. Offset(payload, j - 1) = 1 /\ Offset(payload, j) = 2
    BY <1>11 DEF Offset
  <2>2. F[j] \in Seq(Cell) /\ Len(F[j]) = 1 /\ F[j][1] = n
    BY <1>0, <1>9, <1>11, Zenon
  <2>3. s[2] = n
    BY <1>4, <1>7
  <2> QED BY <1>5, <1>8, <2>1, <2>2, <2>3
<1>12. CASE j = 3
  <2>1. Offset(payload, j - 1) = 2 /\ Offset(payload, j) = 2 + n
    BY <1>1, <1>12 DEF Offset
  <2>2. F[j] = payload
    BY <1>9, <1>12
  <2> QED BY <1>1, <1>5, <1>7, <1>8, <2>1, <2>2
<1> QED BY <1>10, <1>11, <1>12

\* A frame before its first write.
LEMMA TransitStarts ==
    ASSUME NEW type \in Cell, NEW payload \in Seq(Cell), NEW live
    PROVE  /\ Frame(type, payload) \in Seq(Seq(Cell)) /\ Frame(type, payload) # <<>>
           /\ Transit(type, payload, Frame(type, payload), <<>>, <<>>, live)
<1>1. PICK F : F = Frame(type, payload)
  OBVIOUS
<1>2. Len(payload) \in Cell
  BY DEF Cell
<1>3. <<type>> \in Seq(Cell) /\ <<Len(payload)>> \in Seq(Cell)
  BY <1>2
<1>4. F \in Seq(Seq(Cell)) /\ Len(F) = 3 /\ F # <<>>
  BY <1>1, <1>3 DEF Frame
<1>5. Offset(payload, 0) = 0 /\ Offset(payload, 3 - 3) = 0
  BY DEF Offset
<1>6. PICK none : none = <<>>
  OBVIOUS
<1>7. none \in Seq(Cell) /\ none \in Seq(Seq(Cell)) /\ Len(none) = 0
  BY <1>6
<1>8. TransitAt(type, payload, F, 3, none, 0, none, 0, live)
  BY <1>1, <1>4, <1>5, <1>7 DEF TransitAt
<1>9. TransitAt(type, payload, F, Len(F), none, Len(none), none, Len(none), live)
  BY <1>4, <1>7, <1>8
<1> QED BY <1>1, <1>4, <1>6, <1>9 DEF Transit

\* The next part is written; on a live connection it arrives.
LEMMA TransitWrite ==
    ASSUME NEW type, NEW payload, NEW unwritten, NEW cells, NEW parts, NEW live,
           Transit(type, payload, unwritten, cells, parts, live), unwritten # <<>>
    PROVE  /\ live => Transit(type, payload, Tail(unwritten), cells \o Head(unwritten), parts, TRUE)
           /\ ~live => Transit(type, payload, Tail(unwritten), cells, parts, FALSE)
<1> DEFINE F(j) == Frame(type, payload)[j]
           O(j) == Offset(payload, j)
           S(p) == Stream(type, payload)[p]
<1>1. PICK l, r, n : /\ l = Len(unwritten) /\ r = Len(parts) /\ n = Len(cells)
                     /\ TransitAt(type, payload, unwritten, l, cells, n, parts, r, live)
  BY DEF Transit
<1>2. /\ l \in 0 .. 3 /\ r \in 0 .. 3
      /\ \A p \in 1 .. l : unwritten[p] = F(3 - l + p)
      /\ \A p \in 1 .. r : parts[p] = F(p)
      /\ O(r) + n <= O(3 - l)
      /\ live => O(r) + n = O(3 - l)
      /\ \A p \in 1 .. n : cells[p] = S(O(r) + p)
  BY <1>1 DEF TransitAt
<1>3. /\ type \in Cell /\ payload \in Seq(Cell)
      /\ unwritten \in Seq(Seq(Cell)) /\ cells \in Seq(Cell) /\ parts \in Seq(Seq(Cell))
  BY <1>1 DEF TransitAt
<1>4. PICK tail : tail = Tail(unwritten)
  OBVIOUS
<1>5. /\ Head(unwritten) = unwritten[1] /\ tail \in Seq(Seq(Cell)) /\ l > 0
      /\ Len(tail) = l - 1
      /\ \A p \in 1 .. l - 1 : tail[p] = unwritten[p + 1]
  BY <1>1, <1>3, <1>4
<1>6. PICK j : j = 4 - l
  OBVIOUS
<1>7. j \in 1 .. 3 /\ 3 - l = j - 1 /\ 3 - (l - 1) = j /\ 3 - l + 1 = j
  BY <1>2, <1>5, <1>6
<1>8. n \in Nat
  BY <1>1, <1>3
<1>9. /\ O(j - 1) \in Nat /\ O(j) \in Nat /\ F(j) \in Seq(Cell) /\ O(j) = O(j - 1) + Len(F(j))
      /\ \A p \in 1 .. Len(F(j)) : F(j)[p] = S(O(j - 1) + p)
  <2>1. type \in Cell /\ payload \in Seq(Cell)
    BY <1>3
  <2> QED BY <1>7, <2>1, FrameParts
<1>10. O(r) \in Nat
  <2>1. Len(payload) \in Nat
    BY <1>3
  <2> QED BY <1>2, <2>1 DEF Offset
<1> HIDE DEF F, O, S
<1>11. Head(unwritten) = F(j)
  BY <1>2, <1>5, <1>7
<1>12. \A p \in 1 .. l - 1 : tail[p] = F(3 - (l - 1) + p)
  <2> SUFFICES ASSUME NEW p \in 1 .. l - 1 PROVE tail[p] = F(3 - (l - 1) + p)
    OBVIOUS
  <2>1. p + 1 \in 1 .. l /\ 3 - l + (p + 1) = 3 - (l - 1) + p
    BY <1>2
  <2>2. unwritten[p + 1] = F(3 - l + (p + 1))
    BY <1>2, <2>1
  <2> QED BY <1>5, <2>1, <2>2
<1>13. PICK k \in Nat : k = Len(F(j))
  BY <1>9
<1>14. O(3 - (l - 1)) = O(j) /\ O(3 - l) = O(j - 1)
  BY <1>7
<1>15. O(j) = O(j - 1) + k
  BY <1>9, <1>13
<1>16. l - 1 \in 0 .. 3
  BY <1>2, <1>5
<1>17. ASSUME ~live PROVE Transit(type, payload, tail, cells, parts, FALSE)
  <2>1. O(r) + n <= O(3 - (l - 1))
    BY <1>2, <1>8, <1>9, <1>10, <1>14, <1>15
  <2>2. TransitAt(type, payload, tail, l - 1, cells, n, parts, r, FALSE)
    BY <1>2, <1>3, <1>5, <1>12, <1>16, <2>1 DEF TransitAt, F, O, S
  <2> QED BY <1>1, <1>5, <2>2 DEF Transit
<1>18. ASSUME live PROVE Transit(type, payload, tail, cells \o F(j), parts, TRUE)
  <2>1. PICK long : long = cells \o F(j)
    OBVIOUS
  <2>2. /\ long \in Seq(Cell) /\ Len(long) = n + k
        /\ \A p \in 1 .. n : long[p] = cells[p]
        /\ \A p \in 1 .. k : long[n + p] = F(j)[p]
    <3>1. cells \in Seq(Cell) /\ F(j) \in Seq(Cell)
      BY <1>3, <1>9
    <3> QED BY <1>1, <1>13, <2>1, <3>1, Joined
  <2>3. O(r) + n = O(j - 1)
    BY <1>2, <1>14, <1>18
  <2>4. O(r) + (n + k) = O(j)
    BY <1>8, <1>9, <1>10, <1>15, <2>3
  <2>5. ASSUME NEW p \in 1 .. n + k PROVE long[p] = S(O(r) + p)
    <3>1. CASE p \in 1 .. n
      BY <1>2, <2>2, <3>1
    <3>2. CASE p \notin 1 .. n
      <4>1. PICK q : q = p - n
        OBVIOUS
      <4>2. q \in 1 .. k /\ p = n + q
        BY <1>8, <3>2, <4>1
      <4>3. long[p] = S(O(j - 1) + q)
        BY <1>9, <1>13, <2>2, <4>2
      <4>4. O(r) + p = O(j - 1) + q
        BY <1>8, <1>10, <2>3, <4>2
      <4> QED BY <4>3, <4>4
    <3> QED BY <3>1, <3>2
  <2>6. O(r) + (n + k) <= O(3 - (l - 1)) /\ O(r) + (n + k) = O(3 - (l - 1))
    BY <1>9, <1>14, <2>4
  <2>7. TransitAt(type, payload, tail, l - 1, long, n + k, parts, r, TRUE)
    BY <1>2, <1>3, <1>5, <1>12, <1>16, <2>2, <2>5, <2>6 DEF TransitAt, F, O, S
  <2> QED BY <1>1, <1>5, <2>1, <2>2, <2>7 DEF Transit
<1> QED BY <1>4, <1>11, <1>17, <1>18

\* The next part of a frame is read.
LEMMA TransitRead ==
    ASSUME NEW type, NEW payload, NEW unwritten, NEW cells, NEW parts, NEW live,
           NEW need, need = Needed(parts),
           Transit(type, payload, unwritten, cells, parts, live),
           Len(parts) < 3, Len(cells) >= need
    PROVE  /\ need \in 0 .. Len(cells)
           /\ Transit(type, payload, unwritten, SubSeq(cells, need + 1, Len(cells)),
                      Append(parts, SubSeq(cells, 1, need)), live)
<1> DEFINE F(j) == Frame(type, payload)[j]
           O(j) == Offset(payload, j)
           S(p) == Stream(type, payload)[p]
<1>1. PICK l, r, n : /\ l = Len(unwritten) /\ r = Len(parts) /\ n = Len(cells)
                     /\ TransitAt(type, payload, unwritten, l, cells, n, parts, r, live)
  BY DEF Transit
<1>2. /\ l \in 0 .. 3 /\ r \in 0 .. 3
      /\ \A p \in 1 .. l : unwritten[p] = F(3 - l + p)
      /\ \A p \in 1 .. r : parts[p] = F(p)
      /\ O(r) + n <= O(3 - l)
      /\ live => O(r) + n = O(3 - l)
      /\ \A p \in 1 .. n : cells[p] = S(O(r) + p)
  BY <1>1 DEF TransitAt
<1>3. /\ type \in Cell /\ payload \in Seq(Cell)
      /\ unwritten \in Seq(Seq(Cell)) /\ cells \in Seq(Cell) /\ parts \in Seq(Seq(Cell))
  BY <1>1 DEF TransitAt
<1>4. PICK j : j = r + 1
  OBVIOUS
<1>5. r \in 0 .. 2 /\ j \in 1 .. 3 /\ j - 1 = r
  BY <1>1, <1>2, <1>4
<1>6. /\ O(r) \in Nat /\ O(j) \in Nat /\ F(j) \in Seq(Cell) /\ O(j) = O(r) + Len(F(j))
      /\ \A p \in 1 .. Len(F(j)) : F(j)[p] = S(O(r) + p)
  <2>1. type \in Cell /\ payload \in Seq(Cell)
    BY <1>3
  <2>2. /\ O(j - 1) \in Nat /\ O(j) \in Nat /\ F(j) \in Seq(Cell)
        /\ O(j) = O(j - 1) + Len(F(j))
        /\ \A p \in 1 .. Len(F(j)) : F(j)[p] = S(O(j - 1) + p)
    BY <1>5, <2>1, FrameParts
  <2> QED BY <1>5, <2>2
<1>7. need = Len(F(j))
  <2>1. F(1) = <<type>> /\ F(2) = <<Len(payload)>> /\ F(3) = payload
    BY DEF Frame
  <2>2. /\ Len(<<type>>) = 1 /\ Len(<<Len(payload)>>) = 1
        /\ <<Len(payload)>>[1] = Len(payload)
    OBVIOUS
  <2> HIDE DEF F
  <2>3. CASE r < 2
    <3>1. need = 1
      BY <1>1, <2>3 DEF Needed
    <3>2. j = 1 \/ j = 2
      BY <1>4, <1>5, <2>3
    <3> QED BY <2>1, <2>2, <3>1, <3>2, Zenon
  <2>4. CASE r = 2
    <3>1. need = parts[2][1]
      BY <1>1, <2>4 DEF Needed
    <3>2. parts[2] = F(2)
      BY <1>2, <2>4
    <3>3. j = 3
      BY <1>4, <2>4
    <3> QED BY <2>1, <2>2, <3>1, <3>2, <3>3, Zenon
  <2> QED BY <1>5, <2>3, <2>4
<1> HIDE DEF F, O, S
<1>8. n \in Nat
  BY <1>1, <1>3
<1>9. need \in Nat /\ need <= n
  BY <1>1, <1>6, <1>7, <1>8
<1>10. need \in 0 .. n
  BY <1>8, <1>9
<1>11. PICK front : front = SubSeq(cells, 1, need)
  OBVIOUS
<1>12. front \in Seq(Cell) /\ Len(front) = need /\ \A p \in 1 .. need : front[p] = cells[p]
  <2>1. cells \in Seq(Cell)
    BY <1>3
  <2> QED BY <1>1, <1>10, <1>11, <2>1, Prefix
<1>13. front = F(j)
  <2>1. ASSUME NEW p \in 1 .. need PROVE front[p] = F(j)[p]
    <3>1. p \in 1 .. n
      BY <1>8, <1>9
    <3> QED BY <1>2, <1>6, <1>7, <1>12, <3>1
  <2> QED BY <1>6, <1>7, <1>12, <2>1, SeqEqual
<1>14. PICK rest : rest = SubSeq(cells, need + 1, Len(cells))
  OBVIOUS
<1>15. /\ rest \in Seq(Cell) /\ Len(rest) = n - need
       /\ \A p \in 1 .. n - need : rest[p] = cells[need + p]
  <2>1. cells \in Seq(Cell)
    BY <1>3
  <2> QED BY <1>1, <1>10, <1>14, <2>1, Suffix
<1>16. PICK more : more = Append(parts, front)
  OBVIOUS
<1>17. /\ more \in Seq(Seq(Cell)) /\ Len(more) = j /\ more[j] = F(j)
       /\ \A p \in 1 .. r : more[p] = parts[p]
  <2>1. PICK q : q = parts /\ q \in Seq(Seq(Cell)) /\ Len(q) = r
    BY <1>1, <1>3
  <2> QED BY <1>4, <1>12, <1>13, <1>16, <2>1
<1>18. ASSUME NEW p \in 1 .. j PROVE more[p] = F(p)
  <2>1. p \in 1 .. r \/ p = j
    BY <1>4, <1>5
  <2> QED BY <1>2, <1>17, <2>1
<1>19. PICK a \in Nat, b \in Nat : a = O(r) /\ b = O(j)
  BY <1>6
<1>20. b = a + need
  BY <1>6, <1>7, <1>19
<1>21. O(j) + (n - need) <= O(3 - l) /\ (live => O(j) + (n - need) = O(3 - l))
  <2>1. b + (n - need) = a + n
    BY <1>8, <1>9, <1>20
  <2> QED BY <1>2, <1>19, <2>1
<1>22. ASSUME NEW p \in 1 .. n - need PROVE rest[p] = S(O(j) + p)
  <2>1. need + p \in 1 .. n /\ a + (need + p) = b + p
    BY <1>8, <1>9, <1>20, SMTT(30)
  <2>2. cells[need + p] = S(a + (need + p))
    BY <1>2, <1>19, <2>1
  <2> QED BY <1>15, <1>19, <2>1, <2>2
<1>23. TransitAt(type, payload, unwritten, l, rest, n - need, more, j, live)
  <2>1. j \in 0 .. 3
    BY <1>5
  <2> QED BY <1>2, <1>3, <1>15, <1>17, <1>18, <1>21, <1>22, <2>1 DEF TransitAt, F, O, S
<1>24. Transit(type, payload, unwritten, rest, more, live)
  BY <1>1, <1>15, <1>17, <1>23 DEF Transit
<1> QED BY <1>1, <1>10, <1>11, <1>14, <1>16, <1>24

\* Only the first m cells arrive, and the connection is not live any more.
LEMMA TransitCut ==
    ASSUME NEW type, NEW payload, NEW unwritten, NEW cells, NEW parts, NEW live,
           NEW m \in 0 .. Len(cells), Transit(type, payload, unwritten, cells, parts, live)
    PROVE  Transit(type, payload, unwritten, SubSeq(cells, 1, m), parts, FALSE)
<1>1. PICK l, r, n : /\ l = Len(unwritten) /\ r = Len(parts) /\ n = Len(cells)
                     /\ TransitAt(type, payload, unwritten, l, cells, n, parts, r, live)
  BY DEF Transit
<1>2. cells \in Seq(Cell) /\ payload \in Seq(Cell) /\ l \in 0 .. 3 /\ r \in 0 .. 3
  BY <1>1 DEF TransitAt
<1>3. PICK cut : cut = SubSeq(cells, 1, m)
  OBVIOUS
<1>4. cut \in Seq(Cell) /\ Len(cut) = m /\ \A p \in 1 .. m : cut[p] = cells[p]
  BY <1>2, <1>3, Prefix
<1>5. PICK a \in Nat, b \in Nat : a = Offset(payload, r) /\ b = Offset(payload, 3 - l)
  <2>1. Len(payload) \in Nat
    BY <1>2
  <2>2. Offset(payload, r) \in Nat /\ Offset(payload, 3 - l) \in Nat
    BY <1>2, <2>1 DEF Offset
  <2> QED BY <2>2
<1>6. n \in Nat /\ m \in Nat /\ m <= n
  BY <1>1, <1>2
<1>7. a + n <= b
  BY <1>1, <1>5 DEF TransitAt
<1>8. a + m <= b
  BY <1>6, <1>7
<1>9. ASSUME NEW p \in 1 .. m
      PROVE  cut[p] = Stream(type, payload)[Offset(payload, r) + p]
  <2>1. p \in 1 .. n
    BY <1>6
  <2>2. cells[p] = Stream(type, payload)[Offset(payload, r) + p]
    BY <1>1, <2>1 DEF TransitAt
  <2> QED BY <1>4, <2>2
<1>10. Offset(payload, r) + m <= Offset(payload, 3 - l)
  BY <1>5, <1>8
<1>11. TransitAt(type, payload, unwritten, l, cut, m, parts, r, FALSE)
  BY <1>1, <1>4, <1>9, <1>10 DEF TransitAt
<1> QED BY <1>1, <1>3, <1>4, <1>11 DEF Transit

\* The connection is not live any more.
LEMMA TransitStays ==
    ASSUME NEW type, NEW payload, NEW unwritten, NEW cells, NEW parts, NEW live, NEW now,
           now => live, Transit(type, payload, unwritten, cells, parts, live)
    PROVE  Transit(type, payload, unwritten, cells, parts, now)
BY DEF Transit, TransitAt

\* A frame that was read to its end is the frame that was written.
LEMMA TransitEnds ==
    ASSUME NEW type, NEW payload, NEW unwritten, NEW cells, NEW parts, NEW live,
           Transit(type, payload, unwritten, cells, parts, live), Len(parts) = 3
    PROVE  parts[1][1] = type /\ parts[3] = payload
<1>1. parts[1] = Frame(type, payload)[1] /\ parts[3] = Frame(type, payload)[3]
  BY DEF Transit, TransitAt
<1>2. Frame(type, payload)[1] = <<type>> /\ Frame(type, payload)[3] = payload
  BY DEF Frame
<1>3. <<type>>[1] = type
  OBVIOUS
<1> QED BY <1>1, <1>2, <1>3, Zenon

-----------------------------------------------------------------------------
(* The invariant.                                                            *)

\* What an assignment to one end of one connection leaves alone.
LEMMA Updated ==
    ASSUME NEW S, NEW f, f \in [Conn -> [End -> S]], NEW c \in Conn, NEW e \in End, NEW v \in S,
           NEW g, g = [f EXCEPT ![c][e] = v]
    PROVE  /\ g \in [Conn -> [End -> S]] /\ g[c][e] = v
           /\ \A o \in End : o # e => g[c][o] = f[c][o]
           /\ \A d \in Conn : d # c => g[d] = f[d]
OBVIOUS

Kept(d) ==
    /\ asked'[d] = asked[d] /\ handled'[d] = handled[d] /\ result'[d] = result[d]
    /\ link'[d] = link[d] /\ pc'[d] = pc[d]
    /\ toWrite'[d] = toWrite[d] /\ inbound'[d] = inbound[d] /\ got'[d] = got[d]

\* A connection that a step leaves alone stays as it should be.
LEMMA CallKept ==
    ASSUME NEW d, Call(d), Kept(d)
    PROVE  Call(d)'
<1>1. CASE Fresh(d)
  <2>1. Fresh(d)'
    BY <1>1 DEF Fresh, Kept, Nothing
  <2> QED BY <2>1 DEF Call
<1>2. CASE Sent(d) /\ (Unanswered(d) \/ Answering(d))
  <2>0. \A e : Connected(d, e)' <=> Connected(d, e)
    BY DEF Connected, Kept
  <2>1. ASSUME NEW e, NEW type, NEW payload, Carried(d, e, type, payload)
        PROVE  Carried(d, e, type, payload)'
    BY <2>0, <2>1, TransitStays DEF Carried, Kept
  <2>2. Sent(d)'
    BY <1>2, <2>1 DEF Sent, Kept
  <2>3. CASE Unanswered(d)
    <3>1. Unanswered(d)'
      BY <2>3 DEF Unanswered, Nothing, Kept
    <3> QED BY <2>2, <3>1 DEF Call
  <2>4. CASE Answering(d)
    <3>1. Answering(d)'
      BY <2>1, <2>4 DEF Answering, Kept
    <3> QED BY <2>2, <3>1 DEF Call
  <2> QED BY <1>2, <2>3, <2>4
<1> QED BY <1>1, <1>2 DEF Call

\* A step is a step of one connection.
LEMMA OneCall ==
    ASSUME WireInv, NEW c \in Conn, Places', Call(c)', \A d \in Conn : d # c => Kept(d)
    PROVE  WireInv'
<1>1. ASSUME NEW d \in Conn PROVE Call(d)'
  <2>1. CASE d = c
    BY <2>1
  <2>2. CASE d # c
    BY <2>2, CallKept DEF WireInv
  <2> QED BY <2>1, <2>2
<1> QED BY <1>1 DEF WireInv

\* Before anything is dialled.
LEMMA InitWireInv == Init => WireInv
<1> SUFFICES ASSUME Init PROVE WireInv
  OBVIOUS
<1>1. <<>> \in Parts /\ <<>> \in Cells
  BY DEF Parts, Cells
<1>2. Places
  BY <1>1 DEF Init, Places
<1>3. ASSUME NEW c \in Conn PROVE Fresh(c)
  BY DEF Init, Fresh, Nothing, End, Other
<1> QED BY <1>2, <1>3 DEF WireInv, Call

\* What a step of the transport is for the callers: a step of Rpc, or nothing.
Seen == Promised!RpcNext \/ UNCHANGED Promised!rpcVars

Unmoved(c, e) ==
    /\ toWrite'[c][e] = toWrite[c][e]
    /\ inbound'[c][Other(e)] = inbound[c][Other(e)] /\ got'[c][Other(e)] = got[c][Other(e)]

\* A frame that a step does not touch; the connection may end.
LEMMA CarriedStays ==
    ASSUME NEW c, NEW e, NEW type, NEW payload, Carried(c, e, type, payload),
           Unmoved(c, e), Connected(c, e)' => Connected(c, e)
    PROVE  Carried(c, e, type, payload)'
BY TransitStays DEF Carried, Unmoved

\* A call that was dialled is in the second half of the invariant.
LEMMA Dialled ==
    ASSUME WireInv, NEW c \in Conn, link[c] # "none" \/ \E e \in End : pc[c][e] # "idle"
    PROVE  /\ Sent(c) /\ (Unanswered(c) \/ Answering(c))
           /\ asked[c] \in Request /\ asked[c] # None
BY WireAssumption DEF WireInv, Call, Fresh, Sent

\* The client has a connection and begins to write its request.
LEMMA DialStep ==
    ASSUME WireInv, NEW c \in Conn, NEW r \in Request, Dial(c, r)
    PROVE  WireInv' /\ Seen
<1>1. Places /\ Fresh(c)
  BY WireAssumption DEF WireInv, Call, Sent, Dial
<1>2. PICK payload \in EncodeRequest(r) :
          toWrite' = [toWrite EXCEPT ![c]["client"] = Frame(r.type, payload)]
  BY DEF Dial
<1>3. payload \in Seq(Cell) /\ r.type \in Cell
  BY <1>2, RequestReturns, Kinds DEF Cell
<1>4. PICK F : F = Frame(r.type, payload)
  OBVIOUS
<1>5. F \in Parts /\ F # <<>> /\ \A live : Transit(r.type, payload, F, <<>>, <<>>, live)
  BY <1>3, <1>4, TransitStarts DEF Parts
<1>6. "client" \in End /\ "server" \in End /\ Other("client") = "server" /\ Other("server") = "client"
  BY DEF End, Other
<1>7. /\ toWrite' \in [Conn -> [End -> Parts]] /\ toWrite'[c]["client"] = F
      /\ toWrite'[c]["server"] = toWrite[c]["server"]
      /\ \A d \in Conn : d # c => toWrite'[d] = toWrite[d]
  <2>1. toWrite \in [Conn -> [End -> Parts]] /\ toWrite' = [toWrite EXCEPT ![c]["client"] = F]
    BY <1>1, <1>2, <1>4 DEF Places
  <2> QED BY <1>5, <1>6, <2>1, Updated
<1>8. /\ pc' \in [Conn -> [End -> {"idle", "write", "read", "closed"}]]
      /\ pc'[c]["client"] = "write" /\ pc'[c]["server"] = pc[c]["server"]
      /\ \A d \in Conn : d # c => pc'[d] = pc[d]
  BY <1>1, <1>6 DEF Places, Dial
<1>9. /\ asked' \in [Conn -> Request \cup {None}] /\ asked'[c] = r
      /\ \A d \in Conn : d # c => asked'[d] = asked[d]
      /\ link' \in [Conn -> {"none", "open", "broken", "silent"}] /\ link'[c] = "open"
      /\ \A d \in Conn : d # c => link'[d] = link[d]
  BY <1>1 DEF Places, Dial
<1>10. UNCHANGED <<handled, result, inbound, got>>
  BY DEF Dial
<1>11. Places'
  BY <1>1, <1>7, <1>8, <1>9, <1>10 DEF Places
<1>12. \A d \in Conn : d # c => Kept(d)
  BY <1>7, <1>8, <1>9, <1>10 DEF Kept
<1>13. Sent(c)'
  <2>1. Carried(c, "client", r.type, payload)'
    BY <1>1, <1>5, <1>6, <1>7, <1>10 DEF Carried, Fresh, Nothing
  <2> QED BY <1>1, <1>5, <1>7, <1>8, <1>9, <1>10, <2>1 DEF Sent, Fresh
<1>14. Unanswered(c)'
  BY <1>1, <1>6, <1>7, <1>8, <1>10 DEF Unanswered, Fresh, Nothing
<1>15. WireInv'
  BY <1>11, <1>12, <1>13, <1>14, OneCall DEF Call
<1>16. Promised!Invoke(c, r)
  BY <1>10 DEF Promised!Invoke, Dial
<1> QED BY <1>15, <1>16 DEF Seen, Promised!RpcNext

\* DialFails, WriteFails and ReadFails.
LEMMA GiveUpStep ==
    ASSUME WireInv, NEW c \in Conn, NEW e \in End, pc[c][e] \in {"write", "read"}, GiveUp(c, e),
           UNCHANGED <<asked, handled, link, toWrite, inbound, got>>
    PROVE  WireInv' /\ Seen
<1>1. /\ Places /\ Sent(c) /\ (Unanswered(c) \/ Answering(c))
      /\ asked[c] # None
  BY Dialled DEF WireInv
<1>2. /\ pc' \in [Conn -> [End -> {"idle", "write", "read", "closed"}]]
      /\ pc'[c][e] = "closed" /\ (\A o \in End : o # e => pc'[c][o] = pc[c][o])
      /\ \A d \in Conn : d # c => pc'[d] = pc[d]
  BY <1>1 DEF Places, GiveUp
<1>3. /\ result' = [d \in Conn |-> result'[d]]
      /\ (e = "client" => result'[c] = Failed) /\ (e = "server" => result'[c] = result[c])
      /\ \A d \in Conn : d # c => result'[d] = result[d]
  BY <1>1 DEF Places, GiveUp
<1>4. Places'
  BY <1>1, <1>2, <1>3 DEF Places
<1>5. \A d \in Conn : d # c => Kept(d)
  BY <1>2, <1>3 DEF Kept
<1>6. "client" \in End /\ "server" \in End /\ Other("client") = "server" /\ Other("server") = "client"
  BY DEF End, Other
<1>7. ASSUME NEW o \in End PROVE Unmoved(c, o) /\ (Connected(c, o)' => Connected(c, o))
  BY <1>2, <1>6 DEF Unmoved, Connected, End
<1>8. Sent(c)'
  <2>1. PICK payload \in EncodeRequest(asked[c]) : Carried(c, "client", asked[c].type, payload)
    BY <1>1 DEF Sent
  <2>2. Carried(c, "client", asked[c].type, payload)'
    BY <1>6, <1>7, <2>1, CarriedStays
  <2>3. asked'[c] = asked[c] /\ link'[c] = link[c] /\ toWrite'[c] = toWrite[c]
    OBVIOUS
  <2>4. CASE e = "client"
    BY <1>1, <1>2, <1>6, <2>2, <2>3, <2>4 DEF Sent
  <2>5. CASE e = "server"
    <3>1. pc'[c]["client"] = pc[c]["client"] /\ result'[c] = result[c]
      BY <1>2, <1>3, <1>6, <2>5
    <3> QED BY <1>1, <2>2, <2>3, <3>1 DEF Sent
  <2> QED BY <2>4, <2>5 DEF End
<1>9. ASSUME Unanswered(c) PROVE Call(c)'
  <2>1. Unanswered(c)'
    BY <1>2, <1>3, <1>6, <1>9 DEF Unanswered, Nothing, End
  <2> QED BY <1>8, <2>1 DEF Call
<1>10. ASSUME Answering(c) PROVE Call(c)'
  <2>1. PICK reply \in Reply(asked[c]) :
          /\ handled[c] = <<[request |-> asked[c], reply |-> reply]>>
          /\ pc[c]["server"] \in {"write", "closed"}
          /\ pc[c]["server"] = "write" => toWrite[c]["server"] # <<>>
          /\ result[c] \in {None, Failed, reply}
          /\ Carried(c, "server", ReplyType(asked[c].type), ReplyPayload(asked[c], reply))
    BY <1>10 DEF Answering
  <2>2. Carried(c, "server", ReplyType(asked[c].type), ReplyPayload(asked[c], reply))'
    BY <1>6, <1>7, <2>1, CarriedStays
  <2>3. asked'[c] = asked[c] /\ handled'[c] = handled[c] /\ toWrite'[c] = toWrite[c]
    OBVIOUS
  <2>4. /\ pc'[c]["server"] \in {"write", "closed"}
        /\ pc'[c]["server"] = "write" => toWrite'[c]["server"] # <<>>
    BY <1>2, <1>6, <2>1 DEF End
  <2>5. result'[c] \in {None, Failed, reply}
    BY <1>3, <2>1 DEF End
  <2>6. Answering(c)'
    BY <2>1, <2>2, <2>3, <2>4, <2>5 DEF Answering
  <2> QED BY <1>8, <2>6 DEF Call
<1>11. WireInv'
  BY <1>1, <1>4, <1>5, <1>8, <1>9, <1>10, OneCall
<1>12. Seen
  <2>1. CASE e = "client"
    <3>1. result[c] = None
      BY <1>1, <2>1 DEF Sent
    <3>2. Promised!Fail(c)
      BY <1>1, <2>1, <3>1 DEF Promised!Fail, GiveUp
    <3> QED BY <3>2 DEF Seen, Promised!RpcNext
  <2>2. CASE e = "server"
    BY <2>2 DEF Seen, Promised!rpcVars, GiveUp
  <2> QED BY <2>1, <2>2 DEF End
<1> QED BY <1>11, <1>12

\* Where the two ends are, for the steps below.
LEMMA TwoEnds ==
    /\ "client" \in End /\ "server" \in End
    /\ Other("client") = "server" /\ Other("server") = "client"
    /\ \A e \in End : e = "client" \/ e = "server"
BY DEF End, Other

\* The listener takes the connection.
LEMMA AcceptStep ==
    ASSUME WireInv, NEW c \in Conn, Accept(c)
    PROVE  WireInv' /\ Seen
<1>1. Places /\ Sent(c) /\ (Unanswered(c) \/ Answering(c))
  BY Dialled DEF WireInv, Accept
<1>2. /\ pc' \in [Conn -> [End -> {"idle", "write", "read", "closed"}]]
      /\ pc[c]["server"] = "idle" /\ pc'[c]["server"] = "read" /\ pc'[c]["client"] = pc[c]["client"]
      /\ \A d \in Conn : d # c => pc'[d] = pc[d]
  BY <1>1, TwoEnds DEF Places, Accept
<1>3. UNCHANGED <<asked, handled, result, link, toWrite, inbound, got>>
  BY DEF Accept, callVars
<1>4. Places' /\ \A d \in Conn : d # c => Kept(d)
  BY <1>1, <1>2, <1>3 DEF Places, Kept
<1>5. Unanswered(c)
  BY <1>1, <1>2 DEF Answering
<1>6. Unanswered(c)'
  BY <1>2, <1>3, <1>5 DEF Unanswered, Nothing
<1>7. Sent(c)'
  <2>1. PICK payload \in EncodeRequest(asked[c]) : Carried(c, "client", asked[c].type, payload)
    BY <1>1 DEF Sent
  <2>2. Unmoved(c, "client") /\ (Connected(c, "client")' => Connected(c, "client"))
    BY <1>2, <1>3, TwoEnds DEF Unmoved, Connected
  <2>3. Carried(c, "client", asked[c].type, payload)'
    <3>1. PICK type : type = asked[c].type /\ type = asked'[c].type
      BY <1>3
    <3>2. Carried(c, "client", type, payload)'
      BY <2>1, <2>2, <3>1, CarriedStays
    <3> QED BY <3>1, <3>2
  <2> QED BY <1>1, <1>2, <1>3, <2>3 DEF Sent
<1>8. WireInv'
  BY <1>4, <1>6, <1>7, OneCall DEF Call
<1> QED BY <1>3, <1>8 DEF Seen, Promised!rpcVars

\* One of the three writes of a frame, by either end.
LEMMA WriteStep ==
    ASSUME WireInv, NEW c \in Conn, NEW e \in End, WritePart(c, e)
    PROVE  WireInv' /\ Seen
<1>1. /\ Places /\ Sent(c) /\ (Unanswered(c) \/ Answering(c)) /\ pc[c][e] = "write"
  BY Dialled DEF WireInv, WritePart
<1>2. PICK o \in End : o = Other(e) /\ e = Other(o) /\ o # e
  BY TwoEnds
<1>3. PICK unwritten, cells, parts :
          unwritten = toWrite[c][e] /\ cells = inbound[c][o] /\ parts = got[c][o]
  OBVIOUS
<1>4. unwritten # <<>>
  BY <1>1, <1>3, TwoEnds DEF Sent, Unanswered, Answering
<1>5. /\ unwritten \in Parts /\ cells \in Cells
      /\ Tail(unwritten) \in Parts /\ cells \o Head(unwritten) \in Cells
  <2>1. unwritten \in Parts /\ cells \in Cells
    BY <1>1, <1>2, <1>3 DEF Places
  <2>2. Tail(unwritten) \in Seq(Seq(Cell)) /\ Head(unwritten) \in Seq(Cell)
    BY <1>4, <2>1 DEF Parts
  <2>3. cells \o Head(unwritten) \in Seq(Cell)
    BY <2>1, <2>2, Joined DEF Cells
  <2> QED BY <2>1, <2>2, <2>3 DEF Parts, Cells
<1>6. PICK arrived : arrived = IF Connected(c, e) THEN cells \o Head(unwritten) ELSE cells
  OBVIOUS
<1>7. /\ inbound' \in [Conn -> [End -> Cells]] /\ inbound'[c][o] = arrived
      /\ inbound'[c][e] = inbound[c][e]
      /\ \A d \in Conn : d # c => inbound'[d] = inbound[d]
  <2>1. inbound \in [Conn -> [End -> Cells]]
    BY <1>1 DEF Places
  <2>2. CASE Connected(c, e)
    <3>1. arrived = cells \o Head(unwritten)
      BY <1>6, <2>2
    <3>2. inbound' = [inbound EXCEPT ![c][o] = arrived]
      BY <1>2, <1>3, <2>2, <3>1 DEF WritePart
    <3>3. arrived \in Cells
      BY <1>5, <3>1
    <3>4. /\ inbound' \in [Conn -> [End -> Cells]] /\ inbound'[c][o] = arrived
          /\ \A x \in End : x # o => inbound'[c][x] = inbound[c][x]
          /\ \A d \in Conn : d # c => inbound'[d] = inbound[d]
      BY <2>1, <3>2, <3>3, Updated
    <3> QED BY <1>2, <3>4
  <2>3. CASE ~Connected(c, e)
    BY <1>3, <1>6, <2>1, <2>3 DEF WritePart
  <2> QED BY <2>2, <2>3
<1>8. /\ toWrite' \in [Conn -> [End -> Parts]] /\ toWrite'[c][e] = Tail(unwritten)
      /\ toWrite'[c][o] = toWrite[c][o]
      /\ \A d \in Conn : d # c => toWrite'[d] = toWrite[d]
  <2>1. toWrite \in [Conn -> [End -> Parts]] /\ toWrite' = [toWrite EXCEPT ![c][e] = Tail(unwritten)]
    BY <1>1, <1>3 DEF Places, WritePart
  <2> QED BY <1>2, <1>5, <2>1, Updated
<1>9. PICK place : place = IF Len(unwritten) > 1 THEN "write"
                           ELSE IF e = "client" THEN "read" ELSE "closed"
  OBVIOUS
<1>10. /\ pc' \in [Conn -> [End -> {"idle", "write", "read", "closed"}]]
       /\ pc'[c][e] = place /\ pc'[c][o] = pc[c][o]
       /\ \A d \in Conn : d # c => pc'[d] = pc[d]
  <2>1. /\ pc \in [Conn -> [End -> {"idle", "write", "read", "closed"}]]
        /\ pc' = [pc EXCEPT ![c][e] = place]
    BY <1>1, <1>3, <1>9 DEF Places, WritePart
  <2>2. place \in {"idle", "write", "read", "closed"}
    BY <1>9
  <2> QED BY <1>2, <2>1, <2>2, Updated
<1>11. UNCHANGED <<asked, handled, result, link, got>>
  BY DEF WritePart, callVars
<1>12. Places' /\ \A d \in Conn : d # c => Kept(d)
  BY <1>1, <1>7, <1>8, <1>10, <1>11 DEF Places, Kept
<1>13. place = "write" => Tail(unwritten) # <<>>
  <2>1. PICK tail, n : tail = Tail(unwritten) /\ n = Len(unwritten)
    OBVIOUS
  <2>2. n \in Nat /\ Len(tail) = n - 1
    BY <1>4, <1>5, <2>1 DEF Parts
  <2>3. n > 1 => tail # <<>>
    BY <2>2
  <2> QED BY <1>9, <2>1, <2>3
<1>14. Connected(c, e)' <=> Connected(c, e)
  BY <1>2, <1>10, <1>11 DEF Connected
<1>15. ASSUME NEW type, NEW payload, Carried(c, e, type, payload)
       PROVE  Carried(c, e, type, payload)'
  <2>1. Transit(type, payload, unwritten, cells, parts, Connected(c, e))
    BY <1>2, <1>3, <1>15 DEF Carried
  <2>2. Transit(type, payload, Tail(unwritten), arrived, parts, Connected(c, e))
    <3>1. CASE Connected(c, e)
      <4>1. Transit(type, payload, Tail(unwritten), cells \o Head(unwritten), parts, TRUE)
        BY <1>4, <2>1, <3>1, TransitWrite
      <4>2. arrived = cells \o Head(unwritten)
        BY <1>6, <3>1
      <4> QED BY <4>1, <4>2, TransitStays
    <3>2. CASE ~Connected(c, e)
      <4>1. Transit(type, payload, Tail(unwritten), cells, parts, FALSE)
        <5>1. Transit(type, payload, unwritten, cells, parts, FALSE)
          BY <2>1, TransitStays
        <5> QED BY <1>4, <5>1, TransitWrite
      <4>2. arrived = cells
        BY <1>6, <3>2
      <4> QED BY <3>2, <4>1, <4>2, TransitStays
    <3> QED BY <3>1, <3>2
  <2>3. Transit(type, payload, Tail(unwritten), arrived, parts, Connected(c, e)')
    BY <1>14, <2>2, TransitStays
  <2>4. toWrite'[c][e] = Tail(unwritten) /\ inbound'[c][Other(e)] = arrived /\ got'[c][Other(e)] = parts
    BY <1>2, <1>3, <1>7, <1>8, <1>11
  <2> QED BY <2>3, <2>4 DEF Carried
<1>16. Unmoved(c, o) /\ (Connected(c, o)' => Connected(c, o))
  BY <1>1, <1>2, <1>7, <1>8, <1>10, <1>11 DEF Unmoved, Connected
<1>17. ASSUME NEW type, NEW payload, Carried(c, o, type, payload)
       PROVE  Carried(c, o, type, payload)'
  BY <1>16, <1>17, CarriedStays
<1>18. PICK payload \in EncodeRequest(asked[c]) : Carried(c, "client", asked[c].type, payload)
  BY <1>1 DEF Sent
<1>19. Carried(c, "client", asked[c].type, payload)'
  <2>1. PICK type : type = asked[c].type /\ type = asked'[c].type
    BY <1>11
  <2>2. Carried(c, "client", type, payload)'
    <3>1. Carried(c, "client", type, payload)
      BY <1>18, <2>1
    <3>2. e = "client" \/ o = "client"
      BY <1>2, TwoEnds
    <3> QED BY <1>15, <1>17, <3>1, <3>2
  <2> QED BY <2>1, <2>2
<1>20. CASE e = "client"
  <2>1. o = "server"
    BY <1>2, <1>20, TwoEnds
  <2>2. /\ pc'[c]["client"] \in {"write", "read"} /\ pc'[c]["server"] = pc[c]["server"]
        /\ pc'[c]["client"] = "write" => toWrite'[c]["client"] # <<>>
        /\ toWrite'[c]["server"] = toWrite[c]["server"]
        /\ inbound'[c]["client"] = inbound[c]["client"]
    BY <1>7, <1>8, <1>9, <1>10, <1>13, <1>20, <2>1
  <2>3. Sent(c)'
    BY <1>1, <1>11, <1>19, <1>20, <2>2 DEF Sent
  <2>4. ASSUME Unanswered(c) PROVE Unanswered(c)'
    BY <1>11, <2>2, <2>4, TwoEnds DEF Unanswered, Nothing
  <2>5. ASSUME Answering(c) PROVE Answering(c)'
    BY <1>11, <1>17, <2>1, <2>2, <2>5 DEF Answering
  <2>6. Call(c)'
    BY <1>1, <2>3, <2>4, <2>5 DEF Call
  <2>7. WireInv'
    BY <1>12, <2>6, OneCall
  <2> QED BY <1>11, <2>7 DEF Seen, Promised!rpcVars
<1>21. CASE e = "server"
  <2>1. o = "client"
    BY <1>2, <1>21, TwoEnds
  <2>2. /\ pc'[c]["server"] \in {"write", "closed"} /\ pc'[c]["client"] = pc[c]["client"]
        /\ pc'[c]["server"] = "write" => toWrite'[c]["server"] # <<>>
        /\ toWrite'[c]["client"] = toWrite[c]["client"]
    BY <1>8, <1>9, <1>10, <1>13, <1>21, <2>1
  <2>3. Sent(c)'
    BY <1>1, <1>11, <1>19, <2>2 DEF Sent
  <2>4. Answering(c)
    BY <1>1, <1>21 DEF Unanswered
  <2>5. Answering(c)'
    BY <1>11, <1>15, <1>21, <2>2, <2>4 DEF Answering
  <2>6. Call(c)'
    BY <2>3, <2>5 DEF Call
  <2>7. WireInv'
    BY <1>12, <2>6, OneCall
  <2> QED BY <1>11, <2>7 DEF Seen, Promised!rpcVars
<1> QED BY <1>20, <1>21, TwoEnds

\* One of the three reads of a frame, by either end.
LEMMA ReadStep ==
    ASSUME WireInv, NEW c \in Conn, NEW e \in End, ReadPart(c, e)
    PROVE  WireInv' /\ Seen
<1>1. /\ Places /\ Sent(c) /\ (Unanswered(c) \/ Answering(c)) /\ pc[c][e] = "read"
  BY Dialled DEF WireInv, ReadPart
<1>2. PICK o \in End : e = Other(o) /\ o = Other(e) /\ o # e
  BY TwoEnds
<1>3. PICK unwritten, cells, parts, n :
          /\ unwritten = toWrite[c][o] /\ cells = inbound[c][e] /\ parts = got[c][e]
          /\ n = Needed(parts)
  OBVIOUS
<1>4. Len(parts) < 3 /\ Len(cells) >= n
  BY <1>3 DEF ReadPart
<1>5. PICK front, rest, more : /\ front = SubSeq(cells, 1, n) /\ rest = SubSeq(cells, n + 1, Len(cells))
                               /\ more = Append(parts, front)
  OBVIOUS
<1>6. /\ got' = [got EXCEPT ![c][e] = more] /\ inbound' = [inbound EXCEPT ![c][e] = rest]
      /\ UNCHANGED <<asked, handled, result, link, pc, toWrite>>
  BY <1>3, <1>5 DEF ReadPart, callVars
<1>7. ASSUME NEW type, NEW payload, Transit(type, payload, unwritten, cells, parts, Connected(c, o))
      PROVE  Transit(type, payload, unwritten, rest, more, Connected(c, o)) /\ n \in 0 .. Len(cells)
  BY <1>3, <1>4, <1>5, <1>7, TransitRead
<1>8. PICK type, payload : Transit(type, payload, unwritten, cells, parts, Connected(c, o))
  <2>1. CASE e = "server"
    BY <1>1, <1>2, <1>3, <2>1, TwoEnds DEF Sent, Carried
  <2>2. CASE e = "client" /\ Answering(c)
    BY <1>2, <1>3, <2>2, TwoEnds DEF Answering, Carried
  <2>3. CASE e = "client" /\ Unanswered(c)
    <3>1. cells = <<>> /\ parts = <<>>
      BY <1>3, <2>3, TwoEnds DEF Unanswered, Nothing
    <3>2. n = 1
      BY <1>3, <3>1 DEF Needed
    <3> QED BY <1>4, <3>1, <3>2
  <2> QED BY <1>1, <2>1, <2>2, <2>3, TwoEnds
<1>9. rest \in Cells /\ more \in Parts
  <2>1. Transit(type, payload, unwritten, rest, more, Connected(c, o))
    BY <1>7, <1>8
  <2> QED BY <2>1 DEF Transit, TransitAt, Cells, Parts
<1>10. /\ got' \in [Conn -> [End -> Parts]] /\ got'[c][e] = more
       /\ (\A x \in End : x # e => got'[c][x] = got[c][x])
       /\ \A d \in Conn : d # c => got'[d] = got[d]
  BY <1>1, <1>6, <1>9, Updated DEF Places
<1>11. /\ inbound' \in [Conn -> [End -> Cells]] /\ inbound'[c][e] = rest
       /\ (\A x \in End : x # e => inbound'[c][x] = inbound[c][x])
       /\ \A d \in Conn : d # c => inbound'[d] = inbound[d]
  BY <1>1, <1>6, <1>9, Updated DEF Places
<1>12. Places' /\ \A d \in Conn : d # c => Kept(d)
  BY <1>1, <1>6, <1>10, <1>11 DEF Places, Kept
<1>13. \A x \in End : Connected(c, x)' <=> Connected(c, x)
  BY <1>6 DEF Connected
<1>14. ASSUME NEW t, NEW p, Carried(c, o, t, p)
       PROVE  Carried(c, o, t, p)'
  <2>1. Transit(t, p, unwritten, cells, parts, Connected(c, o))
    BY <1>2, <1>3, <1>14 DEF Carried
  <2>2. Transit(t, p, unwritten, rest, more, Connected(c, o))
    BY <1>7, <2>1
  <2>3. Transit(t, p, unwritten, rest, more, Connected(c, o)')
    BY <1>13, <2>2, TransitStays
  <2>4. toWrite'[c][o] = unwritten /\ inbound'[c][Other(o)] = rest /\ got'[c][Other(o)] = more
    BY <1>2, <1>3, <1>6, <1>10, <1>11
  <2> QED BY <2>3, <2>4 DEF Carried
<1>15. ASSUME NEW t, NEW p, Carried(c, e, t, p)
       PROVE  Carried(c, e, t, p)'
  <2>1. Unmoved(c, e)
    BY <1>2, <1>6, <1>10, <1>11 DEF Unmoved
  <2> QED BY <1>13, <1>15, <2>1, CarriedStays
<1>16. ASSUME NEW x \in End, NEW t, NEW p, Carried(c, x, t, p)
       PROVE  Carried(c, x, t, p)'
  <2>1. x = o \/ x = e
    BY <1>2, TwoEnds
  <2> QED BY <1>14, <1>15, <1>16, <2>1
<1>17. Sent(c)'
  BY <1>1, <1>6, <1>16, TwoEnds DEF Sent
<1>18. CASE e = "server"
  <2>1. Unanswered(c)
    BY <1>1, <1>18 DEF Answering
  <2>2. Unanswered(c)'
    BY <1>6, <1>10, <1>11, <1>18, <2>1, TwoEnds DEF Unanswered, Nothing
  <2>3. WireInv'
    BY <1>12, <1>17, <2>2, OneCall DEF Call
  <2> QED BY <1>6, <2>3 DEF Seen, Promised!rpcVars
<1>19. CASE e = "client"
  <2>1. Answering(c)
    <3>1. ASSUME Unanswered(c) PROVE FALSE
      <4>1. cells = <<>> /\ parts = <<>>
        BY <1>3, <1>19, <3>1, TwoEnds DEF Unanswered, Nothing
      <4>2. n = 1
        BY <1>3, <4>1 DEF Needed
      <4> QED BY <1>4, <4>1, <4>2
    <3> QED BY <1>1, <3>1
  <2>2. Answering(c)'
    BY <1>6, <1>16, <2>1, TwoEnds DEF Answering
  <2>3. WireInv'
    BY <1>12, <1>17, <2>2, OneCall DEF Call
  <2> QED BY <1>6, <2>3 DEF Seen, Promised!rpcVars
<1> QED BY <1>18, <1>19, TwoEnds

\* The reply that the client has read is the one that the server has written.
LEMMA ReturnStep ==
    ASSUME WireInv, NEW c \in Conn, Return(c)
    PROVE  WireInv' /\ Seen
<1>1. /\ Places /\ Sent(c) /\ (Unanswered(c) \/ Answering(c)) /\ pc[c]["client"] = "read"
      /\ asked[c] \in Request
  BY Dialled, TwoEnds DEF WireInv, Return
<1>2. PICK parts : parts = got[c]["client"] /\ Len(parts) = 3
  BY DEF Return
<1>3. Answering(c)
  <2>1. ASSUME Unanswered(c) PROVE FALSE
    <3>1. parts = <<>>
      BY <1>2, <2>1, TwoEnds DEF Unanswered, Nothing
    <3> QED BY <1>2, <3>1
  <2> QED BY <1>1, <2>1
<1>4. PICK r, type : r \in Request /\ r = asked[c] /\ type = ReplyType(r.type)
  BY <1>1
<1>5. PICK reply \in Reply(r) :
        /\ handled[c] = <<[request |-> r, reply |-> reply]>>
        /\ pc[c]["server"] \in {"write", "closed"}
        /\ pc[c]["server"] = "write" => toWrite[c]["server"] # <<>>
        /\ result[c] \in {None, Failed, reply}
        /\ Carried(c, "server", type, ReplyPayload(r, reply))
  BY <1>3, <1>4 DEF Answering
<1>6. parts[1][1] = type /\ parts[3] = ReplyPayload(r, reply)
  <2>1. Transit(type, ReplyPayload(r, reply), toWrite[c]["server"], inbound[c]["client"], parts,
                Connected(c, "server"))
    BY <1>2, <1>5, TwoEnds DEF Carried
  <2> QED BY <1>2, <2>1, TransitEnds
<1>7. DecodeStruct(ReplyFields(type), parts[3]) = Decoded(reply)
  BY <1>4, <1>6, ReplyReturns
<1>8. result' = [result EXCEPT ![c] = reply]
  <2>1. PICK d : d = DecodeStruct(ReplyFields(parts[1][1]), parts[3])
    OBVIOUS
  <2>2. d.ok /\ d.value = reply
    BY <1>6, <1>7, <2>1 DEF Decoded
  <2>3. result' = [result EXCEPT ![c] = IF parts[1][1] = ReplyType(asked[c].type) /\ d.ok
                                        THEN d.value ELSE Failed]
    BY <1>2, <2>1 DEF Return
  <2>4. parts[1][1] = ReplyType(asked[c].type)
    BY <1>4, <1>6
  <2> QED BY <2>2, <2>3, <2>4
<1>9. /\ pc' \in [Conn -> [End -> {"idle", "write", "read", "closed"}]]
      /\ pc'[c]["client"] = "closed" /\ pc'[c]["server"] = pc[c]["server"]
      /\ \A d \in Conn : d # c => pc'[d] = pc[d]
  BY <1>1, TwoEnds DEF Places, Return
<1>10. /\ result' = [d \in Conn |-> result'[d]] /\ result'[c] = reply
       /\ \A d \in Conn : d # c => result'[d] = result[d]
  BY <1>1, <1>8 DEF Places
<1>11. UNCHANGED <<asked, handled, link, toWrite, inbound, got>>
  BY DEF Return
<1>12. Places' /\ \A d \in Conn : d # c => Kept(d)
  BY <1>1, <1>9, <1>10, <1>11 DEF Places, Kept
<1>13. \A o \in End : Unmoved(c, o) /\ (Connected(c, o)' => Connected(c, o))
  BY <1>9, <1>11, TwoEnds DEF Unmoved, Connected
<1>14. ASSUME NEW o \in End, NEW t, NEW p, Carried(c, o, t, p)
       PROVE  Carried(c, o, t, p)'
  BY <1>13, <1>14, CarriedStays
<1>15. Sent(c)'
  BY <1>1, <1>9, <1>11, <1>14, TwoEnds DEF Sent
<1>16. Answering(c)'
  <2>1. Carried(c, "server", type, ReplyPayload(r, reply))'
    BY <1>5, <1>14, TwoEnds
  <2>2. r = asked'[c]
    BY <1>4, <1>11
  <2> QED BY <1>4, <1>5, <1>9, <1>10, <1>11, <2>1, <2>2 DEF Answering
<1>17. WireInv'
  BY <1>12, <1>15, <1>16, OneCall DEF Call
<1>18. Promised!Answer(c)
  <2>1. result[c] = None
    BY <1>1 DEF Sent
  <2>2. handled[c] # <<>> /\ handled[c][1].reply = reply
    BY <1>5
  <2> QED BY <1>8, <1>11, <2>1, <2>2 DEF Promised!Answer
<1> QED BY <1>17, <1>18 DEF Seen, Promised!RpcNext

\* The handler is given the request that was asked.
LEMMA HandleStep ==
    ASSUME WireInv, NEW c \in Conn, Handle(c)
    PROVE  WireInv' /\ Seen
<1>1. /\ Places /\ Sent(c) /\ (Unanswered(c) \/ Answering(c)) /\ pc[c]["server"] = "read"
      /\ asked[c] \in Request /\ asked[c] # None
  BY Dialled, TwoEnds DEF WireInv, Handle
<1>2. Unanswered(c)
  BY <1>1 DEF Answering
<1>3. PICK parts : parts = got[c]["server"] /\ Len(parts) = 3
  BY DEF Handle
<1>4. PICK r \in Request : r = asked[c]
  BY <1>1
<1>5. PICK payload \in EncodeRequest(r) : Carried(c, "client", r.type, payload)
  BY <1>1, <1>4 DEF Sent
<1>6. parts[1][1] = r.type /\ parts[3] = payload
  <2>1. Transit(r.type, payload, toWrite[c]["client"], inbound[c]["server"], parts,
                Connected(c, "client"))
    BY <1>3, <1>5, TwoEnds DEF Carried
  <2> QED BY <1>3, <2>1, TransitEnds
<1>7. PICK request : request = DecodeRequest(parts[1][1], parts[3])
  OBVIOUS
<1>8. request.ok /\ request.value = r
  <2>1. DecodeRequest(r.type, payload) = Decoded(r)
    BY RequestReturns
  <2> QED BY <1>6, <1>7, <2>1 DEF Decoded
<1>9. PICK reply \in Reply(r) :
        /\ handled' = [handled EXCEPT ![c] = Append(handled[c], [request |-> r, reply |-> reply])]
        /\ toWrite' = [toWrite EXCEPT ![c]["server"] =
                          Frame(ReplyType(r.type), ReplyPayload(r, reply))]
        /\ pc' = [pc EXCEPT ![c]["server"] = "write"]
  <2>1. \E reply \in Reply(request.value) :
          /\ handled' = [handled EXCEPT ![c] =
                 Append(handled[c], [request |-> request.value, reply |-> reply])]
          /\ toWrite' = [toWrite EXCEPT ![c]["server"] =
                 Frame(ReplyType(parts[1][1]),
                       EncodeStruct(ReplyFields(ReplyType(parts[1][1])), reply))]
          /\ pc' = [pc EXCEPT ![c]["server"] = "write"]
    BY <1>3, <1>7, <1>8 DEF Handle
  <2> QED BY <1>6, <1>8, <2>1 DEF ReplyPayload
<1>10. PICK type, F : type = ReplyType(r.type) /\ F = Frame(type, ReplyPayload(r, reply))
  OBVIOUS
<1>11. ReplyPayload(r, reply) \in Seq(Cell) /\ type \in Cell
  BY <1>10, ReplyReturns, Kinds DEF ReplyType, Cell
<1>12. F \in Parts /\ F # <<>> /\ \A live : Transit(type, ReplyPayload(r, reply), F, <<>>, <<>>, live)
  BY <1>10, <1>11, TransitStarts DEF Parts
<1>13. /\ toWrite' \in [Conn -> [End -> Parts]] /\ toWrite'[c]["server"] = F
       /\ toWrite'[c]["client"] = toWrite[c]["client"]
       /\ \A d \in Conn : d # c => toWrite'[d] = toWrite[d]
  <2>1. toWrite \in [Conn -> [End -> Parts]] /\ toWrite' = [toWrite EXCEPT ![c]["server"] = F]
    BY <1>1, <1>9, <1>10 DEF Places
  <2> QED BY <1>12, <2>1, Updated, TwoEnds
<1>14. /\ pc' \in [Conn -> [End -> {"idle", "write", "read", "closed"}]]
       /\ pc'[c]["server"] = "write" /\ pc'[c]["client"] = pc[c]["client"]
       /\ \A d \in Conn : d # c => pc'[d] = pc[d]
  BY <1>1, <1>9, TwoEnds DEF Places
<1>15. handled[c] = <<>> /\ Nothing(c, "server") /\ result[c] \in {None, Failed}
  BY <1>2 DEF Unanswered
<1>16. PICK call : call = <<[request |-> r, reply |-> reply]>>
  OBVIOUS
<1>17. handled' = [handled EXCEPT ![c] = call]
  BY <1>9, <1>15, <1>16
<1>18. /\ handled' = [d \in Conn |-> handled'[d]] /\ handled'[c] = call
       /\ \A d \in Conn : d # c => handled'[d] = handled[d]
  BY <1>1, <1>17 DEF Places
<1>19. UNCHANGED <<asked, result, link, inbound, got>>
  BY DEF Handle
<1>20. Places' /\ \A d \in Conn : d # c => Kept(d)
  BY <1>1, <1>13, <1>14, <1>18, <1>19 DEF Places, Kept
<1>21. Sent(c)'
  <2>1. Unmoved(c, "client") /\ (Connected(c, "client")' => Connected(c, "client"))
    BY <1>1, <1>13, <1>14, <1>19, TwoEnds DEF Unmoved, Connected
  <2>2. PICK t : t = r.type
    OBVIOUS
  <2>3. Carried(c, "client", t, payload)'
    BY <1>5, <2>1, <2>2, CarriedStays
  <2>4. r = asked'[c]
    BY <1>4, <1>19
  <2> QED BY <1>1, <1>4, <1>13, <1>14, <1>19, <2>2, <2>3, <2>4 DEF Sent
<1>22. Answering(c)'
  <2>1. Carried(c, "server", type, ReplyPayload(r, reply))'
    BY <1>12, <1>13, <1>15, <1>19, TwoEnds DEF Carried, Nothing
  <2>2. r = asked'[c]
    BY <1>4, <1>19
  <2> QED BY <1>10, <1>12, <1>13, <1>14, <1>15, <1>16, <1>18, <1>19, <2>1, <2>2 DEF Answering
<1>23. WireInv'
  BY <1>20, <1>21, <1>22, OneCall DEF Call
<1>24. Promised!Execute(c)
  BY <1>1, <1>4, <1>15, <1>16, <1>17, <1>19 DEF Promised!Execute
<1> QED BY <1>23, <1>24 DEF Seen, Promised!RpcNext

\* A connection that breaks or goes silent, anywhere in a frame.
LEMMA DisruptStep ==
    ASSUME WireInv, NEW c \in Conn, NEW how \in {"broken", "silent"}, Disrupt(c, how),
           UNCHANGED pc \/ pc' = [pc EXCEPT ![c]["server"] = "closed"]
    PROVE  WireInv' /\ Seen
<1>1. Places /\ Sent(c) /\ (Unanswered(c) \/ Answering(c))
  BY Dialled DEF WireInv, Disrupt
<1>2. PICK m \in 0 .. Len(inbound[c]["client"]), n \in 0 .. Len(inbound[c]["server"]) :
          inbound' = [inbound EXCEPT ![c] = [client |-> SubSeq(inbound[c]["client"], 1, m),
                                             server |-> SubSeq(inbound[c]["server"], 1, n)]]
  BY DEF Disrupt
<1>3. PICK a, b : a = SubSeq(inbound[c]["client"], 1, m) /\ b = SubSeq(inbound[c]["server"], 1, n)
  OBVIOUS
<1>4. a \in Cells /\ b \in Cells
  <2>1. inbound[c]["client"] \in Seq(Cell) /\ inbound[c]["server"] \in Seq(Cell)
    BY <1>1, TwoEnds DEF Places, Cells
  <2> QED BY <1>3, <2>1, Prefix DEF Cells
<1>5. /\ inbound' \in [Conn -> [End -> Cells]] /\ inbound'[c]["client"] = a
      /\ inbound'[c]["server"] = b
      /\ \A d \in Conn : d # c => inbound'[d] = inbound[d]
  <2>1. PICK v : v = [client |-> a, server |-> b]
    OBVIOUS
  <2>2. v \in [End -> Cells] /\ v["client"] = a /\ v["server"] = b
    BY <1>4, <2>1 DEF End
  <2>3. inbound \in [Conn -> [End -> Cells]] /\ inbound' = [inbound EXCEPT ![c] = v]
    BY <1>1, <1>2, <1>3, <2>1 DEF Places
  <2> QED BY <2>2, <2>3
<1>6. /\ link' \in [Conn -> {"none", "open", "broken", "silent"}] /\ link'[c] = how
      /\ \A d \in Conn : d # c => link'[d] = link[d]
  BY <1>1 DEF Places, Disrupt
<1>7. /\ pc' \in [Conn -> [End -> {"idle", "write", "read", "closed"}]]
      /\ pc'[c]["client"] = pc[c]["client"]
      /\ pc'[c]["server"] = pc[c]["server"] \/ pc'[c]["server"] = "closed"
      /\ \A d \in Conn : d # c => pc'[d] = pc[d]
  <2>1. pc \in [Conn -> [End -> {"idle", "write", "read", "closed"}]]
    BY <1>1 DEF Places
  <2>2. CASE pc' = pc
    BY <2>1, <2>2
  <2>3. CASE pc' = [pc EXCEPT ![c]["server"] = "closed"]
    BY <2>1, <2>3, TwoEnds
  <2> QED BY <2>2, <2>3
<1>8. UNCHANGED <<asked, handled, result, toWrite, got>>
  BY DEF Disrupt, callVars
<1>9. Places' /\ \A d \in Conn : d # c => Kept(d)
  BY <1>1, <1>5, <1>6, <1>7, <1>8 DEF Places, Kept
<1>10. ~Connected(c, "client")' /\ ~Connected(c, "server")'
  BY <1>6 DEF Connected
<1>11. ASSUME NEW t, NEW p, Carried(c, "client", t, p)
       PROVE  Carried(c, "client", t, p)'
  <2>1. Transit(t, p, toWrite[c]["client"], b, got[c]["server"], FALSE)
    BY <1>2, <1>3, <1>11, TransitCut, TwoEnds DEF Carried
  <2>2. Transit(t, p, toWrite[c]["client"], b, got[c]["server"], Connected(c, "client")')
    BY <1>10, <2>1, TransitStays
  <2> QED BY <1>5, <1>8, <2>2, TwoEnds DEF Carried
<1>12. ASSUME NEW t, NEW p, Carried(c, "server", t, p)
       PROVE  Carried(c, "server", t, p)'
  <2>1. Transit(t, p, toWrite[c]["server"], a, got[c]["client"], FALSE)
    BY <1>2, <1>3, <1>12, TransitCut, TwoEnds DEF Carried
  <2>2. Transit(t, p, toWrite[c]["server"], a, got[c]["client"], Connected(c, "server")')
    BY <1>10, <2>1, TransitStays
  <2> QED BY <1>5, <1>8, <2>2, TwoEnds DEF Carried
<1>13. Sent(c)'
  BY <1>1, <1>6, <1>7, <1>8, <1>11 DEF Sent
<1>14. ASSUME Unanswered(c) PROVE Unanswered(c)'
  <2>1. inbound[c]["client"] = <<>>
    BY <1>14, TwoEnds DEF Unanswered, Nothing
  <2>2. a = <<>>
    BY <1>2, <1>3, <2>1
  <2> QED BY <1>5, <1>7, <1>8, <1>14, <2>2, TwoEnds DEF Unanswered, Nothing
<1>15. ASSUME Answering(c) PROVE Answering(c)'
  BY <1>7, <1>8, <1>12, <1>15 DEF Answering
<1>16. WireInv'
  BY <1>1, <1>9, <1>13, <1>14, <1>15, OneCall DEF Call
<1> QED BY <1>8, <1>16 DEF Seen, Promised!rpcVars

\* Every step keeps the invariant and is a step of Rpc or none.
LEMMA WireStep == WireInv /\ [Next]_vars => WireInv' /\ Seen
<1> SUFFICES ASSUME WireInv, [Next]_vars PROVE WireInv' /\ Seen
  OBVIOUS
<1>1. ASSUME NEW c \in Conn, NEW r \in Request, Dial(c, r) PROVE WireInv' /\ Seen
  BY <1>1, DialStep
<1>2. ASSUME NEW c \in Conn, DialFails(c) PROVE WireInv' /\ Seen
  BY <1>2, GiveUpStep, TwoEnds DEF DialFails
<1>3. ASSUME NEW c \in Conn, NEW e \in End, Transfer(c, e) PROVE WireInv' /\ Seen
  <2>1. CASE WritePart(c, e)
    BY <2>1, WriteStep
  <2>2. CASE WriteFails(c, e)
    BY <2>2, GiveUpStep DEF WriteFails
  <2>3. CASE ReadPart(c, e)
    BY <2>3, ReadStep
  <2>4. CASE ReadFails(c, e)
    BY <2>4, GiveUpStep DEF ReadFails
  <2> QED BY <1>3, <2>1, <2>2, <2>3, <2>4 DEF Transfer
<1>4. ASSUME NEW c \in Conn, Client(c) PROVE WireInv' /\ Seen
  BY <1>3, <1>4, ReturnStep, TwoEnds DEF Client
<1>5. ASSUME NEW c \in Conn, Server(c) PROVE WireInv' /\ Seen
  BY <1>3, <1>5, AcceptStep, HandleStep, TwoEnds DEF Server
<1>6. ASSUME NEW c \in Conn, Network(c) PROVE WireInv' /\ Seen
  <2>1. CASE Break(c)
    BY <2>1, DisruptStep DEF Break
  <2>2. CASE GoSilent(c)
    BY <2>2, DisruptStep DEF GoSilent
  <2>3. CASE ServerDies(c)
    BY <2>3, DisruptStep DEF ServerDies
  <2> QED BY <1>6, <2>1, <2>2, <2>3 DEF Network
<1>7. CASE UNCHANGED vars
  <2>1. UNCHANGED <<asked, handled, result, link, pc, toWrite, inbound, got>>
    BY <1>7 DEF vars, callVars
  <2>2. Places'
    BY <2>1 DEF WireInv, Places
  <2>3. ASSUME NEW d \in Conn PROVE Call(d)'
    BY <2>1, CallKept DEF WireInv, Kept
  <2> QED BY <2>1, <2>2, <2>3 DEF WireInv, Seen, Promised!rpcVars
<1>8. CASE Next
  BY <1>1, <1>2, <1>4, <1>5, <1>6, <1>8 DEF Next
<1> QED BY <1>7, <1>8

\* The invariant holds throughout.
LEMMA WireInvAlways == Spec => []WireInv
BY InitWireInv, WireStep, PTL DEF Spec

\* The invariant says what the handlers and the callers are given.
LEMMA WireInvTypes == WireInv => WireTypeOK
<1> SUFFICES ASSUME WireInv PROVE WireTypeOK
  OBVIOUS
<1>1. ASSUME NEW c \in Conn
      PROVE  /\ \A p \in DOMAIN handled[c] : /\ handled[c][p].request \in Request
                                             /\ handled[c][p].reply \in Reply(asked[c])
             /\ result[c] \in {None, Failed} \/ result[c] \in Reply(asked[c])
  <2>1. CASE handled[c] = <<>> /\ result[c] \in {None, Failed}
    BY <2>1
  <2>2. CASE asked[c] \in Request /\ Answering(c)
    <3>1. PICK reply \in Reply(asked[c]) :
              /\ handled[c] = <<[request |-> asked[c], reply |-> reply]>>
              /\ result[c] \in {None, Failed, reply}
      BY <2>2 DEF Answering
    <3>2. DOMAIN handled[c] = {1} /\ handled[c][1] = [request |-> asked[c], reply |-> reply]
      BY <3>1
    <3>3. handled[c][1].request = asked[c] /\ handled[c][1].reply = reply
      BY <3>2
    <3> QED BY <2>2, <3>1, <3>2, <3>3
  <2> QED BY <2>1, <2>2 DEF WireInv, Call, Fresh, Sent, Unanswered
<1> QED BY <1>1 DEF WireInv, Places, WireTypeOK

\* Whatever happens to a connection, a handler is only given requests and a
\* caller only gets replies to its own (handleConnection, Send*).
THEOREM WireTypeCorrect == Spec => []WireTypeOK
BY WireInvAlways, WireInvTypes, PTL

\* The transport implements calls that are executed at most once, with the
\* arguments that were sent, and return that execution's reply or an error:
\* for requests, logs and snapshots of every size, and wherever in the two
\* frames the connection breaks or an end gives up.
THEOREM WireImplementsRpc == Spec => ImplementsRpc
<1>1. Init => Promised!RpcInit
  BY DEF Init, Promised!RpcInit
<1>2. WireInv /\ [Next]_vars => [Promised!RpcNext]_(Promised!rpcVars)
  BY WireStep DEF Seen
<1> QED BY <1>1, <1>2, WireInvAlways, PTL DEF Spec, ImplementsRpc, Promised!RpcSpec

-----------------------------------------------------------------------------
(* Commands.                                                                 *)

\* text is "set key=value".
Line(text, key, k, value, v) ==
    /\ Len(text) = 3 + k + v /\ text[1] = "set" /\ text[2] = " "
    /\ \A p \in 1 .. k : text[2 + p] = key[p]
    /\ text[3 + k] = "="
    /\ \A p \in 1 .. v : text[3 + k + p] = value[p]

Letters(S) == {"set", " ", "="} \subseteq S

\* What HandleSet formats.
LEMMA LineFormatted ==
    ASSUME NEW S, Letters(S), NEW key \in Seq(S), NEW value \in Seq(S)
    PROVE  /\ FormatSet(key, value) \in Seq(S)
           /\ Line(FormatSet(key, value), key, Len(key), value, Len(value))
<1>1. PICK k \in Nat, v \in Nat : k = Len(key) /\ v = Len(value)
  OBVIOUS
<1>0. PICK x \in S, y \in S, z \in S : x = "set" /\ y = " " /\ z = "="
  BY DEF Letters
<1>2. PICK a, e : a = <<x, y>> /\ e = <<z>>
  OBVIOUS
<1>3. /\ a \in Seq(S) /\ Len(a) = 2 /\ a[1] = x /\ a[2] = y
      /\ e \in Seq(S) /\ Len(e) = 1 /\ e[1] = z
  BY <1>2
<1>4. PICK b : b = a \o key
  OBVIOUS
<1>5. /\ b \in Seq(S) /\ Len(b) = 2 + k /\ b[1] = x /\ b[2] = y
      /\ \A p \in 1 .. k : b[2 + p] = key[p]
  <2>1. /\ a \o key \in Seq(S) /\ Len(a \o key) = Len(a) + Len(key)
        /\ \A p \in 1 .. Len(a) : (a \o key)[p] = a[p]
        /\ \A p \in 1 .. Len(key) : (a \o key)[Len(a) + p] = key[p]
    <3>1. a \in Seq(S) /\ key \in Seq(S)
      BY <1>3
    <3> QED BY <3>1, Joined
  <2> QED BY <1>1, <1>3, <1>4, <2>1
<1>6. PICK c : c = b \o e
  OBVIOUS
<1>7. /\ c \in Seq(S) /\ Len(c) = 3 + k /\ c[3 + k] = z
      /\ \A p \in 1 .. 2 + k : c[p] = b[p]
  <2>1. /\ b \o e \in Seq(S) /\ Len(b \o e) = Len(b) + Len(e)
        /\ \A p \in 1 .. Len(b) : (b \o e)[p] = b[p]
        /\ \A p \in 1 .. Len(e) : (b \o e)[Len(b) + p] = e[p]
    <3>1. b \in Seq(S) /\ e \in Seq(S)
      BY <1>3, <1>5
    <3> QED BY <3>1, Joined
  <2>2. c[3 + k] = z
    <3>1. PICK l : l = Len(b) /\ l = 2 + k /\ l + 1 = 3 + k
      BY <1>5
    <3>2. 1 \in 1 .. Len(e)
      BY <1>3
    <3>3. c[l + 1] = e[1]
      BY <1>6, <2>1, <3>1, <3>2
    <3> QED BY <1>3, <3>1, <3>3
  <2>3. Len(b) + Len(e) = 3 + k
    BY <1>3, <1>5
  <2> QED BY <1>5, <1>6, <2>1, <2>2, <2>3
<1>8. PICK text : text = c \o value
  OBVIOUS
<1>9. /\ text \in Seq(S) /\ Len(text) = 3 + k + v
      /\ \A p \in 1 .. 3 + k : text[p] = c[p]
      /\ \A p \in 1 .. v : text[3 + k + p] = value[p]
  <2>1. /\ c \o value \in Seq(S) /\ Len(c \o value) = Len(c) + Len(value)
        /\ \A p \in 1 .. Len(c) : (c \o value)[p] = c[p]
        /\ \A p \in 1 .. Len(value) : (c \o value)[Len(c) + p] = value[p]
    <3>1. c \in Seq(S) /\ value \in Seq(S)
      BY <1>7
    <3> QED BY <3>1, Joined
  <2> QED BY <1>1, <1>7, <1>8, <2>1
<1>10. text[1] = x /\ text[2] = y /\ text[3 + k] = z
  <2>1. 1 \in 1 .. 2 + k /\ 2 \in 1 .. 2 + k
    OBVIOUS
  <2>2. c[1] = x /\ c[2] = y
    BY <1>5, <1>7, <2>1
  <2>3. 1 \in 1 .. 3 + k /\ 2 \in 1 .. 3 + k /\ 3 + k \in 1 .. 3 + k
    OBVIOUS
  <2> QED BY <1>7, <1>9, <2>2, <2>3
<1>11. ASSUME NEW p \in 1 .. k PROVE text[2 + p] = key[p]
  <2>1. 2 + p \in 1 .. 2 + k /\ 2 + p \in 1 .. 3 + k
    OBVIOUS
  <2> QED BY <1>5, <1>7, <1>9, <2>1
<1>12. FormatSet(key, value) = text
  BY <1>0, <1>2, <1>4, <1>6, <1>8 DEF FormatSet
<1> QED BY <1>0, <1>1, <1>9, <1>10, <1>11, <1>12 DEF Line

\* The n elements of a sequence that follow its a-th.
LEMMA Infix ==
    ASSUME NEW S, NEW s \in Seq(S), NEW a \in Nat, NEW n \in Nat, NEW m, NEW b,
           m = a + 1, b = a + n, b <= Len(s)
    PROVE  /\ SubSeq(s, m, b) \in Seq(S)
           /\ Len(SubSeq(s, m, b)) = n
           /\ \A i \in 1 .. n : SubSeq(s, m, b)[i] = s[a + i]
<1>1. m \in Int /\ b \in Int /\ \A p \in m .. b : s[p] \in S
  OBVIOUS
<1>2. PICK t : t = SubSeq(s, m, b)
  OBVIOUS
<1>3. /\ t \in Seq(S)
      /\ Len(t) = IF m <= b THEN b - m + 1 ELSE 0
      /\ \A i \in 1 .. b - m + 1 : t[i] = s[m + i - 1]
  BY <1>1, <1>2, SubSeqProperties
<1>4. \A i \in 1 .. n : i \in 1 .. b - m + 1 /\ m + i - 1 = a + i
  OBVIOUS
<1>5. Len(t) = n
  BY <1>3
<1>6. \A i \in 1 .. n : t[i] = s[a + i]
  BY <1>3, <1>4
<1> QED BY <1>2, <1>3, <1>5, <1>6

\* A part of a text, found again.
LEMMA Piece ==
    ASSUME NEW S, NEW text \in Seq(S), NEW piece \in Seq(S), NEW a \in Nat, NEW b,
           b = a + Len(piece), b <= Len(text), \A p \in 1 .. Len(piece) : text[a + p] = piece[p]
    PROVE  SubSeq(text, a + 1, b) = piece
<1>1. PICK m, sub : m = a + 1 /\ sub = SubSeq(text, m, b)
  OBVIOUS
<1>2. sub \in Seq(S) /\ Len(sub) = Len(piece) /\ \A i \in 1 .. Len(piece) : sub[i] = text[a + i]
  BY <1>1, Infix
<1>3. \A i \in 1 .. Len(piece) : sub[i] = piece[i]
  BY <1>2
<1> QED BY <1>1, <1>2, <1>3, SeqEqual

\* The size of a set of two.
LEMMA TwoElements ==
    ASSUME NEW x, NEW y, x # y
    PROVE  IsFiniteSet({x, y}) /\ Cardinality({x, y}) = 2
<1>1. IsFiniteSet({x}) /\ Cardinality({x}) = 1
  BY FS_Singleton
<1>2. IsFiniteSet({x} \cup {y}) /\ Cardinality({x} \cup {y}) = 1 + 1
  BY <1>1, FS_AddElement
<1>3. {x} \cup {y} = {x, y}
  OBVIOUS
<1> QED BY <1>2, <1>3

\* Apply, with its parts named.
First(words) == CHOOSE w \in words : \A u \in words : w[1] <= u[1]
Second(words, first) == CHOOSE w \in words : w # first
Equals(text, second) == {p \in second[1] .. second[2] : text[p] = "="}
Split(equals) == CHOOSE p \in equals : \A q \in equals : p <= q

ApplyParts(data, text, words, first, second, equals, split) ==
    IF Cardinality(words) = 2 /\ SubSeq(text, first[1], first[2]) = <<"set">> /\ equals # {}
    THEN Put(data, SubSeq(text, second[1], split - 1), SubSeq(text, split + 1, second[2]))
    ELSE data

\* Apply takes a text apart into these parts.
LEMMA ApplyTaken ==
    ASSUME NEW data, NEW text, NEW words, NEW first, NEW second, NEW equals, NEW split,
           words = Words(text), first = First(words), second = Second(words, first),
           equals = Equals(text, second), split = Split(equals)
    PROVE  Apply(data, text) = ApplyParts(data, text, words, first, second, equals, split)
<1>1. Apply(data, text) =
         ApplyParts(data, text, Words(text), First(Words(text)),
                    Second(Words(text), First(Words(text))),
                    Equals(text, Second(Words(text), First(Words(text)))),
                    Split(Equals(text, Second(Words(text), First(Words(text))))))
  BY DEF Apply, ApplyParts, First, Second, Equals, Split
<1> QED BY <1>1

\* The first key of an empty map.
LEMMA PutFirst ==
    ASSUME NEW key, NEW value
    PROVE  Put(<<>>, key, value) = [k \in {key} |-> value]
<1>1. DOMAIN <<>> \cup {key} = {key}
  OBVIOUS
<1> QED BY <1>1 DEF Put

\* The words of a command: "set", and all that follows.
LEMMA PlainWords ==
    ASSUME NEW text, NEW key, NEW value, NEW k \in Nat, NEW v \in Nat,
           Line(text, key, k, value, v), DOMAIN key = 1 .. k, DOMAIN value = 1 .. v,
           Plain(key, value)
    PROVE  /\ Words(text) = {<<1, 1>>, <<3, 3 + k + v>>}
           /\ \A p \in 3 .. 2 + k : text[p] # "="
<1>0. PICK sp : sp = " "
  OBVIOUS
<1>1. PICK n : n = 3 + k + v
  OBVIOUS
<1>2. n \in Nat /\ n >= 3 /\ Len(text) = n
  <2>1. n \in Nat /\ n >= 3
    BY <1>1
  <2>2. Len(text) = n
    BY <1>1 DEF Line
  <2> QED BY <2>1, <2>2
<1>3. text[1] # sp /\ text[2] = sp
  BY <1>0 DEF Line
<1>4. ASSUME NEW p \in 3 .. n
      PROVE  text[p] # sp /\ (p <= 2 + k => text[p] # "=")
  <2>1. CASE p <= 2 + k
    <3>1. PICK q : q = p - 2
      OBVIOUS
    <3>2. q \in 1 .. k /\ p = 2 + q
      BY <1>2, <2>1, <3>1
    <3>3. text[p] = key[q]
      BY <3>2 DEF Line
    <3>4. key[q] # " " /\ key[q] # "="
      BY <3>2 DEF Plain
    <3> QED BY <1>0, <3>3, <3>4
  <2>2. CASE p = 3 + k
    <3>1. ~(p <= 2 + k)
      BY <2>2
    <3>2. text[p] = "="
      BY <2>2 DEF Line
    <3>3. "=" # " "
      OBVIOUS
    <3> QED BY <1>0, <3>1, <3>2, <3>3
  <2>3. CASE p > 3 + k
    <3>1. PICK q : q = p - (3 + k)
      OBVIOUS
    <3>2. q \in 1 .. v /\ p = 3 + k + q /\ ~(p <= 2 + k)
      BY <1>1, <1>2, <2>3, <3>1
    <3>3. text[p] = value[q]
      BY <3>2 DEF Line
    <3>4. value[q] # " "
      BY <3>2 DEF Plain
    <3> QED BY <1>0, <3>2, <3>3, <3>4
  <2> QED BY <2>1, <2>2, <2>3
<1>5. PICK words : words = Words(text)
  OBVIOUS
<1>6. \A i, j : <<i, j>> \in words <=>
         /\ i \in 1 .. n /\ j \in 1 .. n /\ i <= j
         /\ \A p \in i .. j : text[p] # sp
         /\ i = 1 \/ text[i - 1] = sp
         /\ j = n \/ text[j + 1] = sp
  BY <1>0, <1>2, <1>5 DEF Words
<1>7. <<1, 1>> \in words /\ <<3, n>> \in words
  <2>1. 1 \in 1 .. n /\ 3 \in 1 .. n /\ n \in 1 .. n /\ 3 <= n /\ 3 - 1 = 2 /\ 1 + 1 = 2
    BY <1>2
  <2>2. \A p \in 1 .. 1 : text[p] # sp
    BY <1>3
  <2>3. \A p \in 3 .. n : text[p] # sp
    BY <1>4
  <2> QED BY <1>3, <1>6, <2>1, <2>2, <2>3
<1>8. ASSUME NEW w \in words PROVE w = <<1, 1>> \/ w = <<3, n>>
  <2>1. PICK i, j : w = <<i, j>>
    <3>1. w \in (1 .. Len(text)) \X (1 .. Len(text))
      BY <1>5 DEF Words
    <3>2. w = <<w[1], w[2]>>
      BY <3>1
    <3> QED BY <3>2
  <2>2. /\ i \in 1 .. n /\ j \in 1 .. n /\ i <= j
        /\ \A p \in i .. j : text[p] # sp
        /\ i = 1 \/ text[i - 1] = sp
        /\ j = n \/ text[j + 1] = sp
    BY <1>6, <2>1
  <2>3. ~(i <= 2 /\ 2 <= j)
    BY <1>3, <2>2
  <2>4. CASE j < 2
    <3>1. i = 1 /\ j = 1
      BY <2>2, <2>4
    <3> QED BY <2>1, <3>1
  <2>5. CASE i > 2
    <3>1. i = 3
      <4>1. ASSUME i # 3 PROVE FALSE
        <5>1. i - 1 \in 3 .. n /\ i # 1
          BY <1>2, <2>2, <2>5, <4>1
        <5> QED BY <1>4, <2>2, <5>1
      <4> QED BY <4>1
    <3>2. j = n
      <4>1. ASSUME j # n PROVE FALSE
        <5>1. j + 1 \in 3 .. n
          BY <1>2, <2>2, <2>5, <4>1
        <5> QED BY <1>4, <2>2, <4>1, <5>1
      <4> QED BY <4>1
    <3> QED BY <2>1, <3>1, <3>2
  <2> QED BY <2>2, <2>3, <2>4, <2>5
<1>9. words = {<<1, 1>>, <<3, n>>}
  BY <1>7, <1>8
<1>10. ASSUME NEW p \in 3 .. 2 + k PROVE text[p] # "="
  <2>1. p \in 3 .. n /\ p <= 2 + k
    BY <1>1
  <2> QED BY <1>4, <2>1
<1> QED BY <1>1, <1>5, <1>9, <1>10

\* A command with a plain key and value sets that key to that value.
LEMMA PlainApplied ==
    ASSUME NEW S, NEW text \in Seq(S), NEW key \in Seq(S), NEW value \in Seq(S), NEW data,
           Line(text, key, Len(key), value, Len(value)), Plain(key, value)
    PROVE  Apply(data, text) = Put(data, key, value)
<1>1. PICK k \in Nat, v \in Nat : /\ k = Len(key) /\ v = Len(value)
                                  /\ DOMAIN key = 1 .. k /\ DOMAIN value = 1 .. v
  OBVIOUS
<1>2. PICK n \in Nat, m \in Nat : n = 3 + k + v /\ m = 3 + k
  OBVIOUS
<1>3. PICK words, first, second, equals, split :
         /\ words = Words(text) /\ first = First(words) /\ second = Second(words, first)
         /\ equals = Equals(text, second) /\ split = Split(equals)
  OBVIOUS
<1>4. Line(text, key, k, value, v)
  BY <1>1
<1>5. words = {<<1, 1>>, <<3, n>>} /\ \A p \in 3 .. 2 + k : text[p] # "="
  <2>1. DOMAIN key = 1 .. k /\ DOMAIN value = 1 .. v
    BY <1>1
  <2>2. Words(text) = {<<1, 1>>, <<3, 3 + k + v>>} /\ \A p \in 3 .. 2 + k : text[p] # "="
    BY <1>4, <2>1, PlainWords
  <2> QED BY <1>2, <1>3, <2>2
<1>6. <<1, 1>> # <<3, n>> /\ <<1, 1>>[1] = 1 /\ <<1, 1>>[2] = 1 /\ <<3, n>>[1] = 3 /\ <<3, n>>[2] = n
  OBVIOUS
<1>7. first = <<1, 1>>
  <2>1. \A u \in words : 1 <= u[1]
    BY <1>5, <1>6
  <2>2. \E w \in words : \A u \in words : w[1] <= u[1]
    BY <1>5, <1>6, <2>1
  <2>3. first \in words /\ \A u \in words : first[1] <= u[1]
    BY <1>3, <2>2 DEF First
  <2>4. first[1] <= 1
    BY <1>5, <1>6, <2>3
  <2> QED BY <1>5, <1>6, <2>3, <2>4
<1>8. second = <<3, n>>
  BY <1>3, <1>5, <1>6, <1>7 DEF Second
<1>9. Cardinality(words) = 2
  BY <1>5, <1>6, TwoElements
<1>10. Len(text) = n /\ text[1] = "set" /\ text[m] = "="
  BY <1>2, <1>4 DEF Line
<1>11. SubSeq(text, first[1], first[2]) = <<"set">>
  <2>1. SubSeq(text, 1, 1) = <<text[1]>>
    <3>1. 1 \in DOMAIN text /\ 1 <= Len(text)
      BY <1>2, <1>10
    <3>2. PICK x \in S : x = text[1]
      BY <3>1
    <3>3. PICK piece : piece = <<x>>
      OBVIOUS
    <3>4. piece \in Seq(S) /\ Len(piece) = 1 /\ piece[1] = x
      BY <3>3
    <3>5. 1 = 0 + Len(piece) /\ \A p \in 1 .. Len(piece) : text[0 + p] = piece[p]
      BY <3>2, <3>4
    <3>6. SubSeq(text, 0 + 1, 1) = piece
      BY <3>1, <3>4, <3>5, Piece
    <3> QED BY <3>2, <3>3, <3>6
  <2> QED BY <1>6, <1>7, <1>10, <2>1
<1>12. equals = {p \in 3 .. n : text[p] = "="}
  BY <1>3, <1>6, <1>8 DEF Equals
<1>13. m \in equals /\ \A q \in equals : m <= q
  BY <1>2, <1>5, <1>10, <1>12
<1>14. split = m
  <2>1. split \in equals /\ \A q \in equals : split <= q
    BY <1>3, <1>13 DEF Split
  <2>2. split <= m /\ m <= split /\ split \in Nat
    BY <1>12, <1>13, <2>1
  <2> QED BY <2>2
<1>15. SubSeq(text, 3, m - 1) = key
  <2>1. \A p \in 1 .. k : text[2 + p] = key[p]
    BY <1>4 DEF Line
  <2>2. m - 1 = 2 + Len(key) /\ m - 1 <= Len(text) /\ 3 = 2 + 1
    BY <1>1, <1>2, <1>10
  <2>3. \A p \in 1 .. Len(key) : text[2 + p] = key[p]
    BY <1>1, <2>1
  <2>4. SubSeq(text, 2 + 1, m - 1) = key
    BY <2>2, <2>3, Piece
  <2> QED BY <2>2, <2>4
<1>16. SubSeq(text, m + 1, n) = value
  <2>1. \A p \in 1 .. Len(value) : text[m + p] = value[p]
    BY <1>1, <1>2, <1>4 DEF Line
  <2>2. n = m + Len(value) /\ n <= Len(text)
    BY <1>1, <1>2, <1>10
  <2> QED BY <2>1, <2>2, Piece
<1>17. Apply(data, text) = ApplyParts(data, text, words, first, second, equals, split)
  BY <1>3, ApplyTaken
<1>18. equals # {}
  BY <1>13
<1>19. ApplyParts(data, text, words, first, second, equals, split)
          = Put(data, SubSeq(text, second[1], split - 1), SubSeq(text, split + 1, second[2]))
  BY <1>9, <1>11, <1>18 DEF ApplyParts
<1>20. SubSeq(text, second[1], split - 1) = key /\ SubSeq(text, split + 1, second[2]) = value
  BY <1>6, <1>8, <1>14, <1>15, <1>16
<1> QED BY <1>17, <1>19, <1>20

\* A text that sets something sets a plain key to a plain value.
LEMMA AppliedPlain ==
    ASSUME NEW S, NEW text \in Seq(S), NEW key, NEW value,
           Apply(<<>>, text) = [x \in {key} |-> value]
    PROVE  Plain(key, value)
<1>1. PICK words, first, second, equals, split :
         /\ words = Words(text) /\ first = First(words) /\ second = Second(words, first)
         /\ equals = Equals(text, second) /\ split = Split(equals)
  OBVIOUS
<1>2. Apply(<<>>, text) = ApplyParts(<<>>, text, words, first, second, equals, split)
  BY <1>1, ApplyTaken
<1>3. PICK K, V : /\ K = SubSeq(text, second[1], split - 1)
                  /\ V = SubSeq(text, split + 1, second[2])
  OBVIOUS
<1>4. Apply(<<>>, text) # <<>>
  <2>1. DOMAIN [x \in {key} |-> value] = {key}
    OBVIOUS
  <2>2. DOMAIN <<>> = {}
    OBVIOUS
  <2>3. {key} # {}
    OBVIOUS
  <2> QED BY <2>1, <2>2, <2>3
<1>5. /\ Cardinality(words) = 2 /\ equals # {}
      /\ Apply(<<>>, text) = Put(<<>>, K, V)
  BY <1>2, <1>3, <1>4 DEF ApplyParts
<1>6. K = key /\ V = value
  <2>1. [x \in {K} |-> V] = [x \in {key} |-> value]
    <3>1. Put(<<>>, K, V) = [x \in {K} |-> V]
      BY PutFirst
    <3> QED BY <1>5, <3>1
  <2>2. {K} = {key}
    BY <2>1
  <2>3. K = key
    BY <2>2
  <2>4. [x \in {key} |-> V][key] = V /\ [x \in {key} |-> value][key] = value
    OBVIOUS
  <2> QED BY <2>1, <2>3, <2>4
<1>7. second \in words
  <2>1. \E w \in words : w # first
    <3>1. ASSUME \A w \in words : w = first PROVE FALSE
      <4>1. words = {} \/ words = {first}
        BY <3>1
      <4>2. Cardinality({}) = 0 /\ Cardinality({first}) = 1
        BY FS_EmptySet, FS_Singleton
      <4>3. Cardinality(words) = 0 \/ Cardinality(words) = 1
        BY <4>1, <4>2, Zenon
      <4> QED BY <1>5, <4>3
    <3> QED BY <3>1
  <2> QED BY <1>1, <2>1 DEF Second
<1>8. PICK N \in Nat : N = Len(text)
  OBVIOUS
<1>9. PICK i \in 1 .. N, j \in 1 .. N : i = second[1] /\ j = second[2]
  <2>1. second \in (1 .. N) \X (1 .. N)
    BY <1>1, <1>7, <1>8, ZenonT(40) DEF Words
  <2> QED BY <2>1
<1>10. \A p \in i .. j : text[p] # " "
  BY <1>1, <1>7, <1>9, ZenonT(40) DEF Words
<1>11. equals = {p \in i .. j : text[p] = "="}
  BY <1>1, <1>9 DEF Equals
<1>12. split \in equals /\ \A q \in equals : split <= q
  <2>1. equals \subseteq Nat
    BY <1>11
  <2>2. \E p \in equals : \A q \in equals : p <= q
    BY <1>5, <2>1, LeastNatural
  <2> QED BY <1>1, <2>2 DEF Split
<1>13. PICK s \in i .. j : s = split
  BY <1>11, <1>12
<1>14. \A p \in i .. s - 1 : text[p] # " " /\ text[p] # "="
  <2>1. ASSUME NEW p \in i .. s - 1 PROVE p \in i .. j /\ ~(s <= p)
    OBVIOUS
  <2> QED BY <1>10, <1>11, <1>12, <1>13, <2>1
<1>15. \A p \in s + 1 .. j : text[p] # " "
  <2>1. ASSUME NEW p \in s + 1 .. j PROVE p \in i .. j
    OBVIOUS
  <2> QED BY <1>10, <2>1
<1>16. ASSUME NEW a \in Int, NEW b \in Int, a >= 1, b <= N, NEW q \in DOMAIN SubSeq(text, a, b)
       PROVE  \E p \in a .. b : SubSeq(text, a, b)[q] = text[p]
  <2>1. PICK sub : sub = SubSeq(text, a, b)
    OBVIOUS
  <2>2. \A p \in a .. b : text[p] \in S
    BY <1>8, <1>16
  <2>3. /\ sub \in Seq(S) /\ Len(sub) = (IF a <= b THEN b - a + 1 ELSE 0)
        /\ \A p \in 1 .. b - a + 1 : sub[p] = text[a + p - 1]
    BY <2>1, <2>2, SubSeqProperties
  <2>4. q \in 1 .. Len(sub)
    BY <1>16, <2>1, <2>3
  <2>5. q \in 1 .. b - a + 1 /\ a + q - 1 \in a .. b
    BY <2>3, <2>4
  <2> QED BY <2>1, <2>3, <2>5
<1>17. ASSUME NEW q \in DOMAIN key PROVE key[q] \notin {" ", "="}
  <2>1. PICK b : b = s - 1
    OBVIOUS
  <2>2. b \in Int /\ i \in Int /\ i >= 1 /\ b <= N
    BY <2>1
  <2>3. key = SubSeq(text, i, b)
    BY <1>3, <1>6, <1>9, <1>13, <2>1
  <2>4. PICK p \in i .. b : key[q] = text[p]
    BY <1>16, <1>17, <2>2, <2>3
  <2> QED BY <1>14, <2>1, <2>4
<1>18. ASSUME NEW q \in DOMAIN value PROVE value[q] # " "
  <2>1. PICK a : a = s + 1
    OBVIOUS
  <2>2. a \in Int /\ j \in Int /\ a >= 1 /\ j <= N
    BY <2>1
  <2>3. value = SubSeq(text, a, j)
    BY <1>3, <1>6, <1>9, <1>13, <2>1
  <2>4. PICK p \in a .. j : value[q] = text[p]
    BY <1>16, <1>18, <2>2, <2>3
  <2> QED BY <1>15, <2>1, <2>4
<1> QED BY <1>17, <1>18 DEF Plain

\* A key and a value come back from a command exactly if they are plain.
LEMMA SetReturns ==
    ASSUME NEW S, NEW key \in Seq(S), NEW value \in Seq(S)
    PROVE  (Apply(<<>>, FormatSet(key, value)) = [x \in {key} |-> value]) <=> Plain(key, value)
<1>1. PICK L : L = S \cup {"set", " ", "="}
  OBVIOUS
<1>2. Letters(L) /\ S \subseteq L
  BY <1>1 DEF Letters
<1>3. key \in Seq(L) /\ value \in Seq(L)
  BY <1>2
<1>4. PICK text : text = FormatSet(key, value)
  OBVIOUS
<1>5. text \in Seq(L) /\ Line(text, key, Len(key), value, Len(value))
  BY <1>2, <1>3, <1>4, LineFormatted
<1>6. ASSUME Plain(key, value) PROVE Apply(<<>>, text) = [x \in {key} |-> value]
  <2>1. Apply(<<>>, text) = Put(<<>>, key, value)
    BY <1>3, <1>5, <1>6, PlainApplied
  <2>2. Put(<<>>, key, value) = [x \in {key} |-> value]
    BY PutFirst
  <2> QED BY <2>1, <2>2
<1>7. ASSUME Apply(<<>>, text) = [x \in {key} |-> value] PROVE Plain(key, value)
  BY <1>5, <1>7, AppliedPlain
<1> QED BY <1>4, <1>6, <1>7

\* A pair that HandleSet has put into a command, and that reached the handler
\* of a follower, sets exactly that key to that value there if the key has
\* neither space nor "=" and the value no space, and otherwise never does: for
\* keys and values of every length, over every alphabet.
THEOREM SetIsAppliedAlways == Spec => []SetIsApplied
<1>1. ASSUME NEW t \in Text PROVE t \in Seq(Character)
  <2>1. PICK n \in 0 .. MaxText : t \in [1 .. n -> Character]
    BY <1>1 DEF Text
  <2>2. n \in Nat
    BY <2>1, TextAssumption
  <2> QED BY <2>1, <2>2, IsASeq
<1>2. ASSUME WireInv, NEW c \in Conn, NEW h \in Range(handled[c])
      PROVE  h.request = asked[c]
  <2>1. handled[c] # <<>>
    BY <1>2 DEF Range
  <2>2. Answering(c)
    BY <1>2, <2>1 DEF WireInv, Call, Fresh, Unanswered
  <2>3. PICK reply : handled[c] = <<[request |-> asked[c], reply |-> reply]>>
    BY <2>2 DEF Answering
  <2>4. DOMAIN handled[c] = {1} /\ handled[c][1] = [request |-> asked[c], reply |-> reply]
    BY <2>3
  <2>5. h = [request |-> asked[c], reply |-> reply]
    BY <1>2, <2>4 DEF Range
  <2> QED BY <2>5
<1>3. WireInv => SetIsApplied
  <2> SUFFICES ASSUME WireInv, NEW c \in Conn, NEW h \in Range(handled[c]),
                      NEW p \in DOMAIN asked[c].args.Entries, NEW key \in Text, NEW value \in Text,
                      asked[c].args.Entries[p].Data = FormatSet(key, value)
               PROVE  (Apply(<<>>, h.request.args.Entries[p].Data) = [k \in {key} |-> value])
                          <=> Plain(key, value)
    BY Zenon DEF SetIsApplied
  <2>1. key \in Seq(Character) /\ value \in Seq(Character)
    BY <1>1
  <2>2. (Apply(<<>>, FormatSet(key, value)) = [k \in {key} |-> value]) <=> Plain(key, value)
    BY <2>1, SetReturns
  <2>3. h.request = asked[c]
    BY <1>2
  <2>4. h.request.args.Entries[p].Data = FormatSet(key, value)
    BY <2>3
  <2> QED BY <2>2, <2>4
<1> QED BY <1>3, WireInvAlways, PTL
=============================================================================
