--------------------------- MODULE NodeDataProofs ---------------------------
(*****************************************************************************)
(* The operators of NodeData that the actions use: what they return, and    *)
(* that they keep a node well formed.                                        *)
(*****************************************************************************)
EXTENDS NodeData, TLAPS, WellFoundedInduction, SequenceTheorems

\* A nonempty set of naturals has a least element: the form of induction the
\* proofs below use.
LEMMA LeastNatural ==
    ASSUME NEW T, T \subseteq Nat, T # {}
    PROVE  \E x \in T : \A y \in T : x <= y
<1> DEFINE R == OpToRel(<, Nat)
<1>1. IsWellFoundedOn(R, Nat)
  BY NatLessThanWellFounded, Zenon
<1>2. \A x, y \in Nat : y < x => <<y, x>> \in R
  BY DEF OpToRel
<1> HIDE DEF R
<1>3. \E x \in T : \A y \in T : ~ (<<y, x>> \in R)
  BY <1>1, WFMin
<1>4. PICK x \in T : \A y \in T : ~ (<<y, x>> \in R)
  BY <1>3
<1>5. \A y \in T : ~ (y < x)
  BY <1>2, <1>4
<1>6. \A y \in T : x <= y
  BY <1>5
<1> QED BY <1>4, <1>6

\* The first k elements of a sequence.
LEMMA Prefix ==
    ASSUME NEW S, NEW s \in Seq(S), NEW k \in 0 .. Len(s)
    PROVE  /\ SubSeq(s, 1, k) \in Seq(S)
           /\ Len(SubSeq(s, 1, k)) = k
           /\ \A p \in 1 .. k : SubSeq(s, 1, k)[p] = s[p]
<1>1. k \in Int /\ k >= 0 /\ \A p \in 1 .. k : s[p] \in S
  OBVIOUS
<1>2. /\ SubSeq(s, 1, k) \in Seq(S)
      /\ Len(SubSeq(s, 1, k)) = IF 1 <= k THEN k - 1 + 1 ELSE 0
      /\ \A p \in 1 .. k - 1 + 1 : SubSeq(s, 1, k)[p] = s[1 + p - 1]
  BY <1>1, SubSeqProperties
<1> QED BY <1>1, <1>2

\* What is left of a sequence after its first k elements.
LEMMA Suffix ==
    ASSUME NEW S, NEW s \in Seq(S), NEW k \in 0 .. Len(s)
    PROVE  /\ SubSeq(s, k + 1, Len(s)) \in Seq(S)
           /\ Len(SubSeq(s, k + 1, Len(s))) = Len(s) - k
           /\ \A p \in 1 .. Len(s) - k : SubSeq(s, k + 1, Len(s))[p] = s[k + p]
<1>1. /\ k \in Nat /\ k + 1 \in Int /\ Len(s) \in Int /\ k <= Len(s)
      /\ \A p \in k + 1 .. Len(s) : s[p] \in S
  OBVIOUS
<1> DEFINE m == k + 1
           t == SubSeq(s, m, Len(s))
<1>2. /\ t \in Seq(S)
      /\ Len(t) = IF m <= Len(s) THEN Len(s) - m + 1 ELSE 0
      /\ \A p \in 1 .. Len(s) - m + 1 : t[p] = s[m + p - 1]
  <2> HIDE DEF m
  <2>1. m \in Int /\ Len(s) \in Int /\ \A p \in m .. Len(s) : s[p] \in S
    BY <1>1 DEF m
  <2> QED BY <2>1, SubSeqProperties
<1> HIDE DEF t
<1>3. \A p \in 1 .. Len(s) - k : p \in 1 .. Len(s) - m + 1 /\ m + p - 1 = k + p
  BY <1>1
<1>4. Len(t) = Len(s) - k
  BY <1>1, <1>2
<1>5. \A p \in 1 .. Len(s) - k : t[p] = s[k + p]
  BY <1>2, <1>3
<1> QED BY <1>2, <1>4, <1>5 DEF t

\* Induction over a sequence that grows at its end, with a set of sequences
\* in place of a predicate.
LEMMA SeqGrows ==
    ASSUME NEW S, NEW G, <<>> \in G,
           \A u \in Seq(S) : \A e \in S : u \in G => Append(u, e) \in G
    PROVE  Seq(S) \subseteq G
<1> DEFINE T == {n \in Nat : \E w \in Seq(S) : Len(w) = n /\ w \notin G}
<1> SUFFICES ASSUME NEW v \in Seq(S), v \notin G PROVE FALSE
  OBVIOUS
<1>1. T \subseteq Nat /\ Len(v) \in T
  OBVIOUS
<1>2. PICK n \in T : \A m \in T : n <= m
  BY <1>1, LeastNatural
<1>3. PICK w \in Seq(S) : Len(w) = n /\ w \notin G
  OBVIOUS
<1>4. w # <<>>
  BY <1>3
<1>5. PICK u \in Seq(S), e \in S : w = Append(u, e)
  BY <1>4, SequenceEmptyOrAppend
<1>6. Len(u) \in Nat /\ Len(u) + 1 = n
  BY <1>3, <1>5
<1>7. Len(u) \notin T
  BY <1>2, <1>6
<1>8. u \in G
  BY <1>6, <1>7
<1> QED BY <1>3, <1>5, <1>8

\* Above goes through the file record by record.
LEMMA AboveRecursion ==
    ASSUME NEW w \in Seq(Entry), NEW k \in Nat
    PROVE  \E keep :
              /\ Above(w, k) = keep[Len(w)]
              /\ keep[0] = <<>>
              /\ \A p \in 1 .. Len(w) :
                    keep[p] = IF w[p].Index > k THEN Append(keep[p - 1], w[p]) ELSE keep[p - 1]
<1> DEFINE Step(g, p) == IF p = 0 THEN <<>>
                         ELSE IF w[p].Index > k THEN Append(g[p - 1], w[p])
                         ELSE g[p - 1]
           Has(m) == \E f : f = [p \in 0 .. m |-> Step(f, p)]
           keep == CHOOSE f : f = [p \in 0 .. Len(w) |-> Step(f, p)]
<1>1. keep = [p \in 0 .. Len(w) |-> Step(keep, p)]
  <2> DEFINE Missing == {m \in Nat : ~Has(m)}
  <2>1. Has(0)
    <3> DEFINE f == [p \in 0 .. 0 |-> <<>>]
    <3>1. f = [p \in 0 .. 0 |-> Step(f, p)]
      OBVIOUS
    <3> QED BY <3>1
  <2>2. ASSUME NEW m \in Nat, Has(m) PROVE Has(m + 1)
    <3>1. PICK f : f = [p \in 0 .. m |-> Step(f, p)]
      BY <2>2
    <3> DEFINE g == [p \in 0 .. m + 1 |-> IF p \in 0 .. m THEN f[p] ELSE Step(f, p)]
    <3>2. \A p \in 0 .. m + 1 : g[p] = Step(g, p)
      <4> SUFFICES ASSUME NEW p \in 0 .. m + 1 PROVE g[p] = Step(g, p)
        OBVIOUS
      <4>1. Step(f, p) = Step(g, p)
        <5>1. CASE p = 0 BY <5>1
        <5>2. CASE p # 0
          <6>1. p - 1 \in 0 .. m BY <5>2
          <6>2. g[p - 1] = f[p - 1] BY <6>1
          <6> QED BY <6>2
        <5> QED BY <5>1, <5>2
      <4>2. CASE p \in 0 .. m
        <5>1. f[p] = Step(f, p) BY <3>1, <4>2
        <5>2. g[p] = f[p] BY <4>2
        <5> QED BY <5>1, <5>2, <4>1
      <4>3. CASE p \notin 0 .. m
        <5>1. g[p] = Step(f, p) BY <4>3
        <5> QED BY <5>1, <4>1
      <4> QED BY <4>2, <4>3
    <3>3. g = [p \in 0 .. m + 1 |-> g[p]] OBVIOUS
    <3> HIDE DEF g
    <3>4. g = [p \in 0 .. m + 1 |-> Step(g, p)]
       BY <3>2, <3>3
    <3> QED BY <3>4
  <2> HIDE DEF Has
  <2>3. Missing = {}
    <3> SUFFICES ASSUME Missing # {} PROVE FALSE
      OBVIOUS
    <3>1. PICK x \in Missing : \A y \in Missing : x <= y
      BY LeastNatural
    <3>2. x # 0 BY <2>1
    <3>3. x - 1 \in Nat /\ x - 1 \notin Missing BY <3>1, <3>2
    <3>4. Has(x - 1) BY <3>3
    <3>5. Has((x - 1) + 1) BY <2>2, <3>3, <3>4
    <3> QED BY <3>5
  <2>4. Has(Len(w))
    BY <2>3
  <2> QED BY <2>4, Zenon DEF Has
<1>2. Above(w, k) = keep[Len(w)]
  BY DEF Above
<1> HIDE DEF keep
<1>3. \A p \in 0 .. Len(w) : keep[p] = Step(keep, p)
  BY <1>1
<1>4. /\ keep[0] = <<>>
      /\ \A p \in 1 .. Len(w) :
            keep[p] = IF w[p].Index > k THEN Append(keep[p - 1], w[p]) ELSE keep[p - 1]
  BY <1>3
<1> QED BY <1>2, <1>4

\* Above of an empty file, and of a file that has grown by one record.
LEMMA AboveStep ==
    ASSUME NEW k \in Nat
    PROVE  /\ Above(<<>>, k) = <<>>
           /\ \A w \in Seq(Entry) : \A e \in Entry :
                 Above(Append(w, e), k) = IF e.Index > k THEN Append(Above(w, k), e)
                                          ELSE Above(w, k)
<1>1. Above(<<>>, k) = <<>>
  <2>1. <<>> \in Seq(Entry) /\ Len(<<>>) = 0
    OBVIOUS
  <2> QED BY <2>1, AboveRecursion
<1>2. ASSUME NEW w \in Seq(Entry), NEW e \in Entry
      PROVE  Above(Append(w, e), k) = IF e.Index > k THEN Append(Above(w, k), e)
                                      ELSE Above(w, k)
  <2> DEFINE u == Append(w, e)
  <2>1. /\ u \in Seq(Entry) /\ Len(u) = Len(w) + 1 /\ u[Len(w) + 1] = e
        /\ \A p \in 1 .. Len(w) : u[p] = w[p]
        /\ Len(w) \in Nat
    OBVIOUS
  <2> HIDE DEF u
  <2>2. PICK f : /\ Above(w, k) = f[Len(w)]
                 /\ f[0] = <<>>
                 /\ \A p \in 1 .. Len(w) :
                       f[p] = IF w[p].Index > k THEN Append(f[p - 1], w[p]) ELSE f[p - 1]
    BY AboveRecursion
  <2>3. PICK g : /\ Above(u, k) = g[Len(u)]
                 /\ g[0] = <<>>
                 /\ \A p \in 1 .. Len(u) :
                       g[p] = IF u[p].Index > k THEN Append(g[p - 1], u[p]) ELSE g[p - 1]
    BY <2>1, AboveRecursion
  <2> DEFINE T == {p \in 0 .. Len(w) : f[p] # g[p]}
  <2>4. T = {}
    <3> SUFFICES ASSUME T # {} PROVE FALSE
      OBVIOUS
    <3>1. T \subseteq Nat
      OBVIOUS
    <3>2. PICK x \in T : \A y \in T : x <= y
      BY <3>1, LeastNatural
    <3>3. x # 0
      BY <2>2, <2>3
    <3>4. x - 1 \in 0 .. Len(w) /\ x - 1 \notin T /\ x \in 1 .. Len(w) /\ x \in 1 .. Len(u)
      BY <2>1, <3>2, <3>3
    <3>5. f[x - 1] = g[x - 1] /\ u[x] = w[x]
      BY <2>1, <3>4
    <3>6. f[x] = g[x]
      BY <2>2, <2>3, <3>4, <3>5
    <3> QED BY <3>6
  <2>5. f[Len(w)] = g[Len(w)]
    BY <2>1, <2>4
  <2>6. g[Len(w) + 1] = IF e.Index > k THEN Append(g[Len(w)], e) ELSE g[Len(w)]
    <3>1. Len(w) + 1 \in 1 .. Len(u) /\ (Len(w) + 1) - 1 = Len(w)
      BY <2>1
    <3> QED BY <2>1, <2>3, <3>1
  <2> QED BY <2>1, <2>2, <2>3, <2>5, <2>6 DEF u
<1> QED BY <1>1, <1>2

\* Above, the filter behind CompactWAL and recovery, returns entries, all of
\* them above the cut.
LEMMA AboveType ==
    ASSUME NEW w \in Seq(Entry), NEW k \in Nat
    PROVE  Above(w, k) \in Seq({e \in Entry : e.Index > k})
<1> DEFINE S == {e \in Entry : e.Index > k}
           G == {v \in Seq(Entry) : Above(v, k) \in Seq(S)}
<1>0. \A e \in Entry : e.Index > k => e \in S
  OBVIOUS
<1> HIDE DEF S
<1>1. <<>> \in G
  <2>1. Above(<<>>, k) = <<>> /\ <<>> \in Seq(S) /\ <<>> \in Seq(Entry)
    BY AboveStep
  <2> QED BY <2>1
<1>2. ASSUME NEW v \in Seq(Entry), NEW e \in Entry, v \in G PROVE Append(v, e) \in G
  <2>1. Above(v, k) \in Seq(S) /\ Append(v, e) \in Seq(Entry)
    BY <1>2
  <2>2. CASE e.Index > k
    <3>1. Above(Append(v, e), k) = Append(Above(v, k), e) /\ e \in S
      BY <1>0, <2>2, AboveStep
    <3>2. Append(Above(v, k), e) \in Seq(S)
      BY <2>1, <3>1, AppendProperties
    <3> QED BY <2>1, <3>1, <3>2
  <2>3. CASE ~(e.Index > k)
    <3>1. Above(Append(v, e), k) = Above(v, k)
      BY <2>3, AboveStep
    <3> QED BY <2>1, <3>1
  <2> QED BY <2>2, <2>3
<1>3. Seq(Entry) \subseteq G
  <2> HIDE DEF G
  <2> QED BY <1>1, <1>2, SeqGrows
<1> QED BY <1>3 DEF S

\* Growing the second of two files that are read one after the other.
LEMMA ConcatAppend ==
    ASSUME NEW S, NEW u \in Seq(S), NEW v \in Seq(S), NEW e \in S
    PROVE  /\ u \o Append(v, e) = Append(u \o v, e)
           /\ Append(u, e) \o v = u \o (<<e>> \o v)
<1>1. <<e>> \in Seq(S) /\ Append(v, e) = v \o <<e>> /\ Append(u, e) = u \o <<e>>
  BY AppendIsConcat
<1>2. u \o v \in Seq(S)
  BY ConcatProperties
<1>3. Append(u \o v, e) = (u \o v) \o <<e>>
  BY <1>2, AppendIsConcat
<1>4. (u \o v) \o <<e>> = u \o (v \o <<e>>) /\ (u \o <<e>>) \o v = u \o (<<e>> \o v)
  BY <1>1, ConcatAssociative
<1> QED BY <1>1, <1>3, <1>4, Zenon

\* Copying the head of v to the end of u.
LEMMA MoveHead ==
    ASSUME NEW S, NEW u \in Seq(S), NEW v \in Seq(S), v # <<>>
    PROVE  /\ Append(u, Head(v)) \in Seq(S) /\ Tail(v) \in Seq(S)
           /\ Append(u, Head(v)) \o Tail(v) = u \o v
<1>1. Head(v) \in S /\ Tail(v) \in Seq(S)
  BY HeadTailProperties
<1>2. Len(v) \in Nat \ {0} /\ 1 \in 1 .. Len(v) /\ Len(v) \in 1 .. Len(v)
  BY EmptySeq
<1>3. <<Head(v)>> \o Tail(v) = v
  <2>1. /\ Len(Tail(v)) = Len(v) - 1 /\ Head(v) = v[1]
        /\ \A p \in 1 .. Len(Tail(v)) : Tail(v)[p] = v[p + 1]
    BY HeadTailProperties
  <2> DEFINE h == Head(v)
             t == Tail(v)
             c == <<h>> \o t
  <2>2. h \in S /\ t \in Seq(S) /\ <<h>> \in Seq(S) /\ Len(<<h>>) = 1 /\ <<h>>[1] = h
    BY <1>1
  <2> HIDE DEF h, t
  <2>3. /\ c \in Seq(S) /\ Len(c) = 1 + Len(t)
        /\ \A p \in 1 .. 1 + Len(t) : c[p] = IF p <= 1 THEN <<h>>[p] ELSE t[p - 1]
    BY <2>2, ConcatProperties
  <2> HIDE DEF c
  <2>4. Len(c) = Len(v)
    BY <1>2, <2>1, <2>3 DEF t
  <2>5. \A p \in 1 .. Len(c) : c[p] = v[p]
    <3> TAKE p \in 1 .. Len(c)
    <3>1. CASE p = 1
      BY <2>1, <2>2, <2>3, <3>1 DEF h
    <3>2. CASE p # 1
      <4>1. p - 1 \in 1 .. Len(t) /\ (p - 1) + 1 = p /\ ~(p <= 1) /\ p \in 1 .. 1 + Len(t)
        BY <2>3, <3>2, <2>2
      <4>2. t[p - 1] = v[(p - 1) + 1]
        BY <2>1, <4>1 DEF t
      <4> QED BY <2>3, <4>1, <4>2
    <3> QED BY <3>1, <3>2
  <2>6. c = v
    BY <2>3, <2>4, <2>5, SeqEqual
  <2> QED BY <2>6 DEF c, h, t
<1>4. Append(u, Head(v)) \o Tail(v) = u \o (<<Head(v)>> \o Tail(v))
  BY <1>1, ConcatAppend
<1> QED BY <1>1, <1>3, <1>4, AppendProperties

\* Reading two files one after the other.
LEMMA AboveConcat ==
    ASSUME NEW u \in Seq(Entry), NEW v \in Seq(Entry), NEW k \in Nat
    PROVE  Above(u \o v, k) = Above(u, k) \o Above(v, k)
<1> DEFINE G == {w \in Seq(Entry) : Above(u \o w, k) = Above(u, k) \o Above(w, k)}
<1>0. \A w \in Seq(Entry) : Above(w, k) \in Seq(Entry)
  <2> TAKE w \in Seq(Entry)
  <2>1. Above(w, k) \in Seq({e \in Entry : e.Index > k})
    BY AboveType
  <2> QED BY <2>1, SeqMonotonic
<1>1. <<>> \in G
  <2>1. u \o <<>> = u /\ Above(u, k) \o <<>> = Above(u, k)
    BY <1>0, ConcatEmptySeq
  <2>2. Above(<<>>, k) = <<>> /\ <<>> \in Seq(Entry)
    BY AboveStep
  <2>3. Above(u \o <<>>, k) = Above(u, k) \o Above(<<>>, k)
    BY <2>1, <2>2, Zenon
  <2> QED BY <2>2, <2>3
<1>2. ASSUME NEW w \in Seq(Entry), NEW e \in Entry, w \in G PROVE Append(w, e) \in G
  <2>1. Append(w, e) \in Seq(Entry) /\ u \o w \in Seq(Entry)
    BY AppendProperties, ConcatProperties
  <2>2. u \o Append(w, e) = Append(u \o w, e)
    BY ConcatAppend
  <2>3. Above(u \o w, k) = Above(u, k) \o Above(w, k)
    BY <1>2
  <2>4. Above(u, k) \o Append(Above(w, k), e) = Append(Above(u, k) \o Above(w, k), e)
    <3> DEFINE a == Above(u, k)
               b == Above(w, k)
    <3>1. a \in Seq(Entry) /\ b \in Seq(Entry)
      BY <1>0
    <3> HIDE DEF a, b
    <3>2. a \o Append(b, e) = Append(a \o b, e)
      BY <3>1, ConcatAppend
    <3> QED BY <3>2 DEF a, b
  <2>5. Above(u \o Append(w, e), k) = Above(u, k) \o Above(Append(w, e), k)
    <3>1. CASE e.Index > k
      <4>1. Above(Append(u \o w, e), k) = Append(Above(u \o w, k), e)
        BY <2>1, <3>1, AboveStep
      <4>2. Above(Append(w, e), k) = Append(Above(w, k), e)
        BY <3>1, AboveStep
      <4> QED BY <2>2, <2>3, <2>4, <4>1, <4>2, Zenon
    <3>2. CASE ~(e.Index > k)
      <4>1. Above(Append(u \o w, e), k) = Above(u \o w, k)
        BY <2>1, <3>2, AboveStep
      <4>2. Above(Append(w, e), k) = Above(w, k)
        BY <3>2, AboveStep
      <4> QED BY <2>2, <2>3, <4>1, <4>2, Zenon
    <3> QED BY <3>1, <3>2
  <2> QED BY <2>1, <2>5
<1>3. Seq(Entry) \subseteq G
  <2> HIDE DEF G
  <2> QED BY <1>1, <1>2, SeqGrows
<1> QED BY <1>3

\* Nothing is lost from a file whose records are all above the cut.
LEMMA AboveAll ==
    ASSUME NEW k \in Nat, NEW w \in Seq({e \in Entry : e.Index > k})
    PROVE  Above(w, k) = w
<1> DEFINE S == {e \in Entry : e.Index > k}
           G == {v \in Seq(S) : Above(v, k) = v}
<1>1. <<>> \in G
  BY AboveStep
<1>2. ASSUME NEW v \in Seq(S), NEW e \in S, v \in G PROVE Append(v, e) \in G
  <2>1. v \in Seq(Entry) /\ e \in Entry /\ e.Index > k
    BY SeqMonotonic
  <2>2. Above(Append(v, e), k) = Append(Above(v, k), e)
    BY <2>1, AboveStep
  <2> QED BY <1>2, <2>2
<1>3. Seq(S) \subseteq G
  <2> HIDE DEF G
  <2> QED BY <1>1, <1>2, SeqGrows
<1> QED BY <1>3

\* Nothing is left of a file whose records are all below the cut.
LEMMA AboveNone ==
    ASSUME NEW k \in Nat, NEW w \in Seq({e \in Entry : ~(e.Index > k)})
    PROVE  Above(w, k) = <<>>
<1> DEFINE S == {e \in Entry : ~(e.Index > k)}
           G == {v \in Seq(S) : Above(v, k) = <<>>}
<1>1. <<>> \in G
  BY AboveStep
<1>2. ASSUME NEW v \in Seq(S), NEW e \in S, v \in G PROVE Append(v, e) \in G
  <2>1. v \in Seq(Entry) /\ e \in Entry /\ ~(e.Index > k)
    BY SeqMonotonic
  <2>2. Above(Append(v, e), k) = Above(v, k)
    BY <2>1, AboveStep
  <2> QED BY <1>2, <2>2
<1>3. Seq(S) \subseteq G
  <2> HIDE DEF G
  <2> QED BY <1>1, <1>2, SeqGrows
<1> QED BY <1>3

\* A nonempty set of positions has a greatest element.
LEMMA GreatestNatural ==
    ASSUME NEW n \in Nat, NEW T, T \subseteq 1 .. n, T # {}
    PROVE  \E x \in T : \A y \in T : y <= x
<1> DEFINE U == {n - y : y \in T}
<1>1. /\ \A y \in T : n - y \in Nat
      /\ T # {}
  OBVIOUS
<1>1a. U \subseteq Nat /\ U # {}
  BY <1>1, Zenon
<1>2. PICK u \in U : \A v \in U : u <= v
  BY <1>1a, LeastNatural, Zenon
<1>3. PICK x \in T : u = n - x
  OBVIOUS
<1>4. \A y \in T : n - y \in U
  OBVIOUS
<1>5. \A y \in T : y <= x
  BY <1>2, <1>3, <1>4
<1> QED BY <1>3, <1>5

\* Applying entries to a store gives a store.
LEMMA ApplyAllType ==
    ASSUME NEW data \in Store, NEW s \in Seq(Entry), NEW P, P \subseteq DOMAIN s
    PROVE  ApplyAll(data, s, P) \in Store
<1> DEFINE sets(key) == {p \in P : s[p].Data # NoOp /\ s[p].Data.key = key}
           last(key) == CHOOSE p \in sets(key) : \A q \in sets(key) : q <= p
<1>1. ASSUME NEW key \in Key, sets(key) # {}
      PROVE  s[last(key)].Data.value \in Value
  <2>0. Len(s) \in Nat /\ sets(key) \subseteq 1 .. Len(s)
    OBVIOUS
  <2>1. \E p \in sets(key) : \A q \in sets(key) : q <= p
    BY <1>1, <2>0, GreatestNatural, Zenon
  <2>2. last(key) \in sets(key)
    BY <2>1
  <2>3. s[last(key)] \in Entry /\ s[last(key)].Data # NoOp
    BY <2>2
  <2> QED BY <2>3 DEF Entry, Command
<1>2. ASSUME NEW key \in Key
      PROVE  (IF sets(key) = {} THEN data[key] ELSE s[last(key)].Data.value) \in Value \cup {Nil}
  BY <1>1 DEF Store
<1> QED BY <1>2 DEF ApplyAll, Store

\* wal.TruncateAfter, when it succeeds, cuts behind the first record of the
\* index, and leaves a sequence of entries.
LEMMA TruncateAfterType ==
    ASSUME NEW w \in Seq(Entry), NEW index, CanTruncateAfter(w, index)
    PROVE  /\ TruncateAfter(w, index) \in Seq(Entry)
           /\ \E last \in DOMAIN w : /\ FirstAt(w, index, last)
                                     /\ TruncateAfter(w, index) = SubSeq(w, 1, last)
<1> DEFINE T == {p \in DOMAIN w : w[p].Index = index}
<1>1. T \subseteq Nat /\ T # {}
  BY DEF CanTruncateAfter
<1>2. PICK p \in T : \A q \in T : p <= q
  BY <1>1, LeastNatural
<1>3. FirstAt(w, index, p)
  BY <1>2 DEF FirstAt
<1>4. \E q \in DOMAIN w : FirstAt(w, index, q)
  BY <1>3
<1> DEFINE last == CHOOSE q \in DOMAIN w : FirstAt(w, index, q)
<1>5. last \in DOMAIN w /\ FirstAt(w, index, last)
  BY <1>4
<1>6. TruncateAfter(w, index) = SubSeq(w, 1, last)
  BY DEF TruncateAfter
<1> HIDE DEF last
<1>7. last \in 1 .. Len(w)
  BY <1>5 DEF last
<1>8. last \in Int /\ \A q \in 1 .. last : w[q] \in Entry
  BY <1>7
<1>9. SubSeq(w, 1, last) \in Seq(Entry)
  BY <1>8, SubSeqProperties
<1> QED BY <1>5, <1>6, <1>9

-----------------------------------------------------------------------------
\* lastLogIndexAndTerm returns an index and a term.
LEMMA LastType ==
    ASSUME NEW n \in Node
    PROVE  LastIndex(n) \in Nat /\ LastTerm(n) \in Nat
<1>1. CASE n.log = <<>>
  BY <1>1 DEF LastIndex, LastTerm, Node
<1>2. CASE n.log # <<>>
  <2>1. n.log \in Seq(Entry) /\ n.log[Len(n.log)] \in Entry
    BY <1>2 DEF Node
  <2> QED BY <1>2, <2>1 DEF LastIndex, LastTerm, Entry
<1> QED BY <1>1, <1>2

\* entryAt, when it says ok, returns an entry at a position of r.log.
LEMMA EntryAtType ==
    ASSUME NEW n \in Node, NEW index, HasEntry(n, index)
    PROVE  /\ index \in Nat
           /\ toSlicePos(n, index) + 1 \in DOMAIN n.log
           /\ EntryAt(n, index) \in Entry
<1>1. n.log \in Seq(Entry) /\ n.logOffset \in Nat
  BY DEF Node
<1>2. index \in Nat /\ toSlicePos(n, index) + 1 \in 1 .. Len(n.log)
  BY <1>1 DEF HasEntry, toSlicePos
<1> QED BY <1>1, <1>2 DEF EntryAt

\* SnapshotMeetsLog, of one node.
Meets(n) ==
    /\ n.snapshot.index = n.logOffset
    /\ n.logOffset <= n.lastApplied
    /\ n.lastApplied = n.logOffset => n.data = n.snapshot.data

\* LogContiguous, of one node.
Contiguous(n) == \A p \in DOMAIN n.log : n.log[p].Index = n.logOffset + p

\* Applying committed entries keeps a node well formed.
LEMMA ApplyCommittedKeeps ==
    ASSUME NEW n \in Node
    PROVE  /\ ApplyCommitted(n) \in Node
           /\ Meets(n) => Meets(ApplyCommitted(n))
           /\ Contiguous(n) => Contiguous(ApplyCommitted(n))
<1> DEFINE P == {p \in DOMAIN n.log : n.logOffset + p \in n.lastApplied + 1 .. n.commitIndex}
           d == ApplyAll(n.data, n.log, P)
<1>1. d \in Store
  <2>1. n.data \in Store /\ n.log \in Seq(Entry) /\ P \subseteq DOMAIN n.log
    BY DEF Node
  <2> QED BY <2>1, ApplyAllType
<1>2. ApplyCommitted(n) = IF n.lastApplied < n.commitIndex
                          THEN [n EXCEPT !.lastApplied = n.commitIndex, !.data = d]
                          ELSE n
  BY DEF ApplyCommitted
<1> HIDE DEF d
<1>3. ApplyCommitted(n) \in Node
  BY <1>1, <1>2 DEF Node
<1>4. Meets(n) => Meets(ApplyCommitted(n))
  BY <1>1, <1>2 DEF Node, Meets
<1>5. Contiguous(n) => Contiguous(ApplyCommitted(n))
  BY <1>1, <1>2 DEF Node, Contiguous
<1> QED BY <1>3, <1>4, <1>5

\* compactLog at lastApplied moves logOffset there and keeps indices in place.
LEMMA compactLogKeeps ==
    ASSUME NEW n \in Node, HasEntry(n, n.lastApplied)
    PROVE  LET m == compactLog(n, n.lastApplied)
           IN  /\ m \in Node
               /\ m.logOffset = n.lastApplied
               /\ m.lastApplied = n.lastApplied
               /\ m.snapshot = n.snapshot
               /\ m.data = n.data
               /\ Contiguous(n) => Contiguous(m)
<1> DEFINE keepFrom == n.lastApplied - n.logOffset
           rest == SubSeq(n.log, keepFrom + 1, Len(n.log))
           m == compactLog(n, n.lastApplied)
<1>1. /\ n.log \in Seq(Entry) /\ Len(n.log) \in Nat
      /\ n.logOffset \in Nat /\ n.lastApplied \in Nat
      /\ keepFrom \in 1 .. Len(n.log)
  BY DEF Node, HasEntry
<1>2. toSlicePos(n, n.lastApplied) + 1 = keepFrom
  BY <1>1 DEF toSlicePos
<1>2a. /\ n.lastApplied > n.logOffset /\ n.lastApplied <= n.lastApplied
       /\ toSlicePos(n, n.lastApplied) + 1 \in 0 .. Len(n.log)
  BY <1>1, <1>2
<1>2b. n.lastApplied = n.logOffset + keepFrom
  BY <1>1
<1> HIDE DEF keepFrom
<1>3. m = [n EXCEPT !.log = rest, !.logOffset = n.lastApplied]
  BY <1>2, <1>2a DEF compactLog
<1>4. /\ rest \in Seq(Entry)
      /\ Len(rest) = Len(n.log) - keepFrom
      /\ \A p \in 1 .. Len(n.log) - keepFrom : rest[p] = n.log[keepFrom + p]
  <2>1. keepFrom \in 0 .. Len(n.log)
    BY <1>1
  <2> QED BY <1>1, <2>1, Suffix
<1> HIDE DEF m, rest
<1>5. m \in Node /\ m.logOffset = n.lastApplied
      /\ m.lastApplied = n.lastApplied /\ m.snapshot = n.snapshot /\ m.log = rest
      /\ m.data = n.data
  BY <1>1, <1>3, <1>4 DEF Node
<1>6. ASSUME Contiguous(n) PROVE Contiguous(m)
  <2> SUFFICES ASSUME NEW p \in DOMAIN m.log
               PROVE  m.log[p].Index = m.logOffset + p
    BY DEF Contiguous
  <2>1. p \in 1 .. Len(n.log) - keepFrom
    BY <1>4, <1>5
  <2>2. keepFrom + p \in DOMAIN n.log
    BY <2>1, <1>1, <1>4
  <2>3. n.log[keepFrom + p].Index = n.logOffset + (keepFrom + p)
    BY <2>2, <1>6 DEF Contiguous
  <2>4. m.log[p] = n.log[keepFrom + p]
    BY <2>1, <1>4, <1>5
  <2>5. m.logOffset + p = n.logOffset + (keepFrom + p)
    BY <2>1, <1>1, <1>2b, <1>5
  <2> QED BY <2>3, <2>4, <2>5
<1> QED BY <1>5, <1>6 DEF m

\* Taking a snapshot keeps a node well formed: the snapshot file, logOffset
\* and r.log move together.
LEMMA maybeSnapshotKeeps ==
    ASSUME NEW n \in Node
    PROVE  /\ maybeSnapshot(n) \in Node
           /\ Meets(n) => Meets(maybeSnapshot(n))
           /\ Contiguous(n) => Contiguous(maybeSnapshot(n))
<1>1. CASE ~(SnapshotDue(n) /\ HasEntry(n, n.lastApplied))
  BY <1>1 DEF maybeSnapshot
<1>2. CASE SnapshotDue(n) /\ HasEntry(n, n.lastApplied)
  <2> DEFINE s == [index |-> n.lastApplied,
                   term |-> EntryAt(n, n.lastApplied).Term, data |-> n.data]
             saved == [n EXCEPT !.snapshot = s]
             m == compactLog(saved, n.lastApplied)
             w == CompactWAL(n.wal, n.lastApplied)
  <2>1. s \in Snapshot
    <3>1. EntryAt(n, n.lastApplied) \in Entry
      BY <1>2, EntryAtType
    <3> QED BY <3>1 DEF Snapshot, Entry, Node
  <2>2. /\ saved \in Node /\ saved.lastApplied = n.lastApplied
        /\ saved.log = n.log /\ saved.logOffset = n.logOffset /\ saved.snapshot = s
        /\ saved.data = n.data
    BY <2>1 DEF Node
  <2>3. w \in Seq(Entry)
    <3>1. w \in Seq({e \in Entry : e.Index > n.lastApplied})
      BY AboveType DEF CompactWAL, Node
    <3> QED BY <3>1, SeqMonotonic
  <2>4. maybeSnapshot(n) = [m EXCEPT !.wal = w, !.lastSnapshotIndex = n.lastApplied]
    BY <1>2 DEF maybeSnapshot
  <2> HIDE DEF saved
  <2>5. HasEntry(saved, saved.lastApplied)
    BY <1>2, <2>2 DEF HasEntry
  <2>6. /\ m \in Node /\ m.logOffset = n.lastApplied /\ m.lastApplied = n.lastApplied
        /\ m.snapshot = s /\ m.data = n.data /\ (Contiguous(saved) => Contiguous(m))
    BY <2>2, <2>5, compactLogKeeps
  <2>7. Contiguous(n) => Contiguous(saved)
    BY <2>2 DEF Contiguous
  <2> HIDE DEF m, w, s
  <2>8. maybeSnapshot(n) \in Node
    BY <2>3, <2>4, <2>6 DEF Node
  <2>9. Meets(maybeSnapshot(n))
    <3>1. s.index = n.lastApplied /\ s.data = n.data
      BY DEF s
    <3>2. n.lastApplied \in Nat
      BY DEF Node
    <3> QED BY <3>1, <3>2, <2>4, <2>6 DEF Meets, Node
  <2>10. Contiguous(n) => Contiguous(maybeSnapshot(n))
    BY <2>4, <2>6, <2>7 DEF Contiguous, Node
  <2> QED BY <2>8, <2>9, <2>10
<1> QED BY <1>1, <1>2

\* The indices of entries are consecutive: what a leader sends.
Run(entries) ==
    \A p \in DOMAIN entries : entries[p].Index = entries[1].Index + p - 1

\* A proposed entry is an entry; on a contiguous log its index is the next.
LEMMA NewEntryType ==
    ASSUME NEW n \in Node, NEW term \in Nat, NEW command \in Command \cup {NoOp}
    PROVE  /\ NewEntry(n, term, command) \in Entry
           /\ <<NewEntry(n, term, command)>> \in Seq(Entry)
           /\ Contiguous(n) => NewEntry(n, term, command).Index = n.logOffset + Len(n.log) + 1
<1>1. LastIndex(n) \in Nat
  BY LastType
<1>2. NewEntry(n, term, command) \in Entry
  BY <1>1 DEF NewEntry, Entry
<1>3. n.log \in Seq(Entry) /\ n.logOffset \in Nat
  BY DEF Node
<1>4. ASSUME Contiguous(n) PROVE LastIndex(n) = n.logOffset + Len(n.log)
  <2>1. CASE n.log = <<>>
    BY <1>3, <2>1 DEF LastIndex
  <2>2. CASE n.log # <<>>
    <3>1. Len(n.log) \in DOMAIN n.log
      BY <1>3, <2>2
    <3> QED BY <3>1, <2>2, <1>4 DEF LastIndex, Contiguous
  <2> QED BY <2>1, <2>2
<1> QED BY <1>2, <1>4 DEF NewEntry

\* Appending entries that start where the log ends keeps it contiguous.
LEMMA AppendAllKeeps ==
    ASSUME NEW n \in Node, NEW entries \in Seq(Entry)
    PROVE  LET m == AppendAll(n, entries)
           IN  /\ m \in Node
               /\ Meets(n) => Meets(m)
               /\ (/\ Contiguous(n) /\ Run(entries)
                   /\ entries # <<>> => entries[1].Index = n.logOffset + Len(n.log) + 1)
                     => Contiguous(m)
<1> DEFINE m == AppendAll(n, entries)
           long == n.log \o entries
<1>1. n.log \in Seq(Entry) /\ n.wal \in Seq(Entry) /\ n.logOffset \in Nat
  BY DEF Node
<1>2. /\ long \in Seq(Entry) /\ n.wal \o entries \in Seq(Entry)
      /\ Len(long) = Len(n.log) + Len(entries)
      /\ \A p \in 1 .. Len(long) : long[p] = IF p <= Len(n.log) THEN n.log[p]
                                             ELSE entries[p - Len(n.log)]
  BY <1>1, ConcatProperties
<1>3. m = [n EXCEPT !.log = long, !.wal = n.wal \o entries]
  BY DEF AppendAll
<1> HIDE DEF m, long
<1>4. m \in Node /\ m.log = long /\ m.logOffset = n.logOffset
  BY <1>2, <1>3 DEF Node
<1>5. Meets(n) => Meets(m)
  BY <1>3 DEF Meets, Node
<1>6. ASSUME Contiguous(n), Run(entries),
             entries # <<>> => entries[1].Index = n.logOffset + Len(n.log) + 1
      PROVE  Contiguous(m)
  <2> SUFFICES ASSUME NEW p \in DOMAIN m.log
               PROVE  m.log[p].Index = m.logOffset + p
    BY DEF Contiguous
  <2>1. p \in 1 .. Len(long) /\ Len(n.log) \in Nat /\ Len(entries) \in Nat
    BY <1>1, <1>2, <1>4
  <2>2. CASE p <= Len(n.log)
    <3>1. p \in DOMAIN n.log /\ m.log[p] = n.log[p]
      BY <1>1, <1>2, <1>4, <2>1, <2>2
    <3> QED BY <3>1, <1>4, <1>6 DEF Contiguous
  <2>3. CASE ~(p <= Len(n.log))
    <3> DEFINE q == p - Len(n.log)
    <3>1. q \in 1 .. Len(entries)
      BY <1>2, <2>1, <2>3
    <3>2. q \in DOMAIN entries /\ entries # <<>> /\ m.log[p] = entries[q]
      BY <1>2, <1>4, <2>1, <2>3, <3>1
    <3>3. entries[q].Index = n.logOffset + Len(n.log) + 1 + q - 1
      <4> HIDE DEF q
      <4> QED BY <3>2, <1>6 DEF Run
    <3> QED BY <3>1, <3>2, <3>3, <1>1, <1>4, <2>1
  <2> QED BY <2>2, <2>3
<1> QED BY <1>4, <1>5, <1>6 DEF m

\* Truncating r.log at a conflict leaves a log that ends just before it.
LEMMA TruncateLogKeeps ==
    ASSUME NEW n \in Node, NEW index, HasEntry(n, index)
    PROVE  LET m == TruncateLog(n, index)
           IN  /\ m \in Node
               /\ m.logOffset + Len(m.log) + 1 = index
               /\ m.wal = n.wal
               /\ Meets(n) => Meets(m)
               /\ Contiguous(n) => Contiguous(m)
<1> DEFINE m == TruncateLog(n, index)
           k == toSlicePos(n, index)
           head == SubSeq(n.log, 1, k)
<1>1. n.log \in Seq(Entry) /\ n.logOffset \in Nat
  BY DEF Node
<1>2. k \in 0 .. Len(n.log) /\ index = n.logOffset + k + 1
  BY <1>1 DEF HasEntry, toSlicePos
<1>3. m = [n EXCEPT !.log = head]
  BY DEF TruncateLog
<1> HIDE DEF m, k
<1>4. /\ head \in Seq(Entry) /\ Len(head) = k
      /\ \A p \in 1 .. k : head[p] = n.log[p]
  BY <1>1, <1>2, Prefix
<1> HIDE DEF head
<1>5. m \in Node /\ m.log = head /\ m.logOffset = n.logOffset /\ m.wal = n.wal
  BY <1>3, <1>4 DEF Node
<1>6. Meets(n) => Meets(m)
  BY <1>3 DEF Meets, Node
<1>7. Contiguous(n) => Contiguous(m)
  <2>1. \A p \in DOMAIN head : p \in DOMAIN n.log /\ head[p] = n.log[p]
    BY <1>1, <1>2, <1>4
  <2> QED BY <1>5, <2>1 DEF Contiguous
<1> QED BY <1>2, <1>4, <1>5, <1>6, <1>7 DEF m

\* What HandleAppendEntries does to log and WAL keeps a node well formed, by
\* the gap check when nothing conflicts and by the truncation when something
\* does.
LEMMA StoreEntriesKeeps ==
    ASSUME NEW n \in Node, NEW entries \in Seq(Entry), NEW k \in 1 .. Len(entries) + 1,
           k \in DOMAIN entries =>
              IF Conflicts(n, entries, k) THEN CanTruncateAfter(n.wal, entries[k].Index - 1)
              ELSE LinesUp(n, entries, k)
    PROVE  LET m == StoreEntries(n, entries, k)
           IN  /\ m \in Node
               /\ Meets(n) => Meets(m)
               /\ Contiguous(n) /\ Run(entries) => Contiguous(m)
<1> DEFINE cut == IF Conflicts(n, entries, k)
                  THEN [TruncateLog(n, entries[k].Index) EXCEPT
                           !.wal = TruncateAfter(@, entries[k].Index - 1)]
                  ELSE n
           new == SubSeq(entries, k, Len(entries))
<1>1. /\ new \in Seq(Entry)
      /\ Len(new) = Len(entries) - k + 1
      /\ \A p \in 1 .. Len(entries) - k + 1 : new[p] = entries[k + p - 1]
  <2>1. k - 1 \in 0 .. Len(entries) /\ (k - 1) + 1 = k /\ Len(entries) \in Nat /\ k \in Nat
    OBVIOUS
  <2> DEFINE j == k - 1
             t == SubSeq(entries, j + 1, Len(entries))
  <2>2. /\ t \in Seq(Entry)
        /\ Len(t) = Len(entries) - j
        /\ \A p \in 1 .. Len(entries) - j : t[p] = entries[j + p]
    <3> HIDE DEF j
    <3> QED BY <2>1, Suffix DEF j
  <2>3. t = new
    BY <2>1
  <2> HIDE DEF t, new
  <2>4. \A p \in 1 .. Len(entries) - k + 1 : p \in 1 .. Len(entries) - j /\ j + p = k + p - 1
    BY <2>1
  <2>5. Len(entries) - k + 1 = Len(entries) - j
    BY <2>1
  <2> HIDE DEF j
  <2> QED BY <2>2, <2>3, <2>4, <2>5
<1>2. /\ cut \in Node
      /\ Meets(n) => Meets(cut)
      /\ Contiguous(n) => Contiguous(cut)
      /\ k \in DOMAIN entries => entries[k].Index = cut.logOffset + Len(cut.log) + 1
  <2>1. CASE Conflicts(n, entries, k)
    <3> DEFINE m == TruncateLog(n, entries[k].Index)
               w == TruncateAfter(n.wal, entries[k].Index - 1)
    <3>1. k \in DOMAIN entries /\ HasEntry(n, entries[k].Index)
      BY <2>1 DEF Conflicts
    <3>2. /\ m \in Node
          /\ m.logOffset + Len(m.log) + 1 = entries[k].Index
          /\ m.wal = n.wal
          /\ Meets(n) => Meets(m)
          /\ Contiguous(n) => Contiguous(m)
      BY <3>1, TruncateLogKeeps
    <3>3. w \in Seq(Entry)
      <4>1. n.wal \in Seq(Entry) /\ CanTruncateAfter(n.wal, entries[k].Index - 1)
        BY <2>1, <3>1 DEF Node
      <4> QED BY <4>1, TruncateAfterType
    <3>4. cut = [m EXCEPT !.wal = w]
      BY <2>1, <3>2
    <3> HIDE DEF m, w, cut
    <3>5. cut \in Node /\ cut.log = m.log /\ cut.logOffset = m.logOffset
          /\ cut.snapshot = m.snapshot /\ cut.lastApplied = m.lastApplied /\ cut.data = m.data
      BY <3>2, <3>3, <3>4 DEF Node
    <3> QED BY <3>2, <3>5 DEF Meets, Contiguous
  <2>2. CASE ~Conflicts(n, entries, k)
    BY <2>2 DEF LinesUp
  <2> QED BY <2>1, <2>2
<1>3. StoreEntries(n, entries, k) = AppendAll(cut, new)
  BY DEF StoreEntries
<1> HIDE DEF cut, new
<1>4. AppendAll(cut, new) \in Node /\ (Meets(cut) => Meets(AppendAll(cut, new)))
  BY <1>1, <1>2, AppendAllKeeps
<1>5. ASSUME Contiguous(n), Run(entries) PROVE Contiguous(AppendAll(cut, new))
  <2>0. k \in Nat /\ Len(entries) \in Nat /\ entries \in Seq(Entry)
    OBVIOUS
  <2>1. \A p \in DOMAIN new : /\ p \in Nat
                              /\ k + p - 1 \in DOMAIN entries /\ k \in DOMAIN entries
                              /\ new[p] = entries[k + p - 1]
    BY <1>1, <2>0
  <2>2. new # <<>> => 1 \in DOMAIN new
    BY <1>1
  <2>3. \A p \in DOMAIN entries : entries[p].Index \in Nat
    <3>1. \A p \in DOMAIN entries : entries[p] \in Entry
      BY <2>0
    <3>2. \A e \in Entry : e.Index \in Nat
      BY DEF Entry
    <3> QED BY <3>1, <3>2
  <2>4. Run(new)
    <3> SUFFICES ASSUME NEW p \in DOMAIN new PROVE new[p].Index = new[1].Index + p - 1
      BY DEF Run
    <3>1. new[p].Index = entries[1].Index + (k + p - 1) - 1
      BY <2>1, <1>5 DEF Run
    <3>2. new[1].Index = entries[1].Index + (k + 1 - 1) - 1
      <4>1. new # <<>>
        BY <1>1
      <4>2. 1 \in DOMAIN new
        BY <4>1, <2>2
      <4> QED BY <2>1, <4>2, <1>5 DEF Run
    <3>3. 1 \in DOMAIN entries
      BY <2>1
    <3>4. entries[1].Index \in Nat
      BY <2>3, <3>3
    <3>5. p \in Nat
      BY <2>1
    <3> HIDE DEF Run
    <3>6. \A a \in Nat : a + (k + p - 1) - 1 = a + (k + 1 - 1) - 1 + p - 1
      BY <3>5, <2>0
    <3> QED BY <3>1, <3>2, <3>4, <3>6, Zenon
  <2>5. new # <<>> => new[1].Index = cut.logOffset + Len(cut.log) + 1
    BY <1>2, <2>0, <2>1, <2>2
  <2> QED BY <1>1, <1>2, <1>5, <2>4, <2>5, AppendAllKeeps
<1> QED BY <1>2, <1>3, <1>4, <1>5

\* Following the leader's commit index keeps a node well formed.
LEMMA FollowCommitKeeps ==
    ASSUME NEW n \in Node, NEW LeaderCommit \in Nat
    PROVE  LET m == FollowCommit(n, LeaderCommit)
           IN  /\ m \in Node
               /\ Meets(n) => Meets(m)
               /\ Contiguous(n) => Contiguous(m)
<1> DEFINE to == IF LeaderCommit > n.commitIndex
                 THEN IF LeaderCommit < LastIndex(n) THEN LeaderCommit ELSE LastIndex(n)
                 ELSE n.commitIndex
           m == [n EXCEPT !.commitIndex = to]
<1>1. to \in Nat
  BY LastType DEF Node
<1>2. FollowCommit(n, LeaderCommit) = ApplyCommitted(m)
  BY DEF FollowCommit
<1> HIDE DEF to
<1>3. m \in Node /\ (Meets(n) => Meets(m)) /\ (Contiguous(n) => Contiguous(m))
  BY <1>1 DEF Node, Meets, Contiguous
<1> HIDE DEF m
<1> QED BY <1>2, <1>3, ApplyCommittedKeeps

\* Installing any snapshot leaves a node well formed.
LEMMA InstallSnapshotKeeps ==
    ASSUME NEW n \in Node, NEW s \in Snapshot
    PROVE  /\ InstallSnapshot(n, s) \in Node
           /\ Meets(InstallSnapshot(n, s))
           /\ Contiguous(InstallSnapshot(n, s))
<1>1. s.index \in Nat /\ s.data \in Store /\ <<>> \in Seq(Entry)
  BY DEF Snapshot
<1> DEFINE m == InstallSnapshot(n, s)
<1>2. m = [n EXCEPT !.snapshot = s, !.data = s.data, !.logOffset = s.index,
                    !.lastApplied = s.index, !.commitIndex = s.index, !.log = <<>>]
  BY DEF InstallSnapshot
<1> HIDE DEF m
<1>3. m \in Node
  BY <1>1, <1>2 DEF Node
<1>4. /\ m.snapshot = s /\ m.logOffset = s.index
      /\ m.lastApplied = s.index /\ m.log = <<>> /\ m.data = s.data
  BY <1>2 DEF Node
<1>5. Meets(m) /\ Contiguous(m)
  BY <1>1, <1>4 DEF Meets, Contiguous
<1> QED BY <1>3, <1>5 DEF m

\* What a dead process leaves behind is a node.
LEMMA OnDiskType ==
    ASSUME NEW n, n.wal \in Seq(Entry), n.snapshot \in Snapshot
    PROVE  OnDisk(n) \in Node
<1>1. EmptyStore \in Store /\ <<>> \in Seq(Entry)
  BY DEF EmptyStore, Store
<1> QED BY <1>1 DEF OnDisk, Node

\* A node that has never run is well formed.
LEMMA EmptyNodeType ==
    EmptyNode \in Node /\ Meets(EmptyNode) /\ Contiguous(EmptyNode)
<1>1. NoSnapshot \in Snapshot
  BY DEF NoSnapshot, Snapshot, EmptyStore, Store
<1> DEFINE d == [wal |-> <<>>, snapshot |-> NoSnapshot]
<1>2. /\ d.wal \in Seq(Entry) /\ d.snapshot \in Snapshot
      /\ d.snapshot.index = 0 /\ d.snapshot.data = EmptyStore
  BY <1>1 DEF NoSnapshot
<1>3. EmptyNode = OnDisk(d)
  BY DEF EmptyNode
<1> HIDE DEF d
<1>4. EmptyNode \in Node
  BY <1>2, <1>3, OnDiskType
<1> QED BY <1>2, <1>3, <1>4 DEF OnDisk, Meets, Contiguous

\* Recovery starts at the snapshot and never ends before it.
LEMMA loadPersistedStateKeeps ==
    ASSUME NEW n \in Node
    PROVE  loadPersistedState(n) \in Node /\ Meets(loadPersistedState(n))
<1> DEFINE s == Above(n.wal, n.snapshot.index)
           last == IF s = <<>> THEN n.snapshot.index ELSE s[Len(s)].Index
           d == ApplyAll(n.snapshot.data, s, DOMAIN s)
<1>1. n.wal \in Seq(Entry) /\ n.snapshot.index \in Nat /\ n.snapshot.data \in Store
  BY DEF Node, Snapshot
<1> DEFINE Later == {e \in Entry : e.Index > n.snapshot.index}
<1>2. s \in Seq(Later)
  BY <1>1, AboveType
<1>2a. \A e \in Later : e \in Entry /\ e.Index > n.snapshot.index
  OBVIOUS
<1>3. loadPersistedState(n) =
        [n EXCEPT !.log = s, !.logOffset = n.snapshot.index,
                  !.commitIndex = n.snapshot.index, !.lastApplied = last, !.data = d]
  BY DEF loadPersistedState
<1> HIDE DEF s, Later
<1>4. s \in Seq(Entry)
  BY <1>2, <1>2a, SeqMonotonic
<1>5. d \in Store
  BY <1>1, <1>4, ApplyAllType
<1>6. /\ last \in Nat /\ n.snapshot.index <= last
      /\ last = n.snapshot.index => s = <<>>
  <2>1. CASE s = <<>>
    BY <1>1, <2>1
  <2>2. CASE s # <<>>
    <3>1. Len(s) \in DOMAIN s
      BY <1>2, <2>2
    <3>2. s[Len(s)] \in Later
      BY <1>2, <3>1
    <3>3. s[Len(s)] \in Entry /\ s[Len(s)].Index > n.snapshot.index
      BY <3>2, <1>2a
    <3>4. s[Len(s)].Index \in Nat
      BY <3>3 DEF Entry
    <3> QED BY <2>2, <3>3, <3>4, <1>1
  <2> QED BY <2>1, <2>2
<1>7. ASSUME s = <<>> PROVE d = n.snapshot.data
  <2>1. DOMAIN s = {}
    BY <1>7
  <2>2. d = [k \in Key |-> n.snapshot.data[k]]
    BY <2>1 DEF ApplyAll
  <2> QED BY <2>2, <1>1 DEF Store
<1> HIDE DEF d, last
<1> QED BY <1>1, <1>3, <1>4, <1>5, <1>6, <1>7 DEF Node, Meets

=============================================================================
