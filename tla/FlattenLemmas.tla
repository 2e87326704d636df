---------------------------- MODULE FlattenLemmas ----------------------------
(***************************************************************************)
(* What FlattenSeq returns: the elements of the sequences it joins, each   *)
(* as often as they have it.  Its recursion is over the naturals; a        *)
(* statement that fails somewhere would fail first at some length.         *)
(***************************************************************************)
EXTENDS Naturals, Sequences, SequencesExt, WellFoundedInduction, TLAPS

LEMMA LeastNat ==
  ASSUME NEW T, T \subseteq Nat, T # {}
  PROVE  \E n \in T : \A m \in T : n <= m
<1>1. \E x \in T : \A y \in T : ~ (<<y, x>> \in OpToRel(<, Nat))
  BY NatLessThanWellFounded, WFMin
<1>2. PICK x \in T : \A y \in T : ~ (<<y, x>> \in OpToRel(<, Nat))
  BY <1>1
<1>3. \A y \in T : ~ (y < x)
  BY <1>2 DEF OpToRel
<1> QED
  BY <1>3

\* What the function that FlattenSeq defines by recursion has to satisfy.
Flattens(f, seqs, n) ==
  f = [i \in 1 .. n |-> IF i = 1 THEN seqs[i] ELSE f[i - 1] \o seqs[i]]

LEMMA FlattenerExists ==
  ASSUME NEW seqs, NEW n \in Nat
  PROVE  \E f : Flattens(f, seqs, n)
<1> DEFINE T == {k \in Nat : ~ \E f : Flattens(f, seqs, k)}
<1>1. ASSUME T # {} PROVE FALSE
  <2>1. PICK k \in T : \A m \in T : k <= m
    BY <1>1, LeastNat
  <2>2. CASE k = 0
    <3> DEFINE f == [i \in 1 .. 0 |-> seqs[i]]
    <3>1. Flattens(f, seqs, 0)
      BY DEF Flattens
    <3> QED
      BY <2>1, <2>2, <3>1
  <2>3. CASE k # 0
    <3>1. k - 1 \in Nat /\ k - 1 \notin T
      BY <2>1, <2>3
    <3>2. PICK f : Flattens(f, seqs, k - 1)
      BY <3>1
    <3> DEFINE g == [i \in 1 .. k |-> IF i = k THEN (IF k = 1 THEN seqs[1] ELSE f[k - 1] \o seqs[k]) ELSE f[i]]
    <3>3. \A i \in 1 .. k : g[i] = IF i = 1 THEN seqs[i] ELSE g[i - 1] \o seqs[i]
      <4> SUFFICES ASSUME NEW i \in 1 .. k
                   PROVE  g[i] = IF i = 1 THEN seqs[i] ELSE g[i - 1] \o seqs[i]
        OBVIOUS
      <4>1. CASE i = k /\ k = 1
        BY <4>1
      <4>2. CASE i = k /\ k # 1
        <5>1. k - 1 \in 1 .. k /\ k - 1 # k
          BY <2>3, <4>2
        <5>2. g[k - 1] = f[k - 1]
          BY <5>1
        <5> QED
          BY <4>2, <5>2
      <4>3. CASE i # k
        <5>1. i \in 1 .. k - 1 /\ g[i] = f[i]
          BY <2>1, <4>3
        <5>2. f[i] = IF i = 1 THEN seqs[i] ELSE f[i - 1] \o seqs[i]
          BY <3>2, <5>1 DEF Flattens
        <5>3. i # 1 => g[i - 1] = f[i - 1]
          BY <2>1, <4>3
        <5> QED
          BY <5>1, <5>2, <5>3
      <4> QED
        BY <4>1, <4>2, <4>3
    <3>4. Flattens(g, seqs, k)
      <4>1. g = [i \in 1 .. k |-> g[i]]
        OBVIOUS
      <4> HIDE DEF g
      <4> QED
        BY <3>3, <4>1 DEF Flattens
    <3> QED
      BY <2>1, <3>4
  <2> QED
    BY <2>2, <2>3
<1> QED
  BY <1>1

LEMMA Flattener ==
  ASSUME NEW seqs, Len(seqs) \in Nat, Len(seqs) # 0
  PROVE  \E f : Flattens(f, seqs, Len(seqs)) /\ FlattenSeq(seqs) = f[Len(seqs)]
<1> DEFINE n == Len(seqs)
<1> DEFINE h == CHOOSE f : Flattens(f, seqs, n)
<1>1. FlattenSeq(seqs) = h[n]
  BY DEF FlattenSeq, Flattens
<1>2. Flattens(h, seqs, n)
  BY FlattenerExists
<1> QED
  BY <1>1, <1>2

\* Two sequences joined: the elements of both, and none twice if neither has
\* one twice and they share none.
LEMMA Joined ==
  ASSUME NEW S, NEW s \in Seq(S), NEW t \in Seq(S)
  PROVE  /\ s \o t \in Seq(S)
         /\ ToSet(s \o t) = ToSet(s) \cup ToSet(t)
         /\ IsInjective(s) /\ IsInjective(t) /\ ToSet(s) \cap ToSet(t) = {} => IsInjective(s \o t)
<1>1. /\ s \o t \in Seq(S) /\ Len(s) \in Nat /\ Len(t) \in Nat /\ Len(s \o t) = Len(s) + Len(t)
      /\ DOMAIN s = 1 .. Len(s) /\ DOMAIN t = 1 .. Len(t) /\ DOMAIN (s \o t) = 1 .. Len(s) + Len(t)
  OBVIOUS
<1>2. \A i \in DOMAIN (s \o t) : IF i \in DOMAIN s THEN (s \o t)[i] = s[i]
                                 ELSE i - Len(s) \in DOMAIN t /\ (s \o t)[i] = t[i - Len(s)]
  BY <1>1
<1>3. ToSet(s \o t) \subseteq ToSet(s) \cup ToSet(t)
  BY <1>2 DEF ToSet
<1>4. \A i \in DOMAIN s : i \in DOMAIN (s \o t) /\ (s \o t)[i] = s[i]
  BY <1>1
<1>5. \A i \in DOMAIN t : i + Len(s) \in DOMAIN (s \o t) /\ (s \o t)[i + Len(s)] = t[i]
  BY <1>1
<1>6. ToSet(s) \cup ToSet(t) \subseteq ToSet(s \o t)
  BY <1>4, <1>5 DEF ToSet
<1>7. ASSUME IsInjective(s), IsInjective(t), ToSet(s) \cap ToSet(t) = {},
             NEW i \in DOMAIN (s \o t), NEW j \in DOMAIN (s \o t), (s \o t)[i] = (s \o t)[j]
      PROVE  i = j
  <2>1. CASE i \in DOMAIN s /\ j \in DOMAIN s
    BY <1>2, <1>7, <2>1 DEF IsInjective
  <2>2. CASE i \notin DOMAIN s /\ j \notin DOMAIN s
    <3>1. i - Len(s) \in DOMAIN t /\ j - Len(s) \in DOMAIN t /\ t[i - Len(s)] = t[j - Len(s)]
      BY <1>2, <1>7, <2>2
    <3>2. i - Len(s) = j - Len(s)
      BY <1>7, <3>1 DEF IsInjective
    <3> QED
      BY <1>1, <3>2
  <2>3. ASSUME NEW a \in DOMAIN (s \o t), NEW b \in DOMAIN (s \o t), a \in DOMAIN s, b \notin DOMAIN s
        PROVE  (s \o t)[a] # (s \o t)[b]
    <3>1. (s \o t)[a] \in ToSet(s) /\ (s \o t)[b] \in ToSet(t)
      BY <1>2, <2>3 DEF ToSet
    <3> QED
      BY <1>7, <3>1
  <2> QED
    BY <1>7, <2>1, <2>2, <2>3
<1> QED
  BY <1>1, <1>3, <1>6, <1>7 DEF IsInjective

Apart(seqs) ==
  /\ \A k \in DOMAIN seqs : IsInjective(seqs[k])
  /\ \A j, k \in DOMAIN seqs : j # k => ToSet(seqs[j]) \cap ToSet(seqs[k]) = {}

\* The first i of the sequences.
Collects(s, seqs, i, S) ==
  /\ s \in Seq(S)
  /\ \A x : x \in ToSet(s) <=> \E k \in 1 .. i : x \in ToSet(seqs[k])
  /\ Apart(seqs) => IsInjective(s)

LEMMA FlattenCollects ==
  ASSUME NEW S, NEW seqs \in Seq(Seq(S)), NEW f, Flattens(f, seqs, Len(seqs)),
         NEW n \in 1 .. Len(seqs)
  PROVE  Collects(f[n], seqs, n, S)
<1> DEFINE T == {i \in 1 .. Len(seqs) : ~ Collects(f[i], seqs, i, S)}
<1>1. ASSUME T # {} PROVE FALSE
  <2>1. T \subseteq Nat
    OBVIOUS
  <2>2. PICK i \in T : \A m \in T : i <= m
    BY <1>1, <2>1, LeastNat
  <2>3. i \in 1 .. Len(seqs) /\ seqs[i] \in Seq(S) /\ Len(seqs) \in Nat /\ DOMAIN seqs = 1 .. Len(seqs)
    OBVIOUS
  <2>4. f[i] = IF i = 1 THEN seqs[i] ELSE f[i - 1] \o seqs[i]
    BY <2>3 DEF Flattens
  <2>5. CASE i = 1
    <3>1. f[1] = seqs[1] /\ 1 \in DOMAIN seqs
      BY <2>3, <2>4, <2>5
    <3>2. \A k \in 1 .. 1 : k = 1
      OBVIOUS
    <3>3. Collects(f[1], seqs, 1, S)
      BY <2>3, <2>5, <3>1, <3>2 DEF Collects, Apart
    <3> QED
      BY <2>2, <2>5, <3>3
  <2>6. CASE i # 1
    <3>1. i - 1 \in 1 .. Len(seqs) /\ i - 1 \notin T
      BY <2>2, <2>3, <2>6
    <3>2. Collects(f[i - 1], seqs, i - 1, S)
      BY <3>1
    <3>3. f[i] = f[i - 1] \o seqs[i]
      BY <2>4, <2>6
    <3>4. \A k : k \in 1 .. i <=> k \in 1 .. i - 1 \/ k = i
      BY <2>3
    <3>5. f[i] \in Seq(S) /\ ToSet(f[i]) = ToSet(f[i - 1]) \cup ToSet(seqs[i])
      BY <2>3, <3>2, <3>3, Joined DEF Collects
    <3>6. \A x : x \in ToSet(f[i]) <=> \E k \in 1 .. i : x \in ToSet(seqs[k])
      BY <3>2, <3>4, <3>5 DEF Collects
    <3>7. ASSUME Apart(seqs) PROVE IsInjective(f[i])
      <4>1. \A k \in 1 .. i - 1 : ToSet(seqs[k]) \cap ToSet(seqs[i]) = {}
        <5>1. \A k \in 1 .. i - 1 : k \in DOMAIN seqs /\ k # i
          BY <2>3
        <5> QED
          BY <2>3, <3>7, <5>1 DEF Apart
      <4>2. ToSet(f[i - 1]) \cap ToSet(seqs[i]) = {}
        BY <3>2, <4>1 DEF Collects
      <4>3. f[i - 1] \in Seq(S) /\ IsInjective(f[i - 1]) /\ IsInjective(seqs[i])
        BY <2>3, <3>2, <3>7 DEF Collects, Apart
      <4> QED
        BY <2>3, <3>3, <4>2, <4>3, Joined
    <3>8. Collects(f[i], seqs, i, S)
      BY <3>5, <3>6, <3>7 DEF Collects
    <3> QED
      BY <2>2, <3>8
  <2> QED
    BY <2>5, <2>6
<1> QED
  BY <1>1

\* FlattenSeq has the elements of the sequences it joins, and none twice if none
\* of them has one twice and no two share one.
THEOREM Flattened ==
  ASSUME NEW S, NEW seqs \in Seq(Seq(S))
  PROVE  /\ FlattenSeq(seqs) \in Seq(S)
         /\ \A x : x \in ToSet(FlattenSeq(seqs)) <=> \E k \in DOMAIN seqs : x \in ToSet(seqs[k])
         /\ Apart(seqs) => IsInjective(FlattenSeq(seqs))
<1>1. Len(seqs) \in Nat /\ DOMAIN seqs = 1 .. Len(seqs)
  OBVIOUS
<1>2. CASE Len(seqs) = 0
  <2>1. FlattenSeq(seqs) = seqs
    BY <1>2 DEF FlattenSeq
  <2>2. DOMAIN seqs = {} /\ seqs \in Seq(S)
    BY <1>1, <1>2
  <2> QED
    BY <2>1, <2>2 DEF ToSet, IsInjective
<1>3. CASE Len(seqs) # 0
  <2>1. PICK f : Flattens(f, seqs, Len(seqs)) /\ FlattenSeq(seqs) = f[Len(seqs)]
    BY <1>1, <1>3, Flattener
  <2>2. Collects(f[Len(seqs)], seqs, Len(seqs), S)
    BY <1>1, <1>3, <2>1, FlattenCollects
  <2> QED
    BY <1>1, <2>1, <2>2 DEF Collects
<1> QED
  BY <1>2, <1>3
-----------------------------------------------------------------------------
(* In which order, and how many.  The prefixes of a flattened sequence      *)
(* determine it, so that an equation between flattened sequences holds if   *)
(* one side has the prefixes of the other.                                  *)

\* As a name, so that the prover matches it as it stands.
Concat(r, s, t) == r = s \o t

\* f[n] joins the first n of the sequences.
Joins(f, seqs, S) ==
  /\ f[0] = <<>>
  /\ \A n \in 0 .. Len(seqs) : f[n] \in Seq(S)
  /\ \A n \in 1 .. Len(seqs) : Concat(f[n], f[n - 1], seqs[n])

LEMMA EmptyFirst ==
  ASSUME NEW S, NEW s \in Seq(S)
  PROVE  <<>> \o s = s /\ s \o <<>> = s
  OBVIOUS

LEMMA JoinExists ==
  ASSUME NEW S, NEW seqs \in Seq(Seq(S))
  PROVE  \E f : Joins(f, seqs, S) /\ FlattenSeq(seqs) = f[Len(seqs)]
<1>1. Len(seqs) \in Nat /\ DOMAIN seqs = 1 .. Len(seqs) /\ \A n \in 1 .. Len(seqs) : seqs[n] \in Seq(S)
  OBVIOUS
<1>2. CASE Len(seqs) = 0
  <2> DEFINE f == [n \in 0 .. 0 |-> <<>>]
  <2>1. FlattenSeq(seqs) = seqs
    BY <1>2 DEF FlattenSeq
  <2>2. seqs = <<>>
    BY <1>2
  <2>3. f[0] = <<>> /\ <<>> \in Seq(S) /\ 0 .. 0 = {0} /\ 1 .. 0 = {}
    OBVIOUS
  <2>4. Joins(f, seqs, S)
    BY <1>2, <2>3 DEF Joins
  <2> QED
    BY <1>2, <2>1, <2>2, <2>3, <2>4
<1>3. CASE Len(seqs) # 0
  <2>1. PICK g : Flattens(g, seqs, Len(seqs)) /\ FlattenSeq(seqs) = g[Len(seqs)]
    BY <1>1, <1>3, Flattener
  <2> DEFINE f == [n \in 0 .. Len(seqs) |-> IF n = 0 THEN <<>> ELSE g[n]]
  <2>2. \A n \in 1 .. Len(seqs) : g[n] \in Seq(S)
    BY <2>1, FlattenCollects DEF Collects
  <2>3. \A n \in 1 .. Len(seqs) : g[n] = IF n = 1 THEN seqs[n] ELSE g[n - 1] \o seqs[n]
    BY <2>1 DEF Flattens
  <2>4. f[0] = <<>> /\ \A n \in 1 .. Len(seqs) : f[n] = g[n]
    BY <1>1
  <2>5. \A n \in 0 .. Len(seqs) : f[n] \in Seq(S)
    BY <2>2
  <2>6. ASSUME NEW n \in 1 .. Len(seqs) PROVE f[n] = f[n - 1] \o seqs[n]
    <3> HIDE DEF f
    <3>1. CASE n = 1
      BY <1>1, <2>3, <2>4, <3>1, EmptyFirst
    <3>2. CASE n # 1
      <4>1. n - 1 \in 1 .. Len(seqs)
        BY <1>1, <3>2
      <4> QED
        BY <2>3, <2>4, <3>2, <4>1
    <3> QED
      BY <3>1, <3>2
  <2>7. Len(seqs) \in 1 .. Len(seqs)
    BY <1>1, <1>3
  <2> HIDE DEF f
  <2> QED
    BY <2>1, <2>4, <2>5, <2>6, <2>7 DEF Joins, Concat
<1> QED
  BY <1>2, <1>3

LEMMA JoinUnique ==
  ASSUME NEW S, NEW seqs \in Seq(Seq(S)), NEW g, Joins(g, seqs, S)
  PROVE  FlattenSeq(seqs) = g[Len(seqs)]
<1>1. PICK f : Joins(f, seqs, S) /\ FlattenSeq(seqs) = f[Len(seqs)]
  BY JoinExists
<1> DEFINE T == {n \in 0 .. Len(seqs) : f[n] # g[n]}
<1>2. Len(seqs) \in Nat
  OBVIOUS
<1>3. ASSUME T # {} PROVE FALSE
  <2>1. T \subseteq Nat
    BY <1>2
  <2>2. PICK n \in T : \A k \in T : n <= k
    BY <1>3, <2>1, LeastNat
  <2>3. n # 0
    BY <1>1 DEF Joins
  <2>4. n \in 1 .. Len(seqs) /\ n - 1 \in 0 .. Len(seqs) /\ n - 1 \notin T
    BY <1>2, <2>2, <2>3
  <2>5. f[n - 1] = g[n - 1]
    BY <2>4
  <2>6. f[n] = f[n - 1] \o seqs[n] /\ g[n] = g[n - 1] \o seqs[n]
    BY <1>1, <2>4 DEF Joins, Concat
  <2> QED
    BY <2>2, <2>5, <2>6
<1>4. Len(seqs) \in 0 .. Len(seqs)
  BY <1>2
<1> QED
  BY <1>1, <1>3, <1>4

LEMMA FlattenOne ==
  ASSUME NEW seq
  PROVE  FlattenSeq(<<seq>>) = seq
<1> DEFINE seqs == <<seq>>
<1>1. Len(seqs) = 1 /\ Len(seqs) \in Nat /\ Len(seqs) # 0 /\ seqs[1] = seq
  OBVIOUS
<1> HIDE DEF seqs
<1>2. PICK f : Flattens(f, seqs, Len(seqs)) /\ FlattenSeq(seqs) = f[Len(seqs)]
  BY <1>1, Flattener
<1>3. FlattenSeq(seqs) = seq
  BY <1>1, <1>2 DEF Flattens
<1> QED
  BY <1>3 DEF seqs

LEMMA Associative ==
  ASSUME NEW S, NEW s \in Seq(S), NEW t \in Seq(S), NEW u \in Seq(S),
         NEW v, Concat(v, s, t), NEW w, Concat(w, t, u), NEW x, Concat(x, s, w)
  PROVE  Concat(x, v, u)
<1>1. /\ s \o t \in Seq(S) /\ t \o u \in Seq(S) /\ (s \o t) \o u \in Seq(S) /\ s \o (t \o u) \in Seq(S)
      /\ Len(s) \in Nat /\ Len(t) \in Nat /\ Len(u) \in Nat
      /\ Len((s \o t) \o u) = Len(s) + Len(t) + Len(u) /\ Len(s \o (t \o u)) = Len(s) + Len(t) + Len(u)
  OBVIOUS
<1>2. \A i \in 1 .. Len(s) + Len(t) + Len(u) : ((s \o t) \o u)[i] = (s \o (t \o u))[i]
  OBVIOUS
<1>3. (s \o t) \o u = s \o (t \o u)
  BY <1>1, <1>2
<1> QED
  BY <1>3 DEF Concat

LEMMA FlattenConcat ==
  ASSUME NEW S, NEW a \in Seq(Seq(S)), NEW b \in Seq(Seq(S)), NEW c, Concat(c, a, b)
  PROVE  Concat(FlattenSeq(c), FlattenSeq(a), FlattenSeq(b))
<1>1. PICK f : Joins(f, a, S) /\ FlattenSeq(a) = f[Len(a)]
  BY JoinExists
<1>2. PICK g : Joins(g, b, S) /\ FlattenSeq(b) = g[Len(b)]
  BY JoinExists
<1> DEFINE h == [n \in 0 .. Len(a) + Len(b) |-> IF n <= Len(a) THEN f[n] ELSE f[Len(a)] \o g[n - Len(a)]]
<1>3. /\ c \in Seq(Seq(S)) /\ Len(a) \in Nat /\ Len(b) \in Nat /\ Len(c) = Len(a) + Len(b)
      /\ \A n \in 1 .. Len(a) : c[n] = a[n]
      /\ \A n \in 1 .. Len(b) : c[Len(a) + n] = b[n] /\ b[n] \in Seq(S)
  BY DEF Concat
<1>4. /\ f[0] = <<>> /\ g[0] = <<>>
      /\ \A n \in 0 .. Len(a) : f[n] \in Seq(S)
      /\ \A n \in 0 .. Len(b) : g[n] \in Seq(S)
      /\ \A n \in 1 .. Len(a) : Concat(f[n], f[n - 1], a[n])
      /\ \A n \in 1 .. Len(b) : Concat(g[n], g[n - 1], b[n])
  BY <1>1, <1>2 DEF Joins
<1>5. Len(a) \in 0 .. Len(a) /\ Len(b) \in 0 .. Len(b)
  BY <1>3
<1>6. Len(a) \in Nat /\ Len(b) \in Nat
  OBVIOUS
<1>7. \A n \in 0 .. Len(a) : h[n] = f[n]
  BY <1>3
<1>8. ASSUME NEW n \in 0 .. Len(b) PROVE Concat(h[Len(a) + n], f[Len(a)], g[n])
  <2>1. CASE n = 0
    <3>1. f[Len(a)] \in Seq(S) /\ g[n] = <<>>
      BY <1>4, <1>5, <2>1
    <3>2. f[Len(a)] \o g[n] = f[Len(a)]
      BY <3>1, EmptyFirst
    <3>3. Len(a) + n = Len(a)
      BY <1>3, <2>1
    <3> HIDE DEF h
    <3>4. h[Len(a) + n] = f[Len(a)]
      BY <1>5, <1>7, <3>3
    <3> QED
      BY <3>2, <3>4 DEF Concat
  <2>2. CASE n # 0
    <3> DEFINE k == Len(a) + n
    <3>1. k \in 0 .. Len(a) + Len(b) /\ ~ (k <= Len(a)) /\ k - Len(a) = n
      BY <1>3, <2>2
    <3> HIDE DEF k
    <3>2. h[k] = f[Len(a)] \o g[k - Len(a)]
      BY <3>1
    <3> QED
      BY <3>1, <3>2 DEF Concat, k
  <2> QED
    BY <2>1, <2>2
<1> HIDE DEF h
<1>9. \A n \in 0 .. Len(c) : n \in 0 .. Len(a) \/ \E k \in 1 .. Len(b) : n = Len(a) + k
  <2> SUFFICES ASSUME NEW n \in 0 .. Len(c), n \notin 0 .. Len(a)
               PROVE  \E k \in 1 .. Len(b) : n = Len(a) + k
    OBVIOUS
  <2>1. n - Len(a) \in 1 .. Len(b) /\ n = Len(a) + (n - Len(a))
    BY <1>3
  <2> QED
    BY <2>1
<1>10. ASSUME NEW n \in 0 .. Len(c) PROVE h[n] \in Seq(S)
  <2>1. CASE n \in 0 .. Len(a)
    BY <1>4, <1>7, <2>1
  <2>2. ASSUME NEW k \in 1 .. Len(b), n = Len(a) + k PROVE h[n] \in Seq(S)
    <3>1. k \in 0 .. Len(b)
      BY <1>3
    <3>2. h[n] = f[Len(a)] \o g[k]
      BY <1>8, <2>2, <3>1 DEF Concat
    <3>3. f[Len(a)] \in Seq(S) /\ g[k] \in Seq(S)
      BY <1>4, <1>5, <3>1
    <3> QED
      BY <3>2, <3>3
  <2> QED
    BY <1>9, <2>1, <2>2
<1>11. ASSUME NEW n \in 1 .. Len(c) PROVE Concat(h[n], h[n - 1], c[n])
  <2>1. CASE n \in 0 .. Len(a)
    <3>1. n \in 1 .. Len(a) /\ n - 1 \in 0 .. Len(a)
      BY <1>3, <2>1
    <3>2. h[n] = f[n] /\ h[n - 1] = f[n - 1] /\ c[n] = a[n]
      BY <1>3, <1>7, <2>1, <3>1
    <3> QED
      BY <1>4, <3>1, <3>2
  <2>2. ASSUME NEW k \in 1 .. Len(b), n = Len(a) + k PROVE Concat(h[n], h[n - 1], c[n])
    <3>1. k \in 0 .. Len(b) /\ k - 1 \in 0 .. Len(b) /\ n - 1 = Len(a) + (k - 1)
      BY <1>6, <2>2
    <3>2. Concat(h[n], f[Len(a)], g[k]) /\ Concat(h[n - 1], f[Len(a)], g[k - 1]) /\ c[n] = b[k]
      BY <1>3, <1>8, <2>2, <3>1
    <3>3. Concat(g[k], g[k - 1], b[k])
      BY <1>4
    <3>4. f[Len(a)] \in Seq(S) /\ g[k - 1] \in Seq(S) /\ b[k] \in Seq(S)
      BY <1>3, <1>4, <1>5, <3>1
    <3> QED
      BY <3>2, <3>3, <3>4, Associative
  <2>3. n \in 0 .. Len(c)
    BY <1>3
  <2> QED
    BY <1>9, <2>1, <2>2, <2>3
<1>12. h[0] = <<>> /\ Concat(h[Len(c)], f[Len(a)], g[Len(b)])
  <2>1. 0 \in 0 .. Len(a)
    BY <1>3
  <2> QED
    BY <1>3, <1>4, <1>5, <1>7, <1>8, <2>1
<1>13. Joins(h, c, S)
  BY <1>10, <1>11, <1>12 DEF Joins
<1>14. FlattenSeq(c) = h[Len(c)]
  BY <1>3, <1>13, JoinUnique
<1> QED
  BY <1>1, <1>2, <1>12, <1>14

MapsTo(h, S, Q) == \A x \in S : h[x] \in Q

\* A function applied to every element.
ImageOf(h, s) == [k \in DOMAIN s |-> h[s[k]]]

LEMMA MappedSeq ==
  ASSUME NEW S, NEW Q, NEW h, MapsTo(h, S, Q), NEW s \in Seq(S)
  PROVE  ImageOf(h, s) \in Seq(Q) /\ Len(ImageOf(h, s)) = Len(s)
<1>1. DOMAIN s = 1 .. Len(s) /\ Len(s) \in Nat /\ \A k \in DOMAIN s : h[s[k]] \in Q
  BY DEF MapsTo
<1> QED
  BY <1>1 DEF ImageOf

LEMMA IsConcat ==
  ASSUME NEW Q, NEW u \in Seq(Q), NEW v \in Seq(Q), NEW w \in Seq(Q), Len(w) = Len(u) + Len(v),
         \A i \in 1 .. Len(u) : w[i] = u[i], \A i \in 1 .. Len(v) : w[Len(u) + i] = v[i]
  PROVE  Concat(w, u, v)
<1>1. u \o v \in Seq(Q) /\ Len(u \o v) = Len(u) + Len(v) /\ Len(u) \in Nat /\ Len(v) \in Nat
  OBVIOUS
<1>2. \A i \in 1 .. Len(u) : (u \o v)[i] = u[i]
  OBVIOUS
<1>3. \A i \in 1 .. Len(v) : (u \o v)[Len(u) + i] = v[i]
  OBVIOUS
<1>4. ASSUME NEW i \in 1 .. Len(u) + Len(v) PROVE w[i] = (u \o v)[i]
  <2>1. CASE i <= Len(u)
    BY <1>1, <1>2, <2>1
  <2>2. CASE ~ (i <= Len(u))
    <3>1. i - Len(u) \in 1 .. Len(v) /\ Len(u) + (i - Len(u)) = i
      BY <1>1, <2>2
    <3> QED
      BY <1>3, <3>1
  <2> QED
    BY <2>1, <2>2
<1> DEFINE x == u \o v
<1>5. x \in Seq(Q) /\ Len(x) = Len(w) /\ \A i \in 1 .. Len(w) : w[i] = x[i]
  BY <1>1, <1>4
<1> HIDE DEF x
<1>6. w = x
  BY <1>5
<1> QED
  BY <1>6 DEF Concat, x

LEMMA MappedConcat ==
  ASSUME NEW S, NEW Q, NEW h, MapsTo(h, S, Q), NEW s \in Seq(S), NEW t \in Seq(S), NEW r, Concat(r, s, t)
  PROVE  Concat(ImageOf(h, r), ImageOf(h, s), ImageOf(h, t))
<1> DEFINE u == ImageOf(h, s)
           v == ImageOf(h, t)
           w == ImageOf(h, r)
<1>1. /\ r \in Seq(S) /\ Len(r) = Len(s) + Len(t) /\ Len(s) \in Nat /\ Len(t) \in Nat
      /\ \A i \in 1 .. Len(s) : r[i] = s[i]
      /\ \A i \in 1 .. Len(t) : r[Len(s) + i] = t[i]
  BY DEF Concat
<1>2. u \in Seq(Q) /\ Len(u) = Len(s)
  BY MappedSeq
<1>3. v \in Seq(Q) /\ Len(v) = Len(t)
  BY MappedSeq
<1>4. w \in Seq(Q) /\ Len(w) = Len(r)
  BY <1>1, MappedSeq
<1>5. /\ \A i \in 1 .. Len(s) : u[i] = h[s[i]]
      /\ \A i \in 1 .. Len(t) : v[i] = h[t[i]]
      /\ \A i \in 1 .. Len(r) : w[i] = h[r[i]]
  <2>1. DOMAIN s = 1 .. Len(s) /\ DOMAIN t = 1 .. Len(t) /\ DOMAIN r = 1 .. Len(r)
    BY <1>1
  <2> QED
    BY <2>1 DEF ImageOf
<1> HIDE DEF u, v, w
<1>6. \A i \in 1 .. Len(u) : w[i] = u[i]
  BY <1>1, <1>2, <1>5
<1>7. ASSUME NEW i \in 1 .. Len(v) PROVE w[Len(u) + i] = v[i]
  <2>1. i \in 1 .. Len(t) /\ Len(u) + i = Len(s) + i /\ Len(s) + i \in 1 .. Len(r)
    BY <1>1, <1>2, <1>3
  <2>2. w[Len(s) + i] = h[r[Len(s) + i]] /\ v[i] = h[t[i]]
    BY <1>5, <2>1
  <2>3. r[Len(s) + i] = t[i]
    BY <1>1, <2>1
  <2> QED
    BY <2>1, <2>2, <2>3
<1>8. Len(w) = Len(u) + Len(v)
  BY <1>1, <1>2, <1>3, <1>4
<1>9. Concat(w, u, v)
  BY <1>2, <1>3, <1>4, <1>6, <1>7, <1>8, IsConcat
<1> QED
  BY <1>9 DEF u, v, w

\* Mapping and joining can change places.
LEMMA MappedFlatten ==
  ASSUME NEW S, NEW Q, NEW h, MapsTo(h, S, Q), NEW seqs \in Seq(Seq(S))
  PROVE  ImageOf(h, FlattenSeq(seqs)) = FlattenSeq([n \in DOMAIN seqs |-> ImageOf(h, seqs[n])])
<1> DEFINE images == [n \in DOMAIN seqs |-> ImageOf(h, seqs[n])]
<1>1. PICK f : Joins(f, seqs, S) /\ FlattenSeq(seqs) = f[Len(seqs)]
  BY JoinExists
<1> DEFINE g == [n \in 0 .. Len(seqs) |-> ImageOf(h, f[n])]
<1>2. Len(seqs) \in Nat /\ DOMAIN seqs = 1 .. Len(seqs) /\ \A n \in 1 .. Len(seqs) : seqs[n] \in Seq(S)
  OBVIOUS
<1>3. images \in Seq(Seq(Q)) /\ Len(images) = Len(seqs) /\ \A n \in 1 .. Len(seqs) : images[n] = ImageOf(h, seqs[n])
  <2>1. \A n \in DOMAIN seqs : ImageOf(h, seqs[n]) \in Seq(Q)
    BY <1>2, MappedSeq
  <2> QED
    BY <1>2, <2>1
<1>4. \A n \in 0 .. Len(seqs) : f[n] \in Seq(S) /\ g[n] = ImageOf(h, f[n])
  BY <1>1 DEF Joins
<1> HIDE DEF g, images
<1>5. g[0] = <<>>
  <2>1. 0 \in 0 .. Len(seqs) /\ f[0] = <<>>
    BY <1>1, <1>2 DEF Joins
  <2>2. ImageOf(h, <<>>) = <<>>
    BY DEF ImageOf
  <2> QED
    BY <1>4, <2>1, <2>2
<1>6. \A n \in 0 .. Len(seqs) : g[n] \in Seq(Q)
  BY <1>4, MappedSeq
<1>7. ASSUME NEW n \in 1 .. Len(seqs) PROVE Concat(g[n], g[n - 1], images[n])
  <2>1. n - 1 \in 0 .. Len(seqs) /\ n \in 0 .. Len(seqs)
    BY <1>2
  <2>2. Concat(f[n], f[n - 1], seqs[n])
    BY <1>1 DEF Joins
  <2>3. Concat(ImageOf(h, f[n]), ImageOf(h, f[n - 1]), ImageOf(h, seqs[n]))
    BY <1>2, <1>4, <2>1, <2>2, MappedConcat
  <2> QED
    BY <1>3, <1>4, <2>1, <2>2, <2>3
<1>8. Joins(g, images, Q)
  BY <1>3, <1>5, <1>6, <1>7 DEF Joins
<1>9. FlattenSeq(images) = g[Len(seqs)]
  BY <1>3, <1>8, JoinUnique
<1>10. g[Len(seqs)] = ImageOf(h, FlattenSeq(seqs))
  BY <1>1, <1>2, <1>4
<1> QED
  BY <1>9, <1>10 DEF images

\* What is collected over a joined sequence is collected over its parts.
LEMMA CollectedFlatten ==
  ASSUME NEW S, NEW Q, NEW h, MapsTo(h, S, Seq(Q)), NEW seqs \in Seq(Seq(S))
  PROVE  FlattenSeq(ImageOf(h, FlattenSeq(seqs)))
           = FlattenSeq([n \in DOMAIN seqs |-> FlattenSeq(ImageOf(h, seqs[n]))])
<1> DEFINE images == [n \in DOMAIN seqs |-> FlattenSeq(ImageOf(h, seqs[n]))]
<1>1. PICK f : Joins(f, seqs, S) /\ FlattenSeq(seqs) = f[Len(seqs)]
  BY JoinExists
<1> DEFINE g == [n \in 0 .. Len(seqs) |-> FlattenSeq(ImageOf(h, f[n]))]
<1>2. Len(seqs) \in Nat /\ DOMAIN seqs = 1 .. Len(seqs) /\ \A n \in 1 .. Len(seqs) : seqs[n] \in Seq(S)
  OBVIOUS
<1>3. ASSUME NEW s \in Seq(S) PROVE ImageOf(h, s) \in Seq(Seq(Q)) /\ FlattenSeq(ImageOf(h, s)) \in Seq(Q)
  <2>1. ImageOf(h, s) \in Seq(Seq(Q))
    BY MappedSeq
  <2> QED
    BY <2>1, Flattened
<1>4. /\ images \in Seq(Seq(Q)) /\ Len(images) = Len(seqs)
      /\ \A n \in 1 .. Len(seqs) : images[n] = FlattenSeq(ImageOf(h, seqs[n]))
  <2>1. \A n \in DOMAIN seqs : FlattenSeq(ImageOf(h, seqs[n])) \in Seq(Q)
    BY <1>2, <1>3
  <2> QED
    BY <1>2, <2>1
<1>5. \A n \in 0 .. Len(seqs) : f[n] \in Seq(S) /\ g[n] = FlattenSeq(ImageOf(h, f[n]))
  BY <1>1 DEF Joins
<1> HIDE DEF g, images
<1>6. g[0] = <<>>
  <2>1. 0 \in 0 .. Len(seqs) /\ f[0] = <<>>
    BY <1>1, <1>2 DEF Joins
  <2>2. ImageOf(h, <<>>) = <<>>
    BY DEF ImageOf
  <2>3. FlattenSeq(<<>>) = <<>>
    BY DEF FlattenSeq
  <2> QED
    BY <1>5, <2>1, <2>2, <2>3
<1>7. \A n \in 0 .. Len(seqs) : g[n] \in Seq(Q)
  BY <1>3, <1>5
<1>8. ASSUME NEW n \in 1 .. Len(seqs) PROVE Concat(g[n], g[n - 1], images[n])
  <2>1. n - 1 \in 0 .. Len(seqs) /\ n \in 0 .. Len(seqs)
    BY <1>2
  <2>2. Concat(f[n], f[n - 1], seqs[n])
    BY <1>1 DEF Joins
  <2>3. Concat(ImageOf(h, f[n]), ImageOf(h, f[n - 1]), ImageOf(h, seqs[n]))
    BY <1>2, <1>5, <2>1, <2>2, MappedConcat
  <2>4. Concat(FlattenSeq(ImageOf(h, f[n])), FlattenSeq(ImageOf(h, f[n - 1])), FlattenSeq(ImageOf(h, seqs[n])))
    BY <1>2, <1>3, <1>5, <2>1, <2>3, FlattenConcat
  <2> QED
    BY <1>4, <1>5, <2>1, <2>2, <2>3, <2>4
<1>9. Joins(g, images, Q)
  BY <1>4, <1>6, <1>7, <1>8 DEF Joins
<1>10. FlattenSeq(images) = g[Len(seqs)]
  BY <1>4, <1>9, JoinUnique
<1>11. g[Len(seqs)] = FlattenSeq(ImageOf(h, FlattenSeq(seqs)))
  BY <1>1, <1>2, <1>5
<1> QED
  BY <1>10, <1>11 DEF images

\* Sequences that are as long, part by part, are as long when joined.
LEMMA SameLength ==
  ASSUME NEW S, NEW R, NEW a \in Seq(Seq(S)), NEW b \in Seq(Seq(R)), DOMAIN a = DOMAIN b,
         \A n \in DOMAIN a : Len(a[n]) = Len(b[n])
  PROVE  Len(FlattenSeq(a)) = Len(FlattenSeq(b))
<1> DEFINE f == [x \in S |-> 0]
           g == [x \in R |-> 0]
           p == [n \in DOMAIN a |-> ImageOf(f, a[n])]
           q == [n \in DOMAIN b |-> ImageOf(g, b[n])]
<1>1. MapsTo(f, S, {0}) /\ MapsTo(g, R, {0})
  BY DEF MapsTo
<1>2. ASSUME NEW n \in DOMAIN a PROVE ImageOf(f, a[n]) = ImageOf(g, b[n])
  <2>1. a[n] \in Seq(S) /\ b[n] \in Seq(R)
    OBVIOUS
  <2>2. DOMAIN a[n] = DOMAIN b[n]
    BY <2>1
  <2>3. \A k \in DOMAIN a[n] : f[a[n][k]] = 0 /\ g[b[n][k]] = 0
    BY <2>1, <2>2
  <2> HIDE DEF f, g
  <2> QED
    BY <2>2, <2>3 DEF ImageOf
<1> HIDE DEF f, g
<1>3. p = q
  BY <1>2
<1>4. ImageOf(f, FlattenSeq(a)) = FlattenSeq(p) /\ ImageOf(g, FlattenSeq(b)) = FlattenSeq(q)
  BY <1>1, MappedFlatten
<1>5. FlattenSeq(a) \in Seq(S) /\ FlattenSeq(b) \in Seq(R)
  BY Flattened
<1>6. /\ Len(ImageOf(f, FlattenSeq(a))) = Len(FlattenSeq(a))
      /\ Len(ImageOf(g, FlattenSeq(b))) = Len(FlattenSeq(b))
  BY <1>1, <1>5, MappedSeq
<1> QED
  BY <1>3, <1>4, <1>6
=============================================================================
