--------------------------- MODULE ArfIntakeProofs ---------------------------
(***************************************************************************)
(* What the selections of inspect_arf return, and what an accepted         *)
(* collection therefore says of its reports.                               *)
(***************************************************************************)
EXTENDS ArfIntake, FlattenLemmas

-----------------------------------------------------------------------------
(* Selections.                                                             *)

\* The parts that Where joins when it keeps the members of T.
Pieces(seq, T) == [k \in DOMAIN seq |-> IF seq[k] \in T THEN <<seq[k]>> ELSE <<>>]

LEMMA PiecesOf ==
  ASSUME NEW S, NEW seq \in Seq(S), NEW T
  PROVE  Pieces(seq, T) \in Seq(Seq(S)) /\ Len(Pieces(seq, T)) = Len(seq)
<1> DEFINE Piece(k) == IF seq[k] \in T THEN <<seq[k]>> ELSE <<>>
<1>1. DOMAIN seq = 1 .. Len(seq) /\ Len(seq) \in Nat
  OBVIOUS
<1>2. \A k \in DOMAIN seq : Piece(k) \in Seq(S)
  OBVIOUS
<1>3. Pieces(seq, T) = [k \in DOMAIN seq |-> Piece(k)]
  BY DEF Pieces
<1> HIDE DEF Piece
<1> QED
  BY <1>1, <1>2, <1>3

LEMMA PiecesJoined ==
  ASSUME NEW S, NEW seq \in Seq(S), NEW T
  PROVE  /\ FlattenSeq(Pieces(seq, T)) \in Seq(S)
         /\ ToSet(FlattenSeq(Pieces(seq, T))) = ToSet(seq) \cap T
<1>1. Pieces(seq, T) \in Seq(Seq(S))
  BY PiecesOf
<1>2. ASSUME NEW k \in DOMAIN seq, NEW x
      PROVE  x \in ToSet(Pieces(seq, T)[k]) <=> x = seq[k] /\ x \in T
  <2>1. CASE seq[k] \in T
    <3>1. Pieces(seq, T)[k] = <<seq[k]>>
      BY <2>1 DEF Pieces
    <3> QED
      BY <2>1, <3>1 DEF ToSet
  <2>2. CASE seq[k] \notin T
    <3>1. Pieces(seq, T)[k] = <<>>
      BY <2>2 DEF Pieces
    <3> QED
      BY <2>2, <3>1 DEF ToSet
  <2> QED
    BY <2>1, <2>2
<1>3. DOMAIN Pieces(seq, T) = DOMAIN seq
  BY DEF Pieces
<1>4. \A x : x \in ToSet(FlattenSeq(Pieces(seq, T))) <=>
               \E k \in DOMAIN Pieces(seq, T) : x \in ToSet(Pieces(seq, T)[k])
  BY <1>1, Flattened
<1>5. \A x : x \in ToSet(FlattenSeq(Pieces(seq, T))) <=> \E k \in DOMAIN seq : x = seq[k] /\ x \in T
  BY <1>2, <1>3, <1>4
<1>6. \A x : x \in ToSet(FlattenSeq(Pieces(seq, T))) <=> x \in ToSet(seq) \cap T
  BY <1>5 DEF ToSet
<1> QED
  BY <1>1, <1>6, Flattened

\* A selection repeats nothing that the sequence does not.
LEMMA PiecesInjective ==
  ASSUME NEW S, NEW seq \in Seq(S), NEW T, IsInjective(seq)
  PROVE  IsInjective(FlattenSeq(Pieces(seq, T)))
<1> DEFINE Piece(k) == IF seq[k] \in T THEN <<seq[k]>> ELSE <<>>
<1>1. DOMAIN seq = 1 .. Len(seq) /\ Len(seq) \in Nat
  OBVIOUS
<1>2. \A k \in DOMAIN seq : Piece(k) \in Seq(S) /\ IsInjective(Piece(k)) /\ ToSet(Piece(k)) \subseteq {seq[k]}
  BY DEF ToSet, IsInjective
<1>3. Pieces(seq, T) = [k \in DOMAIN seq |-> Piece(k)]
  BY DEF Pieces
<1> HIDE DEF Piece
<1>4. Pieces(seq, T) \in Seq(Seq(S))
  BY <1>1, <1>2, <1>3
<1>5. DOMAIN Pieces(seq, T) = DOMAIN seq /\ \A k \in DOMAIN seq : Pieces(seq, T)[k] = Piece(k)
  BY <1>3
<1>6. \A j, k \in DOMAIN seq : j # k => seq[j] # seq[k]
  BY DEF IsInjective
<1>7. Apart(Pieces(seq, T))
  BY <1>2, <1>5, <1>6 DEF Apart
<1> QED
  BY <1>4, <1>7, Flattened

\* A selection and the selection of the others have all elements between them.
LEMMA PiecesPartition ==
  ASSUME NEW S, NEW seq \in Seq(S), NEW T
  PROVE  Len(FlattenSeq(Pieces(seq, T))) + Len(FlattenSeq(Pieces(seq, S \ T))) = Len(seq)
<1> DEFINE p == Pieces(seq, T)
           q == Pieces(seq, S \ T)
<1>1. p \in Seq(Seq(S)) /\ Len(p) = Len(seq)
  BY PiecesOf
<1>2. q \in Seq(Seq(S)) /\ Len(q) = Len(seq)
  BY PiecesOf
<1>3. Len(seq) \in Nat /\ \A n \in 1 .. Len(seq) : n \in DOMAIN seq /\ seq[n] \in S
  OBVIOUS
<1>4. \A n \in 1 .. Len(seq) : /\ p[n] \in Seq(S) /\ q[n] \in Seq(S)
                              /\ Len(p[n]) + Len(q[n]) = 1
  <2> SUFFICES ASSUME NEW n \in 1 .. Len(seq)
               PROVE  p[n] \in Seq(S) /\ q[n] \in Seq(S) /\ Len(p[n]) + Len(q[n]) = 1
    OBVIOUS
  <2>1. p[n] = (IF seq[n] \in T THEN <<seq[n]>> ELSE <<>>) /\ q[n] = (IF seq[n] \in T THEN <<>> ELSE <<seq[n]>>)
    BY <1>3 DEF Pieces
  <2>2. <<seq[n]>> \in Seq(S) /\ <<>> \in Seq(S) /\ Len(<<seq[n]>>) = 1 /\ Len(<<>>) = 0
    BY <1>3
  <2> HIDE DEF p, q
  <2> QED
    BY <2>1, <2>2
<1> HIDE DEF p, q
<1>5. PICK f : Joins(f, p, S) /\ FlattenSeq(p) = f[Len(p)]
  BY <1>1, JoinExists
<1>6. PICK g : Joins(g, q, S) /\ FlattenSeq(q) = g[Len(q)]
  BY <1>2, JoinExists
<1> DEFINE Total(n) == Len(f[n]) + Len(g[n])
           U == {n \in 0 .. Len(seq) : Total(n) # n}
<1>7. ASSUME U # {} PROVE FALSE
  <2>0. Len(seq) \in Nat
    OBVIOUS
  <2> HIDE DEF Total
  <2>1. U \subseteq Nat
    BY <2>0
  <2>2. PICK n \in U : \A k \in U : n <= k
    BY <1>7, <2>1, LeastNat
  <2>3. n # 0
    <3>1. f[0] = <<>> /\ g[0] = <<>> /\ Len(<<>>) = 0
      BY <1>5, <1>6 DEF Joins
    <3>2. Total(0) = 0
      BY <3>1 DEF Total
    <3> QED
      BY <2>2, <3>2
  <2>4. n \in 1 .. Len(seq) /\ n - 1 \in 0 .. Len(seq) /\ n - 1 \notin U
    BY <2>0, <2>2, <2>3
  <2>5. Len(f[n - 1]) + Len(g[n - 1]) = n - 1
    BY <2>4 DEF Total
  <2>6. f[n - 1] \in Seq(S) /\ g[n - 1] \in Seq(S)
    BY <1>1, <1>2, <1>5, <1>6, <2>4 DEF Joins
  <2>7. f[n] = f[n - 1] \o p[n] /\ g[n] = g[n - 1] \o q[n]
    BY <1>1, <1>2, <1>5, <1>6, <2>4 DEF Joins, Concat
  <2>8. Len(f[n - 1]) \in Nat /\ Len(g[n - 1]) \in Nat /\ Len(p[n]) \in Nat /\ Len(q[n]) \in Nat
    BY <1>4, <2>4, <2>6
  <2>9. Len(f[n]) = Len(f[n - 1]) + Len(p[n]) /\ Len(g[n]) = Len(g[n - 1]) + Len(q[n])
    BY <1>4, <2>4, <2>6, <2>7
  <2>10. Len(p[n]) + Len(q[n]) = 1
    BY <1>4, <2>4
  <2> HIDE DEF U
  <2>11. n \in Nat
    BY <2>0, <2>4
  <2>12. (Len(f[n - 1]) + Len(p[n])) + (Len(g[n - 1]) + Len(q[n])) = n
    <3> DEFINE a == Len(f[n - 1])
               b == Len(g[n - 1])
               c == Len(p[n])
               d == Len(q[n])
    <3>1. a \in Nat /\ b \in Nat /\ c \in Nat /\ d \in Nat /\ a + b = n - 1 /\ c + d = 1
      BY <2>5, <2>8, <2>10
    <3> HIDE DEF a, b, c, d
    <3>2. (a + c) + (b + d) = n
      BY <2>11, <3>1
    <3> QED
      BY <3>2 DEF a, b, c, d
  <2>13. Total(n) = n
    BY <2>9, <2>12 DEF Total
  <2> QED
    BY <2>2, <2>13 DEF U
<1>8. Len(seq) \in 0 .. Len(seq)
  BY <1>3
<1>9. Len(f[Len(seq)]) + Len(g[Len(seq)]) = Len(seq)
  BY <1>7, <1>8
<1> QED
  BY <1>1, <1>2, <1>5, <1>6, <1>9 DEF p, q

\* The only element of a sequence of one.
LEMMA OnlyElement ==
  ASSUME NEW S, NEW seq \in Seq(S)
  PROVE  /\ seq # <<>> => seq[1] \in ToSet(seq)
         /\ Len(seq) >= 1 => seq[1] \in ToSet(seq)
         /\ Len(seq) = 1 => ToSet(seq) = {seq[1]}
         /\ ToSet(seq) # {} => seq # <<>>
  BY DEF ToSet

LEMMA HavingElements ==
  ASSUME NEW S, NEW seq \in Seq(S), NEW id
  PROVE  /\ Having(seq, id) \in Seq(S)
         /\ ToSet(Having(seq, id)) = {item \in ToSet(seq) : item.id = id}
<1> DEFINE T == {item \in S : item.id = id}
<1>1. \A k \in DOMAIN seq : seq[k] \in T <=> seq[k].id = id
  OBVIOUS
<1>2. Having(seq, id) = FlattenSeq(Pieces(seq, T))
  BY <1>1 DEF Having, Where, FlatMap, Pieces
<1>3. ToSet(seq) \cap T = {item \in ToSet(seq) : item.id = id}
  BY DEF ToSet
<1> HIDE DEF T
<1> QED
  BY <1>2, <1>3, PiecesJoined

LEMMA CountOne ==
  ASSUME NEW S, NEW seq \in Seq(S), NEW value, Count(seq, value) = 1
  PROVE  value \in ToSet(seq)
<1> DEFINE chosen == FlattenSeq(Pieces(seq, {value}))
<1>1. \A k \in DOMAIN seq : seq[k] \in {value} <=> seq[k] = value
  OBVIOUS
<1>2. Count(seq, value) = Len(chosen)
  BY <1>1 DEF Count, Where, FlatMap, Pieces
<1>3. chosen \in Seq(S) /\ ToSet(chosen) = ToSet(seq) \cap {value}
  BY PiecesJoined
<1> HIDE DEF chosen
<1>4. ToSet(chosen) = {chosen[1]}
  BY <1>2, <1>3, OnlyElement
<1> QED
  BY <1>3, <1>4

LEMMA RelationsElements ==
  ASSUME NEW arf, IsOrdered(arf), NEW type, NEW subject
  PROVE  /\ Relations(arf, type, subject) \in Seq(ToSet(arf.relationships))
         /\ ToSet(Relations(arf, type, subject))
              = {rel \in ToSet(arf.relationships) : rel.type = type /\ rel.subject = subject}
<1> DEFINE S == ToSet(arf.relationships)
           T == {rel \in S : rel.type = type /\ rel.subject = subject}
<1>1. arf.relationships \in Seq(S)
  BY DEF IsOrdered
<1>2. \A k \in DOMAIN arf.relationships : arf.relationships[k] \in T
        <=> arf.relationships[k].type = type /\ arf.relationships[k].subject = subject
  BY DEF ToSet
<1>3. Relations(arf, type, subject) = FlattenSeq(Pieces(arf.relationships, T))
  BY <1>2 DEF Relations, Where, FlatMap, Pieces
<1>4. S \cap T = T
  OBVIOUS
<1> QED
  BY <1>1, <1>3, <1>4, PiecesJoined

-----------------------------------------------------------------------------
(* What acceptance means.                                                  *)

LEMMA SingleSaid ==
  ASSUME NEW arf, IsOrdered(arf), NEW type, NEW subject, SingleRelation(arf, type, subject)
  PROVE  Asserted(arf, type, subject) = {Related(arf, type, subject)}
<1> DEFINE matches == Relations(arf, type, subject)
           rel == matches[1]
<1>1. Len(matches) = 1 /\ Len(rel.refs) = 1
  BY DEF SingleRelation
<1>2. /\ matches \in Seq(ToSet(arf.relationships))
      /\ ToSet(matches) = {r \in ToSet(arf.relationships) : r.type = type /\ r.subject = subject}
  BY RelationsElements
<1>3. Related(arf, type, subject) = rel.refs[1]
  BY DEF Related
<1> HIDE DEF matches
<1>4. ToSet(matches) = {rel}
  BY <1>1, <1>2, OnlyElement
<1>5. rel \in ToSet(arf.relationships)
  BY <1>2, <1>4
<1>6. rel.refs \in Seq(ToSet(rel.refs))
  BY <1>5 DEF IsOrdered
<1>7. ToSet(rel.refs) = {rel.refs[1]}
  BY <1>1, <1>6, OnlyElement
<1> QED
  BY <1>2, <1>3, <1>4, <1>7 DEF Asserted

\* Every checklist of an accepted collection is the payload of a component.
LEMMA ChecklistsElements ==
  ASSUME NEW arf, IsOrdered(arf), NEW request \in ToSet(arf.requests), CollectionAccepted(request)
  PROVE  /\ Checklists(request) \in Seq({component.payload : component \in ToSet(request.components)})
         /\ \A payload \in ToSet(Checklists(request)) :
              \E component \in ToSet(request.components) : payload = component.payload
<1> DEFINE Refs(k) == request.streams[k].refs
           parts == [k \in DOMAIN request.streams |-> Refs(k)]
           R == UNION {ToSet(stream.refs) : stream \in ToSet(request.streams)}
           refs == FlattenSeq(parts)
           P == {component.payload : component \in ToSet(request.components)}
           Payload(k) == Having(request.components, refs[k].component)[1].payload
<1>1. /\ request.streams \in Seq(ToSet(request.streams))
      /\ DOMAIN request.streams = 1 .. Len(request.streams) /\ Len(request.streams) \in Nat
      /\ request.components \in Seq(ToSet(request.components))
  BY DEF IsOrdered
<1>2. ASSUME NEW k \in DOMAIN request.streams PROVE Refs(k) \in Seq(R)
  <2>1. request.streams[k] \in ToSet(request.streams)
    BY DEF ToSet
  <2>2. Refs(k) \in Seq(ToSet(Refs(k)))
    BY <2>1 DEF IsOrdered
  <2>3. ToSet(Refs(k)) \subseteq R
    BY <2>1
  <2> HIDE DEF Refs, R
  <2> QED
    BY <2>2, <2>3
<1>3. parts \in Seq(Seq(R))
  <2> HIDE DEF Refs, R
  <2> QED
    BY <1>1, <1>2
<1>4. refs \in Seq(R) /\ DOMAIN refs = 1 .. Len(refs) /\ Len(refs) \in Nat
  <2> HIDE DEF parts, R
  <2> QED
    BY <1>3, Flattened
<1> HIDE DEF refs, Refs, parts
<1>5. ASSUME NEW ref \in R
      PROVE  Having(request.components, ref.component)[1] \in ToSet(request.components)
  <2>1. PICK stream \in ToSet(request.streams) : ref \in ToSet(stream.refs)
    OBVIOUS
  <2>2. ref.component \in ToSet(IdsOf(request.components))
    BY <2>1 DEF CollectionAccepted
  <2>3. PICK k \in DOMAIN request.components : request.components[k].id = ref.component
    BY <2>2 DEF ToSet, IdsOf
  <2>4. request.components[k] \in ToSet(request.components)
    BY DEF ToSet
  <2> DEFINE chosen == Having(request.components, ref.component)
  <2>5. /\ chosen \in Seq(ToSet(request.components))
        /\ ToSet(chosen) = {item \in ToSet(request.components) : item.id = ref.component}
    BY <1>1, HavingElements
  <2> HIDE DEF chosen
  <2>6. chosen[1] \in ToSet(chosen)
    BY <2>3, <2>4, <2>5, OnlyElement
  <2> QED
    BY <2>5, <2>6 DEF chosen
<1>6. \A k \in DOMAIN refs : refs[k] \in R
  BY <1>4
<1>7. \A k \in DOMAIN refs : Payload(k) \in P
  BY <1>5, <1>6
<1>8. Checklists(request) = [k \in DOMAIN refs |-> Payload(k)]
  BY DEF Checklists, References, refs, parts, Refs
<1> HIDE DEF Payload, P
<1>9. Checklists(request) \in Seq(P)
  BY <1>4, <1>7, <1>8
<1>10. \A payload \in ToSet(Checklists(request)) : payload \in P
  BY <1>7, <1>8 DEF ToSet
<1> QED
  BY <1>9, <1>10 DEF P

\* The request that an identifier of the document leads to.
LEMMA RequestOf ==
  ASSUME NEW arf, IsOrdered(arf), NEW id \in ToSet(IdsOf(arf.requests))
  PROVE  /\ Having(arf.requests, id)[1] \in ToSet(arf.requests)
         /\ Having(arf.requests, id)[1].id = id
<1> DEFINE chosen == Having(arf.requests, id)
<1>1. PICK k \in DOMAIN arf.requests : arf.requests[k].id = id
  BY DEF ToSet, IdsOf
<1>2. arf.requests[k] \in ToSet(arf.requests)
  BY DEF ToSet
<1>3. /\ chosen \in Seq(ToSet(arf.requests))
      /\ ToSet(chosen) = {item \in ToSet(arf.requests) : item.id = id}
  BY HavingElements DEF IsOrdered
<1> HIDE DEF chosen
<1>4. chosen[1] \in ToSet(chosen)
  BY <1>1, <1>2, <1>3, OnlyElement
<1> QED
  BY <1>3, <1>4 DEF chosen

\* A Benchmark of the collection is the one the TestResult names, and offers the
\* profile it selected.
LEMMA LinkedBenchmark ==
  ASSUME NEW arf, IsOrdered(arf), NEW request \in ToSet(arf.requests), CollectionAccepted(request),
         NEW result, BenchmarkLinked(request, result)
  PROVE  \E checklist \in ToSet(Checklists(request)) :
           /\ checklist.kind = "Benchmark" /\ checklist.id = result.benchmark
           /\ result.profile # None => result.profile \in ToSet(checklist.items)
<1> DEFINE P == {component.payload : component \in ToSet(request.components)}
           T == {payload \in P : payload.kind = "Benchmark" /\ payload.id = result.benchmark}
           matches == FlattenSeq(Pieces(Checklists(request), T))
<1>1. Checklists(request) \in Seq(P)
  BY ChecklistsElements
<1>2. \A k \in DOMAIN Checklists(request) : Checklists(request)[k] \in T
        <=> Checklists(request)[k].kind = "Benchmark" /\ Checklists(request)[k].id = result.benchmark
  <2> HIDE DEF P
  <2> QED
    BY <1>1
<1>3. matches = Where(LAMBDA payload : payload.kind = "Benchmark" /\ payload.id = result.benchmark,
                      Checklists(request))
  BY <1>2 DEF Where, FlatMap, Pieces
<1>4. /\ Len(matches) = 1
      /\ result.profile # None => Count(matches[1].items, result.profile) = 1
  BY <1>3 DEF BenchmarkLinked
<1> HIDE DEF P, T
<1>5. matches \in Seq(P) /\ ToSet(matches) = ToSet(Checklists(request)) \cap T
  BY <1>1, PiecesJoined
<1> HIDE DEF matches
<1>6. matches[1] \in ToSet(Checklists(request)) /\ matches[1] \in T
  BY <1>4, <1>5, OnlyElement
<1>7. matches[1].kind = "Benchmark" /\ matches[1].id = result.benchmark
  BY <1>6 DEF T
<1>8. PICK component \in ToSet(request.components) : matches[1] = component.payload
  BY <1>6, ChecklistsElements
<1>9. matches[1].items \in Seq(ToSet(matches[1].items))
  BY <1>8 DEF IsOrdered
<1> QED
  BY <1>4, <1>6, <1>7, <1>9, CountOne

\* An accepted collection says of a TestResult report that it was created for
\* one request, which is in it and has the report's Benchmark.
LEMMA CollectionOf ==
  ASSUME NEW arf, IsOrdered(arf), ArfAccepted(arf),
         NEW report \in ToSet(arf.reports), report.payload.kind = "TestResult"
  PROVE  \E request \in ToSet(arf.requests) :
           /\ request.id = Linkage(arf, report).collection
           /\ request = Having(arf.requests, request.id)[1]
           /\ CollectionAccepted(request)
           /\ Asserted(arf, "arfvocab:createdFor", report.id) = {request.id}
           /\ BenchmarkLinked(request, report.payload)
<1> DEFINE id == Related(arf, "arfvocab:createdFor", report.id)
           request == Having(arf.requests, id)[1]
<1>1. TestResultAccepted(arf, report)
  BY DEF ArfAccepted, ReportAccepted
<1>2. /\ SingleRelation(arf, "arfvocab:createdFor", report.id)
      /\ id \in ToSet(IdsOf(arf.requests))
      /\ BenchmarkLinked(request, report.payload)
  BY <1>1 DEF TestResultAccepted
<1>3. Linkage(arf, report).collection = id
  BY DEF Linkage
<1> HIDE DEF id
<1>4. request \in ToSet(arf.requests) /\ request.id = id
  BY <1>2, RequestOf
<1>5. Asserted(arf, "arfvocab:createdFor", report.id) = {id}
  BY <1>2, SingleSaid DEF id
<1>6. CollectionAccepted(request)
  BY <1>4 DEF ArfAccepted
<1> QED
  BY <1>2, <1>3, <1>4, <1>5, <1>6

\* The identifiers of an accepted document are its own.
LEMMA ReportIds ==
  ASSUME NEW arf, IsOrdered(arf), ArfAccepted(arf)
  PROVE  IsInjective(IdsOf(arf.reports))
<1> DEFINE ids == IdsOf(arf.reports) \o IdsOf(arf.requests)
           All == ToSet(IdsOf(arf.reports)) \cup ToSet(IdsOf(arf.requests))
<1>1. /\ DOMAIN arf.reports = 1 .. Len(arf.reports) /\ Len(arf.reports) \in Nat
      /\ DOMAIN arf.requests = 1 .. Len(arf.requests) /\ Len(arf.requests) \in Nat
  BY DEF IsOrdered
<1>2. IdsOf(arf.reports) \in Seq(All) /\ IdsOf(arf.requests) \in Seq(All)
  <2>1. \A n \in DOMAIN arf.reports : arf.reports[n].id \in All
    BY DEF IdsOf, ToSet
  <2>2. \A n \in DOMAIN arf.requests : arf.requests[n].id \in All
    BY DEF IdsOf, ToSet
  <2> HIDE DEF All
  <2> QED
    BY <1>1, <2>1, <2>2 DEF IdsOf
<1>3. Len(IdsOf(arf.reports)) = Len(arf.reports) /\ Len(IdsOf(arf.requests)) = Len(arf.requests)
  BY <1>1 DEF IdsOf
<1> HIDE DEF All
<1>4. \A n \in DOMAIN arf.reports : n \in DOMAIN ids /\ ids[n] = IdsOf(arf.reports)[n]
  BY <1>1, <1>2, <1>3
<1>5. IsInjective(ids)
  BY DEF ArfAccepted
<1>6. DOMAIN IdsOf(arf.reports) = DOMAIN arf.reports
  BY DEF IdsOf
<1> HIDE DEF ids
<1> QED
  BY <1>4, <1>5, <1>6 DEF IsInjective

LEMMA OneReport ==
  ASSUME NEW arf, IsOrdered(arf), ArfAccepted(arf), NEW one \in ToSet(arf.reports),
         NEW other \in ToSet(arf.reports), one.id = other.id
  PROVE  one = other
<1>1. PICK j \in DOMAIN arf.reports : one = arf.reports[j]
  BY DEF ToSet
<1>2. PICK k \in DOMAIN arf.reports : other = arf.reports[k]
  BY DEF ToSet
<1> QED
  BY <1>1, <1>2, ReportIds DEF IsInjective, IdsOf

LEMMA RequestIds ==
  ASSUME NEW arf, IsOrdered(arf), ArfAccepted(arf)
  PROVE  IsInjective(IdsOf(arf.requests))
<1> DEFINE ids == IdsOf(arf.reports) \o IdsOf(arf.requests)
           All == ToSet(IdsOf(arf.reports)) \cup ToSet(IdsOf(arf.requests))
           first == Len(arf.reports)
<1>1. /\ DOMAIN arf.reports = 1 .. Len(arf.reports) /\ Len(arf.reports) \in Nat
      /\ DOMAIN arf.requests = 1 .. Len(arf.requests) /\ Len(arf.requests) \in Nat
  BY DEF IsOrdered
<1>2. IdsOf(arf.reports) \in Seq(All) /\ IdsOf(arf.requests) \in Seq(All)
  <2>1. \A n \in DOMAIN arf.reports : arf.reports[n].id \in All
    BY DEF IdsOf, ToSet
  <2>2. \A n \in DOMAIN arf.requests : arf.requests[n].id \in All
    BY DEF IdsOf, ToSet
  <2> HIDE DEF All
  <2> QED
    BY <1>1, <2>1, <2>2 DEF IdsOf
<1>3. Len(IdsOf(arf.reports)) = first /\ Len(IdsOf(arf.requests)) = Len(arf.requests)
  BY <1>1 DEF IdsOf
<1> HIDE DEF All
<1>4. \A n \in DOMAIN arf.requests : first + n \in DOMAIN ids /\ ids[first + n] = IdsOf(arf.requests)[n]
  BY <1>1, <1>2, <1>3
<1>5. IsInjective(ids)
  BY DEF ArfAccepted
<1>6. DOMAIN IdsOf(arf.requests) = DOMAIN arf.requests /\ DOMAIN arf.requests \subseteq Nat /\ first \in Nat
  BY <1>1 DEF IdsOf
<1> HIDE DEF ids, first
<1> QED
  BY <1>4, <1>5, <1>6 DEF IsInjective

LEMMA OneRequest ==
  ASSUME NEW arf, IsOrdered(arf), ArfAccepted(arf), NEW one \in ToSet(arf.requests),
         NEW other \in ToSet(arf.requests), one.id = other.id
  PROVE  one = other
<1>1. PICK j \in DOMAIN arf.requests : one = arf.requests[j]
  BY DEF ToSet
<1>2. PICK k \in DOMAIN arf.requests : other = arf.requests[k]
  BY DEF ToSet
<1> QED
  BY <1>1, <1>2, RequestIds DEF IsInjective, IdsOf

\* Of a sequence whose identifiers differ, at most one element has a given one.
LEMMA HavingAtMostOne ==
  ASSUME NEW S, NEW seq \in Seq(S), IsInjective(IdsOf(seq)), NEW id
  PROVE  Len(Having(seq, id)) <= 1
<1> DEFINE T == {item \in S : item.id = id}
           chosen == Having(seq, id)
<1>1. \A k \in DOMAIN seq : seq[k] \in T <=> seq[k].id = id
  OBVIOUS
<1>2. chosen = FlattenSeq(Pieces(seq, T))
  BY <1>1 DEF Having, Where, FlatMap, Pieces
<1>3. \A j, k \in DOMAIN seq : seq[j].id = seq[k].id => j = k
  BY DEF IsInjective, IdsOf
<1>4. IsInjective(seq)
  BY <1>3 DEF IsInjective
<1> HIDE DEF T
<1>5. IsInjective(chosen)
  BY <1>2, <1>4, PiecesInjective
<1>6. chosen \in Seq(S) /\ ToSet(chosen) = {item \in ToSet(seq) : item.id = id}
  BY HavingElements
<1> HIDE DEF chosen
<1>7. \A one, other \in ToSet(chosen) : one = other
  <2> SUFFICES ASSUME NEW one \in ToSet(chosen), NEW other \in ToSet(chosen) PROVE one = other
    OBVIOUS
  <2>1. PICK j \in DOMAIN seq : one = seq[j] /\ one.id = id
    BY <1>6 DEF ToSet
  <2>2. PICK k \in DOMAIN seq : other = seq[k] /\ other.id = id
    BY <1>6 DEF ToSet
  <2> QED
    BY <1>3, <2>1, <2>2
<1>8. ASSUME Len(chosen) > 1 PROVE FALSE
  <2>1. 1 \in DOMAIN chosen /\ 2 \in DOMAIN chosen
    BY <1>6, <1>8
  <2>2. chosen[1] = chosen[2]
    BY <1>7, <2>1 DEF ToSet
  <2> QED
    BY <1>5, <2>1, <2>2 DEF IsInjective
<1> QED
  BY <1>6, <1>8 DEF chosen

\* The asset an accepted document links a TestResult to: the one the vocabulary
\* that is looked at names, and the only one if the other says nothing.
LEMMA AssetOf ==
  ASSUME NEW arf, IsOrdered(arf), ArfAccepted(arf),
         NEW report \in ToSet(arf.reports), report.payload.kind = "TestResult"
  PROVE  /\ Linkage(arf, report).asset \in ToSet(arf.assets)
         /\ Asserted(arf, AssetRelation(arf, report.id), report.id) = {Linkage(arf, report).asset}
         /\ AssetRelation(arf, report.id) = "arfvocab:isAbout"
              => Asserted(arf, "arfrel:isAbout", report.id) = {}
<1> DEFINE type == AssetRelation(arf, report.id)
<1>1. TestResultAccepted(arf, report)
  BY DEF ArfAccepted, ReportAccepted
<1>2. SingleRelation(arf, type, report.id) /\ Related(arf, type, report.id) \in ToSet(arf.assets)
  BY <1>1 DEF TestResultAccepted
<1>3. Linkage(arf, report).asset = Related(arf, type, report.id)
  BY DEF Linkage
<1>4. Asserted(arf, type, report.id) = {Related(arf, type, report.id)}
  BY <1>2, SingleSaid
<1>5. ASSUME type = "arfvocab:isAbout" PROVE Asserted(arf, "arfrel:isAbout", report.id) = {}
  <2>1. Relations(arf, "arfrel:isAbout", report.id) = <<>>
    BY <1>5 DEF AssetRelation
  <2>2. {rel \in ToSet(arf.relationships) : rel.type = "arfrel:isAbout" /\ rel.subject = report.id} = {}
    <3>1. ToSet(Relations(arf, "arfrel:isAbout", report.id)) = {}
      BY <2>1 DEF ToSet
    <3> QED
      BY <3>1, RelationsElements
  <2> QED
    BY <2>2 DEF Asserted
<1> QED
  BY <1>2, <1>3, <1>4, <1>5
=============================================================================
