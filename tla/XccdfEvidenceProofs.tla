------------------------- MODULE XccdfEvidenceProofs -------------------------
(***************************************************************************)
(* What the XCCDF commands say of any documents and in any order of runs:  *)
(* the outcomes that reach an artifact, findings that are the author's,    *)
(* identifiers that stand for one observation, and the agreement of the    *)
(* commands with one another.                                              *)
(***************************************************************************)
EXTENDS XccdfEvidence, ArfIntakeProofs

XccdfArtifact(doc, m) ==
  Artifact("xccdf", doc, m, AssessmentResults(doc, TestResults(doc), m, None))
ArfArtifact(arf, m) == Artifact("arf", arf, m, FromArf(arf, m))

IsXccdf(output) ==
  \E doc \in XccdfDocs, m \in MappingDocs :
    XccdfAccepted(doc) /\ MappingAccepted(m) /\ output = XccdfArtifact(doc, m)
IsArf(output) ==
  \E arf \in ArfDocs, m \in MappingDocs :
    /\ ArfAccepted(arf) /\ MappingAccepted(m) /\ ExactlyOneReport(arf)
    /\ output = ArfArtifact(arf, m)
Envelope(source, doc) == [kind |-> "envelope", source |-> source, doc |-> doc]
IsEnvelope(output) ==
  \/ \E doc \in XccdfDocs : XccdfAccepted(doc) /\ output = Envelope(doc, NormalizeXccdf(doc))
  \/ \E arf \in ArfDocs : ArfAccepted(arf) /\ output = Envelope(arf, NormalizeArf(arf))
XccdfReport(doc, m) == Artifact("mapping-report", doc, m, MappingReport(TestResults(doc), m))
IsReport(output) ==
  \E doc \in XccdfDocs, m \in MappingDocs :
    XccdfAccepted(doc) /\ MappingAccepted(m) /\ output = XccdfReport(doc, m)

\* The inductive invariant: every output is what its command makes of inputs
\* that were accepted.
IInv == \A output \in outputs :
  IsXccdf(output) \/ IsArf(output) \/ IsEnvelope(output) \/ IsReport(output)

LEMMA Outputs ==
  ASSUME IInv
  PROVE  /\ \A output \in OfKind("xccdf") : IsXccdf(output)
         /\ \A output \in OfKind("arf") : IsArf(output)
         /\ \A output \in OfKind("envelope") : IsEnvelope(output)
         /\ \A output \in OfKind("mapping-report") : IsReport(output)
<1>1. \A output : /\ IsXccdf(output) => output.kind = "xccdf"
                  /\ IsArf(output) => output.kind = "arf"
                  /\ IsEnvelope(output) => output.kind = "envelope"
                  /\ IsReport(output) => output.kind = "mapping-report"
  BY DEF IsXccdf, IsArf, IsEnvelope, IsReport, XccdfArtifact, ArfArtifact, XccdfReport, Artifact, Envelope
<1> QED
  BY <1>1 DEF IInv, OfKind

LEMMA InitIInv == Init => IInv
  BY DEF Init, IInv

LEMMA NextIInv == IInv /\ [Next]_outputs => IInv'
<1> SUFFICES ASSUME IInv, [Next]_outputs PROVE IInv'
  OBVIOUS
<1>1. \A o : /\ IsXccdf(o) <=> IsXccdf(o)'
             /\ IsArf(o) <=> IsArf(o)'
             /\ IsEnvelope(o) <=> IsEnvelope(o)'
             /\ IsReport(o) <=> IsReport(o)'
  BY DEF IsXccdf, IsArf, IsEnvelope, IsReport
<1>2. CASE UNCHANGED outputs
  BY <1>1, <1>2 DEF IInv
<1>3. ASSUME NEW output, Emit(output),
             IsXccdf(output) \/ IsArf(output) \/ IsEnvelope(output) \/ IsReport(output)
      PROVE  IInv'
  BY <1>1, <1>3 DEF IInv, Emit
<1>4. ASSUME NEW doc \in XccdfDocs, NEW m \in MappingDocs, ConvertXccdf(doc, m) PROVE IInv'
  <2>1. IsXccdf(XccdfArtifact(doc, m)) /\ Emit(XccdfArtifact(doc, m))
    BY <1>4 DEF ConvertXccdf, IsXccdf, XccdfArtifact
  <2> QED
    BY <1>3, <2>1
<1>5. ASSUME NEW doc \in XccdfDocs, NEW m \in MappingDocs, ReportXccdf(doc, m) PROVE IInv'
  <2>1. IsReport(XccdfReport(doc, m)) /\ Emit(XccdfReport(doc, m))
    BY <1>5 DEF ReportXccdf, IsReport, XccdfReport
  <2> QED
    BY <1>3, <2>1
<1>6. ASSUME NEW arf \in ArfDocs, NEW m \in MappingDocs, ConvertArfXccdf(arf, m) PROVE IInv'
  <2>1. IsArf(ArfArtifact(arf, m)) /\ Emit(ArfArtifact(arf, m))
    BY <1>6 DEF ConvertArfXccdf, IsArf, ArfArtifact
  <2> QED
    BY <1>3, <2>1
<1>7. CASE InspectEvidence
  <2>1. PICK output : IsEnvelope(output) /\ Emit(output)
    BY <1>7 DEF InspectEvidence, IsEnvelope, Envelope
  <2> QED
    BY <1>3, <2>1
<1> QED
  BY <1>2, <1>4, <1>5, <1>6, <1>7 DEF Next

\* Every output in the archive is what its command makes of accepted inputs.
THEOREM Invariance == Spec => []IInv
  BY InitIInv, NextIInv, PTL DEF Spec

-----------------------------------------------------------------------------
(* What a conversion collects from TestResults.                            *)

Shaped(tests, m) ==
  /\ tests \in Seq(ToSet(tests)) /\ m \in Seq(ToSet(m))
  /\ \A t \in DOMAIN tests : tests[t].rules \in Seq(ToSet(tests[t].rules))

ObservationOf(source, tests, m, provenance, t, k) ==
  Observation(RunId(source, m), source, tests[t], tests[t].rules[k], provenance)

FindingOf(source, tests, m, t, k, n) ==
  Finding(RunId(source, m), m, tests[t], tests[t].rules[k], m[n])

Told(source, tests, m, t, k, n) == Applies(m[n], tests[t], tests[t].rules[k])

\* The identifiers tell the rule results of a document apart.
Distinct(tests) ==
  /\ IsInjective(IdsOf(tests))
  /\ \A t \in DOMAIN tests : IsInjective([k \in DOMAIN tests[t].rules |-> tests[t].rules[k].idref])

LEMMA Numbered ==
  ASSUME NEW S, NEW s \in Seq(S)
  PROVE  DOMAIN s = 1 .. Len(s) /\ Len(s) \in Nat
  OBVIOUS

LEMMA ObservationIds ==
  ASSUME NEW source, NEW tests, NEW m, NEW provenance, NEW t, NEW k
  PROVE  /\ ObservationOf(source, tests, m, provenance, t, k).uuid
              = <<<<source, m>>, tests[t].id, tests[t].rules[k].idref>>
         /\ ObservationOf(source, tests, m, provenance, t, k).benchmark = tests[t].benchmark
         /\ ObservationOf(source, tests, m, provenance, t, k).test = tests[t].id
         /\ ObservationOf(source, tests, m, provenance, t, k).rule = tests[t].rules[k].idref
         /\ ObservationOf(source, tests, m, provenance, t, k).result = tests[t].rules[k].result
  BY DEF ObservationOf, Observation, ObservationId, RunId

\* A rule result is told by the identifiers of its TestResult and its rule.
LEMMA ObservationsDiffer ==
  ASSUME NEW source, NEW tests, NEW m, NEW provenance, Distinct(tests),
         NEW t \in DOMAIN tests, NEW k \in DOMAIN tests[t].rules,
         NEW u \in DOMAIN tests, NEW j \in DOMAIN tests[u].rules,
         ObservationOf(source, tests, m, provenance, t, k).uuid
           = ObservationOf(source, tests, m, provenance, u, j).uuid
  PROVE  t = u /\ k = j
<1>1. tests[t].id = tests[u].id /\ tests[t].rules[k].idref = tests[u].rules[j].idref
  BY ObservationIds
<1>2. t = u
  BY <1>1 DEF Distinct, IdsOf, IsInjective
<1>3. k = j
  BY <1>1, <1>2 DEF Distinct, IsInjective
<1> QED
  BY <1>2, <1>3

IsOfTest(x, source, tests, m, provenance, t) ==
  \E k \in DOMAIN tests[t].rules : x = ObservationOf(source, tests, m, provenance, t, k)

LEMMA ObservationsOf ==
  ASSUME NEW source, NEW tests, NEW m, NEW provenance, Shaped(tests, m)
  PROVE  /\ \A x : x \in ToSet(AssessmentResults(source, tests, m, provenance).observations) <=>
              \E t \in DOMAIN tests : IsOfTest(x, source, tests, m, provenance, t)
         /\ Distinct(tests) => IsInjective(AssessmentResults(source, tests, m, provenance).observations)
<1> DEFINE Piece(t) == [k \in DOMAIN tests[t].rules |-> ObservationOf(source, tests, m, provenance, t, k)]
           pieces == [t \in DOMAIN tests |-> Piece(t)]
           S == UNION {ToSet(Piece(t)) : t \in DOMAIN tests}
<1>1. AssessmentResults(source, tests, m, provenance).observations = FlattenSeq(pieces)
  BY DEF AssessmentResults, FlatMap, ObservationOf
<1>2. \A t \in DOMAIN tests : \A x : x \in ToSet(Piece(t)) <=>
        IsOfTest(x, source, tests, m, provenance, t)
  BY DEF ToSet, IsOfTest
<1>3. ASSUME NEW t \in DOMAIN tests PROVE Piece(t) \in Seq(S)
  <2>1. DOMAIN tests[t].rules = 1 .. Len(tests[t].rules) /\ Len(tests[t].rules) \in Nat
    BY Numbered DEF Shaped
  <2>2. \A k \in DOMAIN tests[t].rules : ObservationOf(source, tests, m, provenance, t, k) \in S
    BY <1>2 DEF IsOfTest
  <2> HIDE DEF S
  <2> QED
    BY <2>1, <2>2
<1>4. DOMAIN pieces = DOMAIN tests /\ \A t \in DOMAIN tests : pieces[t] = Piece(t)
  OBVIOUS
<1>5. pieces \in Seq(Seq(S))
  <2>1. DOMAIN tests = 1 .. Len(tests) /\ Len(tests) \in Nat
    BY Numbered DEF Shaped
  <2> HIDE DEF S, Piece
  <2> QED
    BY <1>3, <2>1
<1>6. ASSUME Distinct(tests) PROVE Apart(pieces)
  <2>1. ASSUME NEW t \in DOMAIN tests PROVE IsInjective(Piece(t))
    BY <1>6, ObservationsDiffer DEF IsInjective
  <2>2. ASSUME NEW t \in DOMAIN tests, NEW u \in DOMAIN tests, NEW x \in ToSet(Piece(t)) \cap ToSet(Piece(u))
        PROVE  t = u
    <3>1. PICK k \in DOMAIN tests[t].rules : x = ObservationOf(source, tests, m, provenance, t, k)
      BY <1>2, <2>2 DEF IsOfTest
    <3>2. PICK j \in DOMAIN tests[u].rules : x = ObservationOf(source, tests, m, provenance, u, j)
      BY <1>2, <2>2 DEF IsOfTest
    <3>3. ObservationOf(source, tests, m, provenance, t, k).uuid
            = ObservationOf(source, tests, m, provenance, u, j).uuid
      BY <3>1, <3>2
    <3> QED
      BY <1>6, <3>3, ObservationsDiffer
  <2> HIDE DEF Piece, pieces
  <2> QED
    BY <1>4, <2>1, <2>2 DEF Apart
<1> HIDE DEF Piece, pieces, S
<1> QED
  BY <1>1, <1>2, <1>4, <1>5, <1>6, Flattened

AllFindings(source, tests, m) ==
  UNION {UNION {{FindingOf(source, tests, m, t, k, n) : n \in DOMAIN m} : k \in DOMAIN tests[t].rules} :
           t \in DOMAIN tests}

RuleFindings(source, tests, m, t, k) == FindingsOf(RunId(source, m), m, tests[t], tests[t].rules[k])

IsOfRule(x, source, tests, m, t, k) ==
  \E n \in DOMAIN m : Told(source, tests, m, t, k, n) /\ x = FindingOf(source, tests, m, t, k, n)

LEMMA FindingIds ==
  ASSUME NEW source, NEW tests, NEW m, NEW t, NEW k, NEW n
  PROVE  /\ FindingOf(source, tests, m, t, k, n).uuid
              = <<<<source, m>>, tests[t].rules[k].idref, m[n].target.type, m[n].target.id>>
         /\ FindingOf(source, tests, m, t, k, n).rule = tests[t].rules[k].idref
         /\ FindingOf(source, tests, m, t, k, n).result = tests[t].rules[k].result
         /\ FindingOf(source, tests, m, t, k, n).mapping = m
         /\ FindingOf(source, tests, m, t, k, n).observation
              = <<<<source, m>>, tests[t].id, tests[t].rules[k].idref>>
         /\ FindingOf(source, tests, m, t, k, n).target = m[n].target
         /\ FindingOf(source, tests, m, t, k, n).status = m[n].outcomes[tests[t].rules[k].result]
  BY DEF FindingOf, Finding, ObservationId, RunId

\* The author decides a target for a rule of a benchmark once.
Decisive(m) == \A k, n \in DOMAIN m :
  /\ m[k].benchmark = m[n].benchmark /\ m[k].rule = m[n].rule
  /\ m[k].target.type = m[n].target.type /\ m[k].target.id = m[n].target.id
  => k = n

\* A finding is told by its identifier and the observation it points at.
LEMMA FindingsDiffer ==
  ASSUME NEW source, NEW tests, NEW m, Distinct(tests), Decisive(m),
         NEW t \in DOMAIN tests, NEW k \in DOMAIN tests[t].rules, NEW n \in DOMAIN m,
         NEW u \in DOMAIN tests, NEW j \in DOMAIN tests[u].rules, NEW l \in DOMAIN m,
         Told(source, tests, m, t, k, n), Told(source, tests, m, u, j, l),
         FindingOf(source, tests, m, t, k, n).uuid = FindingOf(source, tests, m, u, j, l).uuid,
         FindingOf(source, tests, m, t, k, n).observation = FindingOf(source, tests, m, u, j, l).observation
  PROVE  t = u /\ k = j /\ n = l
<1>1. tests[t].id = tests[u].id /\ tests[t].rules[k].idref = tests[u].rules[j].idref
  BY FindingIds
<1>2. t = u
  BY <1>1 DEF Distinct, IdsOf, IsInjective
<1>3. k = j
  BY <1>1, <1>2 DEF Distinct, IsInjective
<1>4. /\ m[n].benchmark = tests[t].benchmark /\ m[l].benchmark = tests[u].benchmark
      /\ m[n].rule = tests[t].rules[k].idref /\ m[l].rule = tests[u].rules[j].idref
  BY DEF Told, Applies
<1>5. m[n].target.type = m[l].target.type /\ m[n].target.id = m[l].target.id
  BY FindingIds
<1>6. n = l
  BY <1>1, <1>2, <1>4, <1>5 DEF Decisive
<1> QED
  BY <1>2, <1>3, <1>6

\* The findings of one rule result, then of one TestResult, then of all.
LEMMA FindingsOfRule ==
  ASSUME NEW source, NEW tests, NEW m, Shaped(tests, m), NEW t \in DOMAIN tests, NEW k \in DOMAIN tests[t].rules
  PROVE  /\ RuleFindings(source, tests, m, t, k) \in Seq(AllFindings(source, tests, m))
         /\ \A x : x \in ToSet(RuleFindings(source, tests, m, t, k)) <=>
              IsOfRule(x, source, tests, m, t, k)
         /\ Distinct(tests) /\ Decisive(m) => IsInjective(RuleFindings(source, tests, m, t, k))
<1> DEFINE Piece(n) == IF Told(source, tests, m, t, k, n) THEN <<FindingOf(source, tests, m, t, k, n)>> ELSE <<>>
           pieces == [n \in DOMAIN m |-> Piece(n)]
<1>1. RuleFindings(source, tests, m, t, k) = FlattenSeq(pieces)
  BY DEF RuleFindings, FindingsOf, FlatMap, Told, FindingOf
<1>2. \A n \in DOMAIN m : Piece(n) \in Seq(AllFindings(source, tests, m))
  <2>1. \A n \in DOMAIN m : FindingOf(source, tests, m, t, k, n) \in AllFindings(source, tests, m)
    BY DEF AllFindings
  <2> QED
    BY <2>1
<1>3. \A n \in DOMAIN m : \A x : x \in ToSet(Piece(n)) <=>
        Told(source, tests, m, t, k, n) /\ x = FindingOf(source, tests, m, t, k, n)
  BY DEF ToSet
<1>4. DOMAIN pieces = DOMAIN m /\ \A n \in DOMAIN m : pieces[n] = Piece(n)
  OBVIOUS
<1>5. pieces \in Seq(Seq(AllFindings(source, tests, m)))
  <2>1. DOMAIN m = 1 .. Len(m) /\ Len(m) \in Nat
    BY Numbered DEF Shaped
  <2> HIDE DEF Piece
  <2> QED
    BY <1>2, <2>1
<1>6. ASSUME Distinct(tests), Decisive(m) PROVE Apart(pieces)
  <2>1. ASSUME NEW n \in DOMAIN m PROVE IsInjective(Piece(n))
    BY DEF IsInjective
  <2>2. ASSUME NEW n \in DOMAIN m, NEW l \in DOMAIN m, NEW x \in ToSet(Piece(n)) \cap ToSet(Piece(l))
        PROVE  n = l
    <3>1. /\ Told(source, tests, m, t, k, n) /\ x = FindingOf(source, tests, m, t, k, n)
          /\ Told(source, tests, m, t, k, l) /\ x = FindingOf(source, tests, m, t, k, l)
      BY <1>3, <2>2
    <3> HIDE DEF Piece, pieces
    <3> QED
      BY <1>6, <3>1, FindingsDiffer
  <2> HIDE DEF Piece, pieces
  <2> QED
    BY <1>4, <2>1, <2>2 DEF Apart
<1> HIDE DEF Piece, pieces
<1> QED
  BY <1>1, <1>3, <1>4, <1>5, <1>6, Flattened DEF IsOfRule

TestFindings(source, tests, m, t) ==
  FlatMap(LAMBDA rule : FindingsOf(RunId(source, m), m, tests[t], rule), tests[t].rules)

LEMMA FindingsOfTest ==
  ASSUME NEW source, NEW tests, NEW m, Shaped(tests, m), NEW t \in DOMAIN tests
  PROVE  /\ TestFindings(source, tests, m, t) \in Seq(AllFindings(source, tests, m))
         /\ \A x : x \in ToSet(TestFindings(source, tests, m, t)) <=>
              \E k \in DOMAIN tests[t].rules : IsOfRule(x, source, tests, m, t, k)
         /\ Distinct(tests) /\ Decisive(m) => IsInjective(TestFindings(source, tests, m, t))
<1> DEFINE Piece(k) == RuleFindings(source, tests, m, t, k)
           pieces == [k \in DOMAIN tests[t].rules |-> Piece(k)]
<1>1. TestFindings(source, tests, m, t) = FlattenSeq(pieces)
  BY DEF TestFindings, RuleFindings, FlatMap
<1>2. ASSUME NEW k \in DOMAIN tests[t].rules
      PROVE  /\ Piece(k) \in Seq(AllFindings(source, tests, m))
             /\ \A x : x \in ToSet(Piece(k)) <=> IsOfRule(x, source, tests, m, t, k)
             /\ Distinct(tests) /\ Decisive(m) => IsInjective(Piece(k))
  BY FindingsOfRule
<1>3. DOMAIN pieces = DOMAIN tests[t].rules /\ \A k \in DOMAIN tests[t].rules : pieces[k] = Piece(k)
  OBVIOUS
<1>4. pieces \in Seq(Seq(AllFindings(source, tests, m)))
  <2>1. DOMAIN tests[t].rules = 1 .. Len(tests[t].rules) /\ Len(tests[t].rules) \in Nat
    BY Numbered DEF Shaped
  <2> HIDE DEF Piece
  <2> QED
    BY <1>2, <2>1
<1> HIDE DEF Piece, pieces
<1>5. ASSUME Distinct(tests), Decisive(m) PROVE Apart(pieces)
  <2>1. ASSUME NEW k \in DOMAIN tests[t].rules, NEW j \in DOMAIN tests[t].rules,
               NEW x \in ToSet(Piece(k)) \cap ToSet(Piece(j))
        PROVE  k = j
    <3>1. IsOfRule(x, source, tests, m, t, k) /\ IsOfRule(x, source, tests, m, t, j)
      BY <1>2, <2>1
    <3> QED
      BY <1>5, <3>1, FindingsDiffer DEF IsOfRule
  <2> QED
    BY <1>2, <1>3, <1>5, <2>1 DEF Apart
<1> QED
  BY <1>1, <1>2, <1>3, <1>4, <1>5, Flattened

LEMMA FindingsOfDoc ==
  ASSUME NEW source, NEW tests, NEW m, NEW provenance, Shaped(tests, m)
  PROVE  /\ \A x : x \in ToSet(AssessmentResults(source, tests, m, provenance).findings) <=>
              \E t \in DOMAIN tests : \E k \in DOMAIN tests[t].rules : IsOfRule(x, source, tests, m, t, k)
         /\ Distinct(tests) /\ Decisive(m) => IsInjective(AssessmentResults(source, tests, m, provenance).findings)
<1> DEFINE Piece(t) == TestFindings(source, tests, m, t)
           pieces == [t \in DOMAIN tests |-> Piece(t)]
<1>1. AssessmentResults(source, tests, m, provenance).findings = FlattenSeq(pieces)
  BY DEF AssessmentResults, TestFindings, FlatMap
<1>2. ASSUME NEW t \in DOMAIN tests
      PROVE  /\ Piece(t) \in Seq(AllFindings(source, tests, m))
             /\ \A x : x \in ToSet(Piece(t)) <=>
                  \E k \in DOMAIN tests[t].rules : IsOfRule(x, source, tests, m, t, k)
             /\ Distinct(tests) /\ Decisive(m) => IsInjective(Piece(t))
  BY FindingsOfTest
<1>3. DOMAIN pieces = DOMAIN tests /\ \A t \in DOMAIN tests : pieces[t] = Piece(t)
  OBVIOUS
<1>4. pieces \in Seq(Seq(AllFindings(source, tests, m)))
  <2>1. DOMAIN tests = 1 .. Len(tests) /\ Len(tests) \in Nat
    BY Numbered DEF Shaped
  <2> HIDE DEF Piece
  <2> QED
    BY <1>2, <2>1
<1> HIDE DEF Piece, pieces
<1>5. ASSUME Distinct(tests), Decisive(m) PROVE Apart(pieces)
  <2>1. ASSUME NEW t \in DOMAIN tests, NEW u \in DOMAIN tests,
               NEW x \in ToSet(Piece(t)) \cap ToSet(Piece(u))
        PROVE  t = u
    <3>1. PICK k \in DOMAIN tests[t].rules : IsOfRule(x, source, tests, m, t, k)
      BY <1>2, <2>1
    <3>2. PICK j \in DOMAIN tests[u].rules : IsOfRule(x, source, tests, m, u, j)
      BY <1>2, <2>1
    <3> QED
      BY <1>5, <3>1, <3>2, FindingsDiffer DEF IsOfRule
  <2> QED
    BY <1>2, <1>3, <1>5, <2>1 DEF Apart
<1> QED
  BY <1>1, <1>2, <1>3, <1>4, <1>5, Flattened

-----------------------------------------------------------------------------
(* The TestResults of the two kinds of source.                             *)

LEMMA XccdfOrdered ==
  ASSUME NEW doc \in XccdfDocs
  PROVE  /\ TestResults(doc) \in Seq(ToSet(TestResults(doc)))
         /\ \A t \in DOMAIN TestResults(doc) :
              TestResults(doc)[t].rules \in Seq(ToSet(TestResults(doc)[t].rules))
         /\ XccdfAccepted(doc) =>
              /\ Distinct(TestResults(doc))
              /\ \A t \in DOMAIN TestResults(doc) : \A k \in DOMAIN TestResults(doc)[t].rules :
                   TestResults(doc)[t].rules[k].result \in ValidRuleResults
<1> DEFINE tests == TestResults(doc)
<1>1. DOMAIN doc.tests = 1 .. Len(doc.tests) /\ Len(doc.tests) \in Nat
  BY DocumentsAssumption, Numbered
<1>2. DOMAIN tests = DOMAIN doc.tests
  BY DEF TestResults
<1>3. ASSUME NEW t \in DOMAIN doc.tests
      PROVE  /\ tests[t].id = doc.tests[t].id /\ tests[t].rules = doc.tests[t].rules
             /\ doc.tests[t].rules \in Seq(ToSet(doc.tests[t].rules))
  <2>1. doc.tests[t] \in ToSet(doc.tests)
    BY DEF ToSet
  <2>2. /\ doc.tests[t] = [id |-> doc.tests[t].id, benchmark |-> doc.tests[t].benchmark, rules |-> doc.tests[t].rules]
        /\ doc.tests[t].rules \in Seq(ToSet(doc.tests[t].rules))
    BY <2>1, DocumentsAssumption
  <2>3. tests[t] = [doc.tests[t] EXCEPT !.benchmark = BenchmarkOf(doc, doc.tests[t])]
    BY DEF TestResults
  <2> HIDE DEF tests
  <2> QED
    BY <2>2, <2>3
<1>4. tests \in Seq(ToSet(tests))
  <2>1. tests = [t \in 1 .. Len(doc.tests) |-> tests[t]]
    BY <1>1 DEF TestResults
  <2>2. \A t \in 1 .. Len(doc.tests) : tests[t] \in ToSet(tests)
    BY <1>1, <1>2 DEF ToSet
  <2> HIDE DEF tests
  <2> QED
    BY <1>1, <2>1, <2>2
<1> HIDE DEF tests
<1>5. \A t \in DOMAIN tests : tests[t].rules \in Seq(ToSet(tests[t].rules))
  BY <1>2, <1>3
<1>6. ASSUME XccdfAccepted(doc) PROVE Distinct(tests)
  <2>1. IsInjective(IdsOf(tests))
    BY <1>2, <1>3, <1>6 DEF XccdfAccepted, IdsOf, IsInjective
  <2>2. \A t \in DOMAIN tests : IsInjective([k \in DOMAIN tests[t].rules |-> tests[t].rules[k].idref])
    BY <1>2, <1>3, <1>6 DEF XccdfAccepted, RuleResultsAccepted
  <2> QED
    BY <2>1, <2>2 DEF Distinct
<1>7. ASSUME XccdfAccepted(doc), NEW t \in DOMAIN tests, NEW k \in DOMAIN tests[t].rules
      PROVE  tests[t].rules[k].result \in ValidRuleResults
  BY <1>2, <1>3, <1>7 DEF XccdfAccepted, RuleResultsAccepted
<1> QED
  BY <1>4, <1>5, <1>6, <1>7 DEF tests

LEMMA XccdfTests ==
  ASSUME NEW doc \in XccdfDocs, NEW m \in MappingDocs
  PROVE  /\ Shaped(TestResults(doc), m)
         /\ XccdfAccepted(doc) =>
              /\ Distinct(TestResults(doc))
              /\ \A t \in DOMAIN TestResults(doc) : \A k \in DOMAIN TestResults(doc)[t].rules :
                   TestResults(doc)[t].rules[k].result \in ValidRuleResults
  BY XccdfOrdered, DocumentsAssumption DEF Shaped

\* The report a collection is converted from is one of the collection's.
LEMMA ArfTests ==
  ASSUME NEW arf \in ArfDocs, NEW m \in MappingDocs, ExactlyOneReport(arf)
  PROVE  Shaped(<<TestReports(arf)[1].payload>>, m)
<1> DEFINE manifest == Manifest(arf)
           S == ToSet(manifest)
           Piece(k) == IF manifest[k].payload.kind = "TestResult" THEN <<manifest[k]>> ELSE <<>>
           pieces == [k \in DOMAIN manifest |-> Piece(k)]
           report == TestReports(arf)[1]
<1>1. DOMAIN arf.reports = 1 .. Len(arf.reports) /\ Len(arf.reports) \in Nat
  BY DocumentsAssumption, Numbered
<1>2. /\ DOMAIN manifest = DOMAIN arf.reports
      /\ \A k \in DOMAIN arf.reports : manifest[k].payload = arf.reports[k].payload
  BY DEF Manifest
<1> HIDE DEF manifest
<1>3. TestReports(arf) = FlattenSeq(pieces)
  BY DEF TestReports, Where, FlatMap, manifest
<1>4. \A k \in DOMAIN manifest : Piece(k) \in Seq(S)
  <2>1. \A k \in DOMAIN manifest : manifest[k] \in S
    BY DEF ToSet
  <2> HIDE DEF S
  <2> QED
    BY <2>1
<1>5. pieces \in Seq(Seq(S))
  <2> HIDE DEF Piece, S
  <2> QED
    BY <1>1, <1>2, <1>4
<1> HIDE DEF Piece, pieces, S
<1>6. TestReports(arf) \in Seq(S)
  BY <1>3, <1>5, Flattened
<1>7. report \in S
  BY <1>6 DEF ExactlyOneReport
<1>8. PICK k \in DOMAIN arf.reports : report.payload = arf.reports[k].payload
  BY <1>2, <1>7 DEF ToSet, S
<1>9. report.payload.rules \in Seq(ToSet(report.payload.rules))
  <2>1. arf.reports[k] \in ToSet(arf.reports)
    BY DEF ToSet
  <2> QED
    BY <1>8, <2>1, DocumentsAssumption
<1>10. <<report.payload>> \in Seq(ToSet(<<report.payload>>)) /\ DOMAIN <<report.payload>> = {1}
  BY DEF ToSet
<1> QED
  BY <1>9, <1>10, DocumentsAssumption DEF Shaped

\* Either way, an artifact is what assessment_results makes of some TestResults,
\* which have identifiers of their own, those of an XCCDF file with their rules.
ConvertedFrom(artifact, tests, provenance) ==
  /\ Shaped(tests, artifact.mapping) /\ MappingAccepted(artifact.mapping)
  /\ artifact.mapping \in MappingDocs
  /\ artifact.doc = AssessmentResults(artifact.source, tests, artifact.mapping, provenance)
  /\ IsInjective(IdsOf(tests))
  /\ artifact.kind = "xccdf" => Distinct(tests)

LEMMA Conversion ==
  ASSUME IInv, NEW artifact \in Artifacts
  PROVE  \E tests, provenance : ConvertedFrom(artifact, tests, provenance)
<1>1. CASE artifact \in OfKind("xccdf")
  <2>1. PICK doc \in XccdfDocs, m \in MappingDocs :
          XccdfAccepted(doc) /\ MappingAccepted(m) /\ artifact = XccdfArtifact(doc, m)
    BY <1>1, Outputs DEF IsXccdf
  <2>2. /\ artifact.source = doc /\ artifact.mapping = m
        /\ artifact.doc = AssessmentResults(doc, TestResults(doc), m, None)
    BY <2>1 DEF XccdfArtifact, Artifact
  <2>3. Shaped(TestResults(doc), m) /\ Distinct(TestResults(doc))
    BY <2>1, XccdfTests
  <2>4. ConvertedFrom(artifact, TestResults(doc), None)
    BY <2>1, <2>2, <2>3 DEF ConvertedFrom, Distinct
  <2> QED
    BY <2>4
<1>2. CASE artifact \in OfKind("arf")
  <2>1. PICK arf \in ArfDocs, m \in MappingDocs :
          MappingAccepted(m) /\ ExactlyOneReport(arf) /\ artifact = ArfArtifact(arf, m)
    BY <1>2, Outputs DEF IsArf
  <2> DEFINE tests == <<TestReports(arf)[1].payload>>
  <2>2. PICK provenance : artifact.doc = AssessmentResults(arf, tests, m, provenance)
    BY <2>1 DEF ArfArtifact, Artifact, FromArf
  <2>3. artifact.source = arf /\ artifact.mapping = m /\ artifact.kind = "arf"
    BY <2>1 DEF ArfArtifact, Artifact
  <2>4. Shaped(tests, m)
    BY <2>1, ArfTests
  <2>5. IsInjective(IdsOf(tests))
    BY DEF IdsOf, IsInjective
  <2> HIDE DEF tests
  <2>6. ConvertedFrom(artifact, tests, provenance)
    BY <2>1, <2>2, <2>3, <2>4, <2>5 DEF ConvertedFrom
  <2> QED
    BY <2>6
<1> QED
  BY <1>1, <1>2 DEF Artifacts

LEMMA ConvertedTests ==
  ASSUME IInv, NEW artifact \in Artifacts
  PROVE  \E source, tests, m, provenance :
           /\ Shaped(tests, m) /\ MappingAccepted(m)
           /\ artifact.mapping = m /\ artifact.doc = AssessmentResults(source, tests, m, provenance)
<1>1. PICK tests, provenance : ConvertedFrom(artifact, tests, provenance)
  BY Conversion
<1> QED
  BY <1>1 DEF ConvertedFrom

\* The inputs tell the artifacts apart.
LEMMA SameInputs ==
  ASSUME IInv, NEW one \in Artifacts, NEW other \in Artifacts,
         one.source = other.source, one.mapping = other.mapping
  PROVE  one = other
<1>1. \A artifact \in Artifacts :
        \/ artifact.source \in XccdfDocs /\ artifact = XccdfArtifact(artifact.source, artifact.mapping)
        \/ artifact.source \in ArfDocs /\ artifact = ArfArtifact(artifact.source, artifact.mapping)
  BY Outputs DEF Artifacts, IsXccdf, IsArf, XccdfArtifact, ArfArtifact, Artifact
<1>2. XccdfDocs \cap ArfDocs = {}
  BY DocumentsAssumption
<1> QED
  BY <1>1, <1>2

\* Only the nine outcomes reach the observations of an XCCDF file and the
\* findings of any artifact (xccdf.py:73-83, xccdf_mapping.py:32-61).
THEOREM TypeCorrect == Spec => []TypeOK
<1>1. IInv => TypeOK
  <2> SUFFICES ASSUME IInv, NEW output \in outputs
               PROVE  /\ output.kind \in {"xccdf", "arf", "mapping-report", "envelope"}
                      /\ output.kind = "xccdf" =>
                           \A o \in ToSet(output.doc.observations) : o.result \in ValidRuleResults
                      /\ output.kind \in {"xccdf", "arf"} =>
                           \A f \in ToSet(output.doc.findings) : f.result \in ValidRuleResults
    BY DEF TypeOK
  <2>1. output.kind \in {"xccdf", "arf", "mapping-report", "envelope"}
    BY DEF IInv, IsXccdf, IsArf, IsEnvelope, IsReport, XccdfArtifact, ArfArtifact, XccdfReport, Artifact, Envelope
  <2>2. ASSUME output.kind = "xccdf", NEW o \in ToSet(output.doc.observations)
        PROVE  o.result \in ValidRuleResults
    <3>1. PICK doc \in XccdfDocs, m \in MappingDocs :
            XccdfAccepted(doc) /\ output = XccdfArtifact(doc, m)
      BY <2>2, Outputs DEF OfKind, IsXccdf
    <3>2. output.doc = AssessmentResults(doc, TestResults(doc), m, None)
      BY <3>1 DEF XccdfArtifact, Artifact
    <3>3. PICK t \in DOMAIN TestResults(doc) : IsOfTest(o, doc, TestResults(doc), m, None, t)
      BY <2>2, <3>2, XccdfTests, ObservationsOf
    <3>4. PICK k \in DOMAIN TestResults(doc)[t].rules : o = ObservationOf(doc, TestResults(doc), m, None, t, k)
      BY <3>3 DEF IsOfTest
    <3> QED
      BY <3>1, <3>4, XccdfTests, ObservationIds
  <2>3. ASSUME output.kind \in {"xccdf", "arf"}, NEW f \in ToSet(output.doc.findings)
        PROVE  f.result \in ValidRuleResults
    <3>1. output \in Artifacts
      BY <2>3 DEF Artifacts, OfKind
    <3>2. PICK source, tests, m, provenance :
            /\ Shaped(tests, m) /\ MappingAccepted(m)
            /\ output.doc = AssessmentResults(source, tests, m, provenance)
      BY <3>1, ConvertedTests
    <3>3. PICK t \in DOMAIN tests : \E k \in DOMAIN tests[t].rules : IsOfRule(f, source, tests, m, t, k)
      BY <2>3, <3>2, FindingsOfDoc
    <3>4. PICK k \in DOMAIN tests[t].rules : IsOfRule(f, source, tests, m, t, k)
      BY <3>3
    <3>5. PICK n \in DOMAIN m : Told(source, tests, m, t, k, n) /\ f = FindingOf(source, tests, m, t, k, n)
      BY <3>4 DEF IsOfRule
    <3>6. tests[t].rules[k].result \in DOMAIN m[n].outcomes
      BY <3>5 DEF Told, Applies
    <3> QED
      BY <3>2, <3>5, <3>6, FindingIds DEF MappingAccepted
  <2> QED
    BY <2>1, <2>2, <2>3
<1> QED
  BY <1>1, Invariance, PTL

\* A finding is an outcome the author gave for the benchmark, rule and outcome
\* of an observation it points at, and every such outcome has its finding
\* (xccdf_convert.py:29-38).
THEOREM FindingsAuthored == Spec => []FindingsAreAuthored
<1>1. IInv => FindingsAreAuthored
  <2> SUFFICES ASSUME IInv, NEW artifact \in Artifacts
               PROVE  LET m == artifact.mapping
                          doc == artifact.doc
                          Backs(o, f) == o.uuid = f.observation /\ o.rule = f.rule /\ o.result = f.result
                          Decided(entry, o) == /\ entry.benchmark = o.benchmark /\ entry.rule = o.rule
                                               /\ o.result \in DOMAIN entry.outcomes
                      IN /\ \A f \in ToSet(doc.findings) : \E o \in ToSet(doc.observations), k \in DOMAIN m :
                              /\ Backs(o, f) /\ Decided(m[k], o)
                              /\ f.target = m[k].target /\ f.status = m[k].outcomes[o.result]
                         /\ \A o \in ToSet(doc.observations), k \in DOMAIN m :
                              Decided(m[k], o) => \E f \in ToSet(doc.findings) :
                                Backs(o, f) /\ f.target = m[k].target
    BY DEF FindingsAreAuthored
  <2>1. PICK source, tests, m, provenance :
          /\ Shaped(tests, m) /\ artifact.mapping = m
          /\ artifact.doc = AssessmentResults(source, tests, m, provenance)
    BY ConvertedTests
  <2> DEFINE doc == AssessmentResults(source, tests, m, provenance)
             Backs(o, f) == o.uuid = f.observation /\ o.rule = f.rule /\ o.result = f.result
             Decided(entry, o) == /\ entry.benchmark = o.benchmark /\ entry.rule = o.rule
                                  /\ o.result \in DOMAIN entry.outcomes
  <2>2. ASSUME NEW t \in DOMAIN tests, NEW k \in DOMAIN tests[t].rules, NEW n \in DOMAIN m
        PROVE  /\ Backs(ObservationOf(source, tests, m, provenance, t, k), FindingOf(source, tests, m, t, k, n))
               /\ Told(source, tests, m, t, k, n)
                    <=> Decided(m[n], ObservationOf(source, tests, m, provenance, t, k))
    BY ObservationIds, FindingIds DEF Told, Applies
  <2>3. ASSUME NEW f \in ToSet(doc.findings)
        PROVE  \E o \in ToSet(doc.observations), n \in DOMAIN m :
                 /\ Backs(o, f) /\ Decided(m[n], o)
                 /\ f.target = m[n].target /\ f.status = m[n].outcomes[o.result]
    <3>1. PICK t \in DOMAIN tests : \E k \in DOMAIN tests[t].rules : IsOfRule(f, source, tests, m, t, k)
      BY <2>1, <2>3, FindingsOfDoc
    <3>2. PICK k \in DOMAIN tests[t].rules : IsOfRule(f, source, tests, m, t, k)
      BY <3>1
    <3>3. PICK n \in DOMAIN m : Told(source, tests, m, t, k, n) /\ f = FindingOf(source, tests, m, t, k, n)
      BY <3>2 DEF IsOfRule
    <3> DEFINE o == ObservationOf(source, tests, m, provenance, t, k)
    <3>4. o \in ToSet(doc.observations)
      BY <2>1, ObservationsOf DEF IsOfTest
    <3>5. Backs(o, f) /\ Decided(m[n], o)
      BY <2>2, <3>3
    <3>6. f.target = m[n].target /\ f.status = m[n].outcomes[o.result]
      BY <3>3, ObservationIds, FindingIds
    <3> QED
      BY <3>4, <3>5, <3>6
  <2>4. ASSUME NEW o \in ToSet(doc.observations), NEW n \in DOMAIN m, Decided(m[n], o)
        PROVE  \E f \in ToSet(doc.findings) : Backs(o, f) /\ f.target = m[n].target
    <3>1. PICK t \in DOMAIN tests : IsOfTest(o, source, tests, m, provenance, t)
      BY <2>1, <2>4, ObservationsOf
    <3>2. PICK k \in DOMAIN tests[t].rules : o = ObservationOf(source, tests, m, provenance, t, k)
      BY <3>1 DEF IsOfTest
    <3> DEFINE f == FindingOf(source, tests, m, t, k, n)
    <3>3. IsOfRule(f, source, tests, m, t, k)
      BY <2>2, <2>4, <3>2 DEF IsOfRule
    <3>4. f \in ToSet(doc.findings)
      BY <2>1, <3>3, FindingsOfDoc
    <3>5. Backs(o, f) /\ f.target = m[n].target
      BY <2>2, <3>2, FindingIds
    <3> QED
      BY <3>4, <3>5
  <2> QED
    BY <2>1, <2>3, <2>4
<1> QED
  BY <1>1, Invariance, PTL

ObservationsAreOne(one, other) ==
  \A k \in DOMAIN one.doc.observations, n \in DOMAIN other.doc.observations :
    LET x == one.doc.observations[k]
        y == other.doc.observations[n]
    IN x.uuid = y.uuid =>
         /\ one = other
         /\ x.rule = y.rule /\ x.test = y.test /\ x.benchmark = y.benchmark
         /\ x.evidence = y.evidence /\ x.provenance = y.provenance
         /\ one.kind = "xccdf" => k = n
FindingsAreOne(one, other) ==
  \A x \in ToSet(one.doc.findings), y \in ToSet(other.doc.findings) :
    x.uuid = y.uuid =>
      one = other /\ x.rule = y.rule /\ x.target = y.target /\ x.mapping = y.mapping

\* An observation is of one artifact and, there, of one rule of a TestResult.
LEMMA ObservationsIdentified ==
  ASSUME IInv, NEW one \in Artifacts, NEW other \in Artifacts
  PROVE  ObservationsAreOne(one, other)
<1> SUFFICES ASSUME NEW k \in DOMAIN one.doc.observations, NEW n \in DOMAIN other.doc.observations,
                    one.doc.observations[k].uuid = other.doc.observations[n].uuid
             PROVE  LET x == one.doc.observations[k]
                        y == other.doc.observations[n]
                    IN /\ one = other
                       /\ x.rule = y.rule /\ x.test = y.test /\ x.benchmark = y.benchmark
                       /\ x.evidence = y.evidence /\ x.provenance = y.provenance
                       /\ one.kind = "xccdf" => k = n
  BY DEF ObservationsAreOne
<1> DEFINE x == one.doc.observations[k]
           y == other.doc.observations[n]
<1>1. x \in ToSet(one.doc.observations) /\ y \in ToSet(other.doc.observations) /\ x.uuid = y.uuid
  BY DEF ToSet
<1> HIDE DEF x, y
<1>2. PICK tests, provenance : ConvertedFrom(one, tests, provenance)
  BY Conversion
<1>3. PICK tests2, provenance2 : ConvertedFrom(other, tests2, provenance2)
  BY Conversion
<1>4. PICK t \in DOMAIN tests : IsOfTest(x, one.source, tests, one.mapping, provenance, t)
  BY <1>1, <1>2, ObservationsOf DEF ConvertedFrom
<1>5. PICK i \in DOMAIN tests[t].rules :
        x = ObservationOf(one.source, tests, one.mapping, provenance, t, i)
  BY <1>4 DEF IsOfTest
<1>6. PICK v \in DOMAIN tests2 : IsOfTest(y, other.source, tests2, other.mapping, provenance2, v)
  BY <1>1, <1>3, ObservationsOf DEF ConvertedFrom
<1>7. PICK l \in DOMAIN tests2[v].rules :
        y = ObservationOf(other.source, tests2, other.mapping, provenance2, v, l)
  BY <1>6 DEF IsOfTest
<1>8. one.source = other.source /\ one.mapping = other.mapping
  BY <1>1, <1>5, <1>7, ObservationIds
<1>9. one = other
  BY <1>8, SameInputs
<1>10. PICK u \in DOMAIN tests : IsOfTest(y, one.source, tests, one.mapping, provenance, u)
  BY <1>1, <1>2, <1>9, ObservationsOf DEF ConvertedFrom
<1>11. PICK j \in DOMAIN tests[u].rules :
         y = ObservationOf(one.source, tests, one.mapping, provenance, u, j)
  BY <1>10 DEF IsOfTest
<1>12. tests[t].id = tests[u].id /\ tests[t].rules[i].idref = tests[u].rules[j].idref
  BY <1>1, <1>5, <1>11, ObservationIds
<1>13. t = u
  BY <1>2, <1>12 DEF ConvertedFrom, IdsOf, IsInjective
<1>14. /\ x.rule = y.rule /\ x.test = y.test /\ x.benchmark = y.benchmark
  BY <1>5, <1>11, <1>12, <1>13, ObservationIds
<1>15. x.evidence = y.evidence /\ x.provenance = y.provenance
  BY <1>5, <1>11 DEF ObservationOf, Observation
<1>16. ASSUME one.kind = "xccdf" PROVE k = n
  <2>1. Distinct(tests) /\ Shaped(tests, one.mapping)
    BY <1>2, <1>16 DEF ConvertedFrom
  <2>2. i = j
    BY <1>12, <1>13, <2>1 DEF Distinct, IsInjective
  <2>3. x = y
    BY <1>5, <1>11, <1>13, <2>2
  <2>4. IsInjective(one.doc.observations)
    BY <1>2, <2>1, ObservationsOf DEF ConvertedFrom
  <2> QED
    BY <1>9, <2>3, <2>4 DEF IsInjective, x, y
<1> QED
  BY <1>9, <1>14, <1>15, <1>16 DEF x, y

\* A finding is of one artifact, rule and target.
LEMMA FindingsIdentified ==
  ASSUME IInv, NEW one \in Artifacts, NEW other \in Artifacts
  PROVE  FindingsAreOne(one, other)
<1> SUFFICES ASSUME NEW x \in ToSet(one.doc.findings), NEW y \in ToSet(other.doc.findings), x.uuid = y.uuid
             PROVE  one = other /\ x.rule = y.rule /\ x.target = y.target /\ x.mapping = y.mapping
  BY DEF FindingsAreOne
<1> DEFINE m == one.mapping
           m2 == other.mapping
<1>1. PICK tests, provenance : ConvertedFrom(one, tests, provenance)
  BY Conversion
<1>2. PICK tests2, provenance2 : ConvertedFrom(other, tests2, provenance2)
  BY Conversion
<1>3. PICK t \in DOMAIN tests : \E i \in DOMAIN tests[t].rules : IsOfRule(x, one.source, tests, m, t, i)
  BY <1>1, FindingsOfDoc DEF ConvertedFrom
<1>4. PICK i \in DOMAIN tests[t].rules : IsOfRule(x, one.source, tests, m, t, i)
  BY <1>3
<1>5. PICK k \in DOMAIN m : x = FindingOf(one.source, tests, m, t, i, k)
  BY <1>4 DEF IsOfRule
<1>6. PICK u \in DOMAIN tests2 : \E j \in DOMAIN tests2[u].rules : IsOfRule(y, other.source, tests2, m2, u, j)
  BY <1>2, FindingsOfDoc DEF ConvertedFrom
<1>7. PICK j \in DOMAIN tests2[u].rules : IsOfRule(y, other.source, tests2, m2, u, j)
  BY <1>6
<1>8. PICK n \in DOMAIN m2 : y = FindingOf(other.source, tests2, m2, u, j, n)
  BY <1>7 DEF IsOfRule
<1>9. m[k] \in ToSet(m) /\ m2[n] \in ToSet(m2) /\ m \in MappingDocs /\ m2 \in MappingDocs
  BY <1>1, <1>2 DEF ToSet, ConvertedFrom
<1> HIDE DEF m, m2
<1>10. /\ one.source = other.source /\ m = m2 /\ tests[t].rules[i].idref = tests2[u].rules[j].idref
       /\ m[k].target.type = m2[n].target.type /\ m[k].target.id = m2[n].target.id
  BY <1>5, <1>8, FindingIds
<1>11. m[k].target = m2[n].target
  BY <1>9, <1>10, DocumentsAssumption
<1>12. one = other
  BY <1>10, SameInputs DEF m, m2
<1> QED
  BY <1>5, <1>8, <1>10, <1>11, <1>12, FindingIds

\* An observation's UUID stands for one rule of one TestResult, file and
\* mapping in the artifacts of XCCDF files and of ARF collections, and for one
\* observation in those of XCCDF files; a finding's stands for one file,
\* mapping, rule and target (xccdf_convert.py:25-38).
THEOREM UuidsIdentify == Spec => []UuidsIdentifyEvidence
<1>1. IInv => UuidsIdentifyEvidence
  <2> SUFFICES ASSUME IInv, NEW one \in Artifacts, NEW other \in Artifacts
               PROVE  ObservationsAreOne(one, other) /\ FindingsAreOne(one, other)
    BY DEF UuidsIdentifyEvidence, ObservationsAreOne, FindingsAreOne
  <2> QED
    BY ObservationsIdentified, FindingsIdentified
<1> QED
  BY <1>1, Invariance, PTL

-----------------------------------------------------------------------------
(* How far the disagreement the run finding_uuids shows goes.              *)

LEMMA AcceptedDecisive ==
  ASSUME NEW m \in MappingDocs, MappingAccepted(m)
  PROVE  Decisive(m)
<1> SUFFICES ASSUME NEW k \in DOMAIN m, NEW n \in DOMAIN m,
                    m[k].benchmark = m[n].benchmark, m[k].rule = m[n].rule,
                    m[k].target.type = m[n].target.type, m[k].target.id = m[n].target.id
             PROVE  k = n
  BY DEF Decisive
<1>1. m[k] \in ToSet(m) /\ m[n] \in ToSet(m)
  BY DEF ToSet
<1>2. m[k].target = m[n].target
  BY <1>1, DocumentsAssumption
<1> QED
  BY <1>2 DEF MappingAccepted, IsInjective

\* Findings share a UUID exactly if they are of one rule and one target, and
\* then they point at different observations; so none do in the artifact of a
\* file that has no result twice for a rule.
SharedUuids(doc) ==
  /\ \A i, k \in DOMAIN doc.findings :
       LET x == doc.findings[i]
           y == doc.findings[k]
       IN /\ x.uuid = y.uuid <=> x.rule = y.rule /\ x.target = y.target
          /\ x.uuid = y.uuid /\ x.observation = y.observation => i = k
  /\ (\A o, other \in ToSet(doc.observations) : o.rule = other.rule => o = other) =>
       IsInjective([k \in DOMAIN doc.findings |-> doc.findings[k].uuid])

SharedUuidsOnly == \A artifact \in OfKind("xccdf") : SharedUuids(artifact.doc)

\* convert-xccdf gives two findings of a file one UUID if they are of one rule
\* and one target in two of its TestResults, and never otherwise
\* (xccdf_convert.py:35-38, xccdf_mapping.py:56-59).
THEOREM FindingUuidsDelimited == Spec => []SharedUuidsOnly
<1>1. ASSUME IInv, NEW artifact \in OfKind("xccdf") PROVE SharedUuids(artifact.doc)
  <2>1. PICK source \in XccdfDocs, m \in MappingDocs :
          XccdfAccepted(source) /\ MappingAccepted(m) /\ artifact = XccdfArtifact(source, m)
    BY <1>1, Outputs DEF IsXccdf
  <2> DEFINE tests == TestResults(source)
             doc == artifact.doc
  <2>2. doc = AssessmentResults(source, tests, m, None)
    BY <2>1 DEF XccdfArtifact, Artifact
  <2>3. Shaped(tests, m) /\ Distinct(tests) /\ Decisive(m)
    BY <2>1, XccdfTests, AcceptedDecisive
  <2> HIDE DEF tests, doc
  <2>4. IsInjective(doc.findings)
    BY <2>2, <2>3, FindingsOfDoc
  <2>5. ASSUME NEW i \in DOMAIN doc.findings
        PROVE  \E t \in DOMAIN tests : \E k \in DOMAIN tests[t].rules :
                 IsOfRule(doc.findings[i], source, tests, m, t, k)
    <3>1. doc.findings[i] \in ToSet(doc.findings)
      BY DEF ToSet
    <3> QED
      BY <2>2, <2>3, <3>1, FindingsOfDoc
  <2>6. ASSUME NEW i \in DOMAIN doc.findings, NEW j \in DOMAIN doc.findings
        PROVE  /\ doc.findings[i].uuid = doc.findings[j].uuid
                    <=> /\ doc.findings[i].rule = doc.findings[j].rule
                        /\ doc.findings[i].target = doc.findings[j].target
               /\ /\ doc.findings[i].uuid = doc.findings[j].uuid
                  /\ doc.findings[i].observation = doc.findings[j].observation
                  => i = j
    <3> DEFINE x == doc.findings[i]
               y == doc.findings[j]
    <3>1. PICK t \in DOMAIN tests : \E k \in DOMAIN tests[t].rules : IsOfRule(x, source, tests, m, t, k)
      BY <2>5
    <3>2. PICK k \in DOMAIN tests[t].rules : IsOfRule(x, source, tests, m, t, k)
      BY <3>1
    <3>3. PICK n \in DOMAIN m : Told(source, tests, m, t, k, n) /\ x = FindingOf(source, tests, m, t, k, n)
      BY <3>2 DEF IsOfRule
    <3>4. PICK u \in DOMAIN tests : \E h \in DOMAIN tests[u].rules : IsOfRule(y, source, tests, m, u, h)
      BY <2>5
    <3>5. PICK h \in DOMAIN tests[u].rules : IsOfRule(y, source, tests, m, u, h)
      BY <3>4
    <3>6. PICK l \in DOMAIN m : Told(source, tests, m, u, h, l) /\ y = FindingOf(source, tests, m, u, h, l)
      BY <3>5 DEF IsOfRule
    <3> HIDE DEF x, y
    <3>7. x.uuid = y.uuid <=> x.rule = y.rule /\ x.target = y.target
      <4>1. m[n] \in ToSet(m) /\ m[l] \in ToSet(m)
        BY DEF ToSet
      <4>2. m[n].target = m[l].target
              <=> m[n].target.type = m[l].target.type /\ m[n].target.id = m[l].target.id
        BY <4>1, DocumentsAssumption
      <4>3. /\ x.uuid = <<<<source, m>>, tests[t].rules[k].idref, m[n].target.type, m[n].target.id>>
            /\ y.uuid = <<<<source, m>>, tests[u].rules[h].idref, m[l].target.type, m[l].target.id>>
            /\ x.rule = tests[t].rules[k].idref /\ y.rule = tests[u].rules[h].idref
            /\ x.target = m[n].target /\ y.target = m[l].target
        BY <3>3, <3>6, FindingIds
      <4> QED
        BY <4>2, <4>3
    <3>8. ASSUME x.uuid = y.uuid, x.observation = y.observation PROVE i = j
      <4>1. t = u /\ k = h /\ n = l
        BY <2>3, <3>3, <3>6, <3>8, FindingsDiffer
      <4>2. x = y
        BY <3>3, <3>6, <4>1
      <4> QED
        BY <2>4, <4>2 DEF IsInjective, x, y
    <3> QED
      BY <3>7, <3>8 DEF x, y
  <2>7. ASSUME \A o, other \in ToSet(doc.observations) : o.rule = other.rule => o = other,
               NEW i \in DOMAIN doc.findings, NEW j \in DOMAIN doc.findings,
               doc.findings[i].uuid = doc.findings[j].uuid
        PROVE  i = j
    <3>1. ASSUME NEW h \in DOMAIN doc.findings
          PROVE  \E o \in ToSet(doc.observations) :
                   o.rule = doc.findings[h].rule /\ o.uuid = doc.findings[h].observation
      <4>1. PICK t \in DOMAIN tests : \E k \in DOMAIN tests[t].rules :
                   IsOfRule(doc.findings[h], source, tests, m, t, k)
        BY <2>5
      <4>2. PICK k \in DOMAIN tests[t].rules : IsOfRule(doc.findings[h], source, tests, m, t, k)
        BY <4>1
      <4>3. PICK n \in DOMAIN m : doc.findings[h] = FindingOf(source, tests, m, t, k, n)
        BY <4>2 DEF IsOfRule
      <4> DEFINE o == ObservationOf(source, tests, m, None, t, k)
      <4>4. o.rule = doc.findings[h].rule /\ o.uuid = doc.findings[h].observation
        BY <4>3, FindingIds, ObservationIds
      <4>5. IsOfTest(o, source, tests, m, None, t)
        BY DEF IsOfTest
      <4> HIDE DEF o
      <4>6. o \in ToSet(doc.observations)
        BY <2>2, <2>3, <4>5, ObservationsOf
      <4> QED
        BY <4>4, <4>6
    <3>2. doc.findings[i].rule = doc.findings[j].rule
      BY <2>6, <2>7
    <3>3. doc.findings[i].observation = doc.findings[j].observation
      BY <2>7, <3>1, <3>2
    <3> QED
      BY <2>6, <2>7, <3>3
  <2> QED
    BY <2>6, <2>7 DEF SharedUuids, IsInjective, doc
<1>2. IInv => SharedUuidsOnly
  BY <1>1 DEF SharedUuidsOnly
<1> QED
  BY <1>2, Invariance, PTL

-----------------------------------------------------------------------------
(* The report of a collection.                                             *)

\* The manifest of a document lists its reports in their order.
LEMMA ManifestOf ==
  ASSUME NEW arf, IsOrdered(arf)
  PROVE  /\ Manifest(arf) \in Seq(ToSet(Manifest(arf)))
         /\ DOMAIN Manifest(arf) = DOMAIN arf.reports
         /\ \A k \in DOMAIN arf.reports :
              /\ Manifest(arf)[k].id = arf.reports[k].id
              /\ Manifest(arf)[k].payload = arf.reports[k].payload
              /\ Manifest(arf)[k].linkage = Linkage(arf, arf.reports[k])
<1> DEFINE Entry(k) == [id |-> arf.reports[k].id, payload |-> arf.reports[k].payload,
                        linkage |-> Linkage(arf, arf.reports[k])]
<1>1. DOMAIN arf.reports = 1 .. Len(arf.reports) /\ Len(arf.reports) \in Nat
  BY Numbered DEF IsOrdered
<1>2. Manifest(arf) = [k \in DOMAIN arf.reports |-> Entry(k)]
  BY DEF Manifest
<1>3. \A k \in DOMAIN arf.reports :
        /\ Entry(k).id = arf.reports[k].id
        /\ Entry(k).payload = arf.reports[k].payload
        /\ Entry(k).linkage = Linkage(arf, arf.reports[k])
  OBVIOUS
<1> HIDE DEF Entry
<1>4. Manifest(arf) \in Seq(ToSet(Manifest(arf)))
  <2>1. \A k \in DOMAIN arf.reports : Entry(k) \in ToSet(Manifest(arf))
    BY <1>2 DEF ToSet
  <2> QED
    BY <1>1, <1>2, <2>1
<1> QED
  BY <1>2, <1>3, <1>4

\* An entry of the manifest that a selection keeps.
LEMMA TestReportsElements ==
  ASSUME NEW arf, IsOrdered(arf)
  PROVE  /\ TestReports(arf) \in Seq(ToSet(Manifest(arf)))
         /\ ToSet(TestReports(arf)) = {entry \in ToSet(Manifest(arf)) : entry.payload.kind = "TestResult"}
<1> DEFINE S == ToSet(Manifest(arf))
           T == {entry \in S : entry.payload.kind = "TestResult"}
<1>1. \A k \in DOMAIN Manifest(arf) : Manifest(arf)[k] \in T <=> Manifest(arf)[k].payload.kind = "TestResult"
  BY DEF ToSet
<1>2. TestReports(arf) = FlattenSeq(Pieces(Manifest(arf), T))
  BY <1>1 DEF TestReports, Where, FlatMap, Pieces
<1>3. ToSet(Manifest(arf)) \cap T = T
  OBVIOUS
<1>4. Manifest(arf) \in Seq(S)
  BY ManifestOf
<1> HIDE DEF T, S
<1>5. TestReports(arf) \in Seq(S) /\ ToSet(TestReports(arf)) = T
  <2>1. /\ FlattenSeq(Pieces(Manifest(arf), T)) \in Seq(S)
        /\ ToSet(FlattenSeq(Pieces(Manifest(arf), T))) = ToSet(Manifest(arf)) \cap T
    BY <1>4, PiecesJoined
  <2> QED
    BY <1>2, <1>3, <2>1
<1> QED
  BY <1>5 DEF S, T

\* The report that is converted is the only TestResult of its collection.
LEMMA ConvertedReport ==
  ASSUME NEW arf, IsOrdered(arf), ArfAccepted(arf), ExactlyOneReport(arf)
  PROVE  \E report \in ToSet(arf.reports) :
           /\ {other \in ToSet(arf.reports) : other.payload.kind = "TestResult"} = {report}
           /\ TestReports(arf)[1].id = report.id
           /\ TestReports(arf)[1].payload = report.payload
           /\ TestReports(arf)[1].linkage = Linkage(arf, report)
<1> DEFINE entry == TestReports(arf)[1]
<1>1. ToSet(TestReports(arf)) = {entry}
  BY TestReportsElements, OnlyElement DEF ExactlyOneReport
<1>2. entry \in ToSet(Manifest(arf)) /\ entry.payload.kind = "TestResult"
  BY <1>1, TestReportsElements
<1>3. PICK k \in DOMAIN arf.reports : entry = Manifest(arf)[k]
  BY <1>2, ManifestOf DEF ToSet
<1> DEFINE report == arf.reports[k]
<1> HIDE DEF entry
<1>4. /\ entry.id = report.id /\ entry.payload = report.payload
      /\ entry.linkage = Linkage(arf, report)
  BY <1>3, ManifestOf
<1>5. report \in ToSet(arf.reports)
  BY DEF ToSet
<1>6. ASSUME NEW other \in ToSet(arf.reports), other.payload.kind = "TestResult" PROVE other = report
  <2>1. PICK n \in DOMAIN arf.reports : other = arf.reports[n]
    BY DEF ToSet
  <2>2. Manifest(arf)[n].id = other.id /\ Manifest(arf)[n].payload = other.payload
    BY <2>1, ManifestOf
  <2>3. Manifest(arf)[n] \in ToSet(Manifest(arf))
    BY ManifestOf DEF ToSet
  <2>4. Manifest(arf)[n] = entry
    BY <1>1, <1>6, <2>2, <2>3, TestReportsElements
  <2> QED
    BY <1>4, <1>5, <1>6, <2>2, <2>4, OneReport
<1> HIDE DEF report
<1> QED
  BY <1>2, <1>4, <1>5, <1>6 DEF entry

\* convert-arf-xccdf converts the whole of a collection with one TestResult
\* report, refuses any other, and repeats what the collection's relationships
\* say of that report (xccdf_convert.py:44-56).
THEOREM ArfConverted == Spec => []ArfIsConvertedWhole
<1>1. IInv => ArfIsConvertedWhole
  <2> SUFFICES ASSUME IInv, NEW artifact \in OfKind("arf")
               PROVE  LET arf == artifact.source
                      IN \E report \in ToSet(arf.reports) :
                           /\ {other \in ToSet(arf.reports) : other.payload.kind = "TestResult"} = {report}
                           /\ Observed(artifact.doc) = RulesOf(<<report.payload>>)
                           /\ \A o \in ToSet(artifact.doc.observations) :
                                /\ o.provenance.report = report.id /\ o.provenance.content = report.payload
                                /\ Asserted(arf, "arfvocab:createdFor", report.id) = {o.provenance.collection}
                                /\ o.provenance.asset \in Asserted(arf, "arfrel:isAbout", report.id)
                                                            \cup Asserted(arf, "arfvocab:isAbout", report.id)
    BY DEF ArfIsConvertedWhole
  <2>1. PICK arf \in ArfDocs, m \in MappingDocs :
          /\ ArfAccepted(arf) /\ ExactlyOneReport(arf) /\ artifact = ArfArtifact(arf, m)
    BY Outputs DEF IsArf
  <2>2. artifact.source = arf /\ artifact.doc = FromArf(arf, m)
    BY <2>1 DEF ArfArtifact, Artifact
  <2>3. IsOrdered(arf)
    BY DocumentsAssumption
  <2>4. PICK report \in ToSet(arf.reports) :
          /\ {other \in ToSet(arf.reports) : other.payload.kind = "TestResult"} = {report}
          /\ TestReports(arf)[1].id = report.id
          /\ TestReports(arf)[1].payload = report.payload
          /\ TestReports(arf)[1].linkage = Linkage(arf, report)
    BY <2>1, <2>3, ConvertedReport
  <2> DEFINE provenance == [report |-> report.id, asset |-> Linkage(arf, report).asset,
                            collection |-> Linkage(arf, report).collection, content |-> report.payload]
             rules == report.payload.rules
             Seen(k) == Observation(RunId(arf, m), arf, report.payload, rules[k], provenance)
  <2>5. artifact.doc = AssessmentResults(arf, <<report.payload>>, m, provenance)
    BY <2>2, <2>4 DEF FromArf
  <2>6. artifact.doc.observations = [k \in DOMAIN rules |-> Seen(k)]
    <3>1. artifact.doc.observations = FlattenSeq(<<[k \in DOMAIN rules |-> Seen(k)]>>)
      BY <2>5 DEF AssessmentResults, FlatMap
    <3> QED
      BY <3>1, FlattenOne
  <2>7. /\ \A k \in DOMAIN rules :
             /\ Seen(k).test = report.payload.id /\ Seen(k).rule = rules[k].idref
             /\ Seen(k).result = rules[k].result /\ Seen(k).provenance = provenance
    BY DEF Observation
  <2> HIDE DEF Seen
  <2>8. Observed(artifact.doc) = RulesOf(<<report.payload>>)
    <3> DEFINE Rule(k) == <<report.payload.id, rules[k].idref, rules[k].result>>
    <3>1. RulesOf(<<report.payload>>) = FlattenSeq(<<[k \in DOMAIN rules |-> Rule(k)]>>)
      BY DEF RulesOf, FlatMap
    <3>2. Observed(artifact.doc) = [k \in DOMAIN rules |-> Rule(k)]
      BY <2>6, <2>7 DEF Observed
    <3> QED
      BY <3>1, <3>2, FlattenOne
  <2>9. \A o \in ToSet(artifact.doc.observations) : o.provenance = provenance
    BY <2>6, <2>7 DEF ToSet
  <2>10. report.payload.kind = "TestResult"
    BY <2>4
  <2>11. Asserted(arf, "arfvocab:createdFor", report.id) = {Linkage(arf, report).collection}
    BY <2>1, <2>3, <2>10, CollectionOf
  <2>12. Linkage(arf, report).asset \in Asserted(arf, "arfrel:isAbout", report.id)
                                          \cup Asserted(arf, "arfvocab:isAbout", report.id)
    <3>1. TestResultAccepted(arf, report)
      BY <2>1, <2>10 DEF ArfAccepted, ReportAccepted
    <3>2. SingleRelation(arf, AssetRelation(arf, report.id), report.id)
      BY <3>1 DEF TestResultAccepted
    <3>3. Asserted(arf, AssetRelation(arf, report.id), report.id)
            = {Related(arf, AssetRelation(arf, report.id), report.id)}
      BY <2>3, <3>2, SingleSaid
    <3>4. Linkage(arf, report).asset = Related(arf, AssetRelation(arf, report.id), report.id)
      BY <2>10 DEF Linkage
    <3>5. AssetRelation(arf, report.id) \in {"arfrel:isAbout", "arfvocab:isAbout"}
      BY DEF AssetRelation
    <3> QED
      BY <3>3, <3>4, <3>5
  <2>13. /\ provenance.report = report.id /\ provenance.content = report.payload
         /\ provenance.collection = Linkage(arf, report).collection
         /\ provenance.asset = Linkage(arf, report).asset
    OBVIOUS
  <2> HIDE DEF provenance, rules
  <2> QED
    BY <2>2, <2>4, <2>8, <2>9, <2>11, <2>12, <2>13
<1> QED
  BY <1>1, Invariance, PTL

-----------------------------------------------------------------------------
(* Envelopes.                                                              *)

\* What the executions of an envelope say was run for an assertion.
Reached(doc, assertion) ==
  (CHOOSE execution \in ToSet(doc.executions) : execution.id = assertion.execution).native

Closed(doc) ==
  /\ IsInjective(doc.sources) /\ IsInjective(IdsOf(doc.executions))
  /\ \A execution \in ToSet(doc.executions) : execution.source \in ToSet(doc.sources)
  /\ \A assertion \in ToSet(doc.assertions) :
       /\ assertion.evidence # {} /\ assertion.evidence \subseteq ToSet(doc.sources)
       /\ assertion.execution \in ToSet(IdsOf(doc.executions))

\* An envelope states what the observation of an artifact of the kind states.
Restates(doc, kind, o) ==
  \E assertion \in ToSet(doc.assertions) :
    /\ <<Reached(doc, assertion), assertion.native, assertion.status>> = <<o.test, o.rule, o.result>>
    /\ kind = "arf" =>
         assertion.report = o.provenance.report /\ assertion.collection = o.provenance.collection

LEMMA ExecutionReached ==
  ASSUME NEW doc, IsInjective(IdsOf(doc.executions)), NEW k \in DOMAIN doc.executions,
         NEW assertion, assertion.execution = doc.executions[k].id
  PROVE  Reached(doc, assertion) = doc.executions[k].native
<1>1. doc.executions[k] \in ToSet(doc.executions)
  BY DEF ToSet
<1>2. ASSUME NEW execution \in ToSet(doc.executions), execution.id = assertion.execution
      PROVE  execution = doc.executions[k]
  <2>1. PICK n \in DOMAIN doc.executions : execution = doc.executions[n]
    BY DEF ToSet
  <2>2. n = k
    BY <1>2, <2>1 DEF IdsOf, IsInjective
  <2> QED
    BY <2>1, <2>2
<1> QED
  BY <1>1, <1>2 DEF Reached

\* Sequences of sequences, as the assertions of an envelope are collected.
LEMMA Collected ==
  ASSUME NEW pieces, NEW n \in Nat, pieces = [t \in 1 .. n |-> pieces[t]],
         \A t \in 1 .. n : pieces[t] \in Seq(ToSet(pieces[t]))
  PROVE  \A x : x \in ToSet(FlattenSeq(pieces)) <=> \E t \in DOMAIN pieces : x \in ToSet(pieces[t])
<1> DEFINE S == UNION {ToSet(pieces[t]) : t \in 1 .. n}
<1>1. \A t \in 1 .. n : pieces[t] \in Seq(S)
  <2> SUFFICES ASSUME NEW t \in 1 .. n PROVE pieces[t] \in Seq(S)
    OBVIOUS
  <2>1. ToSet(pieces[t]) \subseteq S
    OBVIOUS
  <2> HIDE DEF S
  <2> QED
    BY <2>1
<1>2. pieces \in Seq(Seq(S))
  <2> HIDE DEF S
  <2> QED
    BY <1>1
<1> QED
  BY <1>2, Flattened

LEMMA NumberedMap ==
  ASSUME NEW rules, rules \in Seq(ToSet(rules)), NEW f, f = [k \in DOMAIN rules |-> f[k]]
  PROVE  f \in Seq(ToSet(f))
<1>1. DOMAIN rules = 1 .. Len(rules) /\ Len(rules) \in Nat
  BY Numbered
<1>2. DOMAIN f = 1 .. Len(rules) /\ \A k \in DOMAIN f : f[k] \in ToSet(f)
  BY <1>1 DEF ToSet
<1> QED
  BY <1>1, <1>2

SaidOfTest(doc, t, k) ==
  Assertion(<<doc, TestResults(doc)[t].id>>, TestResults(doc)[t].rules[k], {<<doc>>}, None, None)

LEMMA XccdfAssertions ==
  ASSUME NEW doc \in XccdfDocs
  PROVE  \A x : x \in ToSet(NormalizeXccdf(doc).assertions) <=>
           \E t \in DOMAIN TestResults(doc) : \E k \in DOMAIN TestResults(doc)[t].rules : x = SaidOfTest(doc, t, k)
<1> DEFINE tests == TestResults(doc)
           Piece(t) == [k \in DOMAIN tests[t].rules |-> SaidOfTest(doc, t, k)]
           pieces == [t \in DOMAIN tests |-> Piece(t)]
<1>1. NormalizeXccdf(doc).assertions = FlattenSeq(pieces)
  BY DEF NormalizeXccdf, FlatMap, SaidOfTest
<1>2. /\ DOMAIN tests = 1 .. Len(tests) /\ Len(tests) \in Nat
      /\ \A t \in DOMAIN tests : tests[t].rules \in Seq(ToSet(tests[t].rules))
  BY XccdfOrdered, Numbered
<1>3. \A t \in DOMAIN tests : \A x : x \in ToSet(Piece(t)) <=>
        \E k \in DOMAIN tests[t].rules : x = SaidOfTest(doc, t, k)
  BY DEF ToSet
<1>4. ASSUME NEW t \in DOMAIN tests PROVE Piece(t) \in Seq(ToSet(Piece(t)))
  <2>1. Piece(t) = [k \in DOMAIN tests[t].rules |-> Piece(t)[k]]
    OBVIOUS
  <2> HIDE DEF Piece, tests
  <2> QED
    BY <1>2, <2>1, NumberedMap
<1>5. DOMAIN pieces = DOMAIN tests /\ \A t \in DOMAIN tests : pieces[t] = Piece(t)
  OBVIOUS
<1>6. pieces = [t \in 1 .. Len(tests) |-> pieces[t]]
  BY <1>2
<1> HIDE DEF Piece, pieces, tests
<1>7. \A x : x \in ToSet(FlattenSeq(pieces)) <=> \E t \in DOMAIN pieces : x \in ToSet(pieces[t])
  <2>1. Len(tests) \in Nat /\ \A t \in 1 .. Len(tests) : pieces[t] \in Seq(ToSet(pieces[t]))
    BY <1>2, <1>4, <1>5
  <2> QED
    BY <1>6, <2>1, Collected
<1> QED
  BY <1>1, <1>3, <1>5, <1>7 DEF tests

\* The envelope of an XCCDF file.
LEMMA XccdfEnvelope ==
  ASSUME NEW doc \in XccdfDocs, XccdfAccepted(doc)
  PROVE  /\ Closed(NormalizeXccdf(doc))
         /\ \A m \in MappingDocs :
              \A o \in ToSet(AssessmentResults(doc, TestResults(doc), m, None).observations) :
                Restates(NormalizeXccdf(doc), "xccdf", o)
<1> DEFINE tests == TestResults(doc)
           env == NormalizeXccdf(doc)
<1>1. ToSet(env.sources) = {<<doc>>} /\ IsInjective(env.sources)
  <2> DEFINE file == <<doc>>
             sources == <<file>>
  <2>1. DOMAIN sources = {1} /\ sources[1] = file
    OBVIOUS
  <2>2. env.sources = sources
    BY DEF NormalizeXccdf
  <2> HIDE DEF sources
  <2>3. ToSet(sources) = {file} /\ IsInjective(sources)
    BY <2>1 DEF ToSet, IsInjective
  <2> QED
    BY <2>2, <2>3
<1>2. /\ DOMAIN env.executions = DOMAIN tests
      /\ \A t \in DOMAIN tests :
           /\ env.executions[t].id = <<doc, tests[t].id>>
           /\ env.executions[t].native = tests[t].id
           /\ env.executions[t].source = <<doc>>
  BY DEF NormalizeXccdf
<1>3. \A t, k : /\ SaidOfTest(doc, t, k).evidence = {<<doc>>}
                /\ SaidOfTest(doc, t, k).execution = <<doc, tests[t].id>>
                /\ SaidOfTest(doc, t, k).native = tests[t].rules[k].idref
                /\ SaidOfTest(doc, t, k).status = tests[t].rules[k].result
  BY DEF SaidOfTest, Assertion
<1>4. Distinct(tests)
  BY XccdfOrdered
<1>5. \A x : x \in ToSet(env.assertions) <=>
        \E t \in DOMAIN tests : \E k \in DOMAIN tests[t].rules : x = SaidOfTest(doc, t, k)
  BY XccdfAssertions
<1> HIDE DEF env, tests
<1>6. IsInjective(IdsOf(env.executions))
  BY <1>2, <1>4 DEF Distinct, IdsOf, IsInjective
<1>7. \A execution \in ToSet(env.executions) : execution.source \in ToSet(env.sources)
  BY <1>1, <1>2 DEF ToSet
<1>8. ASSUME NEW assertion \in ToSet(env.assertions)
      PROVE  /\ assertion.evidence # {} /\ assertion.evidence \subseteq ToSet(env.sources)
             /\ assertion.execution \in ToSet(IdsOf(env.executions))
  <2>1. PICK t \in DOMAIN tests : \E k \in DOMAIN tests[t].rules : assertion = SaidOfTest(doc, t, k)
    BY <1>5
  <2>2. assertion.evidence = {<<doc>>} /\ assertion.execution = env.executions[t].id
    BY <1>2, <1>3, <2>1
  <2>3. env.executions[t].id \in ToSet(IdsOf(env.executions))
    BY <1>2 DEF ToSet, IdsOf
  <2> QED
    BY <1>1, <2>2, <2>3
<1>9. ASSUME NEW m \in MappingDocs, NEW o \in ToSet(AssessmentResults(doc, tests, m, None).observations)
      PROVE  Restates(env, "xccdf", o)
  <2>1. Shaped(tests, m)
    BY XccdfTests DEF tests
  <2>2. PICK t \in DOMAIN tests : IsOfTest(o, doc, tests, m, None, t)
    BY <2>1, ObservationsOf
  <2>3. PICK k \in DOMAIN tests[t].rules : o = ObservationOf(doc, tests, m, None, t, k)
    BY <2>2 DEF IsOfTest
  <2>4. o.test = tests[t].id /\ o.rule = tests[t].rules[k].idref /\ o.result = tests[t].rules[k].result
    BY <2>3, ObservationIds
  <2>5. SaidOfTest(doc, t, k) \in ToSet(env.assertions)
    BY <1>5
  <2>6. Reached(env, SaidOfTest(doc, t, k)) = tests[t].id
    BY <1>2, <1>3, <1>6, ExecutionReached
  <2> QED
    BY <1>3, <2>4, <2>5, <2>6 DEF Restates
<1>10. Closed(env)
  BY <1>1, <1>6, <1>7, <1>8 DEF Closed
<1> QED
  BY <1>9, <1>10 DEF env, tests

\* The reports of a collection that say what was run.
EvaluatedReports(arf) ==
  Where(LAMBDA report : report.payload.kind \in {"TestResult", "oval_results"}, Manifest(arf))

LEMMA EvaluatedElements ==
  ASSUME NEW arf, IsOrdered(arf), ArfAccepted(arf)
  PROVE  /\ EvaluatedReports(arf) \in Seq(ToSet(Manifest(arf)))
         /\ \A entry \in ToSet(Manifest(arf)) :
              entry.payload.kind = "TestResult" => entry \in ToSet(EvaluatedReports(arf))
         /\ IsInjective(IdsOf(Manifest(arf))) /\ IsInjective(IdsOf(EvaluatedReports(arf)))
<1> DEFINE S == ToSet(Manifest(arf))
           T == {entry \in S : entry.payload.kind \in {"TestResult", "oval_results"}}
<1>1. \A k \in DOMAIN Manifest(arf) :
        Manifest(arf)[k] \in T <=> Manifest(arf)[k].payload.kind \in {"TestResult", "oval_results"}
  BY DEF ToSet
<1>2. EvaluatedReports(arf) = FlattenSeq(Pieces(Manifest(arf), T))
  BY <1>1 DEF EvaluatedReports, Where, FlatMap, Pieces
<1>3. ToSet(Manifest(arf)) \cap T = T
  OBVIOUS
<1>4. Manifest(arf) \in Seq(S)
  BY ManifestOf
<1>5. IsInjective(IdsOf(Manifest(arf)))
  <2>1. /\ DOMAIN IdsOf(Manifest(arf)) = DOMAIN IdsOf(arf.reports)
        /\ \A k \in DOMAIN IdsOf(arf.reports) : IdsOf(Manifest(arf))[k] = IdsOf(arf.reports)[k]
    BY ManifestOf DEF IdsOf
  <2> QED
    BY <2>1, ReportIds DEF IsInjective
<1>6. IsInjective(Manifest(arf))
  BY <1>5 DEF IdsOf, IsInjective
<1>7. \A entry \in S : entry.payload.kind = "TestResult" => entry \in T
  OBVIOUS
<1>8. \A one, other \in S : one.id = other.id => one = other
  BY <1>5 DEF ToSet, IdsOf, IsInjective
<1> HIDE DEF T, S
<1>9. EvaluatedReports(arf) \in Seq(S) /\ ToSet(EvaluatedReports(arf)) = T
  <2>1. /\ FlattenSeq(Pieces(Manifest(arf), T)) \in Seq(S)
        /\ ToSet(FlattenSeq(Pieces(Manifest(arf), T))) = ToSet(Manifest(arf)) \cap T
    BY <1>4, PiecesJoined
  <2> QED
    BY <1>2, <1>3, <2>1
<1>10. IsInjective(EvaluatedReports(arf))
  BY <1>2, <1>4, <1>6, PiecesInjective
<1>11. \A k \in DOMAIN EvaluatedReports(arf) : EvaluatedReports(arf)[k] \in S
  BY <1>9
<1>12. IsInjective(IdsOf(EvaluatedReports(arf)))
  BY <1>8, <1>10, <1>11 DEF IdsOf, IsInjective
<1> QED
  BY <1>5, <1>7, <1>9, <1>12 DEF S

SaidOfReport(arf, t, k) ==
  Assertion(<<arf, EvaluatedReports(arf)[t].id, NativeId(EvaluatedReports(arf)[t])>>,
            EvaluatedReports(arf)[t].payload.rules[k], {<<arf>>, <<arf, EvaluatedReports(arf)[t].id>>},
            EvaluatedReports(arf)[t].id, EvaluatedReports(arf)[t].linkage.collection)

LEMMA ArfAssertions ==
  ASSUME NEW arf \in ArfDocs, ArfAccepted(arf)
  PROVE  \A x : x \in ToSet(NormalizeArf(arf).assertions) <=>
           \E t \in DOMAIN EvaluatedReports(arf) :
             \E k \in DOMAIN EvaluatedReports(arf)[t].payload.rules : x = SaidOfReport(arf, t, k)
<1> DEFINE evaluated == EvaluatedReports(arf)
           Piece(t) == [k \in DOMAIN evaluated[t].payload.rules |-> SaidOfReport(arf, t, k)]
           pieces == [t \in DOMAIN evaluated |-> Piece(t)]
<1>1. NormalizeArf(arf).assertions = FlattenSeq(pieces)
  BY DEF NormalizeArf, EvaluatedReports, FlatMap, SaidOfReport
<1>2. IsOrdered(arf)
  BY DocumentsAssumption
<1>3. evaluated \in Seq(ToSet(Manifest(arf)))
  BY <1>2, EvaluatedElements
<1>4. DOMAIN evaluated = 1 .. Len(evaluated) /\ Len(evaluated) \in Nat
  BY <1>3, Numbered
<1>5. ASSUME NEW t \in DOMAIN evaluated
      PROVE  evaluated[t].payload.rules \in Seq(ToSet(evaluated[t].payload.rules))
  <2>1. evaluated[t] \in ToSet(Manifest(arf))
    <3> HIDE DEF evaluated
    <3> QED
      BY <1>3
  <2>2. PICK k \in DOMAIN arf.reports : evaluated[t] = Manifest(arf)[k]
    BY <1>2, <2>1, ManifestOf DEF ToSet
  <2>3. arf.reports[k] \in ToSet(arf.reports)
    BY DEF ToSet
  <2>4. evaluated[t].payload = arf.reports[k].payload
    BY <1>2, <2>2, ManifestOf
  <2> QED
    BY <2>3, <2>4, DocumentsAssumption
<1>6. \A t \in DOMAIN evaluated : \A x : x \in ToSet(Piece(t)) <=>
        \E k \in DOMAIN evaluated[t].payload.rules : x = SaidOfReport(arf, t, k)
  BY DEF ToSet
<1>7. ASSUME NEW t \in DOMAIN evaluated PROVE Piece(t) \in Seq(ToSet(Piece(t)))
  <2>1. Piece(t) = [k \in DOMAIN evaluated[t].payload.rules |-> Piece(t)[k]]
    OBVIOUS
  <2> HIDE DEF Piece, evaluated
  <2> QED
    BY <1>5, <2>1, NumberedMap
<1>8. DOMAIN pieces = DOMAIN evaluated /\ \A t \in DOMAIN evaluated : pieces[t] = Piece(t)
  OBVIOUS
<1>9. pieces = [t \in 1 .. Len(evaluated) |-> pieces[t]]
  BY <1>4
<1> HIDE DEF Piece, pieces, evaluated
<1>10. \A x : x \in ToSet(FlattenSeq(pieces)) <=> \E t \in DOMAIN pieces : x \in ToSet(pieces[t])
  <2>1. Len(evaluated) \in Nat /\ \A t \in 1 .. Len(evaluated) : pieces[t] \in Seq(ToSet(pieces[t]))
    BY <1>4, <1>7, <1>8
  <2> QED
    BY <1>9, <2>1, Collected
<1> QED
  BY <1>1, <1>6, <1>8, <1>10 DEF evaluated

\* The sources of a collection's envelope are the file and all its reports.
LEMMA SourcesOfArf ==
  ASSUME NEW arf, IsOrdered(arf), ArfAccepted(arf)
  PROVE  /\ IsInjective(EnvelopeSources(arf))
         /\ ToSet(EnvelopeSources(arf)) = {<<arf>>} \cup {<<arf, entry.id>> : entry \in ToSet(Manifest(arf))}
<1> DEFINE file == <<<<arf>>>>
           reports == [k \in DOMAIN Manifest(arf) |-> <<arf, Manifest(arf)[k].id>>]
           S == {<<arf>>} \cup {<<arf, entry.id>> : entry \in ToSet(Manifest(arf))}
<1>1. file \in Seq(S) /\ ToSet(file) = {<<arf>>} /\ IsInjective(file)
  BY DEF ToSet, IsInjective
<1>2. ToSet(reports) = {<<arf, entry.id>> : entry \in ToSet(Manifest(arf))}
  BY DEF ToSet
<1>3. reports \in Seq(S)
  <2>1. DOMAIN Manifest(arf) = 1 .. Len(Manifest(arf)) /\ Len(Manifest(arf)) \in Nat
    BY ManifestOf, Numbered
  <2>2. \A k \in DOMAIN Manifest(arf) : <<arf, Manifest(arf)[k].id>> \in S
    BY DEF ToSet
  <2> HIDE DEF S
  <2> QED
    BY <2>1, <2>2
<1>4. IsInjective(reports)
  <2>1. \A j, k \in DOMAIN Manifest(arf) : Manifest(arf)[j].id = Manifest(arf)[k].id => j = k
    BY EvaluatedElements DEF IsInjective, IdsOf
  <2> QED
    BY <2>1 DEF IsInjective
<1>5. ToSet(file) \cap ToSet(reports) = {}
  <2>1. \A x : <<arf>> # <<arf, x>>
    <3> SUFFICES ASSUME NEW x PROVE Len(<<arf>>) # Len(<<arf, x>>)
      OBVIOUS
    <3> QED
      OBVIOUS
  <2> HIDE DEF file, reports
  <2> QED
    BY <1>1, <1>2, <2>1
<1>6. EnvelopeSources(arf) = file \o reports
  BY DEF EnvelopeSources
<1> HIDE DEF file, reports
<1>7. /\ ToSet(EnvelopeSources(arf)) = ToSet(file) \cup ToSet(reports)
      /\ IsInjective(EnvelopeSources(arf))
  <2> HIDE DEF S
  <2> QED
    BY <1>1, <1>3, <1>4, <1>5, <1>6, Joined
<1> QED
  BY <1>1, <1>2, <1>7

\* The envelope of a collection.
LEMMA ArfEnvelope ==
  ASSUME NEW arf \in ArfDocs, ArfAccepted(arf)
  PROVE  /\ Closed(NormalizeArf(arf))
         /\ ExactlyOneReport(arf) =>
              \A m \in MappingDocs : \A o \in ToSet(FromArf(arf, m).observations) :
                Restates(NormalizeArf(arf), "arf", o)
<1> DEFINE evaluated == EvaluatedReports(arf)
           env == NormalizeArf(arf)
<1>1. IsOrdered(arf)
  BY DocumentsAssumption
<1>2. /\ IsInjective(env.sources)
      /\ ToSet(env.sources) = {<<arf>>} \cup {<<arf, entry.id>> : entry \in ToSet(Manifest(arf))}
  BY <1>1, SourcesOfArf DEF NormalizeArf
<1>3. /\ DOMAIN env.executions = DOMAIN evaluated
      /\ \A t \in DOMAIN evaluated :
           /\ env.executions[t].id = <<arf, evaluated[t].id, NativeId(evaluated[t])>>
           /\ env.executions[t].native = NativeId(evaluated[t])
           /\ env.executions[t].source = <<arf, evaluated[t].id>>
  BY DEF NormalizeArf, EvaluatedReports
<1>4. \A t, k :
        /\ SaidOfReport(arf, t, k).evidence = {<<arf>>, <<arf, evaluated[t].id>>}
        /\ SaidOfReport(arf, t, k).execution = <<arf, evaluated[t].id, NativeId(evaluated[t])>>
        /\ SaidOfReport(arf, t, k).native = evaluated[t].payload.rules[k].idref
        /\ SaidOfReport(arf, t, k).status = evaluated[t].payload.rules[k].result
        /\ SaidOfReport(arf, t, k).report = evaluated[t].id
        /\ SaidOfReport(arf, t, k).collection = evaluated[t].linkage.collection
  BY DEF SaidOfReport, Assertion
<1>5. /\ evaluated \in Seq(ToSet(Manifest(arf))) /\ IsInjective(IdsOf(evaluated))
      /\ \A entry \in ToSet(Manifest(arf)) :
           entry.payload.kind = "TestResult" => entry \in ToSet(evaluated)
  BY <1>1, EvaluatedElements
<1>6. \A x : x \in ToSet(env.assertions) <=>
        \E t \in DOMAIN evaluated : \E k \in DOMAIN evaluated[t].payload.rules : x = SaidOfReport(arf, t, k)
  BY ArfAssertions
<1> HIDE DEF env, evaluated
<1>7. \A t \in DOMAIN evaluated : evaluated[t] \in ToSet(Manifest(arf))
  BY <1>5
<1>8. \A t \in DOMAIN evaluated : <<arf, evaluated[t].id>> \in ToSet(env.sources)
  BY <1>2, <1>7
<1>9. IsInjective(IdsOf(env.executions))
  BY <1>3, <1>5 DEF IdsOf, IsInjective
<1>10. \A execution \in ToSet(env.executions) : execution.source \in ToSet(env.sources)
  BY <1>3, <1>8 DEF ToSet
<1>11. ASSUME NEW assertion \in ToSet(env.assertions)
       PROVE  /\ assertion.evidence # {} /\ assertion.evidence \subseteq ToSet(env.sources)
              /\ assertion.execution \in ToSet(IdsOf(env.executions))
  <2>1. PICK t \in DOMAIN evaluated :
          \E k \in DOMAIN evaluated[t].payload.rules : assertion = SaidOfReport(arf, t, k)
    BY <1>6
  <2>2. /\ assertion.evidence = {<<arf>>, <<arf, evaluated[t].id>>}
        /\ assertion.execution = env.executions[t].id
    BY <1>3, <1>4, <2>1
  <2>3. env.executions[t].id \in ToSet(IdsOf(env.executions))
    BY <1>3 DEF ToSet, IdsOf
  <2>4. <<arf>> \in ToSet(env.sources)
    BY <1>2
  <2> QED
    BY <1>8, <2>2, <2>3, <2>4
<1>12. Closed(env)
  BY <1>2, <1>9, <1>10, <1>11 DEF Closed
<1>13. ASSUME ExactlyOneReport(arf), NEW m \in MappingDocs, NEW o \in ToSet(FromArf(arf, m).observations)
       PROVE  Restates(env, "arf", o)
  <2> DEFINE report == TestReports(arf)[1]
             provenance == [report |-> report.id, asset |-> report.linkage.asset,
                            collection |-> report.linkage.collection, content |-> report.payload]
             tests == <<report.payload>>
  <2>1. report \in ToSet(Manifest(arf)) /\ report.payload.kind = "TestResult"
    BY <1>1, <1>13, TestReportsElements, OnlyElement DEF ExactlyOneReport
  <2>2. FromArf(arf, m) = AssessmentResults(arf, tests, m, provenance)
    BY DEF FromArf
  <2>3. Shaped(tests, m)
    BY <1>13, ArfTests
  <2>4. PICK u \in DOMAIN tests : IsOfTest(o, arf, tests, m, provenance, u)
    <3> HIDE DEF tests, provenance
    <3> QED
      BY <1>13, <2>2, <2>3, ObservationsOf
  <2>5. u = 1 /\ tests[u] = report.payload
    BY <2>4
  <2>6. PICK k \in DOMAIN report.payload.rules : o = ObservationOf(arf, tests, m, provenance, u, k)
    BY <2>4, <2>5 DEF IsOfTest
  <2>7. /\ o.test = report.payload.id /\ o.rule = report.payload.rules[k].idref
        /\ o.result = report.payload.rules[k].result
    BY <2>5, <2>6, ObservationIds
  <2>8. o.provenance = provenance
    BY <2>6 DEF ObservationOf, Observation
  <2>9. o.provenance.report = report.id /\ o.provenance.collection = report.linkage.collection
    BY <2>8
  <2>10. PICK t \in DOMAIN evaluated : evaluated[t] = report
    BY <1>5, <2>1 DEF ToSet
  <2>11. SaidOfReport(arf, t, k) \in ToSet(env.assertions)
    BY <1>6, <2>10
  <2>12. Reached(env, SaidOfReport(arf, t, k)) = report.payload.id
    <3>1. Reached(env, SaidOfReport(arf, t, k)) = env.executions[t].native
      BY <1>3, <1>4, <1>9, ExecutionReached
    <3> QED
      BY <1>3, <2>1, <2>10, <3>1 DEF NativeId
  <2> HIDE DEF report, provenance, tests
  <2> QED
    BY <1>4, <2>7, <2>9, <2>10, <2>11, <2>12 DEF Restates
<1> QED
  BY <1>12, <1>13 DEF env

\* Envelopes are closed, and state what the artifact of the same file states:
\* no two sources or executions share an identifier, every reference is to one
\* that is listed, and every observation is an assertion of the execution that
\* the observation names (evidence.py:11-53, xccdf_convert.py:15-56).
THEOREM EnvelopesClosed == Spec => []EnvelopesAreClosed
<1>1. IInv => EnvelopesAreClosed
  <2> SUFFICES ASSUME IInv, NEW output \in OfKind("envelope")
               PROVE  /\ Closed(output.doc)
                      /\ \A artifact \in Artifacts : artifact.source = output.source =>
                           \A o \in ToSet(artifact.doc.observations) :
                             Restates(output.doc, artifact.kind, o)
    BY DEF EnvelopesAreClosed, Closed, Restates, Reached
  <2>1. ASSUME NEW artifact \in OfKind("xccdf")
        PROVE  \E doc \in XccdfDocs, m \in MappingDocs :
                 /\ artifact.kind = "xccdf" /\ artifact.source = doc
                 /\ artifact.doc = AssessmentResults(doc, TestResults(doc), m, None)
    BY <2>1, Outputs DEF IsXccdf, XccdfArtifact, Artifact
  <2>2. ASSUME NEW artifact \in OfKind("arf")
        PROVE  \E arf \in ArfDocs, m \in MappingDocs :
                 /\ artifact.kind = "arf" /\ artifact.source = arf
                 /\ ExactlyOneReport(arf) /\ artifact.doc = FromArf(arf, m)
    BY <2>2, Outputs DEF IsArf, ArfArtifact, Artifact
  <2>3. XccdfDocs \cap ArfDocs = {}
    BY DocumentsAssumption
  <2>4. ASSUME NEW doc \in XccdfDocs, XccdfAccepted(doc),
               output.source = doc, output.doc = NormalizeXccdf(doc)
        PROVE  /\ Closed(output.doc)
               /\ \A artifact \in Artifacts : artifact.source = output.source =>
                    \A o \in ToSet(artifact.doc.observations) : Restates(output.doc, artifact.kind, o)
    BY <2>1, <2>2, <2>3, <2>4, XccdfEnvelope DEF Artifacts
  <2>5. ASSUME NEW arf \in ArfDocs, ArfAccepted(arf),
               output.source = arf, output.doc = NormalizeArf(arf)
        PROVE  /\ Closed(output.doc)
               /\ \A artifact \in Artifacts : artifact.source = output.source =>
                    \A o \in ToSet(artifact.doc.observations) : Restates(output.doc, artifact.kind, o)
    BY <2>1, <2>2, <2>3, <2>5, ArfEnvelope DEF Artifacts
  <2> QED
    BY <2>4, <2>5, Outputs DEF IsEnvelope, Envelope
<1> QED
  BY <1>1, Invariance, PTL
-----------------------------------------------------------------------------
(* The mapping report: both it and the artifact join, over the TestResults *)
(* and their rule results, what the entries that apply say.                *)

Brief(tests, m, t, k, n) ==
  [target |-> m[n].target, status |-> m[n].outcomes[tests[t].rules[k].result]]

AllBriefs(tests, m) ==
  UNION {UNION {{Brief(tests, m, t, k, n) : n \in DOMAIN m} : k \in DOMAIN tests[t].rules} :
           t \in DOMAIN tests}

Targets(tests, m, t, k) ==
  LET entries == ApplicableEntries(m, tests[t], tests[t].rules[k])
  IN [n \in DOMAIN entries |->
       [target |-> entries[n].target, status |-> entries[n].outcomes[tests[t].rules[k].result]]]

RecordOf(tests, m, t, k) ==
  [benchmark |-> tests[t].benchmark, rule |-> tests[t].rules[k].idref,
   result |-> tests[t].rules[k].result, targets |-> Targets(tests, m, t, k)]

Records(tests, m) ==
  FlattenSeq([t \in DOMAIN tests |-> [k \in DOMAIN tests[t].rules |-> RecordOf(tests, m, t, k)]])

LEMMA ReportParts ==
  ASSUME NEW tests, NEW m
  PROVE  /\ MappingReport(tests, m).mapped = Where(LAMBDA record : record.targets # <<>>, Records(tests, m))
         /\ MappingReport(tests, m).unmapped = Where(LAMBDA record : record.targets = <<>>, Records(tests, m))
         /\ MappingReport(tests, m).stale
              = {<<m[k].benchmark, m[k].rule>> : k \in DOMAIN m}
                  \ {<<record.benchmark, record.rule>> : record \in ToSet(Records(tests, m))}
<1>1. Records(tests, m) = FlatMap(LAMBDA test : [k \in DOMAIN test.rules |->
        [benchmark |-> test.benchmark, rule |-> test.rules[k].idref, result |-> test.rules[k].result,
         targets |-> LET entries == ApplicableEntries(m, test, test.rules[k])
                     IN [n \in DOMAIN entries |->
                          [target |-> entries[n].target, status |-> entries[n].outcomes[test.rules[k].result]]]]],
        tests)
  BY DEF Records, RecordOf, Targets, FlatMap
<1> QED
  BY <1>1 DEF MappingReport

\* The targets of a rule result, entry by entry.
LEMMA TargetsOfRule ==
  ASSUME NEW source, NEW tests, NEW m, Shaped(tests, m), NEW t \in DOMAIN tests, NEW k \in DOMAIN tests[t].rules
  PROVE  Targets(tests, m, t, k)
           = FlattenSeq([n \in DOMAIN m |-> IF Told(source, tests, m, t, k, n)
                                              THEN <<Brief(tests, m, t, k, n)>> ELSE <<>>])
<1> DEFINE M == ToSet(m)
           result == tests[t].rules[k].result
           h == [entry \in M |-> [target |-> entry.target, status |-> entry.outcomes[result]]]
           Q == {h[entry] : entry \in M}
           Piece(n) == IF Told(source, tests, m, t, k, n) THEN <<m[n]>> ELSE <<>>
           pieces == [n \in DOMAIN m |-> Piece(n)]
           entries == FlattenSeq(pieces)
<1>1. DOMAIN m = 1 .. Len(m) /\ Len(m) \in Nat /\ m \in Seq(M)
  BY Numbered DEF Shaped
<1>2. ApplicableEntries(m, tests[t], tests[t].rules[k]) = entries
  BY DEF ApplicableEntries, Where, FlatMap, Told
<1>3. \A n \in DOMAIN m : m[n] \in M
  BY DEF ToSet
<1>4. \A n \in DOMAIN m : h[m[n]] = Brief(tests, m, t, k, n)
  BY <1>3 DEF Brief
<1>5. Targets(tests, m, t, k)
        = [n \in DOMAIN entries |-> [target |-> entries[n].target, status |-> entries[n].outcomes[result]]]
  BY <1>2 DEF Targets
<1>6. \A entry \in M : h[entry] = [target |-> entry.target, status |-> entry.outcomes[result]]
  OBVIOUS
<1>7. MapsTo(h, M, Q)
  BY DEF MapsTo
<1> HIDE DEF M, h, Q
<1>8. \A n \in DOMAIN m : Piece(n) \in Seq(M)
  BY <1>3
<1>9. DOMAIN pieces = DOMAIN m /\ \A n \in DOMAIN m : pieces[n] = Piece(n)
  OBVIOUS
<1>10. pieces \in Seq(Seq(M))
  <2> HIDE DEF Piece
  <2> QED
    BY <1>1, <1>8
<1>11. \A n \in DOMAIN m : ImageOf(h, Piece(n)) = IF Told(source, tests, m, t, k, n)
                                                   THEN <<Brief(tests, m, t, k, n)>> ELSE <<>>
  BY <1>4 DEF ImageOf
<1> HIDE DEF Piece, pieces
<1>12. entries \in Seq(M)
  BY <1>10, Flattened
<1> HIDE DEF entries
<1>13. Targets(tests, m, t, k) = ImageOf(h, entries)
  <2>1. \A n \in DOMAIN entries : entries[n] \in M
    BY <1>12
  <2> QED
    BY <1>5, <1>6, <2>1 DEF ImageOf
<1>14. ImageOf(h, FlattenSeq(pieces)) = FlattenSeq([n \in DOMAIN pieces |-> ImageOf(h, pieces[n])])
  BY <1>7, <1>10, MappedFlatten
<1>15. [n \in DOMAIN pieces |-> ImageOf(h, pieces[n])]
         = [n \in DOMAIN m |-> IF Told(source, tests, m, t, k, n)
                                 THEN <<Brief(tests, m, t, k, n)>> ELSE <<>>]
  BY <1>9, <1>11
<1> QED
  BY <1>13, <1>14, <1>15 DEF entries

\* They are those of the entries that apply.
LEMMA TargetsElements ==
  ASSUME NEW source, NEW tests, NEW m, Shaped(tests, m), NEW t \in DOMAIN tests, NEW k \in DOMAIN tests[t].rules
  PROVE  /\ Targets(tests, m, t, k) \in Seq(AllBriefs(tests, m))
         /\ \A n \in DOMAIN m : Told(source, tests, m, t, k, n) => Targets(tests, m, t, k) # <<>>
<1> DEFINE Piece(n) == IF Told(source, tests, m, t, k, n) THEN <<Brief(tests, m, t, k, n)>> ELSE <<>>
           pieces == [n \in DOMAIN m |-> Piece(n)]
<1>1. DOMAIN m = 1 .. Len(m) /\ Len(m) \in Nat
  BY Numbered DEF Shaped
<1>2. \A n \in DOMAIN m : Brief(tests, m, t, k, n) \in AllBriefs(tests, m)
  BY DEF AllBriefs
<1>3. \A n \in DOMAIN m : Piece(n) \in Seq(AllBriefs(tests, m))
  BY <1>2
<1>4. \A n \in DOMAIN m : Told(source, tests, m, t, k, n) => Brief(tests, m, t, k, n) \in ToSet(Piece(n))
  BY DEF ToSet
<1>5. DOMAIN pieces = DOMAIN m /\ \A n \in DOMAIN m : pieces[n] = Piece(n)
  OBVIOUS
<1>6. Targets(tests, m, t, k) = FlattenSeq(pieces)
  BY TargetsOfRule
<1>7. pieces \in Seq(Seq(AllBriefs(tests, m)))
  <2> HIDE DEF Piece
  <2> QED
    BY <1>1, <1>3
<1> HIDE DEF Piece, pieces
<1>8. \A n \in DOMAIN m : Told(source, tests, m, t, k, n) =>
        Brief(tests, m, t, k, n) \in ToSet(Targets(tests, m, t, k))
  BY <1>4, <1>5, <1>6, <1>7, Flattened
<1>9. ToSet(<<>>) = {}
  BY DEF ToSet
<1> QED
  BY <1>6, <1>7, <1>8, <1>9, Flattened

\* What a reader of the artifact sees of its findings.
Shown(source, tests, m) ==
  [x \in AllFindings(source, tests, m) |-> [target |-> x.target, status |-> x.status]]

ShownSet(source, tests, m) == {Shown(source, tests, m)[x] : x \in AllFindings(source, tests, m)}

LEMMA ShownMaps ==
  ASSUME NEW source, NEW tests, NEW m
  PROVE  MapsTo(Shown(source, tests, m), AllFindings(source, tests, m), ShownSet(source, tests, m))
  BY DEF MapsTo, ShownSet

LEMMA ShownOfRule ==
  ASSUME NEW source, NEW tests, NEW m, Shaped(tests, m), NEW t \in DOMAIN tests, NEW k \in DOMAIN tests[t].rules
  PROVE  ImageOf(Shown(source, tests, m), RuleFindings(source, tests, m, t, k)) = Targets(tests, m, t, k)
<1> DEFINE S == AllFindings(source, tests, m)
           h == Shown(source, tests, m)
           Piece(n) == IF Told(source, tests, m, t, k, n) THEN <<FindingOf(source, tests, m, t, k, n)>> ELSE <<>>
           pieces == [n \in DOMAIN m |-> Piece(n)]
<1>1. DOMAIN m = 1 .. Len(m) /\ Len(m) \in Nat
  BY Numbered DEF Shaped
<1>2. RuleFindings(source, tests, m, t, k) = FlattenSeq(pieces)
  BY DEF RuleFindings, FindingsOf, FlatMap, Told, FindingOf
<1>3. \A n \in DOMAIN m : FindingOf(source, tests, m, t, k, n) \in S
  BY DEF AllFindings
<1>4. \A n \in DOMAIN m : h[FindingOf(source, tests, m, t, k, n)] = Brief(tests, m, t, k, n)
  BY <1>3, FindingIds DEF Shown, Brief
<1>5. MapsTo(h, S, ShownSet(source, tests, m))
  BY ShownMaps
<1> HIDE DEF S, h
<1>6. \A n \in DOMAIN m : Piece(n) \in Seq(S)
  BY <1>3
<1>7. DOMAIN pieces = DOMAIN m /\ \A n \in DOMAIN m : pieces[n] = Piece(n)
  OBVIOUS
<1>8. pieces \in Seq(Seq(S))
  <2> HIDE DEF Piece
  <2> QED
    BY <1>1, <1>6
<1>9. \A n \in DOMAIN m : ImageOf(h, Piece(n)) = IF Told(source, tests, m, t, k, n)
                                                  THEN <<Brief(tests, m, t, k, n)>> ELSE <<>>
  BY <1>4 DEF ImageOf
<1> HIDE DEF Piece, pieces
<1>10. ImageOf(h, FlattenSeq(pieces)) = FlattenSeq([n \in DOMAIN pieces |-> ImageOf(h, pieces[n])])
  BY <1>5, <1>8, MappedFlatten
<1>11. [n \in DOMAIN pieces |-> ImageOf(h, pieces[n])]
         = [n \in DOMAIN m |-> IF Told(source, tests, m, t, k, n)
                                 THEN <<Brief(tests, m, t, k, n)>> ELSE <<>>]
  BY <1>7, <1>9
<1>12. Targets(tests, m, t, k) = FlattenSeq([n \in DOMAIN m |->
         IF Told(source, tests, m, t, k, n) THEN <<Brief(tests, m, t, k, n)>> ELSE <<>>])
  BY TargetsOfRule
<1>13. ImageOf(h, RuleFindings(source, tests, m, t, k)) = Targets(tests, m, t, k)
  BY <1>2, <1>10, <1>11, <1>12
<1> QED
  BY <1>13 DEF h

LEMMA ShownOfTest ==
  ASSUME NEW source, NEW tests, NEW m, Shaped(tests, m), NEW t \in DOMAIN tests
  PROVE  ImageOf(Shown(source, tests, m), TestFindings(source, tests, m, t))
           = FlattenSeq([k \in DOMAIN tests[t].rules |-> Targets(tests, m, t, k)])
<1> DEFINE S == AllFindings(source, tests, m)
           h == Shown(source, tests, m)
           Piece(k) == RuleFindings(source, tests, m, t, k)
           pieces == [k \in DOMAIN tests[t].rules |-> Piece(k)]
<1>1. DOMAIN tests[t].rules = 1 .. Len(tests[t].rules) /\ Len(tests[t].rules) \in Nat
  BY Numbered DEF Shaped
<1>2. TestFindings(source, tests, m, t) = FlattenSeq(pieces)
  BY DEF TestFindings, RuleFindings, FlatMap
<1>3. \A k \in DOMAIN tests[t].rules : Piece(k) \in Seq(S) /\ ImageOf(h, Piece(k)) = Targets(tests, m, t, k)
  BY FindingsOfRule, ShownOfRule
<1>4. DOMAIN pieces = DOMAIN tests[t].rules /\ \A k \in DOMAIN tests[t].rules : pieces[k] = Piece(k)
  OBVIOUS
<1>5. MapsTo(h, S, ShownSet(source, tests, m))
  BY ShownMaps
<1> HIDE DEF S, h, Piece
<1>6. pieces \in Seq(Seq(S))
  BY <1>1, <1>3
<1> HIDE DEF pieces
<1>7. ImageOf(h, FlattenSeq(pieces)) = FlattenSeq([k \in DOMAIN pieces |-> ImageOf(h, pieces[k])])
  BY <1>5, <1>6, MappedFlatten
<1>8. [k \in DOMAIN pieces |-> ImageOf(h, pieces[k])]
        = [k \in DOMAIN tests[t].rules |-> Targets(tests, m, t, k)]
  BY <1>3, <1>4
<1> QED
  BY <1>2, <1>7, <1>8 DEF h

LEMMA ShownOfDoc ==
  ASSUME NEW source, NEW tests, NEW m, NEW provenance, Shaped(tests, m)
  PROVE  ImageOf(Shown(source, tests, m), AssessmentResults(source, tests, m, provenance).findings)
           = FlattenSeq([t \in DOMAIN tests |->
               FlattenSeq([k \in DOMAIN tests[t].rules |-> Targets(tests, m, t, k)])])
<1> DEFINE S == AllFindings(source, tests, m)
           h == Shown(source, tests, m)
           Piece(t) == TestFindings(source, tests, m, t)
           pieces == [t \in DOMAIN tests |-> Piece(t)]
           Total(t) == FlattenSeq([k \in DOMAIN tests[t].rules |-> Targets(tests, m, t, k)])
<1>1. DOMAIN tests = 1 .. Len(tests) /\ Len(tests) \in Nat
  BY Numbered DEF Shaped
<1>2. AssessmentResults(source, tests, m, provenance).findings = FlattenSeq(pieces)
  BY DEF AssessmentResults, TestFindings, FlatMap
<1>3. \A t \in DOMAIN tests : Piece(t) \in Seq(S) /\ ImageOf(h, Piece(t)) = Total(t)
  BY FindingsOfTest, ShownOfTest
<1>4. DOMAIN pieces = DOMAIN tests /\ \A t \in DOMAIN tests : pieces[t] = Piece(t)
  OBVIOUS
<1>5. MapsTo(h, S, ShownSet(source, tests, m))
  BY ShownMaps
<1> HIDE DEF S, h, Piece, Total
<1>6. pieces \in Seq(Seq(S))
  BY <1>1, <1>3
<1> HIDE DEF pieces
<1>7. ImageOf(h, FlattenSeq(pieces)) = FlattenSeq([t \in DOMAIN pieces |-> ImageOf(h, pieces[t])])
  BY <1>5, <1>6, MappedFlatten
<1>8. [t \in DOMAIN pieces |-> ImageOf(h, pieces[t])] = [t \in DOMAIN tests |-> Total(t)]
  BY <1>3, <1>4
<1> QED
  BY <1>2, <1>7, <1>8 DEF h, Total

AllRecords(tests, m) ==
  UNION {{RecordOf(tests, m, t, k) : k \in DOMAIN tests[t].rules} : t \in DOMAIN tests}

RecordsOfTest(tests, m, t) == [k \in DOMAIN tests[t].rules |-> RecordOf(tests, m, t, k)]

LEMMA RecordPieces ==
  ASSUME NEW tests, NEW m, Shaped(tests, m)
  PROVE  /\ Records(tests, m) = FlattenSeq([t \in DOMAIN tests |-> RecordsOfTest(tests, m, t)])
         /\ \A t \in DOMAIN tests : RecordsOfTest(tests, m, t) \in Seq(AllRecords(tests, m))
         /\ [t \in DOMAIN tests |-> RecordsOfTest(tests, m, t)] \in Seq(Seq(AllRecords(tests, m)))
<1>1. Records(tests, m) = FlattenSeq([t \in DOMAIN tests |-> RecordsOfTest(tests, m, t)])
  BY DEF Records, RecordsOfTest
<1>2. ASSUME NEW t \in DOMAIN tests PROVE RecordsOfTest(tests, m, t) \in Seq(AllRecords(tests, m))
  <2>1. DOMAIN tests[t].rules = 1 .. Len(tests[t].rules) /\ Len(tests[t].rules) \in Nat
    BY Numbered DEF Shaped
  <2>2. \A k \in DOMAIN tests[t].rules : RecordOf(tests, m, t, k) \in AllRecords(tests, m)
    BY DEF AllRecords
  <2> QED
    BY <2>1, <2>2 DEF RecordsOfTest
<1>3. [t \in DOMAIN tests |-> RecordsOfTest(tests, m, t)] \in Seq(Seq(AllRecords(tests, m)))
  <2>1. DOMAIN tests = 1 .. Len(tests) /\ Len(tests) \in Nat
    BY Numbered DEF Shaped
  <2> QED
    BY <1>2, <2>1
<1> QED
  BY <1>1, <1>2, <1>3

IsRecord(x, tests, m, t) == \E k \in DOMAIN tests[t].rules : x = RecordOf(tests, m, t, k)

LEMMA RecordsElements ==
  ASSUME NEW tests, NEW m, Shaped(tests, m)
  PROVE  /\ Records(tests, m) \in Seq(AllRecords(tests, m))
         /\ \A x : x \in ToSet(Records(tests, m)) <=> \E t \in DOMAIN tests : IsRecord(x, tests, m, t)
<1> DEFINE pieces == [t \in DOMAIN tests |-> RecordsOfTest(tests, m, t)]
<1>1. DOMAIN pieces = DOMAIN tests /\ \A t \in DOMAIN tests : pieces[t] = RecordsOfTest(tests, m, t)
  OBVIOUS
<1>2. \A t \in DOMAIN tests : \A x : x \in ToSet(RecordsOfTest(tests, m, t)) <=> IsRecord(x, tests, m, t)
  BY DEF ToSet, RecordsOfTest, IsRecord
<1>3. Records(tests, m) = FlattenSeq(pieces) /\ pieces \in Seq(Seq(AllRecords(tests, m)))
  BY RecordPieces
<1> HIDE DEF pieces
<1> QED
  BY <1>1, <1>2, <1>3, Flattened

\* As many as there are observations.
LEMMA RecordsNumber ==
  ASSUME NEW source, NEW tests, NEW m, NEW provenance, Shaped(tests, m)
  PROVE  Len(Records(tests, m)) = Len(AssessmentResults(source, tests, m, provenance).observations)
<1> DEFINE a == [t \in DOMAIN tests |-> RecordsOfTest(tests, m, t)]
           Piece(t) == [k \in DOMAIN tests[t].rules |-> ObservationOf(source, tests, m, provenance, t, k)]
           b == [t \in DOMAIN tests |-> Piece(t)]
           R == UNION {ToSet(Piece(t)) : t \in DOMAIN tests}
<1>1. Records(tests, m) = FlattenSeq(a) /\ a \in Seq(Seq(AllRecords(tests, m)))
  BY RecordPieces
<1>2. AssessmentResults(source, tests, m, provenance).observations = FlattenSeq(b)
  BY DEF AssessmentResults, FlatMap, ObservationOf
<1>3. /\ DOMAIN tests = 1 .. Len(tests) /\ Len(tests) \in Nat
      /\ \A t \in DOMAIN tests : /\ DOMAIN tests[t].rules = 1 .. Len(tests[t].rules)
                                 /\ Len(tests[t].rules) \in Nat
  BY Numbered DEF Shaped
<1>4. ASSUME NEW t \in DOMAIN tests
      PROVE  /\ Piece(t) \in Seq(R) /\ Len(Piece(t)) = Len(tests[t].rules)
             /\ Len(RecordsOfTest(tests, m, t)) = Len(tests[t].rules)
  <2>1. \A k \in DOMAIN tests[t].rules : ObservationOf(source, tests, m, provenance, t, k) \in R
    BY DEF ToSet
  <2> HIDE DEF R
  <2>2. Piece(t) \in Seq(R) /\ Len(Piece(t)) = Len(tests[t].rules)
    BY <1>3, <2>1
  <2>3. Len(RecordsOfTest(tests, m, t)) = Len(tests[t].rules)
    BY <1>3 DEF RecordsOfTest
  <2> QED
    BY <2>2, <2>3
<1>5. /\ DOMAIN a = DOMAIN tests /\ DOMAIN b = DOMAIN tests
      /\ \A t \in DOMAIN tests : a[t] = RecordsOfTest(tests, m, t) /\ b[t] = Piece(t)
  OBVIOUS
<1> HIDE DEF R, Piece
<1>6. b \in Seq(Seq(R))
  BY <1>3, <1>4
<1> HIDE DEF a, b
<1>7. DOMAIN a = DOMAIN b /\ \A t \in DOMAIN a : Len(a[t]) = Len(b[t])
  BY <1>4, <1>5
<1>8. Len(FlattenSeq(a)) = Len(FlattenSeq(b))
  BY <1>1, <1>6, <1>7, SameLength
<1> QED
  BY <1>1, <1>2, <1>8

\* The two lists of a report are a partition of the records.
MappedRecords(tests, m) == {record \in AllRecords(tests, m) : record.targets # <<>>}

LEMMA ListsOfReport ==
  ASSUME NEW tests, NEW m, Shaped(tests, m)
  PROVE  /\ MappingReport(tests, m).mapped = FlattenSeq(Pieces(Records(tests, m), MappedRecords(tests, m)))
         /\ MappingReport(tests, m).unmapped
              = FlattenSeq(Pieces(Records(tests, m), AllRecords(tests, m) \ MappedRecords(tests, m)))
<1> DEFINE records == Records(tests, m)
           S == AllRecords(tests, m)
           T == MappedRecords(tests, m)
<1>1. records \in Seq(S)
  BY RecordsElements
<1>2. \A k \in DOMAIN records : records[k] \in S
  <2> HIDE DEF records, S
  <2> QED
    BY <1>1
<1>3. \A k \in DOMAIN records : /\ records[k] \in T <=> records[k].targets # <<>>
                                /\ records[k] \in S \ T <=> records[k].targets = <<>>
  <2> HIDE DEF records
  <2> QED
    BY <1>2 DEF MappedRecords
<1> HIDE DEF records, T, S
<1>4. Where(LAMBDA record : record.targets # <<>>, records) = FlattenSeq(Pieces(records, T))
  BY <1>3 DEF Where, FlatMap, Pieces
<1>5. Where(LAMBDA record : record.targets = <<>>, records) = FlattenSeq(Pieces(records, S \ T))
  BY <1>3 DEF Where, FlatMap, Pieces
<1> QED
  BY <1>4, <1>5, ReportParts DEF records, S, T

\* What the report says of the targets of the mapped results is what the
\* artifact says of its findings.
LEMMA TargetsOfReport ==
  ASSUME NEW source, NEW tests, NEW m, NEW provenance, Shaped(tests, m)
  PROVE  FlatMap(LAMBDA record : record.targets, MappingReport(tests, m).mapped)
           = ImageOf(Shown(source, tests, m), AssessmentResults(source, tests, m, provenance).findings)
<1> DEFINE S == AllRecords(tests, m)
           T == MappedRecords(tests, m)
           Q == AllBriefs(tests, m)
           g == [record \in S |-> record.targets]
           records == Records(tests, m)
           mapped == FlattenSeq(Pieces(records, T))
           Piece(t) == RecordsOfTest(tests, m, t)
           pieces == [t \in DOMAIN tests |-> Piece(t)]
           Total(t) == FlattenSeq([k \in DOMAIN tests[t].rules |-> Targets(tests, m, t, k)])
<1>1. MapsTo(g, S, Seq(Q))
  <2> SUFFICES ASSUME NEW t \in DOMAIN tests, NEW k \in DOMAIN tests[t].rules
               PROVE  RecordOf(tests, m, t, k).targets \in Seq(Q)
    BY DEF MapsTo, AllRecords
  <2>1. RecordOf(tests, m, t, k).targets = Targets(tests, m, t, k)
    BY DEF RecordOf
  <2> QED
    BY <2>1, TargetsElements
<1>2. /\ records = FlattenSeq(pieces) /\ pieces \in Seq(Seq(S)) /\ DOMAIN pieces = DOMAIN tests
      /\ \A t \in DOMAIN tests : pieces[t] = Piece(t) /\ Piece(t) \in Seq(S)
  BY RecordPieces
<1>3. records \in Seq(S)
  BY RecordsElements
<1>4. MappingReport(tests, m).mapped = mapped
  BY ListsOfReport
<1>5. \A record \in S : g[record] = record.targets
  OBVIOUS
<1>6. ASSUME NEW t \in DOMAIN tests
      PROVE  ImageOf(g, Piece(t)) = [k \in DOMAIN tests[t].rules |-> Targets(tests, m, t, k)]
  <2>1. \A k \in DOMAIN tests[t].rules : g[RecordOf(tests, m, t, k)] = Targets(tests, m, t, k)
    <3>1. \A k \in DOMAIN tests[t].rules : /\ RecordOf(tests, m, t, k) \in S
                                           /\ RecordOf(tests, m, t, k).targets = Targets(tests, m, t, k)
      BY DEF AllRecords, RecordOf
    <3> HIDE DEF g, S
    <3> QED
      BY <1>5, <3>1
  <2> HIDE DEF g
  <2> QED
    BY <2>1 DEF ImageOf, RecordsOfTest
<1>7. \A record \in S : record \notin T => record.targets = <<>>
  BY DEF MappedRecords
<1> HIDE DEF S, T, Q, g, records, pieces, Piece, Total
<1>8. FlattenSeq(ImageOf(g, records)) = FlattenSeq([t \in DOMAIN tests |-> Total(t)])
  <2>1. FlattenSeq(ImageOf(g, FlattenSeq(pieces)))
          = FlattenSeq([t \in DOMAIN pieces |-> FlattenSeq(ImageOf(g, pieces[t]))])
    BY <1>1, <1>2, CollectedFlatten
  <2>2. [t \in DOMAIN pieces |-> FlattenSeq(ImageOf(g, pieces[t]))] = [t \in DOMAIN tests |-> Total(t)]
    BY <1>2, <1>6 DEF Total
  <2> QED
    BY <1>2, <2>1, <2>2
<1>9. FlattenSeq(ImageOf(g, mapped)) = FlattenSeq(ImageOf(g, records))
  <2> DEFINE chosen == Pieces(records, T)
  <2>1. DOMAIN records = 1 .. Len(records) /\ Len(records) \in Nat /\ \A k \in DOMAIN records : records[k] \in S
    BY <1>3
  <2>2. /\ DOMAIN chosen = DOMAIN records
        /\ \A k \in DOMAIN records : chosen[k] = IF records[k] \in T THEN <<records[k]>> ELSE <<>>
    BY DEF Pieces
  <2>3. chosen \in Seq(Seq(S))
    <3>1. \A k \in DOMAIN records : (IF records[k] \in T THEN <<records[k]>> ELSE <<>>) \in Seq(S)
      BY <2>1
    <3> QED
      BY <2>1, <3>1 DEF Pieces
  <2> HIDE DEF chosen
  <2>4. FlattenSeq(ImageOf(g, FlattenSeq(chosen)))
          = FlattenSeq([k \in DOMAIN chosen |-> FlattenSeq(ImageOf(g, chosen[k]))])
    BY <1>1, <2>3, CollectedFlatten
  <2>5. ASSUME NEW k \in DOMAIN records PROVE FlattenSeq(ImageOf(g, chosen[k])) = g[records[k]]
    <3>1. CASE records[k] \in T
      <4>1. ImageOf(g, chosen[k]) = <<g[records[k]]>>
        BY <2>2, <3>1 DEF ImageOf
      <4> QED
        BY <4>1, FlattenOne
    <3>2. CASE records[k] \notin T
      <4>1. ImageOf(g, chosen[k]) = <<>>
        BY <2>2, <3>2 DEF ImageOf
      <4>2. FlattenSeq(<<>>) = <<>>
        BY DEF FlattenSeq
      <4>3. g[records[k]] = <<>>
        BY <1>5, <1>7, <2>1, <3>2
      <4> QED
        BY <4>1, <4>2, <4>3
    <3> QED
      BY <3>1, <3>2
  <2>6. [k \in DOMAIN chosen |-> FlattenSeq(ImageOf(g, chosen[k]))] = ImageOf(g, records)
    BY <2>2, <2>5 DEF ImageOf
  <2> QED
    BY <2>4, <2>6 DEF chosen
<1>10. mapped \in Seq(S)
  BY <1>3, PiecesJoined
<1> HIDE DEF mapped
<1>11. FlatMap(LAMBDA record : record.targets, mapped) = FlattenSeq(ImageOf(g, mapped))
  <2>1. \A k \in DOMAIN mapped : mapped[k].targets = g[mapped[k]]
    BY <1>5, <1>10
  <2> QED
    BY <2>1 DEF FlatMap, ImageOf
<1>12. ImageOf(Shown(source, tests, m), AssessmentResults(source, tests, m, provenance).findings)
         = FlattenSeq([t \in DOMAIN tests |-> Total(t)])
  BY ShownOfDoc DEF Total
<1> QED
  BY <1>4, <1>8, <1>9, <1>11, <1>12

KeyOf(x) == <<x.benchmark, x.rule, x.result>>

ReportCovers(report, doc) ==
  /\ {KeyOf(r) : r \in ToSet(report.mapped) \cup ToSet(report.unmapped)}
       = {KeyOf(o) : o \in ToSet(doc.observations)}
  /\ Len(report.mapped) + Len(report.unmapped) = Len(doc.observations)
  /\ FlatMap(LAMBDA record : record.targets, report.mapped)
       = [k \in DOMAIN doc.findings |->
           [target |-> doc.findings[k].target, status |-> doc.findings[k].status]]
  /\ \A o \in ToSet(doc.observations) :
       /\ <<o.benchmark, o.rule>> \notin report.stale
       /\ KeyOf(o) \in {KeyOf(r) : r \in ToSet(report.unmapped)} =>
            \A f \in ToSet(doc.findings) : f.observation # o.uuid

\* A record is of the rule result that an observation is of.
LEMMA RecordKeys ==
  ASSUME NEW source, NEW tests, NEW m, NEW provenance, NEW t, NEW k
  PROVE  /\ KeyOf(RecordOf(tests, m, t, k)) = KeyOf(ObservationOf(source, tests, m, provenance, t, k))
         /\ KeyOf(RecordOf(tests, m, t, k))
              = <<tests[t].benchmark, tests[t].rules[k].idref, tests[t].rules[k].result>>
         /\ RecordOf(tests, m, t, k).targets = Targets(tests, m, t, k)
  BY ObservationIds DEF KeyOf, RecordOf

\* The artifact as its reader sees it.
LEMMA ShownFindings ==
  ASSUME NEW source, NEW tests, NEW m, NEW provenance, Shaped(tests, m)
  PROVE  ImageOf(Shown(source, tests, m), AssessmentResults(source, tests, m, provenance).findings)
           = [k \in DOMAIN AssessmentResults(source, tests, m, provenance).findings |->
               [target |-> AssessmentResults(source, tests, m, provenance).findings[k].target,
                status |-> AssessmentResults(source, tests, m, provenance).findings[k].status]]
<1> DEFINE findings == AssessmentResults(source, tests, m, provenance).findings
           S == AllFindings(source, tests, m)
<1>1. \A k \in DOMAIN findings : findings[k] \in S
  <2> SUFFICES ASSUME NEW k \in DOMAIN findings PROVE findings[k] \in S
    OBVIOUS
  <2>1. findings[k] \in ToSet(findings)
    BY DEF ToSet
  <2>2. PICK t \in DOMAIN tests : \E i \in DOMAIN tests[t].rules : IsOfRule(findings[k], source, tests, m, t, i)
    BY <2>1, FindingsOfDoc
  <2>3. PICK i \in DOMAIN tests[t].rules : IsOfRule(findings[k], source, tests, m, t, i)
    BY <2>2
  <2> HIDE DEF findings
  <2> QED
    BY <2>3 DEF IsOfRule, AllFindings
<1>2. \A x \in S : Shown(source, tests, m)[x] = [target |-> x.target, status |-> x.status]
  BY DEF Shown
<1> HIDE DEF findings, S
<1>3. \A k \in DOMAIN findings :
        Shown(source, tests, m)[findings[k]] = [target |-> findings[k].target, status |-> findings[k].status]
  BY <1>1, <1>2
<1>4. ImageOf(Shown(source, tests, m), findings)
        = [k \in DOMAIN findings |-> [target |-> findings[k].target, status |-> findings[k].status]]
  BY <1>3 DEF ImageOf
<1> QED
  BY <1>4 DEF findings

\* A rule result that the report calls unmapped backs no finding.
LEMMA UnmappedBacksNone ==
  ASSUME NEW source, NEW tests, NEW m, NEW provenance, Shaped(tests, m), Distinct(tests),
         NEW u \in DOMAIN tests, NEW j \in DOMAIN tests[u].rules, Targets(tests, m, u, j) = <<>>,
         NEW o \in ToSet(AssessmentResults(source, tests, m, provenance).observations),
         KeyOf(o) = KeyOf(RecordOf(tests, m, u, j)),
         NEW f \in ToSet(AssessmentResults(source, tests, m, provenance).findings)
  PROVE  f.observation # o.uuid
<1> SUFFICES ASSUME f.observation = o.uuid PROVE FALSE
  OBVIOUS
<1>1. PICK t \in DOMAIN tests : \E k \in DOMAIN tests[t].rules : IsOfRule(f, source, tests, m, t, k)
  BY FindingsOfDoc
<1>2. PICK k \in DOMAIN tests[t].rules : IsOfRule(f, source, tests, m, t, k)
  BY <1>1
<1>3. PICK n \in DOMAIN m : Told(source, tests, m, t, k, n) /\ f = FindingOf(source, tests, m, t, k, n)
  BY <1>2 DEF IsOfRule
<1>4. PICK v \in DOMAIN tests : IsOfTest(o, source, tests, m, provenance, v)
  BY ObservationsOf
<1>5. PICK i \in DOMAIN tests[v].rules : o = ObservationOf(source, tests, m, provenance, v, i)
  BY <1>4 DEF IsOfTest
<1>6. t = v /\ k = i
  <2>1. ObservationOf(source, tests, m, provenance, t, k).uuid
          = ObservationOf(source, tests, m, provenance, v, i).uuid
    BY <1>3, <1>5, ObservationIds, FindingIds
  <2> QED
    BY <2>1, ObservationsDiffer
<1>7. /\ tests[t].benchmark = tests[u].benchmark
      /\ tests[t].rules[k].idref = tests[u].rules[j].idref
      /\ tests[t].rules[k].result = tests[u].rules[j].result
  <2>1. KeyOf(o) = <<tests[t].benchmark, tests[t].rules[k].idref, tests[t].rules[k].result>>
    BY <1>5, <1>6, ObservationIds DEF KeyOf
  <2>2. KeyOf(RecordOf(tests, m, u, j))
          = <<tests[u].benchmark, tests[u].rules[j].idref, tests[u].rules[j].result>>
    BY DEF KeyOf, RecordOf
  <2>3. <<tests[t].benchmark, tests[t].rules[k].idref, tests[t].rules[k].result>>
          = <<tests[u].benchmark, tests[u].rules[j].idref, tests[u].rules[j].result>>
    BY <2>1, <2>2
  <2> QED
    BY <2>3
<1>8. Told(source, tests, m, u, j, n)
  BY <1>3, <1>7 DEF Told, Applies
<1> QED
  BY <1>8, TargetsElements

LEMMA ReportOfTests ==
  ASSUME NEW source, NEW tests, NEW m, NEW provenance, Shaped(tests, m), Distinct(tests)
  PROVE  ReportCovers(MappingReport(tests, m), AssessmentResults(source, tests, m, provenance))
<1> DEFINE report == MappingReport(tests, m)
           doc == AssessmentResults(source, tests, m, provenance)
           records == Records(tests, m)
           S == AllRecords(tests, m)
           T == MappedRecords(tests, m)
<1>1. /\ records \in Seq(S)
      /\ \A x : x \in ToSet(records) <=> \E t \in DOMAIN tests : IsRecord(x, tests, m, t)
  BY RecordsElements
<1>2. /\ report.mapped = FlattenSeq(Pieces(records, T))
      /\ report.unmapped = FlattenSeq(Pieces(records, S \ T))
  BY ListsOfReport
<1>3. report.stale = {<<m[k].benchmark, m[k].rule>> : k \in DOMAIN m}
                       \ {<<record.benchmark, record.rule>> : record \in ToSet(records)}
  BY ReportParts
<1>4. \A x : x \in ToSet(doc.observations) <=>
        \E t \in DOMAIN tests : IsOfTest(x, source, tests, m, provenance, t)
  BY ObservationsOf
<1>5. Len(records) = Len(doc.observations)
  BY RecordsNumber
<1>6. FlatMap(LAMBDA record : record.targets, report.mapped)
        = [k \in DOMAIN doc.findings |-> [target |-> doc.findings[k].target, status |-> doc.findings[k].status]]
  BY TargetsOfReport, ShownFindings
<1>7. \A x \in S : x \in T <=> x.targets # <<>>
  BY DEF MappedRecords
<1>8. ASSUME NEW o \in ToSet(doc.observations), NEW r \in S \ T, r \in ToSet(records), KeyOf(o) = KeyOf(r),
             NEW f \in ToSet(doc.findings)
      PROVE  f.observation # o.uuid
  <2>1. PICK u \in DOMAIN tests : IsRecord(r, tests, m, u)
    BY <1>1, <1>8
  <2>2. PICK j \in DOMAIN tests[u].rules : r = RecordOf(tests, m, u, j)
    BY <2>1 DEF IsRecord
  <2>3. Targets(tests, m, u, j) = <<>>
    BY <1>7, <1>8, <2>2, RecordKeys
  <2> QED
    BY <1>8, <2>2, <2>3, UnmappedBacksNone
<1> HIDE DEF report, doc, records, S, T
<1>9. ToSet(records) \subseteq S
  BY <1>1 DEF ToSet
<1>10. /\ ToSet(report.mapped) = ToSet(records) \cap T
       /\ ToSet(report.unmapped) = ToSet(records) \cap (S \ T)
  BY <1>1, <1>2, PiecesJoined
<1>11. ToSet(report.mapped) \cup ToSet(report.unmapped) = ToSet(records)
  BY <1>9, <1>10
<1> DEFINE Record(t, k) == RecordOf(tests, m, t, k)
           Seen(t, k) == ObservationOf(source, tests, m, provenance, t, k)
<1>12. /\ \A x : x \in ToSet(records) <=>
              \E t \in DOMAIN tests : \E k \in DOMAIN tests[t].rules : x = Record(t, k)
       /\ \A x : x \in ToSet(doc.observations) <=>
              \E t \in DOMAIN tests : \E k \in DOMAIN tests[t].rules : x = Seen(t, k)
  BY <1>1, <1>4 DEF IsRecord, IsOfTest
<1>13. \A t, k : KeyOf(Record(t, k)) = KeyOf(Seen(t, k))
  BY RecordKeys
<1> HIDE DEF Record, Seen
<1>14. \A r \in ToSet(records) : \E o \in ToSet(doc.observations) : KeyOf(o) = KeyOf(r)
  BY <1>12, <1>13
<1>15. \A o \in ToSet(doc.observations) : \E r \in ToSet(records) : KeyOf(o) = KeyOf(r)
  BY <1>12, <1>13
<1>16. {KeyOf(r) : r \in ToSet(records)} = {KeyOf(o) : o \in ToSet(doc.observations)}
  BY <1>14, <1>15
<1>17. Len(report.mapped) + Len(report.unmapped) = Len(doc.observations)
  BY <1>1, <1>2, <1>5, PiecesPartition
<1>18. \A o \in ToSet(doc.observations) : <<o.benchmark, o.rule>> \notin report.stale
  BY <1>3, <1>15 DEF KeyOf
<1>19. \A o \in ToSet(doc.observations) :
         KeyOf(o) \in {KeyOf(r) : r \in ToSet(report.unmapped)} =>
           \A f \in ToSet(doc.findings) : f.observation # o.uuid
  BY <1>8, <1>10
<1>20. ReportCovers(report, doc)
  BY <1>6, <1>11, <1>16, <1>17, <1>18, <1>19 DEF ReportCovers
<1> QED
  BY <1>20 DEF report, doc

\* mapping-report-xccdf and convert-xccdf agree on the same two files, whatever
\* those are: each rule result is in one of the report's lists, the targets of
\* the mapped ones are the findings in their order, an unmapped one backs none
\* and what was observed is not stale (xccdf_mapping.py:64-79,
\* xccdf_convert.py:15-41).
THEOREM ReportCovered == Spec => []ReportCoversArtifact
<1>1. IInv => ReportCoversArtifact
  <2> SUFFICES ASSUME IInv, NEW report \in OfKind("mapping-report"), NEW artifact \in OfKind("xccdf"),
                      report.source = artifact.source, report.mapping = artifact.mapping
               PROVE  ReportCovers(report.doc, artifact.doc)
    BY DEF ReportCoversArtifact, ReportCovers, KeyOf
  <2>1. PICK doc \in XccdfDocs, m \in MappingDocs : XccdfAccepted(doc) /\ artifact = XccdfArtifact(doc, m)
    BY Outputs DEF IsXccdf
  <2>2. PICK doc2 \in XccdfDocs, m2 \in MappingDocs : report = XccdfReport(doc2, m2)
    BY Outputs DEF IsReport
  <2>3. /\ artifact.source = doc /\ artifact.mapping = m
        /\ artifact.doc = AssessmentResults(doc, TestResults(doc), m, None)
    BY <2>1 DEF XccdfArtifact, Artifact
  <2>4. report.source = doc2 /\ report.mapping = m2 /\ report.doc = MappingReport(TestResults(doc2), m2)
    BY <2>2 DEF XccdfReport, Artifact
  <2>5. report.doc = MappingReport(TestResults(doc), m)
    BY <2>3, <2>4
  <2>6. Shaped(TestResults(doc), m) /\ Distinct(TestResults(doc))
    BY <2>1, XccdfTests
  <2> QED
    BY <2>3, <2>5, <2>6, ReportOfTests
<1> QED
  BY <1>1, Invariance, PTL
=============================================================================
