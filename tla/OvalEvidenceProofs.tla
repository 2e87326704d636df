-------------------------- MODULE OvalEvidenceProofs --------------------------
(***************************************************************************)
(* What the OVAL commands say of any documents and in any order of runs:   *)
(* identifiers that are unique and stand for one content, findings that    *)
(* are the author's, and deltas, reports and inventories that agree with   *)
(* the scans and artifacts they are about.                                 *)
(***************************************************************************)
EXTENDS OvalEvidence, FlattenLemmas, SequenceTheorems, FiniteSetTheorems

Mappings == MappingDocs \cup {None}

\* What the parsers and the comparisons of the converter let through.
Convertible(r, d, m) ==
  /\ ResultsAccepted(r) /\ (m # None => MappingAccepted(m))
  /\ Ids(r.entries) \subseteq ToSet(d.ids)

ArtifactOf(r, d, m, names) ==
  [kind |-> "assessment-results", sources |-> Sources(r, d, m), doc |-> AssessmentResults(r, d, m, names)]
ReportOf(r, d, m) ==
  [kind |-> "mapping-report", sources |-> Sources(r, d, m), coverage |-> MappingReport(r, d, m)]
DeltaOf(prior, current) ==
  [kind |-> "diff", before |-> prior, after |-> current, delta |-> Delta(prior.doc, current.doc)]
InventoryOf(artifact) ==
  [kind |-> "findings", of |-> artifact, count |-> Len(artifact.doc.findings), items |-> Inventory(artifact.doc)]

IsArtifact(output) ==
  \E r \in ResultsDocs, d \in DefinitionsDocs, m \in Mappings, names \in FileNames :
    Convertible(r, d, m) /\ output = ArtifactOf(r, d, m, names)
IsReport(output) ==
  \E r \in ResultsDocs, d \in DefinitionsDocs, m \in MappingDocs :
    Convertible(r, d, m) /\ output = ReportOf(r, d, m)
IsDelta(output) == \E prior, current \in Artifacts : output = DeltaOf(prior, current)
IsInventory(output) == \E artifact \in Artifacts : output = InventoryOf(artifact)

\* The inductive invariant: every output is what its command makes of documents
\* that were accepted or of artifacts that are there.
IInv == \A output \in outputs :
  IsArtifact(output) \/ IsReport(output) \/ IsDelta(output) \/ IsInventory(output)

-----------------------------------------------------------------------------
LEMMA Kinds ==
  /\ \A output : IsArtifact(output) => output.kind = "assessment-results"
  /\ \A output : IsReport(output) => output.kind = "mapping-report"
  /\ \A output : IsDelta(output) => output.kind = "diff"
  /\ \A output : IsInventory(output) => output.kind = "findings"
  BY DEF IsArtifact, IsReport, IsDelta, IsInventory, ArtifactOf, ReportOf, DeltaOf, InventoryOf

LEMMA Outputs ==
  ASSUME IInv
  PROVE  /\ \A output \in Artifacts : IsArtifact(output)
         /\ \A output \in OfKind("mapping-report") : IsReport(output)
         /\ \A output \in OfKind("diff") : IsDelta(output)
         /\ \A output \in OfKind("findings") : IsInventory(output)
  BY Kinds DEF IInv, Artifacts, OfKind

\* An output that is added to the archive leaves the others what they are.
LEMMA Added ==
  ASSUME IInv, NEW output, outputs' = outputs \cup {output},
         IsArtifact(output) \/ IsReport(output) \/ IsDelta(output) \/ IsInventory(output)
  PROVE  IInv'
<1>1. Artifacts \subseteq Artifacts'
  BY DEF Artifacts, OfKind
<1>2. \A o : (IsArtifact(o) => IsArtifact(o)') /\ (IsReport(o) => IsReport(o)')
  BY DEF IsArtifact, IsReport
<1>3. \A o : (IsDelta(o) => IsDelta(o)') /\ (IsInventory(o) => IsInventory(o)')
  BY <1>1 DEF IsDelta, IsInventory
<1> QED
  BY <1>2, <1>3 DEF IInv

LEMMA InitIInv == Init => IInv
  BY DEF Init, IInv

LEMMA NextIInv == IInv /\ [Next]_outputs => IInv'
<1> SUFFICES ASSUME IInv, [Next]_outputs PROVE IInv'
  OBVIOUS
<1>1. CASE UNCHANGED outputs
  BY <1>1 DEF IInv, IsArtifact, IsReport, IsDelta, IsInventory, Artifacts, OfKind
<1>2. ASSUME NEW r \in ResultsDocs, NEW d \in DefinitionsDocs, NEW m \in Mappings,
             NEW names \in FileNames, Convert(r, d, m, names)
      PROVE  IInv'
  <2>1. Convertible(r, d, m) /\ outputs' = outputs \cup {ArtifactOf(r, d, m, names)}
    BY <1>2 DEF Convert, Convertible, ArtifactOf
  <2>2. IsArtifact(ArtifactOf(r, d, m, names))
    BY <2>1 DEF IsArtifact
  <2> QED
    BY <2>1, <2>2, Added
<1>3. ASSUME NEW r \in ResultsDocs, NEW d \in DefinitionsDocs, NEW m \in MappingDocs, Report(r, d, m)
      PROVE  IInv'
  <2>1. Convertible(r, d, m) /\ outputs' = outputs \cup {ReportOf(r, d, m)}
    BY <1>3 DEF Report, Convertible, ReportOf
  <2>2. IsReport(ReportOf(r, d, m))
    BY <2>1 DEF IsReport
  <2> QED
    BY <2>1, <2>2, Added
<1>4. ASSUME NEW prior \in Artifacts, NEW current \in Artifacts, Diff(prior, current)
      PROVE  IInv'
  <2>1. outputs' = outputs \cup {DeltaOf(prior, current)}
    BY <1>4 DEF Diff, DeltaOf
  <2>2. IsDelta(DeltaOf(prior, current))
    BY DEF IsDelta
  <2> QED
    BY <2>1, <2>2, Added
<1>5. ASSUME NEW artifact \in Artifacts, Findings(artifact)
      PROVE  IInv'
  <2>1. outputs' = outputs \cup {InventoryOf(artifact)}
    BY <1>5 DEF Findings, InventoryOf
  <2>2. IsInventory(InventoryOf(artifact))
    BY DEF IsInventory
  <2> QED
    BY <2>1, <2>2, Added
<1> QED
  BY <1>1, <1>2, <1>3, <1>4, <1>5 DEF Next, Mappings

\* Every output in the archive is what its command makes of accepted inputs.
THEOREM Invariance == Spec => []IInv
  BY InitIInv, NextIInv, PTL DEF Spec

-----------------------------------------------------------------------------
(* What the documents hold.                                                *)

LEMMA ScanShape ==
  ASSUME NEW r \in ResultsDocs
  PROVE  /\ r.entries \in Seq(ToSet(r.entries)) /\ Len(r.entries) \in Nat
         /\ DOMAIN r.entries = 1 .. Len(r.entries)
         /\ \A k \in DOMAIN r.entries :
              r.entries[k] = [id |-> r.entries[k].id, result |-> r.entries[k].result] /\ r.entries[k].id # "result"
         /\ ResultsAccepted(r) => \A j, k \in DOMAIN r.entries : r.entries[j].id = r.entries[k].id => j = k
<1>1. r.entries \in Seq(ToSet(r.entries))
  BY DocumentsAssumption
<1>2. Len(r.entries) \in Nat /\ DOMAIN r.entries = 1 .. Len(r.entries)
  BY <1>1
<1>3. \A k \in DOMAIN r.entries : r.entries[k] \in ToSet(r.entries)
  BY DEF ToSet
<1>4. \A k \in DOMAIN r.entries :
        r.entries[k] = [id |-> r.entries[k].id, result |-> r.entries[k].result] /\ r.entries[k].id # "result"
  BY <1>3, DocumentsAssumption
<1>5. ASSUME ResultsAccepted(r), NEW j \in DOMAIN r.entries, NEW k \in DOMAIN r.entries,
             r.entries[j].id = r.entries[k].id
      PROVE  j = k
  BY <1>5 DEF ResultsAccepted, IsInjective
<1> QED
  BY <1>1, <1>2, <1>4, <1>5

LEMMA MappingShape ==
  ASSUME NEW m \in MappingDocs
  PROVE  /\ m.entries \in Seq(ToSet(m.entries)) /\ Len(m.entries) \in Nat
         /\ DOMAIN m.entries = 1 .. Len(m.entries)
         /\ \A n \in DOMAIN m.entries :
              /\ m.entries[n].target =
                   [type |-> m.entries[n].target.type, identifier |-> m.entries[n].target.identifier]
              /\ \A o \in DOMAIN m.entries[n].outcomes : m.entries[n].outcomes[o] =
                   [state |-> m.entries[n].outcomes[o].state, reason |-> m.entries[n].outcomes[o].reason]
         /\ MappingAccepted(m) => \A i, n \in DOMAIN m.entries :
              m.entries[i].id = m.entries[n].id /\ m.entries[i].target = m.entries[n].target => i = n
<1>1. m.entries \in Seq(ToSet(m.entries))
  BY DocumentsAssumption
<1>2. Len(m.entries) \in Nat /\ DOMAIN m.entries = 1 .. Len(m.entries)
  BY <1>1
<1>3. \A n \in DOMAIN m.entries : m.entries[n] \in ToSet(m.entries)
  BY DEF ToSet
<1>4. \A n \in DOMAIN m.entries :
        /\ m.entries[n].target =
             [type |-> m.entries[n].target.type, identifier |-> m.entries[n].target.identifier]
        /\ \A o \in DOMAIN m.entries[n].outcomes : m.entries[n].outcomes[o] =
             [state |-> m.entries[n].outcomes[o].state, reason |-> m.entries[n].outcomes[o].reason]
  BY <1>3, DocumentsAssumption
<1>5. ASSUME MappingAccepted(m), NEW i \in DOMAIN m.entries, NEW n \in DOMAIN m.entries,
             m.entries[i].id = m.entries[n].id, m.entries[i].target = m.entries[n].target
      PROVE  i = n
  BY <1>5 DEF MappingAccepted, IsInjective
<1> QED
  BY <1>1, <1>2, <1>4, <1>5

LEMMA ObservationsOf ==
  ASSUME NEW r \in ResultsDocs, NEW d, NEW m, NEW names
  PROVE  /\ DOMAIN AssessmentResults(r, d, m, names).observations = DOMAIN r.entries
         /\ \A k \in DOMAIN r.entries : AssessmentResults(r, d, m, names).observations[k] =
              [uuid |-> <<RunId(r, d, m), r.entries[k].id>>, id |-> r.entries[k].id,
               result |-> r.entries[k].result, evidence |-> {<<r>>, <<d>>}]
  BY DEF AssessmentResults, Observation

LEMMA ObservationIds ==
  ASSUME NEW r \in ResultsDocs, NEW d, NEW m, NEW names, NEW k \in DOMAIN r.entries
  PROVE  /\ AssessmentResults(r, d, m, names).observations[k].uuid = <<RunId(r, d, m), r.entries[k].id>>
         /\ AssessmentResults(r, d, m, names).observations[k].id = r.entries[k].id
         /\ AssessmentResults(r, d, m, names).observations[k].result = r.entries[k].result
<1> DEFINE o == AssessmentResults(r, d, m, names).observations[k]
           run == RunId(r, d, m)
<1>1. o = [uuid |-> <<run, r.entries[k].id>>, id |-> r.entries[k].id,
           result |-> r.entries[k].result, evidence |-> {<<r>>, <<d>>}]
  BY ObservationsOf
<1> HIDE DEF o, run
<1>2. o.uuid = <<run, r.entries[k].id>> /\ o.id = r.entries[k].id /\ o.result = r.entries[k].result
  BY <1>1
<1> QED
  BY <1>2 DEF o, run

\* The author decided this entry of the scan.
Decides(entry, source) == entry.id = source.id /\ source.result \in DOMAIN entry.outcomes

FindingOf(r, d, m, k, n) == Finding(RunId(r, d, m), m, r.entries[k], m.entries[n])

AllFindings(r, d, m) == {FindingOf(r, d, m, k, n) : k \in DOMAIN r.entries, n \in DOMAIN m.entries}

\* The UUID of a finding tells which entry of the scan and which of the mapping
\* it is of.
LEMMA FindingsDiffer ==
  ASSUME NEW r \in ResultsDocs, NEW d, NEW m \in MappingDocs, Convertible(r, d, m),
         NEW k \in DOMAIN r.entries, NEW n \in DOMAIN m.entries, Decides(m.entries[n], r.entries[k]),
         NEW j \in DOMAIN r.entries, NEW i \in DOMAIN m.entries, Decides(m.entries[i], r.entries[j]),
         FindingOf(r, d, m, k, n).uuid = FindingOf(r, d, m, j, i).uuid
  PROVE  k = j /\ n = i
<1>1. /\ r.entries[k].id = r.entries[j].id
      /\ m.entries[n].target.type = m.entries[i].target.type
      /\ m.entries[n].target.identifier = m.entries[i].target.identifier
  BY DEF FindingOf, Finding
<1>2. k = j
  BY <1>1, ScanShape DEF Convertible
<1>3. m # None
  BY DocumentsAssumption
<1>4. m.entries[n].id = m.entries[i].id
  BY <1>2 DEF Decides
<1>5. m.entries[n].target = m.entries[i].target
  BY <1>1, MappingShape
<1> QED
  BY <1>2, <1>3, <1>4, <1>5, MappingShape DEF Convertible

EntryFindings(r, d, m, k) == FindingsOf(RunId(r, d, m), m, r.entries[k])

LEMMA FindingsOfEntry ==
  ASSUME NEW r \in ResultsDocs, NEW d, NEW m \in MappingDocs, NEW k \in DOMAIN r.entries
  PROVE  /\ EntryFindings(r, d, m, k) \in Seq(AllFindings(r, d, m))
         /\ \A x : x \in ToSet(EntryFindings(r, d, m, k)) <=>
              \E n \in DOMAIN m.entries : Decides(m.entries[n], r.entries[k]) /\ x = FindingOf(r, d, m, k, n)
         /\ Convertible(r, d, m) => IsInjective(EntryFindings(r, d, m, k))
<1> DEFINE Piece(n) == IF Decides(m.entries[n], r.entries[k]) THEN <<FindingOf(r, d, m, k, n)>> ELSE <<>>
           pieces == [n \in DOMAIN m.entries |-> Piece(n)]
<1>1. EntryFindings(r, d, m, k) = FlattenSeq(pieces)
  BY DEF EntryFindings, FindingsOf, Decides, FindingOf
<1>2. \A n \in DOMAIN m.entries : FindingOf(r, d, m, k, n) \in AllFindings(r, d, m)
  BY DEF AllFindings
<1>3. \A n \in DOMAIN m.entries : Piece(n) \in Seq(AllFindings(r, d, m))
  BY <1>2
<1>4. DOMAIN pieces = DOMAIN m.entries /\ \A n \in DOMAIN m.entries : pieces[n] = Piece(n)
  OBVIOUS
<1>5. \A n \in DOMAIN m.entries : \A x : x \in ToSet(Piece(n)) <=>
        Decides(m.entries[n], r.entries[k]) /\ x = FindingOf(r, d, m, k, n)
  BY DEF ToSet
<1>6. \A n \in DOMAIN m.entries : IsInjective(Piece(n))
  BY DEF IsInjective
<1>7. pieces \in Seq(Seq(AllFindings(r, d, m)))
  <2> HIDE DEF Piece
  <2>1. DOMAIN m.entries = 1 .. Len(m.entries) /\ Len(m.entries) \in Nat
    BY MappingShape
  <2> QED
    BY <1>3, <2>1
<1> HIDE DEF pieces, Piece
<1>8. ASSUME Convertible(r, d, m) PROVE Apart(pieces)
  <2>1. ASSUME NEW n \in DOMAIN m.entries, NEW i \in DOMAIN m.entries, n # i,
               NEW x \in ToSet(Piece(n)) \cap ToSet(Piece(i))
        PROVE  FALSE
    BY <1>5, <1>8, <2>1, FindingsDiffer
  <2> QED
    BY <1>4, <1>6, <2>1 DEF Apart
<1> QED
  BY <1>1, <1>4, <1>5, <1>7, <1>8, Flattened

\* x is the finding of a decided entry.
Found(r, d, m, x) ==
  \E k \in DOMAIN r.entries, n \in DOMAIN m.entries :
    Decides(m.entries[n], r.entries[k]) /\ x = FindingOf(r, d, m, k, n)

LEMMA FindingsOfDoc ==
  ASSUME NEW r \in ResultsDocs, NEW d, NEW m \in MappingDocs, NEW names
  PROVE  /\ AssessmentResults(r, d, m, names).findings \in Seq(AllFindings(r, d, m))
         /\ \A x : x \in ToSet(AssessmentResults(r, d, m, names).findings) <=> Found(r, d, m, x)
         /\ Convertible(r, d, m) => IsInjective(AssessmentResults(r, d, m, names).findings)
<1> DEFINE pieces == [k \in DOMAIN r.entries |-> EntryFindings(r, d, m, k)]
<1>1. m # None
  BY DocumentsAssumption
<1>2. AssessmentResults(r, d, m, names).findings = FlattenSeq(pieces)
  BY <1>1 DEF AssessmentResults, EntryFindings
<1>3. DOMAIN pieces = DOMAIN r.entries /\ \A k \in DOMAIN r.entries : pieces[k] = EntryFindings(r, d, m, k)
  OBVIOUS
<1>4. \A k \in DOMAIN r.entries :
        /\ EntryFindings(r, d, m, k) \in Seq(AllFindings(r, d, m))
        /\ \A x : x \in ToSet(EntryFindings(r, d, m, k)) <=>
             \E n \in DOMAIN m.entries : Decides(m.entries[n], r.entries[k]) /\ x = FindingOf(r, d, m, k, n)
        /\ Convertible(r, d, m) => IsInjective(EntryFindings(r, d, m, k))
  BY FindingsOfEntry
<1>5. pieces \in Seq(Seq(AllFindings(r, d, m)))
  <2>1. DOMAIN r.entries = 1 .. Len(r.entries) /\ Len(r.entries) \in Nat
    BY ScanShape
  <2> QED
    BY <1>4, <2>1
<1> HIDE DEF pieces
<1>6. ASSUME Convertible(r, d, m) PROVE Apart(pieces)
  <2>1. ASSUME NEW k \in DOMAIN r.entries, NEW j \in DOMAIN r.entries, k # j,
               NEW x \in ToSet(pieces[k]) \cap ToSet(pieces[j])
        PROVE  FALSE
    <3>1. PICK n \in DOMAIN m.entries : Decides(m.entries[n], r.entries[k]) /\ x = FindingOf(r, d, m, k, n)
      BY <1>3, <1>4, <2>1
    <3>2. PICK i \in DOMAIN m.entries : Decides(m.entries[i], r.entries[j]) /\ x = FindingOf(r, d, m, j, i)
      BY <1>3, <1>4, <2>1
    <3>3. FindingOf(r, d, m, k, n).uuid = FindingOf(r, d, m, j, i).uuid
      BY <3>1, <3>2
    <3>4. k = j
      BY <1>6, <3>1, <3>2, <3>3, FindingsDiffer
    <3> QED
      BY <2>1, <3>4
  <2>2. \A k, j \in DOMAIN pieces : k # j => ToSet(pieces[k]) \cap ToSet(pieces[j]) = {}
    BY <1>3, <2>1
  <2>3. \A k \in DOMAIN pieces : IsInjective(pieces[k])
    BY <1>3, <1>4, <1>6
  <2> QED
    BY <2>2, <2>3 DEF Apart
<1>7. \A x : (\E k \in DOMAIN pieces : x \in ToSet(pieces[k])) <=> Found(r, d, m, x)
  BY <1>3, <1>4 DEF Found
<1> QED
  BY <1>2, <1>5, <1>6, <1>7, Flattened

LEMMA NoFindings ==
  ASSUME NEW r, NEW d, NEW names
  PROVE  AssessmentResults(r, d, None, names).findings = <<>>
  BY DEF AssessmentResults

-----------------------------------------------------------------------------
\* Only the six statuses reach the outputs, and a delta or an inventory is of
\* artifacts that are there (convert.py:29-124, findings.py).
THEOREM TypeCorrect == Spec => []TypeOK
<1>1. IInv => TypeOK
  <2> SUFFICES ASSUME IInv, NEW output \in outputs
               PROVE  /\ output.kind \in {"assessment-results", "mapping-report", "diff", "findings"}
                      /\ output.kind \in {"assessment-results", "mapping-report"} =>
                           \A k \in DOMAIN output.sources.results.entries :
                             output.sources.results.entries[k].result \in ValidResults
                      /\ output.kind = "diff" => {output.before, output.after} \subseteq outputs
                      /\ output.kind = "findings" => output.of \in outputs
    BY DEF TypeOK
  <2>1. CASE IsArtifact(output)
    BY <2>1 DEF IsArtifact, ArtifactOf, Sources, Convertible, ResultsAccepted
  <2>2. CASE IsReport(output)
    BY <2>2 DEF IsReport, ReportOf, Sources, Convertible, ResultsAccepted
  <2>3. CASE IsDelta(output)
    BY <2>3 DEF IsDelta, DeltaOf, Artifacts, OfKind
  <2>4. CASE IsInventory(output)
    BY <2>4 DEF IsInventory, InventoryOf, Artifacts, OfKind
  <2> QED
    BY <2>1, <2>2, <2>3, <2>4 DEF IInv
<1> QED
  BY <1>1, Invariance, PTL

-----------------------------------------------------------------------------
(* Identifiers.                                                            *)

LEMMA InRange ==
  ASSUME NEW S, NEW s \in Seq(S)
  PROVE  s \in Seq(ToSet(s))
<1>1. DOMAIN s = 1 .. Len(s) /\ Len(s) \in Nat /\ s = [k \in 1 .. Len(s) |-> s[k]]
  OBVIOUS
<1>2. \A k \in 1 .. Len(s) : s[k] \in ToSet(s)
  BY <1>1 DEF ToSet
<1> QED
  BY <1>1, <1>2

LEMMA OneMore ==
  ASSUME NEW S, NEW s \in Seq(S), NEW last \in Seq(S), NEW t \in Seq(S), Len(s) = 3, Len(last) = 1, Len(t) = 4,
         s[1] = t[1], s[2] = t[2], s[3] = t[3], last[1] = t[4]
  PROVE  s \o last = t
<1>1. s \o last \in Seq(S) /\ Len(s \o last) = Len(s) + Len(last)
  BY ConcatProperties
<1>2. Len(s \o last) = 4
  BY <1>1
<1>3. \A i \in 1 .. Len(s) + Len(last) : (s \o last)[i] = IF i <= Len(s) THEN s[i] ELSE last[i - Len(s)]
  BY ConcatProperties
<1>4. ASSUME NEW i \in 1 .. 4 PROVE (s \o last)[i] = t[i]
  <2>1. (s \o last)[i] = IF i <= Len(s) THEN s[i] ELSE last[i - Len(s)]
    <3>1. i \in 1 .. Len(s) + Len(last)
      OBVIOUS
    <3> QED
      BY <1>3, <3>1
  <2>2. CASE i = 4
    <3>1. ~ (i <= Len(s)) /\ i - Len(s) = 1
      BY <2>2
    <3> QED
      BY <2>1, <2>2, <3>1
  <2>3. CASE i # 4
    <3>1. i <= Len(s) /\ (i = 1 \/ i = 2 \/ i = 3)
      BY <2>3
    <3>2. (s \o last)[i] = s[i]
      BY <2>1, <3>1
    <3>3. s[i] = t[i]
      BY <3>1
    <3> QED
      BY <3>2, <3>3
  <2> QED
    BY <2>2, <2>3
<1> QED
  BY <1>1, <1>2, <1>4, SeqEqual

LEMMA RunIds ==
  ASSUME NEW r, NEW d, NEW m
  PROVE  RunId(r, d, m) = IF m = None THEN <<r, d, r.timestamp>> ELSE <<r, d, r.timestamp, m>>
<1>1. <<r, d, r.timestamp>> \o <<>> = <<r, d, r.timestamp>>
  <2> DEFINE s == <<r, d, r.timestamp>>
  <2>1. s \in Seq({r, d, r.timestamp})
    OBVIOUS
  <2> HIDE DEF s
  <2>2. s \o <<>> = s
    BY <2>1
  <2> QED
    BY <2>2 DEF s
<1>2. <<r, d, r.timestamp>> \o <<m>> = <<r, d, r.timestamp, m>>
  <2> DEFINE S == {r, d, r.timestamp, m}
  <2>1. <<r, d, r.timestamp>> \in Seq(S) /\ <<m>> \in Seq(S) /\ <<r, d, r.timestamp, m>> \in Seq(S)
    OBVIOUS
  <2> QED
    BY <2>1, OneMore
<1> QED
  BY <1>1, <1>2 DEF RunId

LEMMA RunIdTells ==
  ASSUME NEW r, NEW d, NEW m, NEW r2, NEW d2, NEW m2, RunId(r, d, m) = RunId(r2, d2, m2)
  PROVE  r = r2 /\ d = d2 /\ m = m2
<1>1. Len(RunId(r, d, m)) = (IF m = None THEN 3 ELSE 4) /\ Len(RunId(r2, d2, m2)) = (IF m2 = None THEN 3 ELSE 4)
  BY RunIds
<1>2. m = None <=> m2 = None
  BY <1>1
<1>3. CASE m = None
  BY <1>2, <1>3, RunIds
<1>4. CASE m # None
  BY <1>2, <1>4, RunIds
<1> QED
  BY <1>3, <1>4

\* The findings of an artifact, with or without a mapping.
LEMMA ArtifactFindings ==
  ASSUME NEW r \in ResultsDocs, NEW d, NEW m \in Mappings, NEW names, Convertible(r, d, m)
  PROVE  /\ AssessmentResults(r, d, m, names).findings \in Seq(ToSet(AssessmentResults(r, d, m, names).findings))
         /\ IsInjective(AssessmentResults(r, d, m, names).findings)
         /\ \A x \in ToSet(AssessmentResults(r, d, m, names).findings) :
              m \in MappingDocs /\ Found(r, d, m, x)
<1> DEFINE findings == AssessmentResults(r, d, m, names).findings
<1>1. CASE m = None
  <2>1. findings = <<>>
    BY <1>1, NoFindings
  <2>2. ToSet(findings) = {} /\ IsInjective(findings)
    BY <2>1 DEF ToSet, IsInjective
  <2>3. findings \in Seq(ToSet(findings))
    BY <2>1
  <2> QED
    BY <2>2, <2>3
<1>2. CASE m \in MappingDocs
  <2>1. findings \in Seq(AllFindings(r, d, m)) /\ IsInjective(findings)
    BY <1>2, FindingsOfDoc
  <2>2. \A x : x \in ToSet(findings) <=> Found(r, d, m, x)
    BY <1>2, FindingsOfDoc
  <2> HIDE DEF findings
  <2>3. findings \in Seq(ToSet(findings))
    BY <2>1, InRange
  <2> QED
    BY <1>2, <2>1, <2>2, <2>3 DEF findings
<1> QED
  BY <1>1, <1>2 DEF Mappings

\* The UUIDs of the resources, from the contents alone.
SourceUuids(r, d, m) == <<<<r>>, <<d>>>> \o (IF m = None THEN <<>> ELSE <<<<m>>>>)

LEMMA ResourcesName ==
  ASSUME NEW r, NEW d, NEW m, NEW names
  PROVE  ResourceUuids(AssessmentResults(r, d, m, names)) = SourceUuids(r, d, m)
<1>1. AssessmentResults(r, d, m, names).resources = Resources(r, d, m, names)
  BY DEF AssessmentResults
<1>2. CASE m = None
  <2> DEFINE two == <<[uuid |-> <<r>>, name |-> names.results], [uuid |-> <<d>>, name |-> names.definitions]>>
  <2>1. two \in Seq({two[1], two[2]}) /\ <<<<r>>, <<d>>>> \in Seq({<<r>>, <<d>>})
    OBVIOUS
  <2>2. two \o <<>> = two /\ <<<<r>>, <<d>>>> \o <<>> = <<<<r>>, <<d>>>>
    BY <2>1
  <2> QED
    BY <1>1, <1>2, <2>2 DEF ResourceUuids, Resources, SourceUuids
<1>3. CASE m # None
  BY <1>1, <1>3 DEF ResourceUuids, Resources, SourceUuids
<1> QED
  BY <1>2, <1>3

LEMMA ContentsAgree ==
  ASSUME NEW r, NEW d, NEW m, NEW names, NEW names2
  PROVE  Content(AssessmentResults(r, d, m, names)) = Content(AssessmentResults(r, d, m, names2))
<1>1. ResourceUuids(AssessmentResults(r, d, m, names)) = ResourceUuids(AssessmentResults(r, d, m, names2))
  BY ResourcesName
<1> QED
  BY <1>1 DEF Content, AssessmentResults

\* Whatever is converted and however often, a UUID means one thing but for what
\* the source files were called: the run's identifier hashes all of its inputs,
\* and no name (convert.py:38-112).
THEOREM UuidsIdentify == Spec => []UuidsIdentifyContent
<1>1. IInv => UuidsIdentifyContent
  <2> SUFFICES ASSUME IInv, NEW one \in Artifacts, NEW other \in Artifacts
               PROVE  /\ one.doc.uuid = other.doc.uuid => Content(one.doc) = Content(other.doc)
                      /\ \A x \in ToSet(one.doc.observations), y \in ToSet(other.doc.observations) :
                           x.uuid = y.uuid => x = y
                      /\ \A x \in ToSet(one.doc.findings), y \in ToSet(other.doc.findings) :
                           x.uuid = y.uuid => x = y
    BY DEF UuidsIdentifyContent
  <2>1. PICK r \in ResultsDocs, d \in DefinitionsDocs, m \in Mappings, names \in FileNames :
          Convertible(r, d, m) /\ one.doc = AssessmentResults(r, d, m, names)
    BY Outputs DEF IsArtifact, ArtifactOf
  <2>2. PICK r2 \in ResultsDocs, d2 \in DefinitionsDocs, m2 \in Mappings, names2 \in FileNames :
          Convertible(r2, d2, m2) /\ other.doc = AssessmentResults(r2, d2, m2, names2)
    BY Outputs DEF IsArtifact, ArtifactOf
  <2>3. one.doc.uuid = other.doc.uuid => Content(one.doc) = Content(other.doc)
    <3>1. one.doc.uuid = RunId(r, d, m) /\ other.doc.uuid = RunId(r2, d2, m2)
      BY <2>1, <2>2 DEF AssessmentResults
    <3>2. RunId(r, d, m) = RunId(r2, d2, m2) => r = r2 /\ d = d2 /\ m = m2
      BY RunIdTells
    <3>3. Content(AssessmentResults(r, d, m, names)) = Content(AssessmentResults(r, d, m, names2))
      BY ContentsAgree
    <3> QED
      BY <2>1, <2>2, <3>1, <3>2, <3>3
  <2>4. ASSUME NEW x \in ToSet(one.doc.observations), NEW y \in ToSet(other.doc.observations), x.uuid = y.uuid
        PROVE  x = y
    <3>1. PICK k \in DOMAIN r.entries :
            x = [uuid |-> <<RunId(r, d, m), r.entries[k].id>>, id |-> r.entries[k].id,
                 result |-> r.entries[k].result, evidence |-> {<<r>>, <<d>>}]
      <4>1. PICK k \in DOMAIN r.entries : x = AssessmentResults(r, d, m, names).observations[k]
        BY <2>1, ObservationsOf DEF ToSet
      <4> QED
        BY <4>1, ObservationsOf
    <3>2. PICK j \in DOMAIN r2.entries :
            y = [uuid |-> <<RunId(r2, d2, m2), r2.entries[j].id>>, id |-> r2.entries[j].id,
                 result |-> r2.entries[j].result, evidence |-> {<<r2>>, <<d2>>}]
      <4>1. PICK j \in DOMAIN r2.entries : y = AssessmentResults(r2, d2, m2, names2).observations[j]
        BY <2>2, ObservationsOf DEF ToSet
      <4> QED
        BY <4>1, ObservationsOf
    <3>3. RunId(r, d, m) = RunId(r2, d2, m2) /\ r.entries[k].id = r2.entries[j].id
      BY <2>4, <3>1, <3>2
    <3>4. r = r2 /\ d = d2
      BY <3>3, RunIdTells
    <3>5. k = j
      BY <2>1, <3>3, <3>4, ScanShape DEF Convertible
    <3> QED
      BY <3>1, <3>2, <3>3, <3>4, <3>5
  <2>5. ASSUME NEW x \in ToSet(one.doc.findings), NEW y \in ToSet(other.doc.findings), x.uuid = y.uuid
        PROVE  x = y
    <3>1. PICK k \in DOMAIN r.entries, n \in DOMAIN m.entries :
            m \in MappingDocs /\ Decides(m.entries[n], r.entries[k]) /\ x = FindingOf(r, d, m, k, n)
      <4>1. x \in ToSet(AssessmentResults(r, d, m, names).findings) /\ Convertible(r, d, m)
        BY <2>1
      <4>2. m \in MappingDocs /\ Found(r, d, m, x)
        BY <4>1, ArtifactFindings
      <4> QED
        BY <4>2 DEF Found
    <3>2. PICK j \in DOMAIN r2.entries, i \in DOMAIN m2.entries :
            m2 \in MappingDocs /\ Decides(m2.entries[i], r2.entries[j]) /\ y = FindingOf(r2, d2, m2, j, i)
      <4>1. y \in ToSet(AssessmentResults(r2, d2, m2, names2).findings) /\ Convertible(r2, d2, m2)
        BY <2>2
      <4>2. m2 \in MappingDocs /\ Found(r2, d2, m2, y)
        BY <4>1, ArtifactFindings
      <4> QED
        BY <4>2 DEF Found
    <3>3. RunId(r, d, m) = RunId(r2, d2, m2)
      BY <2>5, <3>1, <3>2 DEF FindingOf, Finding
    <3>4. r = r2 /\ d = d2 /\ m = m2
      BY <3>3, RunIdTells
    <3>5. FindingOf(r, d, m, k, n).uuid = FindingOf(r, d, m, j, i).uuid
      BY <2>5, <3>1, <3>2, <3>4
    <3>6. k = j /\ n = i
      BY <2>1, <3>1, <3>2, <3>4, <3>5, FindingsDiffer
    <3> QED
      BY <3>1, <3>2, <3>4, <3>6
  <2> QED
    BY <2>3, <2>4, <2>5
<1> QED
  BY <1>1, Invariance, PTL

LEMMA FourJoined ==
  ASSUME NEW S, NEW a \in Seq(S), NEW b \in Seq(S), NEW c \in Seq(S), NEW e \in Seq(S),
         IsInjective(a), IsInjective(b), IsInjective(c), IsInjective(e),
         ToSet(a) \cap ToSet(b) = {}, ToSet(a) \cap ToSet(c) = {}, ToSet(a) \cap ToSet(e) = {},
         ToSet(b) \cap ToSet(c) = {}, ToSet(b) \cap ToSet(e) = {}, ToSet(c) \cap ToSet(e) = {}
  PROVE  IsInjective(a \o b \o c \o e)
<1>1. a \o b \in Seq(S) /\ ToSet(a \o b) = ToSet(a) \cup ToSet(b) /\ IsInjective(a \o b)
  BY Joined
<1>2. ToSet(a \o b) \cap ToSet(c) = {} /\ ToSet(a \o b) \cap ToSet(e) = {}
  BY <1>1
<1>3. a \o b \o c \in Seq(S) /\ ToSet(a \o b \o c) = ToSet(a \o b) \cup ToSet(c) /\ IsInjective(a \o b \o c)
  <2> DEFINE ab == a \o b
  <2>1. ab \in Seq(S) /\ IsInjective(ab) /\ ToSet(ab) \cap ToSet(c) = {}
    BY <1>1, <1>2
  <2> HIDE DEF ab
  <2>2. ab \o c \in Seq(S) /\ ToSet(ab \o c) = ToSet(ab) \cup ToSet(c) /\ IsInjective(ab \o c)
    BY <2>1, Joined
  <2> QED
    BY <2>2 DEF ab
<1>4. ToSet(a \o b \o c) \cap ToSet(e) = {}
  BY <1>2, <1>3
<1> QED
  BY <1>3, <1>4, Joined

LEMMA Heads ==
  ASSUME NEW r, NEW d, NEW m
  PROVE  /\ <<RunId(r, d, m), <<RunId(r, d, m), "result">>>> \in Seq({RunId(r, d, m), <<RunId(r, d, m), "result">>})
         /\ ToSet(<<RunId(r, d, m), <<RunId(r, d, m), "result">>>>) = {RunId(r, d, m), <<RunId(r, d, m), "result">>}
         /\ IsInjective(<<RunId(r, d, m), <<RunId(r, d, m), "result">>>>)
<1> DEFINE run == RunId(r, d, m)
           result == <<run, "result">>
<1>1. Len(run) \in {3, 4} /\ Len(result) = 2
  BY RunIds
<1>2. run # result
  BY <1>1
<1> HIDE DEF result
<1>3. <<run, result>> \in Seq({run, result}) /\ ToSet(<<run, result>>) = {run, result}
  BY DEF ToSet
<1>4. IsInjective(<<run, result>>)
  BY <1>2 DEF IsInjective
<1> QED
  BY <1>3, <1>4 DEF result

LEMMA SourcesDiffer ==
  ASSUME NEW r \in ResultsDocs, NEW d \in DefinitionsDocs, NEW m \in Mappings
  PROVE  /\ SourceUuids(r, d, m) \in Seq({<<r>>, <<d>>, <<m>>})
         /\ ToSet(SourceUuids(r, d, m)) \subseteq {<<r>>, <<d>>, <<m>>}
         /\ IsInjective(SourceUuids(r, d, m))
<1>1. r # d /\ (m # None => r # m /\ d # m)
  BY DocumentsAssumption DEF Mappings
<1>2. <<r>> # <<d>> /\ (m # None => <<r>> # <<m>> /\ <<d>> # <<m>>)
  BY <1>1
<1> DEFINE two == <<<<r>>, <<d>>>>
           more == IF m = None THEN <<>> ELSE <<<<m>>>>
<1>3. SourceUuids(r, d, m) = two \o more
  BY DEF SourceUuids
<1>4. two \in Seq({<<r>>, <<d>>, <<m>>}) /\ more \in Seq({<<r>>, <<d>>, <<m>>})
  <2>1. two \in Seq({<<r>>, <<d>>, <<m>>})
    OBVIOUS
  <2>2. <<>> \in Seq({<<r>>, <<d>>, <<m>>}) /\ <<<<m>>>> \in Seq({<<r>>, <<d>>, <<m>>})
    OBVIOUS
  <2> QED
    BY <2>1, <2>2
<1>5. ToSet(two) = {<<r>>, <<d>>} /\ IsInjective(two)
  BY <1>2 DEF ToSet, IsInjective
<1>6. ToSet(more) = (IF m = None THEN {} ELSE {<<m>>}) /\ IsInjective(more)
  BY DEF ToSet, IsInjective
<1>7. ToSet(two) \cap ToSet(more) = {}
  BY <1>2, <1>5, <1>6
<1> HIDE DEF two, more
<1> QED
  BY <1>3, <1>4, <1>5, <1>6, <1>7, Joined

LEMMA FindingUuids ==
  ASSUME NEW r \in ResultsDocs, NEW d, NEW m \in Mappings, NEW names, Convertible(r, d, m),
         NEW x \in ToSet(AssessmentResults(r, d, m, names).findings)
  PROVE  /\ Len(x.uuid) = 6
         /\ \A y \in ToSet(AssessmentResults(r, d, m, names).findings) : x.uuid = y.uuid => x = y
<1>1. PICK k \in DOMAIN r.entries, n \in DOMAIN m.entries :
        m \in MappingDocs /\ Decides(m.entries[n], r.entries[k]) /\ x = FindingOf(r, d, m, k, n)
  <2>1. m \in MappingDocs /\ Found(r, d, m, x)
    BY ArtifactFindings
  <2> QED
    BY <2>1 DEF Found
<1>2. Len(x.uuid) = 6
  BY <1>1 DEF FindingOf, Finding
<1>3. ASSUME NEW y \in ToSet(AssessmentResults(r, d, m, names).findings), x.uuid = y.uuid PROVE x = y
  <2>1. PICK j \in DOMAIN r.entries, i \in DOMAIN m.entries :
          m \in MappingDocs /\ Decides(m.entries[i], r.entries[j]) /\ y = FindingOf(r, d, m, j, i)
    <3>1. m \in MappingDocs /\ Found(r, d, m, y)
      BY <1>3, ArtifactFindings
    <3> QED
      BY <3>1 DEF Found
  <2>2. k = j /\ n = i
    BY <1>1, <1>3, <2>1, FindingsDiffer
  <2> QED
    BY <1>1, <2>1, <2>2
<1> QED
  BY <1>2, <1>3

\* No two objects of an artifact share a UUID: the hashed parts of the run, the
\* result, the resources, the observations and the findings are never the same
\* (convert.py:38-112).
THEOREM UuidsUnique == Spec => []UuidsAreUnique
<1>1. IInv => UuidsAreUnique
  <2> SUFFICES ASSUME IInv, NEW artifact \in Artifacts PROVE IsInjective(Uuids(artifact.doc))
    BY DEF UuidsAreUnique
  <2>1. PICK r \in ResultsDocs, d \in DefinitionsDocs, m \in Mappings, names \in FileNames :
          Convertible(r, d, m) /\ artifact.doc = AssessmentResults(r, d, m, names)
    BY Outputs DEF IsArtifact, ArtifactOf
  <2> DEFINE doc == AssessmentResults(r, d, m, names)
             run == RunId(r, d, m)
             sources == SourceUuids(r, d, m)
             heads == <<run, <<run, "result">>>>
             observed == [k \in DOMAIN doc.observations |-> doc.observations[k].uuid]
             found == [k \in DOMAIN doc.findings |-> doc.findings[k].uuid]
  <2>2. Uuids(doc) = heads \o sources \o observed \o found
    BY ResourcesName DEF Uuids, AssessmentResults
  <2>3. /\ \A x \in ToSet(heads) : Len(x) \in {3, 4} \/ x = <<run, "result">>
        /\ IsInjective(heads) /\ heads \in Seq(ToSet(heads))
    BY Heads, RunIds
  <2>4. /\ \A x \in ToSet(sources) : Len(x) = 1
        /\ IsInjective(sources) /\ sources \in Seq(ToSet(sources))
    <3>1. \A x \in {<<r>>, <<d>>, <<m>>} : Len(x) = 1
      OBVIOUS
    <3>2. /\ sources \in Seq({<<r>>, <<d>>, <<m>>}) /\ IsInjective(sources)
          /\ ToSet(sources) \subseteq {<<r>>, <<d>>, <<m>>}
      BY SourcesDiffer
    <3> HIDE DEF doc
    <3>3. sources \in Seq(ToSet(sources))
      BY <3>2, InRange
    <3> QED
      BY <3>1, <3>2, <3>3
  <2>5. /\ \A x \in ToSet(observed) : \E k \in DOMAIN r.entries : x = <<run, r.entries[k].id>>
        /\ IsInjective(observed) /\ observed \in Seq(ToSet(observed))
    <3>1. /\ DOMAIN observed = DOMAIN r.entries
          /\ \A k \in DOMAIN r.entries : observed[k] = <<run, r.entries[k].id>>
      <4>1. DOMAIN doc.observations = DOMAIN r.entries
        BY ObservationsOf
      <4>2. \A k \in DOMAIN r.entries : doc.observations[k].uuid = <<run, r.entries[k].id>>
        BY ObservationIds
      <4> HIDE DEF doc
      <4> QED
        BY <4>1, <4>2
    <3>2. observed \in Seq(ToSet(observed))
      BY <3>1, ScanShape DEF ToSet
    <3> HIDE DEF observed
    <3>3. IsInjective(observed)
      <4>1. \A j, k \in DOMAIN r.entries : r.entries[j].id = r.entries[k].id => j = k
        BY <2>1, ScanShape DEF Convertible
      <4> QED
        BY <3>1, <4>1 DEF IsInjective
    <3> QED
      BY <3>1, <3>2, <3>3 DEF ToSet
  <2>6. /\ \A x \in ToSet(found) : Len(x) = 6
        /\ IsInjective(found) /\ found \in Seq(ToSet(found))
    <3>1. /\ doc.findings \in Seq(ToSet(doc.findings)) /\ IsInjective(doc.findings)
      BY <2>1, ArtifactFindings
    <3>2. DOMAIN found = DOMAIN doc.findings /\ \A k \in DOMAIN doc.findings : found[k] = doc.findings[k].uuid
      OBVIOUS
    <3>3. \A k \in DOMAIN doc.findings : doc.findings[k] \in ToSet(doc.findings)
      BY DEF ToSet
    <3>4. found \in Seq(ToSet(found))
      BY <3>1, <3>2 DEF ToSet
    <3>5. ASSUME NEW i \in DOMAIN doc.findings, NEW j \in DOMAIN doc.findings,
                 doc.findings[i].uuid = doc.findings[j].uuid
          PROVE  i = j
      <4>1. doc.findings[i] = doc.findings[j]
        BY <2>1, <3>3, <3>5, FindingUuids
      <4> QED
        BY <3>1, <4>1 DEF IsInjective
    <3>6. ASSUME NEW x \in ToSet(found) PROVE Len(x) = 6
      <4>1. PICK k \in DOMAIN doc.findings : x = doc.findings[k].uuid
        BY <3>2 DEF ToSet
      <4> QED
        BY <2>1, <3>3, <4>1, FindingUuids
    <3> HIDE DEF found
    <3> QED
      BY <3>2, <3>4, <3>5, <3>6 DEF IsInjective
  <2> DEFINE S == ToSet(heads) \cup ToSet(sources) \cup ToSet(observed) \cup ToSet(found)
  <2> HIDE DEF doc, sources, heads, observed, found
  <2>7. heads \in Seq(S) /\ sources \in Seq(S) /\ observed \in Seq(S) /\ found \in Seq(S)
    BY <2>3, <2>4, <2>5, <2>6
  <2>8. Len(<<run, "result">>) = 2
    OBVIOUS
  <2>9. \A k \in DOMAIN r.entries :
          Len(<<run, r.entries[k].id>>) = 2 /\ <<run, r.entries[k].id>> # <<run, "result">>
    BY ScanShape
  <2> HIDE DEF S
  <2>10. ASSUME NEW x \in ToSet(heads)
         PROVE  Len(x) \in {2, 3, 4} /\ (Len(x) = 2 => x = <<run, "result">>)
    <3>1. CASE Len(x) \in {3, 4}
      BY <3>1
    <3>2. CASE x = <<run, "result">>
      BY <2>8, <3>2
    <3> QED
      BY <2>3, <3>1, <3>2
  <2>11. \A x \in ToSet(observed) : Len(x) = 2 /\ x # <<run, "result">>
    BY <2>5, <2>9
  <2>12. /\ ToSet(heads) \cap ToSet(sources) = {} /\ ToSet(heads) \cap ToSet(observed) = {}
         /\ ToSet(heads) \cap ToSet(found) = {} /\ ToSet(sources) \cap ToSet(observed) = {}
         /\ ToSet(sources) \cap ToSet(found) = {} /\ ToSet(observed) \cap ToSet(found) = {}
    <3>1. /\ \A x \in ToSet(heads) : Len(x) \in {2, 3, 4}
          /\ \A x \in ToSet(sources) : Len(x) = 1
          /\ \A x \in ToSet(observed) : Len(x) = 2
          /\ \A x \in ToSet(found) : Len(x) = 6
      BY <2>4, <2>6, <2>10, <2>11
    <3>2. ToSet(heads) \cap ToSet(observed) = {}
      BY <2>10, <2>11
    <3> DEFINE A == ToSet(heads)
               B == ToSet(sources)
               C == ToSet(observed)
               E == ToSet(found)
    <3>3. A \cap C = {}
      BY <3>2
    <3> HIDE DEF A, B, C, E
    <3>4. /\ \A x \in A : Len(x) \in {2, 3, 4}
          /\ \A x \in B : Len(x) = 1
          /\ \A x \in C : Len(x) = 2
          /\ \A x \in E : Len(x) = 6
      BY <3>1 DEF A, B, C, E
    <3>5. A \cap B = {} /\ A \cap E = {} /\ B \cap C = {} /\ B \cap E = {} /\ C \cap E = {}
      BY <3>4
    <3> QED
      BY <3>3, <3>5 DEF A, B, C, E
  <2>13. IsInjective(heads \o sources \o observed \o found)
    BY <2>3, <2>4, <2>5, <2>6, <2>7, <2>12, FourJoined
  <2> QED
    BY <2>1, <2>2, <2>13 DEF doc
<1> QED
  BY <1>1, Invariance, PTL

-----------------------------------------------------------------------------
(* Findings.                                                               *)

\* Every finding is an outcome the author gave for a status the scan has, and
\* every such outcome has its finding (convert.py:96-112).
THEOREM FindingsAuthored == Spec => []FindingsAreAuthored
<1>1. IInv => FindingsAreAuthored
  <2> SUFFICES ASSUME IInv, NEW artifact \in Artifacts
               PROVE  LET doc == artifact.doc
                          m == artifact.sources.mapping
                          scan == artifact.sources.results.entries
                      IN /\ \A k \in DOMAIN doc.findings :
                              LET f == doc.findings[k]
                              IN /\ m # None /\ Authored(m, f.id, f.target, f.result, f.status)
                                 /\ \E n \in DOMAIN scan : scan[n] = [id |-> f.id, result |-> f.result]
                                 /\ \E o \in ToSet(doc.observations) :
                                      o.uuid = f.observation /\ o.id = f.id /\ o.result = f.result
                         /\ m # None => \A n \in DOMAIN scan, k \in DOMAIN m.entries :
                              m.entries[k].id = scan[n].id /\ scan[n].result \in DOMAIN m.entries[k].outcomes =>
                                \E f \in ToSet(doc.findings) :
                                  f.id = m.entries[k].id /\ f.target = m.entries[k].target
    BY DEF FindingsAreAuthored
  <2>1. PICK r \in ResultsDocs, d \in DefinitionsDocs, m \in Mappings, names \in FileNames :
          Convertible(r, d, m) /\ artifact = ArtifactOf(r, d, m, names)
    BY Outputs DEF IsArtifact
  <2> DEFINE doc == AssessmentResults(r, d, m, names)
  <2>2. artifact.doc = doc /\ artifact.sources.mapping = m /\ artifact.sources.results = r
    BY <2>1 DEF ArtifactOf, Sources
  <2>3. ASSUME NEW x \in ToSet(doc.findings)
        PROVE  /\ m # None /\ Authored(m, x.id, x.target, x.result, x.status)
               /\ \E n \in DOMAIN r.entries : r.entries[n] = [id |-> x.id, result |-> x.result]
               /\ \E o \in ToSet(doc.observations) :
                    o.uuid = x.observation /\ o.id = x.id /\ o.result = x.result
    <3>1. PICK k \in DOMAIN r.entries, n \in DOMAIN m.entries :
            m \in MappingDocs /\ Decides(m.entries[n], r.entries[k]) /\ x = FindingOf(r, d, m, k, n)
      <4>1. m \in MappingDocs /\ Found(r, d, m, x)
        BY <2>1, ArtifactFindings
      <4> QED
        BY <4>1 DEF Found
    <3>2. /\ x.id = r.entries[k].id /\ x.result = r.entries[k].result
          /\ x.target = m.entries[n].target /\ x.status = m.entries[n].outcomes[r.entries[k].result]
          /\ x.observation = <<RunId(r, d, m), r.entries[k].id>>
      BY <3>1 DEF FindingOf, Finding
    <3>3. m # None
      BY <3>1, DocumentsAssumption
    <3>4. Authored(m, x.id, x.target, x.result, x.status)
      BY <3>1, <3>2 DEF Authored, Decides
    <3>5. r.entries[k] = [id |-> x.id, result |-> x.result]
      <4>1. k \in DOMAIN r.entries => r.entries[k] = [id |-> r.entries[k].id, result |-> r.entries[k].result]
        BY ScanShape
      <4> QED
        BY <3>1, <3>2, <4>1
    <3>6. doc.observations[k] \in ToSet(doc.observations)
      BY ObservationsOf DEF ToSet
    <3>7. /\ doc.observations[k].uuid = x.observation /\ doc.observations[k].id = x.id
          /\ doc.observations[k].result = x.result
      BY <3>2, ObservationIds
    <3> QED
      BY <3>3, <3>4, <3>5, <3>6, <3>7
  <2>4. ASSUME m # None, NEW n \in DOMAIN r.entries, NEW k \in DOMAIN m.entries,
               m.entries[k].id = r.entries[n].id, r.entries[n].result \in DOMAIN m.entries[k].outcomes
        PROVE  \E x \in ToSet(doc.findings) : x.id = m.entries[k].id /\ x.target = m.entries[k].target
    <3>1. m \in MappingDocs /\ Decides(m.entries[k], r.entries[n])
      BY <2>4 DEF Mappings, Decides
    <3>2. FindingOf(r, d, m, n, k) \in ToSet(doc.findings)
      BY <3>1, FindingsOfDoc
    <3>3. FindingOf(r, d, m, n, k).id = m.entries[k].id /\ FindingOf(r, d, m, n, k).target = m.entries[k].target
      BY <2>4 DEF FindingOf, Finding
    <3> QED
      BY <3>2, <3>3
  <2> HIDE DEF doc
  <2>5. \A k \in DOMAIN doc.findings : doc.findings[k] \in ToSet(doc.findings)
    BY DEF ToSet
  <2> QED
    BY <2>2, <2>3, <2>4, <2>5
<1> QED
  BY <1>1, Invariance, PTL

\* A mapping report covers the observations of the artifact made from the same
\* files and the targets of its findings, and calls nothing stale that was
\* observed (mapping_report.py:11-57).
THEOREM ReportCovers == Spec => []ReportCoversArtifact
<1>1. IInv => ReportCoversArtifact
  <2> SUFFICES ASSUME IInv, NEW report \in OfKind("mapping-report"), NEW artifact \in Artifacts,
                      report.sources = artifact.sources
               PROVE  LET coverage == report.coverage
                          doc == artifact.doc
                          Listed(list) == {<<item.id, item.result>> : item \in list}
                      IN /\ Listed(coverage.mapped) \cup Listed(coverage.unmapped)
                               = {<<o.id, o.result>> : o \in ToSet(doc.observations)}
                         /\ \A f \in ToSet(doc.findings) :
                              \E item \in coverage.mapped : item.id = f.id /\ f.target \in item.targets
                         /\ coverage.stale \cap Ids(doc.observations) = {}
    BY DEF ReportCoversArtifact
  <2>1. PICK r \in ResultsDocs, d \in DefinitionsDocs, m \in Mappings, names \in FileNames :
          Convertible(r, d, m) /\ artifact = ArtifactOf(r, d, m, names)
    BY Outputs DEF IsArtifact
  <2>2. report.coverage = MappingReport(r, d, m)
    <3>1. PICK r2 \in ResultsDocs, d2 \in DefinitionsDocs, m2 \in MappingDocs :
            Convertible(r2, d2, m2) /\ report = ReportOf(r2, d2, m2)
      BY Outputs DEF IsReport
    <3>2. Sources(r, d, m) = Sources(r2, d2, m2)
      BY <2>1, <3>1 DEF ArtifactOf, ReportOf
    <3>3. r = r2 /\ d = d2 /\ m = m2
      BY <3>2 DEF Sources
    <3> QED
      BY <3>1, <3>3 DEF ReportOf
  <2> DEFINE doc == AssessmentResults(r, d, m, names)
             coverage == MappingReport(r, d, m)
             Listed(list) == {<<item.id, item.result>> : item \in list}
             observed == {<<r.entries[k].id, r.entries[k].result>> : k \in DOMAIN r.entries}
  <2>3. artifact.doc = doc
    BY <2>1 DEF ArtifactOf
  <2>4. {<<o.id, o.result>> : o \in ToSet(doc.observations)} = observed
    <3>1. DOMAIN doc.observations = DOMAIN r.entries
      BY ObservationsOf
    <3>2. \A k \in DOMAIN r.entries :
            doc.observations[k].id = r.entries[k].id /\ doc.observations[k].result = r.entries[k].result
      BY ObservationIds
    <3> HIDE DEF doc
    <3> QED
      BY <3>1, <3>2 DEF ToSet
  <2>5. Listed(coverage.mapped) \cup Listed(coverage.unmapped) = observed
    <3> DEFINE evaluated == {r.entries[k] : k \in DOMAIN r.entries}
               Mapped(e) == TargetsOf(m, e.id) # {}
    <3>1. /\ coverage.mapped = {[id |-> e.id, result |-> e.result, targets |-> TargetsOf(m, e.id)] :
                                  e \in {e \in evaluated : Mapped(e)}}
          /\ coverage.unmapped = {[id |-> e.id, result |-> e.result] : e \in {e \in evaluated : ~ Mapped(e)}}
      BY DEF MappingReport
    <3> HIDE DEF coverage, Mapped
    <3>2. /\ Listed(coverage.mapped) = {<<e.id, e.result>> : e \in {e \in evaluated : Mapped(e)}}
          /\ Listed(coverage.unmapped) = {<<e.id, e.result>> : e \in {e \in evaluated : ~ Mapped(e)}}
      <4> DEFINE Row(e) == [id |-> e.id, result |-> e.result, targets |-> TargetsOf(m, e.id)]
                 Bare(e) == [id |-> e.id, result |-> e.result]
      <4>1. \A e : Row(e).id = e.id /\ Row(e).result = e.result /\ Bare(e).id = e.id /\ Bare(e).result = e.result
        OBVIOUS
      <4> HIDE DEF Row, Bare
      <4>2. ASSUME NEW S
            PROVE  Listed({Row(e) : e \in S}) = {<<e.id, e.result>> : e \in S}
        BY <4>1
      <4>3. ASSUME NEW S
            PROVE  Listed({Bare(e) : e \in S}) = {<<e.id, e.result>> : e \in S}
        BY <4>1
      <4> HIDE DEF Listed, evaluated
      <4> QED
        BY <3>1, <4>2, <4>3 DEF Row, Bare
    <3> QED
      BY <3>2
  <2>6. ASSUME NEW x \in ToSet(doc.findings)
        PROVE  \E item \in coverage.mapped : item.id = x.id /\ x.target \in item.targets
    <3>1. PICK k \in DOMAIN r.entries, n \in DOMAIN m.entries :
            m \in MappingDocs /\ Decides(m.entries[n], r.entries[k]) /\ x = FindingOf(r, d, m, k, n)
      <4>1. m \in MappingDocs /\ Found(r, d, m, x)
        BY <2>1, ArtifactFindings
      <4> QED
        BY <4>1 DEF Found
    <3>2. x.id = r.entries[k].id /\ x.target = m.entries[n].target
      BY <3>1 DEF FindingOf, Finding
    <3>3. x.target \in TargetsOf(m, r.entries[k].id)
      BY <3>1, <3>2 DEF TargetsOf, Decides
    <3> DEFINE item == [id |-> r.entries[k].id, result |-> r.entries[k].result,
                        targets |-> TargetsOf(m, r.entries[k].id)]
    <3>4. item \in coverage.mapped
      BY <3>3 DEF MappingReport
    <3>5. item.id = x.id /\ x.target \in item.targets
      BY <3>2, <3>3
    <3> QED
      BY <3>4, <3>5
  <2>7. coverage.stale \cap Ids(doc.observations) = {}
    <3>1. coverage.stale = Ids(m.entries) \ ToSet(d.ids)
      BY DEF MappingReport
    <3>2. Ids(doc.observations) = Ids(r.entries)
      <4>1. DOMAIN doc.observations = DOMAIN r.entries
        BY ObservationsOf
      <4>2. \A k \in DOMAIN r.entries : doc.observations[k].id = r.entries[k].id
        BY ObservationIds
      <4> HIDE DEF doc
      <4> QED
        BY <4>1, <4>2 DEF Ids
    <3> QED
      BY <2>1, <3>1, <3>2 DEF Convertible
  <2> HIDE DEF doc, coverage
  <2> QED
    BY <2>2, <2>3, <2>4, <2>5, <2>6, <2>7 DEF coverage
<1> QED
  BY <1>1, Invariance, PTL

-----------------------------------------------------------------------------
(* Counts.                                                                 *)

LEMMA OneToOne ==
  ASSUME NEW S, IsFiniteSet(S), NEW f, DOMAIN f = S, IsInjective(f), f = [x \in S |-> f[x]]
  PROVE  /\ IsFiniteSet({f[x] : x \in S}) /\ Cardinality({f[x] : x \in S}) = Cardinality(S)
<1> DEFINE T == {f[x] : x \in S}
<1>1. f \in [S -> T]
  OBVIOUS
<1>2. f \in Bijection(S, T)
  BY <1>1 DEF Bijection, Injection, Surjection
<1> QED
  BY <1>2, FS_Bijection DEF ExistsBijection

\* findings counts its items and leaves none out (findings.py).
THEOREM InventoryComplete == Spec => []InventoryIsComplete
<1>1. IInv => InventoryIsComplete
  <2> SUFFICES ASSUME IInv, NEW output \in OfKind("findings")
               PROVE  /\ Cardinality(output.items) = output.count
                      /\ \A f \in ToSet(output.of.doc.findings) :
                           \E item \in output.items : item.uuid = f.uuid /\ item.status = f.status
    BY DEF InventoryIsComplete
  <2>1. PICK artifact \in Artifacts : output = InventoryOf(artifact)
    BY Outputs DEF IsInventory
  <2>2. PICK r \in ResultsDocs, d \in DefinitionsDocs, m \in Mappings, names \in FileNames :
          Convertible(r, d, m) /\ artifact.doc = AssessmentResults(r, d, m, names)
    BY Outputs DEF IsArtifact, ArtifactOf
  <2> DEFINE findings == AssessmentResults(r, d, m, names).findings
             items == [k \in DOMAIN findings |-> Item(findings[k])]
  <2>3. /\ findings \in Seq(ToSet(findings)) /\ IsInjective(findings)
        /\ \A x, y \in ToSet(findings) : x.uuid = y.uuid => x = y
    BY <2>2, ArtifactFindings, FindingUuids
  <2>4. /\ output.of.doc.findings = findings /\ output.count = Len(findings)
        /\ output.items = {Item(findings[k]) : k \in DOMAIN findings}
    BY <2>1, <2>2 DEF InventoryOf, Inventory
  <2> HIDE DEF findings
  <2>5. DOMAIN findings = 1 .. Len(findings) /\ Len(findings) \in Nat
    BY <2>3
  <2>6. IsInjective(items)
    <3> SUFFICES ASSUME NEW i \in DOMAIN findings, NEW j \in DOMAIN findings, Item(findings[i]) = Item(findings[j])
                 PROVE  i = j
      BY DEF IsInjective
    <3>1. findings[i].uuid = findings[j].uuid
      BY DEF Item
    <3>2. findings[i] = findings[j]
      BY <2>3, <3>1 DEF ToSet
    <3> QED
      BY <2>3, <3>2 DEF IsInjective
  <2>7. IsFiniteSet(1 .. Len(findings)) /\ Cardinality(1 .. Len(findings)) = Len(findings)
    <3>1. Len(findings) \in Int /\ 1 \in Int
      BY <2>5
    <3>2. /\ IsFiniteSet(1 .. Len(findings))
          /\ Cardinality(1 .. Len(findings)) = IF 1 > Len(findings) THEN 0 ELSE Len(findings) - 1 + 1
      BY <3>1, FS_Interval
    <3> QED
      BY <2>5, <3>2
  <2>8. /\ DOMAIN items = DOMAIN findings /\ items = [k \in DOMAIN findings |-> items[k]]
        /\ output.items = {items[k] : k \in DOMAIN findings}
    BY <2>4
  <2>9. Cardinality(output.items) = Len(findings)
    <3> HIDE DEF items
    <3> QED
      <4>1. /\ IsFiniteSet(DOMAIN findings) /\ DOMAIN items = DOMAIN findings
            /\ items = [k \in DOMAIN findings |-> items[k]]
        BY <2>5, <2>7, <2>8
      <4>2. Cardinality({items[k] : k \in DOMAIN findings}) = Cardinality(DOMAIN findings)
        BY <2>6, <4>1, OneToOne
      <4> QED
        BY <2>5, <2>7, <2>8, <4>2
  <2>10. ASSUME NEW f \in ToSet(findings)
         PROVE  \E item \in output.items : item.uuid = f.uuid /\ item.status = f.status
    <3>1. Item(f) \in output.items
      BY <2>4 DEF ToSet
    <3>2. Item(f).uuid = f.uuid /\ Item(f).status = f.status
      BY DEF Item
    <3> QED
      BY <3>1, <3>2
  <2> QED
    BY <2>4, <2>9, <2>10
<1> QED
  BY <1>1, Invariance, PTL

LEMMA IdsFinite ==
  ASSUME NEW r \in ResultsDocs
  PROVE  IsFiniteSet(Ids(r.entries))
<1> DEFINE f == [k \in DOMAIN r.entries |-> r.entries[k].id]
<1>1. Len(r.entries) \in Int /\ 1 \in Int /\ DOMAIN r.entries = 1 .. Len(r.entries)
  BY ScanShape
<1>2. IsFiniteSet(DOMAIN r.entries)
  BY <1>1, FS_Interval
<1>3. f \in Surjection(DOMAIN r.entries, Ids(r.entries))
  BY DEF Surjection, Ids
<1> QED
  BY <1>2, <1>3, FS_Surjection

\* Where the two readings of an artifact agree: the statuses a delta takes from
\* the observations are those of the scan.
LEMMA StatusOfScan ==
  ASSUME IInv, NEW artifact \in Artifacts
  PROVE  /\ DOMAIN StatusByDefinition(artifact.doc) = Ids(artifact.sources.results.entries)
         /\ IsFiniteSet(Ids(artifact.sources.results.entries))
         /\ \A id \in Ids(artifact.sources.results.entries) :
              StatusByDefinition(artifact.doc)[id] = Status(artifact, id) /\ Status(artifact, id) # "none"
         /\ \A id : id \notin Ids(artifact.sources.results.entries) => Status(artifact, id) = "none"
<1>1. PICK r \in ResultsDocs, d \in DefinitionsDocs, m \in Mappings, names \in FileNames :
        Convertible(r, d, m) /\ artifact = ArtifactOf(r, d, m, names)
  BY Outputs DEF IsArtifact
<1> DEFINE doc == AssessmentResults(r, d, m, names)
<1>2. artifact.doc = doc /\ artifact.sources.results = r
  BY <1>1 DEF ArtifactOf, Sources
<1>3. /\ DOMAIN doc.observations = DOMAIN r.entries
      /\ \A k \in DOMAIN r.entries :
           doc.observations[k].id = r.entries[k].id /\ doc.observations[k].result = r.entries[k].result
  BY ObservationsOf, ObservationIds
<1> HIDE DEF doc
<1>4. Ids(doc.observations) = Ids(r.entries)
  BY <1>3 DEF Ids
<1>5. DOMAIN StatusByDefinition(doc) = Ids(r.entries)
  BY <1>4 DEF StatusByDefinition
<1>6. ASSUME NEW id \in Ids(r.entries)
      PROVE  StatusByDefinition(doc)[id] = Status(artifact, id) /\ Status(artifact, id) # "none"
  <2>1. PICK k \in DOMAIN r.entries : r.entries[k].id = id
    BY DEF Ids
  <2>2. \A j \in DOMAIN r.entries : r.entries[j].id = id => j = k
    BY <1>1, <2>1, ScanShape DEF Convertible
  <2>3. StatusByDefinition(doc)[id] = r.entries[k].result
    <3>1. \A j \in DOMAIN doc.observations : doc.observations[j].id = id <=> j = k
      BY <1>3, <2>1, <2>2
    <3>2. (CHOOSE j \in DOMAIN doc.observations : doc.observations[j].id = id) = k
      BY <1>3, <3>1
    <3>3. StatusByDefinition(doc)[id] =
            doc.observations[CHOOSE j \in DOMAIN doc.observations : doc.observations[j].id = id].result
      BY <1>4 DEF StatusByDefinition
    <3> QED
      BY <1>3, <3>2, <3>3
  <2>4. Status(artifact, id) = r.entries[k].result
    <3>1. {j \in DOMAIN r.entries : r.entries[j].id = id} = {k}
      BY <2>1, <2>2
    <3> QED
      BY <1>2, <3>1 DEF Status
  <2>5. r.entries[k].result # "none"
    BY <1>1 DEF Convertible, ResultsAccepted, ValidResults
  <2> QED
    BY <2>3, <2>4, <2>5
<1>7. ASSUME NEW id, id \notin Ids(r.entries) PROVE Status(artifact, id) = "none"
  <2>1. {j \in DOMAIN r.entries : r.entries[j].id = id} = {}
    BY <1>7 DEF Ids
  <2> QED
    BY <1>2, <2>1 DEF Status
<1> QED
  BY <1>2, <1>5, <1>6, <1>7, IdsFinite

LEMMA Disjoint ==
  ASSUME NEW S, NEW T, IsFiniteSet(S), IsFiniteSet(T), S \cap T = {}
  PROVE  IsFiniteSet(S \cup T) /\ Cardinality(S \cup T) = Cardinality(S) + Cardinality(T)
<1>1. Cardinality(S) \in Nat /\ Cardinality(T) \in Nat /\ Cardinality(S \cap T) = 0
  BY FS_CardinalityType, FS_EmptySet
<1>2. IsFiniteSet(S \cup T) /\ Cardinality(S \cup T) = Cardinality(S) + Cardinality(T) - Cardinality(S \cap T)
  BY FS_Union
<1> QED
  BY <1>1, <1>2

\* A delta says of every definition of either scan what became of its status,
\* once, whatever mappings and definitions files were used (diff.py).
THEOREM DeltaOfScans == Spec => []DeltaIsOfTheScans
<1>1. IInv => DeltaIsOfTheScans
  <2> SUFFICES ASSUME IInv, NEW output \in OfKind("diff")
               PROVE  LET delta == output.delta
                          ids == Ids(output.before.sources.results.entries)
                                   \cup Ids(output.after.sources.results.entries)
                      IN /\ \A id \in ids :
                              LET was == Status(output.before, id)
                                  is == Status(output.after, id)
                              IN /\ <<id, is>> \in delta.added <=> was = "none"
                                 /\ <<id, was>> \in delta.removed <=> is = "none"
                                 /\ <<id, was, is>> \in delta.changed <=> "none" \notin {was, is} /\ was # is
                                 /\ id \in delta.unchanged <=> was = is
                         /\ Cardinality(delta.added) + Cardinality(delta.removed) + Cardinality(delta.changed)
                              + Cardinality(delta.unchanged) = Cardinality(ids)
    BY DEF DeltaIsOfTheScans
  <2>1. PICK prior \in Artifacts, current \in Artifacts : output = DeltaOf(prior, current)
    BY Outputs DEF IsDelta
  <2> DEFINE B == Ids(prior.sources.results.entries)
             A == Ids(current.sources.results.entries)
             before == StatusByDefinition(prior.doc)
             after == StatusByDefinition(current.doc)
             Was(id) == Status(prior, id)
             Is(id) == Status(current, id)
             both == B \cap A
             changed == {id \in both : before[id] # after[id]}
             unchanged == {id \in both : before[id] = after[id]}
             tagAdded == [id \in A \ B |-> <<id, after[id]>>]
             tagRemoved == [id \in B \ A |-> <<id, before[id]>>]
             tagChanged == [id \in changed |-> <<id, before[id], after[id]>>]
  <2>2. output.before = prior /\ output.after = current /\ output.delta = Delta(prior.doc, current.doc)
    BY <2>1 DEF DeltaOf
  <2>3. /\ DOMAIN before = B /\ DOMAIN after = A /\ IsFiniteSet(B) /\ IsFiniteSet(A)
        /\ \A id \in B : before[id] = Was(id) /\ Was(id) # "none"
        /\ \A id \in A : after[id] = Is(id) /\ Is(id) # "none"
        /\ \A id : (id \notin B => Was(id) = "none") /\ (id \notin A => Is(id) = "none")
    BY StatusOfScan
  <2>4. /\ output.delta.added = {<<id, after[id]>> : id \in A \ B}
        /\ output.delta.removed = {<<id, before[id]>> : id \in B \ A}
        /\ output.delta.changed = {<<id, before[id], after[id]>> : id \in changed}
        /\ output.delta.unchanged = unchanged
    BY <2>2, <2>3 DEF Delta
  <2> HIDE DEF A, B, before, after, Was, Is
  <2>5. ASSUME NEW id \in B \cup A
        PROVE  /\ <<id, Is(id)>> \in output.delta.added <=> Was(id) = "none"
               /\ <<id, Was(id)>> \in output.delta.removed <=> Is(id) = "none"
               /\ <<id, Was(id), Is(id)>> \in output.delta.changed
                    <=> "none" \notin {Was(id), Is(id)} /\ Was(id) # Is(id)
               /\ id \in output.delta.unchanged <=> Was(id) = Is(id)
    <3>1. <<id, Is(id)>> \in output.delta.added <=> Was(id) = "none"
      BY <2>3, <2>4, <2>5
    <3>2. <<id, Was(id)>> \in output.delta.removed <=> Is(id) = "none"
      BY <2>3, <2>4, <2>5
    <3>3. <<id, Was(id), Is(id)>> \in output.delta.changed <=> id \in both /\ Was(id) # Is(id)
      BY <2>3, <2>4, <2>5
    <3>4. id \in both <=> "none" \notin {Was(id), Is(id)}
      BY <2>3, <2>5
    <3>5. id \in output.delta.unchanged <=> Was(id) = Is(id)
      BY <2>3, <2>4, <2>5
    <3> QED
      BY <3>1, <3>2, <3>3, <3>4, <3>5
  <2>6. IsFiniteSet(A \ B) /\ IsFiniteSet(B \ A) /\ IsFiniteSet(both)
    BY <2>3, FS_Difference, FS_Intersection
  <2>7. IsFiniteSet(changed) /\ IsFiniteSet(unchanged)
    BY <2>6, FS_Subset
  <2>8. Cardinality(output.delta.added) = Cardinality(A \ B)
    <3>1. DOMAIN tagAdded = A \ B /\ IsInjective(tagAdded) /\ tagAdded = [id \in A \ B |-> tagAdded[id]]
      BY DEF IsInjective
    <3>2. output.delta.added = {tagAdded[id] : id \in A \ B}
      BY <2>4
    <3> HIDE DEF tagAdded
    <3> QED
      BY <2>6, <3>1, <3>2, OneToOne
  <2>9. Cardinality(output.delta.removed) = Cardinality(B \ A)
    <3>1. DOMAIN tagRemoved = B \ A /\ IsInjective(tagRemoved) /\ tagRemoved = [id \in B \ A |-> tagRemoved[id]]
      BY DEF IsInjective
    <3>2. output.delta.removed = {tagRemoved[id] : id \in B \ A}
      BY <2>4
    <3> HIDE DEF tagRemoved
    <3> QED
      BY <2>6, <3>1, <3>2, OneToOne
  <2>10. Cardinality(output.delta.changed) = Cardinality(changed)
    <3>1. DOMAIN tagChanged = changed /\ IsInjective(tagChanged) /\ tagChanged = [id \in changed |-> tagChanged[id]]
      BY DEF IsInjective
    <3>2. output.delta.changed = {tagChanged[id] : id \in changed}
      BY <2>4
    <3> HIDE DEF tagChanged, changed
    <3> QED
      BY <2>7, <3>1, <3>2, OneToOne
  <2>11. /\ changed \cap unchanged = {} /\ changed \cup unchanged = both
         /\ (A \ B) \cap (B \ A) = {} /\ ((A \ B) \cup (B \ A)) \cap both = {}
         /\ ((A \ B) \cup (B \ A)) \cup both = B \cup A
    OBVIOUS
  <2>12. Cardinality(B \cup A) =
           Cardinality(A \ B) + Cardinality(B \ A) + Cardinality(changed) + Cardinality(unchanged)
    <3> HIDE DEF changed, unchanged, both
    <3>1. Cardinality(both) = Cardinality(changed) + Cardinality(unchanged)
      BY <2>7, <2>11, Disjoint
    <3>2. /\ IsFiniteSet((A \ B) \cup (B \ A))
          /\ Cardinality((A \ B) \cup (B \ A)) = Cardinality(A \ B) + Cardinality(B \ A)
      BY <2>6, <2>11, Disjoint
    <3>3. Cardinality(B \cup A) = Cardinality((A \ B) \cup (B \ A)) + Cardinality(both)
      BY <2>6, <2>11, <3>2, Disjoint
    <3>4. /\ Cardinality(A \ B) \in Nat /\ Cardinality(B \ A) \in Nat
          /\ Cardinality(changed) \in Nat /\ Cardinality(unchanged) \in Nat
      BY <2>6, <2>7, FS_CardinalityType
    <3> QED
      BY <3>1, <3>2, <3>3, <3>4
  <2>13. Cardinality(output.delta.added) + Cardinality(output.delta.removed) + Cardinality(output.delta.changed)
           + Cardinality(output.delta.unchanged) = Cardinality(B \cup A)
    <3>1. Cardinality(output.delta.unchanged) = Cardinality(unchanged)
      BY <2>4
    <3>2. /\ Cardinality(A \ B) \in Nat /\ Cardinality(B \ A) \in Nat
          /\ Cardinality(changed) \in Nat /\ Cardinality(unchanged) \in Nat
      BY <2>6, <2>7, FS_CardinalityType
    <3> QED
      BY <2>8, <2>9, <2>10, <2>12, <3>1, <3>2
  <2> QED
    BY <2>2, <2>5, <2>13 DEF A, B, Was, Is
<1> QED
  BY <1>1, Invariance, PTL

-----------------------------------------------------------------------------
(* What can be done with a delta.                                          *)

\* The statuses of the definitions of the scan an artifact was converted from.
Evaluated(artifact) ==
  LET scan == artifact.sources.results.entries
  IN {<<scan[k].id, scan[k].result>> : k \in DOMAIN scan}

\* What a delta makes of statuses, and the delta read the other way round.
Applied(delta, statuses) ==
  (statuses \ (delta.removed \cup {<<c[1], c[2]>> : c \in delta.changed}))
    \cup delta.added \cup {<<c[1], c[3]>> : c \in delta.changed}

Reversed(delta) ==
  [added |-> delta.removed, removed |-> delta.added,
   changed |-> {<<c[1], c[3], c[2]>> : c \in delta.changed}, unchanged |-> delta.unchanged]

Graph(f) == {<<id, f[id]>> : id \in DOMAIN f}
IsStatus(f) == f = [id \in DOMAIN f |-> f[id]]

\* The delta of two functions from definitions to statuses.
Between(before, after) ==
  LET both == DOMAIN before \cap DOMAIN after
  IN [added |-> {<<id, after[id]>> : id \in DOMAIN after \ DOMAIN before},
      removed |-> {<<id, before[id]>> : id \in DOMAIN before \ DOMAIN after},
      changed |-> {<<id, before[id], after[id]>> : id \in {id \in both : before[id] # after[id]}},
      unchanged |-> {id \in both : before[id] = after[id]}]

LEMMA GraphOfScan ==
  ASSUME IInv, NEW artifact \in Artifacts
  PROVE  /\ IsStatus(StatusByDefinition(artifact.doc))
         /\ Evaluated(artifact) = Graph(StatusByDefinition(artifact.doc))
<1>1. PICK r \in ResultsDocs, d \in DefinitionsDocs, m \in Mappings, names \in FileNames :
        Convertible(r, d, m) /\ artifact = ArtifactOf(r, d, m, names)
  BY Outputs DEF IsArtifact
<1> DEFINE f == StatusByDefinition(artifact.doc)
<1>2. artifact.sources.results = r
  BY <1>1 DEF ArtifactOf, Sources
<1>3. \A j, k \in DOMAIN r.entries : r.entries[j].id = r.entries[k].id => j = k
  BY <1>1, ScanShape DEF Convertible
<1>4. DOMAIN f = Ids(r.entries) /\ \A id \in Ids(r.entries) : f[id] = Status(artifact, id)
  BY <1>2, StatusOfScan
<1>5. IsStatus(f)
  BY DEF IsStatus, StatusByDefinition
<1>6. ASSUME NEW k \in DOMAIN r.entries PROVE f[r.entries[k].id] = r.entries[k].result
  <2>1. {j \in DOMAIN r.entries : r.entries[j].id = r.entries[k].id} = {k}
    BY <1>3
  <2>2. Status(artifact, r.entries[k].id) = r.entries[k].result
    BY <1>2, <2>1 DEF Status
  <2> QED
    BY <1>4, <2>2 DEF Ids
<1> HIDE DEF f
<1>7. Evaluated(artifact) = {<<r.entries[k].id, r.entries[k].result>> : k \in DOMAIN r.entries}
  BY <1>2 DEF Evaluated
<1>8. Graph(f) = {<<r.entries[k].id, r.entries[k].result>> : k \in DOMAIN r.entries}
  BY <1>4, <1>6 DEF Graph, Ids
<1> QED
  BY <1>5, <1>7, <1>8 DEF f

LEMMA SameGraph ==
  ASSUME NEW f, NEW g, IsStatus(f), IsStatus(g), Graph(f) = Graph(g)
  PROVE  f = g
<1>1. \A id : id \in DOMAIN f => <<id, f[id]>> \in Graph(g)
  BY DEF Graph
<1>2. \A id : id \in DOMAIN g => <<id, g[id]>> \in Graph(f)
  BY DEF Graph
<1>3. \A id \in DOMAIN f : id \in DOMAIN g /\ f[id] = g[id]
  BY <1>1 DEF Graph
<1>4. \A id \in DOMAIN g : id \in DOMAIN f
  BY <1>2 DEF Graph
<1>5. DOMAIN f = DOMAIN g
  BY <1>3, <1>4
<1> QED
  BY <1>3, <1>5 DEF IsStatus

Pairs(S, f) == {<<id, f[id]>> : id \in S}
Triples(S, f, g) == {<<id, f[id], g[id]>> : id \in S}
Firsts(triples) == {<<c[1], c[2]>> : c \in triples}
Seconds(triples) == {<<c[1], c[3]>> : c \in triples}
Swapped(triples) == {<<c[1], c[3], c[2]>> : c \in triples}

LEMMA Projections ==
  ASSUME NEW S, NEW f, NEW g
  PROVE  /\ Firsts(Triples(S, f, g)) = Pairs(S, f) /\ Seconds(Triples(S, f, g)) = Pairs(S, g)
         /\ Swapped(Triples(S, f, g)) = Triples(S, g, f)
<1> DEFINE triple(id) == <<id, f[id], g[id]>>
<1>1. \A id : triple(id)[1] = id /\ triple(id)[2] = f[id] /\ triple(id)[3] = g[id]
  OBVIOUS
<1>2. Triples(S, f, g) = {triple(id) : id \in S}
  BY DEF Triples
<1> HIDE DEF triple
<1>3. Firsts(Triples(S, f, g)) = {<<triple(id)[1], triple(id)[2]>> : id \in S}
  BY <1>2, Zenon DEF Firsts
<1>4. Seconds(Triples(S, f, g)) = {<<triple(id)[1], triple(id)[3]>> : id \in S}
  BY <1>2, Zenon DEF Seconds
<1>5. Swapped(Triples(S, f, g)) = {<<triple(id)[1], triple(id)[3], triple(id)[2]>> : id \in S}
  BY <1>2, Zenon DEF Swapped
<1> QED
  BY <1>1, <1>3, <1>4, <1>5 DEF Pairs, Triples

Changed(before, after) == {id \in DOMAIN before \cap DOMAIN after : before[id] # after[id]}
Unchanged(before, after) == {id \in DOMAIN before \cap DOMAIN after : before[id] = after[id]}

LEMMA BetweenParts ==
  ASSUME NEW before, NEW after
  PROVE  Between(before, after) =
           [added |-> Pairs(DOMAIN after \ DOMAIN before, after),
            removed |-> Pairs(DOMAIN before \ DOMAIN after, before),
            changed |-> Triples(Changed(before, after), before, after),
            unchanged |-> Unchanged(before, after)]
  BY DEF Between, Pairs, Triples, Changed, Unchanged

LEMMA AppliedBetween ==
  ASSUME NEW before, NEW after
  PROVE  Applied(Between(before, after), Graph(before)) = Graph(after)
<1> DEFINE delta == Between(before, after)
           B == DOMAIN before
           A == DOMAIN after
           changed == Changed(before, after)
           same == Unchanged(before, after)
           gone == (B \ A) \cup changed
           come == (A \ B) \cup changed
<1>1. Pairs(same, before) = Pairs(same, after)
  BY DEF Pairs, Unchanged
<1>2. B \ gone = same /\ same \cup come = A
  BY DEF Changed, Unchanged
<1>3. /\ delta.added = Pairs(A \ B, after) /\ delta.removed = Pairs(B \ A, before)
      /\ delta.changed = Triples(changed, before, after)
  BY BetweenParts
<1>4. Graph(before) = Pairs(B, before) /\ Graph(after) = Pairs(A, after)
  BY DEF Graph, Pairs
<1> HIDE DEF delta, B, A, changed, same
<1>5. Applied(delta, Graph(before)) =
        (Pairs(B, before) \ (delta.removed \cup Firsts(delta.changed))) \cup (delta.added \cup Seconds(delta.changed))
  BY <1>4 DEF Applied, Firsts, Seconds
<1>6. Firsts(delta.changed) = Pairs(changed, before) /\ Seconds(delta.changed) = Pairs(changed, after)
  BY <1>3, Projections
<1>7. Pairs(B, before) \ (delta.removed \cup Firsts(delta.changed)) = Pairs(same, before)
  <2>1. Pairs(B \ A, before) \cup Pairs(changed, before) = Pairs(gone, before)
    BY DEF Pairs
  <2>2. Pairs(B, before) \ Pairs(gone, before) = Pairs(B \ gone, before)
    BY DEF Pairs
  <2> HIDE DEF gone
  <2> QED
    BY <1>2, <1>3, <1>6, <2>1, <2>2
<1>8. delta.added \cup Seconds(delta.changed) = Pairs(come, after)
  <2>1. Pairs(A \ B, after) \cup Pairs(changed, after) = Pairs(come, after)
    BY DEF Pairs
  <2> HIDE DEF come
  <2> QED
    BY <1>3, <1>6, <2>1
<1>9. Pairs(same, after) \cup Pairs(come, after) = Pairs(A, after)
  <2>1. Pairs(same, after) \cup Pairs(come, after) = Pairs(same \cup come, after)
    BY DEF Pairs
  <2> HIDE DEF come
  <2> QED
    BY <1>2, <2>1
<1> HIDE DEF come
<1> QED
  BY <1>1, <1>4, <1>5, <1>7, <1>8, <1>9 DEF delta

LEMMA ReversedBetween ==
  ASSUME NEW before, NEW after
  PROVE  Between(after, before) = Reversed(Between(before, after))
<1> DEFINE delta == Between(before, after)
<1>1. Changed(after, before) = Changed(before, after) /\ Unchanged(after, before) = Unchanged(before, after)
  BY DEF Changed, Unchanged
<1>2. delta = [added |-> Pairs(DOMAIN after \ DOMAIN before, after),
               removed |-> Pairs(DOMAIN before \ DOMAIN after, before),
               changed |-> Triples(Changed(before, after), before, after), unchanged |-> Unchanged(before, after)]
  BY BetweenParts
<1>3. Between(after, before) =
        [added |-> Pairs(DOMAIN before \ DOMAIN after, before),
         removed |-> Pairs(DOMAIN after \ DOMAIN before, after),
         changed |-> Triples(Changed(before, after), after, before), unchanged |-> Unchanged(before, after)]
  BY <1>1, BetweenParts
<1>4. Swapped(Triples(Changed(before, after), before, after)) = Triples(Changed(before, after), after, before)
  BY Projections
<1> HIDE DEF delta
<1>5. Reversed(delta) = [added |-> delta.removed, removed |-> delta.added,
                         changed |-> Swapped(delta.changed), unchanged |-> delta.unchanged]
  BY DEF Reversed, Swapped
<1> QED
  BY <1>2, <1>3, <1>4, <1>5 DEF delta

DeltasAreExact ==
  \A one \in OfKind("diff") :
    /\ Applied(one.delta, Evaluated(one.before)) = Evaluated(one.after)
    /\ \A other \in OfKind("diff") :
         /\ Evaluated(other.before) = Evaluated(one.before) /\ Evaluated(other.after) = Evaluated(one.after)
              => other.delta = one.delta
         /\ Evaluated(other.before) = Evaluated(one.after) /\ Evaluated(other.after) = Evaluated(one.before)
              => other.delta = Reversed(one.delta)

\* A delta loses nothing: from the statuses of the earlier scan it gives those
\* of the later one.  It depends on the statuses in the two scans alone, not on
\* the definitions files, the mappings or the findings of the artifacts, and the
\* delta in the other direction is its reverse (diff.py:71-90).
THEOREM DeltasExact == Spec => []DeltasAreExact
<1>1. ASSUME IInv, NEW one \in OfKind("diff")
      PROVE  \E f, g : /\ IsStatus(f) /\ IsStatus(g)
                       /\ Evaluated(one.before) = Graph(f) /\ Evaluated(one.after) = Graph(g)
                       /\ one.delta = Between(f, g)
  <2>1. PICK prior \in Artifacts, current \in Artifacts : one = DeltaOf(prior, current)
    BY <1>1, Outputs DEF IsDelta
  <2>2. one.before = prior /\ one.after = current /\ one.delta = Delta(prior.doc, current.doc)
    BY <2>1 DEF DeltaOf
  <2>3. one.delta = Between(StatusByDefinition(prior.doc), StatusByDefinition(current.doc))
    BY <2>2 DEF Delta, Between
  <2> QED
    BY <1>1, <2>2, <2>3, GraphOfScan
<1>2. ASSUME IInv, NEW one \in OfKind("diff")
      PROVE  Applied(one.delta, Evaluated(one.before)) = Evaluated(one.after)
  BY <1>1, <1>2, AppliedBetween
<1>3. ASSUME IInv, NEW one \in OfKind("diff"), NEW other \in OfKind("diff")
      PROVE  /\ Evaluated(other.before) = Evaluated(one.before) /\ Evaluated(other.after) = Evaluated(one.after)
                  => other.delta = one.delta
             /\ Evaluated(other.before) = Evaluated(one.after) /\ Evaluated(other.after) = Evaluated(one.before)
                  => other.delta = Reversed(one.delta)
  <2>1. PICK f, g : /\ IsStatus(f) /\ IsStatus(g)
                    /\ Evaluated(one.before) = Graph(f) /\ Evaluated(one.after) = Graph(g)
                    /\ one.delta = Between(f, g)
    BY <1>1, <1>3
  <2>2. PICK h, i : /\ IsStatus(h) /\ IsStatus(i)
                    /\ Evaluated(other.before) = Graph(h) /\ Evaluated(other.after) = Graph(i)
                    /\ other.delta = Between(h, i)
    BY <1>1, <1>3
  <2>3. ASSUME Evaluated(other.before) = Evaluated(one.before), Evaluated(other.after) = Evaluated(one.after)
        PROVE  other.delta = one.delta
    <3>1. h = f /\ i = g
      BY <2>1, <2>2, <2>3, SameGraph
    <3> QED
      BY <2>1, <2>2, <3>1
  <2>4. ASSUME Evaluated(other.before) = Evaluated(one.after), Evaluated(other.after) = Evaluated(one.before)
        PROVE  other.delta = Reversed(one.delta)
    <3>1. h = g /\ i = f
      BY <2>1, <2>2, <2>4, SameGraph
    <3> QED
      BY <2>1, <2>2, <3>1, ReversedBetween
  <2> QED
    BY <2>3, <2>4
<1>4. IInv => DeltasAreExact
  BY <1>2, <1>3 DEF DeltasAreExact
<1> QED
  BY <1>4, Invariance, PTL
=============================================================================
