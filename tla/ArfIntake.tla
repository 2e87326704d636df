------------------------------ MODULE ArfIntake ------------------------------
(***************************************************************************)
(* inspect_arf: which reports of an ARF collection have an authoritative   *)
(* collection and asset, and what the collection's data streams resolve to *)
(* locally.                                                                *)
(*                                                                         *)
(* An ARF document is [assets, reports, requests, relationships], each a   *)
(* sequence in document order.  A report has an id and one payload; a      *)
(* request has an id, components and streams of component references.  A   *)
(* payload is [kind, id, items, benchmark, profile]: items are its         *)
(* definition identifiers or its profiles, profile is the one a TestResult *)
(* names, if any.  A component that holds a comment and no element has a   *)
(* payload of kind "comment"; the ARF schema wants an element in a report. *)
(***************************************************************************)
EXTENDS Naturals, Sequences, SequencesExt

CONSTANT None

FlatMap(Op(_), seq) == FlattenSeq([k \in DOMAIN seq |-> Op(seq[k])])

\* SelectSeq, in terms a proof can open.
Where(Test(_), seq) == FlatMap(LAMBDA item : IF Test(item) THEN <<item>> ELSE <<>>, seq)

Having(seq, id) == Where(LAMBDA item : item.id = id, seq)
IdsOf(seq) == [k \in DOMAIN seq |-> seq[k].id]
Count(seq, value) == Len(Where(LAMBDA item : item = value, seq))

\* The parts of a document are in document order.
IsOrdered(arf) ==
  /\ arf.reports \in Seq(ToSet(arf.reports))
  /\ \A report \in ToSet(arf.reports) : report.payload.items \in Seq(ToSet(report.payload.items))
  /\ arf.relationships \in Seq(ToSet(arf.relationships))
  /\ \A rel \in ToSet(arf.relationships) : rel.refs \in Seq(ToSet(rel.refs))
  /\ arf.requests \in Seq(ToSet(arf.requests))
  /\ \A request \in ToSet(arf.requests) :
       /\ request.components \in Seq(ToSet(request.components))
       /\ \A component \in ToSet(request.components) :
            component.payload.items \in Seq(ToSet(component.payload.items))
       /\ request.streams \in Seq(ToSet(request.streams))
       /\ \A stream \in ToSet(request.streams) : stream.refs \in Seq(ToSet(stream.refs))

-----------------------------------------------------------------------------
(* Report requests: _collection_manifest.                                  *)

\* The component references of all streams, in the order they are followed.
References(request) == FlattenSeq([k \in DOMAIN request.streams |-> request.streams[k].refs])

\* The payloads the streams of a request refer to, once for each reference.
Checklists(request) ==
  LET refs == References(request)
  IN [k \in DOMAIN refs |-> Having(request.components, refs[k].component)[1].payload]

CollectionAccepted(request) ==
  /\ IsInjective(IdsOf(request.components))
  /\ request.streams # <<>>
  /\ \A stream \in ToSet(request.streams) : \A ref \in ToSet(stream.refs) :
       ref.component \in ToSet(IdsOf(request.components))
  /\ \A payload \in ToSet(Checklists(request)) : payload.kind # "comment"

\* A reference leads to a component that holds nothing but a comment, of which
\* ET.QName raises a ValueError, and none before it is refused.
CollectionRaises(request) ==
  /\ IsInjective(IdsOf(request.components))
  /\ \E k \in DOMAIN References(request) :
       /\ \A j \in 1..k : References(request)[j].component \in ToSet(IdsOf(request.components))
       /\ Checklists(request)[k].kind = "comment"

-----------------------------------------------------------------------------
(* Relationships: _single_relationship and the choice of a vocabulary.     *)

Relations(arf, type, subject) ==
  Where(LAMBDA rel : rel.type = type /\ rel.subject = subject, arf.relationships)

\* Faulty variant: the first relationship is taken for the only one.
FirstRelation(arf, type, subject) ==
  LET matches == Relations(arf, type, subject)
  IN Len(matches) >= 1 /\ Len(matches[1].refs) >= 1

SingleRelation(arf, type, subject) ==
  LET matches == Relations(arf, type, subject)
  IN Len(matches) = 1 /\ Len(matches[1].refs) = 1

Related(arf, type, subject) == Relations(arf, type, subject)[1].refs[1]

\* The first of the two vocabularies that says anything of the report.
AssetRelation(arf, subject) ==
  IF Relations(arf, "arfrel:isAbout", subject) # <<>> THEN "arfrel:isAbout" ELSE "arfvocab:isAbout"

-----------------------------------------------------------------------------
(* Reports: _linked_xccdf_result, _oval_result and inspect_arf.            *)

BenchmarkLinked(request, result) ==
  LET matches == Where(LAMBDA payload : payload.kind = "Benchmark" /\ payload.id = result.benchmark,
                       Checklists(request))
  IN /\ Len(matches) = 1
     /\ result.profile # None => Count(matches[1].items, result.profile) = 1

TestResultAccepted(arf, report) ==
  /\ SingleRelation(arf, "arfvocab:createdFor", report.id)
  /\ SingleRelation(arf, AssetRelation(arf, report.id), report.id)
  /\ LET collection == Related(arf, "arfvocab:createdFor", report.id)
         asset == Related(arf, AssetRelation(arf, report.id), report.id)
     IN /\ collection \in ToSet(IdsOf(arf.requests))
        /\ asset \in ToSet(arf.assets)
        /\ BenchmarkLinked(Having(arf.requests, collection)[1], report.payload)

ReportAccepted(arf, report) ==
  /\ report.payload.kind = "TestResult" => TestResultAccepted(arf, report)
  /\ report.payload.kind = "oval_results" =>
       report.payload.items # <<>> /\ IsInjective(report.payload.items)

ArfAccepted(arf) ==
  /\ IsInjective(arf.assets)
  /\ IsInjective(IdsOf(arf.reports) \o IdsOf(arf.requests))
  /\ \A request \in ToSet(arf.requests) : CollectionAccepted(request)
  /\ \A report \in ToSet(arf.reports) : ReportAccepted(arf, report)

\* Neither inspect_arf nor main catches the ValueError, which is raised if the
\* comment is met before anything that is refused.
IntakeRaises(arf) ==
  /\ IsInjective(arf.assets)
  /\ \E k \in DOMAIN arf.requests :
       /\ IsInjective(IdsOf(arf.reports) \o IdsOf(SubSeq(arf.requests, 1, k)))
       /\ \A j \in 1..(k - 1) : CollectionAccepted(arf.requests[j])
       /\ CollectionRaises(arf.requests[k])

\* What the manifest says of a report: the collection and the asset of a
\* TestResult, nothing of any other.
Linkage(arf, report) ==
  IF report.payload.kind = "TestResult"
    THEN [collection |-> Related(arf, "arfvocab:createdFor", report.id),
          asset |-> Related(arf, AssetRelation(arf, report.id), report.id)]
    ELSE [collection |-> None, asset |-> None]

Manifest(arf) ==
  [k \in DOMAIN arf.reports |->
     [id |-> arf.reports[k].id, payload |-> arf.reports[k].payload,
      linkage |-> Linkage(arf, arf.reports[k])]]

-----------------------------------------------------------------------------
(* For properties: what the document itself says.                          *)

\* What all relationships of a type say of a report.
Asserted(arf, type, subject) ==
  UNION {ToSet(rel.refs) : rel \in {rel \in ToSet(arf.relationships) :
                                      rel.type = type /\ rel.subject = subject}}
=============================================================================
