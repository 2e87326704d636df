---------------------------- MODULE XccdfEvidence ----------------------------
(***************************************************************************)
(* What the XCCDF commands say about the evidence: convert-xccdf,          *)
(* convert-arf-xccdf, mapping-report-xccdf and inspect-evidence, as a      *)
(* growing archive of the outputs of successful runs.                      *)
(*                                                                         *)
(* An XCCDF document is [benchmark, tests]: the identifier of its root and *)
(* its TestResults, each [id, benchmark, rules] where benchmark is None or *)
(* the identifier its own benchmark element has, as <<id>>, perhaps        *)
(* <<None>>, and rules is a sequence of [idref, result].  An ARF document  *)
(* is as in ArfIntake; the payload of a report has its rule-results or     *)
(* definition results besides, as `rules`.                                 *)
(*                                                                         *)
(* A document stands for its own hash, and the sequence of hashed parts    *)
(* for the UUID.  Parts of evidence identifiers are joined by "#", which   *)
(* the identifiers themselves cannot contain.  The names of the files,     *)
(* which no identifier hashes, are in the resources and in no observation  *)
(* or finding, and are left out.                                           *)
(***************************************************************************)
EXTENDS ArfIntake, FiniteSets

CONSTANTS
  XccdfDocs,
  ArfDocs,
  MappingDocs,  \* sequences of [benchmark, rule, target, outcomes]
  MaxRuns       \* bound on the outputs of the archive

\* What the parsers make of a document: sequences of records of its kind.
ASSUME DocumentsAssumption ==
  /\ XccdfDocs \cap ArfDocs = {}
  /\ \A doc \in XccdfDocs :
       /\ doc.tests \in Seq(ToSet(doc.tests))
       /\ \A test \in ToSet(doc.tests) :
            /\ test = [id |-> test.id, benchmark |-> test.benchmark, rules |-> test.rules]
            /\ test.rules \in Seq(ToSet(test.rules))
  /\ \A m \in MappingDocs :
       /\ m \in Seq(ToSet(m))
       /\ \A entry \in ToSet(m) : entry.target = [type |-> entry.target.type, id |-> entry.target.id]
  /\ \A arf \in ArfDocs :
       /\ IsOrdered(arf)
       /\ \A report \in ToSet(arf.reports) : report.payload.rules \in Seq(ToSet(report.payload.rules))

ValidRuleResults ==
  {"pass", "fail", "error", "unknown", "notapplicable", "notchecked", "notselected",
   "informational", "fixed"}

VARIABLE outputs

OfKind(kind) == {output \in outputs : output.kind = kind}

-----------------------------------------------------------------------------
(* Intake: inspect_xccdf and parse_mapping.                                *)

\* An element without an id is a reference too: the root is not fallen back on.
BenchmarkOf(doc, test) == IF test.benchmark = None THEN doc.benchmark ELSE test.benchmark[1]

\* Faulty variant: the outcomes are not checked.
AnyOutcomeAccepted(rules) == IsInjective([k \in DOMAIN rules |-> rules[k].idref])

RuleResultsAccepted(rules) ==
  /\ IsInjective([k \in DOMAIN rules |-> rules[k].idref])
  /\ \A k \in DOMAIN rules : rules[k].result \in ValidRuleResults

XccdfAccepted(doc) ==
  /\ doc.tests # <<>>
  /\ IsInjective(IdsOf(doc.tests))
  /\ \A k \in DOMAIN doc.tests : RuleResultsAccepted(doc.tests[k].rules)

\* The inventory's test-results.
TestResults(doc) ==
  [k \in DOMAIN doc.tests |-> [doc.tests[k] EXCEPT !.benchmark = BenchmarkOf(doc, doc.tests[k])]]

MappingAccepted(m) ==
  /\ \A k \in DOMAIN m : DOMAIN m[k].outcomes # {} /\ DOMAIN m[k].outcomes \subseteq ValidRuleResults
  /\ IsInjective([k \in DOMAIN m |-> <<m[k].benchmark, m[k].rule, m[k].target>>])

-----------------------------------------------------------------------------
(* Conversion: assessment_results over an inventory, from_arf over one of  *)
(* the single TestResult report of a collection.                           *)

RunId(source, m) == <<source, m>>

\* Faulty variant: the TestResult does not enter the identifier.
RuleObservationId(run, test, rule) == <<run, rule.idref>>

ObservationId(run, test, rule) == <<run, test.id, rule.idref>>

\* Faulty variant: any benchmark's rule of that name is the mapped one.
AppliesToRule(entry, test, rule) ==
  entry.rule = rule.idref /\ rule.result \in DOMAIN entry.outcomes

Applies(entry, test, rule) ==
  /\ entry.benchmark = test.benchmark /\ entry.rule = rule.idref
  /\ rule.result \in DOMAIN entry.outcomes

Observation(run, source, test, rule, provenance) ==
  [uuid |-> ObservationId(run, test, rule), benchmark |-> test.benchmark, test |-> test.id,
   rule |-> rule.idref, result |-> rule.result, evidence |-> <<source>>, provenance |-> provenance]

Finding(run, m, test, rule, entry) ==
  [uuid |-> <<run, rule.idref, entry.target.type, entry.target.id>>,
   rule |-> rule.idref, result |-> rule.result, mapping |-> m,
   observation |-> ObservationId(run, test, rule),
   target |-> entry.target, status |-> entry.outcomes[rule.result]]

FindingsOf(run, m, test, rule) ==
  FlatMap(LAMBDA entry : IF Applies(entry, test, rule) THEN <<Finding(run, m, test, rule, entry)>>
                                                       ELSE <<>>, m)

AssessmentResults(source, tests, m, provenance) ==
  LET run == RunId(source, m)
  IN [uuid |-> run,
      resources |-> <<<<source>>, <<m>>>>,
      observations |-> FlatMap(LAMBDA test : [k \in DOMAIN test.rules |->
                         Observation(run, source, test, test.rules[k], provenance)], tests),
      findings |-> FlatMap(LAMBDA test : FlatMap(LAMBDA rule :
                         FindingsOf(run, m, test, rule), test.rules), tests)]

TestReports(arf) ==
  Where(LAMBDA report : report.payload.kind = "TestResult", Manifest(arf))

\* Faulty variant: the first of several reports is converted.
FirstReportConverts(arf) == TestReports(arf) # <<>>

ExactlyOneReport(arf) == Len(TestReports(arf)) = 1

\* The parts of an identifier are joined: one that is missing, as inspect_arf
\* lets it be, ends the conversion.
Joinable(test) == \A k \in DOMAIN test.rules : test.id # None /\ test.rules[k].idref # None

FromArf(arf, m) ==
  LET report == TestReports(arf)[1]
  IN AssessmentResults(arf, <<report.payload>>, m,
       [report |-> report.id, asset |-> report.linkage.asset,
        collection |-> report.linkage.collection, content |-> report.payload])

-----------------------------------------------------------------------------
(* mapping_report, its sorted list of stale keys as a set.                 *)

\* Faulty variant: the report looks entries up by rule alone.
EntriesOfRule(m, test, rule) == Where(LAMBDA entry : AppliesToRule(entry, test, rule), m)

ApplicableEntries(m, test, rule) == Where(LAMBDA entry : Applies(entry, test, rule), m)

MappingReport(tests, m) ==
  LET Records(test) ==
        [k \in DOMAIN test.rules |->
          [benchmark |-> test.benchmark, rule |-> test.rules[k].idref,
           result |-> test.rules[k].result,
           targets |-> LET entries == ApplicableEntries(m, test, test.rules[k])
                       IN [n \in DOMAIN entries |->
                            [target |-> entries[n].target,
                             status |-> entries[n].outcomes[test.rules[k].result]]]]]
      records == FlatMap(Records, tests)
      known == {<<record.benchmark, record.rule>> : record \in ToSet(records)}
  IN [mapped |-> Where(LAMBDA record : record.targets # <<>>, records),
      unmapped |-> Where(LAMBDA record : record.targets = <<>>, records),
      stale |-> {<<m[k].benchmark, m[k].rule>> : k \in DOMAIN m} \ known]

-----------------------------------------------------------------------------
(* The evidence contract: normalize_xccdf and normalize_arf.               *)

Assertion(execution, rule, evidence, report, collection) ==
  [id |-> Append(execution, rule.idref), execution |-> execution, native |-> rule.idref,
   status |-> rule.result, evidence |-> evidence, report |-> report, collection |-> collection]

NormalizeXccdf(doc) ==
  LET tests == TestResults(doc)
  IN [sources |-> <<<<doc>>>>,
      executions |-> [k \in DOMAIN tests |->
        [id |-> <<doc, tests[k].id>>, source |-> <<doc>>, native |-> tests[k].id, asset |-> None]],
      assertions |-> FlatMap(LAMBDA test : [k \in DOMAIN test.rules |->
        Assertion(<<doc, test.id>>, test.rules[k], {<<doc>>}, None, None)], tests)]

NativeId(report) == IF report.payload.kind = "TestResult" THEN report.payload.id ELSE "oval-results"

\* Faulty variant: reports that are evaluated are not listed as sources.
EnvelopeSourcesOfOthers(arf) ==
  <<<<arf>>>> \o FlatMap(LAMBDA report :
    IF report.payload.kind = "TestResult" THEN <<>> ELSE <<<<arf, report.id>>>>, Manifest(arf))

EnvelopeSources(arf) ==
  <<<<arf>>>> \o [k \in DOMAIN Manifest(arf) |-> <<arf, Manifest(arf)[k].id>>]

NormalizeArf(arf) ==
  LET evaluated == Where(LAMBDA report : report.payload.kind \in {"TestResult", "oval_results"},
                         Manifest(arf))
      Execution(report) == <<arf, report.id, NativeId(report)>>
  IN [sources |-> EnvelopeSources(arf),
      executions |-> [k \in DOMAIN evaluated |->
        [id |-> Execution(evaluated[k]), source |-> <<arf, evaluated[k].id>>,
         native |-> NativeId(evaluated[k]), asset |-> evaluated[k].linkage.asset]],
      assertions |-> FlatMap(LAMBDA report : [k \in DOMAIN report.payload.rules |->
        Assertion(Execution(report), report.payload.rules[k], {<<arf>>, <<arf, report.id>>},
                  report.id, report.linkage.collection)], evaluated)]

-----------------------------------------------------------------------------
Init == outputs = {}

Emit(output) == outputs' = outputs \cup {output}

Artifact(kind, source, m, doc) == [kind |-> kind, source |-> source, mapping |-> m, doc |-> doc]

ConvertXccdf(doc, m) ==
  /\ XccdfAccepted(doc) /\ MappingAccepted(m)
  /\ Emit(Artifact("xccdf", doc, m, AssessmentResults(doc, TestResults(doc), m, None)))

ConvertArfXccdf(arf, m) ==
  /\ ArfAccepted(arf) /\ MappingAccepted(m) /\ ExactlyOneReport(arf)
  /\ Joinable(TestReports(arf)[1].payload)
  /\ Emit(Artifact("arf", arf, m, FromArf(arf, m)))

ReportXccdf(doc, m) ==
  /\ XccdfAccepted(doc) /\ MappingAccepted(m)
  /\ Emit(Artifact("mapping-report", doc, m, MappingReport(TestResults(doc), m)))

InspectEvidence ==
  \/ \E doc \in XccdfDocs :
       XccdfAccepted(doc) /\ Emit([kind |-> "envelope", source |-> doc, doc |-> NormalizeXccdf(doc)])
  \/ \E arf \in ArfDocs :
       ArfAccepted(arf) /\ Emit([kind |-> "envelope", source |-> arf, doc |-> NormalizeArf(arf)])

Next ==
  /\ Cardinality(outputs) < MaxRuns
  /\ \/ \E doc \in XccdfDocs, m \in MappingDocs : ConvertXccdf(doc, m) \/ ReportXccdf(doc, m)
     \/ \E arf \in ArfDocs, m \in MappingDocs : ConvertArfXccdf(arf, m)
     \/ InspectEvidence

Spec == Init /\ [][Next]_outputs

-----------------------------------------------------------------------------
(* Properties.                                                             *)

Artifacts == OfKind("xccdf") \cup OfKind("arf")
RulesOf(tests) == FlatMap(LAMBDA test : [k \in DOMAIN test.rules |->
                    <<test.id, test.rules[k].idref, test.rules[k].result>>], tests)
Observed(doc) == [k \in DOMAIN doc.observations |->
  <<doc.observations[k].test, doc.observations[k].rule, doc.observations[k].result>>]

\* Outputs have their shape, and from an XCCDF file (xccdf.py:79) only the nine
\* outcomes reach them; an embedded TestResult may say anything (arf.py:168).
TypeOK ==
  \A output \in outputs :
    /\ output.kind \in {"xccdf", "arf", "mapping-report", "envelope"}
    /\ output.kind = "xccdf" =>
         \A o \in ToSet(output.doc.observations) : o.result \in ValidRuleResults
    /\ output.kind \in {"xccdf", "arf"} =>
         \A f \in ToSet(output.doc.findings) : f.result \in ValidRuleResults

\* Findings are exactly what the mapping says of each TestResult: one for each
\* entry of that result's benchmark and rule whose outcome the author decided,
\* pointing at the observation with that outcome; none for a rule of the same
\* name in another benchmark, an undecided or an unknown outcome ("Only an
\* authored mapping may create an OSCAL finding",
\* docs/v0.2-cross-format-evidence-contract.md:21; xccdf_convert.py:29-38).
FindingsAreAuthored ==
  \A artifact \in Artifacts :
    LET m == artifact.mapping
        doc == artifact.doc
        Backs(o, f) == o.uuid = f.observation /\ o.rule = f.rule /\ o.result = f.result
        Decided(entry, o) == /\ entry.benchmark = o.benchmark /\ entry.rule = o.rule
                             /\ o.result \in DOMAIN entry.outcomes
    IN /\ \A f \in ToSet(doc.findings) : \E o \in ToSet(doc.observations), k \in DOMAIN m :
            /\ Backs(o, f) /\ Decided(m[k], o)
            /\ f.target = m[k].target /\ f.status = m[k].outcomes[o.result]
       /\ \A o \in ToSet(doc.observations), k \in DOMAIN m :
            Decided(m[k], o) => \E f \in ToSet(doc.findings) :
              Backs(o, f) /\ f.target = m[k].target

\* In the archive an observation UUID means one rule of one TestResult of one
\* file under one mapping, across files, edited mappings and a file's several
\* TestResults.  In an artifact of an XCCDF file it means one observation; in
\* that of an ARF collection, whose rule-results are not checked (arf.py:166),
\* those that repeat a rule share theirs and differ in the outcome alone.  A
\* finding UUID means one rule, target, file and mapping
\* (xccdf_convert.py:32-38).
UuidsIdentifyEvidence ==
  \A one, other \in Artifacts :
    /\ \A k \in DOMAIN one.doc.observations, n \in DOMAIN other.doc.observations :
         LET x == one.doc.observations[k]
             y == other.doc.observations[n]
         IN x.uuid = y.uuid =>
              /\ one = other
              /\ x.rule = y.rule /\ x.test = y.test /\ x.benchmark = y.benchmark
              /\ x.evidence = y.evidence /\ x.provenance = y.provenance
              /\ one.kind = "xccdf" => k = n
    /\ \A x \in ToSet(one.doc.findings), y \in ToSet(other.doc.findings) :
         x.uuid = y.uuid =>
           one = other /\ x.rule = y.rule /\ x.target = y.target /\ x.mapping = y.mapping

\* mapping-report-xccdf and convert-xccdf, two runs by different code, agree on
\* the same two files: every rule result is in one of the lists, the targets of
\* the mapped ones are the findings, no observation of an unmapped one backs a
\* finding, and nothing observed is called stale (xccdf_mapping.py:64-79).
ReportCoversArtifact ==
  \A report \in OfKind("mapping-report"), artifact \in OfKind("xccdf") :
    report.source = artifact.source /\ report.mapping = artifact.mapping =>
      LET mapped == report.doc.mapped
          targets == FlatMap(LAMBDA record : record.targets, mapped)
          doc == artifact.doc
          Key(record) == <<record.benchmark, record.rule, record.result>>
      IN /\ {Key(r) : r \in ToSet(mapped) \cup ToSet(report.doc.unmapped)}
               = {Key(o) : o \in ToSet(doc.observations)}
         /\ Len(mapped) + Len(report.doc.unmapped) = Len(doc.observations)
         /\ targets = [k \in DOMAIN doc.findings |->
                         [target |-> doc.findings[k].target, status |-> doc.findings[k].status]]
         /\ \A o \in ToSet(doc.observations) :
              /\ <<o.benchmark, o.rule>> \notin report.doc.stale
              /\ Key(o) \in {Key(r) : r \in ToSet(report.doc.unmapped)} =>
                   \A f \in ToSet(doc.findings) : f.observation # o.uuid

\* An ARF collection is converted whole: it has one TestResult report, every
\* rule result of that one is in the artifact and nothing else, and what the
\* artifact says of report, asset and collection the relationships of the
\* document state, in which no other collection is named ("accepts exactly one
\* authoritatively linked XCCDF report",
\* docs/v0.2-cross-format-evidence-contract.md:34-36; xccdf_convert.py:44-56).
ArfIsConvertedWhole ==
  \A artifact \in OfKind("arf") :
    LET arf == artifact.source
    IN \E report \in ToSet(arf.reports) :
         /\ {other \in ToSet(arf.reports) : other.payload.kind = "TestResult"} = {report}
         /\ Observed(artifact.doc) = RulesOf(<<report.payload>>)
         /\ \A o \in ToSet(artifact.doc.observations) :
              /\ o.provenance.report = report.id /\ o.provenance.content = report.payload
              /\ Asserted(arf, "arfvocab:createdFor", report.id) = {o.provenance.collection}
              /\ o.provenance.asset \in Asserted(arf, "arfrel:isAbout", report.id)
                                          \cup Asserted(arf, "arfvocab:isAbout", report.id)

\* An evidence envelope is closed: sources and executions have identifiers of
\* their own and every reference names one that is listed; and it states the
\* results that the artifact of the same file states (evidence.py:11-53).
EnvelopesAreClosed ==
  \A output \in OfKind("envelope") :
    LET doc == output.doc
        sources == ToSet(doc.sources)
        executions == ToSet(doc.executions)
        TestOf(assertion) ==
          (CHOOSE execution \in executions : execution.id = assertion.execution).native
    IN /\ IsInjective(doc.sources) /\ IsInjective(IdsOf(doc.executions))
       /\ \A execution \in executions : execution.source \in sources
       /\ \A assertion \in ToSet(doc.assertions) :
            /\ assertion.evidence # {} /\ assertion.evidence \subseteq sources
            /\ assertion.execution \in ToSet(IdsOf(doc.executions))
       /\ \A artifact \in {a \in Artifacts : a.source = output.source} :
            \A o \in ToSet(artifact.doc.observations) :
              \E assertion \in ToSet(doc.assertions) :
                /\ <<TestOf(assertion), assertion.native, assertion.status>> = <<o.test, o.rule, o.result>>
                /\ artifact.kind = "arf" =>
                     assertion.report = o.provenance.report /\ assertion.collection = o.provenance.collection

\* What the OSCAL schema says of a finding's UUID: "A machine-oriented, globally
\* unique identifier" (src/endeavor/schemas/oscal-1.2.0/assessment-results.schema.json:1921).
FindingUuidsAreUnique ==
  \A artifact \in OfKind("xccdf") :
    IsInjective([k \in DOMAIN artifact.doc.findings |-> artifact.doc.findings[k].uuid])
=============================================================================
