---------------------------- MODULE OvalEvidence ----------------------------
(***************************************************************************)
(* What the OVAL commands say about the evidence: convert, mapping-report, *)
(* diff and findings, as a growing archive of the outputs of successful    *)
(* runs over any documents and any earlier outputs.  How an output reaches *)
(* the disk is the matter of ArtifactPublication.                          *)
(*                                                                         *)
(* A document is a record of what its parser takes from it.  Distinct      *)
(* documents have distinct SHA-256 hashes, so a document stands for its    *)
(* own hash, and uuid5 is injective, so the sequence of the parts that are *)
(* hashed stands for the UUID.  A rejected run adds no output.  The names  *)
(* of the input files are published in the artifact and in the reports;    *)
(* the model keeps them in the artifact, where they meet the UUIDs.        *)
(***************************************************************************)
EXTENDS FiniteSets, Sequences, SequencesExt

CONSTANTS
  ResultsDocs,      \* [version, timestamp, entries: sequence of [id, result]]
  DefinitionsDocs,  \* [version, ids: sequence of definition identifiers]
  MappingDocs,      \* [entries: sequence of [id, target, outcomes]]
  FileNames,        \* [results, definitions, mapping]: what the files are called
  MaxRuns,          \* bound on conversions and mapping reports
  MaxReviews,       \* bound on deltas and inventories
  None              \* no --mapping

ValidResults == {"true", "false", "unknown", "error", "not evaluated", "not applicable"}
Outcomes == {"true", "false"}

\* What the parsers make of a document is a record of its kind; no identifier
\* is the constant that convert.py:113 hashes for the result.
ASSUME DocumentsAssumption ==
  /\ \A r \in ResultsDocs :
       /\ r.entries \in Seq(ToSet(r.entries))
       /\ \A e \in ToSet(r.entries) : e = [id |-> e.id, result |-> e.result] /\ e.id # "result"
  /\ \A m \in MappingDocs :
       /\ m.entries \in Seq(ToSet(m.entries))
       /\ \A e \in ToSet(m.entries) :
            /\ e.target = [type |-> e.target.type, identifier |-> e.target.identifier]
            /\ \A o \in DOMAIN e.outcomes :
                 e.outcomes[o] = [state |-> e.outcomes[o].state, reason |-> e.outcomes[o].reason]
  /\ ResultsDocs \cap DefinitionsDocs = {} /\ ResultsDocs \cap MappingDocs = {}
  /\ DefinitionsDocs \cap MappingDocs = {} /\ None \notin MappingDocs

VARIABLE outputs

Ids(entries) == {entries[k].id : k \in DOMAIN entries}
OfKind(kind) == {output \in outputs : output.kind = kind}

-----------------------------------------------------------------------------
(* The parsers.                                                            *)

\* Faulty variant: the statuses are not checked.
AnyResultAccepted(r) ==
  r.entries # <<>> /\ IsInjective([k \in DOMAIN r.entries |-> r.entries[k].id])

ResultsAccepted(r) ==
  /\ r.entries # <<>>
  /\ \A k \in DOMAIN r.entries : r.entries[k].result \in ValidResults
  /\ IsInjective([k \in DOMAIN r.entries |-> r.entries[k].id])

DefinitionsAccepted(d) == d.ids # <<>> /\ IsInjective(d.ids)

\* Faulty variant: a target may be given twice to one definition.
DuplicatesAccepted(m) ==
  \A k \in DOMAIN m.entries : DOMAIN m.entries[k].outcomes # {} /\ DOMAIN m.entries[k].outcomes \subseteq Outcomes

MappingAccepted(m) ==
  /\ \A k \in DOMAIN m.entries : DOMAIN m.entries[k].outcomes # {} /\ DOMAIN m.entries[k].outcomes \subseteq Outcomes
  /\ IsInjective([k \in DOMAIN m.entries |-> <<m.entries[k].id, m.entries[k].target>>])

-----------------------------------------------------------------------------
(* convert: assessment_results.                                            *)

\* Faulty variant: the run is not identified by its mapping.
UnmappedRunId(r, d, m) == <<r, d, r.timestamp>>

RunId(r, d, m) == <<r, d, r.timestamp>> \o (IF m = None THEN <<>> ELSE <<m>>)

Observation(run, r, d, source) ==
  [uuid |-> <<run, source.id>>, id |-> source.id, result |-> source.result,
   evidence |-> {<<r>>, <<d>>}]

Finding(run, m, source, entry) ==
  LET status == entry.outcomes[source.result]
  IN [uuid |-> <<run, source.id, entry.target.type, entry.target.identifier,
                 status.state, status.reason>>,
      id |-> source.id, result |-> source.result, mapping |-> m,
      observation |-> <<run, source.id>>,
      target |-> entry.target, status |-> status]

\* Faulty variant: a status the author gave no outcome for counts as false.
CollapsingFindingsOf(run, m, source) ==
  LET As(entry) == IF source.result \in DOMAIN entry.outcomes THEN source.result ELSE "false"
      matching == SelectSeq(m.entries, LAMBDA entry : /\ entry.id = source.id
                                              /\ As(entry) \in DOMAIN entry.outcomes)
  IN [k \in DOMAIN matching |->
        Finding(run, m, [source EXCEPT !.result = As(matching[k])], matching[k])]

FindingsOf(run, m, source) ==
  LET Decided(entry) == entry.id = source.id /\ source.result \in DOMAIN entry.outcomes
  IN FlattenSeq([k \in DOMAIN m.entries |->
       IF Decided(m.entries[k]) THEN <<Finding(run, m, source, m.entries[k])>> ELSE <<>>])

\* The name of a source is in the title and the rlinks of its resource.
Resources(r, d, m, names) ==
  <<[uuid |-> <<r>>, name |-> names.results], [uuid |-> <<d>>, name |-> names.definitions]>>
    \o (IF m = None THEN <<>> ELSE <<[uuid |-> <<m>>, name |-> names.mapping]>>)

AssessmentResults(r, d, m, names) ==
  LET run == RunId(r, d, m)
  IN [uuid |-> run,
      resources |-> Resources(r, d, m, names),
      result |-> <<run, "result">>,
      observations |-> [k \in DOMAIN r.entries |-> Observation(run, r, d, r.entries[k])],
      findings |-> IF m = None THEN <<>>
                   ELSE FlattenSeq([k \in DOMAIN r.entries |-> FindingsOf(run, m, r.entries[k])])]

-----------------------------------------------------------------------------
(* mapping-report: mapping_report, its sorted lists as sets.               *)

\* Faulty variant: one entry per definition is remembered, the last.
LastTargetOf(m, id) ==
  LET mine == {k \in DOMAIN m.entries : m.entries[k].id = id}
  IN {m.entries[k].target : k \in {k \in mine : \A other \in mine : other <= k}}

TargetsOf(m, id) == {m.entries[k].target : k \in {k \in DOMAIN m.entries : m.entries[k].id = id}}

MappingReport(r, d, m) ==
  LET evaluated == {r.entries[k] : k \in DOMAIN r.entries}
  IN [mapped |-> {[id |-> e.id, result |-> e.result, targets |-> TargetsOf(m, e.id)] :
                    e \in {e \in evaluated : TargetsOf(m, e.id) # {}}},
      unmapped |-> {[id |-> e.id, result |-> e.result] :
                      e \in {e \in evaluated : TargetsOf(m, e.id) = {}}},
      stale |-> Ids(m.entries) \ ToSet(d.ids)]

-----------------------------------------------------------------------------
(* diff and findings, over artifacts convert has written.                  *)

\* Faulty variant: the statuses are taken from the findings.
MappedStatusByDefinition(doc) ==
  [id \in Ids(doc.findings) |->
     doc.findings[CHOOSE k \in DOMAIN doc.findings : doc.findings[k].id = id].result]

StatusByDefinition(doc) ==
  [id \in Ids(doc.observations) |->
     doc.observations[CHOOSE k \in DOMAIN doc.observations : doc.observations[k].id = id].result]

Delta(prior, current) ==
  LET before == StatusByDefinition(prior)
      after == StatusByDefinition(current)
      both == DOMAIN before \cap DOMAIN after
  IN [added |-> {<<id, after[id]>> : id \in DOMAIN after \ DOMAIN before},
      removed |-> {<<id, before[id]>> : id \in DOMAIN before \ DOMAIN after},
      changed |-> {<<id, before[id], after[id]>> : id \in {id \in both : before[id] # after[id]}},
      unchanged |-> {id \in both : before[id] = after[id]}]

Item(finding) ==
  [uuid |-> finding.uuid, id |-> finding.id, result |-> finding.result,
   target |-> finding.target, status |-> finding.status]

\* Faulty variant: the inventory is keyed by definition.
InventoryByDefinition(doc) ==
  LET items == {Item(doc.findings[k]) : k \in DOMAIN doc.findings}
      ids == {item.id : item \in items}
  IN {CHOOSE item \in items : item.id = id : id \in ids}

Inventory(doc) == {Item(doc.findings[k]) : k \in DOMAIN doc.findings}

-----------------------------------------------------------------------------
Init == outputs = {}

Sources(r, d, m) == [results |-> r, definitions |-> d, mapping |-> m]

Convert(r, d, m, names) ==
  /\ ResultsAccepted(r) /\ DefinitionsAccepted(d) /\ (m # None => MappingAccepted(m))
  /\ r.version = d.version
  /\ Ids(r.entries) \subseteq ToSet(d.ids)
  /\ outputs' = outputs \cup {[kind |-> "assessment-results", sources |-> Sources(r, d, m),
                               doc |-> AssessmentResults(r, d, m, names)]}

\* No check of versions; a definition that is absent is a KeyError.
Report(r, d, m) ==
  /\ ResultsAccepted(r) /\ DefinitionsAccepted(d) /\ MappingAccepted(m)
  /\ Ids(r.entries) \subseteq ToSet(d.ids)
  /\ outputs' = outputs \cup {[kind |-> "mapping-report", sources |-> Sources(r, d, m),
                               coverage |-> MappingReport(r, d, m)]}

Diff(prior, current) ==
  /\ IsInjective([k \in DOMAIN prior.doc.observations |-> prior.doc.observations[k].id])
  /\ IsInjective([k \in DOMAIN current.doc.observations |-> current.doc.observations[k].id])
  /\ outputs' = outputs \cup {[kind |-> "diff", before |-> prior, after |-> current,
                               delta |-> Delta(prior.doc, current.doc)]}

Findings(artifact) ==
  outputs' = outputs \cup {[kind |-> "findings", of |-> artifact,
                            count |-> Len(artifact.doc.findings),
                            items |-> Inventory(artifact.doc)]}

Artifacts == OfKind("assessment-results")

Next ==
  \/ /\ Cardinality(Artifacts \cup OfKind("mapping-report")) < MaxRuns
     /\ \E r \in ResultsDocs, d \in DefinitionsDocs :
          \/ \E m \in MappingDocs \cup {None}, names \in FileNames : Convert(r, d, m, names)
          \/ \E m \in MappingDocs : Report(r, d, m)
  \/ /\ Cardinality(OfKind("diff") \cup OfKind("findings")) < MaxReviews
     /\ \/ \E prior, current \in Artifacts : Diff(prior, current)
        \/ \E artifact \in Artifacts : Findings(artifact)

Spec == Init /\ [][Next]_outputs

-----------------------------------------------------------------------------
(* Properties.                                                             *)

\* Outputs have their shape, and only the six OVAL statuses reach them.
TypeOK ==
  \A output \in outputs :
    /\ output.kind \in {"assessment-results", "mapping-report", "diff", "findings"}
    /\ output.kind \in {"assessment-results", "mapping-report"} =>
         \A k \in DOMAIN output.sources.results.entries :
           output.sources.results.entries[k].result \in ValidResults
    /\ output.kind = "diff" => {output.before, output.after} \subseteq outputs
    /\ output.kind = "findings" => output.of \in outputs

ResourceUuids(doc) == [k \in DOMAIN doc.resources |-> doc.resources[k].uuid]

Uuids(doc) ==
  <<doc.uuid, doc.result>> \o ResourceUuids(doc)
    \o [k \in DOMAIN doc.observations |-> doc.observations[k].uuid]
    \o [k \in DOMAIN doc.findings |-> doc.findings[k].uuid]

\* No two objects of one artifact share a UUID ("globally unique" in the OSCAL
\* schema): the parts hashed in convert.py:38-112 tell apart whatever the
\* parsers let through.
UuidsAreUnique == \A artifact \in Artifacts : IsInjective(Uuids(artifact.doc))

\* A document but for what its source files were called.
Content(doc) == [doc EXCEPT !.resources = ResourceUuids(doc)]

\* In all the artifacts ever written, a UUID means one thing but for the names of
\* the source files: a second scan, a new definitions file or an edited mapping
\* never reuses the UUID of a document, an observation or a finding for other
\* evidence.  The names are published (convert.py:45-47 and 52-58) and never
\* hashed (convert.py:38, 42 and 51): the same files under other names make
\* another document with the UUIDs of the first.
UuidsIdentifyContent ==
  \A one, other \in Artifacts :
    /\ one.doc.uuid = other.doc.uuid => Content(one.doc) = Content(other.doc)
    /\ \A x \in ToSet(one.doc.observations), y \in ToSet(other.doc.observations) :
         x.uuid = y.uuid => x = y
    /\ \A x \in ToSet(one.doc.findings), y \in ToSet(other.doc.findings) :
         x.uuid = y.uuid => x = y

\* The author's outcome for this definition, target and status, if any.
Authored(m, id, target, result, status) ==
  \E k \in DOMAIN m.entries : /\ m.entries[k].id = id /\ m.entries[k].target = target
                      /\ result \in DOMAIN m.entries[k].outcomes
                      /\ m.entries[k].outcomes[result] = status

\* Findings are exactly what the mapping says of the scan: one for each
\* authored outcome of a definition's own status, none for any other status,
\* each pointing at the observation with that status ("Other OVAL statuses
\* remain observations only", docs/v0.2-oval-oscal-mapping.md:16-19).
FindingsAreAuthored ==
  \A artifact \in Artifacts :
    LET doc == artifact.doc
        m == artifact.sources.mapping
        scan == artifact.sources.results.entries
    IN /\ \A k \in DOMAIN doc.findings :
            LET f == doc.findings[k]
            IN /\ m # None /\ Authored(m, f.id, f.target, f.result, f.status)
               /\ \E n \in DOMAIN scan : scan[n] = [id |-> f.id, result |-> f.result]
               /\ \E o \in ToSet(doc.observations) :
                    o.uuid = f.observation /\ o.id = f.id /\ o.result = f.result
       /\ m # None => \A n \in DOMAIN scan, k \in DOMAIN m.entries :
            m.entries[k].id = scan[n].id /\ scan[n].result \in DOMAIN m.entries[k].outcomes =>
              \E f \in ToSet(doc.findings) : f.id = m.entries[k].id /\ f.target = m.entries[k].target

\* A delta of two artifacts is the delta of the two scans they were converted
\* from, whatever mappings and definitions were used: every definition of
\* either scan is in exactly the list that its two statuses call for.
Status(artifact, id) ==
  LET scan == artifact.sources.results.entries
      mine == {k \in DOMAIN scan : scan[k].id = id}
  IN IF mine = {} THEN "none" ELSE scan[CHOOSE k \in mine : TRUE].result

DeltaIsOfTheScans ==
  \A output \in OfKind("diff") :
    LET delta == output.delta
        ids == Ids(output.before.sources.results.entries)
                 \cup Ids(output.after.sources.results.entries)
    IN /\ \A id \in ids :
            LET was == Status(output.before, id)
                is == Status(output.after, id)
            IN /\ <<id, is>> \in delta.added <=> was = "none"
               /\ <<id, was>> \in delta.removed <=> is = "none"
               /\ <<id, was, is>> \in delta.changed <=> "none" \notin {was, is} /\ was # is
               /\ id \in delta.unchanged <=> was = is
       /\ Cardinality(delta.added) + Cardinality(delta.removed) + Cardinality(delta.changed)
            + Cardinality(delta.unchanged) = Cardinality(ids)

\* A mapping report speaks of the artifact made from the same three files: it
\* covers the definitions observed, every finding is of a mapped definition
\* and target, and no identifier it calls stale was observed.
ReportCoversArtifact ==
  \A report \in OfKind("mapping-report"), artifact \in Artifacts :
    report.sources = artifact.sources =>
      LET coverage == report.coverage
          doc == artifact.doc
          Listed(list) == {<<item.id, item.result>> : item \in list}
      IN /\ Listed(coverage.mapped) \cup Listed(coverage.unmapped)
               = {<<o.id, o.result>> : o \in ToSet(doc.observations)}
         /\ \A f \in ToSet(doc.findings) :
              \E item \in coverage.mapped : item.id = f.id /\ f.target \in item.targets
         /\ coverage.stale \cap Ids(doc.observations) = {}

\* findings lists every finding of the artifact once, and counts them: no two
\* of them are merged because they are of one definition.
InventoryIsComplete ==
  \A output \in OfKind("findings") :
    /\ Cardinality(output.items) = output.count
    /\ \A f \in ToSet(output.of.doc.findings) :
         \E item \in output.items : item.uuid = f.uuid /\ item.status = f.status
=============================================================================
