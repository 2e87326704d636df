------------------------------ MODULE ArfLinkage ------------------------------
(***************************************************************************)
(* inspect-arf-linkage as a process: it parses the authored linkage        *)
(* manifest, inspects the ARF file, reads that file a second time for its  *)
(* tree, and resolves every link, while the file may be rewritten between  *)
(* any two of its steps.  A file stands for its own SHA-256 hash, and so   *)
(* does a payload or a component.                                          *)
(***************************************************************************)
EXTENDS ArfIntake, FiniteSets

CONSTANTS
  ArfFiles,      \* ARF documents the file may hold
  LinkageFiles,  \* [arf, oval, tailoring]: the declared ARF and two link lists
  Malformed,     \* what the file may hold besides
  Absent,
  MaxRewrites    \* bound on rewrites of the file

ASSUME ConstantsAssumption ==
  /\ None \notin ArfFiles \cup {Malformed, Absent}
  /\ None \notin {0, 1, 3, 4}
  /\ Malformed \notin ArfFiles /\ Absent \notin ArfFiles
  /\ \A arf \in ArfFiles : IsOrdered(arf)
  /\ \A doc \in LinkageFiles :
       /\ doc.oval \in Seq(ToSet(doc.oval))
       /\ doc.tailoring \in Seq(ToSet(doc.tailoring))
  /\ MaxRewrites \in Nat

VARIABLES
  file,      \* what the ARF path holds
  rewrites,  \* rewrites so far
  pc,        \* the statement resolve_linkage is about to execute
  linkage,   \* the linkage document
  inspected, \* the ARF that inspect_arf parsed for the manifest
  tree,      \* the ARF that was read again and parsed for its tree
  resolved,  \* links resolved so far
  exit       \* exit code

vars == <<file, rewrites, pc, linkage, inspected, tree, resolved, exit>>
Codes == {0, 1, 3, 4}

Links == linkage.oval \o linkage.tailoring

Init ==
  /\ file \in ArfFiles
  /\ rewrites = 0
  /\ pc = "parse"
  /\ linkage \in LinkageFiles
  /\ inspected = None
  /\ tree = None
  /\ resolved = <<>>
  /\ exit = None

Finish(code) ==
  /\ pc' = "done"
  /\ exit' = code

Continue(to) ==
  /\ pc' = to
  /\ UNCHANGED exit

-----------------------------------------------------------------------------
(* Faulty variants, each a plausible mistake in the definition it names.   *)

\* The XML parser recovers from what is not well-formed.
InspectRecovers ==
  /\ pc = "read"
  /\ \/ /\ file # Absent
        /\ file \in ArfFiles => ArfAccepted(file)
        /\ inspected' = file
        /\ IF file = linkage.arf THEN Continue("reread") ELSE Finish(3)
     \/ /\ file \in ArfFiles /\ ~ArfAccepted(file)
        /\ Finish(IF IntakeRaises(file) THEN 1 ELSE 3)
        /\ UNCHANGED inspected
  /\ UNCHANGED <<file, rewrites, linkage, tree, resolved>>

-----------------------------------------------------------------------------
\* parse_linkage refuses what it cannot read and what is no linkage manifest;
\* json.loads raises a RecursionError, which nothing catches, of a document
\* nested too deeply.
ParseLinkage ==
  /\ pc = "parse"
  /\ \/ IF /\ Links # <<>>
           /\ IsInjective([k \in DOMAIN linkage.oval |-> linkage.oval[k].report])
           /\ IsInjective([k \in DOMAIN linkage.tailoring |-> linkage.tailoring[k].report])
          THEN Continue("lstat")
          ELSE Finish(3)
     \/ Finish(3)
     \/ Finish(1)
  /\ UNCHANGED <<file, rewrites, linkage, inspected, tree, resolved>>

\* An OSError of lstat is one of a missing file, also when the file is there.
Lstat ==
  /\ pc = "lstat"
  /\ \/ file # Absent /\ Continue("read")
     \/ Finish(3)
  /\ UNCHANGED <<file, rewrites, linkage, inspected, tree, resolved>>

\* inspect_arf after its lstat, and the comparison of the hash it reports.
Inspect ==
  /\ pc = "read"
  /\ \/ /\ file \in ArfFiles /\ ArfAccepted(file)
        /\ inspected' = file
        /\ IF file = linkage.arf THEN Continue("reread") ELSE Finish(3)
     \/ /\ file # Absent
        /\ ~(file \in ArfFiles /\ ArfAccepted(file))
        /\ Finish(IF file \in ArfFiles /\ IntakeRaises(file) THEN 1 ELSE 3)
        /\ UNCHANGED inspected
     \/ /\ Finish(4)      \* an OSError of read_bytes or of the bundled schema
        /\ UNCHANGED inspected
  /\ UNCHANGED <<file, rewrites, linkage, tree, resolved>>

\* Faulty variant: the file has been compared already.
RereadUnbound ==
  /\ pc = "reread"
  /\ \/ /\ file \in ArfFiles
        /\ tree' = file
        /\ Continue("resolve")
     \/ /\ Finish(4)
        /\ UNCHANGED tree
  /\ UNCHANGED <<file, rewrites, linkage, inspected, resolved>>

\* path.read_bytes() again, without an lstat, and the second comparison.
Reread ==
  /\ pc = "reread"
  /\ \/ /\ file # Absent
        /\ IF file = linkage.arf
             THEN /\ tree' = file
                  /\ Continue("resolve")
             ELSE /\ Finish(3)
                  /\ UNCHANGED tree
     \/ /\ Finish(4)
        /\ UNCHANGED tree
  /\ UNCHANGED <<file, rewrites, linkage, inspected, resolved>>

-----------------------------------------------------------------------------
(* Resolution: _report, _component and the payload checks of               *)
(* resolve_linkage.                                                        *)

ReportResolves(arf, link) ==
  LET reports == Having(arf.reports, link.report)
  IN Len(reports) = 1 /\ reports[1].payload = link.payload

ComponentResolves(arf, link) ==
  LET requests == Having(arf.requests, link.request)
      streams == Having(requests[1].streams, link.stream)
      refs == Where(LAMBDA ref : ref.id = link.ref /\ ref.component = link.component.id,
                    streams[1].refs)
      components == Having(requests[1].components, link.component.id)
  IN /\ requests # <<>>
     /\ streams # <<>>
     /\ Len(refs) = 1 /\ Len(components) = 1
     /\ components[1] = link.component

\* Faulty variant: results no definition is given for are let through.
OvalPayloadsOverlap(result, definitions) ==
  /\ result.kind = "oval_results" /\ definitions.kind = "oval_definitions"
  /\ result.items # <<>>
  /\ ToSet(result.items) \cap ToSet(definitions.items) # {}

OvalPayloadsMatch(result, definitions) ==
  /\ result.kind = "oval_results" /\ definitions.kind = "oval_definitions"
  /\ result.items # <<>>
  /\ IsInjective(result.items) /\ IsInjective(definitions.items)
  /\ ToSet(result.items) \subseteq ToSet(definitions.items)

\* Faulty variant: the collection the report was created for is not compared.
TailoringMatchesAnywhere(link, result, tailoring) ==
  /\ result.kind = "TestResult" /\ result.id = link.testResult
  /\ tailoring.kind = "Tailoring" /\ tailoring.id = link.tailoring
  /\ result.profile \in {None, link.profile}
  /\ Count(tailoring.items, link.profile) = 1

TailoringMatches(link, result, tailoring) ==
  /\ result.kind = "TestResult" /\ result.id = link.testResult
  /\ tailoring.kind = "Tailoring" /\ tailoring.id = link.tailoring
  /\ result.profile \in {None, link.profile}
  /\ Count(tailoring.items, link.profile) = 1
  /\ \E k \in DOMAIN inspected.reports :
       LET entry == Manifest(inspected)[k]
       IN entry.id = link.report /\ entry.linkage.collection = link.request

Matches(link, isOval) ==
  /\ ReportResolves(tree, link)
  /\ ComponentResolves(tree, link)
  /\ IF isOval THEN OvalPayloadsMatch(link.payload, link.component.payload)
               ELSE TailoringMatches(link, link.payload, link.component.payload)

NextLink == Len(resolved) + 1

\* Faulty variant: a link that does not resolve is left out of the output.
ResolveWhatMatches ==
  /\ pc = "resolve"
  /\ resolved' = Where(LAMBDA link : Matches(link, link \in ToSet(linkage.oval)), Links)
  /\ Continue("print")
  /\ UNCHANGED <<file, rewrites, linkage, inspected, tree>>

Resolve ==
  /\ pc = "resolve"
  /\ IF NextLink > Len(Links)
       THEN Continue("print") /\ UNCHANGED resolved
       ELSE IF Matches(Links[NextLink], NextLink <= Len(linkage.oval))
         THEN Continue("resolve") /\ resolved' = Append(resolved, Links[NextLink])
         ELSE Finish(3) /\ UNCHANGED resolved
  /\ UNCHANGED <<file, rewrites, linkage, inspected, tree>>

PrintResolution ==
  /\ pc = "print"
  /\ Finish(0)
  /\ UNCHANGED <<file, rewrites, linkage, inspected, tree, resolved>>

\* Another tool rewrites or removes the ARF file.
Rewrite ==
  /\ rewrites < MaxRewrites
  /\ rewrites' = rewrites + 1
  /\ file' \in (ArfFiles \cup {Malformed, Absent}) \ {file}
  /\ UNCHANGED <<pc, linkage, inspected, tree, resolved, exit>>

Step == ParseLinkage \/ Lstat \/ Inspect \/ Reread \/ Resolve \/ PrintResolution

Next == Step \/ Rewrite

Spec == Init /\ [][Next]_vars

-----------------------------------------------------------------------------
(* Properties.                                                             *)

\* Every variable has its type: the manifest and the tree are of documents the
\* XML parser takes without recovering anything, what is resolved was
\* authored, and the exit code is one of main's or the 1 of an exception that
\* nothing catches.
TypeOK ==
  /\ file \in ArfFiles \cup {Malformed, Absent}
  /\ rewrites \in 0..MaxRewrites
  /\ pc \in {"parse", "lstat", "read", "reread", "resolve", "print", "done"}
  /\ linkage \in LinkageFiles
  /\ inspected \in ArfFiles \cup {None}
  /\ tree \in ArfFiles \cup {None}
  /\ \A k \in DOMAIN resolved : resolved[k] \in ToSet(Links)
  /\ exit \in Codes \cup {None}

\* An inspected ARF says of every TestResult report, in all its
\* relationships together, that it was created for one collection, which is
\* in the document and has the Benchmark the report names.
CollectionsAreUnique ==
  inspected # None =>
    \A report \in ToSet(inspected.reports) : report.payload.kind = "TestResult" =>
      \E request \in ToSet(inspected.requests) :
        /\ Asserted(inspected, "arfvocab:createdFor", report.id) = {request.id}
        /\ \E component \in ToSet(request.components) :
             component.payload.kind = "Benchmark" /\ component.payload.id = report.payload.benchmark

\* The manifest and the tree that links are resolved in are of the same
\* bytes, those the author declared, however the file is rewritten between
\* the two reads.
OneDocumentResolves ==
  tree # None => inspected = tree /\ tree = linkage.arf

\* Every result of a resolved OVAL report has its definition in the linked
\* component of the declared document.
OvalLinksCover ==
  exit = 0 => \A link \in ToSet(linkage.oval) :
    \E report \in ToSet(linkage.arf.reports), request \in ToSet(linkage.arf.requests) :
      /\ report.id = link.report /\ request.id = link.request
      /\ link.component \in ToSet(request.components)
      /\ ToSet(report.payload.items) \subseteq ToSet(link.component.payload.items)

\* A resolved tailoring is in the collection the report was created for, and
\* offers the profile the TestResult selected, which the Benchmark of that
\* collection offers too.
TailoringStaysInCollection ==
  exit = 0 => \A link \in ToSet(linkage.tailoring) :
    \E report \in ToSet(linkage.arf.reports), request \in ToSet(linkage.arf.requests) :
      /\ report.id = link.report /\ request.id = link.request
      /\ Asserted(linkage.arf, "arfvocab:createdFor", report.id) = {request.id}
      /\ link.component \in ToSet(request.components)
      /\ report.payload.profile # None =>
           /\ report.payload.profile \in ToSet(link.component.payload.items)
           /\ \E checklist \in ToSet(Checklists(request)) :
                checklist.kind = "Benchmark" /\ report.payload.profile \in ToSet(checklist.items)

\* A resolution is of all authored links, in their order, or there is none.
AllOrNothing == exit = 0 => resolved = Links

\* docs/v0.2-xccdf-intake-design.md:34-35: inspect-arf "requires exactly one
\* local collection and asset linkage for each XCCDF TestResult report".  The
\* code looks at arfvocab:isAbout only when there is no arfrel:isAbout.
AssetLinkIsUnambiguous ==
  inspected # None =>
    \A report \in ToSet(inspected.reports) : report.payload.kind = "TestResult" =>
      Cardinality(UNION {Asserted(inspected, type, report.id) :
                           type \in {"arfrel:isAbout", "arfvocab:isAbout"}}) = 1

\* docs/v0.2-arf-linkage-manifest.md:26-28: "ambiguous references [...] are
\* rejected".  The code takes the first data stream of the identifier.
ReferencesAreUnambiguous ==
  exit = 0 => \A link \in ToSet(Links) :
    \A request \in ToSet(linkage.arf.requests) :
      request.id = link.request => Len(Having(request.streams, link.stream)) = 1
=============================================================================
