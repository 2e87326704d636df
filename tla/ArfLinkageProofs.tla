--------------------------- MODULE ArfLinkageProofs ---------------------------
(***************************************************************************)
(* What a resolution is about, for every document, every linkage and every *)
(* sequence of rewrites of the file: the bytes the author declared, and    *)
(* all of the authored links.                                              *)
(***************************************************************************)
EXTENDS ArfLinkage, ArfIntakeProofs

\* What has been read is of the declared hash as soon as the comparison that
\* checks it lies behind.
ReadsAreDeclared ==
  /\ pc \in {"reread", "resolve", "print"} \/ exit = 0 => inspected = linkage.arf
  /\ tree # None => inspected = linkage.arf /\ tree = linkage.arf
  /\ pc \in {"parse", "lstat", "read", "reread"} => tree = None

\* The links resolved so far are the first ones, and all of them once the
\* resolution is printed.
ResolvedIsPrefix ==
  /\ resolved \in Seq(ToSet(Links))
  /\ Len(resolved) <= Len(Links)
  /\ \A k \in 1..Len(resolved) : resolved[k] = Links[k]
  /\ pc = "print" \/ exit = 0 => Len(resolved) = Len(Links)

ProgressInv ==
  /\ linkage \in LinkageFiles
  /\ exit \in Codes \cup {None}
  /\ exit = 0 => pc = "done"

\* The manifest is of a document that was accepted, and no link is resolved
\* before there is a tree.
DocumentsInv ==
  /\ inspected # None => inspected \in ArfFiles /\ ArfAccepted(inspected)
  /\ pc \in {"reread", "resolve", "print"} => inspected # None
  /\ pc \in {"parse", "lstat", "read", "reread"} => resolved = <<>>
  /\ pc \in {"resolve", "print"} \/ exit = 0 => tree # None

\* Every link resolved so far passed its checks in the tree and the manifest.
LinkMatches(k) ==
  IF k <= Len(linkage.oval) THEN Matches(Links[k], TRUE) ELSE Matches(Links[k], FALSE)

ResolvedMatch == \A k \in 1..Len(resolved) : LinkMatches(k)

\* The inductive invariant.
IInv == ProgressInv /\ ReadsAreDeclared /\ ResolvedIsPrefix /\ DocumentsInv /\ ResolvedMatch

\* Links is a sequence.
LEMMA LinksType ==
  ASSUME ProgressInv
  PROVE  Links \in Seq(ToSet(Links))
<1> DEFINE S == ToSet(linkage.oval) \cup ToSet(linkage.tailoring)
<1>1. linkage.oval \in Seq(S) /\ linkage.tailoring \in Seq(S)
  BY ConstantsAssumption DEF ProgressInv
<1>2. Links \in Seq(S)
  BY <1>1 DEF Links
<1> QED
  BY <1>2 DEF ToSet

\* A step that leaves the links and the resolved ones alone keeps the prefix.
LEMMA PrefixKept ==
  ASSUME ResolvedIsPrefix, UNCHANGED <<linkage, resolved>>,
         pc' = "print" \/ exit' = 0 => Len(resolved) = Len(Links)
  PROVE  ResolvedIsPrefix'
<1>1. Links' = Links
  BY DEF Links
<1> QED
  BY <1>1 DEF ResolvedIsPrefix

\* Links that are resolved stay so while neither the documents nor the links
\* change.
LEMMA MatchKept ==
  ASSUME ResolvedMatch, UNCHANGED <<linkage, inspected, tree, resolved>>
  PROVE  ResolvedMatch'
<1>1. \A k : LinkMatches(k)' <=> LinkMatches(k)
  BY DEF LinkMatches, Matches, TailoringMatches, Links
<1> QED
  BY <1>1 DEF ResolvedMatch

LEMMA InitIInv == Init => IInv
<1> SUFFICES ASSUME Init PROVE IInv
  OBVIOUS
<1>1. ProgressInv
  BY ConstantsAssumption DEF Init, ProgressInv
<1>2. ReadsAreDeclared
  BY ConstantsAssumption DEF Init, ReadsAreDeclared
<1>3. Links \in Seq(ToSet(Links))
  BY <1>1, LinksType
<1>4. ResolvedIsPrefix
  BY <1>3, ConstantsAssumption DEF Init, ResolvedIsPrefix
<1>5. DocumentsInv /\ ResolvedMatch
  BY ConstantsAssumption DEF Init, DocumentsInv, ResolvedMatch
<1> QED
  BY <1>1, <1>2, <1>4, <1>5 DEF IInv

LEMMA NextIInv == IInv /\ [Next]_vars => IInv'
<1> SUFFICES ASSUME IInv, [Next]_vars PROVE IInv'
  OBVIOUS
<1> USE ConstantsAssumption DEF IInv, Codes
<1>l. Links \in Seq(ToSet(Links))
  BY LinksType
<1>1. CASE ParseLinkage
  <2>1. ProgressInv'
    BY <1>1 DEF ProgressInv, ParseLinkage, Finish, Continue
  <2>2. ReadsAreDeclared'
    BY <1>1 DEF ProgressInv, ReadsAreDeclared, ParseLinkage, Finish, Continue
  <2>3. ResolvedIsPrefix'
    BY <1>1, PrefixKept DEF ProgressInv, ParseLinkage, Finish, Continue
  <2>4. DocumentsInv'
    BY <1>1 DEF ProgressInv, ReadsAreDeclared, DocumentsInv, ParseLinkage, Finish, Continue
  <2>5. ResolvedMatch'
    BY <1>1, MatchKept DEF ParseLinkage
  <2> QED
    BY <2>1, <2>2, <2>3, <2>4, <2>5
<1>2. CASE Lstat
  <2>1. ProgressInv'
    BY <1>2 DEF ProgressInv, Lstat, Finish, Continue
  <2>2. ReadsAreDeclared'
    BY <1>2 DEF ProgressInv, ReadsAreDeclared, Lstat, Finish, Continue
  <2>3. ResolvedIsPrefix'
    BY <1>2, PrefixKept DEF ProgressInv, Lstat, Finish, Continue
  <2>4. DocumentsInv'
    BY <1>2 DEF ProgressInv, ReadsAreDeclared, DocumentsInv, Lstat, Finish, Continue
  <2>5. ResolvedMatch'
    BY <1>2, MatchKept DEF Lstat
  <2> QED
    BY <2>1, <2>2, <2>3, <2>4, <2>5
<1>3. CASE Inspect
  <2>1. ProgressInv'
    BY <1>3 DEF ProgressInv, Inspect, Finish, Continue
  <2>2. ReadsAreDeclared'
    BY <1>3 DEF ProgressInv, ReadsAreDeclared, Inspect, Finish, Continue
  <2>3. ResolvedIsPrefix'
    BY <1>3, PrefixKept DEF ProgressInv, Inspect, Finish, Continue
  <2>4. DocumentsInv'
    BY <1>3 DEF ProgressInv, ReadsAreDeclared, DocumentsInv, Inspect, Finish, Continue
  <2>5. ResolvedMatch'
    <3>1. resolved' = <<>>
      BY <1>3 DEF DocumentsInv, Inspect
    <3> QED
      BY <3>1 DEF ResolvedMatch
  <2> QED
    BY <2>1, <2>2, <2>3, <2>4, <2>5
<1>4. CASE Reread
  <2>1. ProgressInv'
    BY <1>4 DEF ProgressInv, Reread, Finish, Continue
  <2>2. ReadsAreDeclared'
    BY <1>4 DEF ProgressInv, ReadsAreDeclared, Reread, Finish, Continue
  <2>3. ResolvedIsPrefix'
    BY <1>4, PrefixKept DEF ProgressInv, Reread, Finish, Continue
  <2>4. DocumentsInv'
    BY <1>4 DEF ProgressInv, ReadsAreDeclared, DocumentsInv, Reread, Finish, Continue
  <2>5. ResolvedMatch'
    <3>1. resolved' = <<>>
      BY <1>4 DEF DocumentsInv, Reread
    <3> QED
      BY <3>1 DEF ResolvedMatch
  <2> QED
    BY <2>1, <2>2, <2>3, <2>4, <2>5
<1>5. CASE Resolve
  <2>1. ProgressInv'
    BY <1>5 DEF ProgressInv, Resolve, Finish, Continue
  <2>2. ReadsAreDeclared'
    BY <1>5 DEF ProgressInv, ReadsAreDeclared, Resolve, Finish, Continue
  <2>3. ResolvedIsPrefix'
    <3>1. Links' = Links
      BY <1>5 DEF Resolve, Links
    <3>2. CASE NextLink > Len(Links)
      BY <1>5, <3>1, <3>2, <1>l DEF ProgressInv, ResolvedIsPrefix, Resolve, NextLink, Continue
    <3>3. CASE NextLink <= Len(Links) /\ resolved' = resolved
      BY <1>5, <3>1, <3>3, <1>l DEF ProgressInv, ResolvedIsPrefix, Resolve, NextLink, Continue, Finish
    <3>4. CASE NextLink <= Len(Links) /\ resolved' = Append(resolved, Links[NextLink])
      <4>1. pc' = "resolve" /\ exit' # 0
        BY <1>5, <3>4, <1>l DEF ProgressInv, ResolvedIsPrefix, Resolve, NextLink, Continue, Finish
      <4>2. Links[NextLink] \in ToSet(Links)
        BY <3>4, <1>l DEF NextLink, ResolvedIsPrefix, ToSet
      <4> QED
        BY <3>1, <3>4, <4>1, <4>2, <1>l DEF ResolvedIsPrefix, NextLink
    <3> QED
      BY <1>5, <3>2, <3>3, <3>4, <1>l DEF Resolve, NextLink, ResolvedIsPrefix
  <2>4. DocumentsInv'
    BY <1>5 DEF ProgressInv, ReadsAreDeclared, DocumentsInv, Resolve, Finish, Continue
  <2>5. ResolvedMatch'
    <3>1. CASE resolved' = resolved
      BY <1>5, <3>1, MatchKept DEF Resolve
    <3>2. CASE resolved' # resolved
      <4>1. /\ resolved' = Append(resolved, Links[NextLink])
            /\ LinkMatches(NextLink)
        BY <1>5, <3>2 DEF Resolve, LinkMatches, Matches
      <4>2. \A k : LinkMatches(k)' <=> LinkMatches(k)
        BY <1>5 DEF Resolve, LinkMatches, Matches, TailoringMatches, Links
      <4>3. Len(resolved') = Len(resolved) + 1 /\ Len(resolved) \in Nat
        BY <4>1, <1>l DEF ResolvedIsPrefix
      <4> QED
        BY <4>1, <4>2, <4>3 DEF ResolvedMatch, NextLink
    <3> QED
      BY <3>1, <3>2
  <2> QED
    BY <2>1, <2>2, <2>3, <2>4, <2>5
<1>6. CASE PrintResolution
  <2>1. ProgressInv'
    BY <1>6 DEF ProgressInv, PrintResolution, Finish
  <2>2. ReadsAreDeclared'
    BY <1>6 DEF ProgressInv, ReadsAreDeclared, PrintResolution, Finish
  <2>3. ResolvedIsPrefix'
    BY <1>6, PrefixKept DEF ProgressInv, ResolvedIsPrefix, PrintResolution, Finish
  <2>4. DocumentsInv'
    BY <1>6 DEF ProgressInv, ReadsAreDeclared, DocumentsInv, PrintResolution, Finish
  <2>5. ResolvedMatch'
    BY <1>6, MatchKept DEF PrintResolution
  <2> QED
    BY <2>1, <2>2, <2>3, <2>4, <2>5
<1>7. CASE Rewrite
  <2>1. ProgressInv' /\ ReadsAreDeclared'
    BY <1>7 DEF ProgressInv, ReadsAreDeclared, Rewrite
  <2>2. ResolvedIsPrefix'
    BY <1>7, PrefixKept DEF ResolvedIsPrefix, Rewrite
  <2>3. DocumentsInv'
    BY <1>7 DEF ProgressInv, ReadsAreDeclared, DocumentsInv, Rewrite
  <2>4. ResolvedMatch'
    BY <1>7, MatchKept DEF Rewrite
  <2> QED
    BY <2>1, <2>2, <2>3, <2>4
<1>8. CASE UNCHANGED vars
  <2>1. ProgressInv' /\ ReadsAreDeclared'
    BY <1>8 DEF ProgressInv, ReadsAreDeclared, vars
  <2>2. ResolvedIsPrefix'
    BY <1>8, PrefixKept DEF ResolvedIsPrefix, vars
  <2>3. DocumentsInv'
    BY <1>8 DEF ProgressInv, ReadsAreDeclared, DocumentsInv, vars
  <2>4. ResolvedMatch'
    BY <1>8, MatchKept DEF vars
  <2> QED
    BY <2>1, <2>2, <2>3, <2>4
<1> QED
  BY <1>1, <1>2, <1>3, <1>4, <1>5, <1>6, <1>7, <1>8 DEF Next, Step

THEOREM Invariance == Spec => []IInv
<1> QED
  BY InitIInv, NextIInv, PTL DEF Spec

\* A link is only ever resolved in the bytes the author declared, the same
\* bytes the manifest was made of: rewriting the file between the two reads
\* of resolve_linkage cannot mix two documents.
THEOREM DeclaredDocument == Spec => []OneDocumentResolves
<1>1. IInv => OneDocumentResolves
  BY DEF IInv, ReadsAreDeclared, OneDocumentResolves
<1> QED
  BY <1>1, Invariance, PTL

\* resolve_linkage prints all of the authored links in their order or none.
THEOREM Completeness == Spec => []AllOrNothing
<1>1. ASSUME IInv PROVE AllOrNothing
  <2>1. Links \in Seq(ToSet(Links))
    BY <1>1, LinksType DEF IInv
  <2> QED
    BY <1>1, <2>1 DEF IInv, ResolvedIsPrefix, AllOrNothing
<1> QED
  BY <1>1, Invariance, PTL

\* Every variable has its type: what is inspected and what links are resolved
\* in are documents, what is resolved are authored links, and
\* inspect-arf-linkage ends with 0, 3, 4 or the 1 of an exception that nothing
\* catches.
THEOREM TypeCorrect == Spec => []TypeOK
<1> DEFINE Control ==
      /\ file \in ArfFiles \cup {Malformed, Absent}
      /\ rewrites \in 0..MaxRewrites
      /\ pc \in {"parse", "lstat", "read", "reread", "resolve", "print", "done"}
      /\ inspected \in ArfFiles \cup {None}
      /\ tree \in ArfFiles \cup {None}
<1>1. Init => Control
  BY ConstantsAssumption DEF Init
<1>2. ASSUME IInv, Control, [Next]_vars PROVE Control'
  <2> USE <1>2, ConstantsAssumption
  <2>1. CASE ParseLinkage
    BY <2>1 DEF ParseLinkage, Finish, Continue
  <2>2. CASE Lstat
    BY <2>2 DEF Lstat, Finish, Continue
  <2>3. CASE Inspect
    BY <2>3 DEF Inspect, Finish, Continue
  <2>4. CASE Reread
    BY <2>4 DEF Reread, Finish, Continue, IInv, ReadsAreDeclared
  <2>5. CASE Resolve
    BY <2>5 DEF Resolve, Finish, Continue
  <2>6. CASE PrintResolution
    BY <2>6 DEF PrintResolution, Finish
  <2>7. CASE Rewrite
    BY <2>7 DEF Rewrite
  <2>8. CASE UNCHANGED vars
    BY <2>8 DEF vars
  <2> QED
    BY <2>1, <2>2, <2>3, <2>4, <2>5, <2>6, <2>7, <2>8 DEF Next, Step
<1>3. ASSUME IInv, Control PROVE TypeOK
  <2>1. \A k \in DOMAIN resolved : resolved[k] \in ToSet(Links)
    BY <1>3 DEF IInv, ResolvedIsPrefix
  <2> QED
    BY <1>3, <2>1 DEF IInv, ProgressInv, TypeOK
<1> QED
  BY <1>1, <1>2, <1>3, Invariance, PTL DEF Spec

-----------------------------------------------------------------------------
(* What a printed resolution witnesses.                                    *)

\* A document that was inspected says of each TestResult report, in all of its
\* relationships together, which one collection it was created for, and that
\* collection has the Benchmark the report names (arf.py:98-164, 247-258).
THEOREM CollectionsUnique == Spec => []CollectionsAreUnique
<1>1. ASSUME IInv PROVE CollectionsAreUnique
  <2> SUFFICES ASSUME inspected # None, NEW report \in ToSet(inspected.reports),
                      report.payload.kind = "TestResult"
               PROVE  \E request \in ToSet(inspected.requests) :
                        /\ Asserted(inspected, "arfvocab:createdFor", report.id) = {request.id}
                        /\ \E component \in ToSet(request.components) :
                             /\ component.payload.kind = "Benchmark"
                             /\ component.payload.id = report.payload.benchmark
    BY DEF CollectionsAreUnique
  <2>1. ArfAccepted(inspected) /\ IsOrdered(inspected)
    BY <1>1, ConstantsAssumption DEF IInv, DocumentsInv
  <2>2. PICK request \in ToSet(inspected.requests) :
          /\ CollectionAccepted(request)
          /\ Asserted(inspected, "arfvocab:createdFor", report.id) = {request.id}
          /\ BenchmarkLinked(request, report.payload)
    BY <2>1, CollectionOf
  <2>3. PICK checklist \in ToSet(Checklists(request)) :
          checklist.kind = "Benchmark" /\ checklist.id = report.payload.benchmark
    BY <2>1, <2>2, LinkedBenchmark
  <2>4. PICK component \in ToSet(request.components) : checklist = component.payload
    BY <2>1, <2>2, ChecklistsElements
  <2> QED
    BY <2>2, <2>3, <2>4
<1> QED
  BY <1>1, Invariance, PTL

\* Where the elements of two sequences are in their concatenation.
Holds(seq, one, other) ==
  /\ \A k \in DOMAIN one : k \in 1 .. Len(seq) /\ k <= Len(one) /\ seq[k] = one[k]
  /\ \A k \in DOMAIN other :
       /\ Len(one) + k \in 1 .. Len(seq)
       /\ ~ (Len(one) + k <= Len(one))
       /\ seq[Len(one) + k] = other[k]

LEMMA Concatenated ==
  ASSUME NEW S, NEW one \in Seq(S), NEW other \in Seq(S)
  PROVE  Holds(one \o other, one, other)
  BY DEF Holds

\* The links are those of the two lists.
LEMMA LinksOf ==
  ASSUME ProgressInv
  PROVE  ToSet(Links) = ToSet(linkage.oval) \cup ToSet(linkage.tailoring)
<1> DEFINE S == ToSet(linkage.oval) \cup ToSet(linkage.tailoring)
<1>1. linkage.oval \in Seq(S) /\ linkage.tailoring \in Seq(S)
  BY ConstantsAssumption DEF ProgressInv
<1> HIDE DEF S
<1>2. Links \in Seq(S) /\ Holds(Links, linkage.oval, linkage.tailoring)
  BY <1>1, Concatenated DEF Links
<1>3. ASSUME NEW k \in DOMAIN Links
      PROVE  Links[k] \in ToSet(linkage.oval) \cup ToSet(linkage.tailoring)
  <2>1. Links[k] \in S
    BY <1>2, <1>3
  <2> QED
    BY <2>1 DEF S
<1>4. ToSet(Links) \subseteq ToSet(linkage.oval) \cup ToSet(linkage.tailoring)
  BY <1>3 DEF ToSet
<1>5. \A j \in DOMAIN linkage.oval : j \in DOMAIN Links /\ Links[j] = linkage.oval[j]
  BY <1>2 DEF Holds
<1>6. \A j \in DOMAIN linkage.tailoring : \E k \in DOMAIN Links : Links[k] = linkage.tailoring[j]
  BY <1>2 DEF Holds
<1> QED
  BY <1>4, <1>5, <1>6 DEF ToSet

\* A printed resolution is of the declared document, which was accepted, and
\* each of its links passed its checks there.
LEMMA Printed ==
  ASSUME IInv, exit = 0
  PROVE  /\ tree = linkage.arf /\ inspected = linkage.arf
         /\ IsOrdered(linkage.arf) /\ ArfAccepted(linkage.arf)
         /\ \A link \in ToSet(linkage.oval) : Matches(link, TRUE)
         /\ \A link \in ToSet(linkage.tailoring) : Matches(link, FALSE)
<1>1. tree = linkage.arf /\ inspected = linkage.arf /\ tree # None
  BY DEF IInv, ReadsAreDeclared, DocumentsInv
<1>2. IsOrdered(linkage.arf) /\ ArfAccepted(linkage.arf)
  BY <1>1, ConstantsAssumption DEF IInv, DocumentsInv
<1>3. /\ linkage.oval \in Seq(ToSet(linkage.oval))
      /\ linkage.tailoring \in Seq(ToSet(linkage.tailoring))
  BY ConstantsAssumption DEF IInv, ProgressInv
<1>4. \A k \in 1 .. Len(Links) : LinkMatches(k)
  BY DEF IInv, ResolvedIsPrefix, ResolvedMatch
<1> DEFINE S == ToSet(linkage.oval) \cup ToSet(linkage.tailoring)
<1>5. linkage.oval \in Seq(S) /\ linkage.tailoring \in Seq(S)
  BY <1>3
<1> HIDE DEF S
<1>6. Holds(Links, linkage.oval, linkage.tailoring)
  BY <1>5, Concatenated DEF Links
<1>7. \A link \in ToSet(linkage.oval) : Matches(link, TRUE)
  <2>1. \A k \in DOMAIN linkage.oval : Matches(linkage.oval[k], TRUE)
    BY <1>4, <1>6 DEF Holds, LinkMatches
  <2> QED
    BY <2>1 DEF ToSet
<1>8. \A link \in ToSet(linkage.tailoring) : Matches(link, FALSE)
  <2>1. \A k \in DOMAIN linkage.tailoring : Matches(linkage.tailoring[k], FALSE)
    BY <1>4, <1>6 DEF Holds, LinkMatches
  <2> QED
    BY <2>1 DEF ToSet
<1> QED
  BY <1>1, <1>2, <1>7, <1>8

\* The report and the component that a link was resolved to.
LEMMA LinkWitness ==
  ASSUME NEW arf, IsOrdered(arf), NEW link, ReportResolves(arf, link), ComponentResolves(arf, link)
  PROVE  /\ \E report \in ToSet(arf.reports) :
              report.id = link.report /\ report.payload = link.payload
         /\ \E request \in ToSet(arf.requests) :
              /\ request.id = link.request /\ request = Having(arf.requests, link.request)[1]
              /\ link.component \in ToSet(request.components)
<1> DEFINE reports == Having(arf.reports, link.report)
           requests == Having(arf.requests, link.request)
           components == Having(requests[1].components, link.component.id)
<1>1. /\ Len(reports) = 1 /\ reports[1].payload = link.payload
      /\ requests # <<>> /\ Len(components) = 1 /\ components[1] = link.component
  BY DEF ReportResolves, ComponentResolves
<1>2. /\ reports \in Seq(ToSet(arf.reports))
      /\ ToSet(reports) = {item \in ToSet(arf.reports) : item.id = link.report}
  BY HavingElements DEF IsOrdered
<1>3. /\ requests \in Seq(ToSet(arf.requests))
      /\ ToSet(requests) = {item \in ToSet(arf.requests) : item.id = link.request}
  BY HavingElements DEF IsOrdered
<1> HIDE DEF reports, requests
<1>4. reports[1] \in ToSet(reports) /\ requests[1] \in ToSet(requests)
  BY <1>1, <1>2, <1>3, OnlyElement
<1>5. requests[1] \in ToSet(arf.requests) /\ requests[1].id = link.request
  BY <1>3, <1>4
<1>6. /\ components \in Seq(ToSet(requests[1].components))
      /\ ToSet(components) = {item \in ToSet(requests[1].components) : item.id = link.component.id}
  BY <1>5, HavingElements DEF IsOrdered
<1> HIDE DEF components
<1>7. components[1] \in ToSet(requests[1].components)
  BY <1>1, <1>6, OnlyElement
<1> QED
  BY <1>1, <1>2, <1>4, <1>5, <1>7 DEF requests

\* Every result of a resolved OVAL report has its definition in the linked
\* component of the declared document (arf_linkage.py:105-155).
THEOREM OvalCovered == Spec => []OvalLinksCover
<1>1. ASSUME IInv PROVE OvalLinksCover
  <2> SUFFICES ASSUME exit = 0, NEW link \in ToSet(linkage.oval)
               PROVE  \E report \in ToSet(linkage.arf.reports), request \in ToSet(linkage.arf.requests) :
                        /\ report.id = link.report /\ request.id = link.request
                        /\ link.component \in ToSet(request.components)
                        /\ ToSet(report.payload.items) \subseteq ToSet(link.component.payload.items)
    BY DEF OvalLinksCover
  <2>1. /\ ReportResolves(linkage.arf, link) /\ ComponentResolves(linkage.arf, link)
        /\ OvalPayloadsMatch(link.payload, link.component.payload)
        /\ IsOrdered(linkage.arf)
    BY <1>1, Printed DEF Matches
  <2> QED
    BY <2>1, LinkWitness DEF OvalPayloadsMatch
<1> QED
  BY <1>1, Invariance, PTL

\* A resolved tailoring is in the one collection the report was created for and
\* offers the profile the TestResult selected, as does that collection's
\* Benchmark (arf_linkage.py:105-166).
THEOREM TailoringStays == Spec => []TailoringStaysInCollection
<1>1. ASSUME IInv PROVE TailoringStaysInCollection
  <2> DEFINE arf == linkage.arf
  <2> SUFFICES ASSUME exit = 0, NEW link \in ToSet(linkage.tailoring)
               PROVE  \E report \in ToSet(arf.reports), request \in ToSet(arf.requests) :
                        /\ report.id = link.report /\ request.id = link.request
                        /\ Asserted(arf, "arfvocab:createdFor", report.id) = {request.id}
                        /\ link.component \in ToSet(request.components)
                        /\ report.payload.profile # None =>
                             /\ report.payload.profile \in ToSet(link.component.payload.items)
                             /\ \E checklist \in ToSet(Checklists(request)) :
                                  /\ checklist.kind = "Benchmark"
                                  /\ report.payload.profile \in ToSet(checklist.items)
    BY DEF TailoringStaysInCollection
  <2>1. /\ ReportResolves(arf, link) /\ ComponentResolves(arf, link)
        /\ TailoringMatches(link, link.payload, link.component.payload)
        /\ IsOrdered(arf) /\ ArfAccepted(arf) /\ inspected = arf
    BY <1>1, Printed DEF Matches
  <2> HIDE DEF arf
  <2>2. PICK report \in ToSet(arf.reports) : report.id = link.report /\ report.payload = link.payload
    BY <2>1, LinkWitness
  <2>3. PICK request \in ToSet(arf.requests) :
          /\ request.id = link.request /\ request = Having(arf.requests, link.request)[1]
          /\ link.component \in ToSet(request.components)
    BY <2>1, LinkWitness
  <2>4. PICK k \in DOMAIN arf.reports :
          arf.reports[k].id = link.report /\ Linkage(arf, arf.reports[k]).collection = link.request
    BY <2>1 DEF TailoringMatches, Manifest
  <2>5. arf.reports[k] = report
    <3>1. arf.reports[k] \in ToSet(arf.reports)
      BY DEF ToSet
    <3> QED
      BY <2>1, <2>2, <2>4, <3>1, OneReport
  <2>6. report.payload.kind = "TestResult"
    BY <2>1, <2>2 DEF TailoringMatches
  <2>7. PICK own \in ToSet(arf.requests) :
          /\ own.id = Linkage(arf, report).collection
          /\ own = Having(arf.requests, own.id)[1]
          /\ CollectionAccepted(own)
          /\ Asserted(arf, "arfvocab:createdFor", report.id) = {own.id}
          /\ BenchmarkLinked(own, report.payload)
    BY <2>1, <2>6, CollectionOf
  <2>8. own = request
    BY <2>3, <2>4, <2>5, <2>7
  <2>9. ASSUME report.payload.profile # None
        PROVE  /\ report.payload.profile \in ToSet(link.component.payload.items)
               /\ \E checklist \in ToSet(Checklists(request)) :
                    /\ checklist.kind = "Benchmark"
                    /\ report.payload.profile \in ToSet(checklist.items)
    <3>1. /\ report.payload.profile = link.profile
          /\ Count(link.component.payload.items, link.profile) = 1
      BY <2>1, <2>2, <2>9 DEF TailoringMatches
    <3>2. link.component.payload.items \in Seq(ToSet(link.component.payload.items))
      BY <2>1, <2>3 DEF IsOrdered
    <3>3. link.profile \in ToSet(link.component.payload.items)
      BY <3>1, <3>2, CountOne
    <3>4. \E checklist \in ToSet(Checklists(own)) :
            checklist.kind = "Benchmark" /\ report.payload.profile \in ToSet(checklist.items)
      BY <2>1, <2>7, <2>9, LinkedBenchmark
    <3> QED
      BY <2>8, <3>1, <3>3, <3>4
  <2> QED
    BY <2>2, <2>3, <2>7, <2>8, <2>9
<1> QED
  BY <1>1, Invariance, PTL

-----------------------------------------------------------------------------
(* How far the two disagreements the runs show go.                         *)

Vocabularies == {"arfrel:isAbout", "arfvocab:isAbout"}
SaidOfAsset(arf, report) == UNION {Asserted(arf, type, report.id) : type \in Vocabularies}

AssetIsSaid(arf, report) ==
  /\ Linkage(arf, report).asset \in ToSet(arf.assets) \cap SaidOfAsset(arf, report)
  /\ (\E type \in Vocabularies : Asserted(arf, type, report.id) = {})
       => SaidOfAsset(arf, report) = {Linkage(arf, report).asset}

AssetsAreSaid ==
  inspected # None =>
    \A report \in ToSet(inspected.reports) : report.payload.kind = "TestResult" => AssetIsSaid(inspected, report)

\* What the manifest links a report to is always an asset of the document that
\* its relationships name; the link can be ambiguous, as the run asset_linkage
\* shows, only in a document that uses both vocabularies for one report
\* (arf.py:245-258).
THEOREM AssetsDelimited == Spec => []AssetsAreSaid
<1>1. ASSUME IInv, inspected # None, NEW report \in ToSet(inspected.reports), report.payload.kind = "TestResult"
      PROVE  AssetIsSaid(inspected, report)
  <2> DEFINE asset == Linkage(inspected, report).asset
             rel == Asserted(inspected, "arfrel:isAbout", report.id)
             vocab == Asserted(inspected, "arfvocab:isAbout", report.id)
  <2>1. ArfAccepted(inspected) /\ IsOrdered(inspected)
    BY <1>1, ConstantsAssumption DEF IInv, DocumentsInv
  <2>2. /\ asset \in ToSet(inspected.assets)
        /\ Asserted(inspected, AssetRelation(inspected, report.id), report.id) = {asset}
        /\ AssetRelation(inspected, report.id) = "arfvocab:isAbout" => rel = {}
    BY <1>1, <2>1, AssetOf
  <2>3. AssetRelation(inspected, report.id) \in {"arfrel:isAbout", "arfvocab:isAbout"}
    BY DEF AssetRelation
  <2>4. rel = {asset} \/ (rel = {} /\ vocab = {asset})
    BY <2>2, <2>3
  <2>5. SaidOfAsset(inspected, report) = rel \cup vocab
    BY DEF SaidOfAsset, Vocabularies
  <2>6. (\E type \in Vocabularies : Asserted(inspected, type, report.id) = {}) <=> rel = {} \/ vocab = {}
    BY DEF Vocabularies
  <2> HIDE DEF asset, rel, vocab
  <2>7. /\ asset \in rel \cup vocab
        /\ rel = {} \/ vocab = {} => rel \cup vocab = {asset}
    BY <2>4
  <2> QED
    BY <2>2, <2>5, <2>6, <2>7 DEF asset, AssetIsSaid
<1>2. IInv => AssetsAreSaid
  BY <1>1 DEF AssetsAreSaid
<1> QED
  BY <1>2, Invariance, PTL

LEMMA OneOrMore ==
  ASSUME NEW S, NEW seq \in Seq(S), seq # <<>>, Len(seq) <= 1
  PROVE  Len(seq) = 1
<1>1. ToSet(seq) # {}
  BY OnlyElement
<1>2. PICK k : k \in 1 .. Len(seq)
  BY <1>1 DEF ToSet
<1> DEFINE n == Len(seq)
<1>3. n \in Nat /\ k \in 1 .. n /\ n <= 1
  BY <1>2
<1> HIDE DEF n
<1>4. n = 1
  BY <1>3
<1> QED
  BY <1>4 DEF n

\* What a link names in a document: one report and one collection, there one
\* component, and one stream if no two of the collection have one identifier.
ReferenceIsUnambiguous(arf, link) ==
  /\ \A one, other \in ToSet(arf.reports) : one.id = link.report /\ other.id = link.report => one = other
  /\ \E request \in ToSet(arf.requests) :
       /\ \A other \in ToSet(arf.requests) : other.id = link.request <=> other = request
       /\ Having(request.streams, link.stream) # <<>>
       /\ Len(Having(request.components, link.component.id)) = 1
       /\ IsInjective(IdsOf(request.streams)) => Len(Having(request.streams, link.stream)) = 1

ReferencesNameOne ==
  exit = 0 => \A link \in ToSet(Links) : ReferenceIsUnambiguous(linkage.arf, link)

\* A reference that was resolved is unambiguous, except that a collection may
\* have two streams of one identifier, as in the run stream_reference
\* (arf_linkage.py:105-117).
THEOREM ReferencesDelimited == Spec => []ReferencesNameOne
<1>1. ASSUME IInv, exit = 0, NEW link \in ToSet(Links)
      PROVE  ReferenceIsUnambiguous(linkage.arf, link)
  <2> DEFINE arf == linkage.arf
             requests == Having(arf.requests, link.request)
             request == requests[1]
             streams == Having(request.streams, link.stream)
  <2>1. IsOrdered(arf) /\ ArfAccepted(arf)
    BY <1>1, Printed
  <2>2. ComponentResolves(arf, link)
    <3>1. link \in ToSet(linkage.oval) \cup ToSet(linkage.tailoring)
      BY <1>1, LinksOf DEF IInv
    <3> QED
      BY <1>1, <3>1, Printed DEF Matches
  <2> HIDE DEF arf
  <2>3. /\ requests # <<>> /\ streams # <<>>
        /\ Len(Having(request.components, link.component.id)) = 1
    BY <2>2 DEF ComponentResolves
  <2>4. /\ requests \in Seq(ToSet(arf.requests))
        /\ ToSet(requests) = {item \in ToSet(arf.requests) : item.id = link.request}
    BY <2>1, HavingElements DEF IsOrdered
  <2> HIDE DEF requests
  <2>5. request \in ToSet(arf.requests) /\ request.id = link.request
    BY <2>3, <2>4, OnlyElement
  <2>6. \A other \in ToSet(arf.requests) : other.id = link.request <=> other = request
    BY <2>1, <2>5, OneRequest
  <2>7. request.streams \in Seq(ToSet(request.streams))
    BY <2>1, <2>5 DEF IsOrdered
  <2>8. streams \in Seq(ToSet(request.streams))
    BY <2>7, HavingElements
  <2>9. IsInjective(IdsOf(request.streams)) => Len(streams) <= 1
    BY <2>7, HavingAtMostOne
  <2>10. IsInjective(IdsOf(request.streams)) => Len(streams) = 1
    <3> HIDE DEF streams
    <3> QED
      BY <2>3, <2>8, <2>9, OneOrMore
  <2>11. \A one, other \in ToSet(arf.reports) : one.id = link.report /\ other.id = link.report => one = other
    BY <2>1, OneReport
  <2> QED
    BY <2>3, <2>5, <2>6, <2>10, <2>11 DEF arf, ReferenceIsUnambiguous
<1>2. IInv => ReferencesNameOne
  BY <1>1 DEF ReferencesNameOne
<1> QED
  BY <1>2, Invariance, PTL

-----------------------------------------------------------------------------
(* The verdict: what a linkage manifest and the document it declares make  *)
(* it, said without the process that reads them.                           *)

Parses(doc) ==
  /\ doc.oval \o doc.tailoring # <<>>
  /\ IsInjective([k \in DOMAIN doc.oval |-> doc.oval[k].report])
  /\ IsInjective([k \in DOMAIN doc.tailoring |-> doc.tailoring[k].report])

TailoringFits(arf, link) ==
  LET result == link.payload
      tailoring == link.component.payload
  IN /\ result.kind = "TestResult" /\ result.id = link.testResult
     /\ tailoring.kind = "Tailoring" /\ tailoring.id = link.tailoring
     /\ result.profile \in {None, link.profile}
     /\ Count(tailoring.items, link.profile) = 1
     /\ \E report \in ToSet(arf.reports) :
          report.id = link.report /\ Linkage(arf, report).collection = link.request

Resolvable(doc) ==
  /\ Parses(doc)
  /\ ArfAccepted(doc.arf)
  /\ \A link \in ToSet(doc.oval) \cup ToSet(doc.tailoring) :
       ReportResolves(doc.arf, link) /\ ComponentResolves(doc.arf, link)
  /\ \A link \in ToSet(doc.oval) : OvalPayloadsMatch(link.payload, link.component.payload)
  /\ \A link \in ToSet(doc.tailoring) : TailoringFits(doc.arf, link)

\* Nobody has touched the file, and it is the declared one.
Undisturbed == rewrites = 0 /\ file = linkage.arf

VerdictInv ==
  /\ pc \notin {"parse", "done"} \/ exit = 0 => Parses(linkage)
  /\ rewrites = 0 => file \in ArfFiles

LEMMA FitsIsMatches ==
  ASSUME NEW link, inspected = linkage.arf
  PROVE  TailoringMatches(link, link.payload, link.component.payload) <=> TailoringFits(linkage.arf, link)
<1>1. (\E k \in DOMAIN inspected.reports :
         /\ Manifest(inspected)[k].id = link.report
         /\ Manifest(inspected)[k].linkage.collection = link.request)
      <=> \E report \in ToSet(linkage.arf.reports) :
            report.id = link.report /\ Linkage(linkage.arf, report).collection = link.request
  BY DEF Manifest, ToSet
<1> QED
  BY <1>1 DEF TailoringMatches, TailoringFits

\* The list a link is of.
LEMMA ListOf ==
  ASSUME ProgressInv, NEW k \in 1 .. Len(Links)
  PROVE  IF k <= Len(linkage.oval) THEN Links[k] \in ToSet(linkage.oval) ELSE Links[k] \in ToSet(linkage.tailoring)
<1> DEFINE S == ToSet(linkage.oval) \cup ToSet(linkage.tailoring)
           one == linkage.oval
           other == linkage.tailoring
<1>1. one \in Seq(S) /\ other \in Seq(S)
  BY ConstantsAssumption DEF ProgressInv
<1>2. Links = one \o other
  BY DEF Links
<1> HIDE DEF S, one, other
<1>3. CASE k <= Len(one)
  <2>1. k \in DOMAIN one /\ Links[k] = one[k]
    BY <1>1, <1>2, <1>3
  <2> QED
    BY <1>3, <2>1 DEF ToSet, one
<1>4. CASE ~(k <= Len(one))
  <2>1. k - Len(one) \in DOMAIN other /\ Links[k] = other[k - Len(one)]
    BY <1>1, <1>2, <1>4
  <2> QED
    BY <1>4, <2>1 DEF ToSet, one, other
<1> QED
  BY <1>3, <1>4

LEMMA VerdictInit == Init => VerdictInv
  BY ConstantsAssumption DEF Init, VerdictInv

\* A step that refuses after the file was found refuses a linkage that does not
\* hold in the document it declares, or a file that is or was another one.
RefusalIsRight ==
  exit' = 3 /\ exit # 3 => pc \in {"parse", "lstat"} \/ ~Resolvable(linkage) \/ ~Undisturbed

LEMMA VerdictStep == IInv /\ TypeOK /\ VerdictInv /\ [Next]_vars => VerdictInv' /\ [RefusalIsRight]_vars
<1> SUFFICES ASSUME IInv, TypeOK, VerdictInv, [Next]_vars PROVE VerdictInv' /\ RefusalIsRight
  OBVIOUS
<1> USE ConstantsAssumption DEF Codes
<1>a. ProgressInv /\ rewrites \in Nat /\ exit \in Codes \cup {None}
  BY DEF IInv, TypeOK, ProgressInv
<1>1. CASE ParseLinkage
  <2>1. pc' # "done" => Parses(linkage)
    BY <1>1 DEF ParseLinkage, Finish, Links, Parses
  <2>2. exit' # 0 /\ pc = "parse"
    BY <1>1, <1>a DEF ParseLinkage, Continue, Finish, ProgressInv
  <2>3. UNCHANGED <<file, rewrites, linkage>>
    BY <1>1 DEF ParseLinkage
  <2> QED
    BY <2>1, <2>2, <2>3 DEF VerdictInv, RefusalIsRight
<1>2. CASE Lstat
  <2>1. UNCHANGED <<file, rewrites, linkage>> /\ pc = "lstat"
    BY <1>2 DEF Lstat
  <2>2. exit' # 0
    BY <1>2, <1>a DEF Lstat, Finish, Continue, ProgressInv
  <2> QED
    BY <2>1, <2>2 DEF VerdictInv, RefusalIsRight
<1>3. CASE Inspect
  <2>1. UNCHANGED <<file, rewrites, linkage>> /\ pc = "read"
    BY <1>3 DEF Inspect
  <2>2. exit' = 3 => exit = 3 \/ file # linkage.arf \/ file \notin ArfFiles \/ ~ArfAccepted(file)
    BY <1>3, <1>a DEF Inspect, Finish, Continue
  <2>3. exit' # 0
    BY <1>3, <1>a DEF Inspect, Finish, Continue, ProgressInv
  <2> QED
    BY <2>1, <2>2, <2>3 DEF VerdictInv, Undisturbed, Resolvable, RefusalIsRight
<1>4. CASE Reread
  <2>1. UNCHANGED <<file, rewrites, linkage>> /\ pc = "reread"
    BY <1>4 DEF Reread
  <2>2. exit' = 3 => exit = 3 \/ file # linkage.arf
    BY <1>4, <1>a DEF Reread, Finish, Continue
  <2>3. exit' # 0
    BY <1>4, <1>a DEF Reread, Finish, Continue, ProgressInv
  <2> QED
    BY <2>1, <2>2, <2>3 DEF VerdictInv, Undisturbed, RefusalIsRight
<1>5. CASE Resolve
  <2>1. UNCHANGED <<file, rewrites, linkage>> /\ pc = "resolve"
    BY <1>5 DEF Resolve
  <2>2. inspected = linkage.arf /\ tree = linkage.arf
    BY <2>1 DEF IInv, ReadsAreDeclared, DocumentsInv
  <2>3. ASSUME exit' = 3, exit # 3 PROVE ~Resolvable(linkage)
    <3>1. /\ ~(NextLink > Len(Links))
          /\ ~Matches(Links[NextLink], NextLink <= Len(linkage.oval))
      BY <1>5, <2>3 DEF Resolve, Continue
    <3>2. NextLink \in 1 .. Len(Links)
      <4>1. Len(resolved) \in Nat /\ Len(Links) \in Nat
        BY <1>a, LinksType DEF IInv, ResolvedIsPrefix
      <4> QED
        BY <3>1, <4>1 DEF NextLink
    <3> DEFINE link == Links[NextLink]
    <3>3. CASE NextLink <= Len(linkage.oval)
      <4>1. link \in ToSet(linkage.oval)
        BY <1>a, <3>2, <3>3, ListOf
      <4>2. ~(/\ ReportResolves(linkage.arf, link) /\ ComponentResolves(linkage.arf, link)
              /\ OvalPayloadsMatch(link.payload, link.component.payload))
        BY <2>2, <3>1, <3>3 DEF Matches
      <4> QED
        BY <4>1, <4>2 DEF Resolvable
    <3>4. CASE ~(NextLink <= Len(linkage.oval))
      <4>1. link \in ToSet(linkage.tailoring)
        BY <1>a, <3>2, <3>4, ListOf
      <4>2. ~(/\ ReportResolves(linkage.arf, link) /\ ComponentResolves(linkage.arf, link)
              /\ TailoringFits(linkage.arf, link))
        BY <2>2, <3>1, <3>4, FitsIsMatches DEF Matches
      <4> QED
        BY <4>1, <4>2 DEF Resolvable
    <3> QED
      BY <3>3, <3>4
  <2>4. exit' # 0
    BY <1>5, <1>a DEF Resolve, Finish, Continue, ProgressInv
  <2> QED
    BY <2>1, <2>3, <2>4 DEF VerdictInv, Undisturbed, RefusalIsRight
<1>6. CASE PrintResolution
  BY <1>6, <1>a DEF PrintResolution, Finish, VerdictInv, RefusalIsRight
<1>7. CASE Rewrite
  <2>1. rewrites' # 0 /\ UNCHANGED <<pc, linkage, exit>>
    BY <1>7, <1>a DEF Rewrite
  <2> QED
    BY <2>1 DEF VerdictInv, RefusalIsRight
<1>8. CASE UNCHANGED vars
  BY <1>8 DEF vars, VerdictInv, RefusalIsRight
<1> QED
  BY <1>1, <1>2, <1>3, <1>4, <1>5, <1>6, <1>7, <1>8 DEF Next, Step

\* A resolution is printed only of a linkage that holds.
PrintsWhatHolds == exit = 0 => Resolvable(linkage)

\* inspect-arf-linkage decides, although it reads the file twice while others
\* may rewrite it: exit code 0 says that the linkage holds in the document it
\* declares, and a refusal (3) by any check after lstat says that it does not, or
\* that the file was another document at first or has been rewritten.  The
\* refusals before say less: a linkage that cannot be read and a file whose
\* lstat fails end with the same code, and a read that fails with 4
\* (arf_linkage.py:137-168, arf.py:67-85, 98-262).
THEOREM VerdictRight == Spec => []PrintsWhatHolds /\ [][RefusalIsRight]_vars
<1>1. ASSUME IInv, VerdictInv, exit = 0 PROVE Resolvable(linkage)
  <2>1. /\ inspected = linkage.arf /\ tree = linkage.arf /\ ArfAccepted(linkage.arf)
        /\ \A link \in ToSet(linkage.oval) : Matches(link, TRUE)
        /\ \A link \in ToSet(linkage.tailoring) : Matches(link, FALSE)
    BY <1>1, Printed
  <2>2. Parses(linkage)
    BY <1>1 DEF VerdictInv
  <2>3. \A link \in ToSet(linkage.oval) :
          /\ ReportResolves(linkage.arf, link) /\ ComponentResolves(linkage.arf, link)
          /\ OvalPayloadsMatch(link.payload, link.component.payload)
    BY <2>1 DEF Matches
  <2>4. \A link \in ToSet(linkage.tailoring) :
          /\ ReportResolves(linkage.arf, link) /\ ComponentResolves(linkage.arf, link)
          /\ TailoringFits(linkage.arf, link)
    BY <2>1, FitsIsMatches DEF Matches
  <2> QED
    BY <2>1, <2>2, <2>3, <2>4 DEF Resolvable
<1>2. IInv /\ VerdictInv => PrintsWhatHolds
  BY <1>1 DEF PrintsWhatHolds
<1>3. Spec => []VerdictInv
  BY VerdictInit, VerdictStep, Invariance, TypeCorrect, PTL DEF Spec
<1> QED
  BY <1>2, <1>3, VerdictStep, Invariance, TypeCorrect, PTL DEF Spec
=============================================================================
