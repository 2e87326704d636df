---------------------------- MODULE MCArfLinkage ----------------------------
(* One TestResult and one OVAL report, two collections that hold the same   *)
(* components, and variants of that document: ambiguous and unresolved      *)
(* relationships and references, duplicate identifiers, no selected         *)
(* profile, definitions that do not cover the results, a component that     *)
(* holds only a comment.                                                    *)
EXTENDS ArfLinkage, TLC

Payload(kind, id, items, benchmark, profile) ==
  [kind |-> kind, id |-> id, items |-> items, benchmark |-> benchmark, profile |-> profile]
Benchmark == Payload("Benchmark", "b", <<"p1", "p2">>, None, None)
Tailoring == Payload("Tailoring", "t", <<"p1">>, None, None)
Definitions == Payload("oval_definitions", None, <<"d1", "d2", "d3">>, None, None)
TestResult == Payload("TestResult", "x", <<>>, "b", "p1")
Results == Payload("oval_results", None, <<"d1", "d2">>, None, None)

Component(id, payload) == [id |-> id, payload |-> payload]
Ref(component) == [id |-> component, component |-> component]
Stream == [id |-> "s", refs |-> <<Ref("cb"), Ref("ct"), Ref("cd")>>]
Request(id) ==
  [id |-> id,
   components |-> <<Component("cb", Benchmark), Component("ct", Tailoring), Component("cd", Definitions)>>,
   streams |-> <<Stream>>]
Says(type, refs) == [type |-> type, subject |-> "rx", refs |-> refs]

Base ==
  [assets |-> <<"a1", "a2">>,
   reports |-> <<[id |-> "rx", payload |-> TestResult], [id |-> "ro", payload |-> Results]>>,
   requests |-> <<Request("q1"), Request("q2")>>,
   relationships |-> <<Says("arfvocab:createdFor", <<"q1">>), Says("arfrel:isAbout", <<"a1">>)>>]

NoProfile == [Base EXCEPT !.reports[1].payload.profile = None]
OtherProfile == [Base EXCEPT !.reports[1].payload.profile = "p2"]
OtherCollection == [Base EXCEPT !.relationships[1].refs = <<"q2">>]
TwoCollections ==
  [Base EXCEPT !.relationships = Append(@, Says("arfvocab:createdFor", <<"q2">>))]
TwoAssets == [Base EXCEPT !.relationships = Append(@, Says("arfvocab:isAbout", <<"a2">>))]
UncoveredResult == [Base EXCEPT !.reports[2].payload.items = <<"d1", "d4">>]
TwoStreams == [Base EXCEPT !.requests[1].streams = <<Stream, [Stream EXCEPT !.refs = <<Ref("cb")>>]>>]
OneBenchmarkTwoStreams ==
  [Base EXCEPT !.requests[1].streams = <<Stream, [Stream EXCEPT !.refs = <<Ref("cd")>>]>>]
DanglingRef == [Base EXCEPT !.requests[1].streams[1].refs[3].component = "ce"]
Comment == Payload("comment", None, <<>>, None, None)
CommentComponent == [Base EXCEPT !.requests[2].components[3].payload = Comment]
UnusedComment == [Base EXCEPT !.requests[1].components = Append(@, Component("cu", Comment))]
CommentAndTwins == [CommentComponent EXCEPT !.reports[2].id = "rx"]
TwinReports == [Base EXCEPT !.reports[2].id = "rx"]

MCArfFiles ==
  {Base, NoProfile, OtherProfile, OtherCollection, TwoCollections, TwoAssets, UncoveredResult,
   TwoStreams, OneBenchmarkTwoStreams, DanglingRef, TwinReports,
   CommentComponent, UnusedComment, CommentAndTwins}

Link(arf, report, component, testResult, tailoring, profile) ==
  [report |-> arf.reports[report].id, payload |-> arf.reports[report].payload,
   request |-> "q1", stream |-> "s", ref |-> component.id, component |-> component,
   testResult |-> testResult, tailoring |-> tailoring, profile |-> profile]
OvalLink(arf) == Link(arf, 2, arf.requests[1].components[3], None, None, None)
TailoringLink(arf) == Link(arf, 1, arf.requests[1].components[2], "x", "t", "p1")

Linked(arf) == [arf |-> arf, oval |-> <<OvalLink(arf)>>, tailoring |-> <<TailoringLink(arf)>>]

MCLinkageFiles ==
  {Linked(arf) : arf \in MCArfFiles} \cup
  {[Linked(Base) EXCEPT !.oval = <<>>, !.tailoring = <<>>],
   [Linked(Base) EXCEPT !.oval = @ \o @],
   [Linked(Base) EXCEPT !.oval[1].component.payload.items = <<"d1", "d2">>],
   [Linked(Base) EXCEPT !.tailoring[1].request = "q2"],
   [Linked(Base) EXCEPT !.tailoring[1].profile = "p2"],
   [Linked(Base) EXCEPT !.oval[1].ref = "cb"]}
=============================================================================
