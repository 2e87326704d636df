--------------------------- MODULE MCXccdfEvidence ---------------------------
(* XCCDF files with one and two TestResults, of their own and of another    *)
(* benchmark, of one without an id, with duplicates; ARF collections with   *)
(* one report, two, none, ambiguous links, rule results that repeat a rule  *)
(* or say anything, a TestResult or a rule without an identifier;           *)
(* mappings that agree, decide some outcomes, repeat a key or are stale.    *)
EXTENDS XccdfEvidence, TLC

Rule(idref, result) == [idref |-> idref, result |-> result]
Test(id, benchmark, rules) == [id |-> id, benchmark |-> benchmark, rules |-> rules]
Results(tests) == [benchmark |-> "b", tests |-> tests]

MCXccdfDocs ==
  {Results(<<Test("t1", None, <<Rule("r1", "fail"), Rule("r2", "notchecked")>>)>>),
   Results(<<Test("t1", None, <<Rule("r1", "pass")>>)>>),
   Results(<<Test("t1", None, <<Rule("r1", "fail")>>), Test("t2", None, <<Rule("r1", "fail")>>)>>),
   Results(<<Test("t1", <<"c">>, <<Rule("r1", "fail")>>), Test("t2", None, <<Rule("r1", "pass")>>)>>),
   Results(<<Test("t1", <<None>>, <<Rule("r1", "fail")>>)>>),
   Results(<<Test("t1", None, <<Rule("r1", "fail"), Rule("r1", "pass")>>)>>),
   Results(<<Test("t1", None, <<Rule("r1", "passed")>>)>>),
   Results(<<Test("t1", None, <<Rule("r1", "fail")>>), Test("t1", None, <<Rule("r2", "fail")>>)>>),
   Results(<<>>)}

Payload(kind, id, benchmark, items, rules) ==
  [kind |-> kind, id |-> id, items |-> items, benchmark |-> benchmark, profile |-> None, rules |-> rules]
Benchmark == Payload("Benchmark", "b", None, <<"p1">>, <<>>)
TestResult(id, rules) == Payload("TestResult", id, "b", <<>>, rules)
OvalResults == Payload("oval_results", None, None, <<"d1">>, <<Rule("d1", "true")>>)
Report(id, payload) == [id |-> id, payload |-> payload]
Says(type, subject, ref) == [type |-> type, subject |-> subject, refs |-> <<ref>>]
Request(id) ==
  [id |-> id, components |-> <<[id |-> "cb", payload |-> Benchmark]>>,
   streams |-> <<[id |-> "s", refs |-> <<[id |-> "cb", component |-> "cb"]>>]>>]

Base ==
  [assets |-> <<"a1", "a2">>,
   reports |-> <<Report("rx", TestResult("t1", <<Rule("r1", "fail"), Rule("r2", "pass")>>)),
                 Report("ro", OvalResults)>>,
   requests |-> <<Request("q1"), Request("q2")>>,
   relationships |-> <<Says("arfvocab:createdFor", "rx", "q2"), Says("arfrel:isAbout", "rx", "a1")>>]

MCArfDocs ==
  {Base,
   [Base EXCEPT !.reports[1].payload.rules = <<Rule("r1", "fail"), Rule("r1", "pass"), Rule("r1", "passed")>>],
   [Base EXCEPT !.reports[1].payload.id = None],
   [Base EXCEPT !.reports[1].payload.rules = <<Rule("r1", "fail"), Rule(None, None)>>],
   [Base EXCEPT !.relationships = Append(@, Says("arfvocab:isAbout", "rx", "a2"))],
   [Base EXCEPT !.relationships = Append(@, Says("arfvocab:createdFor", "rx", "q1"))],
   [Base EXCEPT !.reports = Append(@, Report("ry", TestResult("t1", <<Rule("r1", "pass")>>))),
                !.relationships = @ \o <<Says("arfvocab:createdFor", "ry", "q1"),
                                         Says("arfvocab:isAbout", "ry", "a2")>>],
   [Base EXCEPT !.reports = <<@[2]>>]}

Satisfied == [state |-> "satisfied", reason |-> "pass"]
NotSatisfied == [state |-> "not-satisfied", reason |-> "fail"]
Both == ("pass" :> Satisfied) @@ ("fail" :> NotSatisfied)
OnlyPass == "pass" :> Satisfied
Entry(benchmark, rule, id, outcomes) ==
  [benchmark |-> benchmark, rule |-> rule, target |-> [type |-> "objective-id", id |-> id],
   outcomes |-> outcomes]

MCMappingDocs ==
  {<<Entry("b", "r1", "a", Both)>>,
   <<Entry("b", "r1", "a", OnlyPass), Entry("b", "r1", "z", Both)>>,
   <<Entry("c", "r1", "a", Both), Entry("b", "r2", "a", "notchecked" :> NotSatisfied)>>,
   <<Entry("b", "r1", "a", Both), Entry("b", "r1", "a", OnlyPass)>>,
   <<Entry("b", "r1", "a", "passed" :> Satisfied)>>,
   <<>>}
=============================================================================
