--------------------------- MODULE MCOvalEvidence ---------------------------
(* Two definitions, three statuses, scans that are equal, changed, larger,  *)
(* ambiguous or of another schema version, and mappings with two targets    *)
(* for one definition, a duplicate, a stale identifier and an author who    *)
(* changed an outcome; the results file under two names.                    *)
EXTENDS OvalEvidence, TLC

Scan(version, entries) == [version |-> version, timestamp |-> "t", entries |-> entries]
Of(id, result) == [id |-> id, result |-> result]

MCResultsDocs ==
  {Scan("5.11", <<Of("d1", "true")>>),
   Scan("5.11", <<Of("d1", "false")>>),
   Scan("5.11", <<Of("d1", "error")>>),
   Scan("5.11", <<Of("d1", "false"), Of("d2", "true")>>),
   Scan("5.11", <<Of("d2", "true"), Of("d1", "true")>>),
   Scan("5.11.3", <<Of("d2", "not applicable")>>),
   Scan("5.11", <<Of("d1", "true"), Of("d1", "false")>>),
   Scan("5.11", <<Of("d1", "passed")>>)}

MCDefinitionsDocs ==
  {[version |-> "5.11", ids |-> <<"d1">>],
   [version |-> "5.11", ids |-> <<"d1", "d2">>],
   [version |-> "5.11.3", ids |-> <<"d2", "d3">>]}

Target(identifier) == [type |-> "objective-id", identifier |-> identifier]
Satisfied == [state |-> "satisfied", reason |-> "pass"]
NotSatisfied == [state |-> "not-satisfied", reason |-> "fail"]
Both == ("true" :> Satisfied) @@ ("false" :> NotSatisfied)
OnlyFalse == "false" :> NotSatisfied
Vulnerability == ("true" :> NotSatisfied) @@ ("false" :> Satisfied)
Entry(id, identifier, outcomes) ==
  [id |-> id, target |-> Target(identifier), outcomes |-> outcomes]

Authors(entries) == [entries |-> entries]

MCMappingDocs ==
  {Authors(<<Entry("d1", "a", Both)>>),
   Authors(<<Entry("d1", "a", Vulnerability)>>),
   Authors(<<Entry("d1", "a", OnlyFalse), Entry("d1", "b", Both)>>),
   Authors(<<Entry("d2", "a", Both), Entry("d3", "a", Both)>>),
   Authors(<<Entry("d1", "a", Both), Entry("d1", "a", OnlyFalse)>>),
   Authors(<<>>)}
Called(results, mapping) ==
  [results |-> results, definitions |-> "definitions.xml", mapping |-> mapping]

MCFileNames == {Called("scan.xml", "mapping.json"), Called("renamed.xml", "mapping.json")}
=============================================================================
