----------------------- MODULE MCArtifactPublication -----------------------
(* Small instances of ArtifactPublication.                                 *)
EXTENDS ArtifactPublication, TLC

MCContents ==
  [r \in Roles |->
     CASE r = "results" -> {"r1", "r2"} [] r = "definitions" -> {"d1", "d2"}
       [] r = "mapping" -> {"m1"} [] r = "xccdf" -> {"x1", "x2"}
       [] r = "arf" -> {"a1", "a2"} [] r = "xccdf-mapping" -> {"xm1"}]

\* d1 goes with r1 alone; d2 defines everything but is of r2's version.
MCDefined == {<<"r1", "d1">>, <<"r1", "d2">>, <<"r2", "d2">>}
MCSameSchema == {<<"r1", "d1">>, <<"r2", "d1">>, <<"r2", "d2">>}

\* x2 carries a time that XML Schema accepts and Python does not; a2 links
\* two XCCDF reports.
MCConvertible == {"x1", "a1"}
MCOneReport == {"a1"}

MCInitialFile ==
  [r \in Roles |->
     CASE r = "results" -> "r1" [] r = "definitions" -> "d1" [] r = "mapping" -> "m1"
       [] r = "xccdf" -> "x1" [] r = "arf" -> "a1" [] r = "xccdf-mapping" -> "xm1"]

MCOutputOf == [p \in Runs |-> "out"]
MCReads == [r \in Readers |-> "out"]

ConvertAndReport == ("p1" :> "convert") @@ ("p2" :> "report")
ConvertAndXccdf == ("p1" :> "convert") @@ ("p2" :> "convert-xccdf")
ConvertAndArf == ("p1" :> "convert") @@ ("p2" :> "convert-arf-xccdf")

OvalRoles == {"results", "definitions"}
MixedRoles == {"results", "arf"}
XccdfRoles == {"xccdf"}
ResultsRole == {"results"}
=============================================================================
