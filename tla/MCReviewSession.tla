--------------------------- MODULE MCReviewSession ---------------------------
(* Two commits, interchangeable.  While the guest runs, nothing it or the    *)
(* verification does depends on the checkout, the staged cache or the        *)
(* staging script, so states that differ in these alone are seen as one; so  *)
(* are those that differ in what a failed or killed verification left, which *)
(* nothing reads or changes, unless a whole record is among it.              *)
EXTENDS ReviewSession, TLC

Interchangeable == Permutations(Commits)

LeftBehind == destination # None /\ ~ Verified /\ ~ Writing(verifier.pc)

Seen ==
  IF Running
    THEN <<launcher, runtime, edits, guest, export, verifier, LeftBehind,
           IF LeftBehind THEN None ELSE destination>>
    ELSE vars
=============================================================================
