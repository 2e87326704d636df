---------------------------- MODULE ReviewSession ----------------------------
(***************************************************************************)
(* A review from the first staging of a cache to the verified export: the  *)
(* host of ReviewCache, the guest in which a reviewer runs the scripts s,  *)
(* r, v and e one at a time, and verify-alpha-review-export.py on the      *)
(* host.  Every command of a script may fail, a failed script is run again *)
(* or not, and the virtual machine may be restarted, which empties its     *)
(* /tmp but not the export directory it shares with the host.              *)
(***************************************************************************)
EXTENDS ReviewCache

VARIABLES
  guest,        \* [pc, use, work, venv, npm, review]
  export,       \* the exported directory: None or what is in it
  verifier,     \* [pc, content]
  destination   \* the verified directory: None or what is in it

vars == <<hostVars, guest, export, verifier, destination>>

Workspaces == {"first", "retry"}
Artifacts == {"pass.json", "fail.json", "mapping-report.html"}
Record == "export-verification.json"
Candidate == Clean(runtime.candidate)

FreshGuest ==
  [pc |-> "idle", use |-> "first", work |-> [w \in Workspaces |-> None],
   venv |-> [w \in Workspaces |-> "none"], npm |-> {}, review |-> None]
NotVerifying == [pc |-> "idle", content |-> None]

SessionInit ==
  /\ Init
  /\ guest = FreshGuest /\ export = None
  /\ verifier = NotVerifying /\ destination = None

Running == launcher.pc = "running"
Shell(pc) == Running /\ guest.pc = pc
HostAnd(v) == UNCHANGED <<hostVars, v>>
GuestStep(g) == guest' = g /\ UNCHANGED <<hostVars, export, verifier, destination>>
Fails == GuestStep([guest EXCEPT !.pc = "idle", !.use = "first"])
Continue(pc) == GuestStep([guest EXCEPT !.pc = pc])

-----------------------------------------------------------------------------
(* s and r: prepare-alpha-review-vm.sh, in a workspace of its own.         *)

PrepareBegin ==
  /\ Shell("idle")
  /\ \E w \in Workspaces :
       /\ guest.work[w] = None /\ guest.venv[w] = "none"
       /\ GuestStep([guest EXCEPT !.pc = "copy", !.use = w])

\* Packages are added, then the kit is copied.
PrepareCopy ==
  /\ Shell("copy")
  /\ \/ GuestStep([guest EXCEPT !.pc = "venv", !.work[guest.use] = Candidate])
     \/ GuestStep([guest EXCEPT !.pc = "idle", !.use = "first", !.work[guest.use] = Part])
     \/ Fails

\* A failed venv may or may not have an interpreter.
PrepareVenv ==
  /\ Shell("venv")
  /\ \/ GuestStep([guest EXCEPT !.pc = "pip", !.venv[guest.use] = "bare"])
     \/ \E left \in {"broken", "bare"} : GuestStep([guest EXCEPT !.pc = "idle", !.use = "first", !.venv[guest.use] = left])
     \/ Fails

\* Without a network, only what the cache holds can be installed.
Installable(name) == launcher.offline => runtime.cache.files[name] = Candidate

PreparePip ==
  /\ Shell("pip")
  /\ \/ Installable("python") /\ GuestStep([guest EXCEPT !.pc = "npm", !.venv[guest.use] = "ready"])
     \/ Fails

PrepareNpm ==
  /\ Shell("npm")
  /\ \/ Installable("npm") /\ GuestStep([guest EXCEPT !.pc = "idle", !.use = "first", !.npm = @ \cup {guest.use}])
     \/ Fails

-----------------------------------------------------------------------------
(* v: the workspace of a retry is used as soon as it has an interpreter.   *)

Chosen == IF guest.venv["retry"] \in {"bare", "ready"} THEN "retry" ELSE "first"

\* git diff does not see untracked files.
ValidateBegin ==
  /\ Shell("idle")
  /\ guest.work[Chosen] \notin {None, Part}
  /\ guest.work[Chosen].state # "edited"
  /\ GuestStep([guest EXCEPT !.pc = "mkdir", !.use = Chosen])

\* validate-alpha-workflow.py --review-output: the directory must be new, also
\* after a failed validation.
ValidateMkdir ==
  /\ Shell("mkdir")
  /\ IF guest.review = None
       THEN GuestStep([guest EXCEPT !.pc = "pass.json", !.review = <<>>])
       ELSE Fails

Extended(dir, name, content) == [n \in DOMAIN dir \cup {name} |-> IF n = name THEN content ELSE dir[n]]

NextArtifact(name) ==
  CASE name = "pass.json" -> "fail.json" [] name = "fail.json" -> "oscal" [] OTHER -> "idle"

\* The checks after the last artifact change nothing.  The commands publish whole artifacts or none (ArtifactPublication).
ValidateArtifact ==
  \E name \in Artifacts :
    /\ Shell(name)
    /\ \/ /\ guest.venv[guest.use] = "ready"
          /\ \E code \in Versions(guest.work[guest.use]) :
               GuestStep([guest EXCEPT !.pc = NextArtifact(name),
                                       !.use = IF NextArtifact(name) = "idle" THEN "first" ELSE @,
                                       !.review = Extended(@, name, code)])
       \/ Fails

ValidateOscal ==
  /\ Shell("oscal")
  /\ IF guest.use \in guest.npm THEN Continue("mapping-report.html") ELSE Fails

-----------------------------------------------------------------------------
(* e: the export directory must be new, and is filled in this order.       *)

ExportOrder == <<"pass.json", "fail.json", "mapping-report.html">>

ExportBegin ==
  /\ Shell("idle") /\ guest.review # None /\ export = None
  /\ guest' = [guest EXCEPT !.pc = "export"]
  /\ export' = <<>>
  /\ UNCHANGED <<hostVars, verifier, destination>>

ExportCopy ==
  /\ Shell("export")
  /\ LET done == Cardinality(DOMAIN export)
         name == ExportOrder[done + 1]
     IN IF name \in DOMAIN guest.review
          THEN \/ /\ export' = Extended(export, name, guest.review[name])
                  /\ guest' = [guest EXCEPT !.pc = IF done + 1 = Len(ExportOrder) THEN "idle" ELSE "export"]
                  /\ UNCHANGED <<hostVars, verifier, destination>>
               \/ /\ export' = Extended(export, name, Part)
                  /\ guest' = [guest EXCEPT !.pc = "idle"]
                  /\ UNCHANGED <<hostVars, verifier, destination>>
          ELSE Fails

-----------------------------------------------------------------------------
(* Verification on the host.                                               *)

Verifying(pc) == verifier.pc = pc
GuestSide == <<hostVars, guest, export>>

Expects ==
  /\ runtime.manifest # None
  /\ runtime.manifest.commit = runtime.candidate
  /\ runtime.manifest.sources = Candidate

\* Faulty variant: the exported files are not compared with the manifest.
ExportHasTheNames == export # None /\ DOMAIN export = Artifacts /\ Expects

ExportAccepted ==
  /\ export # None /\ DOMAIN export = Artifacts
  /\ Expects
  /\ \A name \in Artifacts : export[name] = runtime.manifest.artifacts

\* The bytes that were compared are held until they are written.
VerifyRead ==
  /\ verifier.pc \in {"idle", "failed"} /\ Running
  /\ verifier' = IF ExportAccepted THEN [pc |-> "mkdir", content |-> export] ELSE NotVerifying
  /\ UNCHANGED <<GuestSide, destination>>

VerifyMkdir ==
  /\ Verifying("mkdir")
  /\ IF destination = None
       THEN verifier' = [verifier EXCEPT !.pc = "fail.json"] /\ destination' = <<>>
       ELSE verifier' = NotVerifying /\ UNCHANGED destination
  /\ UNCHANGED GuestSide

\* Faulty variant: the record is written before the last artifact.
RecordBeforeLast(name) ==
  CASE name = "fail.json" -> "mapping-report.html" [] name = "mapping-report.html" -> Record
    [] OTHER -> "idle"

\* While a file is being written, pc is its name: the artifacts, then the record.
WrittenAfter(name) ==
  CASE name = "fail.json" -> "mapping-report.html" [] name = "mapping-report.html" -> "pass.json"
    [] name = "pass.json" -> Record [] OTHER -> "idle"

Writing(name) == name \in Artifacts \cup {Record} /\ Verifying(name)

VerifyWrite ==
  /\ \E name \in Artifacts \cup {Record} :
       /\ Writing(name)
       /\ destination' = Extended(destination, name,
                                  IF name = Record THEN runtime.candidate ELSE verifier.content[name])
       /\ verifier' = [pc |-> WrittenAfter(name), content |-> IF name = Record THEN None ELSE verifier.content]
  /\ UNCHANGED GuestSide

\* The directory with some of its files, the one being written in part.
Leaves ==
  \E left \in SUBSET (DOMAIN destination \cup {verifier.pc}) :
    destination' = [name \in left |-> IF name = verifier.pc THEN Part ELSE destination[name]]

\* The exception handler removes the files, in any order, and the directory;
\* if an unlink or the rmdir fails in turn, the rest is left.
VerifyFails ==
  /\ Writing(verifier.pc)
  /\ verifier' = [pc |-> "failed", content |-> None]
  /\ destination' = None \/ Leaves
  /\ UNCHANGED GuestSide

\* A verification may be killed while it writes a file or cleans up.
VerifyKilled ==
  /\ Verifying("mkdir") \/ Writing(verifier.pc)
  /\ verifier' = NotVerifying
  /\ \/ UNCHANGED destination
     \/ Writing(verifier.pc) /\ Leaves
  /\ UNCHANGED GuestSide

-----------------------------------------------------------------------------
(* The operator.                                                           *)

EditWork ==
  /\ Running /\ Editing
  /\ \E w \in Workspaces, state \in {"untracked", "edited"} :
       /\ guest.work[w] = Candidate
       /\ guest' = [guest EXCEPT !.work[w] = Code(runtime.candidate, state, "guest")]
  /\ UNCHANGED <<checkoutVars, cache, stager, launcher, runtime, export, verifier, destination>>

RestartGuest ==
  /\ Running /\ guest # FreshGuest
  /\ GuestStep(FreshGuest)

SessionNext ==
  \/ HostNext /\ UNCHANGED <<guest, export, verifier, destination>>
  \/ PrepareBegin \/ PrepareCopy \/ PrepareVenv \/ PreparePip \/ PrepareNpm
  \/ ValidateBegin \/ ValidateMkdir \/ ValidateArtifact \/ ValidateOscal
  \/ ExportBegin \/ ExportCopy
  \/ VerifyRead \/ VerifyMkdir \/ VerifyWrite \/ VerifyFails \/ VerifyKilled
  \/ EditWork \/ RestartGuest

SessionSpec == SessionInit /\ [][SessionNext]_vars

-----------------------------------------------------------------------------
(* Properties.                                                             *)

Verified == destination # None /\ Record \in DOMAIN destination /\ destination[Record] # Part

\* A verified export holds what the candidate's own code makes of the fixtures:
\* whatever was edited in the checkout while the expected manifest was made
\* (launch-alpha-review-vm.sh:46,67), whichever workspace v took, and whatever
\* was left by failed scripts (verify-alpha-review-export.py:101-117).
VerifiedIsOfCandidate ==
  Verified =>
    /\ destination[Record] = runtime.candidate
    /\ \A name \in Artifacts : destination[name] = Candidate

\* The record is the last thing a verification writes: one that fails at any
\* file leaves nothing that passes for a verified export, not even when it is
\* killed or its own cleanup fails at any of the files, and a directory with a
\* whole record has every artifact, whole (verify-alpha-review-export.py:81-98).
VerifiedOrNothing ==
  /\ verifier.pc = "failed" => ~ Verified
  /\ Verified => Artifacts \subseteq DOMAIN destination /\ \A n \in DOMAIN destination : destination[n] # Part
=============================================================================
