----------------------------- MODULE ReviewCache -----------------------------
(***************************************************************************)
(* The host's side of an offline review up to the running guest: staging   *)
(* the dependency cache from a checkout, and launching the virtual machine *)
(* from the same checkout with a copy of that cache, while the operator    *)
(* edits the checkout, checks out another commit or disturbs the cache.    *)
(* Both scripts run under `set -e`: they may stop at any command, and what *)
(* that command was writing is then there in part.                         *)
(*                                                                         *)
(* A commit stands for its own files and for the hash of each of them.     *)
(* The three download directories and two text files of a cache are the    *)
(* names of Names; its checksum manifest maps names to what they held.     *)
(***************************************************************************)
EXTENDS Naturals, Sequences, FiniteSets

CONSTANTS
  Commits,
  None,      \* absent
  Part,      \* there, not whole
  MaxEdits   \* bound on what the operator does besides running the scripts

ASSUME ConstantsAssumption ==
  /\ Commits # {}
  /\ None \notin Commits /\ Part \notin Commits /\ None # Part
  /\ MaxEdits \in Nat

VARIABLES
  head, tree,  \* the checkout: its commit, and what was done to its files
  edits,       \* operator's edits so far
  cache,       \* the staged directory: [files, sums]
  stager,      \* the staging script: [pc, candidate, hashed, copied]
  launcher,    \* the launching script: [pc, offline, left]
  runtime      \* the runtime directory: None or [candidate, cache, output, manifest]

checkoutVars == <<head, tree>>
hostVars == <<head, tree, edits, cache, stager, launcher, runtime>>

Names == {"apk", "python", "npm", "metadata", "provenance"}
Trees == {"clean", "untracked", "edited"}

\* The files of a commit, perhaps changed at some place: changes made at
\* different places are different code.
Code(commit, state, place) ==
  [commit |-> commit, state |-> state, place |-> IF state = "clean" THEN None ELSE place]
Clean(commit) == Code(commit, "clean", None)

\* What reading a file of a checkout gives: a change need not be to that file.
Versions(code) == {Clean(code.commit), code}
RootVersions == Versions(Code(head, tree, "root"))

\* What the checkout can hold, and what a whole file of a cache can.
Codes == {Code(c, t, "root") : c \in Commits, t \in Trees}
Wholes ==
  Codes \cup {[closure |-> TRUE]} \cup [staged : Commits] \cup [candidate : Commits, hashed : Codes]

ASSUME WholeAssumption == None \notin Wholes /\ Part \notin Wholes

Empty == [files |-> [n \in Names |-> None], sums |-> None]
Present(dir) == {n \in Names : dir.files[n] # None}
NotStaging == [pc |-> "idle", candidate |-> None, hashed |-> None, copied |-> None]
NotLaunching == [pc |-> "idle", offline |-> TRUE, left |-> {}]

Init ==
  /\ head \in Commits /\ tree = "clean" /\ edits = 0
  /\ cache = Empty /\ stager = NotStaging
  /\ launcher = NotLaunching /\ runtime = None

-----------------------------------------------------------------------------
(* Staging.  While a file or directory of the cache is being written, pc   *)
(* is its name.                                                            *)

Staging(pc) == stager.pc = pc
Others == <<head, tree, edits, launcher, runtime>>

StageBegin ==
  /\ Staging("idle") /\ Present(cache) = {} /\ cache.sums = None
  /\ stager' = [NotStaging EXCEPT !.pc = "freeze"]
  /\ UNCHANGED <<Others, cache>>

\* git status --porcelain also lists untracked files.
StageFreeze ==
  /\ Staging("freeze")
  /\ stager' = IF tree = "clean" THEN [stager EXCEPT !.pc = "hash", !.candidate = head] ELSE NotStaging
  /\ UNCHANGED <<Others, cache>>

StageHash ==
  /\ Staging("hash")
  /\ \E code \in RootVersions : stager' = [stager EXCEPT !.pc = "apk", !.hashed = code]
  /\ UNCHANGED <<Others, cache>>

\* The next thing written, and what is written under each name.
After(name) ==
  CASE name = "apk" -> "python" [] name = "python" -> "npm" [] name = "npm" -> "metadata"
    [] name = "metadata" -> "provenance" [] name = "provenance" -> "sums"

Metadata(candidate, hashed) == [candidate |-> candidate, hashed |-> hashed]

Written(name, code) ==
  CASE name = "apk" -> [closure |-> TRUE]
    [] name = "python" -> code
    [] name = "npm" -> stager.copied
    [] name = "metadata" -> Metadata(stager.candidate, stager.hashed)
    [] name = "provenance" -> [staged |-> stager.candidate]

\* The two manifests for npm are copied after the packages are fetched, and pip
\* reads its own; both may have changed since they were hashed.
StageWrite ==
  \E name \in Names, code \in RootVersions :
    /\ Staging(name)
    /\ cache' = [cache EXCEPT !.files[name] = Written(name, code)]
    /\ stager' = [stager EXCEPT !.pc = After(name), !.copied = IF name = "apk" THEN code ELSE @]
    /\ UNCHANGED Others

\* The order in which the checksums are written.
Sorted == <<"metadata", "provenance", "apk", "npm", "python">>

SumsOf(names) == [n \in names |-> cache.files[n]]

\* Faulty variant: the checksum manifest lists itself.
StageSumsOfItself ==
  /\ Staging("sums")
  /\ cache' = [cache EXCEPT !.sums = [n \in Present(cache) \cup {"sums"} |->
                                       IF n = "sums" THEN Part ELSE cache.files[n]]]
  /\ stager' = NotStaging
  /\ UNCHANGED Others

StageSums ==
  /\ Staging("sums")
  /\ cache' = [cache EXCEPT !.sums = SumsOf(Present(cache))]
  /\ stager' = NotStaging
  /\ UNCHANGED Others

StageStops ==
  /\ ~Staging("idle")
  /\ stager' = NotStaging
  /\ \/ UNCHANGED cache
     \/ stager.pc \in Names /\ cache' = [cache EXCEPT !.files[stager.pc] = Part]
     \/ /\ Staging("sums")
        /\ \E k \in 0 .. Len(Sorted) - 1 :
             cache' = [cache EXCEPT !.sums = SumsOf(Present(cache) \cap {Sorted[n] : n \in 1 .. k})]
  /\ UNCHANGED Others

-----------------------------------------------------------------------------
(* Validation of a cache: validate-alpha-review-cache.py.                  *)

CacheAccepted(dir, candidate) ==
  /\ {"apk", "python", "npm", "metadata"} \subseteq Present(dir)
  /\ dir.sums # None
  /\ dir.files["metadata"] = Metadata(candidate, Clean(candidate))
  /\ DOMAIN dir.sums = Present(dir)
  /\ \A n \in DOMAIN dir.sums : dir.sums[n] = dir.files[n]

-----------------------------------------------------------------------------
(* Launching.                                                              *)

Launching(pc) == launcher.pc = pc
Rest == <<head, tree, edits, cache, stager>>

\* cp -a, in any order, while the original may change: the downloads are copied
\* together, each text on its own.
Units == {{"apk", "python", "npm"}, {"metadata"}, {"provenance"}, {"sums"}}

\* The runtime directory must not exist; without the explicit online option a
\* cache is needed.
LaunchBegin ==
  /\ Launching("idle") /\ runtime = None
  /\ \E offline \in BOOLEAN : launcher' = [pc |-> "freeze", offline |-> offline, left |-> {}]
  /\ UNCHANGED <<Rest, runtime>>

\* git diff does not see untracked files.  The fetch is of a commit, whatever
\* becomes of the checkout.
LaunchFreeze ==
  /\ Launching("freeze")
  /\ IF tree = "edited"
       THEN launcher' = NotLaunching /\ UNCHANGED runtime
       ELSE /\ launcher' = IF launcher.offline
                             THEN [launcher EXCEPT !.pc = "copy", !.left = Units]
                             ELSE [launcher EXCEPT !.pc = "expect"]
            /\ runtime' = [candidate |-> head, cache |-> Empty, output |-> None, manifest |-> None]
  /\ UNCHANGED Rest

LaunchCopy ==
  /\ Launching("copy")
  /\ \E unit \in launcher.left :
       /\ runtime' = [runtime EXCEPT
            !.cache.files = [n \in Names |-> IF n \in unit THEN cache.files[n] ELSE @[n]],
            !.cache.sums = IF "sums" \in unit THEN cache.sums ELSE @]
       /\ launcher' = [launcher EXCEPT !.left = @ \ {unit},
                                       !.pc = IF launcher.left = {unit} THEN "validate" ELSE "copy"]
  /\ UNCHANGED Rest

\* Faulty variant: the original is validated instead of the copy.
LaunchValidateOriginal ==
  /\ Launching("validate")
  /\ launcher' = [launcher EXCEPT !.pc = IF CacheAccepted(cache, runtime.candidate) THEN "expect" ELSE "stopped"]
  /\ UNCHANGED <<Rest, runtime>>

LaunchValidate ==
  /\ Launching("validate")
  /\ launcher' = [launcher EXCEPT !.pc = IF CacheAccepted(runtime.cache, runtime.candidate)
                                           THEN "expect" ELSE "stopped"]
  /\ UNCHANGED <<Rest, runtime>>

\* validate-alpha-workflow.py --record, in the checkout as it is now: first the
\* review's artifacts are made, then the commit and the fixtures are recorded.
LaunchExpect ==
  /\ Launching("expect")
  /\ launcher' = [launcher EXCEPT !.pc = "record"]
  /\ \E code \in RootVersions : runtime' = [runtime EXCEPT !.output = code]
  /\ UNCHANGED Rest

LaunchRecord ==
  /\ Launching("record")
  /\ launcher' = [launcher EXCEPT !.pc = "boot"]
  /\ \E sources \in RootVersions :
       runtime' = [runtime EXCEPT !.manifest =
                    [commit |-> head, sources |-> sources, artifacts |-> runtime.output]]
  /\ UNCHANGED Rest

\* The scripts of the guest are written, the image and noVNC are fetched and
\* verified, QEMU starts.
LaunchBoot ==
  /\ Launching("boot")
  /\ launcher' = [launcher EXCEPT !.pc = "running"]
  /\ UNCHANGED <<Rest, runtime>>

LaunchStops ==
  /\ launcher.pc \in {"copy", "validate", "expect", "record", "boot"}
  /\ launcher' = [launcher EXCEPT !.pc = "stopped", !.left = {}]
  /\ UNCHANGED <<Rest, runtime>>

-----------------------------------------------------------------------------
(* The operator.  A cache is not disturbed while it is being staged.       *)

Editing == edits < MaxEdits /\ edits' = edits + 1

EditCheckout ==
  /\ Editing
  /\ \/ tree' \in Trees \ {tree} /\ UNCHANGED head
     \/ tree = "clean" /\ head' \in Commits \ {head} /\ UNCHANGED tree
  /\ UNCHANGED <<cache, stager, launcher, runtime>>

DisturbCache ==
  /\ Editing /\ Staging("idle")
  /\ \/ cache' = Empty
     \/ \E n \in Present(cache), content \in {None, Part} : cache' = [cache EXCEPT !.files[n] = content]
  /\ UNCHANGED <<checkoutVars, stager, launcher, runtime>>

HostNext ==
  \/ StageBegin \/ StageFreeze \/ StageHash \/ StageWrite \/ StageSums \/ StageStops
  \/ LaunchBegin \/ LaunchFreeze \/ LaunchCopy \/ LaunchValidate \/ LaunchExpect \/ LaunchRecord
  \/ LaunchBoot \/ LaunchStops
  \/ EditCheckout \/ DisturbCache

Spec == Init /\ [][HostNext]_hostVars

-----------------------------------------------------------------------------
(* Properties.                                                             *)

Registers == Codes \cup {None}
Contents == Wholes \cup {None, Part}
Directories(dir) ==
  /\ DOMAIN dir = {"files", "sums"} /\ dir.files \in [Names -> Contents]
  /\ dir.sums # None => DOMAIN dir.sums \subseteq Names /\ \A n \in DOMAIN dir.sums : dir.sums[n] \in Contents

\* Every variable has its shape; a checksum manifest lists parts of the cache,
\* never itself (stage-alpha-review-cache.sh:83).
TypeOK ==
  /\ head \in Commits /\ tree \in Trees /\ edits \in 0 .. MaxEdits
  /\ Directories(cache)
  /\ stager \in [pc : {"idle", "freeze", "hash", "sums"} \cup Names, candidate : Commits \cup {None},
                 hashed : Registers, copied : Registers]
  /\ launcher \in [pc : {"idle", "freeze", "copy", "validate", "expect", "record", "boot", "running", "stopped"},
                   offline : BOOLEAN, left : SUBSET Units]
  /\ runtime # None =>
       /\ runtime.candidate \in Commits /\ Directories(runtime.cache)
       /\ runtime.output \in Registers
       /\ runtime.manifest # None => runtime.manifest \in [commit : Commits, sources : Codes, artifacts : Codes]

\* An offline guest runs on a whole cache that was staged for its candidate:
\* the copy it is given has every download and text, none of them partly
\* written, whenever staging stopped, the cache was disturbed or staged anew
\* while it was being copied (launch-alpha-review-vm.sh:56-63).
VmCacheIsWhole ==
  launcher.offline /\ launcher.pc \in {"expect", "record", "boot", "running"} =>
    /\ \A n \in Names : runtime.cache.files[n] \notin {None, Part}
    /\ runtime.cache.files["metadata"] = 
         Metadata(runtime.candidate, Clean(runtime.candidate))
=============================================================================
