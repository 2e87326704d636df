# A TLA+ model of Endeavor

Endeavor (`src/endeavor/`) converts security-scan evidence (OVAL, XCCDF and ARF
files) into OSCAL Assessment Results, reports what an authored mapping covers,
compares results, and resolves authored links between the parts of an ARF
collection. It is a command-line program: each invocation is one
operating-system process that reads a few files, decides, and either prints a
document or publishes one file. What is hard in it is therefore not threads but

* what several invocations, and the tools that write their inputs, do to the
  same files at the same time;
* which of its many steps fails, and what is left behind and reported then;
* whether the identifiers, links and coverage statements in its documents stay
  true of sources that are ambiguous, incomplete, or change between two runs.

This directory holds a model of that behaviour in TLA+, TLC configurations
that check it on small instances, and proofs, checked by TLAPS, of what matters
most for instances of any size. `PROJECT.json` maps every definition to the
source lines it stands for.

## Inventory of the system

| Component | State it keeps | Operations | Hard behaviour | What makes it correct |
| --- | --- | --- | --- | --- |
| Command line and publication (`cli.py`) | output directory, temporary files | `convert`, `report`, `convert-xccdf`, `convert-arf-xccdf`; printing commands | concurrent runs on one `--output`, failing system calls, kills, readers | an artifact is whole or absent, old artifacts survive failures, exit codes tell the effect |
| Input reading (`oval.py`, `xccdf.py`, `arf.py`, `mapping.py`) | none | `lstat`, read, validate | the file changes between two calls; errors converted by some readers only | input faults end in exit code 3 |
| OVAL evidence (`oval.py`, `mapping.py`, `convert.py`) | none; documents identify each other by hash | parse, convert, report coverage | duplicate, stale and missing identifiers; edited mappings | UUIDs are unique and stable, findings are authored |
| Review (`diff.py`, `findings.py`) | none | compare, list | artifacts of different runs and mappings | a delta is of the scans, no finding is lost |
| ARF intake (`arf.py`) | none | `inspect_arf` | contradicting relationships, two vocabularies | links are resolved from the document alone, once |
| ARF linkage (`arf_linkage.py`) | none; reads the file twice | `inspect-arf-linkage` | the file changes between the reads; links that nearly fit | all links, in the declared bytes, or none |
| XCCDF evidence (`xccdf.py`, `xccdf_mapping.py`, `xccdf_convert.py`) | none; documents identify each other by hash | inspect, convert, report | several TestResults, benchmarks of their own, duplicate rules, a collection with several reports | findings are authored, a UUID means one thing, the report and the artifact agree, a collection is converted whole |
| Evidence contract (`evidence.py`) | none | normalise | references between parts | references resolve, and state what the artifact states |
| Release pipeline (`release.yml`, `build-release-source.py`, GA gates) | the release directory, tags, the readiness record, the workflow's artifact, the release | build, check, gate, transfer, publish, run again | reruns after partial failure, files lost in transfer, a gate that reads the commit it is about | what is published is of the tag's commit, and whole as far as its checksums list it |
| Review cache and VM (`stage-…`, `validate-…`, `launch-…`, `prepare-…`, `verify-…`) | cache directory, runtime directory, workspaces, export, verified directory | stage, validate, launch, prepare, retry, export, verify | stopping at any command, a checkout and a cache that change meanwhile, retries over leftovers | an incomplete cache or export is never taken for a complete one, and a verified one is the candidate's |
| HTML report, schemas, sanitizers, quality tools | none | render, validate, rewrite | none | content of texts |

The components interact through files: an input file is written by a scanner or
an author and read by a run; an artifact is written by `convert` and read later
by `diff` and `findings`; a mapping report and an artifact are written by
separate runs over the same inputs. Within a run they interact by calls from
`main`, and by the exceptions `main` turns into exit codes. The scripts around
the program interact through directories: a staged cache is copied into a
runtime directory and from there into a guest, whose export is compared on the
host with what the host's own checkout made; a release directory is built by one
job and read by another.

## Modules

| Module | What it is |
| --- | --- |
| `AtomicOutput` | abstract specification: a publication replaces the document at a path in one step or not at all |
| `ArtifactPublication` | the writing commands as processes over one directory, and their readers |
| `ArtifactPublicationProofs` | its inductive invariant, the theorems and the refinement of `AtomicOutput` |
| `OvalEvidence` | what `convert`, `mapping-report`, `diff` and `findings` say, as a growing archive of outputs |
| `FlattenLemmas` | what joining sequences of sequences returns, in which order and how many |
| `OvalEvidenceProofs` | the inductive invariant of `OvalEvidence` and theorems |
| `ArfIntake` | operators: what `inspect_arf` accepts and resolves |
| `ArfIntakeProofs` | lemmas: what acceptance by `inspect_arf` means for a document |
| `ArfLinkage` | `inspect-arf-linkage` as a process over a file that is rewritten; extends `ArfIntake` |
| `ArfLinkageProofs` | its inductive invariant and theorems |
| `XccdfEvidence` | what `convert-xccdf`, `convert-arf-xccdf`, `mapping-report-xccdf` and `inspect-evidence` say; extends `ArfIntake` |
| `XccdfEvidenceProofs` | its inductive invariant and theorems |
| `ReleasePipeline` | the build script, the jobs of `release.yml` and the GA gate, over a growing history |
| `ReleaseRegistry` | abstract specification: a pushed prerelease tag is released once, of its commit |
| `ReleasePipelineProofs` | the inductive invariant, theorems and the refinement of `ReleaseRegistry` |
| `ReviewCache` | the host: staging the offline cache and launching the virtual machine with a copy of it |
| `ReviewSession` | the whole review: the guest's scripts and the verification of its export; extends `ReviewCache` |
| `ReviewSessionProofs` | the inductive invariant of the host and the session, and theorems |
| `MCArtifactPublication`, `MCOvalEvidence`, `MCArfLinkage`, `MCXccdfEvidence`, `MCReviewSession`, `MCReleasePipeline` | the instances TLC checks |

Each module contains, beside the definitions that translate the code, marked
*faulty variants*: the same definition with a mistake a programmer could make.
No specification uses them. They show that a property is sensitive: with the
variant in place of the definition, TLC finds the property violated.

### ArtifactPublication

A run `p` has a `pc`, the statement of `main` it is about to execute, and one
action for every statement that can change the disk or raise:

| Action | Code |
| --- | --- |
| `Begin`, `BadArguments` | argument parsing, `cli.py:106-109`, `_ArgumentParser.error` |
| `Lstat`, `Read` | `lstat` and `read_bytes` plus validation, in `oval.py`, `xccdf.py`, `arf.py`, `mapping.py`, for each input in the order `main` asks for it |
| `Convert` | `assessment_results`, `mapping_report`, `assessment_results_from_arf`: accept, `OvalInputError`, or an exception `main` does not catch |
| `Mkdir`, `Mkstemp` | `cli.py:168-170` |
| `Flush`, `Close` | a part of the document, and the rest of it, reach the file (`cli.py:171-174`) |
| `Replace`, `Cleanup`, `Exit` | `os.replace`, the `except Exception` block, the exit code |
| `Kill` | SIGKILL, SIGTERM or KeyboardInterrupt at any statement |
| `ReaderLstat`, `ReaderOpen`, `ReaderRead` | `diff._read_json` |
| `Edit` | an input file is rewritten or removed by another tool |

The directory `entry` maps names to inodes and `data` says how much of its
document an inode holds, so that a rename replaces a name, never an open file. A
run creates at most one inode, so the run names it. `got` holds the bytes a run
parsed, role by role: files are read one after the other, so `got` may be a
combination that was never on disk at one time. `blame` and `installed` are
history variables, read by no guard.

Every system call may fail with `OSError`. Which readers convert it
(`LstatError`, `ReadError`) is taken from each reader's own `except` clauses. Four
more failures of an input are in `Read` and `Convert`, since `main` reports each
in its own way: a bundled schema that cannot be read or compiled, also when the
input is valid (exit 4 or 1); bytes a parser raises on without a diagnostic
(`Unguarded`: a mapping nested too deeply, `mapping.py:102`, or an ARF component
that holds a comment alone, `arf.py:115`; exit 1); and what a converter raises of
inputs that were accepted (`Verdict`: the `KeyError` of a report, and the
`ValueError` of a time or `TypeError` of a missing identifier in an XCCDF
conversion, which is what inputs that are not `Convertible` have; exit 1).

### OvalEvidence

A document is a record of what its parser takes from it. Distinct documents have
distinct SHA-256 hashes and `uuid5` is taken to be injective on its parts (they are
joined with a separator that cannot occur in XML text or a hash), so a document
stands for its own hash and the sequence of hashed parts for the UUID. The names of
the files are inputs of their own: `convert` publishes them in the title and the
link of each resource (`Resources`) and hashes none of them. So the same three files
under another name give another document, whose UUIDs are those of the first.
`UuidsIdentifyContent` says that this is all two documents of one UUID can differ in
(`Content`). The state is the set of outputs of all runs so far: `convert` and
`mapping-report` add an output from any accepted documents, `diff` and `findings`
from any artifacts already there. A rejected run adds nothing. How an output gets to
disk is the subject of `ArtifactPublication`. The lists the code builds in nested
loops are flattened sequences of sequences, in document order; `DocumentsAssumption`
says that the parsers return sequences of records of their kind, and nothing of what
is in them.

### ArfIntake and ArfLinkage

An ARF document is a record of assets, reports, requests (collections of
components and streams of references) and relationships, in document order where
the code depends on it (`next(...)` takes a first match). `ArfLinkage` runs
`parse_linkage`, the `lstat` and read of `inspect_arf`, the second read of
`resolve_linkage`, and then one `Resolve` step for every link, while `Rewrite`
may change the file between any two of these. Statuses and rule results of the
reports are left out of `ArfIntake`; definition identifiers and profiles are kept
because links depend on them. A component that holds a comment and no element is a
payload of its own kind: `inspect_arf` raises a `ValueError` on a reference to it,
which nothing catches, if no earlier check refuses the document (`IntakeRaises`); in
a report the schema allows none. A linkage nested too deeply, an `lstat` that fails
on a file that is there, and a read that fails are outcomes of their steps, with the
exit codes 1, 3 and 4. `IsOrdered` is all that the proofs assume of a
document: that its parts are sequences. `Where` selects the elements of a
sequence that pass a test; it is what `SelectSeq` returns, written so that a
proof can open it.

### XccdfEvidence

As `OvalEvidence`: a document stands for its hash, the sequence of hashed parts
for a UUID, and the state is the archive of the outputs of all runs so far.

| Action | Code |
| --- | --- |
| `ConvertXccdf` | `inspect_xccdf`, `parse_mapping`, `assessment_results` |
| `ConvertArfXccdf` | `inspect_arf` (`ArfIntake`), `assessment_results_from_arf` over the one TestResult report |
| `ReportXccdf` | `xccdf_mapping.mapping_report` |
| `InspectEvidence` | `normalize_xccdf`, `normalize_arf` |

A TestResult may have a benchmark element of its own, which counts even when it
has no id; `BenchmarkOf` says which identifier the code uses. The rule-results
of an embedded TestResult are not checked as those of an XCCDF file are, so
`MCArfDocs` holds collections with duplicate and unknown outcomes, and with a
TestResult or a rule-result that has no identifier: that ends a conversion in a
`TypeError` (`Joinable`). The observations of a rule that a collection repeats have
one UUID, since the UUID hashes the run, the TestResult and the rule
(`xccdf_convert.py:32`). `UuidsIdentifyEvidence` is over all artifacts: two
observations of one UUID are of one artifact, TestResult and rule, in the artifact of
an XCCDF file they are the same one, and in that of a collection they may differ in
the outcome. File names are in the resources only and left out here. `evidence.py`
joins the parts of its identifiers by `#`, which no XML identifier contains; the
model keeps the sequence. OVAL files have an envelope too, which is not modelled.

### ReviewCache and ReviewSession

All five scripts run under `set -e` or raise: each command of a script is a step
that may succeed, or stop the script and leave what it was writing in part.

| Action | Code |
| --- | --- |
| `StageBegin`, `StageFreeze`, `StageHash`, `StageWrite`, `StageSums`, `StageStops` | `stage-alpha-review-cache.sh`: new directory, clean checkout, hashes of the requirements, downloads and texts, checksums |
| `LaunchBegin` to `LaunchBoot`, `LaunchStops` | `launch-alpha-review-vm.sh`: new runtime directory, candidate, copy of the cache, its validation, `validate-alpha-workflow.py --record`, boot |
| `CacheAccepted` | `validate-alpha-review-cache.py` |
| `PrepareBegin`, `PrepareCopy`, `PrepareVenv`, `PreparePip`, `PrepareNpm` | `prepare-alpha-review-vm.sh`, in the first workspace (`s`) or that of the retry (`r`) |
| `ValidateBegin`, `ValidateMkdir`, `ValidateArtifact`, `ValidateOscal` | `v`: the choice of a workspace, then `validate-alpha-workflow.py --review-output` |
| `ExportBegin`, `ExportCopy` | `e` |
| `VerifyRead`, `VerifyMkdir`, `VerifyWrite` | `verify-alpha-review-export.py` up to the record |
| `VerifyFails`, `VerifyKilled` | its exception handler and a kill: all files are removed, or, if an `unlink` or `rmdir` fails in turn, any of them are left, the one being written in part (`Leaves`) |
| `EditCheckout`, `DisturbCache`, `EditWork`, `RestartGuest` | the operator |

A file stands for its own hash. A commit stands for the files of a checkout of
it; files changed in the checkout of the host and in a workspace of the guest are
different code, and reading one file of a changed checkout gives the clean or the
changed version, since the change need not be to that file. The download
directories of a cache are units. What the model makes visible:

* `git status --porcelain` of the staging refuses untracked files, `git diff` of
  the launch and of `v` does not, so that the expected manifest and the review
  may be made by code the candidate does not hold. The verification compares
  sources and artifacts, which is why `VerifiedIsOfCandidate` holds.
* Staging hashes the requirements before it uses them. A file changed between
  the two gives a cache whose recorded hash is the candidate's and whose packages
  are not; the launch accepts it. `pip` and `npm` of the guest then refuse what
  does not match the candidate's own requirements (`Installable`), so the review
  stops and nothing is verified.
* `v` takes the workspace of the retry as soon as it has an interpreter; a retry
  whose packages failed makes every later `v` fail although the first workspace
  is ready. A failed `v` leaves the review directory, which the next one refuses
  until the guest is restarted; an `e` of a partial review leaves an export that
  blocks the next. No property calls these states illegal.

A record whose `close` fails after all of it reached the file is taken as one left
in part; a reader of the directory would take it for whole, and its artifacts are.

The guest is taken to be what was booted: nothing is claimed about a guest that
fabricates its export out of the expected values.

### ReleasePipeline

Commits are numbered as they are made; each holds the version of its package and
a readiness record, which can only name a commit that existed when it was
written. A `job` is the workflow run of a tag, or the build of a maintainer in
the checkout of the newest commit (`"local"`); a build writes one file per step,
`pc` being the name of the next one.

| Action | Code |
| --- | --- |
| `Commit`, `WriteRecord`, `PushTag` | the repository's history |
| `BuildBegin`, `BuildFile`, `BuildStops`, `RemoveDirectory` | `build-release-source.py` |
| `Checks` | the steps of the build job before the build; for a GA tag `validate-ga-release-readiness.py` (`GateAccepts`) |
| `Smoke`, `Upload` | `verify-python-distributions.py`, the upload |
| `Download`, `Boundary`, `Publish` | the publish job |
| `Rerun`, `Expire` | all jobs or the failed ones run again; the artifact is kept for a day |

The archive and the distributions are of the commit that was asked for; the
inventory and the version of the package are read from the checkout the script
runs in, which on a runner is the same. Validations that do not depend on the tag
are one step that may fail. A transfer loses or cuts any files, up to `MaxDamage` of
them; of the checksums it may keep the first lines, which list fewer files, so that a
file that was cut as well can pass `sha256sum --check` unlisted. `PublishedIsOfTag`
and `AcceptedAgreesWithManifest` say what is left: a file that the checksums list is
the one of the commit, the manifest is whole and has the hash of every file, and the
archive, which is listed first, is always listed. In a directory that did not go
through a transfer (`BuiltHere`) every file is whole, since the checksums are written
last.

`Smoke` succeeds only if `SmokeParses`. As `release.yml:65-69` is written it is FALSE
(see *Disagreements*); the run takes the step as mended, and a theorem says what
follows if it is not.

## What TLC checks

| Run | Instance | Shows |
| --- | --- | --- |
| `oval_publication` | `convert` and `report` on one `--output`, an artifact there before, two temporary names, one reader, one rewrite of an OVAL input, over a million states | `ArtifactsAreWhole`, `ArtifactsAreAccepted`, `TempsAreAccountedFor`, `ExitTellsEffect`, `OvalExitNamesCause`, `ReadersSeeWholeArtifacts`, `OnlyReplaceChangesArtifacts`, and the inductive invariant `Inv` |
| `mixed_publication` | `convert --mapping` and `convert-arf-xccdf`, no directory at first, one temporary name | `RejectedInputLeavesNoTrace`, `EveryRunEnds`, `EveryReaderEnds`, and that the protocol implements `AtomicOutput` |
| `oval_evidence` | eight scans, three definition files, six mappings, two names of the results file; two runs and one review; 58,000 states | UUIDs, findings, deltas, coverage, inventory |
| `arf_linkage` | fourteen ARF documents, twenty linkages, two rewrites; 12,000 states | one document, all links, each witnessed |
| `xccdf_evidence` | nine XCCDF files, eight collections, six mappings; two outputs | `FindingsAreAuthored`, `UuidsIdentifyEvidence`, `ReportCoversArtifact`, `ArfIsConvertedWhole`, `EnvelopesAreClosed` |
| `review_session` | two commits, two edits; about three million states | `VmCacheIsWhole`, `VerifiedIsOfCandidate`, `VerifiedOrNothing` |
| `release_pipeline` | one prerelease and one GA tag, two commits, two files of a transfer lost or cut, the shell command mended; 280,000 states | `PublishedIsOfTag`, `AcceptedAgreesWithManifest`, `GaStopsAtTheGate` |
| `exit_codes`, `undiagnosed_input`, `asset_linkage`, `stream_reference`, `finding_uuids` | the instance that shows a disagreement | see *Disagreements* |

**Bounds.** `MaxEdits`, `MaxRewrites`, `MaxRuns` and `MaxReviews` bound what the
environment or the archive can do; the runs themselves are finite. Two writing runs
are the smallest number for which one can replace, clean up or misattribute the
other's file, and the names of a run's own files do not depend on how many others
there are. One rewrite of an input suffices to make a run parse a combination that
was never on disk at one time. Two rewrites of an ARF file suffice to change it and
change it back between two reads. Two artifacts are all a `diff` can relate, and all
that two runs can disagree in. Two commits are enough for a record to name another
than its own, for a tag to be built late, and for a cache to be staged for another
candidate. Two edits of a review suffice to change a checkout and change it back, or
to disturb the cache and the checkout in one launch. Two files of a transfer are the
checksums and one that they no longer list; with three the run has 355,000 states
and shows nothing else. In `review_session` commits are interchangeable
(`SYMMETRY`), and states in which the guest runs are told apart by `VIEW Seen`
without the host's checkout, cache and staging script: the launch copied what it
needs, and neither the guest nor the verification reads them. Directories that a
failed or killed verification has left are told apart only by what the properties
ask of them (`LeftBehind`): the next verification refuses them whatever they hold.
In `release_pipeline` the same is done for the files of a release, of a directory
the boundary check refuses and of one a build has left, which no step reads: the
view holds the truth of the properties in their place. The proofs remove the bounds
for what they cover.

**Fairness.** `EveryRunEnds` and `EveryReaderEnds` assume weak fairness of the
steps of each run and each reader: the operating system schedules a process
that is not blocked, and no statement of the protocol waits for another
process. `Kill`, `Edit` and `Begin` need not happen. The other modules state
safety only and assume no fairness: a reviewer, a maintainer and a workflow may
stop at any point, and no document of the repository promises that they go on.
Deadlock is not checked, since all runs end.

## What is proved

`ArtifactPublicationProofs`, from `ConstantsAssumption` alone, for any numbers of
runs, readers, paths, temporary names, contents and rewrites:

* `Invariance`: `Inv` is inductive. The safety properties are not: that
  `os.replace` installs a whole document depends on the run at `replace` having
  closed its own file under its own temporary name, which no other run's entry
  shares. `Inv` therefore joins the type invariant with what each statement of
  a run implies about its temporary entry and its inode, with the ownership of
  every directory entry, with what the parsed inputs of a run past `Convert`
  satisfy, and with what an open file of a reader holds.
* `TypeCorrect`, `ArtifactsWhole`, `ArtifactsAccepted`, `TempsAccounted`,
  `ExitCodesTruthful`, `ReadersWhole`: each follows from `Inv`.
* `OnlyReplaceChanges`: an action property, from `Inv` and the actions.
* `Refinement`: initial states of the protocol are initial states of
  `AtomicOutput` and each of its steps is one of `AtomicOutput` or a stutter. This
  is the safety part; TLC checks the refinement as well (`PublishesAtomically`).

`ArfLinkageProofs`, for any documents, linkages and rewrites:

* `DeclaredDocument`: the manifest and the tree are of the declared bytes. The
  strengthening says at which statements each comparison already lies behind.
* `Completeness`: what is printed is all links in their order. The
  strengthening says that the resolved links are a prefix of the authored ones.
* `TypeCorrect`.

`ReleasePipelineProofs`, from `ConstantsAssumption`, for any tags and any history:

* `GaNeverReleased`: by the invariant of the history every committed record names
  an earlier commit, so `GateAccepts` has no solution (`GateRefuses`).
* `ReleasesAreOfTheirTags`: `IInv` says for each statement of a job which files it
  has built, all of them of the tag's commit (`Built`, `Whole`), that a downloaded
  directory is a transferred one (`Delivered`), and that what passes the boundary
  check is whole as far as its checksums list it (`Good`). The heart is `LetThrough`,
  for any number of files lost or cut: one that misses is missed by the count of six,
  and one that is cut is read by the check, or listed with its hash, or no longer
  listed because the checksums are cut before it (`LinesLeft`).
* `AcceptedAgrees`: the same for every directory anywhere, a maintainer's
  interrupted builds included (`Left`, `Remains`); where no transfer was between,
  for every file.
* `AsWrittenNothingIsReleased`: while the shell rejects the clean installation, no job
  gets beyond it (`Stuck`) and nothing is published.
* `ReleasesOnceOfTag`: the pipeline implements `ReleaseRegistry`. Its state is
  mapped to the versions of the commits, the tags, and the set of commits that the
  published files are of; a step of a build, a transfer or a gate is a stutter, and
  `Publish` is one `Release`, since a tag that has a release keeps it and the files
  that passed the boundary check are of the tag's commit and of no other.
* `Invariance`, `TypeCorrect`.

`ReviewSessionProofs`, from `ConstantsAssumption` and `WholeAssumption` (a whole
file is none of the marks for an absent or a partial one), for any commits and
any number of edits:

* `GuestCacheWhole`: while a file is being staged those before it are whole
  (`StagedBefore`), and a checksum manifest lists Python packages only when it
  lists everything, all of it whole (`Sums`). A copy that the validation accepts
  therefore has every file, whatever was copied from which state of the cache
  (`AcceptedIsComplete`).
* `VerifiedOfCandidate`: what the guest's workspaces hold is the candidate's code
  or a change made in the guest; what the host expects was made by the candidate's
  code or a change made on the host. The two agree only if both are clean.
* `VerifiedWhole`: the verification has written exactly the files before the one
  it is writing (`VerifiedBefore`), and one that ended left a whole record or none
  (`Settled`), whatever its own cleanup left.
* `VerifiedForGood`: an action property. A whole record means that no verification
  is under way and that the machine was launched, so what could overwrite the record
  or the runtime directory is refused from then on: a verification, because its
  destination exists, and a launch, because the runtime directory does.
* `Invariance`, `TypeCorrect`.

`ArtifactPublicationProofs` goes on with what a run says of its failure, by two
further invariants over `Inv`:

* `OvalExitCodes`: `Blame` says which side of the program raised the exception in
  flight. No reader of an OVAL command lets an `OSError` through, so exit code 4
  is the output's.
* `RejectedLeavesNoTrace`: `ParentInv` says that the directory is as it was until
  some run has come to its output.

and with how far a run can go:

* `ReadingNeverSticks`: the order of the readers always leaves exactly one input to
  read next, whichever were read and rewritten.
* `NobodyGoesOnForEver`: `StepsLeft`, at most 15, counts the statements a run has
  before it, and `ReadsLeft` those of a reader. Each step of a run lowers its own
  number and no other, and 0 means that it has ended; rewrites change none.
  This is why `EveryRunEnds` does not depend on how many others there are: a
  run that is scheduled comes to its end in a bounded number of its own steps.
* `ExitCodesDelimited`: what each code tells. 2 and 3 are never given for anything but
  the arguments and an input. 4 is the output or the installation, or an XCCDF or ARF
  file that could not be read, before anything was written. 1 is the output or the
  installation, or an undiagnosed exception of a parser of mappings or ARF files, or
  of a converter other than that of `convert`. Among the failures that the model has,
  `exit_codes` and `undiagnosed_input` therefore show one member each of two
  classes that are listed completely.

`OvalEvidenceProofs`, from `DocumentsAssumption`, for any documents and any archive:
every property of `OvalEvidence` that its run checks. The inductive invariant says
that every output is what its command makes of inputs that were accepted; what
remains is what the nested loops of the code make of them. `UuidsIdentify` is about
all that two documents say but for the names of their sources. `FlattenLemmas` states
that joined sequences have the elements of their parts, and no duplicate if no part
has one and no two parts share an element. Equality of two UUIDs is equality
of the lists of their parts, and the coverage counts are compared by a bijection.
`DeltasExact` goes beyond them: applied to the statuses of the earlier scan a delta
gives those of the later one, two pairs of artifacts of the same scans have one
delta whatever they were mapped with, and the delta the other way round is the
reverse. It follows because no accepted scan has two statuses for one definition,
so that the pairs in a scan are the graph of a function (`GraphOfScan`).

`ArfIntakeProofs` says what acceptance means: of a report that is a TestResult the
relationships of the document, taken together, name one collection; that collection
is in the document and has the Benchmark of the TestResult; and identifiers of
reports are their own. From this, in `ArfLinkageProofs`,

* `CollectionsUnique`, `OvalCovered` and `TailoringStays`: each link that was
  resolved satisfied its match when it was (`ResolvedMatch`), in the declared document
  (`DeclaredDocument`), and all links were resolved (`Completeness`).
* `AssetsDelimited` and `ReferencesDelimited`: the disagreements that `asset_linkage`
  and `stream_reference` show are all there are. The asset of a report is ambiguous
  only where a document uses both vocabularies for it, and a resolved reference only
  where two streams of one collection have one identifier.
* `VerdictRight`: the command decides. A linkage is printed only if it holds in the
  declared document. One that holds there, once it has been parsed and the file has
  passed `lstat`, is refused with 3 only if the file was another document at first or
  was rewritten meanwhile (`VerdictInv`, over `IInv`). Before that 3 says less, since
  both parsing and `lstat` turn errors of their calls into it, and a read that fails
  is 4. It uses `ConstantsAssumption`: an absent and a malformed file are not ARF
  documents.

`XccdfEvidenceProofs`, from `DocumentsAssumption`:

* `Invariance`: every artifact, report and envelope is what its command makes of
  accepted inputs.
* `FindingsAuthored`, `UuidsIdentify`: as for OVAL, over TestResults with
  benchmarks of their own and over both kinds of artifacts. The parts of a UUID give
  back the two files, and with them the artifact (`SameInputs`); in an XCCDF file the
  TestResults, and the rules of each, are told apart by their identifiers (`Distinct`,
  `ObservationsIdentified`), in a collection there is one TestResult and its rules
  need not be.
* `ArfConverted`: a collection with one TestResult report has it in the manifest, with
  the linkage its relationships state.
* `EnvelopesClosed`: the identifier of an execution leads back to one report, so the
  assertion that names it states what the observation states.
* `ReportCovered`: the report joins records and the artifact joins findings, over the
  same TestResults and rule results. That the targets of the one are the findings of
  the other, in their order, needs lemmas on sequences rather than on their
  elements: the prefixes of a joined sequence determine it (`JoinUnique`), so mapping
  and joining change places (`MappedFlatten`) and joining in two stages is joining
  once (`CollectedFlatten`); a selection and its complement have together the length
  of the whole (`PiecesPartition`).
* `FindingUuidsDelimited`: the shared UUIDs that `finding_uuids` shows are all there
  are in the artifact of an XCCDF file. Two findings have one UUID exactly when they
  are of one rule and one target, they then point at different observations, and in
  a file that has one result for each rule every UUID is its finding's own.
* `TypeCorrect`.

Only model-checked: liveness and fairness, which like `ENABLED` are outside the
prover's reach. Of `EveryRunEnds` and `EveryReaderEnds` the bound on the steps is
proved (`NobodyGoesOnForEver`); that a run that has not ended can take one, and is
scheduled to, is TLC's. Every safety property of the passing runs is proved, the refinement
(`PublishesAtomically`) for its safety part. Induction over data is stated with
operators that the prover cannot instantiate. Where a proof needs it,
`FlattenLemmas` takes the least number for which a statement fails instead, from the
well-foundedness of the naturals.

## Disagreements between code and documentation

Each is shown by a run that TLC ends with a counterexample.

* `exit_codes`: an XCCDF or ARF file that cannot be read makes the command exit
  with 4, documented as "The output artifact could not be written", instead of 3
  (`docs/v0.1-cli-contract.md:49-50`, `xccdf.py:121`, `arf.py:67`).
* `undiagnosed_input`: `report` and `mapping-report` end in a `KeyError` when the
  results name a definition the definitions file lacks
  (`docs/v0.1-oval-results-mapping.md:74-76`, `mapping.py:145`). The same property
  fails for a time that `fromisoformat` does not take, a missing identifier in an ARF
  collection, a component that holds a comment alone and a mapping nested too deeply
  (`xccdf_convert.py:15,19`, `arf.py:115`, `mapping.py:102`); TLC stops at the first.
* `asset_linkage`: a report linked to two assets in two vocabularies is accepted
  (`docs/v0.2-xccdf-intake-design.md:34-35`, `arf.py:251`).
* `stream_reference`: a link to a stream identifier that two streams bear is
  resolved (`docs/v0.2-arf-linkage-manifest.md:26-28`, `arf_linkage.py:109`).
* `finding_uuids`: a mapped rule with results in two TestResults of one file gives
  two findings with one UUID, which the OSCAL schema calls "globally unique"
  (`assessment-results.schema.json:1921`, `xccdf_convert.py:38`). The observation
  UUIDs, which hash the TestResult, are unique in such an artifact. In that of an ARF
  collection they are not if a rule is repeated, since `arf.py:165-168` does not check
  the rule-results as `xccdf.py:79-80` does; `UuidsIdentifyEvidence` says what they
  then have in common.

Three more have no run of their own.

The shell command of `release.yml:65-69` has `\"` within `$(...)`, which starts a
command of its own: there they are literal quotes, so that the parenthesis that
follows is a syntax error, and the step fails for every tag. Nothing after it is
reached, and no tag is released as the workflow is written
(`AsWrittenNothingIsReleased`), while `docs/ga-readiness.md:33` calls the
distributions "built reproducibly, clean-installed, checksummed, and attested" and
`docs/python-distributions.md:6` says that the workflow attaches them "For every
release tag".

The names of the source files are in an OVAL document and in none of its UUIDs
(`convert.py:38,42,45-47,51-58`), so the same evidence under another file name is
another document with the same UUID. `docs/v0.1-implementation-architecture.md:65-67`
derives the UUIDs from the contents alone, and `docs/quality-and-accessibility.md`
asks for "Byte-stable canonical output" of the same input. Whether a name is part of
the input no document says; `UuidsIdentifyContent` is stated without the names.

A `SHA256SUMS` that was cut at the end of a line passes `sha256sum --check --strict`,
together with a file that was cut and that it no longer lists (`release.yml:99-102`):
the check does not compare the names of the checksums with the files. Such a directory
is published; `PublishedIsOfTag` says what is still true of it. No document says that
the check stands against damage in the transfer, which the actions have checks of
their own for.

And one needs no counterexample, since it is an invariant that holds: the job of a
GA tag always stops at its gate (`GaStopsAtTheGate`). The gate runs in the checkout
of the tag and wants a record there that names the tagged commit
(`release.yml:47`, `validate-ga-release-readiness.py:105,139`), while the runbook
has the record accepted locally first and the tag pushed then
(`docs/ga-human-acceptance-runbook.md:75-77`). A record that is committed is in a
later commit than the one it names, and one that is not is absent in the runner.
What comes after the gate for such a tag, the OSV scan and its disposition, is
therefore unreachable.

## Not modelled

XML and JSON syntax, schema validation and the limits on sizes and elements are one
decision to accept or reject, but for the inputs on which a parser raises what
nothing catches. Errors of printing to standard output or standard error, a lack of
memory, and an error of canonicalising an ARF part (`arf.py:84,129`) are left out.
File modes, `umask`, `fsync` (the code calls none, so nothing is claimed about a
power failure) and what a directory holds besides the artifacts are left out. The
HTML layout, the bundled schemas, the sanitizers and the quality tools rewrite or
check text and keep no state.

Of the modelled components these parts are left out: `normalize_oval`, which only
tests call; the OSV scan and `validate-ga-vulnerability-disposition.py`, which come
after a gate that no GA tag passes; the vulnerability exceptions, an expiry
check without state; attestations and draft releases, which are GitHub's; and the
order of the validations of a build job that do not depend on the tag.

## What is left

1. A size for the contents of a file, so that the limit that `oval.py:118` checks on
   the result of `lstat` can be told from one on the bytes read.
2. The disposition gate, once the readiness gate lets a GA tag through.
