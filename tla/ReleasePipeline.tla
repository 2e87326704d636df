--------------------------- MODULE ReleasePipeline ---------------------------
(***************************************************************************)
(* Releases: build-release-source.py, run by the release workflow for a    *)
(* pushed tag and by a maintainer in a checkout, and what the workflow     *)
(* does around it, from the readiness gate to `gh release create`, while   *)
(* commits, readiness records and tags are made.  Jobs fail at any step    *)
(* and are run again in part or as a whole; what a job hands to the next   *)
(* may have expired, or arrive with any of its files lost or cut.          *)
(*                                                                         *)
(* Commits are numbered as they are made.  A commit's content is a package *)
(* version, written as the tag that states it, and the readiness record it *)
(* holds, which names a tag and a commit: one that existed when the record *)
(* was written, since the hash of a commit depends on what is in it.       *)
(*                                                                         *)
(* In the shell command of release.yml:65-69 quotes are escaped within     *)
(* $(...), where they are literal, so that the shell rejects it and no tag *)
(* gets to its publication.  SmokeParses says whether that is mended: as   *)
(* the workflow is written it is FALSE.                                    *)
(***************************************************************************)
EXTENDS Naturals, Sequences, FiniteSets

CONSTANTS
  PreTags,    \* tags with a prerelease suffix
  GaTags,     \* tags without one
  None,       \* absent
  Part,       \* there, cut short
  SmokeParses,  \* whether the shell accepts the clean-installation step
  MaxDamage,  \* bound on the files of a transfer that are lost or cut
  MaxCommits  \* bound on the history

ASSUME ConstantsAssumption ==
  /\ PreTags \cap GaTags = {} /\ None \notin PreTags \cup GaTags
  /\ "local" \notin PreTags \cup GaTags
  /\ None \notin Nat /\ None \notin [tag : GaTags, commit : Nat] /\ Part \notin [commit : Nat]
  /\ SmokeParses \in BOOLEAN /\ MaxDamage \in Nat /\ MaxCommits \in Nat \ {0}

VARIABLES
  commits,   \* the history of main; the maintainer's checkout is at its end
  record,    \* the readiness record in that checkout, committed or not
  tags,      \* the commit of each tag; tags are protected and never move
  job,       \* for a tag its workflow run, for "local" the maintainer's build
  dir,       \* the release directory of each: None or its files
  artifact,  \* what the latest successful build job of a tag uploaded
  releases   \* what is published under a tag

vars == <<commits, record, tags, job, dir, artifact, releases>>

Tags == PreTags \cup GaTags
Places == Tags \cup {"local"}
Published == {"archive", "wheel", "sdist", "sbom"}
Names == Published \cup {"manifest", "sums"}
Idle == [pc |-> "idle", version |-> None, commit |-> None]
Newest == Len(commits)

Init ==
  /\ commits \in {<<[package |-> tag, record |-> None]>> : tag \in Tags}
  /\ record = None
  /\ tags = [tag \in Tags |-> None]
  /\ job = [p \in Places |-> Idle] /\ dir = [p \in Places |-> None]
  /\ artifact = [tag \in Tags |-> None] /\ releases = [tag \in Tags |-> None]

At(p, pc) == job[p].pc = pc
Goto(p, pc) == job' = [job EXCEPT ![p].pc = pc]
SetDir(p, content) == dir' = [dir EXCEPT ![p] = content]
Repository == <<commits, record, tags>>
Extended(files, name, content) == [n \in DOMAIN files \cup {name} |-> IF n = name THEN content ELSE files[n]]

-----------------------------------------------------------------------------
(* The repository.                                                         *)

\* A commit with or without the readiness record of the checkout.
Commit ==
  /\ Newest < MaxCommits
  /\ \E package \in Tags, kept \in {record, commits[Newest].record} :
       commits' = Append(commits, [package |-> package, record |-> kept])
  /\ UNCHANGED <<record, tags, job, dir, artifact, releases>>

WriteRecord ==
  /\ \E tag \in GaTags : record' = [tag |-> tag, commit |-> Newest]
  /\ UNCHANGED <<commits, tags, job, dir, artifact, releases>>

PushTag ==
  /\ \E tag \in Tags, commit \in 1 .. Newest :
       /\ tags[tag] = None
       /\ tags' = [tags EXCEPT ![tag] = commit]
       /\ job' = [job EXCEPT ![tag] = [pc |-> "checks", version |-> tag, commit |-> commit]]
  /\ UNCHANGED <<commits, record, dir, artifact, releases>>

-----------------------------------------------------------------------------
(* The build: a file at a time, pc being the name of the next one.         *)

\* The checkout the script runs in: of the tag's commit on a runner, and the
\* maintainer's own whatever --ref says.
Root(p) == IF p = "local" THEN Newest ELSE job[p].commit

Source(commit) == [commit |-> commit]
Hashes(files, names) == [n \in names \cap DOMAIN files |-> files[n]]

\* Faulty variant: the manifests are written first and the inventory last.
AfterSbomLast ==
  [archive |-> "wheel", wheel |-> "sdist", sdist |-> "manifest", manifest |-> "sums",
   sums |-> "sbom", sbom |-> "built"]

After ==
  [archive |-> "wheel", wheel |-> "sdist", sdist |-> "sbom", sbom |-> "manifest",
   manifest |-> "sums", sums |-> "built"]

\* What is left of a file that is cut: of the checksums perhaps the first of
\* their lines, which is a shorter list of them.  A last line break is no part
\* of a manifest or of a list that anything here depends on.
Lines == <<"archive", "wheel", "sdist", "sbom", "manifest">>
FirstLines(n) == {Lines[k] : k \in 1 .. n}
Fragments(files, name) ==
  {Part} \cup IF name = "sums" THEN {Hashes(files, FirstLines(n)) : n \in 1 .. 4} ELSE {}

\* Faulty variant: the inventory is that of the newest commit.
NewestSbom(p, name) ==
  CASE name \in {"archive", "wheel", "sdist"} -> Source(job[p].commit)
    [] name = "sbom" -> Source(Newest)
    [] name = "manifest" -> [version |-> job[p].version, commit |-> job[p].commit,
                             hashes |-> Hashes(dir[p], Published)]
    [] name = "sums" -> Hashes(dir[p], Published \cup {"manifest"})

\* The distributions are built from the extracted archive, the inventory is
\* copied from the checkout.
Content(p, name) ==
  CASE name \in {"archive", "wheel", "sdist"} -> Source(job[p].commit)
    [] name = "sbom" -> Source(Root(p))
    [] name = "manifest" -> [version |-> job[p].version, commit |-> job[p].commit,
                             hashes |-> Hashes(dir[p], Published)]
    [] name = "sums" -> Hashes(dir[p], Published \cup {"manifest"})

\* Nothing is built for a version the checkout's package does not have.
VersionMatches(p, name) == name = "wheel" => commits[Root(p)].package = job[p].version

BuildBegin ==
  /\ At("local", "idle") /\ dir["local"] = None
  /\ \E version \in Tags, commit \in 1 .. Newest :
       job' = [job EXCEPT !["local"] = [pc |-> "archive", version |-> version, commit |-> commit]]
  /\ SetDir("local", <<>>)
  /\ UNCHANGED <<Repository, artifact, releases>>

Done(p) == IF p = "local" THEN Idle ELSE [job[p] EXCEPT !.pc = "smoke"]
Stopped(p) == IF p = "local" THEN Idle ELSE [job[p] EXCEPT !.pc = "failed"]

BuildFile ==
  \E p \in Places, name \in Names :
    /\ At(p, name) /\ VersionMatches(p, name)
    /\ SetDir(p, Extended(dir[p], name, Content(p, name)))
    /\ job' = [job EXCEPT ![p] = IF After[name] = "built" THEN Done(p) ELSE [@ EXCEPT !.pc = After[name]]]
    /\ UNCHANGED <<Repository, artifact, releases>>

\* An archive that is not reproducible takes the directory with it; any other
\* failure, or a kill, leaves it as it is.  A runner is thrown away.
BuildStops ==
  \E p \in Places, name \in Names :
    /\ At(p, name)
    /\ \E left \in {dir[p]} \cup {Extended(dir[p], name, f) : f \in Fragments(dir[p], name)}
                    \cup (IF name = "archive" THEN {None} ELSE {}) :
         SetDir(p, IF p = "local" THEN left ELSE None)
    /\ job' = [job EXCEPT ![p] = Stopped(p)]
    /\ UNCHANGED <<Repository, artifact, releases>>

RemoveDirectory ==
  /\ At("local", "idle") /\ dir["local"] # None
  /\ SetDir("local", None)
  /\ UNCHANGED <<Repository, job, artifact, releases>>

-----------------------------------------------------------------------------
(* The workflow of a tag.                                                  *)

Fails(tag) == Goto(tag, "failed") /\ SetDir(tag, None) /\ UNCHANGED <<Repository, artifact, releases>>

\* Faulty variant: the commit that was reviewed is not compared.
RecordOfTag(tag, commit) ==
  LET found == commits[commit].record
  IN found # None /\ found.tag = tag /\ commits[commit].package = tag

\* validate-ga-release-readiness.py reads the record of the commit it is run in.
GateAccepts(tag, commit) ==
  LET found == commits[commit].record
  IN found # None /\ found.tag = tag /\ found.commit = commit /\ commits[commit].package = tag

\* Tests and the validations before the build.  Only GA tags have a gate that
\* depends on the tag.
Checks ==
  \E tag \in Tags :
    /\ At(tag, "checks")
    /\ \/ /\ tag \in GaTags => GateAccepts(tag, job[tag].commit)
          /\ Goto(tag, "archive") /\ SetDir(tag, <<>>) /\ UNCHANGED <<Repository, artifact, releases>>
       \/ Fails(tag)

\* The clean installation of the distributions, then the upload.
Smoke ==
  \E tag \in Tags :
    /\ At(tag, "smoke")
    /\ \/ SmokeParses /\ Goto(tag, "upload") /\ UNCHANGED <<Repository, dir, artifact, releases>>
       \/ Fails(tag)

Upload ==
  \E tag \in Tags :
    /\ At(tag, "upload")
    /\ \/ /\ artifact' = [artifact EXCEPT ![tag] = dir[tag]]
          /\ Goto(tag, "download") /\ SetDir(tag, None) /\ UNCHANGED <<Repository, releases>>
       \/ Fails(tag)

\* What can arrive on the runner of the publish job: some files are hit, and
\* each of those is lost or cut.
Received(files, hit, cut, rest) ==
  [n \in (DOMAIN files \ hit) \cup cut |->
    IF n \notin cut THEN files[n] ELSE IF n = "sums" THEN rest ELSE Part]

Transferred(files) ==
  UNION {{Received(files, hit, cut, rest) : cut \in SUBSET hit, rest \in Fragments(files, "sums")} :
           hit \in {some \in SUBSET DOMAIN files : Cardinality(some) <= MaxDamage}}

Download ==
  \E tag \in Tags :
    /\ At(tag, "download")
    /\ \/ /\ artifact[tag] # None
          /\ \E files \in Transferred(artifact[tag]) : SetDir(tag, files)
          /\ Goto(tag, "boundary") /\ UNCHANGED <<Repository, artifact, releases>>
       \/ Fails(tag)

\* Six files, every listed hash is right, the manifest is of this tag and
\* commit.
BoundaryAccepts(files, version, commit) ==
  /\ Cardinality(DOMAIN files) = 6
  /\ files["sums"] # Part /\ \A n \in DOMAIN files["sums"] : files["sums"][n] = files[n]
  /\ files["manifest"] # Part
  /\ files["manifest"].version = version /\ files["manifest"].commit = commit

Boundary ==
  \E tag \in Tags :
    /\ At(tag, "boundary")
    /\ IF BoundaryAccepts(dir[tag], tag, job[tag].commit)
         THEN Goto(tag, "publish") /\ UNCHANGED <<Repository, dir, artifact, releases>>
         ELSE Fails(tag)

\* A release that exists is not created again.  A failure leaves nothing public.
Publish ==
  \E tag \in Tags :
    /\ At(tag, "publish")
    /\ \/ /\ releases[tag] = None
          /\ releases' = [releases EXCEPT ![tag] = dir[tag]]
          /\ Goto(tag, "done") /\ SetDir(tag, None) /\ UNCHANGED <<Repository, artifact>>
       \/ Fails(tag)

\* Faulty variant: all jobs are run again on the newest commit.
RerunOnNewest ==
  \E tag \in Tags :
    /\ job[tag].pc \in {"failed", "done"}
    /\ job' = [job EXCEPT ![tag] = [@ EXCEPT !.pc = "checks", !.commit = Newest]]
    /\ artifact' = [artifact EXCEPT ![tag] = None]
    /\ UNCHANGED <<Repository, dir, releases>>

\* All jobs, or the failed publication alone with the artifact of the build.
Rerun ==
  \E tag \in Tags :
    /\ \/ /\ job[tag].pc \in {"failed", "done"}
          /\ Goto(tag, "checks") /\ artifact' = [artifact EXCEPT ![tag] = None]
       \/ At(tag, "failed") /\ artifact[tag] # None /\ Goto(tag, "download") /\ UNCHANGED artifact
    /\ UNCHANGED <<Repository, dir, releases>>

\* Artifacts are kept for one day.
Expire ==
  \E tag \in Tags :
    /\ artifact[tag] # None /\ artifact' = [artifact EXCEPT ![tag] = None]
    /\ UNCHANGED <<Repository, job, dir, releases>>

Next ==
  \/ Commit \/ WriteRecord \/ PushTag
  \/ BuildBegin \/ BuildFile \/ BuildStops \/ RemoveDirectory
  \/ Checks \/ Smoke \/ Upload \/ Download \/ Boundary \/ Publish \/ Rerun \/ Expire

Spec == Init /\ [][Next]_vars

-----------------------------------------------------------------------------
(* Properties.                                                             *)

Known == 1 .. Newest
Records == {None} \cup [tag : GaTags, commit : Known]
Directories == {files \in {dir[p] : p \in Places} \cup {artifact[tag] : tag \in Tags}
                            \cup {releases[tag] : tag \in Tags} : files # None}

\* Every variable has its shape, and a record names a commit that was made
\* before it: never one that is still to come, its own included.
TypeOK ==
  /\ Newest \in 1 .. MaxCommits
  /\ \A k \in Known : commits[k].package \in Tags /\ commits[k].record \in {None} \cup [tag : GaTags, commit : 1 .. k - 1]
  /\ record \in Records
  /\ \A tag \in Tags : tags[tag] \in {None} \cup Known /\ job[tag].commit = tags[tag]
  /\ \A files \in Directories :
       /\ DOMAIN files \subseteq Names
       /\ \A n \in DOMAIN files \cap Published : files[n] = Part \/ files[n].commit \in Known

\* What is published under a tag is of the tagged commit alone, the inventory
\* included, and its package has the tag's version: whatever is committed
\* meanwhile and whichever jobs are run again.  Files may be lost or cut between
\* the jobs: all six are there, every one the published checksums list is whole,
\* the archive among them, and so is the manifest, with the hash of each; one
\* that is cut is one of which the checksums were cut off as well
\* (release.yml:62,94-102; build-release-source.py:173).
PublishedIsOfTag ==
  \A tag \in Tags : releases[tag] # None =>
    LET files == releases[tag]
    IN /\ DOMAIN files = Names /\ commits[tags[tag]].package = tag
       /\ files["manifest"].hashes = [n \in Published |-> Source(tags[tag])]
       /\ "archive" \in DOMAIN files["sums"]
       /\ \A n \in Published :
            \/ files[n] = Source(tags[tag])
            \/ files[n] = Part /\ n \notin DOMAIN files["sums"]

\* Directories that did not go through a transfer.
BuiltHere == {dir["local"]} \cup {artifact[tag] : tag \in Tags}

\* A release directory that the boundary check would accept, wherever and
\* however its build ended, is of the commit its manifest names.  The manifest
\* lists all that is published, and every file the checksums list is the one the
\* manifest was written for; unless files were lost or cut in a transfer every
\* file is, listed or not, since the checksums are written when all the others
\* are there (build-release-source.py:171-188, release.yml:99-102).
AcceptedAgreesWithManifest ==
  \A files \in Directories, version \in Tags, commit \in Known :
    BoundaryAccepts(files, version, commit) =>
      LET built == files["manifest"].hashes
      IN /\ DOMAIN built = Published
         /\ \A n \in {"archive", "wheel", "sdist"} : built[n] = Source(commit)
         /\ built["sbom"] # Part /\ "archive" \in DOMAIN files["sums"]
         /\ \A n \in Published :
              \/ files[n] = built[n]
              \/ n \notin DOMAIN files["sums"] /\ files \notin BuiltHere

\* No tag without a prerelease suffix gets past the gate, and none is published:
\* the record has to be in the tagged commit and to name it, and no commit can
\* hold its own hash (release.yml:47, validate-ga-release-readiness.py:105,139).
GaStopsAtTheGate ==
  \A tag \in GaTags : job[tag].pc \in {"idle", "checks", "failed"} /\ releases[tag] = None
=============================================================================
