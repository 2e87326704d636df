------------------------ MODULE ReleasePipelineProofs ------------------------
(***************************************************************************)
(* What is published, for every set of tags, every history and however     *)
(* many files of a transfer are lost or cut: files of the tagged commit    *)
(* that are whole as far as the checksums list them; nothing for a tag     *)
(* without a prerelease suffix; and nothing at all as long as the shell    *)
(* rejects a step of the workflow.                                         *)
(***************************************************************************)
EXTENDS ReleasePipeline, FiniteSetTheorems, TLAPS

Contents == [package : Tags, record : {None} \cup [tag : GaTags, commit : Nat]]

\* A committed record names an earlier commit, the one in the checkout an
\* existing one.
HistoryInv ==
  /\ commits \in Seq(Contents) /\ Newest >= 1 /\ Newest <= MaxCommits
  /\ \A k \in Known : commits[k].record # None => commits[k].record.commit \in 1 .. k - 1
  /\ record \in {None} \cup [tag : GaTags, commit : Known]
  /\ tags \in [Tags -> {None} \cup Known]

\* The files that are there while each is being written.
Before ==
  [archive |-> {}, wheel |-> {"archive"}, sdist |-> {"archive", "wheel"},
   sbom |-> {"archive", "wheel", "sdist"}, manifest |-> Published,
   sums |-> Published \cup {"manifest"}]

\* The files of a build of one version and commit, as far as it has come; the
\* inventory is that of one of the given commits.
Built(files, version, commit, inventories, names) ==
  /\ files = [n \in names |-> files[n]]
  /\ \A n \in {"archive", "wheel", "sdist"} \cap names : files[n] = Source(commit)
  /\ "sbom" \in names => \E c \in inventories : files["sbom"] = Source(c)
  /\ "manifest" \in names => files["manifest"] =
       [version |-> version, commit |-> commit, hashes |-> [n \in Published |-> files[n]]]
  /\ "sums" \in names => files["sums"] = [n \in Published \cup {"manifest"} |-> files[n]]

\* What a finished or a stopped build leaves in a maintainer's checkout.
LeftBy(files, version, commit, inventories) ==
  \/ Built(files, version, commit, inventories, Names)
  \/ \E name \in Names : \E w :
       /\ Built(w, version, commit, inventories, Before[name])
       /\ files \in {w} \cup {Extended(w, name, f) : f \in Fragments(w, name)}

Left(files, known) == \E version \in Tags, commit \in known : LeftBy(files, version, commit, known)

\* On a runner the checkout is of the tag's commit too.
Whole(files, tag, commit) == Built(files, tag, commit, {commit}, Names)

Delivered(files, tag, commit) == \E w : Whole(w, tag, commit) /\ files \in Transferred(w)

\* What the boundary check lets through: all that the checksums list, which may
\* be cut, and the manifest.
Good(files, tag, commit) ==
  /\ DOMAIN files = Names
  /\ \A n \in Published :
       \/ files[n] = Source(commit)
       \/ files[n] = Part /\ n \notin DOMAIN files["sums"]
  /\ files["manifest"]
       = [version |-> tag, commit |-> commit, hashes |-> [n \in Published |-> Source(commit)]]
  /\ files["sums"] # Part /\ "archive" \in DOMAIN files["sums"]

JobShape(p) == job[p] = [pc |-> job[p].pc, version |-> job[p].version, commit |-> job[p].commit]

\* The jobs whose build has compared the version with the package's.
Compared == {"sdist", "sbom", "manifest", "sums", "smoke", "upload", "download", "boundary", "publish"}

TagInv(tag) ==
  /\ JobShape(tag) /\ job[tag].commit = tags[tag]
  /\ job[tag].pc \in Names \cup {"idle", "checks", "smoke", "upload", "download", "boundary",
                                 "publish", "done", "failed"}
  /\ job[tag].pc # "idle" => tags[tag] \in Known /\ job[tag].version = tag
  /\ job[tag].pc = "idle" => tags[tag] = None /\ artifact[tag] = None /\ releases[tag] = None
  /\ job[tag].pc \in Names =>
       Built(dir[tag], tag, tags[tag], {tags[tag]}, Before[job[tag].pc])
  /\ job[tag].pc \in {"smoke", "upload"} => Whole(dir[tag], tag, tags[tag])
  /\ job[tag].pc = "boundary" => Delivered(dir[tag], tag, tags[tag])
  /\ job[tag].pc = "publish" => Good(dir[tag], tag, tags[tag])
  /\ job[tag].pc \in {"idle", "checks", "download", "done", "failed"} => dir[tag] = None
  /\ artifact[tag] # None => Whole(artifact[tag], tag, tags[tag])
  /\ releases[tag] # None => Good(releases[tag], tag, tags[tag])
  /\ (job[tag].pc \in Compared \/ artifact[tag] # None \/ releases[tag] # None) =>
       commits[tags[tag]].package = tag
  /\ tag \in GaTags =>
       job[tag].pc \in {"idle", "checks", "failed"} /\ artifact[tag] = None /\ releases[tag] = None

LocalInv ==
  /\ JobShape("local")
  /\ job["local"].pc \in Names \cup {"idle"}
  /\ job["local"].pc \in Names =>
       /\ job["local"].version \in Tags /\ job["local"].commit \in Known
       /\ Built(dir["local"], job["local"].version, job["local"].commit, Known, Before[job["local"].pc])
  /\ job["local"].pc = "idle" /\ dir["local"] # None => Left(dir["local"], Known)

Functions ==
  /\ job = [p \in Places |-> job[p]] /\ dir = [p \in Places |-> dir[p]]
  /\ artifact = [tag \in Tags |-> artifact[tag]] /\ releases = [tag \in Tags |-> releases[tag]]

\* The inductive invariant.
IInv == HistoryInv /\ Functions /\ LocalInv /\ \A tag \in Tags : TagInv(tag)

-----------------------------------------------------------------------------
\* Commits are only added.
Grown == Newest <= Newest' /\ \A k \in Known : commits'[k] = commits[k]

LEMMA TypeOfNewest == HistoryInv => Newest \in Nat
  BY DEF HistoryInv, Newest

\* What was known of a job stays so while others move.
LEMMA TagFrame ==
  ASSUME HistoryInv, HistoryInv', Grown, NEW tag \in Tags, TagInv(tag), tags'[tag] = tags[tag],
         job'[tag] = job[tag], dir'[tag] = dir[tag], artifact'[tag] = artifact[tag],
         releases'[tag] = releases[tag]
  PROVE  TagInv(tag)'
<1>1. Newest \in Nat /\ Newest' \in Nat /\ Known \subseteq Known'
  BY TypeOfNewest DEF Known, Grown, HistoryInv, Newest
<1>2. tags[tag] \in Known => commits'[tags[tag]] = commits[tags[tag]]
  BY DEF Grown
<1>3. (job[tag].pc \in Compared \/ artifact[tag] # None \/ releases[tag] # None) => tags[tag] \in Known
  BY DEF TagInv, Compared
<1> QED
  BY <1>1, <1>2, <1>3 DEF TagInv, JobShape

LEMMA BuiltWidens ==
  ASSUME NEW S, NEW T, S \subseteq T, NEW files, NEW version, NEW commit, NEW names,
         Built(files, version, commit, S, names)
  PROVE  Built(files, version, commit, T, names)
  BY DEF Built

LEMMA LeftWidens ==
  ASSUME NEW S, NEW T, S \subseteq T, NEW files, Left(files, S)
  PROVE  Left(files, T)
  BY BuiltWidens DEF Left, LeftBy

LEMMA LocalFrame ==
  ASSUME HistoryInv, HistoryInv', Grown, LocalInv,
         job'["local"] = job["local"], dir'["local"] = dir["local"]
  PROVE  LocalInv'
<1>1. Newest \in Nat /\ Newest' \in Nat /\ Known \subseteq Known'
  BY TypeOfNewest DEF Known, Grown, HistoryInv, Newest
<1> QED
  BY <1>1, BuiltWidens, LeftWidens DEF LocalInv, JobShape

\* A step of one job leaves the invariant of every other.
LEMMA TagStep ==
  ASSUME IInv, UNCHANGED Repository, NEW tag \in Tags, Functions', TagInv(tag)',
         \A p \in Places \ {tag} : job'[p] = job[p] /\ dir'[p] = dir[p],
         \A t \in Tags \ {tag} : artifact'[t] = artifact[t] /\ releases'[t] = releases[t]
  PROVE  IInv'
<1>1. HistoryInv'
  BY DEF IInv, HistoryInv, Repository, Newest, Known, Contents
<1>2. Grown
  BY TypeOfNewest DEF IInv, Grown, Repository, Newest
<1>3. LocalInv'
  BY <1>1, <1>2, LocalFrame, ConstantsAssumption DEF IInv, Places, Tags
<1>4. ASSUME NEW t \in Tags, t # tag PROVE TagInv(t)'
  BY <1>1, <1>2, <1>4, TagFrame DEF IInv, Places, Repository
<1> QED
  BY <1>1, <1>3, <1>4 DEF IInv

LEMMA LocalStep ==
  ASSUME IInv, UNCHANGED <<Repository, artifact, releases>>, Functions', LocalInv',
         \A tag \in Tags : job'[tag] = job[tag] /\ dir'[tag] = dir[tag]
  PROVE  IInv'
<1>1. HistoryInv'
  BY DEF IInv, HistoryInv, Repository, Newest, Known, Contents
<1>2. Grown
  BY TypeOfNewest DEF IInv, Grown, Repository, Newest
<1>3. ASSUME NEW t \in Tags PROVE TagInv(t)'
  BY <1>1, <1>2, <1>3, TagFrame DEF IInv, Places, Repository
<1> QED
  BY <1>1, <1>3 DEF IInv

LEMMA InitIInv == Init => IInv
<1> SUFFICES ASSUME Init PROVE IInv
  OBVIOUS
<1>1. HistoryInv
  <2>1. PICK tag \in Tags : commits = <<[package |-> tag, record |-> None]>>
    BY DEF Init
  <2> DEFINE first == [package |-> tag, record |-> None]
  <2>2. first \in Contents
    BY DEF Contents
  <2> HIDE DEF first
  <2>3. commits = <<first>>
    BY <2>1 DEF first
  <2>4. commits \in Seq(Contents) /\ Newest = 1 /\ commits[1] = first
    BY <2>2, <2>3 DEF Newest
  <2>5. first.record = None
    BY DEF first
  <2>6. Known = {1}
    BY <2>4 DEF Known
  <2> QED
    BY <2>4, <2>5, <2>6, ConstantsAssumption DEF HistoryInv, Init
<1>2. Functions
  BY DEF Init, Functions
<1>3. LocalInv
  BY DEF Init, LocalInv, JobShape, Idle, Places, Names, Published
<1>4. ASSUME NEW tag \in Tags PROVE TagInv(tag)
  BY <1>4 DEF Init, TagInv, JobShape, Idle, Places, Names, Published, Compared
<1> QED
  BY <1>1, <1>2, <1>3, <1>4 DEF IInv

-----------------------------------------------------------------------------
(* The repository.                                                         *)

LEMMA CommitStep == IInv /\ Commit => IInv'
<1> SUFFICES ASSUME IInv, Commit PROVE IInv'
  OBVIOUS
<1>1. PICK package \in Tags, kept \in {record, commits[Newest].record} :
        commits' = Append(commits, [package |-> package, record |-> kept])
  BY DEF Commit
<1> DEFINE new == [package |-> package, record |-> kept]
<1>2. commits \in Seq(Contents) /\ Newest \in Nat /\ Newest \in Known /\ Newest >= 1
  BY TypeOfNewest DEF IInv, HistoryInv, Known
<1>3. commits[Newest] \in Contents
  BY <1>2 DEF Newest
<1>4. kept # None => kept.commit \in 1 .. Newest
  BY <1>1, <1>2, <1>3 DEF IInv, HistoryInv, Contents, Known
<1>5. new \in Contents
  BY <1>1, <1>2, <1>3 DEF IInv, HistoryInv, Contents, Known
<1>6. /\ commits' \in Seq(Contents) /\ Newest' = Newest + 1 /\ commits'[Newest + 1] = new
      /\ \A k \in Known : commits'[k] = commits[k]
  BY <1>1, <1>2, <1>5 DEF Newest, Known
<1>7. Grown
  BY <1>2, <1>6 DEF Grown
<1>8. HistoryInv'
  <2>1. \A k \in Known' : commits'[k].record # None => commits'[k].record.commit \in 1 .. k - 1
    BY <1>2, <1>4, <1>6, SMTT(30) DEF IInv, HistoryInv, Known
  <2>2. Known \subseteq Known'
    BY <1>2, <1>6 DEF Known
  <2>3. record' = record /\ tags' = tags
    BY DEF Commit
  <2>4. record' \in {None} \cup [tag : GaTags, commit : Known']
    BY <2>2, <2>3 DEF IInv, HistoryInv
  <2>5. tags' \in [Tags -> {None} \cup Known']
    BY <2>2, <2>3 DEF IInv, HistoryInv
  <2>6. commits' \in Seq(Contents) /\ Newest' >= 1 /\ Newest' <= MaxCommits
    BY <1>2, <1>6, ConstantsAssumption DEF Commit
  <2> QED
    BY <2>1, <2>4, <2>5, <2>6 DEF HistoryInv, Contents
<1>9. LocalInv'
  BY <1>7, <1>8, LocalFrame DEF IInv, Commit
<1>10. \A tag \in Tags : TagInv(tag)'
  BY <1>7, <1>8, TagFrame DEF IInv, Commit
<1> QED
  BY <1>8, <1>9, <1>10 DEF IInv, Functions, Commit

LEMMA WriteRecordStep == IInv /\ WriteRecord => IInv'
<1> SUFFICES ASSUME IInv, WriteRecord PROVE IInv'
  OBVIOUS
<1>1. Newest \in Known
  BY TypeOfNewest DEF IInv, HistoryInv, Known
<1>2. HistoryInv'
  BY <1>1 DEF IInv, HistoryInv, WriteRecord, Newest, Known, Contents
<1>3. Grown
  BY TypeOfNewest DEF IInv, Grown, WriteRecord, Newest
<1>4. LocalInv'
  BY <1>2, <1>3, LocalFrame DEF IInv, WriteRecord
<1>5. \A tag \in Tags : TagInv(tag)'
  BY <1>2, <1>3, TagFrame DEF IInv, WriteRecord
<1> QED
  BY <1>2, <1>4, <1>5 DEF IInv, Functions, WriteRecord

LEMMA PushTagStep == IInv /\ PushTag => IInv'
<1> SUFFICES ASSUME IInv, PushTag PROVE IInv'
  OBVIOUS
<1>1. PICK tag \in Tags, commit \in Known :
        /\ tags[tag] = None /\ tags' = [tags EXCEPT ![tag] = commit]
        /\ job' = [job EXCEPT ![tag] = [pc |-> "checks", version |-> tag, commit |-> commit]]
  BY DEF PushTag, Known
<1>2. HistoryInv'
  BY <1>1 DEF IInv, HistoryInv, PushTag, Newest, Known, Contents
<1>3. Grown
  BY TypeOfNewest DEF IInv, Grown, PushTag, Newest
<1>4. LocalInv'
  BY <1>1, <1>2, <1>3, LocalFrame, ConstantsAssumption DEF IInv, Functions, PushTag, Places, Tags
<1>5. TagInv(tag)'
  <2>1. tags[tag] \notin Known
    BY <1>1, ConstantsAssumption DEF Known, IInv, HistoryInv
  <2>2. job[tag].pc = "idle"
    BY <1>1, <2>1 DEF IInv, TagInv
  <2>3. /\ job'[tag] = [pc |-> "checks", version |-> tag, commit |-> commit] /\ tags'[tag] = commit
        /\ commit \in Known'
    BY <1>1 DEF IInv, Functions, HistoryInv, Places, PushTag, Known, Newest
  <2>4. /\ dir'[tag] = None /\ artifact'[tag] = None /\ releases'[tag] = None
    BY <2>2 DEF IInv, TagInv, PushTag
  <2> QED
    BY <2>3, <2>4 DEF TagInv, JobShape, Names, Published, Compared
<1>6. ASSUME NEW t \in Tags, t # tag PROVE TagInv(t)'
  BY <1>1, <1>2, <1>3, <1>6, TagFrame DEF IInv, HistoryInv, Functions, Places, PushTag
<1>7. Functions'
  BY <1>1 DEF IInv, Functions, PushTag, Places
<1> QED
  BY <1>2, <1>4, <1>5, <1>6, <1>7 DEF IInv

-----------------------------------------------------------------------------
(* The build.                                                              *)

LEMMA BuildBeginStep == IInv /\ BuildBegin => IInv'
<1> SUFFICES ASSUME IInv, BuildBegin PROVE IInv'
  OBVIOUS
<1>1. PICK version \in Tags, commit \in Known :
        job' = [job EXCEPT !["local"] = [pc |-> "archive", version |-> version, commit |-> commit]]
  BY DEF BuildBegin, Known
<1>2. /\ job'["local"] = [pc |-> "archive", version |-> version, commit |-> commit]
      /\ dir'["local"] = <<>> /\ Functions'
      /\ \A tag \in Tags : job'[tag] = job[tag] /\ dir'[tag] = dir[tag]
  BY <1>1, ConstantsAssumption DEF IInv, Functions, BuildBegin, SetDir, Places, Tags
<1>3. commit \in Known'
  BY DEF BuildBegin, Repository, Known, Newest
<1>4. Built(<<>>, version, commit, Known', {}) /\ Before["archive"] = {}
  BY DEF Built, Before
<1>5. LocalInv'
  <2>1. /\ job'["local"].pc = "archive" /\ job'["local"].version = version
        /\ job'["local"].commit = commit /\ JobShape("local")'
    BY <1>2 DEF JobShape
  <2>2. "archive" \in Names /\ "idle" \notin Names
    BY DEF Names, Published
  <2>3. Built(dir'["local"], version, commit, Known', Before["archive"])
    BY <1>2, <1>4
  <2> QED
    BY <1>3, <2>1, <2>2, <2>3 DEF LocalInv
<1> QED
  BY <1>2, <1>5, LocalStep DEF BuildBegin, Repository

\* What a build has after the file it writes next.
LEMMA BuildAdds ==
  ASSUME NEW p, NEW name \in Names, NEW known, Root(p) \in known,
         Built(dir[p], job[p].version, job[p].commit, known, Before[name])
  PROVE  Built(Extended(dir[p], name, Content(p, name)), job[p].version, job[p].commit, known,
               Before[name] \cup {name})
<1> DEFINE files == Extended(dir[p], name, Content(p, name))
           hashes == [n \in Published |-> files[n]]
<1>1. DOMAIN dir[p] = Before[name] /\ name \notin Before[name]
  <2>1. DOMAIN dir[p] = Before[name]
    BY DEF Built
  <2> QED
    BY <2>1 DEF Before, Names, Published
<1>2. /\ files = [n \in Before[name] \cup {name} |-> files[n]] /\ files[name] = Content(p, name)
      /\ \A n \in Before[name] : files[n] = dir[p][n]
  BY <1>1 DEF Extended
<1> HIDE DEF files
<1> SUFFICES Built(files, job[p].version, job[p].commit, known, Before[name] \cup {name})
  BY DEF files
<1>3. CASE name \in {"archive", "wheel", "sdist"}
  <2>1. Before[name] \cup {name} \subseteq {"archive", "wheel", "sdist"}
    BY <1>3 DEF Before
  <2>2. files[name] = Source(job[p].commit)
    BY <1>2, <1>3 DEF Content
  <2> QED
    BY <1>2, <2>1, <2>2 DEF Built
<1>4. CASE name = "sbom"
  <2>1. Before[name] = {"archive", "wheel", "sdist"}
    BY <1>4 DEF Before
  <2>2. files["sbom"] = Source(Root(p))
    BY <1>2, <1>4 DEF Content
  <2> QED
    BY <1>2, <1>4, <2>1, <2>2 DEF Built
<1>5. CASE name = "manifest"
  <2>1. Before[name] = Published
    BY <1>5 DEF Before
  <2>2. Hashes(dir[p], Published) = hashes
    BY <1>1, <1>2, <2>1 DEF Hashes
  <2>3. files["manifest"] = [version |-> job[p].version, commit |-> job[p].commit, hashes |-> hashes]
    BY <1>2, <1>5, <2>2 DEF Content
  <2> QED
    BY <1>2, <1>5, <2>1, <2>3 DEF Built, Published
<1>6. CASE name = "sums"
  <2>1. Before[name] = Published \cup {"manifest"}
    BY <1>6 DEF Before
  <2>2. Hashes(dir[p], Published \cup {"manifest"}) = [n \in Published \cup {"manifest"} |-> files[n]]
    BY <1>1, <1>2, <2>1 DEF Hashes
  <2>3. files["sums"] = [n \in Published \cup {"manifest"} |-> files[n]]
    BY <1>2, <1>6, <2>2 DEF Content
  <2>4. hashes = [n \in Published |-> dir[p][n]]
    BY <1>2, <2>1
  <2> QED
    BY <1>2, <1>6, <2>1, <2>3, <2>4 DEF Built, Published
<1> QED
  BY <1>3, <1>4, <1>5, <1>6 DEF Names, Published

LEMMA NextFile ==
  ASSUME NEW name \in Names
  PROVE  IF After[name] = "built" THEN Before[name] \cup {name} = Names
         ELSE After[name] \in Names /\ Before[After[name]] = Before[name] \cup {name}
<1>1. CASE name = "archive"
  BY <1>1 DEF After, Before, Names, Published
<1>2. CASE name = "wheel"
  BY <1>2 DEF After, Before, Names, Published
<1>3. CASE name = "sdist"
  BY <1>3 DEF After, Before, Names, Published
<1>4. CASE name = "sbom"
  BY <1>4 DEF After, Before, Names, Published
<1>5. CASE name = "manifest"
  BY <1>5 DEF After, Before, Names, Published
<1>6. CASE name = "sums"
  BY <1>6 DEF After, Before, Names, Published
<1> QED
  BY <1>1, <1>2, <1>3, <1>4, <1>5, <1>6 DEF Names, Published

LEMMA Idles == \A name \in Names : name \notin {"idle", "checks", "smoke", "upload", "download", "boundary",
                                              "publish", "done", "failed"}
  BY DEF Names, Published

LEMMA BuildFileStep == IInv /\ BuildFile => IInv'
<1> SUFFICES ASSUME IInv, BuildFile PROVE IInv'
  OBVIOUS
<1>1. PICK p \in Places, name \in Names :
        /\ job[p].pc = name /\ VersionMatches(p, name)
        /\ dir' = [dir EXCEPT ![p] = Extended(dir[p], name, Content(p, name))]
        /\ job' = [job EXCEPT ![p] = IF After[name] = "built" THEN Done(p)
                                     ELSE [job[p] EXCEPT !.pc = After[name]]]
        /\ UNCHANGED <<Repository, artifact, releases>>
  BY DEF BuildFile, At, SetDir
<1> DEFINE files == Extended(dir[p], name, Content(p, name))
           names == Before[name] \cup {name}
<1>2. /\ dir'[p] = files /\ Functions'
      /\ job'[p] = IF After[name] = "built" THEN Done(p) ELSE [job[p] EXCEPT !.pc = After[name]]
      /\ \A q \in Places \ {p} : job'[q] = job[q] /\ dir'[q] = dir[q]
      /\ commits' = commits /\ tags' = tags /\ artifact' = artifact /\ releases' = releases
  BY <1>1 DEF IInv, Functions, Repository
<1>3. Known' = Known /\ Newest \in Known
  BY <1>2, TypeOfNewest DEF IInv, HistoryInv, Known, Newest
<1>4. CASE p = "local"
  <2>1. Built(files, job[p].version, job[p].commit, Known, names)
    BY <1>1, <1>3, <1>4, BuildAdds DEF IInv, LocalInv, Root
  <2>2. JobShape("local") /\ job[p].version \in Tags /\ job[p].commit \in Known
    BY <1>1, <1>4 DEF IInv, LocalInv
  <2>3. ASSUME After[name] = "built" PROVE LocalInv'
    <3>1. job'[p] = Idle /\ names = Names
      BY <1>2, <1>4, <2>3, NextFile DEF Done
    <3>2. Left(files, Known)
      BY <2>1, <2>2, <3>1 DEF Left, LeftBy
    <3> QED
      BY <1>2, <1>3, <1>4, <3>1, <3>2, Idles DEF LocalInv, JobShape, Idle
  <2>4. ASSUME After[name] # "built" PROVE LocalInv'
    <3>1. /\ job'[p] = [job[p] EXCEPT !.pc = After[name]]
          /\ After[name] \in Names /\ names = Before[After[name]]
      BY <1>2, <2>4, NextFile
    <3>2. /\ job'[p].pc = After[name] /\ job'[p].version = job[p].version
          /\ job'[p].commit = job[p].commit /\ JobShape(p)'
      BY <1>4, <2>2, <3>1 DEF JobShape
    <3> QED
      BY <1>2, <1>3, <1>4, <2>1, <2>2, <3>1, <3>2, Idles DEF LocalInv
  <2>5. LocalInv'
    BY <2>3, <2>4
  <2> QED
    BY <1>1, <1>2, <1>4, <2>5, LocalStep, ConstantsAssumption DEF Places, Tags
<1>5. CASE p \in Tags
  <2>1. p # "local" /\ TagInv(p) /\ p \notin GaTags
    BY <1>1, <1>5, ConstantsAssumption DEF IInv, TagInv, Tags, Names, Published
  <2>2. /\ tags[p] \in Known /\ job[p].version = p /\ job[p].commit = tags[p] /\ JobShape(p)
        /\ Built(dir[p], p, tags[p], {tags[p]}, Before[name])
    BY <1>1, <2>1 DEF TagInv, Names, Published
  <2>3. Built(files, p, tags[p], {tags[p]}, names)
    BY <2>1, <2>2, BuildAdds DEF Root
  <2>4. (job'[p].pc \in Compared \/ artifact[p] # None \/ releases[p] # None) =>
          commits[tags[p]].package = p
    <3>1. CASE name = "archive"
      BY <1>1, <1>2, <2>1, <2>2, <3>1 DEF TagInv, Compared, After, JobShape
    <3>2. CASE name = "wheel"
      BY <1>1, <2>1, <2>2, <3>2 DEF VersionMatches, Root
    <3>3. CASE name \notin {"archive", "wheel"}
      BY <1>1, <2>1, <3>3 DEF TagInv, Compared, Names, Published
    <3> QED
      BY <3>1, <3>2, <3>3
  <2>5. /\ artifact'[p] # None => Whole(artifact'[p], p, tags'[p])
        /\ releases'[p] # None => Good(releases'[p], p, tags'[p])
    BY <1>2, <2>1 DEF TagInv
  <2>6. ASSUME After[name] = "built" PROVE TagInv(p)'
    <3>1. job'[p] = [job[p] EXCEPT !.pc = "smoke"] /\ names = Names
      BY <1>2, <2>1, <2>6, NextFile DEF Done
    <3>2. /\ job'[p].pc = "smoke" /\ job'[p].version = p /\ job'[p].commit = tags[p] /\ JobShape(p)'
      BY <2>2, <3>1 DEF JobShape
    <3> QED
      BY <1>2, <1>3, <2>1, <2>2, <2>3, <2>4, <2>5, <3>1, <3>2, Idles DEF TagInv, Whole
  <2>7. ASSUME After[name] # "built" PROVE TagInv(p)'
    <3>1. /\ job'[p] = [job[p] EXCEPT !.pc = After[name]]
          /\ After[name] \in Names /\ names = Before[After[name]]
      BY <1>2, <2>7, NextFile
    <3>2. /\ job'[p].pc = After[name] /\ job'[p].version = p /\ job'[p].commit = tags[p] /\ JobShape(p)'
      BY <2>2, <3>1 DEF JobShape
    <3> QED
      BY <1>2, <1>3, <2>1, <2>2, <2>3, <2>4, <2>5, <3>1, <3>2, Idles DEF TagInv
  <2>8. TagInv(p)'
    BY <2>6, <2>7
  <2> QED
    BY <1>1, <1>2, <1>5, <2>8, TagStep
<1> QED
  BY <1>4, <1>5 DEF Places

LEMMA BuildStopsStep == IInv /\ BuildStops => IInv'
<1> SUFFICES ASSUME IInv, BuildStops PROVE IInv'
  OBVIOUS
<1>1. PICK p \in Places, name \in Names :
        /\ job[p].pc = name
        /\ \E left \in {dir[p]} \cup {Extended(dir[p], name, f) : f \in Fragments(dir[p], name)}
                        \cup (IF name = "archive" THEN {None} ELSE {}) :
             SetDir(p, IF p = "local" THEN left ELSE None)
        /\ job' = [job EXCEPT ![p] = Stopped(p)]
        /\ UNCHANGED <<Repository, artifact, releases>>
  BY DEF BuildStops, At
<1> PICK left : /\ left \in {dir[p]} \cup {Extended(dir[p], name, f) : f \in Fragments(dir[p], name)}
                            \cup (IF name = "archive" THEN {None} ELSE {})
                /\ dir' = [dir EXCEPT ![p] = IF p = "local" THEN left ELSE None]
  BY <1>1 DEF SetDir
<1>2. /\ dir'[p] = (IF p = "local" THEN left ELSE None) /\ Functions' /\ job'[p] = Stopped(p)
      /\ \A q \in Places \ {p} : job'[q] = job[q] /\ dir'[q] = dir[q]
      /\ commits' = commits /\ tags' = tags /\ artifact' = artifact /\ releases' = releases
  BY <1>1 DEF IInv, Functions, Repository
<1>3. Known' = Known
  BY <1>2 DEF Known, Newest
<1>4. CASE p = "local"
  <2>1. /\ job[p].version \in Tags /\ job[p].commit \in Known
        /\ Built(dir[p], job[p].version, job[p].commit, Known, Before[name])
    BY <1>1, <1>4 DEF IInv, LocalInv
  <2>2. left # None => Left(left, Known)
    BY <1>1, <2>1 DEF Left, LeftBy
  <2>3. LocalInv'
    BY <1>2, <1>3, <1>4, <2>2, Idles DEF LocalInv, JobShape, Stopped, Idle
  <2> QED
    BY <1>1, <1>2, <1>4, <2>3, LocalStep, ConstantsAssumption DEF Places, Tags
<1>5. CASE p \in Tags
  <2>5. p # "local" /\ TagInv(p)
    BY <1>5, ConstantsAssumption DEF IInv, Tags
  <2>6. job[p].pc \notin {"idle", "checks", "failed"}
    BY <1>1, Idles
  <2>1. p # "local" /\ TagInv(p) /\ p \notin GaTags
    BY <2>5, <2>6 DEF TagInv
  <2>2. job'[p] = [job[p] EXCEPT !.pc = "failed"] /\ JobShape(p)
    BY <1>2, <2>1 DEF Stopped, TagInv
  <2>3. /\ job'[p].pc = "failed" /\ job'[p].version = job[p].version
        /\ job'[p].commit = job[p].commit /\ JobShape(p)'
    BY <2>2 DEF JobShape
  <2>4. TagInv(p)'
    BY <1>1, <1>2, <1>3, <2>1, <2>3, Idles DEF TagInv, Compared
  <2> QED
    BY <1>1, <1>2, <1>5, <2>4, TagStep
<1> QED
  BY <1>4, <1>5 DEF Places

LEMMA RemoveDirectoryStep == IInv /\ RemoveDirectory => IInv'
<1> SUFFICES ASSUME IInv, RemoveDirectory PROVE IInv'
  OBVIOUS
<1>1. /\ job["local"].pc = "idle" /\ dir'["local"] = None /\ job' = job /\ Functions'
      /\ \A tag \in Tags : dir'[tag] = dir[tag]
  BY ConstantsAssumption DEF RemoveDirectory, At, SetDir, IInv, Functions, Places, Tags
<1>2. LocalInv'
  BY <1>1, Idles DEF IInv, LocalInv, JobShape
<1> QED
  BY <1>1, <1>2, LocalStep DEF RemoveDirectory

-----------------------------------------------------------------------------
(* The workflow of a tag.                                                  *)

\* A step of a tag's run: where it goes, and all else of the run as it was.
Moves(tag, pc) ==
  /\ job' = [job EXCEPT ![tag].pc = pc]
  /\ Functions' /\ UNCHANGED Repository
  /\ \A p \in Places \ {tag} : job'[p] = job[p] /\ dir'[p] = dir[p]
  /\ \A t \in Tags \ {tag} : artifact'[t] = artifact[t] /\ releases'[t] = releases[t]

LEMMA Moved ==
  ASSUME IInv, NEW tag \in Tags, NEW pc, Moves(tag, pc)
  PROVE  /\ job'[tag].pc = pc /\ job'[tag].version = job[tag].version
         /\ job'[tag].commit = job[tag].commit /\ JobShape(tag)'
         /\ tags' = tags /\ commits' = commits /\ Known' = Known
<1>1. JobShape(tag) /\ tag \in Places
  BY DEF IInv, TagInv, Places
<1>2. job'[tag] = [job[tag] EXCEPT !.pc = pc]
  BY <1>1 DEF Moves, IInv, Functions
<1>3. tags' = tags /\ commits' = commits /\ Known' = Known
  BY DEF Moves, Repository, Known, Newest
<1> QED
  BY <1>1, <1>2, <1>3 DEF JobShape

\* A run fails without a trace in what is public.
LEMMA FailsStep ==
  ASSUME IInv, NEW tag \in Tags, job[tag].pc \notin {"idle"}, Fails(tag)
  PROVE  IInv'
<1>1. Moves(tag, "failed") /\ dir'[tag] = None /\ artifact' = artifact /\ releases' = releases
  BY DEF Fails, Goto, SetDir, Moves, IInv, Functions, Places
<1>2. TagInv(tag)'
  <2>1. /\ job'[tag].pc = "failed" /\ job'[tag].version = job[tag].version
        /\ job'[tag].commit = job[tag].commit /\ JobShape(tag)'
        /\ tags' = tags /\ commits' = commits /\ Known' = Known
    BY <1>1, Moved DEF IInv
  <2>2. "failed" \notin Names \cup Compared
    BY DEF Names, Published, Compared
  <2> QED
    BY <1>1, <2>1, <2>2 DEF IInv, TagInv
<1> QED
  BY <1>1, <1>2, TagStep DEF Moves

\* The gate finds no record it accepts: the one in a commit names an earlier one.
LEMMA GateRefuses ==
  ASSUME HistoryInv, NEW tag \in Tags, NEW commit \in Known
  PROVE  ~ GateAccepts(tag, commit)
<1>1. commit \in Nat /\ commits[commit].record # None => commits[commit].record.commit < commit
  BY TypeOfNewest DEF HistoryInv, Known
<1>2. CASE commits[commit].record = None
  BY <1>2 DEF GateAccepts
<1>3. CASE commits[commit].record # None
  <2>1. commits[commit] \in Contents
    BY TypeOfNewest DEF HistoryInv, Known, Newest
  <2>2. commits[commit].record.commit \in Nat
    BY <1>3, <2>1 DEF Contents
  <2>3. commit \in Nat
    BY TypeOfNewest DEF Known
  <2> QED
    BY <1>1, <1>3, <2>2, <2>3 DEF GateAccepts
<1> QED
  BY <1>2, <1>3

LEMMA ChecksStep == IInv /\ Checks => IInv'
<1> SUFFICES ASSUME IInv, Checks PROVE IInv'
  OBVIOUS
<1>1. PICK tag \in Tags :
        /\ job[tag].pc = "checks"
        /\ \/ /\ tag \in GaTags => GateAccepts(tag, job[tag].commit)
              /\ Goto(tag, "archive") /\ SetDir(tag, <<>>) /\ UNCHANGED <<Repository, artifact, releases>>
           \/ Fails(tag)
  BY DEF Checks, At
<1>2. CASE Fails(tag)
  BY <1>1, <1>2, FailsStep
<1>3. CASE ~ Fails(tag)
  <2>1. tag \notin GaTags
    BY <1>1, <1>3, GateRefuses DEF IInv, TagInv
  <2>2. Moves(tag, "archive") /\ dir'[tag] = <<>> /\ artifact' = artifact /\ releases' = releases
    BY <1>1, <1>3 DEF Goto, SetDir, Moves, IInv, Functions, Places
  <2>3. "archive" \in Names /\ Built(<<>>, tag, tags[tag], {tags[tag]}, {}) /\ Before["archive"] = {}
    BY DEF Built, Before, Names, Published
  <2>4. Built(dir'[tag], tag, tags[tag], {tags[tag]}, Before["archive"])
    BY <2>2, <2>3
  <2>5. /\ job'[tag].pc = "archive" /\ job'[tag].version = job[tag].version
        /\ job'[tag].commit = job[tag].commit /\ JobShape(tag)'
        /\ tags' = tags /\ commits' = commits /\ Known' = Known
    BY <2>2, Moved DEF IInv
  <2>6. tags[tag] \in Known /\ job[tag].version = tag /\ "archive" \notin Compared
    BY <1>1 DEF IInv, TagInv, Compared
  <2>7. TagInv(tag)'
    BY <1>1, <2>1, <2>2, <2>3, <2>4, <2>5, <2>6, Idles, ZenonT(30) DEF IInv, TagInv
  <2> QED
    BY <2>2, <2>7, TagStep DEF Moves
<1> QED
  BY <1>2, <1>3

LEMMA SmokeStep == IInv /\ Smoke => IInv'
<1> SUFFICES ASSUME IInv, Smoke PROVE IInv'
  OBVIOUS
<1>1. PICK tag \in Tags :
        /\ job[tag].pc = "smoke"
        /\ \/ SmokeParses /\ Goto(tag, "upload") /\ UNCHANGED <<Repository, dir, artifact, releases>>
           \/ Fails(tag)
  BY DEF Smoke, At
<1>2. CASE Fails(tag)
  BY <1>1, <1>2, FailsStep
<1>3. CASE ~ Fails(tag)
  <2>1. Moves(tag, "upload") /\ dir' = dir /\ artifact' = artifact /\ releases' = releases
    BY <1>1, <1>3 DEF Goto, Moves, IInv, Functions, Places
  <2>2. /\ job'[tag].pc = "upload" /\ job'[tag].version = job[tag].version
        /\ job'[tag].commit = job[tag].commit /\ JobShape(tag)'
        /\ tags' = tags /\ commits' = commits /\ Known' = Known
    BY <2>1, Moved DEF IInv
  <2>3. TagInv(tag)'
    BY <1>1, <2>1, <2>2, Idles DEF IInv, TagInv, Compared
  <2> QED
    BY <2>1, <2>3, TagStep DEF Moves
<1> QED
  BY <1>2, <1>3

LEMMA UploadStep == IInv /\ Upload => IInv'
<1> SUFFICES ASSUME IInv, Upload PROVE IInv'
  OBVIOUS
<1>1. PICK tag \in Tags :
        /\ job[tag].pc = "upload"
        /\ \/ /\ artifact' = [artifact EXCEPT ![tag] = dir[tag]]
              /\ Goto(tag, "download") /\ SetDir(tag, None) /\ UNCHANGED <<Repository, releases>>
           \/ Fails(tag)
  BY DEF Upload, At
<1>2. CASE Fails(tag)
  BY <1>1, <1>2, FailsStep
<1>3. CASE ~ Fails(tag)
  <2>1. /\ Moves(tag, "download") /\ dir'[tag] = None
        /\ artifact'[tag] = dir[tag] /\ releases' = releases
    BY <1>1, <1>3 DEF Goto, SetDir, Moves, IInv, Functions, Places
  <2>2. /\ job'[tag].pc = "download" /\ job'[tag].version = job[tag].version
        /\ job'[tag].commit = job[tag].commit /\ JobShape(tag)'
        /\ tags' = tags /\ commits' = commits /\ Known' = Known
    BY <2>1, Moved DEF IInv
  <2>3. TagInv(tag)'
    BY <1>1, <2>1, <2>2, Idles DEF IInv, TagInv, Compared
  <2> QED
    BY <2>1, <2>3, TagStep DEF Moves
<1> QED
  BY <1>2, <1>3

LEMMA DownloadStep == IInv /\ Download => IInv'
<1> SUFFICES ASSUME IInv, Download PROVE IInv'
  OBVIOUS
<1>1. PICK tag \in Tags :
        /\ job[tag].pc = "download"
        /\ \/ /\ artifact[tag] # None
              /\ \E files \in Transferred(artifact[tag]) : SetDir(tag, files)
              /\ Goto(tag, "boundary") /\ UNCHANGED <<Repository, artifact, releases>>
           \/ Fails(tag)
  BY DEF Download, At
<1>2. CASE Fails(tag)
  BY <1>1, <1>2, FailsStep
<1>3. CASE ~ Fails(tag)
  <2>1. PICK files \in Transferred(artifact[tag]) :
          artifact[tag] # None /\ SetDir(tag, files)
    BY <1>1, <1>3
  <2>2. Moves(tag, "boundary") /\ dir'[tag] = files /\ artifact' = artifact /\ releases' = releases
    BY <1>1, <1>3, <2>1 DEF Goto, SetDir, Moves, IInv, Functions, Places
  <2>3. Delivered(files, tag, tags[tag])
    BY <2>1 DEF IInv, TagInv, Delivered
  <2>4. /\ job'[tag].pc = "boundary" /\ job'[tag].version = job[tag].version
        /\ job'[tag].commit = job[tag].commit /\ JobShape(tag)'
        /\ tags' = tags /\ commits' = commits /\ Known' = Known
    BY <2>2, Moved DEF IInv
  <2>5. Delivered(dir[tag], tag, tags[tag])'
    BY <2>2, <2>3, <2>4
  <2>6. TagInv(tag)'
    BY <1>1, <2>1, <2>2, <2>4, <2>5, Idles DEF IInv, TagInv, Compared
  <2> QED
    BY <2>2, <2>6, TagStep DEF Moves
<1> QED
  BY <1>2, <1>3

-----------------------------------------------------------------------------
(* The boundary.                                                           *)

LEMMA SixNames ==
  ASSUME NEW S, S \subseteq Names, Cardinality(S) = 6
  PROVE  S = Names
<1>1. IsFiniteSet(Names) /\ Cardinality(Names) = 6
  <2> DEFINE A == {"archive"}
             B == A \cup {"wheel"}
             C == B \cup {"sdist"}
             D == C \cup {"sbom"}
             E == D \cup {"manifest"}
             F == E \cup {"sums"}
  <2>1. IsFiniteSet(A) /\ Cardinality(A) = 1
    BY FS_Singleton
  <2>2. IsFiniteSet(B) /\ Cardinality(B) = 2
    <3>1. "wheel" \notin A
      OBVIOUS
    <3> HIDE DEF A
    <3> QED
      BY <2>1, <3>1, FS_AddElement
  <2>3. IsFiniteSet(C) /\ Cardinality(C) = 3
    <3>1. "sdist" \notin B
      OBVIOUS
    <3> HIDE DEF B
    <3> QED
      BY <2>2, <3>1, FS_AddElement
  <2>4. IsFiniteSet(D) /\ Cardinality(D) = 4
    <3>1. "sbom" \notin C
      OBVIOUS
    <3> HIDE DEF C
    <3> QED
      BY <2>3, <3>1, FS_AddElement
  <2>5. IsFiniteSet(E) /\ Cardinality(E) = 5
    <3>1. "manifest" \notin D
      OBVIOUS
    <3> HIDE DEF D
    <3> QED
      BY <2>4, <3>1, FS_AddElement
  <2>6. IsFiniteSet(F) /\ Cardinality(F) = 6
    <3>1. "sums" \notin E
      OBVIOUS
    <3> HIDE DEF E
    <3> QED
      BY <2>5, <3>1, FS_AddElement
  <2>7. Names = F
    BY DEF Names, Published
  <2> QED
    BY <2>6, <2>7
<1> QED
  BY <1>1, FS_Subset

\* A file that is not whole has another hash.
LEMMA PartIsNoSource == \A commit \in Nat : Source(commit) # Part
  BY ConstantsAssumption DEF Source

\* The checksums, whole or their first lines, say what was built.
LEMMA LinesLeft ==
  ASSUME NEW w, NEW rest \in Fragments(w, "sums"), rest # Part, "archive" \in DOMAIN w
  PROVE  "archive" \in DOMAIN rest /\ \A n \in DOMAIN rest : rest[n] = w[n]
<1>1. PICK k \in 1 .. 4 : rest = Hashes(w, FirstLines(k))
  BY DEF Fragments
<1>2. "archive" \in FirstLines(k)
  BY DEF FirstLines, Lines
<1> QED
  BY <1>1, <1>2 DEF Hashes

\* A transferred directory that is let through is whole as far as its checksums
\* list it: a file that misses is counted, one that is cut is read by the check
\* or listed with its hash in the checksums, unless those are cut before it.
LEMMA LetThrough ==
  ASSUME NEW files, NEW tag, NEW commit \in Nat, Delivered(files, tag, commit),
         NEW v, NEW c, BoundaryAccepts(files, v, c)
  PROVE  Good(files, tag, commit)
<1>1. PICK w : Whole(w, tag, commit) /\ files \in Transferred(w)
  BY DEF Delivered
<1>2. /\ DOMAIN w = Names /\ \A n \in Published : w[n] = Source(commit)
      /\ w["manifest"] = [version |-> tag, commit |-> commit, hashes |-> [n \in Published |-> w[n]]]
      /\ w["sums"] = [n \in Published \cup {"manifest"} |-> w[n]]
  <2>1. Published = {"archive", "wheel", "sdist"} \cup {"sbom"} /\ Published \cup {"manifest", "sums"} = Names
    BY DEF Published, Names
  <2> QED
    BY <1>1, <2>1 DEF Whole, Built
<1>3. /\ Cardinality(DOMAIN files) = 6 /\ files["sums"] # Part /\ files["manifest"] # Part
      /\ \A n \in DOMAIN files["sums"] : files["sums"][n] = files[n]
  BY DEF BoundaryAccepts
<1>4. PICK hit \in SUBSET Names : \E cut \in SUBSET hit, rest \in Fragments(w, "sums") :
        files = Received(w, hit, cut, rest)
  BY <1>1, <1>2 DEF Transferred
<1>13. PICK cut \in SUBSET hit, rest \in Fragments(w, "sums") : files = Received(w, hit, cut, rest)
  BY <1>4
<1>5. DOMAIN files = Names
  <2>1. DOMAIN files \subseteq Names
    BY <1>2, <1>13 DEF Received
  <2> QED
    BY <1>3, <2>1, SixNames
<1>6. \A n \in Names : files[n] = IF n \notin cut THEN w[n] ELSE IF n = "sums" THEN rest ELSE Part
  BY <1>2, <1>13, <1>5 DEF Received
<1>7. "archive" \in Published /\ "sums" \notin Published /\ Published \cup {"manifest", "sums"} = Names
  BY DEF Published, Names
<1>8. "archive" \in DOMAIN files["sums"] /\ \A n \in DOMAIN files["sums"] : files["sums"][n] = w[n]
  <2>1. CASE "sums" \in cut
    <3>1. files["sums"] = rest /\ rest # Part
      BY <1>3, <1>6, <1>7, <2>1
    <3> QED
      BY <1>2, <1>7, <3>1, LinesLeft
  <2>2. CASE "sums" \notin cut
    <3>1. files["sums"] = w["sums"]
      BY <1>6, <1>7, <2>2
    <3> QED
      BY <1>2, <1>7, <3>1
  <2> QED
    BY <2>1, <2>2
<1>9. files["manifest"] = w["manifest"]
  BY <1>3, <1>6, <1>7
<1>10. [n \in Published |-> w[n]] = [n \in Published |-> Source(commit)]
  BY <1>2
<1>11. ASSUME NEW n \in Published
       PROVE  files[n] = Source(commit) \/ (files[n] = Part /\ n \notin DOMAIN files["sums"])
  <2>1. files[n] = w[n] \/ files[n] = Part
    BY <1>6, <1>7
  <2>2. n \in DOMAIN files["sums"] => files[n] = w[n]
    BY <1>3, <1>8
  <2> QED
    BY <1>2, <2>1, <2>2
<1> QED
  BY <1>2, <1>3, <1>5, <1>8, <1>9, <1>10, <1>11 DEF Good

LEMMA BoundaryStep == IInv /\ Boundary => IInv'
<1> SUFFICES ASSUME IInv, Boundary PROVE IInv'
  OBVIOUS
<1>1. PICK tag \in Tags :
        /\ job[tag].pc = "boundary"
        /\ IF BoundaryAccepts(dir[tag], tag, job[tag].commit)
             THEN Goto(tag, "publish") /\ UNCHANGED <<Repository, dir, artifact, releases>>
             ELSE Fails(tag)
  BY DEF Boundary, At
<1>2. CASE ~ BoundaryAccepts(dir[tag], tag, job[tag].commit)
  BY <1>1, <1>2, FailsStep
<1>3. CASE BoundaryAccepts(dir[tag], tag, job[tag].commit)
  <2>1. Moves(tag, "publish") /\ dir' = dir /\ artifact' = artifact /\ releases' = releases
    BY <1>1, <1>3 DEF Goto, Moves, IInv, Functions, Places
  <2>2. /\ job'[tag].pc = "publish" /\ job'[tag].version = job[tag].version
        /\ job'[tag].commit = job[tag].commit /\ JobShape(tag)'
        /\ tags' = tags /\ commits' = commits /\ Known' = Known
    BY <2>1, Moved DEF IInv
  <2> HistoryInv /\ TagInv(tag)
    BY DEF IInv
  <2>3. tags[tag] \in Nat /\ tags[tag] = job[tag].commit /\ Delivered(dir[tag], tag, tags[tag])
    <3>1. /\ job[tag].pc # "idle" /\ tags[tag] \in Known /\ tags[tag] = job[tag].commit
          /\ Delivered(dir[tag], tag, tags[tag])
      BY <1>1 DEF TagInv
    <3> QED
      BY <3>1, TypeOfNewest DEF Known
  <2>4. Good(dir[tag], tag, tags[tag])
    BY <1>3, <2>3, LetThrough
  <2>5. TagInv(tag)'
    BY <1>1, <2>1, <2>2, <2>4, Idles DEF IInv, TagInv, Compared
  <2> QED
    BY <2>1, <2>5, TagStep DEF Moves
<1> QED
  BY <1>2, <1>3

LEMMA PublishStep == IInv /\ Publish => IInv'
<1> SUFFICES ASSUME IInv, Publish PROVE IInv'
  OBVIOUS
<1>1. PICK tag \in Tags :
        /\ job[tag].pc = "publish"
        /\ \/ /\ releases[tag] = None
              /\ releases' = [releases EXCEPT ![tag] = dir[tag]]
              /\ Goto(tag, "done") /\ SetDir(tag, None) /\ UNCHANGED <<Repository, artifact>>
           \/ Fails(tag)
  BY DEF Publish, At
<1>2. CASE Fails(tag)
  BY <1>1, <1>2, FailsStep
<1>3. CASE ~ Fails(tag)
  <2>1. Moves(tag, "done") /\ dir'[tag] = None /\ releases'[tag] = dir[tag] /\ artifact' = artifact
    BY <1>1, <1>3 DEF Goto, SetDir, Moves, IInv, Functions, Places
  <2>2. /\ job'[tag].pc = "done" /\ job'[tag].version = job[tag].version
        /\ job'[tag].commit = job[tag].commit /\ JobShape(tag)'
        /\ tags' = tags /\ commits' = commits /\ Known' = Known
    BY <2>1, Moved DEF IInv
  <2>3. TagInv(tag)'
    BY <1>1, <2>1, <2>2, Idles DEF IInv, TagInv, Compared
  <2> QED
    BY <2>1, <2>3, TagStep DEF Moves
<1> QED
  BY <1>2, <1>3

LEMMA RerunStep == IInv /\ Rerun => IInv'
<1> SUFFICES ASSUME IInv, Rerun PROVE IInv'
  OBVIOUS
<1>1. PICK tag \in Tags :
        /\ \/ /\ job[tag].pc \in {"failed", "done"}
              /\ Goto(tag, "checks") /\ artifact' = [artifact EXCEPT ![tag] = None]
           \/ job[tag].pc = "failed" /\ artifact[tag] # None /\ Goto(tag, "download") /\ UNCHANGED artifact
        /\ UNCHANGED <<Repository, dir, releases>>
  BY DEF Rerun, At
<1>2. CASE Goto(tag, "checks") /\ artifact' = [artifact EXCEPT ![tag] = None]
  <2>1. Moves(tag, "checks") /\ dir' = dir /\ releases' = releases /\ artifact'[tag] = None
    BY <1>1, <1>2 DEF Goto, Moves, IInv, Functions, Places
  <2>2. /\ job'[tag].pc = "checks" /\ job'[tag].version = job[tag].version
        /\ job'[tag].commit = job[tag].commit /\ JobShape(tag)'
        /\ tags' = tags /\ commits' = commits /\ Known' = Known
    BY <2>1, Moved DEF IInv
  <2>3. job[tag].pc \in {"failed", "done"}
    BY <1>1
  <2>4. TagInv(tag)'
    BY <2>1, <2>2, <2>3, Idles DEF IInv, TagInv, Compared
  <2> QED
    BY <2>1, <2>4, TagStep DEF Moves
<1>3. CASE job[tag].pc = "failed" /\ artifact[tag] # None /\ Goto(tag, "download") /\ UNCHANGED artifact
  <2>1. Moves(tag, "download") /\ dir' = dir /\ releases' = releases /\ artifact' = artifact
    BY <1>1, <1>3 DEF Goto, Moves, IInv, Functions, Places
  <2>2. /\ job'[tag].pc = "download" /\ job'[tag].version = job[tag].version
        /\ job'[tag].commit = job[tag].commit /\ JobShape(tag)'
        /\ tags' = tags /\ commits' = commits /\ Known' = Known
    BY <2>1, Moved DEF IInv
  <2>3. TagInv(tag)'
    BY <1>3, <2>1, <2>2, Idles DEF IInv, TagInv, Compared
  <2> QED
    BY <2>1, <2>3, TagStep DEF Moves
<1> QED
  BY <1>1, <1>2, <1>3

LEMMA ExpireStep == IInv /\ Expire => IInv'
<1> SUFFICES ASSUME IInv, Expire PROVE IInv'
  OBVIOUS
<1>1. PICK tag \in Tags :
        /\ artifact[tag] # None /\ artifact' = [artifact EXCEPT ![tag] = None]
        /\ UNCHANGED <<Repository, job, dir, releases>>
  BY DEF Expire
<1>2. /\ artifact'[tag] = None /\ Functions' /\ \A t \in Tags \ {tag} : artifact'[t] = artifact[t]
      /\ tags' = tags /\ commits' = commits /\ Known' = Known
  BY <1>1 DEF IInv, Functions, Repository, Known, Newest
<1>3. TagInv(tag)'
  BY <1>1, <1>2 DEF IInv, TagInv, JobShape
<1> QED
  BY <1>1, <1>2, <1>3, TagStep

-----------------------------------------------------------------------------
(* The theorems.                                                           *)

LEMMA NextIInv == IInv /\ [Next]_vars => IInv'
<1> SUFFICES ASSUME IInv, [Next]_vars PROVE IInv'
  OBVIOUS
<1>1. CASE UNCHANGED vars
  <2>1. UNCHANGED Repository /\ job' = job /\ dir' = dir /\ artifact' = artifact /\ releases' = releases
    BY <1>1 DEF vars, Repository
  <2>2. LocalInv' /\ Functions'
    BY <2>1 DEF IInv, LocalInv, JobShape, Functions, Repository, Known, Newest
  <2> QED
    BY <2>1, <2>2, LocalStep
<1>2. CASE Next
  BY <1>2, CommitStep, WriteRecordStep, PushTagStep, BuildBeginStep, BuildFileStep, BuildStopsStep,
     RemoveDirectoryStep, ChecksStep, SmokeStep, UploadStep, DownloadStep, BoundaryStep, PublishStep,
     RerunStep, ExpireStep
  DEF Next
<1> QED
  BY <1>1, <1>2

\* The inductive invariant holds in every run.
THEOREM Invariance == Spec => []IInv
  BY InitIInv, NextIInv, PTL DEF Spec

\* No tag without a prerelease suffix passes the readiness gate, so none is
\* ever published, whatever records are written, committed and tagged
\* (release.yml:47, validate-ga-release-readiness.py:105,139).
THEOREM GaNeverReleased == Spec => []GaStopsAtTheGate
<1>1. IInv => GaStopsAtTheGate
  BY DEF IInv, TagInv, GaStopsAtTheGate, Tags
<1> QED
  BY <1>1, Invariance, PTL

\* What is published under a tag is of the tagged commit, whose package has the
\* tag's version, and whole as far as its checksums list it: the archive and the
\* manifest in any case, a cut file only if the checksums are cut before it;
\* under every interleaving of commits, failures, losses and cuts of any number
\* of files in the transfer, and repeated jobs (release.yml:94-102).
THEOREM ReleasesAreOfTheirTags == Spec => []PublishedIsOfTag
<1>1. IInv => PublishedIsOfTag
  <2> SUFFICES ASSUME IInv, NEW tag \in Tags, releases[tag] # None
               PROVE  /\ DOMAIN releases[tag] = Names /\ commits[tags[tag]].package = tag
                      /\ releases[tag]["manifest"].hashes = [n \in Published |-> Source(tags[tag])]
                      /\ "archive" \in DOMAIN releases[tag]["sums"]
                      /\ \A n \in Published :
                           \/ releases[tag][n] = Source(tags[tag])
                           \/ releases[tag][n] = Part /\ n \notin DOMAIN releases[tag]["sums"]
    BY DEF PublishedIsOfTag
  <2>1. Good(releases[tag], tag, tags[tag]) /\ commits[tags[tag]].package = tag
    BY DEF IInv, TagInv
  <2> QED
    BY <2>1 DEF Good
<1> QED
  BY <1>1, Invariance, PTL

\* What the boundary check tells of a directory it accepts: the files are those
\* the manifest was written for, if they are listed or all of them are.
Agrees(files, commit, all) ==
  /\ DOMAIN files["manifest"].hashes = Published
  /\ \A n \in {"archive", "wheel", "sdist"} : files["manifest"].hashes[n] = Source(commit)
  /\ files["manifest"].hashes["sbom"] # Part /\ "archive" \in DOMAIN files["sums"]
  /\ \A n \in Published :
       files[n] = files["manifest"].hashes[n] \/ (n \notin DOMAIN files["sums"] /\ ~ all)

\* What can be said of every directory: how far its files are from whole, and
\* that the boundary check tells.
Remains(files, known, all) ==
  /\ DOMAIN files \subseteq Names
  /\ \A n \in DOMAIN files \cap Published : files[n] = Part \/ \E c \in known : files[n] = Source(c)
  /\ \A version, commit : BoundaryAccepts(files, version, commit) => Agrees(files, commit, all)

LEMMA WholeRemains ==
  ASSUME NEW known, known \subseteq Nat, NEW files, NEW version, NEW commit \in known,
         \A n \in {"archive", "wheel", "sdist"} : files[n] = Source(commit),
         \E c \in known : files["sbom"] = Source(c), DOMAIN files = Names,
         files["manifest"] = [version |-> version, commit |-> commit, hashes |-> [n \in Published |-> files[n]]],
         files["sums"] # Part => "archive" \in DOMAIN files["sums"]
  PROVE  Remains(files, known, TRUE)
<1>1. Published = {"archive", "wheel", "sdist"} \cup {"sbom"}
  BY DEF Published
<1>2. \A n \in Published : \E c \in known : files[n] = Source(c)
  BY <1>1
<1>3. files["sbom"] # Part
  BY PartIsNoSource
<1>4. ASSUME NEW v, NEW c, BoundaryAccepts(files, v, c) PROVE Agrees(files, c, TRUE)
  <2>1. files["sums"] # Part /\ c = commit
    BY <1>4 DEF BoundaryAccepts
  <2>2. /\ DOMAIN files["manifest"].hashes = Published
        /\ \A n \in Published : files["manifest"].hashes[n] = files[n]
    OBVIOUS
  <2> QED
    BY <1>1, <1>3, <2>1, <2>2 DEF Agrees
<1> QED
  BY <1>2, <1>4 DEF Remains

LEMMA GoodRemains ==
  ASSUME NEW known, known \subseteq Nat, NEW files, NEW tag, NEW commit \in known, Good(files, tag, commit)
  PROVE  Remains(files, known, FALSE)
<1>1. {"archive", "wheel", "sdist", "sbom"} = Published
  BY DEF Published
<1>2. /\ DOMAIN files = Names /\ "archive" \in DOMAIN files["sums"]
      /\ files["manifest"].commit = commit
      /\ DOMAIN files["manifest"].hashes = Published
      /\ \A n \in Published : files["manifest"].hashes[n] = Source(commit)
      /\ \A n \in Published : \/ files[n] = Source(commit)
                              \/ files[n] = Part /\ n \notin DOMAIN files["sums"]
  BY DEF Good
<1>3. Source(commit) # Part
  BY PartIsNoSource
<1>4. ASSUME NEW v, NEW c, BoundaryAccepts(files, v, c) PROVE Agrees(files, c, FALSE)
  <2>1. c = commit
    BY <1>2, <1>4 DEF BoundaryAccepts
  <2> QED
    BY <1>1, <1>2, <1>3, <2>1 DEF Agrees
<1> QED
  BY <1>2, <1>4 DEF Remains

LEMMA BuiltRemains ==
  ASSUME NEW known, known \subseteq Nat, NEW files, NEW version, NEW commit \in known,
         NEW names, names \subseteq Names, Built(files, version, commit, known, names)
  PROVE  Remains(files, known, TRUE)
<1>1. DOMAIN files = names
  BY DEF Built
<1>2. CASE names = Names
  <2>1. {"archive", "wheel", "sdist", "sbom", "manifest", "sums"} = Names /\ "archive" \in Published
    BY DEF Names, Published
  <2>2. "archive" \in DOMAIN files["sums"]
    BY <1>2, <2>1 DEF Built
  <2> QED
    BY <1>1, <1>2, <2>1, <2>2, WholeRemains DEF Built
<1>3. CASE names # Names
  <2>1. \A v, c : ~ BoundaryAccepts(files, v, c)
    BY <1>1, <1>3, SixNames DEF BoundaryAccepts
  <2>2. Published = {"archive", "wheel", "sdist"} \cup {"sbom"}
    BY DEF Published
  <2>3. \A n \in names \cap Published : \E c \in known : files[n] = Source(c)
    BY <2>2 DEF Built
  <2> QED
    BY <1>1, <2>1, <2>3 DEF Remains
<1> QED
  BY <1>2, <1>3

LEMMA FragmentRemains ==
  ASSUME NEW known, known \subseteq Nat, NEW w, NEW version, NEW commit \in known, NEW name \in Names,
         Built(w, version, commit, known, Before[name]), NEW f \in Fragments(w, name)
  PROVE  Remains(Extended(w, name, f), known, TRUE)
<1> DEFINE files == Extended(w, name, f)
<1>1. DOMAIN w = Before[name] /\ Before[name] \subseteq Names /\ name \notin Before[name]
  <2>1. DOMAIN w = Before[name]
    BY DEF Built
  <2> QED
    BY <2>1 DEF Before, Names, Published
<1>2. /\ DOMAIN files = Before[name] \cup {name} /\ files[name] = f
      /\ \A n \in Before[name] : files[n] = w[n]
  BY <1>1 DEF Extended
<1> HIDE DEF files
<1> SUFFICES Remains(files, known, TRUE)
  BY DEF files
<1>3. CASE name = "sums"
  <2>1. Before[name] = Published \cup {"manifest"} /\ Before[name] \cup {name} = Names
    BY <1>3 DEF Before, Names
  <2>2. [n \in Published |-> files[n]] = [n \in Published |-> w[n]]
    BY <1>2, <2>1
  <2>3. {"archive", "wheel", "sdist", "sbom", "manifest"} = Published \cup {"manifest"}
    BY DEF Published
  <2>4. /\ \A n \in {"archive", "wheel", "sdist"} : files[n] = Source(commit)
        /\ \E c \in known : files["sbom"] = Source(c)
        /\ DOMAIN files = Names
    BY <1>2, <2>1, <2>3 DEF Built
  <2>5. files["manifest"] =
          [version |-> version, commit |-> commit, hashes |-> [n \in Published |-> files[n]]]
    BY <1>2, <2>1, <2>2, <2>3 DEF Built
  <2>6. files["sums"] # Part => "archive" \in DOMAIN files["sums"]
    BY <1>1, <1>2, <1>3, <2>1, <2>3, LinesLeft
  <2> QED
    BY <2>4, <2>5, <2>6, WholeRemains
<1>4. CASE name # "sums"
  <2>1. DOMAIN files # Names /\ DOMAIN files \subseteq Names
    BY <1>1, <1>2, <1>4 DEF Before, Names, Published
  <2>2. \A v, c : ~ BoundaryAccepts(files, v, c)
    BY <2>1, SixNames DEF BoundaryAccepts
  <2>3. name \in Published => f = Part
    BY <1>4 DEF Fragments
  <2>4. Published = {"archive", "wheel", "sdist"} \cup {"sbom"}
    BY DEF Published
  <2>5. \A n \in Before[name] \cap Published : \E c \in known : files[n] = Source(c)
    BY <1>2, <2>4 DEF Built
  <2> QED
    BY <1>2, <2>1, <2>2, <2>3, <2>5 DEF Remains
<1> QED
  BY <1>3, <1>4

LEMMA DeliveredRemains ==
  ASSUME NEW known, known \subseteq Nat, NEW files, NEW tag, NEW commit \in known,
         Delivered(files, tag, commit)
  PROVE  Remains(files, known, FALSE)
<1>1. PICK w : Whole(w, tag, commit) /\ files \in Transferred(w)
  BY DEF Delivered
<1>2. DOMAIN w = Names /\ \A n \in Published : w[n] = Source(commit)
  <2>1. Published = {"archive", "wheel", "sdist"} \cup {"sbom"} /\ Published \subseteq Names
    BY DEF Published, Names
  <2> QED
    BY <1>1, <2>1 DEF Whole, Built
<1>3. /\ DOMAIN files \subseteq Names
      /\ \A n \in DOMAIN files \cap Published : files[n] = Part \/ files[n] = Source(commit)
  <2>1. PICK hit \in SUBSET Names : \E cut \in SUBSET hit, rest \in Fragments(w, "sums") :
          files = Received(w, hit, cut, rest)
    BY <1>1, <1>2 DEF Transferred
  <2>2. PICK cut \in SUBSET hit, rest \in Fragments(w, "sums") : files = Received(w, hit, cut, rest)
    BY <2>1
  <2>3. "sums" \notin Published
    BY DEF Published
  <2>4. /\ DOMAIN files = (Names \ hit) \cup cut
        /\ \A n \in DOMAIN files : files[n] = IF n \notin cut THEN w[n] ELSE IF n = "sums" THEN rest ELSE Part
    BY <1>2, <2>2 DEF Received
  <2> QED
    BY <1>2, <2>2, <2>3, <2>4
<1>4. ASSUME NEW v, NEW c, BoundaryAccepts(files, v, c) PROVE Remains(files, known, FALSE)
  <2>1. Good(files, tag, commit)
    BY <1>4, LetThrough
  <2> QED
    BY <2>1, GoodRemains
<1> QED
  BY <1>3, <1>4 DEF Remains

LEMMA AllOrListed ==
  ASSUME NEW known, NEW files, Remains(files, known, TRUE)
  PROVE  Remains(files, known, FALSE)
  BY DEF Remains, Agrees

LEMMA DirectoriesRemain ==
  IInv => \A files \in Directories :
            Remains(files, Known, FALSE) /\ (files \in BuiltHere => Remains(files, Known, TRUE))
<1> SUFFICES ASSUME IInv
             PROVE  \A files \in Directories :
                      Remains(files, Known, FALSE) /\ (files \in BuiltHere => Remains(files, Known, TRUE))
  OBVIOUS
<1>1. Known \subseteq Nat
  BY DEF Known
<1>2. \A name \in Names : Before[name] \subseteq Names
  BY DEF Before, Names, Published
<1>3. ASSUME NEW files, NEW tag, NEW commit \in Known, Good(files, tag, commit)
      PROVE  Remains(files, Known, FALSE)
  BY <1>1, <1>3, GoodRemains
<1>4. ASSUME NEW files, NEW version, NEW commit \in Known, NEW names, names \subseteq Names,
             Built(files, version, commit, {commit}, names)
      PROVE  Remains(files, Known, TRUE)
  <2>1. Built(files, version, commit, Known, names)
    BY <1>4, BuiltWidens
  <2> QED
    BY <1>1, <1>4, <2>1, BuiltRemains
<1>5. ASSUME NEW files, files = dir["local"], files # None PROVE Remains(files, Known, TRUE)
  <2>1. CASE job["local"].pc \in Names
    BY <1>1, <1>2, <1>5, <2>1, BuiltRemains DEF IInv, LocalInv
  <2>2. CASE job["local"].pc = "idle"
    <3>1. PICK version \in Tags, commit \in Known : LeftBy(files, version, commit, Known)
      BY <1>5, <2>2 DEF IInv, LocalInv, Left
    <3>2. CASE Built(files, version, commit, Known, Names)
      BY <1>1, <3>2, BuiltRemains
    <3>3. CASE ~ Built(files, version, commit, Known, Names)
      <4>1. PICK name \in Names : \E w :
              /\ Built(w, version, commit, Known, Before[name])
              /\ files \in {w} \cup {Extended(w, name, f) : f \in Fragments(w, name)}
        BY <3>1, <3>3 DEF LeftBy
      <4>2. PICK w : /\ Built(w, version, commit, Known, Before[name])
                     /\ files \in {w} \cup {Extended(w, name, f) : f \in Fragments(w, name)}
        BY <4>1
      <4> QED
        BY <1>1, <1>2, <4>2, BuiltRemains, FragmentRemains
    <3> QED
      BY <3>2, <3>3
  <2> QED
    BY <2>1, <2>2 DEF IInv, LocalInv
<1>6. ASSUME NEW tag \in Tags, NEW files, files # None, files \in {dir[tag], artifact[tag], releases[tag]}
      PROVE  TagInv(tag) /\ tags[tag] \in Known
  <2>1. TagInv(tag)
    BY DEF IInv
  <2> QED
    BY <1>6, <2>1 DEF TagInv
<1>7. ASSUME NEW tag \in Tags, NEW files, files # None, files = artifact[tag]
      PROVE  Remains(files, Known, TRUE)
  BY <1>4, <1>6, <1>7 DEF TagInv, Whole
<1>8. ASSUME NEW tag \in Tags, NEW files, files # None, files \in {dir[tag], releases[tag]}
      PROVE  Remains(files, Known, FALSE)
  <2>1. TagInv(tag) /\ tags[tag] \in Known
    BY <1>6, <1>8
  <2>2. CASE files = releases[tag]
    BY <1>3, <1>8, <2>1, <2>2 DEF TagInv
  <2>3. CASE files = dir[tag]
    <3>1. CASE job[tag].pc \in Names
      <4>1. Remains(files, Known, TRUE)
        BY <1>2, <1>4, <2>1, <2>3, <3>1 DEF TagInv
      <4> QED
        BY <4>1, AllOrListed
    <3>2. CASE job[tag].pc \in {"smoke", "upload"}
      <4>1. Remains(files, Known, TRUE)
        BY <1>4, <2>1, <2>3, <3>2 DEF TagInv, Whole
      <4> QED
        BY <4>1, AllOrListed
    <3>3. CASE job[tag].pc = "boundary"
      BY <1>1, <2>1, <2>3, <3>3, DeliveredRemains DEF TagInv
    <3>4. CASE job[tag].pc = "publish"
      BY <1>3, <2>1, <2>3, <3>4 DEF TagInv
    <3> QED
      BY <1>8, <2>1, <2>3, <3>1, <3>2, <3>3, <3>4 DEF TagInv
  <2> QED
    BY <1>8, <2>2, <2>3
<1>9. ASSUME NEW files \in BuiltHere, files # None PROVE Remains(files, Known, TRUE)
  BY <1>5, <1>7, <1>9 DEF BuiltHere
<1>10. ASSUME NEW files \in Directories, files \notin BuiltHere PROVE Remains(files, Known, FALSE)
  BY <1>8, <1>10 DEF Directories, BuiltHere, Places
<1> QED
  BY <1>9, <1>10, AllOrListed DEF Directories

\* A directory the boundary check accepts is of the commit its manifest names
\* and agrees with the manifest in all that its checksums list, wherever its
\* build was stopped; in everything, unless it came through a transfer
\* (build-release-source.py:171-188, release.yml:99-102).
THEOREM AcceptedAgrees == Spec => []AcceptedAgreesWithManifest
<1>1. IInv => AcceptedAgreesWithManifest
  <2> SUFFICES ASSUME IInv, NEW files \in Directories, NEW version \in Tags, NEW commit \in Known,
                      BoundaryAccepts(files, version, commit)
               PROVE  Agrees(files, commit, files \in BuiltHere)
    BY DEF AcceptedAgreesWithManifest, Agrees
  <2>1. CASE files \in BuiltHere
    <3>1. Agrees(files, commit, TRUE)
      BY <2>1, DirectoriesRemain DEF Remains
    <3> QED
      BY <2>1, <3>1 DEF Agrees
  <2>2. CASE files \notin BuiltHere
    <3>1. Agrees(files, commit, FALSE)
      BY DirectoriesRemain DEF Remains
    <3> QED
      BY <2>2, <3>1 DEF Agrees
  <2> QED
    BY <2>1, <2>2
<1> QED
  BY <1>1, Invariance, PTL

-----------------------------------------------------------------------------
(* The workflow as it is written.                                          *)

\* No run of a tag gets beyond the clean installation.
Stuck(tag) ==
  /\ job[tag].pc \notin {"upload", "download", "boundary", "publish", "done"}
  /\ artifact[tag] = None /\ releases[tag] = None
AllStuck == ~ SmokeParses => \A tag \in Tags : Stuck(tag)

\* As long as the shell rejects the command of the clean installation, with
\* its escaped quotes within $(...), no tag is published and none reaches a
\* publication (release.yml:65-69,112-120).
NothingIsReleased ==
  ~ SmokeParses => \A tag \in Tags : releases[tag] = None /\ job[tag].pc # "publish"

LEMMA GoneTo ==
  ASSUME IInv, NEW t \in Tags, NEW pc, Goto(t, pc)
  PROVE  job'[t].pc = pc /\ \A p \in Places \ {t} : job'[p] = job[p]
<1>1. JobShape(t) /\ t \in Places
  BY DEF IInv, TagInv, Places
<1> QED
  BY <1>1 DEF Goto, IInv, Functions, JobShape

LEMMA StuckStays ==
  ASSUME IInv, [Next]_vars, ~ SmokeParses, \A t \in Tags : Stuck(t), NEW tag \in Tags
  PROVE  Stuck(tag)'
<1>1. tag \in Places /\ tag # "local" /\ JobShape(tag) /\ Stuck(tag)
  BY ConstantsAssumption DEF IInv, TagInv, Places, Tags
<1>2. CASE job' = job /\ artifact' = artifact /\ releases' = releases
  BY <1>1, <1>2 DEF Stuck
<1>3. CASE PushTag
  <2>1. PICK t \in Tags, commit \in 1 .. Newest :
          job' = [job EXCEPT ![t] = [pc |-> "checks", version |-> t, commit |-> commit]]
    BY <1>3 DEF PushTag
  <2>2. job'[tag].pc \in {job[tag].pc, "checks"}
    BY <1>1, <2>1 DEF IInv, Functions
  <2> QED
    BY <1>1, <1>3, <2>2 DEF PushTag, Stuck
<1>4. CASE BuildBegin
  BY <1>1, <1>4 DEF BuildBegin, Stuck, IInv, Functions
<1>5. CASE BuildFile
  <2>1. PICK p \in Places, name \in Names :
          /\ job' = [job EXCEPT ![p] = IF After[name] = "built" THEN Done(p)
                                       ELSE [job[p] EXCEPT !.pc = After[name]]]
          /\ UNCHANGED <<Repository, artifact, releases>>
    BY <1>5 DEF BuildFile
  <2>2. CASE p # tag
    BY <1>1, <2>1, <2>2 DEF Stuck, IInv, Functions
  <2>3. CASE p = tag
    <3>1. job'[tag] = IF After[name] = "built" THEN [job[tag] EXCEPT !.pc = "smoke"]
                      ELSE [job[tag] EXCEPT !.pc = After[name]]
      BY <1>1, <2>1, <2>3 DEF Done, IInv, Functions
    <3>2. job'[tag].pc \in Names \cup {"smoke"}
      BY <1>1, <3>1, NextFile DEF JobShape
    <3>3. job'[tag].pc \notin {"upload", "download", "boundary", "publish", "done"}
      BY <3>2, Idles
    <3> QED
      BY <1>1, <2>1, <3>3 DEF Stuck
  <2> QED
    BY <2>2, <2>3
<1>6. CASE BuildStops
  <2>1. PICK p \in Places : /\ job' = [job EXCEPT ![p] = Stopped(p)]
                            /\ UNCHANGED <<Repository, artifact, releases>>
    BY <1>6 DEF BuildStops
  <2>2. job'[tag] = job[tag] \/ job'[tag] = [job[tag] EXCEPT !.pc = "failed"]
    BY <1>1, <2>1 DEF Stopped, IInv, Functions
  <2> QED
    BY <1>1, <2>1, <2>2 DEF Stuck, JobShape
<1>7. CASE Checks \/ Smoke
  <2>1. PICK t \in Tags, pc \in {"archive", "failed"} :
          Goto(t, pc) /\ artifact' = artifact /\ releases' = releases
    BY <1>7 DEF Checks, Smoke, Fails
  <2>2. job'[tag].pc \in {job[tag].pc, "archive", "failed"}
    BY <1>1, <2>1, GoneTo
  <2> QED
    BY <1>1, <2>1, <2>2 DEF Stuck
<1>8. CASE Upload \/ Download \/ Boundary \/ Publish \/ Expire
  BY <1>8 DEF Stuck, At, Upload, Download, Boundary, Publish, Expire
<1>9. CASE Rerun
  <2>1. PICK t \in Tags : /\ Goto(t, "checks") /\ artifact' = [artifact EXCEPT ![t] = None]
                          /\ releases' = releases
    BY <1>9 DEF Rerun, Stuck
  <2>2. job'[tag].pc \in {job[tag].pc, "checks"}
    BY <1>1, <2>1, GoneTo
  <2>3. artifact'[tag] = None
    BY <1>1, <2>1 DEF IInv, Functions, Stuck
  <2> QED
    BY <1>1, <2>1, <2>2, <2>3 DEF Stuck
<1>10. CASE UNCHANGED vars \/ Commit \/ WriteRecord \/ RemoveDirectory
  <2>1. job' = job /\ artifact' = artifact /\ releases' = releases
    BY <1>10 DEF vars, Commit, WriteRecord, RemoveDirectory
  <2> QED
    BY <1>2, <2>1
<1> QED
  BY <1>3, <1>4, <1>5, <1>6, <1>7, <1>8, <1>9, <1>10 DEF Next

\* Nothing is published as long as the shell rejects the step of the clean
\* installation: not for a prerelease tag either, and whatever is run again.
THEOREM AsWrittenNothingIsReleased == Spec => []NothingIsReleased
<1>1. Init => AllStuck
  <2> SUFFICES ASSUME Init, NEW tag \in Tags PROVE Stuck(tag)
    BY DEF AllStuck
  <2> QED
    BY DEF Init, Stuck, Idle, Places
<1>2. IInv /\ AllStuck /\ [Next]_vars => AllStuck'
  BY StuckStays DEF AllStuck
<1>3. AllStuck => NothingIsReleased
  BY DEF AllStuck, NothingIsReleased, Stuck
<1> QED
  BY <1>1, <1>2, <1>3, Invariance, PTL DEF Spec

-----------------------------------------------------------------------------
\* Every variable has its shape, and a record names a commit made before it.
THEOREM TypeCorrect == Spec => []TypeOK
<1>1. IInv => TypeOK
  <2> SUFFICES ASSUME IInv PROVE TypeOK
    OBVIOUS
  <2>1. Newest \in 1 .. MaxCommits
    BY TypeOfNewest, ConstantsAssumption DEF IInv, HistoryInv
  <2>2. ASSUME NEW k \in Known
        PROVE  /\ commits[k].package \in Tags
               /\ commits[k].record \in {None} \cup [tag : GaTags, commit : 1 .. k - 1]
    <3>1. commits[k] \in Contents
      BY TypeOfNewest DEF IInv, HistoryInv, Known, Newest
    <3>2. commits[k].record # None => commits[k].record.commit \in 1 .. k - 1
      BY DEF IInv, HistoryInv
    <3> QED
      BY <3>1, <3>2 DEF Contents
  <2>3. record \in Records /\ \A tag \in Tags : tags[tag] \in {None} \cup Known /\ job[tag].commit = tags[tag]
    BY DEF IInv, HistoryInv, TagInv, Records
  <2>4. ASSUME NEW files \in Directories
        PROVE  /\ DOMAIN files \subseteq Names
               /\ \A n \in DOMAIN files \cap Published : files[n] = Part \/ files[n].commit \in Known
    <3>1. Remains(files, Known, FALSE)
      BY DirectoriesRemain
    <3>2. \A c : Source(c).commit = c
      BY DEF Source
    <3> QED
      BY <3>1, <3>2 DEF Remains
  <2> QED
    BY <2>1, <2>2, <2>3, <2>4 DEF TypeOK
<1> QED
  BY <1>1, Invariance, PTL

-----------------------------------------------------------------------------
(* The refinement: gh release create is the one step that releases.        *)

\* The commits that files of a release are of.
CommitsOf(files) ==
  {commit \in Known : \E n \in DOMAIN files \cap Published : files[n] = Source(commit)}

Registry == INSTANCE ReleaseRegistry WITH
  history <- [k \in Known |-> commits[k].package],
  pushed <- tags,
  published <- [tag \in Tags |-> IF releases[tag] = None THEN None ELSE CommitsOf(releases[tag])]

Packages == [k \in Known |-> commits[k].package]
Releases == [tag \in Tags |-> IF releases[tag] = None THEN None ELSE CommitsOf(releases[tag])]

LEMMA CommitsOfGood ==
  ASSUME Newest \in Nat, NEW files, NEW tag, NEW commit \in Known, Good(files, tag, commit)
  PROVE  CommitsOf(files) = {commit}
<1>1. \A c, d : Source(c) = Source(d) => c = d
  BY DEF Source
<1>2. /\ "archive" \in DOMAIN files \cap Published /\ DOMAIN files \cap Published = Published
      /\ files["archive"] = Source(commit)
  BY DEF Published, Names, Good
<1>3. \A c \in Known : Source(c) # Part
  BY PartIsNoSource DEF Known
<1>4. ASSUME NEW c \in Known, NEW n \in Published, files[n] = Source(c) PROVE c = commit
  BY <1>1, <1>3, <1>4 DEF Good
<1> QED
  BY <1>2, <1>4 DEF CommitsOf

\* Every release is of one commit, that of its tag.
OneCommitEach == Releases = [tag \in Tags |-> IF releases[tag] = None THEN None ELSE {tags[tag]}]

LEMMA ReleasesOfTags == IInv => OneCommitEach
<1> SUFFICES ASSUME IInv PROVE OneCommitEach
  OBVIOUS
<1>1. ASSUME NEW tag \in Tags, releases[tag] # None PROVE CommitsOf(releases[tag]) = {tags[tag]}
  <2>1. TagInv(tag)
    BY DEF IInv
  <2>2. tags[tag] \in Known /\ Good(releases[tag], tag, tags[tag])
    BY <1>1, <2>1 DEF TagInv
  <2> QED
    BY <2>2, CommitsOfGood, TypeOfNewest DEF IInv
<1> QED
  BY <1>1 DEF Releases, OneCommitEach

LEMMA ReleasesOfTagsNext == IInv' => OneCommitEach'
  BY ReleasesOfTags, PTL

LEMMA RegistryVars ==
  /\ Registry!AllTags = Tags
  /\ Registry!registry = <<Packages, tags, Releases>>
  /\ Registry!registry' = <<Packages', tags', Releases'>>
  BY DEF Registry!AllTags, Registry!registry, Tags, Packages, Releases

LEMMA RegistryInit == Init => Registry!Init
<1> SUFFICES ASSUME Init PROVE Registry!Init
  OBVIOUS
<1>1. PICK tag \in Tags : commits = <<[package |-> tag, record |-> None]>>
  BY DEF Init
<1>2. Known = {1} /\ commits[1].package = tag
  BY <1>1 DEF Known, Newest
<1>3. Packages = <<tag>>
  <2>1. <<tag>> = [k \in {1} |-> tag]
    OBVIOUS
  <2> QED
    BY <1>2, <2>1 DEF Packages
<1>4. tags = [t \in Tags |-> None]
  BY DEF Init
<1>5. Releases = [t \in Tags |-> None]
  BY DEF Init, Releases
<1> QED
  BY <1>1, <1>3, <1>4, <1>5 DEF Registry!Init, Registry!AllTags, Tags, Packages, Releases

\* A step that leaves commits, tags and releases is a stutter.
LEMMA RegistryStutter ==
  ASSUME commits' = commits, tags' = tags, releases' = releases
  PROVE  UNCHANGED Registry!registry
<1>1. Known' = Known
  BY DEF Known, Newest
<1>2. Packages' = Packages
  BY <1>1 DEF Packages
<1>3. Releases' = Releases
  BY <1>1 DEF Releases, CommitsOf
<1> QED
  BY <1>2, <1>3, RegistryVars

LEMMA AppendedAs ==
  ASSUME NEW S, NEW seq \in Seq(S), NEW n \in Nat, Len(seq) = n, NEW x \in S
  PROVE  Append(seq, x) = [k \in 1 .. n + 1 |-> IF k = n + 1 THEN x ELSE seq[k]]
<1> DEFINE longer == Append(seq, x)
<1>1. longer \in Seq(S) /\ Len(longer) = n + 1
  OBVIOUS
<1>2. \A k \in 1 .. n + 1 : longer[k] = IF k = n + 1 THEN x ELSE seq[k]
  OBVIOUS
<1> HIDE DEF longer
<1>3. longer = [k \in 1 .. n + 1 |-> longer[k]]
  BY <1>1
<1>4. longer = [k \in 1 .. n + 1 |-> IF k = n + 1 THEN x ELSE seq[k]]
  BY <1>2, <1>3
<1> QED
  BY <1>4 DEF longer

LEMMA RegistryCommit ==
  ASSUME IInv, IInv', Commit
  PROVE  Registry!Commit
<1>1. PICK package \in Tags, kept \in {record, commits[Newest].record} :
        commits' = Append(commits, [package |-> package, record |-> kept])
  BY DEF Commit
<1> DEFINE new == [package |-> package, record |-> kept]
<1>2. /\ commits \in Seq(Contents) /\ Newest \in Nat /\ commits' \in Seq(Contents)
      /\ commits' = Append(commits, new)
  BY <1>1, TypeOfNewest DEF IInv, HistoryInv
<1>3. new.package = package
  OBVIOUS
<1> HIDE DEF new
<1>4. /\ Newest' = Newest + 1 /\ commits'[Newest + 1] = new
      /\ \A k \in 1 .. Newest : commits'[k] = commits[k]
  BY <1>2 DEF Newest
<1>5. Packages' = Append(Packages, package)
  <2>1. \A k \in 1 .. Newest : commits[k].package \in Tags
    <3>1. \A k \in 1 .. Newest : commits[k] \in Contents
      BY <1>2 DEF Newest
    <3> QED
      BY <3>1 DEF Contents
  <2>2. Append(Packages, package) = [k \in 1 .. Newest + 1 |-> IF k = Newest + 1 THEN package ELSE Packages[k]]
    <3>1. Packages = [k \in 1 .. Newest |-> commits[k].package]
      BY DEF Packages, Known
    <3>2. Packages \in Seq(Tags) /\ Len(Packages) = Newest
      BY <1>2, <2>1, <3>1
    <3> QED
      BY <1>2, <3>2, AppendedAs
  <2>3. Packages' = [k \in 1 .. Newest + 1 |-> commits'[k].package]
    BY <1>4 DEF Packages, Known
  <2>4. \A k \in 1 .. Newest : commits'[k].package = Packages[k]
    BY <1>4 DEF Packages, Known
  <2>5. \A k \in 1 .. Newest + 1 : k = Newest + 1 \/ k \in 1 .. Newest
    BY <1>2
  <2>6. commits'[Newest + 1].package = package
    BY <1>3, <1>4
  <2> QED
    BY <2>2, <2>3, <2>4, <2>5, <2>6
<1>6. Releases' = Releases
  BY ReleasesOfTags, ReleasesOfTagsNext DEF Commit, OneCommitEach
<1>7. tags' = tags
  BY DEF Commit
<1> QED
  BY <1>5, <1>6, <1>7 DEF Registry!Commit, Registry!AllTags, Tags, Packages, Releases

LEMMA RegistryPush ==
  ASSUME IInv, IInv', PushTag
  PROVE  \E tag \in Tags : Registry!Push(tag)
<1>1. PICK tag \in Tags, commit \in 1 .. Newest : tags[tag] = None /\ tags' = [tags EXCEPT ![tag] = commit]
  BY DEF PushTag
<1>2. commits' = commits /\ releases' = releases /\ Known' = Known
  BY DEF PushTag, Known, Newest
<1>3. Packages' = Packages /\ Releases' = Releases
  BY <1>2 DEF Packages, Releases, CommitsOf
<1>4. Len(Packages) = Newest
  BY TypeOfNewest DEF Packages, Known, IInv
<1>5. Registry!Push(tag)
  BY <1>1, <1>3, <1>4 DEF Registry!Push, Packages, Releases
<1> QED
  BY <1>5

LEMMA RegistryRelease ==
  ASSUME IInv, IInv', Publish
  PROVE  (\E tag \in PreTags : Registry!Release(tag)) \/ UNCHANGED Registry!registry
<1>1. PICK tag \in Tags :
        /\ job[tag].pc = "publish"
        /\ \/ /\ releases[tag] = None
              /\ releases' = [releases EXCEPT ![tag] = dir[tag]]
              /\ UNCHANGED Repository
           \/ Fails(tag)
  BY DEF Publish, At
<1>2. CASE Fails(tag)
  BY <1>2, RegistryStutter DEF Fails, Repository
<1>3. CASE ~ Fails(tag)
  <2>1. /\ releases[tag] = None /\ releases' = [releases EXCEPT ![tag] = dir[tag]]
        /\ commits' = commits /\ tags' = tags /\ Known' = Known
    BY <1>1, <1>3 DEF Repository, Known, Newest
  <2>2. /\ TagInv(tag) /\ tag \in PreTags /\ tags[tag] \in Known /\ Good(dir[tag], tag, tags[tag])
        /\ commits[tags[tag]].package = tag
    BY <1>1 DEF IInv, TagInv, Tags, Compared
  <2>3. releases'[tag] = dir[tag]
    BY <2>1 DEF IInv, Functions
  <2>4. /\ Releases' = [t \in Tags |-> IF releases'[t] = None THEN None ELSE {tags[t]}]
        /\ Releases = [t \in Tags |-> IF releases[t] = None THEN None ELSE {tags[t]}]
        /\ \A t \in Tags \ {tag} : releases'[t] = releases[t]
    BY <2>1, ReleasesOfTags, ReleasesOfTagsNext DEF OneCommitEach, IInv, Functions
  <2>5. Packages' = Packages /\ Packages[tags[tag]] = tag
    BY <2>1, <2>2 DEF Packages
  <2>6. tags[tag] # None
    BY <2>2, ConstantsAssumption DEF Known
  <2>7. CASE dir[tag] = None
    <3>1. Releases' = Releases
      BY <2>1, <2>3, <2>4, <2>7
    <3> QED
      BY <2>1, <2>5, <3>1, RegistryVars
  <2>8. CASE dir[tag] # None
    <3>1. Releases[tag] = None /\ Releases' = [Releases EXCEPT ![tag] = {tags[tag]}]
      BY <2>1, <2>3, <2>4, <2>8
    <3>2. Registry!Release(tag)
      BY <2>1, <2>5, <2>6, <3>1 DEF Registry!Release, Packages, Releases
    <3> QED
      BY <2>2, <3>2
  <2> QED
    BY <2>7, <2>8
<1> QED
  BY <1>2, <1>3

LEMMA RegistryStep ==
  ASSUME IInv, IInv', [Next]_vars
  PROVE  Registry!Next \/ UNCHANGED Registry!registry
<1>1. CASE Commit
  BY <1>1, RegistryCommit DEF Registry!Next
<1>2. CASE PushTag
  BY <1>2, RegistryPush DEF Registry!Next, Registry!AllTags, Tags
<1>3. CASE Publish
  BY <1>3, RegistryRelease DEF Registry!Next
<1>4. CASE \/ UNCHANGED vars \/ WriteRecord
           \/ BuildBegin \/ BuildFile \/ BuildStops \/ RemoveDirectory
           \/ Checks \/ Smoke \/ Upload \/ Download \/ Boundary \/ Rerun \/ Expire
  <2>1. commits' = commits /\ tags' = tags /\ releases' = releases
    BY <1>4 DEF vars, WriteRecord, BuildBegin, BuildFile, BuildStops, RemoveDirectory, Checks, Smoke, Upload,
                Download, Boundary, Rerun, Expire, Fails, Repository
  <2> QED
    BY <2>1, RegistryStutter
<1> QED
  BY <1>1, <1>2, <1>3, <1>4 DEF Next

\* Whatever is committed, built, damaged and run again, the release process
\* does what ReleaseRegistry says and nothing else: a release appears once, for
\* a pushed prerelease tag, of its tagged commit alone, and is never replaced or
\* taken back (release.yml:112-120).
THEOREM ReleasesOnceOfTag == Spec => Registry!Spec
<1>1. Init => Registry!Init
  BY RegistryInit
<1>2. IInv /\ IInv' /\ [Next]_vars => [Registry!Next]_(Registry!registry)
  BY RegistryStep
<1> QED
  BY <1>1, <1>2, Invariance, PTL DEF Spec, Registry!Spec
=============================================================================
