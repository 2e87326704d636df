------------------------- MODULE ReviewSessionProofs -------------------------
(***************************************************************************)
(* For any commits and any number of edits: an offline guest runs on a     *)
(* whole cache of its candidate, and a verified export is whole and what   *)
(* the candidate's own code makes.                                         *)
(***************************************************************************)
EXTENDS ReviewSession, TLAPS

-----------------------------------------------------------------------------
(* The invariant of the host.                                              *)

Directory(dir) ==
  /\ dir = [files |-> dir.files, sums |-> dir.sums] /\ dir.files \in [Names -> Contents]

\* Checksums are of whole files, and those of the last in order are there only
\* when all are.
Sums(sums) ==
  sums # None =>
    /\ DOMAIN sums \subseteq Names /\ \A n \in DOMAIN sums : sums[n] \in Wholes
    /\ "python" \in DOMAIN sums => DOMAIN sums = Names

\* The files that are there while each is being written.
StagedBefore ==
  [apk |-> {}, python |-> {"apk"}, npm |-> {"apk", "python"}, metadata |-> {"apk", "python", "npm"},
   provenance |-> Names \ {"provenance"}, sums |-> Names]

StagerInv ==
  /\ stager \in [pc : {"idle", "freeze", "hash", "sums"} \cup Names, candidate : Commits \cup {None},
                 hashed : Registers, copied : Registers]
  /\ stager.pc \in {"hash", "sums"} \cup Names => stager.candidate \in Commits
  /\ stager.pc \in Names => stager.hashed \in Codes
  /\ stager.pc \in Names \ {"apk"} => stager.copied \in Codes
  /\ stager.pc \in Names \cup {"sums"} => \A n \in StagedBefore[stager.pc] : cache.files[n] \in Wholes

RuntimeInv ==
  /\ runtime = [candidate |-> runtime.candidate, cache |-> runtime.cache, output |-> runtime.output,
                manifest |-> runtime.manifest]
  /\ runtime.candidate \in Commits
  /\ Directory(runtime.cache) /\ Sums(runtime.cache.sums)
  /\ runtime.output \in Registers
  /\ launcher.pc = "record" => runtime.output \in Codes
  /\ runtime.manifest # None => runtime.manifest \in [commit : Commits, sources : Codes, artifacts : Codes]

HostInv ==
  /\ head \in Commits /\ tree \in Trees /\ edits \in 0 .. MaxEdits
  /\ Directory(cache) /\ Sums(cache.sums)
  /\ StagerInv
  /\ launcher \in [pc : {"idle", "freeze", "copy", "validate", "expect", "record", "boot", "running", "stopped"},
                   offline : BOOLEAN, left : SUBSET Units]
  /\ launcher.pc \in {"idle", "freeze"} => runtime = None
  /\ launcher.pc \notin {"idle", "freeze"} => RuntimeInv
  /\ VmCacheIsWhole

LEMMA RootCodes == HostInv => RootVersions \subseteq Codes
<1> SUFFICES ASSUME HostInv PROVE RootVersions \subseteq Codes
  OBVIOUS
<1>1. Code(head, tree, "root") \in Codes
  BY DEF HostInv, Codes
<1>2. Clean(head) = Code(head, "clean", "root") /\ "clean" \in Trees
  BY DEF Clean, Code, Trees
<1>3. Clean(head) \in Codes
  BY <1>2 DEF HostInv, Codes
<1>4. Code(head, tree, "root").commit = head
  BY DEF Code
<1> QED
  BY <1>1, <1>3, <1>4 DEF RootVersions, Versions

\* Staging.
LEMMA EmptyDirectory == Directory(Empty) /\ Sums(Empty.sums)
  BY DEF Directory, Empty, Sums, Contents

LEMMA InitHost == Init => HostInv
<1> SUFFICES ASSUME Init PROVE HostInv
  OBVIOUS
<1>1. StagerInv
  BY DEF Init, StagerInv, NotStaging, Registers, Names
<1>2. VmCacheIsWhole
  BY DEF Init, NotLaunching, VmCacheIsWhole
<1> QED
  BY <1>1, <1>2, EmptyDirectory, ConstantsAssumption DEF Init, HostInv, NotLaunching, Trees

\* A step of the staging script, or of the operator, that leaves the launch alone.
LEMMA HostFrame ==
  ASSUME HostInv, head' \in Commits, tree' \in Trees, edits' \in 0 .. MaxEdits, Directory(cache'),
         Sums(cache'.sums), StagerInv', UNCHANGED <<launcher, runtime>>
  PROVE  HostInv'
  BY DEF HostInv, RuntimeInv, VmCacheIsWhole, Metadata, Clean, Code

\* A step of the launching script.
LEMMA LaunchFrame ==
  ASSUME HostInv, UNCHANGED Rest,
         launcher' \in [pc : {"idle", "freeze", "copy", "validate", "expect", "record", "boot", "running", "stopped"},
                        offline : BOOLEAN, left : SUBSET Units],
         launcher'.pc \in {"idle", "freeze"} => runtime' = None,
         launcher'.pc \notin {"idle", "freeze"} => RuntimeInv',
         VmCacheIsWhole'
  PROVE  HostInv'
  BY DEF HostInv, Rest, StagerInv

LEMMA StageBeginStep == HostInv /\ StageBegin => HostInv'
<1> SUFFICES ASSUME HostInv, StageBegin PROVE HostInv'
  OBVIOUS
<1>1. stager' = [pc |-> "freeze", candidate |-> None, hashed |-> None, copied |-> None]
  BY DEF StageBegin, NotStaging
<1>2. StagerInv'
  BY <1>1 DEF StagerInv, Names, Registers
<1> QED
  BY <1>2, HostFrame DEF StageBegin, Others, HostInv

LEMMA StageFreezeStep == HostInv /\ StageFreeze => HostInv'
<1> SUFFICES ASSUME HostInv, StageFreeze PROVE HostInv'
  OBVIOUS
<1>1. stager' \in [pc : {"idle", "hash"}, candidate : Commits \cup {None}, hashed : Registers, copied : Registers]
      /\ (stager'.pc = "hash" => stager'.candidate \in Commits)
  BY DEF StageFreeze, NotStaging, Registers, HostInv, StagerInv
<1>2. StagerInv'
  BY <1>1 DEF StagerInv, Names
<1> QED
  BY <1>2, HostFrame DEF StageFreeze, Others, HostInv

LEMMA StageHashStep == HostInv /\ StageHash => HostInv'
<1> SUFFICES ASSUME HostInv, StageHash PROVE HostInv'
  OBVIOUS
<1>1. PICK code \in Codes : stager' = [stager EXCEPT !.pc = "apk", !.hashed = code]
  BY RootCodes DEF StageHash
<1>2. /\ stager'.pc = "apk" /\ stager'.hashed = code /\ stager'.candidate \in Commits
      /\ stager' \in [pc : {"apk"}, candidate : Commits \cup {None}, hashed : Registers, copied : Registers]
  BY <1>1 DEF StageHash, Staging, HostInv, StagerInv, Registers
<1>3. StagedBefore["apk"] = {}
  BY DEF StagedBefore
<1>4. StagerInv'
  BY <1>2, <1>3 DEF StagerInv, Names
<1> QED
  BY <1>4, HostFrame DEF StageHash, Others, HostInv

LEMMA NextStaged ==
  ASSUME NEW name \in Names
  PROVE  After(name) \in (Names \ {"apk"}) \cup {"sums"} /\ StagedBefore[After(name)] = StagedBefore[name] \cup {name}
<1>1. CASE name = "apk"
  BY <1>1 DEF After, StagedBefore, Names
<1>2. CASE name = "python"
  BY <1>2 DEF After, StagedBefore, Names
<1>3. CASE name = "npm"
  BY <1>3 DEF After, StagedBefore, Names
<1>4. CASE name = "metadata"
  BY <1>4 DEF After, StagedBefore, Names
<1>5. CASE name = "provenance"
  BY <1>5 DEF After, StagedBefore, Names
<1> QED
  BY <1>1, <1>2, <1>3, <1>4, <1>5 DEF Names

LEMMA StageWriteStep == HostInv /\ StageWrite => HostInv'
<1> SUFFICES ASSUME HostInv, StageWrite PROVE HostInv'
  OBVIOUS
<1>1. PICK name \in Names, code \in Codes :
        /\ stager.pc = name
        /\ cache' = [cache EXCEPT !.files[name] = Written(name, code)]
        /\ stager' = [stager EXCEPT !.pc = After(name), !.copied = IF name = "apk" THEN code ELSE @]
  BY RootCodes DEF StageWrite, Staging
<1>2. /\ stager.candidate \in Commits /\ stager.hashed \in Codes
      /\ name # "apk" => stager.copied \in Codes
      /\ \A n \in StagedBefore[name] : cache.files[n] \in Wholes
  BY <1>1 DEF HostInv, StagerInv
<1>3. Written(name, code) \in Wholes
  <2>1. CASE name = "apk"
    BY <2>1 DEF Written, Wholes
  <2>2. CASE name = "python"
    BY <2>2 DEF Written, Wholes
  <2>3. CASE name = "npm"
    BY <1>2, <2>3 DEF Written, Wholes
  <2>4. CASE name = "metadata"
    BY <1>2, <2>4 DEF Written, Wholes, Metadata
  <2>5. CASE name = "provenance"
    BY <1>2, <2>5 DEF Written, Wholes
  <2> QED
    BY <2>1, <2>2, <2>3, <2>4, <2>5 DEF Names
<1>4. /\ cache'.sums = cache.sums /\ cache' = [files |-> cache'.files, sums |-> cache'.sums]
      /\ cache'.files = [cache.files EXCEPT ![name] = Written(name, code)]
  BY <1>1 DEF HostInv, Directory
<1>5. /\ Directory(cache') /\ cache'.files[name] \in Wholes
      /\ \A n \in Names \ {name} : cache'.files[n] = cache.files[n]
  BY <1>3, <1>4 DEF HostInv, Directory, Contents
<1>6. /\ stager' \in [pc : (Names \ {"apk"}) \cup {"sums"}, candidate : Commits \cup {None},
                      hashed : Registers, copied : Registers]
      /\ stager'.pc = After(name) /\ stager'.candidate \in Commits /\ stager'.hashed \in Codes
      /\ stager'.copied \in Codes
  BY <1>1, <1>2, NextStaged DEF HostInv, StagerInv, Registers
<1>7. StagedBefore[name] \subseteq Names
  BY DEF StagedBefore, Names
<1>8. \A n \in StagedBefore[stager'.pc] : cache'.files[n] \in Wholes
  BY <1>2, <1>5, <1>6, <1>7, NextStaged
<1>9. StagerInv'
  BY <1>6, <1>8 DEF StagerInv
<1> QED
  BY <1>4, <1>5, <1>9, HostFrame DEF StageWrite, Others, HostInv

LEMMA IdleStager == stager' = NotStaging => StagerInv'
  BY DEF StagerInv, NotStaging, Registers, Names

LEMMA StageSumsStep == HostInv /\ StageSums => HostInv'
<1> SUFFICES ASSUME HostInv, StageSums PROVE HostInv'
  OBVIOUS
<1>1. \A n \in Names : cache.files[n] \in Wholes
  BY DEF HostInv, StagerInv, StageSums, Staging, StagedBefore
<1>2. Present(cache) = Names
  BY <1>1, WholeAssumption DEF Present
<1>3. /\ cache' = [cache EXCEPT !.sums = SumsOf(Names)] /\ stager' = NotStaging
  BY <1>2 DEF StageSums
<1>4. cache' = [files |-> cache.files, sums |-> SumsOf(Names)]
  BY <1>3 DEF HostInv, Directory
<1>5. Directory(cache') /\ Sums(cache'.sums)
  BY <1>1, <1>4 DEF HostInv, Directory, Sums, SumsOf
<1> QED
  BY <1>3, <1>5, IdleStager, HostFrame DEF StageSums, Others, HostInv

LEMMA StageStopsStep == HostInv /\ StageStops => HostInv'
<1> SUFFICES ASSUME HostInv, StageStops PROVE HostInv'
  OBVIOUS
<1>1. stager' = NotStaging
  BY DEF StageStops
<1>2. CASE UNCHANGED cache
  BY <1>1, <1>2, IdleStager, HostFrame DEF StageStops, Others, HostInv
<1>3. CASE stager.pc \in Names /\ cache' = [cache EXCEPT !.files[stager.pc] = Part]
  <2>1. cache' = [files |-> [cache.files EXCEPT ![stager.pc] = Part], sums |-> cache.sums]
    BY <1>3 DEF HostInv, Directory
  <2>2. Directory(cache') /\ Sums(cache'.sums)
    BY <1>3, <2>1 DEF HostInv, Directory, Contents
  <2> QED
    BY <1>1, <2>2, IdleStager, HostFrame DEF StageStops, Others, HostInv
<1>4. CASE /\ stager.pc = "sums"
           /\ \E k \in 0 .. Len(Sorted) - 1 :
                cache' = [cache EXCEPT !.sums = SumsOf(Present(cache) \cap {Sorted[n] : n \in 1 .. k})]
  <2>1. \A n \in Names : cache.files[n] \in Wholes
    BY <1>4 DEF HostInv, StagerInv, StagedBefore
  <2>2. PICK k \in 0 .. Len(Sorted) - 1 :
          cache' = [cache EXCEPT !.sums = SumsOf(Present(cache) \cap {Sorted[n] : n \in 1 .. k})]
    BY <1>4
  <2> DEFINE names == Present(cache) \cap {Sorted[n] : n \in 1 .. k}
  <2>3. names \subseteq Names /\ "python" \notin names
    <3>1. k \in 0 .. 4
      BY DEF Sorted
    <3>2. \A n \in 1 .. k : Sorted[n] # "python"
      BY <3>1 DEF Sorted
    <3> QED
      BY <3>2 DEF Present
  <2>4. cache' = [files |-> cache.files, sums |-> SumsOf(names)]
    BY <2>2 DEF HostInv, Directory
  <2> HIDE DEF names
  <2>5. DOMAIN SumsOf(names) = names /\ \A n \in names : SumsOf(names)[n] = cache.files[n]
    BY DEF SumsOf
  <2>6. Directory(cache') /\ Sums(cache'.sums)
    BY <2>1, <2>3, <2>4, <2>5 DEF HostInv, Directory, Sums
  <2> QED
    BY <1>1, <2>6, IdleStager, HostFrame DEF StageStops, Others, HostInv
<1> QED
  BY <1>2, <1>3, <1>4 DEF StageStops, Staging

\* The operator.
LEMMA EditCheckoutStep == HostInv /\ EditCheckout => HostInv'
<1> SUFFICES ASSUME HostInv, EditCheckout PROVE HostInv'
  OBVIOUS
<1>1. head' \in Commits /\ tree' \in Trees /\ edits' \in 0 .. MaxEdits
  BY ConstantsAssumption DEF EditCheckout, Editing, HostInv
<1>2. StagerInv'
  BY DEF EditCheckout, HostInv, StagerInv
<1> QED
  BY <1>1, <1>2, HostFrame DEF EditCheckout, HostInv

LEMMA DisturbCacheStep == HostInv /\ DisturbCache => HostInv'
<1> SUFFICES ASSUME HostInv, DisturbCache PROVE HostInv'
  OBVIOUS
<1>1. edits' \in 0 .. MaxEdits
  BY ConstantsAssumption DEF DisturbCache, Editing, HostInv
<1>2. StagerInv'
  BY DEF DisturbCache, Staging, HostInv, StagerInv, Names
<1>3. Directory(cache') /\ Sums(cache'.sums)
  <2>1. CASE cache' = Empty
    BY <2>1, EmptyDirectory
  <2>2. CASE \E n \in Present(cache), content \in {None, Part} : cache' = [cache EXCEPT !.files[n] = content]
    <3>1. PICK n \in Names, content \in {None, Part} : cache' = [cache EXCEPT !.files[n] = content]
      BY <2>2 DEF Present
    <3>2. cache' = [files |-> [cache.files EXCEPT ![n] = content], sums |-> cache.sums]
      BY <3>1 DEF HostInv, Directory
    <3> QED
      BY <3>2 DEF HostInv, Directory, Contents
  <2> QED
    BY <2>1, <2>2 DEF DisturbCache
<1> QED
  BY <1>1, <1>2, <1>3, HostFrame DEF DisturbCache, checkoutVars, HostInv

-----------------------------------------------------------------------------
(* Launching.                                                              *)

LEMMA LaunchBeginStep == HostInv /\ LaunchBegin => HostInv'
<1> SUFFICES ASSUME HostInv, LaunchBegin PROVE HostInv'
  OBVIOUS
<1>1. PICK offline \in BOOLEAN : launcher' = [pc |-> "freeze", offline |-> offline, left |-> {}]
  BY DEF LaunchBegin
<1>2. runtime' = None /\ UNCHANGED Rest
  BY DEF LaunchBegin
<1>3. VmCacheIsWhole'
  BY <1>1 DEF VmCacheIsWhole
<1> QED
  BY <1>1, <1>2, <1>3, LaunchFrame

LEMMA LaunchFreezeStep == HostInv /\ LaunchFreeze => HostInv'
<1> SUFFICES ASSUME HostInv, LaunchFreeze PROVE HostInv'
  OBVIOUS
<1>1. launcher.pc = "freeze" /\ UNCHANGED Rest /\ runtime = None
  BY DEF LaunchFreeze, Launching, HostInv
<1>2. CASE tree = "edited"
  <2>1. launcher' = [pc |-> "idle", offline |-> TRUE, left |-> {}] /\ runtime' = None
    BY <1>1, <1>2 DEF LaunchFreeze, NotLaunching
  <2>2. VmCacheIsWhole'
    BY <2>1 DEF VmCacheIsWhole
  <2> QED
    BY <1>1, <2>1, <2>2, LaunchFrame
<1>3. CASE tree # "edited"
  <2>1. /\ launcher' = IF launcher.offline THEN [launcher EXCEPT !.pc = "copy", !.left = Units]
                                           ELSE [launcher EXCEPT !.pc = "expect"]
        /\ runtime' = [candidate |-> head, cache |-> Empty, output |-> None, manifest |-> None]
    BY <1>3 DEF LaunchFreeze
  <2>2. /\ launcher' \in [pc : {"copy", "expect"}, offline : BOOLEAN, left : SUBSET Units]
        /\ launcher'.pc = "expect" => ~ launcher'.offline
    BY <2>1 DEF HostInv
  <2>3. RuntimeInv'
    BY <2>1, <2>2, EmptyDirectory DEF RuntimeInv, HostInv, Registers, Directory, Sums
  <2>4. VmCacheIsWhole'
    BY <2>2 DEF VmCacheIsWhole
  <2> QED
    BY <1>1, <2>2, <2>3, <2>4, LaunchFrame
<1> QED
  BY <1>2, <1>3

LEMMA LaunchCopyStep == HostInv /\ LaunchCopy => HostInv'
<1> SUFFICES ASSUME HostInv, LaunchCopy PROVE HostInv'
  OBVIOUS
<1>1. PICK unit \in launcher.left :
        /\ runtime' = [runtime EXCEPT
             !.cache.files = [n \in Names |-> IF n \in unit THEN cache.files[n] ELSE @[n]],
             !.cache.sums = IF "sums" \in unit THEN cache.sums ELSE @]
        /\ launcher' = [launcher EXCEPT !.left = @ \ {unit},
                                        !.pc = IF launcher.left = {unit} THEN "validate" ELSE "copy"]
  BY DEF LaunchCopy
<1>2. launcher.pc = "copy" /\ RuntimeInv /\ UNCHANGED Rest
  BY DEF LaunchCopy, Launching, HostInv
<1> DEFINE files == [n \in Names |-> IF n \in unit THEN cache.files[n] ELSE runtime.cache.files[n]]
           sums == IF "sums" \in unit THEN cache.sums ELSE runtime.cache.sums
<1>3. runtime' = [candidate |-> runtime.candidate, cache |-> [files |-> files, sums |-> sums],
                  output |-> runtime.output, manifest |-> runtime.manifest]
  BY <1>1, <1>2 DEF RuntimeInv, Directory
<1>4. files \in [Names -> Contents]
  BY <1>2 DEF RuntimeInv, HostInv, Directory
<1>5. Sums(sums)
  BY <1>2 DEF RuntimeInv, HostInv
<1> HIDE DEF files, sums
<1>6. Directory(runtime'.cache) /\ Sums(runtime'.cache.sums)
  BY <1>3, <1>4, <1>5 DEF Directory
<1>7. launcher' \in [pc : {"copy", "validate"}, offline : BOOLEAN, left : SUBSET Units]
  BY <1>1 DEF HostInv
<1>8. RuntimeInv'
  BY <1>2, <1>3, <1>6, <1>7 DEF RuntimeInv
<1>9. VmCacheIsWhole'
  BY <1>7 DEF VmCacheIsWhole
<1> QED
  BY <1>2, <1>7, <1>8, <1>9, LaunchFrame

\* A cache that the validation accepts has every file, whole: its checksums
\* list one for python, so they list all, and of whole files only.
LEMMA AcceptedIsComplete ==
  ASSUME NEW dir, NEW candidate, Directory(dir), Sums(dir.sums), CacheAccepted(dir, candidate)
  PROVE  /\ \A n \in Names : dir.files[n] \in Wholes
         /\ dir.files["metadata"] = Metadata(candidate, Clean(candidate))
<1>1. /\ "python" \in DOMAIN dir.sums /\ dir.sums # None
      /\ \A n \in DOMAIN dir.sums : dir.sums[n] = dir.files[n]
      /\ dir.files["metadata"] = Metadata(candidate, Clean(candidate))
  BY DEF CacheAccepted
<1>2. DOMAIN dir.sums = Names
  BY <1>1 DEF Sums
<1> QED
  BY <1>1, <1>2 DEF Sums

LEMMA LaunchValidateStep == HostInv /\ LaunchValidate => HostInv'
<1> SUFFICES ASSUME HostInv, LaunchValidate PROVE HostInv'
  OBVIOUS
<1>1. launcher.pc = "validate" /\ RuntimeInv /\ UNCHANGED Rest /\ runtime' = runtime
  BY DEF LaunchValidate, Launching, HostInv
<1>2. /\ launcher' \in [pc : {"expect", "stopped"}, offline : BOOLEAN, left : SUBSET Units]
      /\ launcher'.pc = "expect" => CacheAccepted(runtime.cache, runtime.candidate)
  BY DEF LaunchValidate, HostInv
<1>3. RuntimeInv'
  BY <1>1, <1>2 DEF RuntimeInv
<1>4. VmCacheIsWhole'
  <2>1. CASE CacheAccepted(runtime.cache, runtime.candidate)
    <3>1. /\ \A n \in Names : runtime.cache.files[n] \in Wholes
          /\ runtime.cache.files["metadata"] = Metadata(runtime.candidate, Clean(runtime.candidate))
      BY <1>1, <2>1, AcceptedIsComplete DEF RuntimeInv
    <3>2. \A n \in Names : runtime'.cache.files[n] \notin {None, Part}
      BY <1>1, <3>1, WholeAssumption
    <3>3. runtime'.cache.files["metadata"] = Metadata(runtime'.candidate, Clean(runtime'.candidate))
      BY <1>1, <3>1
    <3> QED
      BY <3>2, <3>3 DEF VmCacheIsWhole, Metadata, Clean, Code
  <2>2. CASE ~ CacheAccepted(runtime.cache, runtime.candidate)
    BY <1>2, <2>2 DEF VmCacheIsWhole
  <2> QED
    BY <2>1, <2>2
<1> QED
  BY <1>1, <1>2, <1>3, <1>4, LaunchFrame

\* The cache of a guest is settled before the manifest is made.
LEMMA CacheSettled ==
  ASSUME VmCacheIsWhole, launcher.pc \in {"expect", "record", "boot"},
         launcher'.offline = launcher.offline,
         runtime'.candidate = runtime.candidate, runtime'.cache = runtime.cache
  PROVE  VmCacheIsWhole'
  BY DEF VmCacheIsWhole, Metadata, Clean, Code

LEMMA LaunchExpectStep == HostInv /\ LaunchExpect => HostInv'
<1> SUFFICES ASSUME HostInv, LaunchExpect PROVE HostInv'
  OBVIOUS
<1>1. launcher.pc = "expect" /\ RuntimeInv /\ UNCHANGED Rest
  BY DEF LaunchExpect, Launching, HostInv
<1>2. PICK code \in Codes : runtime' = [runtime EXCEPT !.output = code]
  BY RootCodes DEF LaunchExpect
<1>3. runtime' = [candidate |-> runtime.candidate, cache |-> runtime.cache, output |-> code,
                  manifest |-> runtime.manifest]
  BY <1>1, <1>2 DEF RuntimeInv
<1>4. /\ launcher' \in [pc : {"record"}, offline : BOOLEAN, left : SUBSET Units]
      /\ launcher'.offline = launcher.offline
  BY DEF LaunchExpect, HostInv
<1>5. RuntimeInv'
  BY <1>1, <1>3, <1>4 DEF RuntimeInv, Registers
<1>6. VmCacheIsWhole'
  BY <1>1, <1>3, <1>4, CacheSettled DEF HostInv
<1> QED
  BY <1>1, <1>4, <1>5, <1>6, LaunchFrame

LEMMA LaunchRecordStep == HostInv /\ LaunchRecord => HostInv'
<1> SUFFICES ASSUME HostInv, LaunchRecord PROVE HostInv'
  OBVIOUS
<1>1. launcher.pc = "record" /\ RuntimeInv /\ UNCHANGED Rest
  BY DEF LaunchRecord, Launching, HostInv
<1>2. PICK sources \in Codes : runtime' = [runtime EXCEPT !.manifest =
        [commit |-> head, sources |-> sources, artifacts |-> runtime.output]]
  BY RootCodes DEF LaunchRecord
<1>3. runtime' = [candidate |-> runtime.candidate, cache |-> runtime.cache, output |-> runtime.output,
                  manifest |-> [commit |-> head, sources |-> sources, artifacts |-> runtime.output]]
  BY <1>1, <1>2 DEF RuntimeInv
<1>4. /\ launcher' \in [pc : {"boot"}, offline : BOOLEAN, left : SUBSET Units]
      /\ launcher'.offline = launcher.offline
  BY DEF LaunchRecord, HostInv
<1>5. head \in Commits /\ runtime.output \in Codes
  BY <1>1 DEF HostInv, RuntimeInv
<1>6. RuntimeInv'
  BY <1>1, <1>3, <1>4, <1>5 DEF RuntimeInv
<1>7. VmCacheIsWhole'
  BY <1>1, <1>3, <1>4, CacheSettled DEF HostInv
<1> QED
  BY <1>1, <1>4, <1>6, <1>7, LaunchFrame

LEMMA LaunchBootStep == HostInv /\ LaunchBoot => HostInv'
<1> SUFFICES ASSUME HostInv, LaunchBoot PROVE HostInv'
  OBVIOUS
<1>1. launcher.pc = "boot" /\ RuntimeInv /\ UNCHANGED Rest /\ runtime' = runtime
  BY DEF LaunchBoot, Launching, HostInv
<1>2. /\ launcher' \in [pc : {"running"}, offline : BOOLEAN, left : SUBSET Units]
      /\ launcher'.offline = launcher.offline
  BY DEF LaunchBoot, HostInv
<1>3. RuntimeInv'
  BY <1>1, <1>2 DEF RuntimeInv
<1>4. VmCacheIsWhole'
  BY <1>1, <1>2, CacheSettled DEF HostInv
<1> QED
  BY <1>1, <1>2, <1>3, <1>4, LaunchFrame

LEMMA LaunchStopsStep == HostInv /\ LaunchStops => HostInv'
<1> SUFFICES ASSUME HostInv, LaunchStops PROVE HostInv'
  OBVIOUS
<1>1. RuntimeInv /\ UNCHANGED Rest /\ runtime' = runtime
  BY DEF LaunchStops, HostInv
<1>2. launcher' \in [pc : {"stopped"}, offline : BOOLEAN, left : SUBSET Units]
  BY DEF LaunchStops, HostInv
<1>3. RuntimeInv'
  BY <1>1, <1>2 DEF RuntimeInv
<1>4. VmCacheIsWhole'
  BY <1>2 DEF VmCacheIsWhole
<1> QED
  BY <1>1, <1>2, <1>3, <1>4, LaunchFrame

LEMMA HostStep == HostInv /\ HostNext => HostInv'
  BY StageBeginStep, StageFreezeStep, StageHashStep, StageWriteStep, StageSumsStep, StageStopsStep,
     LaunchBeginStep, LaunchFreezeStep, LaunchCopyStep, LaunchValidateStep, LaunchExpectStep,
     LaunchRecordStep, LaunchBootStep, LaunchStopsStep, EditCheckoutStep, DisturbCacheStep
  DEF HostNext

\* Once the guest runs, it goes on, and the runtime directory is its own.
LEMMA HostSettled == HostInv /\ HostNext /\ Running => Running' /\ runtime' = runtime
  BY DEF HostNext, Running, StageBegin, StageFreeze, StageHash, StageWrite, StageSums, StageStops,
         LaunchBegin, LaunchFreeze, LaunchCopy, LaunchValidate, LaunchExpect, LaunchRecord, LaunchBoot,
         LaunchStops, EditCheckout, DisturbCache, Others, Launching

-----------------------------------------------------------------------------
(* The invariant of the session.                                           *)

\* What a workspace can hold besides the kit as it was copied.
GuestCodes(candidate) == {Code(candidate, state, "guest") : state \in Trees}

Validating == {"mkdir", "oscal"} \cup Artifacts
Reading == {"oscal", "export"} \cup Artifacts

GuestInv(candidate) ==
  /\ guest = [pc |-> guest.pc, use |-> guest.use, work |-> guest.work, venv |-> guest.venv,
              npm |-> guest.npm, review |-> guest.review]
  /\ guest.use \in Workspaces
  /\ guest.work \in [Workspaces -> {None, Part} \cup GuestCodes(candidate)]
  /\ guest.pc \in Validating => guest.work[guest.use] \in GuestCodes(candidate)
  /\ guest.review # None \/ guest.pc \in Reading =>
       \A n \in DOMAIN guest.review : guest.review[n] \in GuestCodes(candidate)

ExportInv(candidate) ==
  export # None \/ guest.pc = "export" => \A n \in DOMAIN export : export[n] \in GuestCodes(candidate) \cup {Part}

\* The verified files that are there while each is being written.
VerifiedBefore(name) ==
  CASE name = "fail.json" -> {} [] name = "mapping-report.html" -> {"fail.json"}
    [] name = "pass.json" -> {"fail.json", "mapping-report.html"} [] name = Record -> Artifacts

\* A directory that no verification is writing: without a whole record, or
\* with all artifacts.
Settled(candidate) ==
  Verified =>
    /\ DOMAIN destination = Artifacts \cup {Record}
    /\ destination[Record] = candidate
    /\ \A name \in Artifacts : destination[name] = Clean(candidate)

VerifierInv(candidate) ==
  /\ verifier = [pc |-> verifier.pc, content |-> verifier.content]
  /\ verifier.pc \in {"idle", "failed", "mkdir", Record} \cup Artifacts
  /\ verifier.pc \notin {"idle", "failed"} => \A name \in Artifacts : verifier.content[name] = Clean(candidate)
  /\ verifier.pc = "failed" => ~ Verified
  /\ verifier.pc \in {Record} \cup Artifacts =>
       destination = [n \in VerifiedBefore(verifier.pc) |-> Clean(candidate)]
  /\ verifier.pc \in {"idle", "mkdir"} => Settled(candidate)

\* Nothing of the session is there before the guest runs.
Unused == guest = FreshGuest /\ export = None /\ verifier = NotVerifying /\ destination = None

SessionInv ==
  IF Running THEN GuestInv(runtime.candidate) /\ ExportInv(runtime.candidate) /\ VerifierInv(runtime.candidate)
             ELSE Unused

\* The inductive invariant.
IInv == HostInv /\ SessionInv

LEMMA CandidateIsGuestCode ==
  ASSUME NEW candidate
  PROVE  Clean(candidate) \in GuestCodes(candidate)
<1>1. Clean(candidate) = Code(candidate, "clean", "guest") /\ "clean" \in Trees
  BY DEF Clean, Code, Trees
<1> QED
  BY <1>1 DEF GuestCodes

LEMMA FreshInv == \A candidate : guest = FreshGuest => GuestInv(candidate)
  BY DEF FreshGuest, GuestInv, Workspaces, Validating, Reading, Artifacts

LEMMA UnusedInv == ASSUME NEW candidate, Unused
                   PROVE  GuestInv(candidate) /\ ExportInv(candidate) /\ VerifierInv(candidate)
  BY FreshInv DEF Unused, FreshGuest, ExportInv, VerifierInv, NotVerifying, Settled, Verified, Artifacts, Record

LEMMA InitIInv == SessionInit => IInv
  BY InitHost DEF SessionInit, IInv, SessionInv, Unused, Running, Init, NotLaunching

\* A step of the host alone.
LEMMA HostSessionStep ==
  ASSUME IInv, HostNext, UNCHANGED <<guest, export, verifier, destination>>
  PROVE  IInv'
<1>1. HostInv'
  BY HostStep DEF IInv
<1>2. SessionInv'
  <2>1. CASE Running
    <3>1. Running' /\ runtime' = runtime
      BY <2>1, HostSettled DEF IInv
    <3> QED
      BY <2>1, <3>1 DEF IInv, SessionInv, GuestInv, ExportInv, VerifierInv, Settled, Verified
  <2>2. CASE ~ Running
    <3>1. Unused'
      BY <2>2 DEF IInv, SessionInv, Unused, FreshGuest, NotVerifying
    <3>2. \A candidate : guest' = FreshGuest => GuestInv(candidate)'
      BY DEF FreshGuest, GuestInv, Workspaces, Validating, Reading, Artifacts
    <3>3. ASSUME NEW candidate PROVE (GuestInv(candidate) /\ ExportInv(candidate) /\ VerifierInv(candidate))'
      BY <3>1, <3>2 DEF Unused, FreshGuest, ExportInv, VerifierInv, NotVerifying, Settled, Verified, Artifacts, Record
    <3> QED
      BY <3>1, <3>3 DEF SessionInv
  <2> QED
    BY <2>1, <2>2
<1> QED
  BY <1>1, <1>2 DEF IInv

\* A step of the guest, its export or the verification while the host is idle.
LEMMA SessionFrame ==
  ASSUME IInv, Running, UNCHANGED hostVars, GuestInv(runtime.candidate)', ExportInv(runtime.candidate)',
         VerifierInv(runtime.candidate)'
  PROVE  IInv'
<1>1. HostInv'
  BY DEF IInv, HostInv, StagerInv, RuntimeInv, VmCacheIsWhole, hostVars, Metadata, Clean, Code
<1>2. Running'
  BY DEF hostVars, Running
<1> QED
  BY <1>1, <1>2 DEF IInv, SessionInv

LEMMA GuestFrame ==
  ASSUME IInv, Running, UNCHANGED <<hostVars, export, verifier, destination>>, GuestInv(runtime.candidate)',
         guest'.pc # "export"
  PROVE  IInv'
<1>1. ExportInv(runtime.candidate)' /\ VerifierInv(runtime.candidate)'
  BY DEF IInv, SessionInv, ExportInv, VerifierInv, Settled, Verified, hostVars
<1> QED
  BY <1>1, SessionFrame

-----------------------------------------------------------------------------
(* The guest.                                                              *)

\* A script that stops, or goes on to a command that needs no workspace.
LEMMA FailsStep ==
  ASSUME IInv, Running, Fails
  PROVE  IInv'
<1>1. GuestInv(runtime.candidate) /\ runtime' = runtime
  BY DEF IInv, SessionInv, Fails, GuestStep, hostVars
<1>2. guest' = [pc |-> "idle", use |-> "first", work |-> guest.work, venv |-> guest.venv,
                npm |-> guest.npm, review |-> guest.review]
  BY <1>1 DEF Fails, GuestStep, GuestInv
<1>3. GuestInv(runtime.candidate)'
  BY <1>1, <1>2 DEF GuestInv, Workspaces, Validating, Reading, Artifacts
<1> QED
  BY <1>2, <1>3, GuestFrame DEF Fails, GuestStep

\* The guest alone takes a step.
Alone == UNCHANGED <<hostVars, export, verifier, destination>>

\* A command of s or r: what it leaves in its workspace.
LEMMA PrepareFrame ==
  ASSUME IInv, Running, Alone, NEW pc, pc \notin Validating \cup Reading, NEW use \in Workspaces,
         NEW work \in [Workspaces -> {None, Part} \cup GuestCodes(runtime.candidate)], NEW venv, NEW npm,
         guest' = [pc |-> pc, use |-> use, work |-> work, venv |-> venv, npm |-> npm, review |-> guest.review]
  PROVE  IInv'
<1>1. GuestInv(runtime.candidate) /\ runtime' = runtime
  BY DEF IInv, SessionInv, Alone, hostVars
<1>2. GuestInv(runtime.candidate)'
  BY <1>1 DEF GuestInv
<1> QED
  BY <1>2, GuestFrame DEF Alone, Reading

LEMMA PrepareStep ==
  IInv /\ (PrepareBegin \/ PrepareCopy \/ PrepareVenv \/ PreparePip \/ PrepareNpm) => IInv'
<1> SUFFICES ASSUME IInv, PrepareBegin \/ PrepareCopy \/ PrepareVenv \/ PreparePip \/ PrepareNpm PROVE IInv'
  OBVIOUS
<1>1. Running
  BY DEF PrepareBegin, PrepareCopy, PrepareVenv, PreparePip, PrepareNpm, Shell
<1>2. GuestInv(runtime.candidate)
  BY <1>1 DEF IInv, SessionInv
<1>3. /\ guest = [pc |-> guest.pc, use |-> guest.use, work |-> guest.work, venv |-> guest.venv,
                  npm |-> guest.npm, review |-> guest.review]
      /\ guest.use \in Workspaces /\ "first" \in Workspaces
      /\ guest.work \in [Workspaces -> {None, Part} \cup GuestCodes(runtime.candidate)]
  BY <1>2 DEF GuestInv, Workspaces
<1>4. \A pc \in {"idle", "copy", "venv", "pip", "npm"} : pc \notin Validating \cup Reading
  BY DEF Validating, Reading, Artifacts
<1>5. CASE Fails
  BY <1>1, <1>5, FailsStep
<1>6. CASE PrepareBegin
  <2>1. PICK w \in Workspaces : guest' = [guest EXCEPT !.pc = "copy", !.use = w] /\ Alone
    BY <1>6 DEF PrepareBegin, GuestStep, Alone
  <2>2. guest' =
          [pc |-> "copy", use |-> w, work |-> guest.work, venv |-> guest.venv, npm |-> guest.npm,
           review |-> guest.review]
    BY <1>3, <2>1
  <2> QED
    BY <1>1, <1>3, <1>4, <2>1, <2>2, PrepareFrame
<1>7. CASE PrepareCopy /\ ~ Fails
  <2>1. /\ \/ guest' = [guest EXCEPT !.pc = "venv", !.work[guest.use] = Candidate]
           \/ guest' = [guest EXCEPT !.pc = "idle", !.use = "first", !.work[guest.use] = Part]
        /\ Alone
    BY <1>7 DEF PrepareCopy, GuestStep, Alone
  <2>2. PICK pc \in {"venv", "idle"}, use \in {guest.use, "first"}, content \in {Candidate, Part} :
          guest' = [pc |-> pc, use |-> use, work |-> [guest.work EXCEPT ![guest.use] = content],
                    venv |-> guest.venv, npm |-> guest.npm, review |-> guest.review]
    BY <1>3, <2>1
  <2>3. [guest.work EXCEPT ![guest.use] = content] \in
          [Workspaces -> {None, Part} \cup GuestCodes(runtime.candidate)]
    BY <1>3, CandidateIsGuestCode DEF Candidate
  <2> QED
    BY <1>1, <1>3, <1>4, <2>1, <2>2, <2>3, PrepareFrame
<1>8. CASE PrepareVenv /\ ~ Fails
  <2>1. /\ \/ guest' = [guest EXCEPT !.pc = "pip", !.venv[guest.use] = "bare"]
           \/ \E left \in {"broken", "bare"} :
                guest' = [guest EXCEPT !.pc = "idle", !.use = "first", !.venv[guest.use] = left]
        /\ Alone
    BY <1>8 DEF PrepareVenv, GuestStep, Alone
  <2>2. PICK pc \in {"pip", "idle"}, use \in {guest.use, "first"}, left \in {"bare", "broken"} :
          guest' = [pc |-> pc, use |-> use, work |-> guest.work, venv |-> [guest.venv EXCEPT ![guest.use] = left],
                    npm |-> guest.npm, review |-> guest.review]
    BY <1>3, <2>1
  <2> QED
    BY <1>1, <1>3, <1>4, <2>1, <2>2, PrepareFrame
<1>9. CASE PreparePip /\ ~ Fails
  <2>1. guest' = [guest EXCEPT !.pc = "npm", !.venv[guest.use] = "ready"] /\ Alone
    BY <1>9 DEF PreparePip, GuestStep, Alone
  <2>2. guest' =
          [pc |-> "npm", use |-> guest.use, work |-> guest.work, venv |-> [guest.venv EXCEPT ![guest.use] = "ready"],
           npm |-> guest.npm, review |-> guest.review]
    BY <1>3, <2>1
  <2> QED
    BY <1>1, <1>3, <1>4, <2>1, <2>2, PrepareFrame
<1>10. CASE PrepareNpm /\ ~ Fails
  <2>1. guest' = [guest EXCEPT !.pc = "idle", !.use = "first", !.npm = @ \cup {guest.use}] /\ Alone
    BY <1>10 DEF PrepareNpm, GuestStep, Alone
  <2>2. guest' =
          [pc |-> "idle", use |-> "first", work |-> guest.work, venv |-> guest.venv,
           npm |-> guest.npm \cup {guest.use}, review |-> guest.review]
    BY <1>3, <2>1
  <2> QED
    BY <1>1, <1>3, <1>4, <2>1, <2>2, PrepareFrame
<1> QED
  BY <1>5, <1>6, <1>7, <1>8, <1>9, <1>10

\* A command of v: where it goes, and what is then in the review directory.
LEMMA ValidateFrame ==
  ASSUME IInv, Running, Alone, NEW pc, pc # "export", NEW use \in Workspaces, NEW review,
         pc \in Validating => guest.work[use] \in GuestCodes(runtime.candidate),
         review # None \/ pc \in Reading =>
           \A n \in DOMAIN review : review[n] \in GuestCodes(runtime.candidate),
         guest' = [pc |-> pc, use |-> use, work |-> guest.work, venv |-> guest.venv, npm |-> guest.npm,
                   review |-> review]
  PROVE  IInv'
<1>1. GuestInv(runtime.candidate) /\ runtime' = runtime
  BY DEF IInv, SessionInv, Alone, hostVars
<1>2. GuestInv(runtime.candidate)'
  BY <1>1 DEF GuestInv
<1> QED
  BY <1>2, GuestFrame DEF Alone, Reading

LEMMA GuestVersions ==
  ASSUME NEW candidate, NEW work \in GuestCodes(candidate)
  PROVE  Versions(work) \subseteq GuestCodes(candidate)
<1>1. work.commit = candidate
  BY DEF GuestCodes, Code
<1> QED
  BY <1>1, CandidateIsGuestCode DEF Versions

LEMMA ValidateStep ==
  IInv /\ (ValidateBegin \/ ValidateMkdir \/ ValidateArtifact \/ ValidateOscal) => IInv'
<1> SUFFICES ASSUME IInv, ValidateBegin \/ ValidateMkdir \/ ValidateArtifact \/ ValidateOscal PROVE IInv'
  OBVIOUS
<1>1. Running
  BY DEF ValidateBegin, ValidateMkdir, ValidateArtifact, ValidateOscal, Shell
<1>2. GuestInv(runtime.candidate)
  BY <1>1 DEF IInv, SessionInv
<1>3. /\ guest = [pc |-> guest.pc, use |-> guest.use, work |-> guest.work, venv |-> guest.venv,
                  npm |-> guest.npm, review |-> guest.review]
      /\ guest.use \in Workspaces
      /\ guest.review # None \/ guest.pc \in Reading =>
           \A n \in DOMAIN guest.review : guest.review[n] \in GuestCodes(runtime.candidate)
  BY <1>2 DEF GuestInv
<1> "mkdir" \notin Reading
  BY DEF Reading, Artifacts
<1>4. CASE Fails
  BY <1>1, <1>4, FailsStep
<1>5. CASE ValidateBegin
  <2>1. Chosen \in Workspaces
    BY DEF Chosen, Workspaces
  <2>2. guest.work[Chosen] \in GuestCodes(runtime.candidate)
    BY <1>2, <1>5, <2>1 DEF ValidateBegin, GuestInv
  <2>3. guest' = [guest EXCEPT !.pc = "mkdir", !.use = Chosen] /\ Alone
    BY <1>5 DEF ValidateBegin, GuestStep, Alone
  <2>4. guest' =
          [pc |-> "mkdir", use |-> Chosen, work |-> guest.work, venv |-> guest.venv, npm |-> guest.npm,
           review |-> guest.review]
    BY <1>3, <2>3
  <2> QED
    BY <1>1, <1>3, <2>1, <2>2, <2>3, <2>4, ValidateFrame
<1>6. CASE ValidateMkdir /\ ~ Fails
  <2>1. guest.pc = "mkdir" /\ guest' = [guest EXCEPT !.pc = "pass.json", !.review = <<>>] /\ Alone
    BY <1>6 DEF ValidateMkdir, Shell, GuestStep, Alone
  <2>2. guest.work[guest.use] \in GuestCodes(runtime.candidate)
    BY <1>2, <2>1 DEF GuestInv, Validating
  <2>3. guest' =
          [pc |-> "pass.json", use |-> guest.use, work |-> guest.work, venv |-> guest.venv, npm |-> guest.npm,
           review |-> <<>>]
    BY <1>3, <2>1
  <2>4. \A n \in DOMAIN <<>> : FALSE
    OBVIOUS
  <2> QED
    BY <1>1, <1>3, <2>1, <2>2, <2>3, <2>4, ValidateFrame
<1>7. CASE ValidateArtifact /\ ~ Fails
  <2>1. PICK name \in Artifacts, code \in Versions(guest.work[guest.use]) :
          /\ guest.pc = name
          /\ guest' = [guest EXCEPT !.pc = NextArtifact(name),
                                    !.use = IF NextArtifact(name) = "idle" THEN "first" ELSE @,
                                    !.review = Extended(@, name, code)]
          /\ Alone
    BY <1>7 DEF ValidateArtifact, Shell, GuestStep, Alone
  <2>2. guest.work[guest.use] \in GuestCodes(runtime.candidate)
        /\ \A n \in DOMAIN guest.review : guest.review[n] \in GuestCodes(runtime.candidate)
    BY <1>2, <2>1 DEF GuestInv, Validating, Reading, Artifacts
  <2>3. code \in GuestCodes(runtime.candidate)
    BY <2>1, <2>2, GuestVersions
  <2> DEFINE review == Extended(guest.review, name, code)
             use == IF NextArtifact(name) = "idle" THEN "first" ELSE guest.use
  <2>4. \A n \in DOMAIN review : review[n] \in GuestCodes(runtime.candidate)
    BY <2>2, <2>3 DEF Extended
  <2>5. NextArtifact(name) # "idle" => use = guest.use
    OBVIOUS
  <2>6. "idle" \notin Validating /\ NextArtifact(name) # "export" /\ use \in Workspaces
    BY <1>3 DEF Validating, Artifacts, Workspaces, NextArtifact
  <2>7. guest' = [pc |-> NextArtifact(name), use |-> use, work |-> guest.work, venv |-> guest.venv,
                  npm |-> guest.npm, review |-> review]
    BY <1>3, <2>1
  <2> HIDE DEF review, use
  <2>8. NextArtifact(name) \in Validating => guest.work[use] \in GuestCodes(runtime.candidate)
    BY <2>2, <2>5, <2>6
  <2>9. Alone
    BY <2>1
  <2> QED
    BY <1>1, <2>4, <2>6, <2>7, <2>8, <2>9, ValidateFrame
<1>8. CASE ValidateOscal /\ ~ Fails
  <2>1. guest.pc = "oscal" /\ guest' = [guest EXCEPT !.pc = "mapping-report.html"] /\ Alone
    BY <1>8 DEF ValidateOscal, Continue, Shell, GuestStep, Alone
  <2>2. /\ guest.work[guest.use] \in GuestCodes(runtime.candidate)
        /\ \A n \in DOMAIN guest.review : guest.review[n] \in GuestCodes(runtime.candidate)
    BY <1>2, <2>1 DEF GuestInv, Validating, Reading
  <2>3. guest' =
          [pc |-> "mapping-report.html", use |-> guest.use, work |-> guest.work, venv |-> guest.venv,
           npm |-> guest.npm, review |-> guest.review]
    BY <1>3, <2>1
  <2> QED
    BY <1>1, <1>3, <2>1, <2>2, <2>3, ValidateFrame
<1> QED
  BY <1>4, <1>5, <1>6, <1>7, <1>8

LEMMA ExportBeginStep == IInv /\ ExportBegin => IInv'
<1> SUFFICES ASSUME IInv, ExportBegin PROVE IInv'
  OBVIOUS
<1>1. /\ Running /\ guest' = [guest EXCEPT !.pc = "export"] /\ export' = <<>> /\ guest.pc = "idle"
      /\ UNCHANGED <<hostVars, verifier, destination>> /\ runtime' = runtime /\ guest.review # None
  BY DEF ExportBegin, Shell, hostVars
<1>2. GuestInv(runtime.candidate) /\ VerifierInv(runtime.candidate)
  BY <1>1 DEF IInv, SessionInv
<1>3. guest' = [pc |-> "export", use |-> guest.use, work |-> guest.work, venv |-> guest.venv,
                npm |-> guest.npm, review |-> guest.review]
  BY <1>1, <1>2 DEF GuestInv
<1>4. GuestInv(runtime.candidate)'
  BY <1>1, <1>2, <1>3 DEF GuestInv, Validating, Reading, Artifacts
<1>5. ExportInv(runtime.candidate)' /\ VerifierInv(runtime.candidate)'
  BY <1>1, <1>2 DEF ExportInv, VerifierInv, Settled, Verified
<1> QED
  BY <1>1, <1>4, <1>5, SessionFrame

LEMMA ExportCopyStep == IInv /\ ExportCopy => IInv'
<1> SUFFICES ASSUME IInv, ExportCopy PROVE IInv'
  OBVIOUS
<1> DEFINE name == ExportOrder[Cardinality(DOMAIN export) + 1]
<1>1. Running /\ guest.pc = "export"
  BY DEF ExportCopy, Shell
<1>2. GuestInv(runtime.candidate) /\ VerifierInv(runtime.candidate) /\ ExportInv(runtime.candidate)
  BY <1>1 DEF IInv, SessionInv
<1>3. CASE Fails
  BY <1>1, <1>3, FailsStep
<1>4. CASE ~ Fails
  <2>1. PICK pc \in {"idle", "export"}, content \in {guest.review[name], Part} :
          /\ name \in DOMAIN guest.review
          /\ export' = Extended(export, name, content) /\ guest' = [guest EXCEPT !.pc = pc]
          /\ UNCHANGED <<hostVars, verifier, destination>>
    BY <1>4 DEF ExportCopy
  <2>2. runtime' = runtime
    BY <2>1 DEF hostVars
  <2>3. guest' = [pc |-> pc, use |-> guest.use, work |-> guest.work, venv |-> guest.venv,
                  npm |-> guest.npm, review |-> guest.review]
    BY <1>2, <2>1 DEF GuestInv
  <2>4. GuestInv(runtime.candidate)'
    BY <1>1, <1>2, <2>2, <2>3 DEF GuestInv, Validating, Reading, Artifacts
  <2>5. VerifierInv(runtime.candidate)'
    BY <1>2, <2>1, <2>2 DEF VerifierInv, Settled, Verified
  <2>6. ExportInv(runtime.candidate)'
    <3>1. /\ \A n \in DOMAIN guest.review : guest.review[n] \in GuestCodes(runtime.candidate)
          /\ \A n \in DOMAIN export : export[n] \in GuestCodes(runtime.candidate) \cup {Part}
      BY <1>1, <1>2 DEF GuestInv, ExportInv, Reading
    <3> HIDE DEF name
    <3>2. \A n \in DOMAIN export' : export'[n] \in GuestCodes(runtime.candidate) \cup {Part}
      BY <2>1, <3>1 DEF Extended
    <3> QED
      BY <2>2, <3>2 DEF ExportInv
  <2> QED
    BY <1>1, <2>1, <2>4, <2>5, <2>6, SessionFrame
<1> QED
  BY <1>3, <1>4

LEMMA EditWorkStep == IInv /\ EditWork => IInv'
<1> SUFFICES ASSUME IInv, EditWork PROVE IInv'
  OBVIOUS
<1>1. PICK w \in Workspaces, state \in {"untracked", "edited"} :
        /\ guest.work[w] = Candidate
        /\ guest' = [guest EXCEPT !.work[w] = Code(runtime.candidate, state, "guest")]
  BY DEF EditWork
<1>2. /\ Running /\ UNCHANGED <<checkoutVars, cache, stager, launcher, runtime, export, verifier, destination>>
      /\ edits' \in 0 .. MaxEdits
  BY ConstantsAssumption DEF EditWork, Editing, IInv, HostInv
<1>3. GuestInv(runtime.candidate) /\ ExportInv(runtime.candidate) /\ VerifierInv(runtime.candidate)
  BY <1>2 DEF IInv, SessionInv
<1> DEFINE changed == Code(runtime.candidate, state, "guest")
<1>4. changed \in GuestCodes(runtime.candidate)
  BY DEF GuestCodes, Trees
<1> HIDE DEF changed
<1>5. guest' = [pc |-> guest.pc, use |-> guest.use, work |-> [guest.work EXCEPT ![w] = changed],
                venv |-> guest.venv, npm |-> guest.npm, review |-> guest.review]
  BY <1>1, <1>3 DEF GuestInv, changed
<1>6. GuestInv(runtime.candidate)'
  BY <1>2, <1>3, <1>4, <1>5 DEF GuestInv
<1>7. ExportInv(runtime.candidate)' /\ VerifierInv(runtime.candidate)'
  BY <1>2, <1>3, <1>5 DEF ExportInv, VerifierInv, Settled, Verified
<1>8. HostInv'
  BY <1>2 DEF IInv, HostInv, StagerInv, RuntimeInv, VmCacheIsWhole, checkoutVars, Metadata, Clean, Code
<1>9. Running'
  BY <1>2 DEF Running
<1> QED
  BY <1>6, <1>7, <1>8, <1>9 DEF IInv, SessionInv

LEMMA RestartGuestStep == IInv /\ RestartGuest => IInv'
<1> SUFFICES ASSUME IInv, RestartGuest PROVE IInv'
  OBVIOUS
<1>1. Running /\ guest' = FreshGuest /\ UNCHANGED <<hostVars, export, verifier, destination>>
  BY DEF RestartGuest, GuestStep
<1>2. GuestInv(runtime.candidate)'
  BY <1>1 DEF FreshGuest, GuestInv, Workspaces, Validating, Reading, Artifacts
<1> QED
  BY <1>1, <1>2, GuestFrame DEF FreshGuest

-----------------------------------------------------------------------------
(* The verification.                                                       *)

LEMMA VerifierFrame ==
  ASSUME IInv, Running, UNCHANGED GuestSide, VerifierInv(runtime.candidate)'
  PROVE  IInv'
<1>1. GuestInv(runtime.candidate)' /\ ExportInv(runtime.candidate)'
  BY DEF IInv, SessionInv, GuestInv, ExportInv, GuestSide, hostVars
<1> QED
  BY <1>1, SessionFrame DEF GuestSide

\* What is accepted is of the candidate: an artifact of changed code in the
\* guest is not what changed code of the checkout makes.
LEMMA AcceptedIsCandidates ==
  ASSUME IInv, Running, ExportAccepted
  PROVE  \A name \in Artifacts : export[name] = Candidate
<1>1. ExportInv(runtime.candidate) /\ RuntimeInv /\ runtime.manifest # None
  BY DEF IInv, SessionInv, HostInv, Running, ExportAccepted, Expects
<1>2. runtime.manifest.artifacts \in Codes
  BY <1>1 DEF RuntimeInv
<1> SUFFICES ASSUME NEW name \in Artifacts PROVE export[name] = Candidate
  OBVIOUS
<1>3. export[name] \in Codes /\ export[name] # Part
  BY <1>2, WholeAssumption DEF ExportAccepted, Wholes
<1>4. export[name] \in GuestCodes(runtime.candidate)
  BY <1>1, <1>3 DEF ExportInv, ExportAccepted
<1>5. PICK c \in Commits, t \in Trees : export[name] = Code(c, t, "root")
  BY <1>3 DEF Codes
<1>6. PICK s \in Trees : export[name] = Code(runtime.candidate, s, "guest")
  BY <1>4 DEF GuestCodes
<1>7. c = runtime.candidate /\ t = s /\ t = "clean"
  BY <1>5, <1>6 DEF Code
<1> QED
  BY <1>5, <1>7 DEF Candidate, Clean, Code

LEMMA VerifyReadStep == IInv /\ VerifyRead => IInv'
<1> SUFFICES ASSUME IInv, VerifyRead PROVE IInv'
  OBVIOUS
<1>1. /\ Running /\ UNCHANGED <<GuestSide, destination>> /\ runtime' = runtime
      /\ verifier.pc \in {"idle", "failed"}
      /\ verifier' = IF ExportAccepted THEN [pc |-> "mkdir", content |-> export] ELSE NotVerifying
  BY DEF VerifyRead, GuestSide, hostVars
<1>2. VerifierInv(runtime.candidate)
  BY <1>1 DEF IInv, SessionInv
<1>3. Settled(runtime.candidate)
  BY <1>1, <1>2 DEF VerifierInv, Settled, Verified
<1>4. /\ verifier' = [pc |-> verifier'.pc, content |-> verifier'.content] /\ verifier'.pc \in {"idle", "mkdir"}
      /\ verifier'.pc = "mkdir" => \A name \in Artifacts : verifier'.content[name] = Candidate
  BY <1>1, AcceptedIsCandidates DEF NotVerifying
<1>5. VerifierInv(runtime.candidate)'
  BY <1>1, <1>3, <1>4 DEF VerifierInv, Settled, Verified, Candidate, Artifacts, Record
<1> QED
  BY <1>1, <1>5, VerifierFrame

LEMMA VerifyMkdirStep == IInv /\ VerifyMkdir => IInv'
<1> SUFFICES ASSUME IInv, VerifyMkdir PROVE IInv'
  OBVIOUS
<1>1. Running /\ verifier.pc = "mkdir" /\ UNCHANGED GuestSide /\ runtime' = runtime
  BY DEF VerifyMkdir, Verifying, IInv, SessionInv, Unused, NotVerifying, GuestSide, hostVars
<1>2. VerifierInv(runtime.candidate)
  BY <1>1 DEF IInv, SessionInv
<1>3. CASE destination = None
  <2>1. verifier' = [pc |-> "fail.json", content |-> verifier.content] /\ destination' = <<>>
    BY <1>2, <1>3 DEF VerifyMkdir, VerifierInv
  <2>2. VerifiedBefore("fail.json") = {}
    BY DEF VerifiedBefore, Record
  <2>3. destination' = [n \in VerifiedBefore("fail.json") |-> Clean(runtime.candidate)]
    BY <2>1, <2>2
  <2>4. VerifierInv(runtime.candidate)'
    BY <1>1, <1>2, <2>1, <2>3 DEF VerifierInv, Artifacts, Record
  <2> QED
    BY <1>1, <2>4, VerifierFrame
<1>4. CASE destination # None
  <2>1. verifier' = [pc |-> "idle", content |-> None] /\ destination' = destination
    BY <1>4 DEF VerifyMkdir, NotVerifying
  <2>2. VerifierInv(runtime.candidate)'
    BY <1>1, <1>2, <2>1 DEF VerifierInv, Artifacts, Record, Settled, Verified
  <2> QED
    BY <1>1, <2>2, VerifierFrame
<1> QED
  BY <1>3, <1>4

\* What is there while a file is being written.
LEMMA WritingFacts ==
  ASSUME IInv, NEW name \in Artifacts \cup {Record}, verifier.pc = name
  PROVE  /\ Running /\ VerifierInv(runtime.candidate)
         /\ DOMAIN destination = VerifiedBefore(name) /\ VerifiedBefore(name) \subseteq Artifacts
         /\ \A n \in VerifiedBefore(name) : destination[n] = Clean(runtime.candidate)
<1>1. Running
  BY DEF IInv, SessionInv, Unused, NotVerifying, Artifacts, Record
<1>2. VerifierInv(runtime.candidate)
  BY <1>1 DEF IInv, SessionInv
<1>3. destination = [n \in VerifiedBefore(name) |-> Clean(runtime.candidate)]
  BY <1>2 DEF VerifierInv
<1>4. VerifiedBefore(name) \subseteq Artifacts
  BY DEF VerifiedBefore, Artifacts, Record
<1> QED
  BY <1>1, <1>2, <1>3, <1>4

\* What is left of a verification has no whole record.
LEMMA LeavesNoRecord ==
  ASSUME IInv, verifier.pc \in Artifacts \cup {Record}, destination' = None \/ Leaves
  PROVE  ~ Verified'
<1> SUFFICES ASSUME Leaves, Verified' PROVE FALSE
  BY DEF Verified
<1>1. DOMAIN destination \subseteq Artifacts
  BY WritingFacts
<1>2. PICK left \in SUBSET (DOMAIN destination \cup {verifier.pc}) :
        destination' = [name \in left |-> IF name = verifier.pc THEN Part ELSE destination[name]]
  BY DEF Leaves
<1>3. Record \in left /\ destination'[Record] # Part
  BY <1>2 DEF Verified
<1>4. Record \notin Artifacts
  BY DEF Artifacts, Record
<1>5. verifier.pc = Record
  BY <1>1, <1>3, <1>4
<1> QED
  BY <1>2, <1>3, <1>5

LEMMA VerifyFailsStep == IInv /\ VerifyFails => IInv'
<1> SUFFICES ASSUME IInv, VerifyFails PROVE IInv'
  OBVIOUS
<1>1. /\ Running /\ UNCHANGED GuestSide /\ runtime' = runtime /\ ~ Verified'
      /\ verifier' = [pc |-> "failed", content |-> None]
  BY WritingFacts, LeavesNoRecord DEF VerifyFails, Writing, Verifying, GuestSide, hostVars
<1>2. VerifierInv(runtime.candidate)'
  BY <1>1 DEF VerifierInv, Artifacts, Record
<1> QED
  BY <1>1, <1>2, VerifierFrame

LEMMA VerifyKilledStep == IInv /\ VerifyKilled => IInv'
<1> SUFFICES ASSUME IInv, VerifyKilled PROVE IInv'
  OBVIOUS
<1>1. /\ UNCHANGED GuestSide /\ runtime' = runtime /\ verifier' = [pc |-> "idle", content |-> None]
      /\ verifier.pc = "mkdir" \/ verifier.pc \in Artifacts \cup {Record}
  BY DEF VerifyKilled, Writing, Verifying, GuestSide, hostVars, NotVerifying
<1>2. Running /\ VerifierInv(runtime.candidate)
  BY <1>1 DEF IInv, SessionInv, Unused, NotVerifying, Artifacts, Record
<1>3. (Settled(runtime.candidate))'
  <2>1. CASE verifier.pc = "mkdir"
    <3>1. destination' = destination
      BY <2>1 DEF VerifyKilled, Writing, Artifacts, Record
    <3> QED
      BY <1>1, <1>2, <2>1, <3>1 DEF VerifierInv, Settled, Verified
  <2>2. CASE verifier.pc \in Artifacts \cup {Record}
    <3>1. CASE destination' = destination
      <4>1. DOMAIN destination \subseteq Artifacts /\ Record \notin Artifacts
        BY <2>2, WritingFacts DEF Artifacts, Record
      <4> QED
        BY <3>1, <4>1 DEF Settled, Verified
    <3>2. CASE Leaves
      BY <2>2, <3>2, LeavesNoRecord DEF Settled
    <3> QED
      BY <3>1, <3>2 DEF VerifyKilled
  <2> QED
    BY <1>1, <2>1, <2>2
<1>4. VerifierInv(runtime.candidate)'
  BY <1>1, <1>3 DEF VerifierInv, Artifacts, Record
<1> QED
  BY <1>1, <1>2, <1>4, VerifierFrame

LEMMA VerifyWriteStep == IInv /\ VerifyWrite => IInv'
<1> SUFFICES ASSUME IInv, VerifyWrite PROVE IInv'
  OBVIOUS
<1>1. PICK name \in Artifacts \cup {Record} :
        /\ verifier.pc = name
        /\ destination' = Extended(destination, name, IF name = Record THEN runtime.candidate
                                                                       ELSE verifier.content[name])
        /\ verifier' = [pc |-> WrittenAfter(name), content |-> IF name = Record THEN None ELSE verifier.content]
  BY DEF VerifyWrite, Writing, Verifying
<1>2. UNCHANGED GuestSide /\ runtime' = runtime
  BY DEF VerifyWrite, GuestSide, hostVars
<1>3. /\ Running /\ VerifierInv(runtime.candidate)
      /\ DOMAIN destination = VerifiedBefore(name) /\ VerifiedBefore(name) \subseteq Artifacts
      /\ \A n \in VerifiedBefore(name) : destination[n] = Clean(runtime.candidate)
  BY <1>1, WritingFacts
<1>4. Record \notin Artifacts /\ VerifiedBefore(Record) = Artifacts
  BY DEF VerifiedBefore, Artifacts, Record
<1>5. CASE name = Record
  <2>1. verifier' = [pc |-> "idle", content |-> None]
    BY <1>1, <1>5 DEF WrittenAfter, Record
  <2>2. /\ DOMAIN destination' = Artifacts \cup {Record} /\ destination'[Record] = runtime.candidate
        /\ \A n \in Artifacts : destination'[n] = Clean(runtime.candidate)
    BY <1>1, <1>3, <1>4, <1>5 DEF Extended
  <2>3. (Settled(runtime.candidate))'
    BY <1>2, <2>2 DEF Settled
  <2>4. VerifierInv(runtime.candidate)'
    BY <2>1, <2>3 DEF VerifierInv, Artifacts, Record
  <2> QED
    BY <1>2, <1>3, <2>4, VerifierFrame
<1>6. CASE name \in Artifacts
  <2>1. /\ WrittenAfter(name) \in Artifacts \cup {Record}
        /\ VerifiedBefore(WrittenAfter(name)) = VerifiedBefore(name) \cup {name}
    <3>1. CASE name = "fail.json"
      BY <3>1 DEF WrittenAfter, VerifiedBefore, Artifacts, Record
    <3>2. CASE name = "mapping-report.html"
      BY <3>2 DEF WrittenAfter, VerifiedBefore, Artifacts, Record
    <3>3. CASE name = "pass.json"
      BY <3>3 DEF WrittenAfter, VerifiedBefore, Artifacts, Record
    <3> QED
      BY <1>6, <3>1, <3>2, <3>3 DEF Artifacts
  <2>2. verifier.content[name] = Clean(runtime.candidate) /\ name # Record
    BY <1>1, <1>3, <1>4, <1>6 DEF VerifierInv, Artifacts
  <2>3. verifier' = [pc |-> WrittenAfter(name), content |-> verifier.content]
    BY <1>1, <2>2
  <2>4. destination' = [n \in VerifiedBefore(WrittenAfter(name)) |-> Clean(runtime.candidate)]
    BY <1>1, <1>3, <2>1, <2>2 DEF Extended
  <2>5. \A n \in Artifacts : verifier.content[n] = Clean(runtime.candidate)
    BY <1>1, <1>3, <1>6 DEF VerifierInv, Artifacts
  <2>6. WrittenAfter(name) \notin {"idle", "failed", "mkdir"}
    BY <2>1 DEF Artifacts, Record
  <2>7. VerifierInv(runtime.candidate)'
    BY <1>2, <2>1, <2>3, <2>4, <2>5, <2>6 DEF VerifierInv, Clean, Code
  <2> QED
    BY <1>2, <1>3, <2>7, VerifierFrame
<1> QED
  BY <1>5, <1>6

-----------------------------------------------------------------------------
(* The theorems.                                                           *)

LEMMA NextIInv == IInv /\ [SessionNext]_vars => IInv'
<1> SUFFICES ASSUME IInv, [SessionNext]_vars PROVE IInv'
  OBVIOUS
<1>1. CASE UNCHANGED vars
  <2>1. UNCHANGED <<hostVars, guest, export, verifier, destination>>
    BY <1>1 DEF vars
  <2>2. HostInv'
    BY <2>1 DEF IInv, HostInv, StagerInv, RuntimeInv, VmCacheIsWhole, hostVars, Metadata, Clean, Code
  <2>3. SessionInv'
    BY <2>1 DEF IInv, SessionInv, Running, Unused, GuestInv, ExportInv, VerifierInv, Settled, Verified, hostVars,
                FreshGuest, NotVerifying
  <2> QED
    BY <2>2, <2>3 DEF IInv
<1>2. CASE SessionNext
  BY <1>2, HostSessionStep, PrepareStep, ValidateStep, ExportBeginStep, ExportCopyStep, VerifyReadStep,
     VerifyMkdirStep, VerifyWriteStep, VerifyFailsStep, VerifyKilledStep, EditWorkStep, RestartGuestStep
  DEF SessionNext
<1> QED
  BY <1>1, <1>2

\* The inductive invariant holds in every run.
THEOREM Invariance == SessionSpec => []IInv
  BY InitIInv, NextIInv, PTL DEF SessionSpec

\* Every variable of the host has its shape.
THEOREM TypeCorrect == SessionSpec => []TypeOK
<1>1. IInv => TypeOK
  <2> SUFFICES ASSUME IInv PROVE TypeOK
    OBVIOUS
  <2>1. ASSUME NEW dir, Directory(dir), Sums(dir.sums) PROVE Directories(dir)
    BY <2>1 DEF Directory, Sums, Directories, Contents
  <2>2. runtime # None => RuntimeInv
    BY DEF IInv, HostInv
  <2> QED
    BY <2>1, <2>2 DEF IInv, HostInv, StagerInv, RuntimeInv, TypeOK
<1> QED
  BY <1>1, Invariance, PTL

\* An offline guest runs on a whole cache that was staged for its candidate,
\* wherever staging stopped and whatever became of the cache while it was
\* copied (launch-alpha-review-vm.sh:56-63).
THEOREM GuestCacheWhole == SessionSpec => []VmCacheIsWhole
<1>1. IInv => VmCacheIsWhole
  BY DEF IInv, HostInv
<1> QED
  BY <1>1, Invariance, PTL

\* A verified export is what the candidate's own code makes of the fixtures
\* (launch-alpha-review-vm.sh:46,67; verify-alpha-review-export.py:101-117).
THEOREM VerifiedOfCandidate == SessionSpec => []VerifiedIsOfCandidate
<1>1. IInv => VerifiedIsOfCandidate
  <2> SUFFICES ASSUME IInv, Verified
               PROVE  destination[Record] = runtime.candidate /\ \A n \in Artifacts : destination[n] = Candidate
    BY DEF VerifiedIsOfCandidate
  <2>1. Running /\ VerifierInv(runtime.candidate)
    BY DEF IInv, SessionInv, Unused, Verified
  <2>2. verifier.pc \in {"idle", "mkdir"}
    <3>1. Record \notin Artifacts
      BY DEF Artifacts, Record
    <3>2. verifier.pc \notin Artifacts \cup {Record}
      BY <3>1, WritingFacts DEF Verified
    <3> QED
      BY <2>1, <3>2 DEF VerifierInv, Verified
  <2> QED
    BY <2>1, <2>2 DEF VerifierInv, Settled, Verified, Candidate
<1> QED
  BY <1>1, Invariance, PTL

\* The record is the last thing a verification writes: a failed one leaves
\* nothing that passes for a verified export, wherever it or its cleanup stops,
\* and a whole record comes with whole artifacts
\* (verify-alpha-review-export.py:81-98).
THEOREM VerifiedWhole == SessionSpec => []VerifiedOrNothing
<1>1. IInv => VerifiedOrNothing
  <2> SUFFICES ASSUME IInv PROVE VerifiedOrNothing
    OBVIOUS
  <2>1. verifier.pc = "failed" => ~ Verified
    BY DEF IInv, SessionInv, Unused, VerifierInv, Verified
  <2>2. ASSUME Verified
        PROVE  Artifacts \subseteq DOMAIN destination /\ \A n \in DOMAIN destination : destination[n] # Part
    <3>1. Running /\ VerifierInv(runtime.candidate)
      BY <2>2 DEF IInv, SessionInv, Unused, Verified
    <3>2. Record \notin Artifacts
      BY DEF Artifacts, Record
    <3>3. verifier.pc \notin Artifacts \cup {Record}
      BY <2>2, <3>2, WritingFacts DEF Verified
    <3>4. Settled(runtime.candidate)
      BY <2>2, <3>1, <3>3 DEF VerifierInv, Verified
    <3>5. runtime.candidate \in Commits
      BY <3>1 DEF IInv, HostInv, RuntimeInv, Running
    <3>6. Clean(runtime.candidate) # Part
      <4>1. Clean(runtime.candidate) = Code(runtime.candidate, "clean", "root") /\ "clean" \in Trees
        BY DEF Clean, Code, Trees
      <4> QED
        BY <3>5, <4>1, WholeAssumption DEF Codes, Wholes
    <3> QED
      BY <2>2, <3>4, <3>6 DEF Settled, Verified
  <2> QED
    BY <2>1, <2>2 DEF VerifiedOrNothing
<1> QED
  BY <1>1, Invariance, PTL

LEMMA VerifiedFacts ==
  ASSUME IInv, Verified
  PROVE  Running /\ destination # None /\ ~ Writing(verifier.pc)
<1>1. Running /\ VerifierInv(runtime.candidate)
  BY DEF IInv, SessionInv, Unused, Verified
<1>2. Record \notin Artifacts
  BY DEF Artifacts, Record
<1>3. verifier.pc \notin Artifacts \cup {Record}
  BY <1>1, <1>2, WritingFacts DEF Verified
<1> QED
  BY <1>1, <1>3 DEF Verified, Writing

\* The launching script has ended when the guest runs.
LEMMA RunningHostStep ==
  ASSUME Running, HostNext
  PROVE  runtime' = runtime
<1>1. CASE StageBegin \/ StageFreeze \/ StageHash \/ StageWrite \/ StageSums \/ StageStops
  BY <1>1 DEF StageBegin, StageFreeze, StageHash, StageWrite, StageSums, StageStops, Others
<1>2. CASE LaunchBegin \/ LaunchFreeze \/ LaunchCopy \/ LaunchValidate \/ LaunchExpect \/ LaunchRecord
             \/ LaunchBoot \/ LaunchStops
  BY <1>2 DEF Running, LaunchBegin, LaunchFreeze, LaunchCopy, LaunchValidate, LaunchExpect, LaunchRecord,
              LaunchBoot, LaunchStops, Launching
<1>3. CASE EditCheckout \/ DisturbCache
  BY <1>3 DEF EditCheckout, DisturbCache
<1> QED
  BY <1>1, <1>2, <1>3 DEF HostNext

\* What was verified and what it was compared with.
VerifiedStands == Verified => Verified' /\ destination' = destination /\ runtime' = runtime

\* A verified export stands: no retried or killed verification, no restart of
\* the guest, no later export and no edit of the checkout, the cache or a
\* workspace changes or removes it, or the candidate and the manifest it was
\* compared with (verify-alpha-review-export.py:78-98, launch-alpha-review-vm.sh:41-44).
THEOREM VerifiedForGood == SessionSpec => [][VerifiedStands]_vars
<1>1. IInv /\ [SessionNext]_vars => [VerifiedStands]_vars
  <2> SUFFICES ASSUME IInv, SessionNext, Verified PROVE destination' = destination /\ runtime' = runtime
    BY DEF VerifiedStands, Verified
  <2>1. Running /\ destination # None /\ ~ Writing(verifier.pc)
    BY VerifiedFacts
  <2>2. CASE HostNext /\ UNCHANGED <<guest, export, verifier, destination>>
    BY <2>1, <2>2, RunningHostStep
  <2>3. CASE \/ PrepareBegin \/ PrepareCopy \/ PrepareVenv \/ PreparePip \/ PrepareNpm
             \/ ValidateBegin \/ ValidateMkdir \/ ValidateArtifact \/ ValidateOscal \/ RestartGuest
    BY <2>3 DEF PrepareBegin, PrepareCopy, PrepareVenv, PreparePip, PrepareNpm, ValidateBegin, ValidateMkdir,
                ValidateArtifact, ValidateOscal, RestartGuest, GuestStep, Fails, Continue, hostVars
  <2>4. CASE ExportBegin \/ ExportCopy \/ EditWork
    BY <2>4 DEF ExportBegin, ExportCopy, EditWork, GuestStep, Fails, hostVars
  <2>5. CASE VerifyRead \/ VerifyMkdir \/ VerifyWrite \/ VerifyFails \/ VerifyKilled
    BY <2>1, <2>5 DEF VerifyRead, VerifyMkdir, VerifyWrite, VerifyFails, VerifyKilled, Verifying, Writing,
                      GuestSide, hostVars
  <2> QED
    BY <2>2, <2>3, <2>4, <2>5 DEF SessionNext
<1> QED
  BY <1>1, Invariance, PTL DEF SessionSpec
=============================================================================
