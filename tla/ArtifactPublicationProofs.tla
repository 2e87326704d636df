---------------------- MODULE ArtifactPublicationProofs ----------------------
(* Proofs about ArtifactPublication, for every value of its constants.     *)
EXTENDS ArtifactPublication, FiniteSetTheorems, TLAPS

LEMMA NestedUpdate ==
  ASSUME NEW A, NEW B, NEW C, NEW f \in [A -> [B -> C]],
         NEW a \in A, NEW b \in B, NEW c \in C
  PROVE  [f EXCEPT ![a][b] = c] \in [A -> [B -> C]]
  <1>1. [f[a] EXCEPT ![b] = c] \in [B -> C]
    OBVIOUS
  <1> QED
    BY <1>1

(* Where control is in a run, and what exception is in flight.             *)
ControlType ==
  /\ pc \in [Runs -> Statements]
  /\ raised \in [Runs -> Exceptions]
  /\ blame \in [Runs -> Sides]

LEMMA GotoType ==
  ASSUME TypeOK, NEW p \in Runs, NEW to \in Statements, Goto(p, to)
  PROVE  ControlType'
  BY DEF TypeOK, ControlType, Goto

LEMMA RaiseType ==
  ASSUME TypeOK, NEW p \in Runs, NEW e \in Exceptions, NEW side \in Sides,
         NEW to \in Statements, Raise(p, e, side, to)
  PROVE  ControlType'
  BY DEF TypeOK, ControlType, Raise

LEMMA TypeInit == Init => TypeOK
  BY ConstantsAssumption
  DEF Init, TypeOK, Statements, Exceptions, Sides, Names, Inodes, Portions, Bytes

LEMMA TypeStep == Inv /\ [Next]_vars => TypeOK'
  <1> SUFFICES ASSUME TypeOK, [Next]_vars,
                      \A p \in Runs : pc[p] = "replace" => temp[p] \in TempNames,
                      \A r \in Readers : rpc[r] = "read" => held[r] # None
               PROVE  TypeOK'
    BY DEF Inv, ProgressInv, Progress, ReaderInv, Writing
  <1> DEFINE K == {"idle", "lstat", "read", "convert", "mkdir", "mkstemp", "write",
                   "replace", "cleanup", "raised", "return", "exited", "killed"}
  <1>a. /\ K \subseteq Statements
        /\ {"none", "UsageError", "OvalInputError", "OSError", "Other"} = Exceptions
        /\ {"none", "usage", "input", "installation", "output"} = Sides
    BY DEF Statements, Live, Reading, Writing, Finished, Exceptions, Sides
  <1>1. ASSUME NEW p \in Runs, Begin(p) PROVE TypeOK'
    <2>1. ControlType'
      BY <1>1, <1>a, GotoType, RaiseType DEF Begin
    <2> QED
      BY <1>1, <2>1 DEF ControlType, TypeOK, inputVars, runVars, diskVars, readerVars, Begin
  <1>2. ASSUME NEW p \in Runs, BadArguments(p) PROVE TypeOK'
    <2>1. ControlType'
      BY <1>2, <1>a, GotoType, RaiseType DEF BadArguments
    <2> QED
      BY <1>2, <2>1 DEF ControlType, TypeOK, inputVars, runVars, diskVars, readerVars, BadArguments
  <1>3. ASSUME NEW p \in Runs, NEW r \in Roles, Lstat(p, r) PROVE TypeOK'
    <2>1. ControlType'
      BY <1>3, <1>a, GotoType, RaiseType DEF Lstat, LstatError
    <2> QED
      BY <1>3, <2>1 DEF ControlType, TypeOK, inputVars, runVars, diskVars, readerVars, Lstat, LstatError
  <1>4. ASSUME NEW p \in Runs, NEW r \in Roles, Read(p, r) PROVE TypeOK'
    <2>1. ControlType'
      BY <1>4, <1>a, GotoType, RaiseType DEF Read, ReadError
    <2>2. got' \in [Runs -> [Roles -> ParsedBytes \cup {None}]]
      <3>1. Contents[r] \subseteq ParsedBytes
        BY DEF ParsedBytes
      <3>2. got' = got \/ \E b \in Contents[r] : got' = [got EXCEPT ![p][r] = b]
        BY <1>4 DEF Read
      <3>3. got \in [Runs -> [Roles -> ParsedBytes \cup {None}]]
        BY DEF TypeOK
      <3>4. ASSUME NEW b \in Contents[r]
            PROVE  [got EXCEPT ![p][r] = b] \in [Runs -> [Roles -> ParsedBytes \cup {None}]]
        <4>1. b \in ParsedBytes \cup {None}
          BY <3>1
        <4> HIDE DEF K
        <4> QED
          BY <3>3, <4>1, NestedUpdate, Zenon
      <3> QED
        BY <3>2, <3>3, <3>4
    <2> QED
      BY <1>4, <2>1, <2>2 DEF ControlType, TypeOK, inputVars, diskVars, readerVars, Read
  <1>5. ASSUME NEW p \in Runs, Convert(p) PROVE TypeOK'
    <2>1. ControlType'
      BY <1>5, <1>a, GotoType, RaiseType DEF Convert, Verdict
    <2> QED
      BY <1>5, <2>1 DEF ControlType, TypeOK, inputVars, runVars, diskVars, readerVars, Convert, Verdict
  <1>6. ASSUME NEW p \in Runs, Mkdir(p) PROVE TypeOK'
    <2>1. ControlType'
      BY <1>6, <1>a, GotoType, RaiseType DEF Mkdir
    <2> QED
      BY <1>6, <2>1 DEF ControlType, TypeOK, inputVars, runVars, diskVars, readerVars, Mkdir
  <1>7. ASSUME NEW p \in Runs, Mkstemp(p) PROVE TypeOK'
    <2>1. ControlType'
      BY <1>7, <1>a, GotoType, RaiseType DEF Mkstemp
    <2>2. /\ entry' \in [Names -> Inodes \cup {None}]
          /\ data' \in [Inodes -> Portions]
          /\ temp' \in [Runs -> TempNames \cup {None}]
      <3>1. /\ entry \in [Names -> Inodes \cup {None}]
            /\ data \in [Inodes -> Portions]
            /\ temp \in [Runs -> TempNames \cup {None}]
            /\ p \in Inodes /\ "empty" \in Portions
        BY DEF TypeOK, Inodes, Portions
      <3>2. CASE UNCHANGED <<entry, data, temp>>
        BY <3>1, <3>2
      <3>3. CASE \E n \in TempNames :
                   /\ entry' = [entry EXCEPT ![n] = p]
                   /\ data' = [data EXCEPT ![p] = "empty"]
                   /\ temp' = [temp EXCEPT ![p] = n]
        BY <3>1, <3>3
      <3> QED
        BY <1>7, <3>2, <3>3 DEF Mkstemp
    <2> QED
      BY <1>7, <2>1, <2>2 DEF ControlType, TypeOK, inputVars, readerVars, Mkstemp
  <1>8. ASSUME NEW p \in Runs, Flush(p) PROVE TypeOK'
    BY <1>8 DEF TypeOK, inputVars, runVars, diskVars, readerVars, Flush, Inodes, Portions
  <1>9. ASSUME NEW p \in Runs, Close(p) PROVE TypeOK'
    <2>1. ControlType'
      BY <1>9, <1>a, GotoType, RaiseType DEF Close
    <2> QED
      BY <1>9, <2>1 DEF ControlType, TypeOK, inputVars, runVars, diskVars, readerVars, Close, Inodes, Portions
  <1>10. ASSUME NEW p \in Runs, Replace(p) PROVE TypeOK'
    <2>1. ControlType'
      BY <1>10, <1>a, GotoType, RaiseType DEF Replace
    <2>2. entry' \in [Names -> Inodes \cup {None}]
      BY <1>10 DEF Replace, TypeOK, Names
    <2> QED
      BY <1>10, <2>1, <2>2 DEF ControlType, TypeOK, inputVars, readerVars, Replace
  <1>11. ASSUME NEW p \in Runs, Cleanup(p) PROVE TypeOK'
    <2>1. ControlType'
      BY <1>11, <1>a, GotoType, RaiseType DEF Cleanup
    <2>2. entry' \in [Names -> Inodes \cup {None}]
      BY <1>11 DEF Cleanup, TypeOK, Names
    <2> QED
      BY <1>11, <2>1, <2>2 DEF ControlType, TypeOK, inputVars, readerVars, Cleanup
  <1>12. ASSUME NEW p \in Runs, Exit(p) PROVE TypeOK'
    <2>1. ControlType'
      BY <1>12, <1>a, GotoType, RaiseType DEF Exit
    <2> QED
      BY <1>12, <2>1 DEF ControlType, TypeOK, inputVars, runVars, diskVars, readerVars, Exit, ExitCodeOf
  <1>13. ASSUME NEW p \in Runs, Kill(p) PROVE TypeOK'
    <2>1. ControlType'
      BY <1>13, <1>a, GotoType, RaiseType DEF Kill
    <2> QED
      BY <1>13, <2>1 DEF ControlType, TypeOK, inputVars, runVars, diskVars, readerVars, Kill
  <1>14. ASSUME NEW r \in Readers, ReaderBegin(r) PROVE TypeOK'
    BY <1>14 DEF TypeOK, inputVars, runVars, diskVars, readerVars, ReaderBegin
  <1>15. ASSUME NEW r \in Readers, ReaderLstat(r) PROVE TypeOK'
    BY <1>15 DEF TypeOK, inputVars, runVars, diskVars, readerVars, ReaderLstat
  <1>16. ASSUME NEW r \in Readers, ReaderOpen(r) PROVE TypeOK'
    <2>1. Reads[r] \in Names
      BY ConstantsAssumption DEF Names
    <2>2. held' \in [Readers -> Inodes \cup {None}]
      BY <1>16, <2>1 DEF ReaderOpen, TypeOK
    <2>3. rpc' \in [Readers -> {"idle", "lstat", "open", "read", "done", "rejected"}]
      BY <1>16, ZenonT(30) DEF ReaderOpen, TypeOK
    <2> QED
      BY <1>16, <2>2, <2>3 DEF TypeOK, inputVars, runVars, diskVars, ReaderOpen
  <1>17. ASSUME NEW r \in Readers, ReaderRead(r) PROVE TypeOK'
    BY <1>17 DEF TypeOK, inputVars, runVars, diskVars, readerVars, ReaderRead, Inodes
  <1>18. ASSUME NEW r \in Editable, Edit(r) PROVE TypeOK'
    BY <1>18, ConstantsAssumption DEF TypeOK, inputVars, runVars, diskVars, readerVars, Edit, Bytes
  <1>19. ASSUME UNCHANGED vars PROVE TypeOK'
    BY <1>19 DEF TypeOK, inputVars, runVars, diskVars, readerVars, vars
  <1> QED
    BY <1>1, <1>2, <1>3, <1>4, <1>5, <1>6, <1>7, <1>8, <1>9, <1>10, <1>11, <1>12, <1>13, <1>14, <1>15, <1>16, <1>17, <1>18, <1>19 DEF Next, Step, ReaderStep

-----------------------------------------------------------------------------
(* The progress of each run is kept: the step of a run changes nothing of  *)
(* another, because temporary names are chosen free and are not artifact   *)
(* paths.                                                                  *)

LEMMA ProgressStep == Inv /\ [Next]_vars => ProgressInv'
  <1> SUFFICES ASSUME Inv, [Next]_vars, NEW q \in Runs PROVE Progress(q)'
    BY DEF ProgressInv
  <1>a. TypeOK /\ ProgressInv /\ InstalledInv
    BY DEF Inv
  <1> USE ConstantsAssumption
  <1>1. ASSUME NEW p \in Runs, Begin(p) PROVE Progress(q)'
    BY <1>1, <1>a DEF TypeOK, ProgressInv, Progress, Reading, Writing, Finished, inputVars, runVars, diskVars, readerVars, Begin, Goto
  <1>2. ASSUME NEW p \in Runs, BadArguments(p) PROVE Progress(q)'
    BY <1>2, <1>a DEF TypeOK, ProgressInv, Progress, Reading, Writing, Finished, inputVars, runVars, diskVars, readerVars, BadArguments, Raise
  <1>3. ASSUME NEW p \in Runs, NEW r \in Roles, Lstat(p, r) PROVE Progress(q)'
    BY <1>3, <1>a DEF TypeOK, ProgressInv, Progress, Reading, Writing, Finished, inputVars, runVars, diskVars, readerVars, Lstat, Goto, Raise, LstatError
  <1>4. ASSUME NEW p \in Runs, NEW r \in Roles, Read(p, r) PROVE Progress(q)'
    BY <1>4, <1>a DEF TypeOK, ProgressInv, Progress, Reading, Writing, Finished, inputVars, runVars, diskVars, readerVars, Read, Goto, Raise, ReadError
  <1>5. ASSUME NEW p \in Runs, Convert(p) PROVE Progress(q)'
    BY <1>5, <1>a DEF TypeOK, ProgressInv, Progress, Reading, Writing, Finished, inputVars, runVars, diskVars, readerVars, Convert, Goto, Raise, Verdict
  <1>6. ASSUME NEW p \in Runs, Mkdir(p) PROVE Progress(q)'
    <2>1. /\ Progress(q) /\ pc \in [Runs -> Statements]
          /\ raised \in [Runs -> Exceptions] /\ blame \in [Runs -> Sides]
      BY <1>a DEF ProgressInv, TypeOK
    <2>2. UNCHANGED <<entry, data, temp, exit, installed>> /\ pc[p] = "mkdir"
      BY <1>6 DEF Mkdir
    <2>3. CASE q # p
      <3>1. pc'[q] = pc[q] /\ raised'[q] = raised[q] /\ blame'[q] = blame[q]
        BY <1>6, <2>1, <2>3 DEF Mkdir, Goto, Raise
      <3> QED
        BY <2>1, <2>2, <3>1 DEF Progress
    <2>4. CASE q = p
      <3>1. \/ pc'[q] = "mkstemp" /\ raised'[q] = raised[q] /\ blame'[q] = blame[q]
            \/ pc'[q] = "raised" /\ raised'[q] = "OSError" /\ blame'[q] = "output"
        BY <1>6, <2>1, <2>4 DEF Mkdir, Goto, Raise
      <3> QED
        BY <2>1, <2>2, <2>4, <3>1 DEF Progress, Reading, Writing, Finished
    <2> QED
      BY <2>3, <2>4
  <1>7. ASSUME NEW p \in Runs, Mkstemp(p) PROVE Progress(q)'
    BY <1>7, <1>a DEF TypeOK, ProgressInv, Progress, Reading, Writing, Finished, inputVars, runVars, diskVars, readerVars, Mkstemp, Goto, Raise, Names, Inodes
  <1>8. ASSUME NEW p \in Runs, Flush(p) PROVE Progress(q)'
    BY <1>8, <1>a DEF TypeOK, ProgressInv, Progress, Reading, Writing, Finished, inputVars, runVars, diskVars, readerVars, Flush
  <1>9. ASSUME NEW p \in Runs, Close(p) PROVE Progress(q)'
    BY <1>9, <1>a DEF TypeOK, ProgressInv, Progress, Reading, Writing, Finished, Inodes, inputVars, runVars, diskVars, readerVars, Close, Goto, Raise
  <1>10. ASSUME NEW p \in Runs, Replace(p) PROVE Progress(q)'
    BY <1>10, <1>a DEF TypeOK, ProgressInv, Progress, Reading, Writing, Finished, inputVars, runVars, diskVars, readerVars, Replace, Goto, Raise, Names, Inodes
  <1>11. ASSUME NEW p \in Runs, Cleanup(p) PROVE Progress(q)'
    BY <1>11, <1>a DEF TypeOK, ProgressInv, Progress, Reading, Writing, Finished, inputVars, runVars, diskVars, readerVars, Cleanup, Goto, Raise, Names, Inodes
  <1>12. ASSUME NEW p \in Runs, Exit(p) PROVE Progress(q)'
    BY <1>12, <1>a DEF TypeOK, ProgressInv, Progress, Reading, Writing, Finished, inputVars, runVars, diskVars, readerVars, Exit, Goto, ExitCodeOf
  <1>13. ASSUME NEW p \in Runs, Kill(p) PROVE Progress(q)'
    BY <1>13, <1>a DEF TypeOK, ProgressInv, Progress, Reading, Writing, Finished, inputVars, runVars, diskVars, readerVars, Kill, Goto, Live
  <1>14. ASSUME NEW r \in Readers, ReaderBegin(r) PROVE Progress(q)'
    BY <1>14, <1>a DEF TypeOK, ProgressInv, Progress, Reading, Writing, Finished, inputVars, runVars, diskVars, readerVars, ReaderBegin
  <1>15. ASSUME NEW r \in Readers, ReaderLstat(r) PROVE Progress(q)'
    BY <1>15, <1>a DEF TypeOK, ProgressInv, Progress, Reading, Writing, Finished, inputVars, runVars, diskVars, readerVars, ReaderLstat
  <1>16. ASSUME NEW r \in Readers, ReaderOpen(r) PROVE Progress(q)'
    BY <1>16, <1>a DEF TypeOK, ProgressInv, Progress, Reading, Writing, Finished, inputVars, runVars, diskVars, readerVars, ReaderOpen
  <1>17. ASSUME NEW r \in Readers, ReaderRead(r) PROVE Progress(q)'
    BY <1>17, <1>a DEF TypeOK, ProgressInv, Progress, Reading, Writing, Finished, inputVars, runVars, diskVars, readerVars, ReaderRead
  <1>18. ASSUME NEW r \in Editable, Edit(r) PROVE Progress(q)'
    BY <1>18, <1>a DEF TypeOK, ProgressInv, Progress, Reading, Writing, Finished, inputVars, runVars, diskVars, readerVars, Edit
  <1>19. ASSUME UNCHANGED vars PROVE Progress(q)'
    BY <1>19, <1>a DEF TypeOK, ProgressInv, Progress, Reading, Writing, Finished, inputVars, runVars, diskVars, readerVars, vars
  <1> QED
    BY <1>1, <1>2, <1>3, <1>4, <1>5, <1>6, <1>7, <1>8, <1>9, <1>10, <1>11, <1>12, <1>13, <1>14, <1>15, <1>16, <1>17, <1>18, <1>19 DEF Next, Step, ReaderStep

-----------------------------------------------------------------------------
(* What a run parsed and had accepted stays as it was when accepted.       *)

LEMMA AcceptedStep == Inv /\ [Next]_vars => AcceptedInv'
  <1> SUFFICES ASSUME Inv, [Next]_vars, NEW q \in Runs PROVE AcceptedSoFar(q)'
    BY DEF AcceptedInv
  <1>a. TypeOK /\ ProgressInv /\ AcceptedInv
    BY DEF Inv
  <1>b. Needs(q) \subseteq Roles
    BY DEF Needs, Roles
  <1>1. ASSUME NEW p \in Runs, Begin(p) PROVE AcceptedSoFar(q)'
    BY <1>1, <1>a, <1>b DEF TypeOK, ProgressInv, Progress, AcceptedInv, AcceptedSoFar, Accepted, Reading, Writing, Finished, inputVars, runVars, diskVars, readerVars, Begin, Goto
  <1>2. ASSUME NEW p \in Runs, BadArguments(p) PROVE AcceptedSoFar(q)'
    BY <1>2, <1>a, <1>b DEF TypeOK, ProgressInv, Progress, AcceptedInv, AcceptedSoFar, Accepted, Reading, Writing, Finished, inputVars, runVars, diskVars, readerVars, BadArguments, Raise
  <1>3. ASSUME NEW p \in Runs, NEW r \in Roles, Lstat(p, r) PROVE AcceptedSoFar(q)'
    BY <1>3, <1>a, <1>b DEF TypeOK, ProgressInv, Progress, AcceptedInv, AcceptedSoFar, Accepted, Reading, Writing, Finished, inputVars, runVars, diskVars, readerVars, Lstat, Goto, Raise
  <1>4. ASSUME NEW p \in Runs, NEW r \in Roles, Read(p, r) PROVE AcceptedSoFar(q)'
    <2>1. /\ pc[p] = "read" /\ p \notin installed /\ installed' = installed
          /\ \/ /\ got' = got
                /\ pc' = [pc EXCEPT ![p] = "raised"]
             \/ \E b \in Contents[r] :
                  /\ got' = [got EXCEPT ![p][r] = b]
                  /\ pc' = [pc EXCEPT ![p] = IF \E s \in Needs(p) \ {r} : got[p][s] = None
                                              THEN "lstat" ELSE "convert"]
      BY <1>4, <1>a DEF Read, Goto, Raise, ProgressInv, Progress, Reading
    <2>2. got \in [Runs -> [Roles -> ParsedBytes \cup {None}]] /\ pc \in [Runs -> Statements]
      BY <1>a DEF TypeOK
    <2>3. AcceptedSoFar(q)
      BY <1>a DEF AcceptedInv
    <2>4. CASE q # p
      <3>1. got'[q] = got[q] /\ pc'[q] = pc[q]
        BY <2>1, <2>2, <2>4
      <3> QED
        BY <2>1, <2>3, <3>1 DEF AcceptedSoFar, Accepted
    <2>5. CASE q = p /\ got' = got /\ pc' = [pc EXCEPT ![p] = "raised"]
      BY <2>1, <2>2, <2>3, <2>5 DEF AcceptedSoFar, Accepted, Writing
    <2>6. ASSUME q = p, NEW b \in Contents[r],
                 got' = [got EXCEPT ![p][r] = b],
                 pc' = [pc EXCEPT ![p] = IF \E s \in Needs(p) \ {r} : got[p][s] = None
                                           THEN "lstat" ELSE "convert"]
          PROVE  AcceptedSoFar(q)'
      <3>1. \A s \in Roles : got'[p][s] = IF s = r THEN b ELSE got[p][s]
        BY <2>2, <2>6
      <3>2. b # None
        BY ConstantsAssumption
      <3>3. pc'[p] = IF \E s \in Needs(p) \ {r} : got[p][s] = None THEN "lstat" ELSE "convert"
        BY <2>2, <2>6
      <3>4. pc'[p] = "convert" => \A s \in Needs(p) : got'[p][s] # None
        BY <1>b, <2>6, <3>1, <3>2, <3>3
      <3> QED
        BY <2>1, <2>3, <2>6, <3>1, <3>3, <3>4 DEF AcceptedSoFar, Writing
    <2> QED
      BY <2>1, <2>4, <2>5, <2>6
  <1>5. ASSUME NEW p \in Runs, Convert(p) PROVE AcceptedSoFar(q)'
    <2>1. AcceptedSoFar(q) /\ AcceptedSoFar(p) /\ pc[p] = "convert" /\ p \notin installed
      BY <1>5, <1>a DEF AcceptedInv, ProgressInv, Progress, Reading, Convert
    <2>2. pc \in [Runs -> Statements] /\ got' = got /\ installed' = installed
      BY <1>5, <1>a DEF Convert, TypeOK
    <2>3. CASE Verdict(p) = "ok"
      <3>1. \A r \in Needs(p) : got[p][r] \in Contents[r]
        BY <2>1 DEF AcceptedSoFar, Needs, Roles
      <3>2. Accepted(p)
        BY <2>3, <3>1 DEF Accepted, Verdict, OvalCommands
      <3>3. pc' = [pc EXCEPT ![p] = "mkdir"]
        BY <1>5, <2>3 DEF Convert, Goto
      <3> QED
        BY <2>1, <2>2, <3>2, <3>3 DEF AcceptedSoFar, Accepted
    <2>4. CASE Verdict(p) # "ok"
      <3>1. pc' = [pc EXCEPT ![p] = "raised"]
        BY <1>5, <2>4 DEF Convert, Raise
      <3> QED
        BY <2>1, <2>2, <3>1 DEF AcceptedSoFar, Accepted, Writing
    <2> QED
      BY <2>3, <2>4
  <1>6. ASSUME NEW p \in Runs, Mkdir(p) PROVE AcceptedSoFar(q)'
    BY <1>6, <1>a, <1>b DEF TypeOK, ProgressInv, Progress, AcceptedInv, AcceptedSoFar, Accepted, Reading, Writing, Finished, inputVars, runVars, diskVars, readerVars, Mkdir, Goto, Raise
  <1>7. ASSUME NEW p \in Runs, Mkstemp(p) PROVE AcceptedSoFar(q)'
    BY <1>7, <1>a, <1>b DEF TypeOK, ProgressInv, Progress, AcceptedInv, AcceptedSoFar, Accepted, Reading, Writing, Finished, inputVars, runVars, diskVars, readerVars, Mkstemp, Goto, Raise
  <1>8. ASSUME NEW p \in Runs, Flush(p) PROVE AcceptedSoFar(q)'
    BY <1>8, <1>a, <1>b DEF TypeOK, ProgressInv, Progress, AcceptedInv, AcceptedSoFar, Accepted, Reading, Writing, Finished, inputVars, runVars, diskVars, readerVars, Flush
  <1>9. ASSUME NEW p \in Runs, Close(p) PROVE AcceptedSoFar(q)'
    BY <1>9, <1>a, <1>b DEF TypeOK, ProgressInv, Progress, AcceptedInv, AcceptedSoFar, Accepted, Reading, Writing, Finished, inputVars, runVars, diskVars, readerVars, Close, Goto, Raise
  <1>10. ASSUME NEW p \in Runs, Replace(p) PROVE AcceptedSoFar(q)'
    BY <1>10, <1>a, <1>b DEF TypeOK, ProgressInv, Progress, AcceptedInv, AcceptedSoFar, Accepted, Reading, Writing, Finished, inputVars, runVars, diskVars, readerVars, Replace, Goto, Raise
  <1>11. ASSUME NEW p \in Runs, Cleanup(p) PROVE AcceptedSoFar(q)'
    BY <1>11, <1>a, <1>b DEF TypeOK, ProgressInv, Progress, AcceptedInv, AcceptedSoFar, Accepted, Reading, Writing, Finished, inputVars, runVars, diskVars, readerVars, Cleanup, Goto, Raise
  <1>12. ASSUME NEW p \in Runs, Exit(p) PROVE AcceptedSoFar(q)'
    BY <1>12, <1>a, <1>b DEF TypeOK, ProgressInv, Progress, AcceptedInv, AcceptedSoFar, Accepted, Reading, Writing, Finished, inputVars, runVars, diskVars, readerVars, Exit, Goto
  <1>13. ASSUME NEW p \in Runs, Kill(p) PROVE AcceptedSoFar(q)'
    BY <1>13, <1>a, <1>b DEF TypeOK, ProgressInv, Progress, AcceptedInv, AcceptedSoFar, Accepted, Reading, Writing, Finished, inputVars, runVars, diskVars, readerVars, Kill, Goto
  <1>14. ASSUME NEW r \in Readers, ReaderBegin(r) PROVE AcceptedSoFar(q)'
    BY <1>14, <1>a, <1>b DEF TypeOK, ProgressInv, Progress, AcceptedInv, AcceptedSoFar, Accepted, Reading, Writing, Finished, inputVars, runVars, diskVars, readerVars, ReaderBegin
  <1>15. ASSUME NEW r \in Readers, ReaderLstat(r) PROVE AcceptedSoFar(q)'
    BY <1>15, <1>a, <1>b DEF TypeOK, ProgressInv, Progress, AcceptedInv, AcceptedSoFar, Accepted, Reading, Writing, Finished, inputVars, runVars, diskVars, readerVars, ReaderLstat
  <1>16. ASSUME NEW r \in Readers, ReaderOpen(r) PROVE AcceptedSoFar(q)'
    BY <1>16, <1>a, <1>b DEF TypeOK, ProgressInv, Progress, AcceptedInv, AcceptedSoFar, Accepted, Reading, Writing, Finished, inputVars, runVars, diskVars, readerVars, ReaderOpen
  <1>17. ASSUME NEW r \in Readers, ReaderRead(r) PROVE AcceptedSoFar(q)'
    BY <1>17, <1>a, <1>b DEF TypeOK, ProgressInv, Progress, AcceptedInv, AcceptedSoFar, Accepted, Reading, Writing, Finished, inputVars, runVars, diskVars, readerVars, ReaderRead
  <1>18. ASSUME NEW r \in Editable, Edit(r) PROVE AcceptedSoFar(q)'
    BY <1>18, <1>a, <1>b DEF TypeOK, ProgressInv, Progress, AcceptedInv, AcceptedSoFar, Accepted, Reading, Writing, Finished, inputVars, runVars, diskVars, readerVars, Edit
  <1>19. ASSUME UNCHANGED vars PROVE AcceptedSoFar(q)'
    BY <1>19, <1>a, <1>b DEF TypeOK, ProgressInv, Progress, AcceptedInv, AcceptedSoFar, Accepted, Reading, Writing, Finished, inputVars, runVars, diskVars, readerVars, vars
  <1> QED
    BY <1>1, <1>2, <1>3, <1>4, <1>5, <1>6, <1>7, <1>8, <1>9, <1>10, <1>11, <1>12, <1>13, <1>14, <1>15, <1>16, <1>17, <1>18, <1>19 DEF Next, Step, ReaderStep

-----------------------------------------------------------------------------
(* The artifact paths name installed documents, which nothing writes to.   *)

LEMMA InstalledStep == Inv /\ [Next]_vars => InstalledInv'
  <1> SUFFICES ASSUME Inv, [Next]_vars PROVE InstalledInv'
    OBVIOUS
  <1>a. TypeOK /\ ProgressInv /\ InstalledInv /\ TempsAreAccountedFor
    BY DEF Inv
  <1> USE ConstantsAssumption
  <1>1. ASSUME NEW p \in Runs, Begin(p) PROVE InstalledInv'
    BY <1>1, <1>a DEF TypeOK, ProgressInv, Progress, InstalledInv, TempsAreAccountedFor, Reading, Writing, Names, Inodes, inputVars, runVars, diskVars, readerVars, Begin, Goto
  <1>2. ASSUME NEW p \in Runs, BadArguments(p) PROVE InstalledInv'
    BY <1>2, <1>a DEF TypeOK, ProgressInv, Progress, InstalledInv, TempsAreAccountedFor, Reading, Writing, Names, Inodes, inputVars, runVars, diskVars, readerVars, BadArguments, Raise
  <1>3. ASSUME NEW p \in Runs, NEW r \in Roles, Lstat(p, r) PROVE InstalledInv'
    BY <1>3, <1>a DEF TypeOK, ProgressInv, Progress, InstalledInv, TempsAreAccountedFor, Reading, Writing, Names, Inodes, inputVars, runVars, diskVars, readerVars, Lstat, Goto, Raise
  <1>4. ASSUME NEW p \in Runs, NEW r \in Roles, Read(p, r) PROVE InstalledInv'
    BY <1>4, <1>a DEF TypeOK, ProgressInv, Progress, InstalledInv, TempsAreAccountedFor, Reading, Writing, Names, Inodes, inputVars, runVars, diskVars, readerVars, Read, Goto, Raise
  <1>5. ASSUME NEW p \in Runs, Convert(p) PROVE InstalledInv'
    BY <1>5, <1>a DEF TypeOK, ProgressInv, Progress, InstalledInv, TempsAreAccountedFor, Reading, Writing, Names, Inodes, inputVars, runVars, diskVars, readerVars, Convert, Goto, Raise
  <1>6. ASSUME NEW p \in Runs, Mkdir(p) PROVE InstalledInv'
    BY <1>6, <1>a DEF TypeOK, ProgressInv, Progress, InstalledInv, TempsAreAccountedFor, Reading, Writing, Names, Inodes, inputVars, runVars, diskVars, readerVars, Mkdir, Goto, Raise
  <1>7. ASSUME NEW p \in Runs, Mkstemp(p) PROVE InstalledInv'
    <2>1. /\ entry \in [Names -> Inodes \cup {None}] /\ data \in [Inodes -> Portions]
          /\ temp \in [Runs -> TempNames \cup {None}] /\ p \in Inodes
      BY <1>a DEF TypeOK, Inodes
    <2>2. p \notin installed /\ installed' = installed
      BY <1>7, <1>a DEF Mkstemp, ProgressInv, Progress
    <2>3. CASE UNCHANGED <<entry, data>>
      BY <1>a, <2>2, <2>3 DEF InstalledInv
    <2>4. ASSUME NEW n \in TempNames, entry' = [entry EXCEPT ![n] = p],
                 data' = [data EXCEPT ![p] = "empty"]
          PROVE  InstalledInv'
      <3>1. \A o \in Outputs : entry'[o] = entry[o]
        BY <2>1, <2>4 DEF Names
      <3>2. \A m \in TempNames : entry'[m] \in {entry[m], p}
        BY <2>1, <2>4 DEF Names
      <3>3. \A i \in installed \cup Outputs : data'[i] = data[i]
        BY <1>a, <2>1, <2>2, <2>4 DEF Inodes, TypeOK
      <3> QED
        BY <1>a, <2>2, <3>1, <3>2, <3>3 DEF InstalledInv
    <2> QED
      BY <1>7, <2>3, <2>4 DEF Mkstemp
  <1>8. ASSUME NEW p \in Runs, Flush(p) PROVE InstalledInv'
    BY <1>8, <1>a DEF TypeOK, ProgressInv, Progress, InstalledInv, TempsAreAccountedFor, Reading, Writing, Names, Inodes, inputVars, runVars, diskVars, readerVars, Flush
  <1>9. ASSUME NEW p \in Runs, Close(p) PROVE InstalledInv'
    BY <1>9, <1>a DEF TypeOK, ProgressInv, Progress, InstalledInv, TempsAreAccountedFor, Reading, Writing, Names, Inodes, inputVars, runVars, diskVars, readerVars, Close, Goto, Raise
  <1>10. ASSUME NEW p \in Runs, Replace(p) PROVE InstalledInv'
    <2>1. /\ entry \in [Names -> Inodes \cup {None}] /\ data \in [Inodes -> Portions]
          /\ temp \in [Runs -> TempNames \cup {None}] /\ p \in Inodes
      BY <1>a DEF TypeOK, Inodes
    <2>2. /\ pc[p] = "replace" /\ data' = data /\ data[p] = "whole" /\ p \notin installed
          /\ temp[p] \in TempNames /\ entry[temp[p]] = p
      BY <1>10, <1>a DEF Replace, diskVars, ProgressInv, Progress, Writing
    <2>3. CASE UNCHANGED <<entry, installed>>
      BY <1>a, <2>2, <2>3 DEF InstalledInv
    <2>4. CASE /\ entry' = [entry EXCEPT ![OutputOf[p]] = entry[temp[p]], ![temp[p]] = None]
               /\ installed' = installed \cup {p}
      <3>1. \A o \in Outputs : entry'[o] = IF o = OutputOf[p] THEN p ELSE entry[o]
        BY <2>1, <2>2, <2>4 DEF Names
      <3>2. \A m \in TempNames : entry'[m] = IF m = temp[p] THEN None ELSE entry[m]
        BY <2>1, <2>2, <2>4 DEF Names
      <3>3. \A m \in TempNames : entry[m] = p => m = temp[p]
        BY <1>a DEF TempsAreAccountedFor
      <3>4. \A m \in TempNames : entry'[m] \notin installed'
        <4>1. None \notin installed' /\ \A m \in TempNames : entry[m] \notin installed
          BY <1>a, <2>4 DEF InstalledInv, TypeOK
        <4>2. ASSUME NEW m \in TempNames, m # temp[p] PROVE entry'[m] \notin installed'
          <5>1. entry'[m] = entry[m] /\ entry[m] # p
            BY <3>2, <3>3, <4>2
          <5> QED
            BY <2>4, <4>1, <5>1
        <4>3. entry'[temp[p]] = None
          BY <2>2, <3>2
        <4> QED
          BY <4>1, <4>2, <4>3
      <3>5. \A o \in Outputs : entry'[o] # None =>
              \/ entry'[o] = o
              \/ entry'[o] \in installed' /\ OutputOf[entry'[o]] = o
        <4>1. \A o \in Outputs : entry[o] # None =>
                \/ entry[o] = o
                \/ entry[o] \in installed /\ OutputOf[entry[o]] = o
          BY <1>a DEF InstalledInv
        <4>2. p \in installed' /\ installed \subseteq installed'
          BY <2>4
        <4> QED
          BY <3>1, <4>1, <4>2
      <3>6. \A i \in installed' \cup Outputs : data'[i] = "whole"
        BY <1>a, <2>2, <2>4 DEF InstalledInv
      <3> QED
        BY <3>4, <3>5, <3>6 DEF InstalledInv
    <2> QED
      BY <1>10, <2>3, <2>4 DEF Replace
  <1>11. ASSUME NEW p \in Runs, Cleanup(p) PROVE InstalledInv'
    <2>1. /\ entry \in [Names -> Inodes \cup {None}] /\ data \in [Inodes -> Portions]
          /\ temp \in [Runs -> TempNames \cup {None}] /\ p \in Inodes
      BY <1>a DEF TypeOK, Inodes
    <2>2. data' = data /\ installed' = installed /\ temp[p] \in TempNames
      BY <1>11, <1>a DEF Cleanup, ProgressInv, Progress, Writing
    <2>3. CASE entry' = entry
      BY <1>a, <2>2, <2>3 DEF InstalledInv
    <2>4. CASE entry' = [entry EXCEPT ![temp[p]] = None]
      <3>1. \A o \in Outputs : entry'[o] = entry[o]
        BY <2>1, <2>2, <2>4 DEF Names
      <3>2. \A m \in TempNames : entry'[m] \in {entry[m], None}
        BY <2>1, <2>2, <2>4 DEF Names
      <3>3. None \notin installed
        BY <1>a DEF TypeOK
      <3> QED
        BY <1>a, <2>2, <3>1, <3>2, <3>3 DEF InstalledInv
    <2> QED
      BY <1>11, <2>3, <2>4 DEF Cleanup
  <1>12. ASSUME NEW p \in Runs, Exit(p) PROVE InstalledInv'
    BY <1>12, <1>a DEF TypeOK, ProgressInv, Progress, InstalledInv, TempsAreAccountedFor, Reading, Writing, Names, Inodes, inputVars, runVars, diskVars, readerVars, Exit, Goto
  <1>13. ASSUME NEW p \in Runs, Kill(p) PROVE InstalledInv'
    BY <1>13, <1>a DEF TypeOK, ProgressInv, Progress, InstalledInv, TempsAreAccountedFor, Reading, Writing, Names, Inodes, inputVars, runVars, diskVars, readerVars, Kill, Goto
  <1>14. ASSUME NEW r \in Readers, ReaderBegin(r) PROVE InstalledInv'
    BY <1>14, <1>a DEF TypeOK, ProgressInv, Progress, InstalledInv, TempsAreAccountedFor, Reading, Writing, Names, Inodes, inputVars, runVars, diskVars, readerVars, ReaderBegin
  <1>15. ASSUME NEW r \in Readers, ReaderLstat(r) PROVE InstalledInv'
    BY <1>15, <1>a DEF TypeOK, ProgressInv, Progress, InstalledInv, TempsAreAccountedFor, Reading, Writing, Names, Inodes, inputVars, runVars, diskVars, readerVars, ReaderLstat
  <1>16. ASSUME NEW r \in Readers, ReaderOpen(r) PROVE InstalledInv'
    BY <1>16, <1>a DEF TypeOK, ProgressInv, Progress, InstalledInv, TempsAreAccountedFor, Reading, Writing, Names, Inodes, inputVars, runVars, diskVars, readerVars, ReaderOpen
  <1>17. ASSUME NEW r \in Readers, ReaderRead(r) PROVE InstalledInv'
    BY <1>17, <1>a DEF TypeOK, ProgressInv, Progress, InstalledInv, TempsAreAccountedFor, Reading, Writing, Names, Inodes, inputVars, runVars, diskVars, readerVars, ReaderRead
  <1>18. ASSUME NEW r \in Editable, Edit(r) PROVE InstalledInv'
    BY <1>18, <1>a DEF TypeOK, ProgressInv, Progress, InstalledInv, TempsAreAccountedFor, Reading, Writing, Names, Inodes, inputVars, runVars, diskVars, readerVars, Edit
  <1>19. ASSUME UNCHANGED vars PROVE InstalledInv'
    BY <1>19, <1>a DEF TypeOK, ProgressInv, Progress, InstalledInv, TempsAreAccountedFor, Reading, Writing, Names, Inodes, inputVars, runVars, diskVars, readerVars, vars
  <1> QED
    BY <1>1, <1>2, <1>3, <1>4, <1>5, <1>6, <1>7, <1>8, <1>9, <1>10, <1>11, <1>12, <1>13, <1>14, <1>15, <1>16, <1>17, <1>18, <1>19 DEF Next, Step, ReaderStep

-----------------------------------------------------------------------------
(* Readers hold only installed documents.                                  *)

LEMMA ReaderInvStep == Inv /\ [Next]_vars => ReaderInv'
  <1> SUFFICES ASSUME Inv, [Next]_vars PROVE ReaderInv'
    OBVIOUS
  <1>a. TypeOK /\ InstalledInv /\ ReaderInv
    BY DEF Inv
  <1> USE ConstantsAssumption
  <1>1. ASSUME NEW p \in Runs, Begin(p) PROVE ReaderInv'
    BY <1>1, <1>a DEF TypeOK, InstalledInv, ReaderInv, Names, Inodes, inputVars, runVars, diskVars, readerVars, Begin, Goto
  <1>2. ASSUME NEW p \in Runs, BadArguments(p) PROVE ReaderInv'
    BY <1>2, <1>a DEF TypeOK, InstalledInv, ReaderInv, Names, Inodes, inputVars, runVars, diskVars, readerVars, BadArguments, Raise
  <1>3. ASSUME NEW p \in Runs, NEW r \in Roles, Lstat(p, r) PROVE ReaderInv'
    BY <1>3, <1>a DEF TypeOK, InstalledInv, ReaderInv, Names, Inodes, inputVars, runVars, diskVars, readerVars, Lstat, Goto, Raise
  <1>4. ASSUME NEW p \in Runs, NEW r \in Roles, Read(p, r) PROVE ReaderInv'
    BY <1>4, <1>a DEF TypeOK, InstalledInv, ReaderInv, Names, Inodes, inputVars, runVars, diskVars, readerVars, Read, Goto, Raise
  <1>5. ASSUME NEW p \in Runs, Convert(p) PROVE ReaderInv'
    BY <1>5, <1>a DEF TypeOK, InstalledInv, ReaderInv, Names, Inodes, inputVars, runVars, diskVars, readerVars, Convert, Goto, Raise
  <1>6. ASSUME NEW p \in Runs, Mkdir(p) PROVE ReaderInv'
    BY <1>6, <1>a DEF TypeOK, InstalledInv, ReaderInv, Names, Inodes, inputVars, runVars, diskVars, readerVars, Mkdir, Goto, Raise
  <1>7. ASSUME NEW p \in Runs, Mkstemp(p) PROVE ReaderInv'
    BY <1>7, <1>a DEF TypeOK, InstalledInv, ReaderInv, Names, Inodes, inputVars, runVars, diskVars, readerVars, Mkstemp, Goto, Raise
  <1>8. ASSUME NEW p \in Runs, Flush(p) PROVE ReaderInv'
    BY <1>8, <1>a DEF TypeOK, InstalledInv, ReaderInv, Names, Inodes, inputVars, runVars, diskVars, readerVars, Flush
  <1>9. ASSUME NEW p \in Runs, Close(p) PROVE ReaderInv'
    BY <1>9, <1>a DEF TypeOK, InstalledInv, ReaderInv, Names, Inodes, inputVars, runVars, diskVars, readerVars, Close, Goto, Raise
  <1>10. ASSUME NEW p \in Runs, Replace(p) PROVE ReaderInv'
    BY <1>10, <1>a DEF TypeOK, InstalledInv, ReaderInv, Names, Inodes, inputVars, runVars, diskVars, readerVars, Replace, Goto, Raise
  <1>11. ASSUME NEW p \in Runs, Cleanup(p) PROVE ReaderInv'
    BY <1>11, <1>a DEF TypeOK, InstalledInv, ReaderInv, Names, Inodes, inputVars, runVars, diskVars, readerVars, Cleanup, Goto, Raise
  <1>12. ASSUME NEW p \in Runs, Exit(p) PROVE ReaderInv'
    BY <1>12, <1>a DEF TypeOK, InstalledInv, ReaderInv, Names, Inodes, inputVars, runVars, diskVars, readerVars, Exit, Goto
  <1>13. ASSUME NEW p \in Runs, Kill(p) PROVE ReaderInv'
    BY <1>13, <1>a DEF TypeOK, InstalledInv, ReaderInv, Names, Inodes, inputVars, runVars, diskVars, readerVars, Kill, Goto
  <1>14. ASSUME NEW r \in Readers, ReaderBegin(r) PROVE ReaderInv'
    BY <1>14, <1>a DEF TypeOK, InstalledInv, ReaderInv, Names, Inodes, inputVars, runVars, diskVars, readerVars, ReaderBegin
  <1>15. ASSUME NEW r \in Readers, ReaderLstat(r) PROVE ReaderInv'
    BY <1>15, <1>a DEF TypeOK, InstalledInv, ReaderInv, Names, Inodes, inputVars, runVars, diskVars, readerVars, ReaderLstat
  <1>16. ASSUME NEW r \in Readers, ReaderOpen(r) PROVE ReaderInv'
    BY <1>16, <1>a DEF TypeOK, InstalledInv, ReaderInv, Names, Inodes, inputVars, runVars, diskVars, readerVars, ReaderOpen
  <1>17. ASSUME NEW r \in Readers, ReaderRead(r) PROVE ReaderInv'
    BY <1>17, <1>a DEF TypeOK, InstalledInv, ReaderInv, Names, Inodes, inputVars, runVars, diskVars, readerVars, ReaderRead
  <1>18. ASSUME NEW r \in Editable, Edit(r) PROVE ReaderInv'
    BY <1>18, <1>a DEF TypeOK, InstalledInv, ReaderInv, Names, Inodes, inputVars, runVars, diskVars, readerVars, Edit
  <1>19. ASSUME UNCHANGED vars PROVE ReaderInv'
    BY <1>19, <1>a DEF TypeOK, InstalledInv, ReaderInv, Names, Inodes, inputVars, runVars, diskVars, readerVars, vars
  <1> QED
    BY <1>1, <1>2, <1>3, <1>4, <1>5, <1>6, <1>7, <1>8, <1>9, <1>10, <1>11, <1>12, <1>13, <1>14, <1>15, <1>16, <1>17, <1>18, <1>19 DEF Next, Step, ReaderStep

LEMMA SeenStep == Inv /\ [Next]_vars => ReadersSeeWholeArtifacts'
  <1> SUFFICES ASSUME Inv, [Next]_vars PROVE ReadersSeeWholeArtifacts'
    OBVIOUS
  <1>a. TypeOK /\ InstalledInv /\ ReaderInv /\ ReadersSeeWholeArtifacts
    BY DEF Inv
  <1>1. ASSUME NEW p \in Runs, Begin(p) PROVE ReadersSeeWholeArtifacts'
    BY <1>1, <1>a DEF TypeOK, InstalledInv, ReaderInv, ReadersSeeWholeArtifacts, inputVars, runVars, diskVars, readerVars, Begin, Goto
  <1>2. ASSUME NEW p \in Runs, BadArguments(p) PROVE ReadersSeeWholeArtifacts'
    BY <1>2, <1>a DEF TypeOK, InstalledInv, ReaderInv, ReadersSeeWholeArtifacts, inputVars, runVars, diskVars, readerVars, BadArguments, Raise
  <1>3. ASSUME NEW p \in Runs, NEW r \in Roles, Lstat(p, r) PROVE ReadersSeeWholeArtifacts'
    BY <1>3, <1>a DEF TypeOK, InstalledInv, ReaderInv, ReadersSeeWholeArtifacts, inputVars, runVars, diskVars, readerVars, Lstat, Goto, Raise
  <1>4. ASSUME NEW p \in Runs, NEW r \in Roles, Read(p, r) PROVE ReadersSeeWholeArtifacts'
    BY <1>4, <1>a DEF TypeOK, InstalledInv, ReaderInv, ReadersSeeWholeArtifacts, inputVars, runVars, diskVars, readerVars, Read, Goto, Raise
  <1>5. ASSUME NEW p \in Runs, Convert(p) PROVE ReadersSeeWholeArtifacts'
    BY <1>5, <1>a DEF TypeOK, InstalledInv, ReaderInv, ReadersSeeWholeArtifacts, inputVars, runVars, diskVars, readerVars, Convert, Goto, Raise
  <1>6. ASSUME NEW p \in Runs, Mkdir(p) PROVE ReadersSeeWholeArtifacts'
    BY <1>6, <1>a DEF TypeOK, InstalledInv, ReaderInv, ReadersSeeWholeArtifacts, inputVars, runVars, diskVars, readerVars, Mkdir, Goto, Raise
  <1>7. ASSUME NEW p \in Runs, Mkstemp(p) PROVE ReadersSeeWholeArtifacts'
    BY <1>7, <1>a DEF TypeOK, InstalledInv, ReaderInv, ReadersSeeWholeArtifacts, inputVars, runVars, diskVars, readerVars, Mkstemp, Goto, Raise
  <1>8. ASSUME NEW p \in Runs, Flush(p) PROVE ReadersSeeWholeArtifacts'
    BY <1>8, <1>a DEF TypeOK, InstalledInv, ReaderInv, ReadersSeeWholeArtifacts, inputVars, runVars, diskVars, readerVars, Flush
  <1>9. ASSUME NEW p \in Runs, Close(p) PROVE ReadersSeeWholeArtifacts'
    BY <1>9, <1>a DEF TypeOK, InstalledInv, ReaderInv, ReadersSeeWholeArtifacts, inputVars, runVars, diskVars, readerVars, Close, Goto, Raise
  <1>10. ASSUME NEW p \in Runs, Replace(p) PROVE ReadersSeeWholeArtifacts'
    BY <1>10, <1>a DEF TypeOK, InstalledInv, ReaderInv, ReadersSeeWholeArtifacts, inputVars, runVars, diskVars, readerVars, Replace, Goto, Raise
  <1>11. ASSUME NEW p \in Runs, Cleanup(p) PROVE ReadersSeeWholeArtifacts'
    BY <1>11, <1>a DEF TypeOK, InstalledInv, ReaderInv, ReadersSeeWholeArtifacts, inputVars, runVars, diskVars, readerVars, Cleanup, Goto, Raise
  <1>12. ASSUME NEW p \in Runs, Exit(p) PROVE ReadersSeeWholeArtifacts'
    BY <1>12, <1>a DEF TypeOK, InstalledInv, ReaderInv, ReadersSeeWholeArtifacts, inputVars, runVars, diskVars, readerVars, Exit, Goto
  <1>13. ASSUME NEW p \in Runs, Kill(p) PROVE ReadersSeeWholeArtifacts'
    BY <1>13, <1>a DEF TypeOK, InstalledInv, ReaderInv, ReadersSeeWholeArtifacts, inputVars, runVars, diskVars, readerVars, Kill, Goto
  <1>14. ASSUME NEW r \in Readers, ReaderBegin(r) PROVE ReadersSeeWholeArtifacts'
    BY <1>14, <1>a DEF TypeOK, InstalledInv, ReaderInv, ReadersSeeWholeArtifacts, inputVars, runVars, diskVars, readerVars, ReaderBegin
  <1>15. ASSUME NEW r \in Readers, ReaderLstat(r) PROVE ReadersSeeWholeArtifacts'
    BY <1>15, <1>a DEF TypeOK, InstalledInv, ReaderInv, ReadersSeeWholeArtifacts, inputVars, runVars, diskVars, readerVars, ReaderLstat
  <1>16. ASSUME NEW r \in Readers, ReaderOpen(r) PROVE ReadersSeeWholeArtifacts'
    BY <1>16, <1>a DEF TypeOK, InstalledInv, ReaderInv, ReadersSeeWholeArtifacts, inputVars, runVars, diskVars, readerVars, ReaderOpen
  <1>17. ASSUME NEW r \in Readers, ReaderRead(r) PROVE ReadersSeeWholeArtifacts'
    BY <1>17, <1>a DEF TypeOK, InstalledInv, ReaderInv, ReadersSeeWholeArtifacts, inputVars, runVars, diskVars, readerVars, ReaderRead
  <1>18. ASSUME NEW r \in Editable, Edit(r) PROVE ReadersSeeWholeArtifacts'
    BY <1>18, <1>a DEF TypeOK, InstalledInv, ReaderInv, ReadersSeeWholeArtifacts, inputVars, runVars, diskVars, readerVars, Edit
  <1>19. ASSUME UNCHANGED vars PROVE ReadersSeeWholeArtifacts'
    BY <1>19, <1>a DEF TypeOK, InstalledInv, ReaderInv, ReadersSeeWholeArtifacts, inputVars, runVars, diskVars, readerVars, vars
  <1> QED
    BY <1>1, <1>2, <1>3, <1>4, <1>5, <1>6, <1>7, <1>8, <1>9, <1>10, <1>11, <1>12, <1>13, <1>14, <1>15, <1>16, <1>17, <1>18, <1>19 DEF Next, Step, ReaderStep

-----------------------------------------------------------------------------
(* Temporary files and exit codes.                                         *)

LEMMA TempsStep == Inv /\ [Next]_vars => TempsAreAccountedFor'
  <1> SUFFICES ASSUME Inv, [Next]_vars PROVE TempsAreAccountedFor'
    OBVIOUS
  <1>a. TypeOK /\ ProgressInv /\ InstalledInv /\ TempsAreAccountedFor
    BY DEF Inv
  <1> USE ConstantsAssumption
  <1>1. ASSUME NEW p \in Runs, Begin(p) PROVE TempsAreAccountedFor'
    BY <1>1, <1>a DEF TypeOK, ProgressInv, Progress, InstalledInv, TempsAreAccountedFor, Reading, Writing, Names, Inodes, inputVars, runVars, diskVars, readerVars, Begin, Goto
  <1>2. ASSUME NEW p \in Runs, BadArguments(p) PROVE TempsAreAccountedFor'
    BY <1>2, <1>a DEF TypeOK, ProgressInv, Progress, InstalledInv, TempsAreAccountedFor, Reading, Writing, Names, Inodes, inputVars, runVars, diskVars, readerVars, BadArguments, Raise
  <1>3. ASSUME NEW p \in Runs, NEW r \in Roles, Lstat(p, r) PROVE TempsAreAccountedFor'
    BY <1>3, <1>a DEF TypeOK, ProgressInv, Progress, InstalledInv, TempsAreAccountedFor, Reading, Writing, Names, Inodes, inputVars, runVars, diskVars, readerVars, Lstat, Goto, Raise
  <1>4. ASSUME NEW p \in Runs, NEW r \in Roles, Read(p, r) PROVE TempsAreAccountedFor'
    BY <1>4, <1>a DEF TypeOK, ProgressInv, Progress, InstalledInv, TempsAreAccountedFor, Reading, Writing, Names, Inodes, inputVars, runVars, diskVars, readerVars, Read, Goto, Raise
  <1>5. ASSUME NEW p \in Runs, Convert(p) PROVE TempsAreAccountedFor'
    BY <1>5, <1>a DEF TypeOK, ProgressInv, Progress, InstalledInv, TempsAreAccountedFor, Reading, Writing, Names, Inodes, inputVars, runVars, diskVars, readerVars, Convert, Goto, Raise
  <1>6. ASSUME NEW p \in Runs, Mkdir(p) PROVE TempsAreAccountedFor'
    BY <1>6, <1>a, SMTT(30) DEF TypeOK, ProgressInv, Progress, InstalledInv, TempsAreAccountedFor, Reading, Writing, Names, Inodes, inputVars, runVars, diskVars, readerVars, Mkdir, Goto, Raise
  <1>7. ASSUME NEW p \in Runs, Mkstemp(p) PROVE TempsAreAccountedFor'
    <2>1. /\ entry \in [Names -> Inodes \cup {None}] /\ pc \in [Runs -> Statements]
          /\ raised \in [Runs -> Exceptions] /\ temp \in [Runs -> TempNames \cup {None}]
      BY <1>a DEF TypeOK
    <2>2. pc[p] = "mkstemp" /\ temp[p] = None /\ exit' = exit
      BY <1>7, <1>a DEF Mkstemp, ProgressInv, Progress
    <2>3. \A m \in TempNames : entry[m] # p
      BY <1>a, <2>2 DEF TempsAreAccountedFor
    <2>4. \A r \in Runs \ {p} : pc'[r] = pc[r] /\ raised'[r] = raised[r] /\ temp'[r] = temp[r]
      BY <1>7, <2>1 DEF Mkstemp, Goto, Raise
    <2>5. CASE UNCHANGED entry
      BY <1>a, <2>2, <2>3, <2>4, <2>5 DEF TempsAreAccountedFor
    <2>6. ASSUME NEW n \in TempNames, entry' = [entry EXCEPT ![n] = p],
                 temp' = [temp EXCEPT ![p] = n], Goto(p, "write")
          PROVE  TempsAreAccountedFor'
      <3>1. temp'[p] = n /\ pc'[p] \in Writing
        BY <2>1, <2>6 DEF Goto, Writing
      <3>2. \A m \in TempNames : entry'[m] = IF m = n THEN p ELSE entry[m]
        BY <2>1, <2>6 DEF Names
      <3> QED
        BY <1>a, <2>2, <2>3, <2>4, <3>1, <3>2 DEF TempsAreAccountedFor
    <2> QED
      BY <1>7, <2>5, <2>6 DEF Mkstemp
  <1>8. ASSUME NEW p \in Runs, Flush(p) PROVE TempsAreAccountedFor'
    BY <1>8, <1>a DEF TypeOK, ProgressInv, Progress, InstalledInv, TempsAreAccountedFor, Reading, Writing, Names, Inodes, inputVars, runVars, diskVars, readerVars, Flush
  <1>9. ASSUME NEW p \in Runs, Close(p) PROVE TempsAreAccountedFor'
    <2>1. /\ entry \in [Names -> Inodes \cup {None}] /\ pc \in [Runs -> Statements]
          /\ raised \in [Runs -> Exceptions]
      BY <1>a DEF TypeOK
    <2>2. /\ pc[p] = "write" /\ entry' = entry /\ temp' = temp /\ exit' = exit
          /\ \/ pc' = [pc EXCEPT ![p] = "replace"] /\ raised' = raised
             \/ /\ pc' = [pc EXCEPT ![p] = "cleanup"]
                /\ \E e \in Exceptions : raised' = [raised EXCEPT ![p] = e]
      BY <1>9 DEF Close, Goto, Raise, Exceptions
    <2>3. pc'[p] \in Writing
      BY <2>1, <2>2 DEF Writing
    <2>4. \A r \in Runs \ {p} : pc'[r] = pc[r] /\ raised'[r] = raised[r]
      BY <2>1, <2>2
    <2> QED
      BY <1>a, <2>2, <2>3, <2>4 DEF TempsAreAccountedFor
  <1>10. ASSUME NEW p \in Runs, Replace(p) PROVE TempsAreAccountedFor'
    <2>1. /\ entry \in [Names -> Inodes \cup {None}] /\ pc \in [Runs -> Statements]
          /\ raised \in [Runs -> Exceptions]
      BY <1>a DEF TypeOK
    <2>2. /\ pc[p] = "replace" /\ temp[p] \in TempNames /\ entry[temp[p]] = p
          /\ temp' = temp /\ exit' = exit
      BY <1>10, <1>a DEF Replace, ProgressInv, Progress, Writing
    <2>3. CASE /\ entry' = entry /\ pc' = [pc EXCEPT ![p] = "cleanup"]
               /\ raised' = [raised EXCEPT ![p] = "OSError"]
      <3>1. pc'[p] \in Writing
        BY <2>1, <2>3 DEF Writing
      <3>2. \A r \in Runs \ {p} : pc'[r] = pc[r] /\ raised'[r] = raised[r]
        BY <2>1, <2>3
      <3> QED
        BY <1>a, <2>2, <2>3, <3>1, <3>2 DEF TempsAreAccountedFor
    <2>4. CASE /\ entry' = [entry EXCEPT ![OutputOf[p]] = entry[temp[p]], ![temp[p]] = None]
               /\ pc' = [pc EXCEPT ![p] = "return"] /\ raised' = raised
      <3>1. \A m \in TempNames : entry'[m] = IF m = temp[p] THEN None ELSE entry[m]
        BY <2>1, <2>2, <2>4 DEF Names
      <3>2. \A m \in TempNames : entry[m] = p => m = temp[p]
        BY <1>a DEF TempsAreAccountedFor
      <3>3. \A r \in Runs \ {p} : pc'[r] = pc[r]
        BY <2>1, <2>4
      <3> SUFFICES ASSUME NEW m \in TempNames, entry'[m] # None
                   PROVE  LET r == entry'[m]
                          IN /\ r \in Runs /\ temp'[r] = m
                             /\ \/ pc'[r] \in Writing \cup {"killed"}
                                \/ pc'[r] = "raised" /\ raised'[r] = "OSError"
                                \/ pc'[r] = "exited" /\ exit'[r] = 4
        BY DEF TempsAreAccountedFor
      <3>4. entry'[m] = entry[m] /\ entry[m] # p
        BY <3>1, <3>2
      <3> QED
        BY <1>a, <2>2, <2>4, <3>3, <3>4 DEF TempsAreAccountedFor
    <2> QED
      BY <1>10, <2>3, <2>4 DEF Replace, Goto, Raise
  <1>11. ASSUME NEW p \in Runs, Cleanup(p) PROVE TempsAreAccountedFor'
    <2>1. /\ entry \in [Names -> Inodes \cup {None}] /\ pc \in [Runs -> Statements]
          /\ raised \in [Runs -> Exceptions]
      BY <1>a DEF TypeOK
    <2>2. /\ pc[p] = "cleanup" /\ temp[p] \in TempNames /\ entry[temp[p]] = p
          /\ temp' = temp /\ exit' = exit
      BY <1>11, <1>a DEF Cleanup, ProgressInv, Progress, Writing
    <2>3. CASE /\ entry' = entry /\ pc' = [pc EXCEPT ![p] = "raised"]
               /\ raised' = [raised EXCEPT ![p] = "OSError"]
      <3>1. pc'[p] = "raised" /\ raised'[p] = "OSError"
        BY <2>1, <2>3
      <3>2. \A r \in Runs \ {p} : pc'[r] = pc[r] /\ raised'[r] = raised[r]
        BY <2>1, <2>3
      <3> QED
        BY <1>a, <2>2, <2>3, <3>1, <3>2 DEF TempsAreAccountedFor
    <2>4. CASE /\ entry' = [entry EXCEPT ![temp[p]] = None]
               /\ pc' = [pc EXCEPT ![p] = "raised"] /\ raised' = raised
      <3>1. \A m \in TempNames : entry'[m] = IF m = temp[p] THEN None ELSE entry[m]
        BY <2>1, <2>2, <2>4 DEF Names
      <3>2. \A m \in TempNames : entry[m] = p => m = temp[p]
        BY <1>a DEF TempsAreAccountedFor
      <3>3. \A r \in Runs \ {p} : pc'[r] = pc[r]
        BY <2>1, <2>4
      <3> QED
        BY <1>a, <2>2, <2>4, <3>1, <3>2, <3>3 DEF TempsAreAccountedFor
    <2> QED
      BY <1>11, <2>3, <2>4 DEF Cleanup, Goto, Raise
  <1>12. ASSUME NEW p \in Runs, Exit(p) PROVE TempsAreAccountedFor'
    BY <1>12, <1>a DEF TypeOK, ProgressInv, Progress, InstalledInv, TempsAreAccountedFor, Reading, Writing, Names, Inodes, inputVars, runVars, diskVars, readerVars, Exit, Goto, ExitCodeOf
  <1>13. ASSUME NEW p \in Runs, Kill(p) PROVE TempsAreAccountedFor'
    BY <1>13, <1>a DEF TypeOK, ProgressInv, Progress, InstalledInv, TempsAreAccountedFor, Reading, Writing, Names, Inodes, inputVars, runVars, diskVars, readerVars, Kill, Goto, Live
  <1>14. ASSUME NEW r \in Readers, ReaderBegin(r) PROVE TempsAreAccountedFor'
    BY <1>14, <1>a DEF TypeOK, ProgressInv, Progress, InstalledInv, TempsAreAccountedFor, Reading, Writing, Names, Inodes, inputVars, runVars, diskVars, readerVars, ReaderBegin
  <1>15. ASSUME NEW r \in Readers, ReaderLstat(r) PROVE TempsAreAccountedFor'
    BY <1>15, <1>a DEF TypeOK, ProgressInv, Progress, InstalledInv, TempsAreAccountedFor, Reading, Writing, Names, Inodes, inputVars, runVars, diskVars, readerVars, ReaderLstat
  <1>16. ASSUME NEW r \in Readers, ReaderOpen(r) PROVE TempsAreAccountedFor'
    BY <1>16, <1>a DEF TypeOK, ProgressInv, Progress, InstalledInv, TempsAreAccountedFor, Reading, Writing, Names, Inodes, inputVars, runVars, diskVars, readerVars, ReaderOpen
  <1>17. ASSUME NEW r \in Readers, ReaderRead(r) PROVE TempsAreAccountedFor'
    BY <1>17, <1>a DEF TypeOK, ProgressInv, Progress, InstalledInv, TempsAreAccountedFor, Reading, Writing, Names, Inodes, inputVars, runVars, diskVars, readerVars, ReaderRead
  <1>18. ASSUME NEW r \in Editable, Edit(r) PROVE TempsAreAccountedFor'
    BY <1>18, <1>a DEF TypeOK, ProgressInv, Progress, InstalledInv, TempsAreAccountedFor, Reading, Writing, Names, Inodes, inputVars, runVars, diskVars, readerVars, Edit
  <1>19. ASSUME UNCHANGED vars PROVE TempsAreAccountedFor'
    BY <1>19, <1>a DEF TypeOK, ProgressInv, Progress, InstalledInv, TempsAreAccountedFor, Reading, Writing, Names, Inodes, inputVars, runVars, diskVars, readerVars, vars
  <1> QED
    BY <1>1, <1>2, <1>3, <1>4, <1>5, <1>6, <1>7, <1>8, <1>9, <1>10, <1>11, <1>12, <1>13, <1>14, <1>15, <1>16, <1>17, <1>18, <1>19 DEF Next, Step, ReaderStep

LEMMA ExitStep == Inv /\ [Next]_vars => ExitTellsEffect'
  <1> SUFFICES ASSUME Inv, [Next]_vars PROVE ExitTellsEffect'
    OBVIOUS
  <1>a. TypeOK /\ ProgressInv /\ ExitTellsEffect
    BY DEF Inv
  <1> USE ConstantsAssumption
  <1>1. ASSUME NEW p \in Runs, Begin(p) PROVE ExitTellsEffect'
    BY <1>1, <1>a DEF TypeOK, ProgressInv, Progress, ExitTellsEffect, inputVars, runVars, diskVars, readerVars, Begin, Goto
  <1>2. ASSUME NEW p \in Runs, BadArguments(p) PROVE ExitTellsEffect'
    BY <1>2, <1>a DEF TypeOK, ProgressInv, Progress, ExitTellsEffect, inputVars, runVars, diskVars, readerVars, BadArguments, Raise
  <1>3. ASSUME NEW p \in Runs, NEW r \in Roles, Lstat(p, r) PROVE ExitTellsEffect'
    BY <1>3, <1>a DEF TypeOK, ProgressInv, Progress, ExitTellsEffect, inputVars, runVars, diskVars, readerVars, Lstat, Goto, Raise
  <1>4. ASSUME NEW p \in Runs, NEW r \in Roles, Read(p, r) PROVE ExitTellsEffect'
    BY <1>4, <1>a DEF TypeOK, ProgressInv, Progress, ExitTellsEffect, inputVars, runVars, diskVars, readerVars, Read, Goto, Raise
  <1>5. ASSUME NEW p \in Runs, Convert(p) PROVE ExitTellsEffect'
    BY <1>5, <1>a DEF TypeOK, ProgressInv, Progress, ExitTellsEffect, inputVars, runVars, diskVars, readerVars, Convert, Goto, Raise
  <1>6. ASSUME NEW p \in Runs, Mkdir(p) PROVE ExitTellsEffect'
    BY <1>6, <1>a DEF TypeOK, ProgressInv, Progress, ExitTellsEffect, inputVars, runVars, diskVars, readerVars, Mkdir, Goto, Raise
  <1>7. ASSUME NEW p \in Runs, Mkstemp(p) PROVE ExitTellsEffect'
    BY <1>7, <1>a DEF TypeOK, ProgressInv, Progress, ExitTellsEffect, inputVars, runVars, diskVars, readerVars, Mkstemp, Goto, Raise
  <1>8. ASSUME NEW p \in Runs, Flush(p) PROVE ExitTellsEffect'
    BY <1>8, <1>a DEF TypeOK, ProgressInv, Progress, ExitTellsEffect, inputVars, runVars, diskVars, readerVars, Flush
  <1>9. ASSUME NEW p \in Runs, Close(p) PROVE ExitTellsEffect'
    BY <1>9, <1>a DEF TypeOK, ProgressInv, Progress, ExitTellsEffect, inputVars, runVars, diskVars, readerVars, Close, Goto, Raise
  <1>10. ASSUME NEW p \in Runs, Replace(p) PROVE ExitTellsEffect'
    BY <1>10, <1>a DEF TypeOK, ProgressInv, Progress, ExitTellsEffect, inputVars, runVars, diskVars, readerVars, Replace, Goto, Raise
  <1>11. ASSUME NEW p \in Runs, Cleanup(p) PROVE ExitTellsEffect'
    BY <1>11, <1>a DEF TypeOK, ProgressInv, Progress, ExitTellsEffect, inputVars, runVars, diskVars, readerVars, Cleanup, Goto, Raise
  <1>12. ASSUME NEW p \in Runs, Exit(p) PROVE ExitTellsEffect'
    BY <1>12, <1>a DEF TypeOK, ProgressInv, Progress, ExitTellsEffect, inputVars, runVars, diskVars, readerVars, Exit, Goto, ExitCodeOf
  <1>13. ASSUME NEW p \in Runs, Kill(p) PROVE ExitTellsEffect'
    BY <1>13, <1>a DEF TypeOK, ProgressInv, Progress, ExitTellsEffect, inputVars, runVars, diskVars, readerVars, Kill, Goto
  <1>14. ASSUME NEW r \in Readers, ReaderBegin(r) PROVE ExitTellsEffect'
    BY <1>14, <1>a DEF TypeOK, ProgressInv, Progress, ExitTellsEffect, inputVars, runVars, diskVars, readerVars, ReaderBegin
  <1>15. ASSUME NEW r \in Readers, ReaderLstat(r) PROVE ExitTellsEffect'
    BY <1>15, <1>a DEF TypeOK, ProgressInv, Progress, ExitTellsEffect, inputVars, runVars, diskVars, readerVars, ReaderLstat
  <1>16. ASSUME NEW r \in Readers, ReaderOpen(r) PROVE ExitTellsEffect'
    BY <1>16, <1>a DEF TypeOK, ProgressInv, Progress, ExitTellsEffect, inputVars, runVars, diskVars, readerVars, ReaderOpen
  <1>17. ASSUME NEW r \in Readers, ReaderRead(r) PROVE ExitTellsEffect'
    BY <1>17, <1>a DEF TypeOK, ProgressInv, Progress, ExitTellsEffect, inputVars, runVars, diskVars, readerVars, ReaderRead
  <1>18. ASSUME NEW r \in Editable, Edit(r) PROVE ExitTellsEffect'
    BY <1>18, <1>a DEF TypeOK, ProgressInv, Progress, ExitTellsEffect, inputVars, runVars, diskVars, readerVars, Edit
  <1>19. ASSUME UNCHANGED vars PROVE ExitTellsEffect'
    BY <1>19, <1>a DEF TypeOK, ProgressInv, Progress, ExitTellsEffect, inputVars, runVars, diskVars, readerVars, vars
  <1> QED
    BY <1>1, <1>2, <1>3, <1>4, <1>5, <1>6, <1>7, <1>8, <1>9, <1>10, <1>11, <1>12, <1>13, <1>14, <1>15, <1>16, <1>17, <1>18, <1>19 DEF Next, Step, ReaderStep

-----------------------------------------------------------------------------
(* The theorems.                                                           *)

LEMMA InvInit == Init => Inv
  <1> SUFFICES ASSUME Init PROVE Inv
    OBVIOUS
  <1> USE ConstantsAssumption
  <1>1. TypeOK
    BY TypeInit
  <1>2. ProgressInv /\ AcceptedInv /\ ReaderInv /\ ExitTellsEffect /\ ReadersSeeWholeArtifacts
    <2>1. ASSUME NEW p \in Runs
          PROVE  /\ pc[p] = "idle" /\ blame[p] = "none" /\ temp[p] = None /\ data[p] = "none"
                 /\ exit[p] = None /\ p \notin installed
                 /\ \A r \in Roles : got[p][r] = None
      BY DEF Init, Inodes
    <2>2. ASSUME NEW r \in Readers
          PROVE  rpc[r] = "idle" /\ held[r] = None /\ seen[r] = None
      BY DEF Init
    <2>3. ProgressInv
      BY <2>1 DEF ProgressInv, Progress, Writing
    <2>4. AcceptedInv
      BY <2>1 DEF AcceptedInv, AcceptedSoFar, Writing
    <2> QED
      BY <2>1, <2>2, <2>3, <2>4 DEF ReaderInv, ExitTellsEffect, ReadersSeeWholeArtifacts
  <1>3. InstalledInv /\ TempsAreAccountedFor
    <2>1. /\ \A o \in Outputs : entry[o] # None => entry[o] = o
          /\ \A n \in TempNames : entry[n] = None
      BY DEF Init, Names
    <2>2. \A i \in installed \cup Outputs : data[i] = "whole"
      BY DEF Init, Inodes
    <2>3. installed = {}
      BY DEF Init
    <2> QED
      BY <2>1, <2>2, <2>3 DEF InstalledInv, TempsAreAccountedFor
  <1> QED
    BY <1>1, <1>2, <1>3 DEF Inv

LEMMA InvStep == Inv /\ [Next]_vars => Inv'
  BY TypeStep, ProgressStep, AcceptedStep, InstalledStep, ReaderInvStep, SeenStep,
     TempsStep, ExitStep
  DEF Inv

\* The inductive invariant holds of every behaviour, whatever the runs, the
\* readers, the paths and the edits: everything below follows from it.
THEOREM Invariance == Safety => []Inv
  BY InvInit, InvStep, PTL DEF Safety

\* Every variable keeps its type.
THEOREM TypeCorrect == Safety => []TypeOK
  <1>1. Inv => TypeOK
    BY DEF Inv
  <1> QED
    BY <1>1, Invariance, PTL

\* An artifact path names a completely written document in every state, also
\* in those a crash of any run leaves behind.
THEOREM ArtifactsWhole == Safety => []ArtifactsAreWhole
  <1>1. Inv => ArtifactsAreWhole
    BY DEF Inv, InstalledInv, ArtifactsAreWhole
  <1> QED
    BY <1>1, Invariance, PTL

\* Every artifact that replaced another is that of a run whose parsed inputs
\* the converter had accepted.
THEOREM ArtifactsAccepted == Safety => []ArtifactsAreAccepted
  <1>1. Inv => ArtifactsAreAccepted
    BY ConstantsAssumption
    DEF Inv, InstalledInv, AcceptedInv, AcceptedSoFar, ArtifactsAreAccepted, TypeOK
  <1> QED
    BY <1>1, Invariance, PTL

\* No temporary file is left behind but by a kill or under exit code 4.
THEOREM TempsAccounted == Safety => []TempsAreAccountedFor
  <1>1. Inv => TempsAreAccountedFor
    BY DEF Inv
  <1> QED
    BY <1>1, Invariance, PTL

\* Exit code 0 is reported exactly by the runs that installed their artifact.
THEOREM ExitCodesTruthful == Safety => []ExitTellsEffect
  <1>1. Inv => ExitTellsEffect
    BY DEF Inv
  <1> QED
    BY <1>1, Invariance, PTL

\* A reader never gets part of a document.
THEOREM ReadersWhole == Safety => []ReadersSeeWholeArtifacts
  <1>1. Inv => ReadersSeeWholeArtifacts
    BY DEF Inv
  <1> QED
    BY <1>1, Invariance, PTL

-----------------------------------------------------------------------------
(* What a step may do to the artifact paths.                               *)

LEMMA ChangeStep == Inv /\ [Next]_vars => ArtifactChange \/ UNCHANGED vars
  <1> SUFFICES ASSUME Inv, [Next]_vars PROVE ArtifactChange \/ UNCHANGED vars
    OBVIOUS
  <1>a. /\ entry \in [Names -> Inodes \cup {None}] /\ data \in [Inodes -> Portions]
        /\ installed \cup Outputs \subseteq Inodes /\ ProgressInv
    BY DEF Inv, TypeOK, Inodes
  <1> USE ConstantsAssumption
  <1>1. ASSUME NEW p \in Runs, Begin(p) PROVE ArtifactChange
    BY <1>1, <1>a DEF ArtifactChange, ProgressInv, Progress, Writing, Names, Inodes, inputVars, runVars, diskVars, readerVars, Begin, Goto
  <1>2. ASSUME NEW p \in Runs, BadArguments(p) PROVE ArtifactChange
    BY <1>2, <1>a DEF ArtifactChange, ProgressInv, Progress, Writing, Names, Inodes, inputVars, runVars, diskVars, readerVars, BadArguments, Raise
  <1>3. ASSUME NEW p \in Runs, NEW r \in Roles, Lstat(p, r) PROVE ArtifactChange
    BY <1>3, <1>a DEF ArtifactChange, ProgressInv, Progress, Writing, Names, Inodes, inputVars, runVars, diskVars, readerVars, Lstat, Goto, Raise
  <1>4. ASSUME NEW p \in Runs, NEW r \in Roles, Read(p, r) PROVE ArtifactChange
    BY <1>4, <1>a DEF ArtifactChange, ProgressInv, Progress, Writing, Names, Inodes, inputVars, runVars, diskVars, readerVars, Read, Goto, Raise
  <1>5. ASSUME NEW p \in Runs, Convert(p) PROVE ArtifactChange
    BY <1>5, <1>a DEF ArtifactChange, ProgressInv, Progress, Writing, Names, Inodes, inputVars, runVars, diskVars, readerVars, Convert, Goto, Raise
  <1>6. ASSUME NEW p \in Runs, Mkdir(p) PROVE ArtifactChange
    BY <1>6, <1>a DEF ArtifactChange, ProgressInv, Progress, Writing, Names, Inodes, inputVars, runVars, diskVars, readerVars, Mkdir, Goto, Raise
  <1>7. ASSUME NEW p \in Runs, Mkstemp(p) PROVE ArtifactChange
    BY <1>7, <1>a DEF ArtifactChange, ProgressInv, Progress, Writing, Names, Inodes, inputVars, runVars, diskVars, readerVars, Mkstemp, Goto, Raise
  <1>8. ASSUME NEW p \in Runs, Flush(p) PROVE ArtifactChange
    <2>1. p \notin installed \cup Outputs /\ entry' = entry
      BY <1>8, <1>a DEF Flush, ProgressInv, Progress, Writing
    <2>2. data' = [data EXCEPT ![p] = "partial"]
      BY <1>8 DEF Flush
    <2>3. \A i \in installed \cup Outputs : data'[i] = data[i]
      BY <1>a, <2>1, <2>2
    <2> QED
      BY <2>1, <2>3 DEF ArtifactChange
  <1>9. ASSUME NEW p \in Runs, Close(p) PROVE ArtifactChange
    <2>1. p \notin installed \cup Outputs /\ entry' = entry
      BY <1>9, <1>a DEF Close, ProgressInv, Progress, Writing
    <2>2. data' = data \/ data' = [data EXCEPT ![p] = "whole"]
      BY <1>9 DEF Close
    <2>3. \A i \in installed \cup Outputs : data'[i] = data[i]
      BY <1>a, <2>1, <2>2
    <2> QED
      BY <2>1, <2>3 DEF ArtifactChange
  <1>10. ASSUME NEW p \in Runs, Replace(p) PROVE ArtifactChange
    BY <1>10, <1>a DEF ArtifactChange, ProgressInv, Progress, Writing, Names, Inodes, inputVars, runVars, diskVars, readerVars, Replace, Goto, Raise
  <1>11. ASSUME NEW p \in Runs, Cleanup(p) PROVE ArtifactChange
    <2>1. temp[p] \in TempNames /\ data' = data
      BY <1>11, <1>a DEF Cleanup, ProgressInv, Progress, Writing
    <2>2. entry' = entry \/ entry' = [entry EXCEPT ![temp[p]] = None]
      BY <1>11 DEF Cleanup
    <2>3. \A o \in Outputs : entry'[o] = entry[o]
      BY <1>a, <2>1, <2>2 DEF Names
    <2> QED
      BY <2>1, <2>3 DEF ArtifactChange
  <1>12. ASSUME NEW p \in Runs, Exit(p) PROVE ArtifactChange
    BY <1>12, <1>a DEF ArtifactChange, ProgressInv, Progress, Writing, Names, Inodes, inputVars, runVars, diskVars, readerVars, Exit, Goto
  <1>13. ASSUME NEW p \in Runs, Kill(p) PROVE ArtifactChange
    BY <1>13, <1>a DEF ArtifactChange, ProgressInv, Progress, Writing, Names, Inodes, inputVars, runVars, diskVars, readerVars, Kill, Goto
  <1>14. ASSUME NEW r \in Readers, ReaderBegin(r) PROVE ArtifactChange
    BY <1>14, <1>a DEF ArtifactChange, ProgressInv, Progress, Writing, Names, Inodes, inputVars, runVars, diskVars, readerVars, ReaderBegin
  <1>15. ASSUME NEW r \in Readers, ReaderLstat(r) PROVE ArtifactChange
    BY <1>15, <1>a DEF ArtifactChange, ProgressInv, Progress, Writing, Names, Inodes, inputVars, runVars, diskVars, readerVars, ReaderLstat
  <1>16. ASSUME NEW r \in Readers, ReaderOpen(r) PROVE ArtifactChange
    BY <1>16, <1>a DEF ArtifactChange, ProgressInv, Progress, Writing, Names, Inodes, inputVars, runVars, diskVars, readerVars, ReaderOpen
  <1>17. ASSUME NEW r \in Readers, ReaderRead(r) PROVE ArtifactChange
    BY <1>17, <1>a DEF ArtifactChange, ProgressInv, Progress, Writing, Names, Inodes, inputVars, runVars, diskVars, readerVars, ReaderRead
  <1>18. ASSUME NEW r \in Editable, Edit(r) PROVE ArtifactChange
    BY <1>18, <1>a DEF ArtifactChange, ProgressInv, Progress, Writing, Names, Inodes, inputVars, runVars, diskVars, readerVars, Edit
  <1> QED
    BY <1>1, <1>2, <1>3, <1>4, <1>5, <1>6, <1>7, <1>8, <1>9, <1>10, <1>11, <1>12, <1>13, <1>14, <1>15, <1>16, <1>17, <1>18 DEF Next, Step, ReaderStep

\* The artifact paths change only when a run installs its own whole document,
\* for the first time, and no installed document is written to again.
THEOREM OnlyReplaceChanges == Safety => OnlyReplaceChangesArtifacts
  <1>1. Inv /\ [Next]_vars => [ArtifactChange]_vars
    BY ChangeStep
  <1> QED
    BY <1>1, Invariance, PTL DEF Safety, OnlyReplaceChangesArtifacts

-----------------------------------------------------------------------------
(* The refinement: AtomicOutput is implemented, os.replace being Publish   *)
(* and the open of a reader being Obtain.                                  *)

Quiet ==
  /\ \A q \in Runs : StatusOf(q)' = StatusOf(q)
  /\ \A o \in Outputs : entry'[o] = entry[o]
  /\ held' = held

PendingStatements == {"mkdir", "mkstemp", "raised"} \cup Reading \cup Writing

LEMMA WholeDocuments ==
  ASSUME Inv
  PROVE  /\ \A o \in Outputs : Document(entry[o]) = entry[o]
         /\ \A r \in Readers : Document(held[r]) = held[r]
  BY ConstantsAssumption DEF Inv, InstalledInv, ReaderInv, Document

LEMMA PendingStatus ==
  ASSUME NEW p \in Runs, pc[p] \in PendingStatements
  PROVE  StatusOf(p) = "pending"
  BY DEF StatusOf, PendingStatements, Reading, Writing

LEMMA RefinementInit == Init /\ Inv => Abstract!Init
  <1> SUFFICES ASSUME Init, Inv PROVE Abstract!Init
    OBVIOUS
  <1>1. \A o \in Outputs : entry[o] \in {None, o}
    BY DEF Init, Names
  <1>2. \A p \in Runs : StatusOf(p) = "idle"
    BY DEF Init, StatusOf
  <1>3. \A r \in Readers : held[r] = None
    BY DEF Init
  <1> QED
    BY <1>1, <1>2, <1>3, WholeDocuments DEF Abstract!Init

LEMMA RefinementStep ==
  ASSUME Inv, Inv', [Next]_vars
  PROVE  Abstract!Next \/ UNCHANGED Abstract!vars
  <1> DEFINE artifact == [o \in Outputs |-> Document(entry[o])]
             status == [p \in Runs |-> StatusOf(p)]
             view == [r \in Readers |-> Document(held[r])]
  <1>a. /\ artifact = [o \in Outputs |-> entry[o]]
        /\ artifact' = [o \in Outputs |-> entry'[o]]
        /\ view = [r \in Readers |-> held[r]]
        /\ view' = [r \in Readers |-> held'[r]]
    <2>1. /\ \A o \in Outputs : Document(entry[o]) = entry[o]
          /\ \A r \in Readers : Document(held[r]) = held[r]
      BY WholeDocuments
    <2>2. /\ \A o \in Outputs : Document(entry[o])' = entry'[o]
          /\ \A r \in Readers : Document(held[r])' = held'[r]
      BY ConstantsAssumption DEF Inv, InstalledInv, ReaderInv, Document
    <2> QED
      BY <2>1, <2>2
  <1>b. /\ pc \in [Runs -> Statements] /\ entry \in [Names -> Inodes \cup {None}]
        /\ held \in [Readers -> Inodes \cup {None}] /\ exit \in [Runs -> 0..4 \cup {None}]
        /\ ProgressInv /\ ReaderInv
    BY DEF Inv, TypeOK
  <1>c. ASSUME Quiet PROVE UNCHANGED Abstract!vars
    BY <1>a, <1>c DEF Quiet, Abstract!vars
  <1>d. ASSUME NEW p \in Runs, NEW to \in Statements, pc' = [pc EXCEPT ![p] = to],
               exit' = exit
        PROVE  \A q \in Runs \ {p} : StatusOf(q)' = StatusOf(q)
    BY <1>b, <1>d DEF StatusOf
  <1>e. {"idle", "lstat", "read", "convert", "mkdir", "mkstemp", "write", "replace",
         "cleanup", "raised", "return", "exited", "killed"} \subseteq Statements
    BY DEF Statements, Live, Reading, Writing, Finished
  <1>f. ASSUME NEW p \in Runs, NEW to \in PendingStatements, pc[p] \in PendingStatements,
               pc' = [pc EXCEPT ![p] = to], exit' = exit, held' = held,
               \A o \in Outputs : entry'[o] = entry[o]
        PROVE  Quiet
    <2>1. to \in Statements /\ pc'[p] = to
      BY <1>b, <1>f DEF PendingStatements, Statements, Live
    <2>2. StatusOf(p)' = StatusOf(p)
      BY <1>f, <2>1 DEF StatusOf, PendingStatements, Reading, Writing
    <2> QED
      BY <1>d, <1>f, <2>1, <2>2 DEF Quiet
  <1>1. ASSUME NEW p \in Runs, Begin(p) \/ BadArguments(p) PROVE Abstract!Begin(p)
    <2>1. /\ pc[p] = "idle" /\ exit' = exit /\ held' = held /\ entry' = entry
          /\ \E to \in {"lstat", "raised"} : pc' = [pc EXCEPT ![p] = to]
      BY <1>1 DEF Begin, BadArguments, Goto, Raise, readerVars, diskVars
    <2>2. status[p] = "idle" /\ status'[p] = "pending"
      BY <1>b, <2>1 DEF StatusOf
    <2>3. status' = [status EXCEPT ![p] = "pending"]
      BY <1>d, <1>e, <2>1, <2>2
    <2> QED
      BY <1>a, <2>1, <2>2, <2>3 DEF Abstract!Begin
  <1>2. ASSUME NEW p \in Runs, NEW r \in Roles, Lstat(p, r) PROVE Quiet
    <2>1. /\ pc[p] \in PendingStatements /\ exit' = exit /\ held' = held
          /\ \E to \in PendingStatements : pc' = [pc EXCEPT ![p] = to]
      BY <1>2 DEF Lstat, Goto, Raise, readerVars, PendingStatements, Reading, Writing
    <2>2. \A o \in Outputs : entry'[o] = entry[o]
      BY <1>2 DEF Lstat, diskVars
    <2> QED
      BY <1>f, <2>1, <2>2
  <1>3. ASSUME NEW p \in Runs, NEW r \in Roles, Read(p, r) PROVE Quiet
    <2>1. /\ pc[p] \in PendingStatements /\ exit' = exit /\ held' = held
          /\ \E to \in PendingStatements : pc' = [pc EXCEPT ![p] = to]
      BY <1>3 DEF Read, Goto, Raise, readerVars, PendingStatements, Reading, Writing
    <2>2. \A o \in Outputs : entry'[o] = entry[o]
      BY <1>3 DEF Read, diskVars
    <2> QED
      BY <1>f, <2>1, <2>2
  <1>4. ASSUME NEW p \in Runs, Convert(p) PROVE Quiet
    <2>1. /\ pc[p] \in PendingStatements /\ exit' = exit /\ held' = held
          /\ \E to \in PendingStatements : pc' = [pc EXCEPT ![p] = to]
      BY <1>4 DEF Convert, Goto, Raise, readerVars, PendingStatements, Reading, Writing
    <2>2. \A o \in Outputs : entry'[o] = entry[o]
      BY <1>4 DEF Convert, diskVars
    <2> QED
      BY <1>f, <2>1, <2>2
  <1>5. ASSUME NEW p \in Runs, Mkdir(p) PROVE Quiet
    <2>1. /\ pc[p] \in PendingStatements /\ exit' = exit /\ held' = held
          /\ \E to \in PendingStatements : pc' = [pc EXCEPT ![p] = to]
      BY <1>5 DEF Mkdir, Goto, Raise, readerVars, PendingStatements, Reading, Writing
    <2>2. \A o \in Outputs : entry'[o] = entry[o]
      BY <1>5 DEF Mkdir, diskVars
    <2> QED
      BY <1>f, <2>1, <2>2
  <1>6. ASSUME NEW p \in Runs, Mkstemp(p) PROVE Quiet
    <2>1. /\ pc[p] \in PendingStatements /\ exit' = exit /\ held' = held
          /\ \E to \in PendingStatements : pc' = [pc EXCEPT ![p] = to]
      BY <1>6 DEF Mkstemp, Goto, Raise, readerVars, PendingStatements, Reading, Writing
    <2>2. \A o \in Outputs : entry'[o] = entry[o]
      BY <1>6, <1>b, ConstantsAssumption DEF Mkstemp, diskVars, Names, ProgressInv, Progress, Writing
    <2> QED
      BY <1>f, <2>1, <2>2
  <1>7. ASSUME NEW p \in Runs, Flush(p) PROVE Quiet
    BY <1>7 DEF Flush, Quiet, runVars, readerVars, StatusOf
  <1>8. ASSUME NEW p \in Runs, Close(p) PROVE Quiet
    <2>1. /\ pc[p] \in PendingStatements /\ exit' = exit /\ held' = held
          /\ \E to \in PendingStatements : pc' = [pc EXCEPT ![p] = to]
      BY <1>8 DEF Close, Goto, Raise, readerVars, PendingStatements, Reading, Writing
    <2>2. \A o \in Outputs : entry'[o] = entry[o]
      BY <1>8 DEF Close, diskVars
    <2> QED
      BY <1>f, <2>1, <2>2
  <1>9. ASSUME NEW p \in Runs, Replace(p) PROVE Abstract!Publish(p) \/ Quiet
    <2>1. /\ pc[p] = "replace" /\ exit' = exit /\ held' = held
          /\ temp[p] \in TempNames /\ entry[temp[p]] = p
      BY <1>b, <1>9 DEF Replace, readerVars, ProgressInv, Progress, Writing
    <2>2. CASE pc' = [pc EXCEPT ![p] = "cleanup"] /\ entry' = entry
      BY <1>f, <2>1, <2>2 DEF PendingStatements, Writing
    <2>3. CASE /\ pc' = [pc EXCEPT ![p] = "return"]
               /\ entry' = [entry EXCEPT ![OutputOf[p]] = entry[temp[p]], ![temp[p]] = None]
      <3>1. status[p] = "pending" /\ status'[p] = "published"
        BY <1>b, <2>1, <2>3 DEF StatusOf
      <3>2. status' = [status EXCEPT ![p] = "published"]
        BY <1>d, <1>e, <2>1, <2>3, <3>1
      <3>3. \A o \in Outputs : entry'[o] = IF o = OutputOf[p] THEN p ELSE entry[o]
        BY <1>b, <2>1, <2>3, ConstantsAssumption DEF Names
      <3>4. artifact' = [artifact EXCEPT ![OutputOf[p]] = p]
        BY <1>a, <3>3, ConstantsAssumption, ZenonT(30)
      <3> QED
        BY <1>a, <2>1, <3>1, <3>2, <3>4 DEF Abstract!Publish
    <2> QED
      BY <1>9, <2>2, <2>3 DEF Replace, Goto, Raise
  <1>10. ASSUME NEW p \in Runs, Cleanup(p) PROVE Quiet
    <2>1. /\ pc[p] \in PendingStatements /\ exit' = exit /\ held' = held
          /\ \E to \in PendingStatements : pc' = [pc EXCEPT ![p] = to]
      BY <1>10 DEF Cleanup, Goto, Raise, readerVars, PendingStatements, Reading, Writing
    <2>2. \A o \in Outputs : entry'[o] = entry[o]
      BY <1>10, <1>b, ConstantsAssumption DEF Cleanup, diskVars, Names, ProgressInv, Progress, Writing
    <2> QED
      BY <1>f, <2>1, <2>2
  <1>11. ASSUME NEW p \in Runs, Exit(p) PROVE Abstract!Succeed(p) \/ Abstract!Fail(p)
    <2>1. /\ pc' = [pc EXCEPT ![p] = "exited"] /\ held' = held /\ entry' = entry
          /\ \/ pc[p] = "raised" /\ \E code \in 1..4 : exit' = [exit EXCEPT ![p] = code]
             \/ pc[p] = "return" /\ exit' = [exit EXCEPT ![p] = 0]
      BY <1>11 DEF Exit, Goto, readerVars, diskVars, ExitCodeOf
    <2>2. \A q \in Runs \ {p} : StatusOf(q)' = StatusOf(q)
      BY <1>b, <2>1 DEF StatusOf
    <2>3. CASE pc[p] = "raised"
      <3>1. status[p] = "pending" /\ status'[p] = "failed"
        BY <1>b, <2>1, <2>3 DEF StatusOf
      <3> QED
        BY <1>a, <2>1, <2>2, <3>1 DEF Abstract!Fail
    <2>4. CASE pc[p] = "return"
      <3>1. status[p] = "published" /\ status'[p] = "ok"
        BY <1>b, <2>1, <2>4 DEF StatusOf
      <3> QED
        BY <1>a, <2>1, <2>2, <3>1 DEF Abstract!Succeed
    <2> QED
      BY <2>1, <2>3, <2>4
  <1>12. ASSUME NEW p \in Runs, Kill(p) PROVE Abstract!Die(p)
    <2>1. /\ pc' = [pc EXCEPT ![p] = "killed"] /\ held' = held /\ entry' = entry
          /\ exit' = exit /\ pc[p] \in Live
      BY <1>12 DEF Kill, Goto, readerVars, diskVars
    <2>2. status[p] \in {"pending", "published"} /\ status'[p] = "killed"
      BY <1>b, <2>1 DEF StatusOf, Live, Reading, Writing
    <2>3. status' = [status EXCEPT ![p] = "killed"]
      BY <1>d, <1>e, <2>1, <2>2
    <2> QED
      BY <1>a, <2>1, <2>2, <2>3 DEF Abstract!Die
  <1>13. ASSUME NEW r \in Readers, ReaderBegin(r) \/ ReaderLstat(r) \/ ReaderRead(r) PROVE Quiet
    BY <1>13 DEF ReaderBegin, ReaderLstat, ReaderRead, Quiet, runVars, diskVars, StatusOf
  <1>14. ASSUME NEW r \in Readers, ReaderOpen(r) PROVE Abstract!Obtain(r) \/ Quiet
    <2>1. pc' = pc /\ exit' = exit /\ entry' = entry /\ held[r] = None
      BY <1>b, <1>14 DEF ReaderOpen, runVars, diskVars, ReaderInv
    <2>2. status' = status
      BY <2>1 DEF StatusOf
    <2>3. CASE held' = held
      BY <2>1, <2>3 DEF Quiet, StatusOf
    <2>4. CASE entry[Reads[r]] # None /\ held' = [held EXCEPT ![r] = entry[Reads[r]]]
      <3>1. Reads[r] \in Outputs
        BY ConstantsAssumption
      <3>2. view' = [view EXCEPT ![r] = artifact[Reads[r]]]
        BY <1>a, <1>b, <2>4, <3>1
      <3> QED
        BY <1>a, <2>1, <2>2, <2>4, <3>1, <3>2 DEF Abstract!Obtain
    <2> QED
      BY <1>14, <2>3, <2>4 DEF ReaderOpen
  <1>15. ASSUME NEW r \in Editable, Edit(r) PROVE Quiet
    BY <1>15 DEF Edit, Quiet, runVars, diskVars, readerVars, StatusOf
  <1>16. CASE UNCHANGED vars
    BY <1>16, <1>c DEF Quiet, vars, runVars, diskVars, readerVars, StatusOf
  <1>17. ASSUME NEW p \in Runs, Begin(p) \/ BadArguments(p) \/ Step(p) \/ Kill(p)
         PROVE  Quiet \/ Abstract!Begin(p) \/ Abstract!Settle(p)
    BY <1>17, <1>1, <1>2, <1>3, <1>4, <1>5, <1>6, <1>7, <1>8, <1>9, <1>10, <1>11, <1>12
    DEF Step, Abstract!Settle
  <1>18. ASSUME NEW r \in Readers, ReaderBegin(r) \/ ReaderStep(r)
         PROVE  Quiet \/ Abstract!Obtain(r)
    BY <1>18, <1>13, <1>14 DEF ReaderStep
  <1>19. CASE Next
    BY <1>19, <1>15, <1>17, <1>18, <1>c DEF Next, Abstract!Next
  <1> QED
    BY <1>16, <1>19

\* The protocol of temporary file, close, replace and cleanup implements the
\* atomic publication of AtomicOutput: initial states map to initial states and
\* every step to a step or a stutter.  The fairness of AtomicOutput is checked
\* by TLC alone.
THEOREM Refinement == Safety => Abstract!Safety
  <1>1. Init => Abstract!Init
    BY InvInit, RefinementInit
  <1>2. Inv /\ Inv' /\ [Next]_vars => [Abstract!Next]_(Abstract!vars)
    BY RefinementStep
  <1> QED
    BY <1>1, <1>2, Invariance, PTL DEF Safety, Abstract!Safety

-----------------------------------------------------------------------------
(* What a run tells its caller about the cause of a failure, and what a run *)
(* that fails on its inputs leaves undone.  Both are invariants over Inv.   *)

(* Which side of the program raised the exception that is in flight, or    *)
(* that ended the run: only the parser of arguments raises a UsageError,   *)
(* no output operation an OvalInputError, and no reader of an OVAL command *)
(* an OSError.                                                             *)
Blame(p) ==
  /\ pc[p] \notin {"raised", "cleanup"} \cup Finished => raised[p] = "none"
  /\ raised[p] = "none" <=> blame[p] = "none"
  /\ raised[p] = "UsageError" => blame[p] = "usage"
  /\ raised[p] = "OvalInputError" => blame[p] = "input"
  /\ raised[p] = "OSError" /\ Command[p] \in OvalCommands => blame[p] \in {"output", "installation"}
  /\ exit[p] \notin {None, 0} => exit[p] = ExitCodeOf(raised[p])

BlameInv == \A p \in Runs : Blame(p)

(* A run that has not come to its output, or never will.                   *)
Early(p) == pc[p] \in {"idle"} \cup Reading \/ blame[p] \in {"usage", "input", "installation"}

ParentInv == (\A p \in Runs : Early(p)) => parent = ParentExists

-----------------------------------------------------------------------------
(* Exceptions and exit codes.                                              *)

LEMMA BlameInit == Init => BlameInv
  <1> SUFFICES ASSUME Init, NEW p \in Runs PROVE Blame(p)
    BY DEF BlameInv
  <1>1. pc[p] = "idle" /\ raised[p] = "none" /\ blame[p] = "none" /\ exit[p] = None
    BY DEF Init
  <1> QED
    BY <1>1 DEF Blame, Finished

\* The commands that read OVAL files read no file whose reader lets an OSError
\* through, and their converters raise none.
LEMMA OvalReaders ==
  ASSUME NEW p \in Runs, Command[p] \in OvalCommands
  PROVE  /\ \A r \in Needs(p) : LstatError(r) = "OvalInputError" /\ ReadError(r) = "OvalInputError"
         /\ Verdict(p) # "OSError"
  BY DEF OvalCommands, Needs, LstatError, ReadError, Verdict

LEMMA BlameStep == Inv /\ BlameInv /\ [Next]_vars => BlameInv'
  <1> SUFFICES ASSUME Inv, BlameInv, [Next]_vars, NEW q \in Runs PROVE Blame(q)'
    BY DEF BlameInv
  <1>a. /\ pc \in [Runs -> Statements] /\ raised \in [Runs -> Exceptions]
        /\ blame \in [Runs -> Sides] /\ exit \in [Runs -> {0, 1, 2, 3, 4} \cup {None}]
        /\ ProgressInv
    BY DEF Inv, TypeOK
  <1>b. Blame(q)
    BY DEF BlameInv
  <1>c. Progress(q)
    BY <1>a DEF ProgressInv
  <1>1. ASSUME NEW p \in Runs, Begin(p) PROVE Blame(q)'
    BY <1>1, <1>a, <1>b, <1>c, ConstantsAssumption
    DEF Blame, Progress, Reading, Writing, Finished, Live, inputVars, runVars, diskVars, readerVars, Begin, Goto
  <1>2. ASSUME NEW p \in Runs, BadArguments(p) PROVE Blame(q)'
    BY <1>2, <1>a, <1>b, <1>c, ConstantsAssumption
    DEF Blame, Progress, Reading, Writing, Finished, Live, inputVars, runVars, diskVars, readerVars, BadArguments, Raise
  <1>3. ASSUME NEW p \in Runs, NEW r \in Roles, Lstat(p, r) PROVE Blame(q)'
    <2>1. /\ LstatError(r) \in {"OSError", "OvalInputError"}
          /\ Command[p] \in OvalCommands => LstatError(r) = "OvalInputError"
      BY <1>3, OvalReaders DEF Lstat, Due, LstatError
    <2> QED
      BY <1>3, <1>a, <1>b, <1>c, <2>1
      DEF Blame, Progress, Finished, Lstat, Goto, Raise, readerVars, inputVars, diskVars
  <1>4. ASSUME NEW p \in Runs, NEW r \in Roles, Read(p, r) PROVE Blame(q)'
    <2>1. /\ ReadError(r) \in {"OSError", "OvalInputError"}
          /\ Command[p] \in OvalCommands => ReadError(r) = "OvalInputError"
      BY <1>4, OvalReaders DEF Read, Due, ReadError
    <2> QED
      BY <1>4, <1>a, <1>b, <1>c, <2>1
      DEF Blame, Progress, Finished, Read, Goto, Raise, readerVars, inputVars, diskVars
  <1>5. ASSUME NEW p \in Runs, Convert(p) PROVE Blame(q)'
    <2>1. Verdict(p) \in {"ok", "OvalInputError", "Other"}
      BY DEF Verdict
    <2> QED
      BY <1>5, <1>a, <1>b, <1>c, <2>1
      DEF Blame, Progress, Finished, Convert, Goto, Raise, readerVars, inputVars, diskVars
  <1>6. ASSUME NEW p \in Runs, Mkdir(p) PROVE Blame(q)'
    BY <1>6, <1>a, <1>b, <1>c, ConstantsAssumption
    DEF Blame, Progress, Reading, Writing, Finished, Live, inputVars, runVars, diskVars, readerVars, Mkdir, Goto, Raise
  <1>7. ASSUME NEW p \in Runs, Mkstemp(p) PROVE Blame(q)'
    BY <1>7, <1>a, <1>b, <1>c, ConstantsAssumption
    DEF Blame, Progress, Reading, Writing, Finished, Live, inputVars, runVars, diskVars, readerVars, Mkstemp, Goto, Raise
  <1>8. ASSUME NEW p \in Runs, Flush(p) PROVE Blame(q)'
    BY <1>8, <1>a, <1>b, <1>c, ConstantsAssumption
    DEF Blame, Progress, Reading, Writing, Finished, Live, inputVars, runVars, diskVars, readerVars, Flush
  <1>9. ASSUME NEW p \in Runs, Close(p) PROVE Blame(q)'
    BY <1>9, <1>a, <1>b, <1>c, ConstantsAssumption
    DEF Blame, Progress, Reading, Writing, Finished, Live, inputVars, runVars, diskVars, readerVars, Close, Goto, Raise
  <1>10. ASSUME NEW p \in Runs, Replace(p) PROVE Blame(q)'
    BY <1>10, <1>a, <1>b, <1>c, ConstantsAssumption
    DEF Blame, Progress, Reading, Writing, Finished, Live, inputVars, runVars, diskVars, readerVars, Replace, Goto, Raise
  <1>11. ASSUME NEW p \in Runs, Cleanup(p) PROVE Blame(q)'
    BY <1>11, <1>a, <1>b, <1>c, ConstantsAssumption
    DEF Blame, Progress, Reading, Writing, Finished, Live, inputVars, runVars, diskVars, readerVars, Cleanup, Goto, Raise
  <1>12. ASSUME NEW p \in Runs, Exit(p) PROVE Blame(q)'
    BY <1>12, <1>a, <1>b, <1>c, ConstantsAssumption
    DEF Blame, Progress, Finished, Exit, Goto, readerVars, inputVars, diskVars
  <1>13. ASSUME NEW p \in Runs, Kill(p) PROVE Blame(q)'
    BY <1>13, <1>a, <1>b, <1>c, ConstantsAssumption
    DEF Blame, Progress, Reading, Writing, Finished, Live, inputVars, runVars, diskVars, readerVars, Kill, Goto
  <1>14. ASSUME NEW r \in Readers, ReaderBegin(r) PROVE Blame(q)'
    BY <1>14, <1>a, <1>b, <1>c, ConstantsAssumption
    DEF Blame, Progress, Reading, Writing, Finished, Live, inputVars, runVars, diskVars, readerVars, ReaderBegin
  <1>15. ASSUME NEW r \in Readers, ReaderLstat(r) PROVE Blame(q)'
    BY <1>15, <1>a, <1>b, <1>c, ConstantsAssumption
    DEF Blame, Progress, Reading, Writing, Finished, Live, inputVars, runVars, diskVars, readerVars, ReaderLstat
  <1>16. ASSUME NEW r \in Readers, ReaderOpen(r) PROVE Blame(q)'
    BY <1>16, <1>a, <1>b, <1>c, ConstantsAssumption
    DEF Blame, Progress, Reading, Writing, Finished, Live, inputVars, runVars, diskVars, readerVars, ReaderOpen
  <1>17. ASSUME NEW r \in Readers, ReaderRead(r) PROVE Blame(q)'
    BY <1>17, <1>a, <1>b, <1>c, ConstantsAssumption
    DEF Blame, Progress, Reading, Writing, Finished, Live, inputVars, runVars, diskVars, readerVars, ReaderRead
  <1>18. ASSUME NEW r \in Editable, Edit(r) PROVE Blame(q)'
    BY <1>18, <1>a, <1>b, <1>c, ConstantsAssumption
    DEF Blame, Progress, Reading, Writing, Finished, Live, inputVars, runVars, diskVars, readerVars, Edit
  <1>19. ASSUME UNCHANGED vars PROVE Blame(q)'
    BY <1>19, <1>a, <1>b, <1>c, ConstantsAssumption
    DEF Blame, Progress, Reading, Writing, Finished, Live, inputVars, runVars, diskVars, readerVars, vars
  <1> QED
    BY <1>1, <1>2, <1>3, <1>4, <1>5, <1>6, <1>7, <1>8, <1>9, <1>10, <1>11, <1>12, <1>13, <1>14, <1>15, <1>16, <1>17, <1>18, <1>19
    DEF Next, Step, ReaderStep

\* An OVAL command exits with code 3 because of an input, with 2 because of its
\* arguments and with 4 because of an output operation, as the table of exit
\* codes in docs/v0.1-cli-contract.md:45-51 promises, or because a schema of the
\* installation could not be read (oval.py:140): never with 4 because of an
\* input file (cli.py:106-188, oval.py:107-126, mapping.py:48-62).
THEOREM OvalExitCodes == Safety => []OvalExitNamesCause
  <1>1. BlameInv => OvalExitNamesCause
    BY ConstantsAssumption DEF BlameInv, Blame, OvalExitNamesCause, NamesCause, ExitCodeOf
  <1>2. Safety => []BlameInv
    BY BlameInit, BlameStep, Invariance, PTL DEF Safety
  <1> QED
    BY <1>1, <1>2, PTL

-----------------------------------------------------------------------------
(* What a rejected run leaves undone.                                      *)

LEMMA ParentInit == Init => ParentInv
  BY DEF Init, ParentInv

\* A run is early after a step only if it was before, and the directory is made
\* only by a run that is not early any more.
StaysEarly ==
  /\ \A q \in Runs : Early(q)' => Early(q)
  /\ parent' # parent => \E p \in Runs : ~Early(p)'

LEMMA EarlyStep ==
  ASSUME Inv, [Next]_vars
  PROVE  StaysEarly
  <1>a. /\ pc \in [Runs -> Statements] /\ blame \in [Runs -> Sides] /\ ProgressInv
    BY DEF Inv, TypeOK
  <1>1. ASSUME NEW p \in Runs, Begin(p) PROVE StaysEarly
    BY <1>1, <1>a
    DEF StaysEarly, Early, ProgressInv, Progress, Reading, Writing, Finished, Live, inputVars, runVars, diskVars, readerVars, Begin, Goto
  <1>2. ASSUME NEW p \in Runs, BadArguments(p) PROVE StaysEarly
    BY <1>2, <1>a
    DEF StaysEarly, Early, ProgressInv, Progress, Reading, Writing, Finished, Live, inputVars, runVars, diskVars, readerVars, BadArguments, Raise
  <1>3. ASSUME NEW p \in Runs, NEW r \in Roles, Lstat(p, r) PROVE StaysEarly
    BY <1>3, <1>a
    DEF StaysEarly, Early, ProgressInv, Progress, Reading, Writing, Finished, Live, inputVars, runVars, diskVars, readerVars, Lstat, Goto, Raise, LstatError
  <1>4. ASSUME NEW p \in Runs, NEW r \in Roles, Read(p, r) PROVE StaysEarly
    BY <1>4, <1>a
    DEF StaysEarly, Early, ProgressInv, Progress, Reading, Writing, Finished, Live, inputVars, runVars, diskVars, readerVars, Read, Goto, Raise, ReadError
  <1>5. ASSUME NEW p \in Runs, Convert(p) PROVE StaysEarly
    BY <1>5, <1>a
    DEF StaysEarly, Early, ProgressInv, Progress, Reading, Writing, Finished, Live, inputVars, runVars, diskVars, readerVars, Convert, Goto, Raise, Verdict
  <1>6. ASSUME NEW p \in Runs, Mkdir(p) PROVE StaysEarly
    BY <1>6, <1>a
    DEF StaysEarly, Early, ProgressInv, Progress, Reading, Writing, Finished, Live, inputVars, runVars, diskVars, readerVars, Mkdir, Goto, Raise
  <1>7. ASSUME NEW p \in Runs, Mkstemp(p) PROVE StaysEarly
    BY <1>7, <1>a
    DEF StaysEarly, Early, ProgressInv, Progress, Reading, Writing, Finished, Live, inputVars, runVars, diskVars, readerVars, Mkstemp, Goto, Raise
  <1>8. ASSUME NEW p \in Runs, Flush(p) PROVE StaysEarly
    BY <1>8, <1>a
    DEF StaysEarly, Early, ProgressInv, Progress, Reading, Writing, Finished, Live, inputVars, runVars, diskVars, readerVars, Flush
  <1>9. ASSUME NEW p \in Runs, Close(p) PROVE StaysEarly
    BY <1>9, <1>a
    DEF StaysEarly, Early, ProgressInv, Progress, Reading, Writing, Finished, Live, inputVars, runVars, diskVars, readerVars, Close, Goto, Raise
  <1>10. ASSUME NEW p \in Runs, Replace(p) PROVE StaysEarly
    BY <1>10, <1>a
    DEF StaysEarly, Early, ProgressInv, Progress, Reading, Writing, Finished, Live, inputVars, runVars, diskVars, readerVars, Replace, Goto, Raise
  <1>11. ASSUME NEW p \in Runs, Cleanup(p) PROVE StaysEarly
    BY <1>11, <1>a
    DEF StaysEarly, Early, ProgressInv, Progress, Reading, Writing, Finished, Live, inputVars, runVars, diskVars, readerVars, Cleanup, Goto, Raise
  <1>12. ASSUME NEW p \in Runs, Exit(p) PROVE StaysEarly
    BY <1>12, <1>a
    DEF StaysEarly, Early, ProgressInv, Progress, Reading, Writing, Finished, Live, inputVars, runVars, diskVars, readerVars, Exit, Goto
  <1>13. ASSUME NEW p \in Runs, Kill(p) PROVE StaysEarly
    BY <1>13, <1>a
    DEF StaysEarly, Early, ProgressInv, Progress, Reading, Writing, Finished, Live, inputVars, runVars, diskVars, readerVars, Kill, Goto
  <1>14. ASSUME NEW r \in Readers, ReaderBegin(r) PROVE StaysEarly
    BY <1>14, <1>a
    DEF StaysEarly, Early, ProgressInv, Progress, Reading, Writing, Finished, Live, inputVars, runVars, diskVars, readerVars, ReaderBegin
  <1>15. ASSUME NEW r \in Readers, ReaderLstat(r) PROVE StaysEarly
    BY <1>15, <1>a
    DEF StaysEarly, Early, ProgressInv, Progress, Reading, Writing, Finished, Live, inputVars, runVars, diskVars, readerVars, ReaderLstat
  <1>16. ASSUME NEW r \in Readers, ReaderOpen(r) PROVE StaysEarly
    BY <1>16, <1>a
    DEF StaysEarly, Early, ProgressInv, Progress, Reading, Writing, Finished, Live, inputVars, runVars, diskVars, readerVars, ReaderOpen
  <1>17. ASSUME NEW r \in Readers, ReaderRead(r) PROVE StaysEarly
    BY <1>17, <1>a
    DEF StaysEarly, Early, ProgressInv, Progress, Reading, Writing, Finished, Live, inputVars, runVars, diskVars, readerVars, ReaderRead
  <1>18. ASSUME NEW r \in Editable, Edit(r) PROVE StaysEarly
    BY <1>18, <1>a
    DEF StaysEarly, Early, ProgressInv, Progress, Reading, Writing, Finished, Live, inputVars, runVars, diskVars, readerVars, Edit
  <1>19. ASSUME UNCHANGED vars PROVE StaysEarly
    BY <1>19, <1>a
    DEF StaysEarly, Early, ProgressInv, Progress, Reading, Writing, Finished, Live, inputVars, runVars, diskVars, readerVars, vars
  <1> QED
    BY <1>1, <1>2, <1>3, <1>4, <1>5, <1>6, <1>7, <1>8, <1>9, <1>10, <1>11, <1>12, <1>13, <1>14, <1>15, <1>16, <1>17, <1>18, <1>19
    DEF Next, Step, ReaderStep

LEMMA ParentStep == Inv /\ ParentInv /\ [Next]_vars => ParentInv'
  <1> SUFFICES ASSUME Inv, ParentInv, [Next]_vars, \A p \in Runs : Early(p)'
               PROVE  parent' = ParentExists
    BY DEF ParentInv
  <1>1. (\A p \in Runs : Early(p)) /\ parent' = parent
    BY EarlyStep DEF StaysEarly
  <1> QED
    BY <1>1 DEF ParentInv

\* A run that fails on its inputs has written nothing, and the artifact
\* directory is there only if it was at first or some run came to its output
\* (docs/v0.1-cli-contract.md:55; cli.py:106-168).
THEOREM RejectedLeavesNoTrace == Safety => []RejectedInputLeavesNoTrace
  <1>1. Inv /\ ParentInv => RejectedInputLeavesNoTrace
    BY DEF Inv, ProgressInv, Progress, ParentInv, Early, RejectedInputLeavesNoTrace
  <1>2. Safety => []ParentInv
    BY ParentInit, ParentStep, Invariance, PTL DEF Safety
  <1> QED
    BY <1>1, <1>2, Invariance, PTL
-----------------------------------------------------------------------------
(* How far a run and a reader still have to go.  Liveness needs that a     *)
(* step is possible, which is left to TLC; that no run can go on for ever  *)
(* is proved here, whatever the others do.                                 *)

Wanted(p) == {r \in Needs(p) : got[p][r] = None}

(* The most steps a run may still take at a statement: two for each input   *)
(* it wants, one for each statement after them.                            *)
Height(statement, wanted, portion) ==
  IF statement = "idle" THEN 9 + 2 * wanted
  ELSE IF statement = "lstat" THEN 8 + 2 * wanted
  ELSE IF statement = "read" THEN 7 + 2 * wanted
  ELSE IF statement = "convert" THEN 8
  ELSE IF statement = "mkdir" THEN 7
  ELSE IF statement = "mkstemp" THEN 6
  ELSE IF statement = "write" THEN IF portion = "empty" THEN 5 ELSE 4
  ELSE IF statement = "replace" THEN 3
  ELSE IF statement = "cleanup" THEN 2
  ELSE IF statement \in {"raised", "return"} THEN 1
  ELSE 0

StepsLeft(p) == Height(pc[p], Cardinality(Wanted(p)), data[p])

ReadsLeft(r) ==
  IF rpc[r] = "idle" THEN 4 ELSE IF rpc[r] = "lstat" THEN 3 ELSE IF rpc[r] = "open" THEN 2
  ELSE IF rpc[r] = "read" THEN 1 ELSE 0

(* A run that is at an input has one to read.                              *)
Wants(p) ==
  /\ pc[p] = "idle" => \A r \in Roles : got[p][r] = None
  /\ pc[p] \in {"lstat", "read"} => Wanted(p) # {}

WantInv == \A p \in Runs : Wants(p)

LEMMA WantInit == Init => WantInv
  <1> SUFFICES ASSUME Init, NEW p \in Runs PROVE Wants(p)
    BY DEF WantInv
  <1>1. pc[p] = "idle" /\ \A r \in Roles : got[p][r] = None
    BY DEF Init
  <1> QED
    BY <1>1 DEF Wants

LEMMA NeedsKnown ==
  ASSUME NEW p \in Runs
  PROVE  /\ Needs(p) \in {{"xccdf", "xccdf-mapping"}, {"arf", "xccdf-mapping"}, {"results", "definitions"},
                          {"results", "definitions", "mapping"}}
         /\ Needs(p) \subseteq Roles /\ Needs(p) # {}
  BY DEF Needs, Roles

LEMMA WantStep == Inv /\ WantInv /\ [Next]_vars => WantInv'
  <1> SUFFICES ASSUME Inv, WantInv, [Next]_vars, NEW q \in Runs PROVE Wants(q)'
    BY DEF WantInv
  <1>a. /\ pc \in [Runs -> Statements] /\ got \in [Runs -> [Roles -> ParsedBytes \cup {None}]]
        /\ Needs(q) \subseteq Roles /\ Needs(q) # {}
    BY NeedsKnown DEF Inv, TypeOK
  <1>b. Wants(q)
    BY DEF WantInv
  <1>1. ASSUME NEW p \in Runs, Begin(p) PROVE Wants(q)'
    BY <1>1, <1>a, <1>b
    DEF Wants, Wanted, Live, Reading, Writing, inputVars, runVars, diskVars, readerVars, Begin, Goto
  <1>2. ASSUME NEW p \in Runs, BadArguments(p) PROVE Wants(q)'
    BY <1>2, <1>a, <1>b
    DEF Wants, Wanted, Live, Reading, Writing, inputVars, runVars, diskVars, readerVars, BadArguments, Raise
  <1>3. ASSUME NEW p \in Runs, NEW r \in Roles, Lstat(p, r) PROVE Wants(q)'
    BY <1>3, <1>a, <1>b
    DEF Wants, Wanted, Live, Reading, Writing, inputVars, runVars, diskVars, readerVars, Lstat, Goto, Raise, LstatError
  <1>4. ASSUME NEW p \in Runs, NEW r \in Roles, Read(p, r) PROVE Wants(q)'
    <2>1. CASE p # q
      <3>1. pc'[q] = pc[q] /\ got'[q] = got[q]
        BY <1>4, <1>a, <2>1 DEF Read, Goto, Raise
      <3> QED
        BY <3>1, <1>b DEF Wants, Wanted
    <2>2. CASE p = q /\ pc'[q] = "lstat"
      <3>1. \E s \in Needs(q) : s # r /\ got[q][s] = None /\ got'[q][s] = None
        BY <1>4, <1>a, <2>2 DEF Read, Goto, Raise
      <3> QED
        BY <3>1, <2>2 DEF Wants, Wanted
    <2>3. CASE p = q /\ pc'[q] # "lstat"
      BY <1>4, <1>a, <2>3 DEF Read, Goto, Raise, Wants
    <2> QED
      BY <2>1, <2>2, <2>3
  <1>5. ASSUME NEW p \in Runs, Convert(p) PROVE Wants(q)'
    BY <1>5, <1>a, <1>b
    DEF Wants, Wanted, Live, Reading, Writing, inputVars, runVars, diskVars, readerVars, Convert, Goto, Raise, Verdict
  <1>6. ASSUME NEW p \in Runs, Mkdir(p) PROVE Wants(q)'
    BY <1>6, <1>a, <1>b
    DEF Wants, Wanted, Live, Reading, Writing, inputVars, runVars, diskVars, readerVars, Mkdir, Goto, Raise
  <1>7. ASSUME NEW p \in Runs, Mkstemp(p) PROVE Wants(q)'
    BY <1>7, <1>a, <1>b
    DEF Wants, Wanted, Live, Reading, Writing, inputVars, runVars, diskVars, readerVars, Mkstemp, Goto, Raise
  <1>8. ASSUME NEW p \in Runs, Flush(p) PROVE Wants(q)'
    BY <1>8, <1>a, <1>b
    DEF Wants, Wanted, Live, Reading, Writing, inputVars, runVars, diskVars, readerVars, Flush
  <1>9. ASSUME NEW p \in Runs, Close(p) PROVE Wants(q)'
    BY <1>9, <1>a, <1>b
    DEF Wants, Wanted, Live, Reading, Writing, inputVars, runVars, diskVars, readerVars, Close, Goto, Raise
  <1>10. ASSUME NEW p \in Runs, Replace(p) PROVE Wants(q)'
    BY <1>10, <1>a, <1>b
    DEF Wants, Wanted, Live, Reading, Writing, inputVars, runVars, diskVars, readerVars, Replace, Goto, Raise
  <1>11. ASSUME NEW p \in Runs, Cleanup(p) PROVE Wants(q)'
    BY <1>11, <1>a, <1>b
    DEF Wants, Wanted, Live, Reading, Writing, inputVars, runVars, diskVars, readerVars, Cleanup, Goto, Raise
  <1>12. ASSUME NEW p \in Runs, Exit(p) PROVE Wants(q)'
    BY <1>12, <1>a, <1>b
    DEF Wants, Wanted, Live, Reading, Writing, inputVars, runVars, diskVars, readerVars, Exit, Goto
  <1>13. ASSUME NEW p \in Runs, Kill(p) PROVE Wants(q)'
    BY <1>13, <1>a, <1>b
    DEF Wants, Wanted, Live, Reading, Writing, inputVars, runVars, diskVars, readerVars, Kill, Goto
  <1>14. ASSUME NEW r \in Readers, ReaderBegin(r) PROVE Wants(q)'
    BY <1>14, <1>a, <1>b
    DEF Wants, Wanted, Live, Reading, Writing, inputVars, runVars, diskVars, readerVars, ReaderBegin
  <1>15. ASSUME NEW r \in Readers, ReaderLstat(r) PROVE Wants(q)'
    BY <1>15, <1>a, <1>b
    DEF Wants, Wanted, Live, Reading, Writing, inputVars, runVars, diskVars, readerVars, ReaderLstat
  <1>16. ASSUME NEW r \in Readers, ReaderOpen(r) PROVE Wants(q)'
    BY <1>16, <1>a, <1>b
    DEF Wants, Wanted, Live, Reading, Writing, inputVars, runVars, diskVars, readerVars, ReaderOpen
  <1>17. ASSUME NEW r \in Readers, ReaderRead(r) PROVE Wants(q)'
    BY <1>17, <1>a, <1>b
    DEF Wants, Wanted, Live, Reading, Writing, inputVars, runVars, diskVars, readerVars, ReaderRead
  <1>18. ASSUME NEW r \in Editable, Edit(r) PROVE Wants(q)'
    BY <1>18, <1>a, <1>b
    DEF Wants, Wanted, Live, Reading, Writing, inputVars, runVars, diskVars, readerVars, Edit
  <1>19. ASSUME UNCHANGED vars PROVE Wants(q)'
    BY <1>19, <1>a, <1>b
    DEF Wants, Wanted, Live, Reading, Writing, inputVars, runVars, diskVars, readerVars, vars
  <1> QED
    BY <1>1, <1>2, <1>3, <1>4, <1>5, <1>6, <1>7, <1>8, <1>9, <1>10, <1>11, <1>12, <1>13, <1>14, <1>15, <1>16, <1>17, <1>18, <1>19
    DEF Next, Step, ReaderStep

(* Exactly one input is the next to be read.                               *)
OneIsDue(p) ==
  pc[p] \in {"lstat", "read"} => \E r \in Roles : Due(p, r) /\ \A s \in Roles : Due(p, s) => s = r

\* Of the inputs a run still wants, one comes first in the order of reading.
LEMMA FirstWanted ==
  ASSUME NEW p \in Runs, Wanted(p) # {}
  PROVE  \E r \in Roles : Due(p, r) /\ \A s \in Roles : Due(p, s) => s = r
  <1>1. PICK w \in Needs(p) : got[p][w] = None
    BY DEF Wanted
  <1>2. CASE Needs(p) = {"results", "definitions", "mapping"}
    <2>1. CASE got[p]["results"] = None
      BY <1>2, <2>1 DEF Due, ReadBefore, Roles
    <2>2. CASE got[p]["results"] # None /\ got[p]["definitions"] = None
      BY <1>2, <2>2 DEF Due, ReadBefore, Roles
    <2>3. CASE got[p]["results"] # None /\ got[p]["definitions"] # None
      BY <1>1, <1>2, <2>3 DEF Due, ReadBefore, Roles
    <2> QED
      BY <2>1, <2>2, <2>3
  <1>3. CASE Needs(p) = {"results", "definitions"}
    <2>1. CASE got[p]["results"] = None
      BY <1>3, <2>1 DEF Due, ReadBefore, Roles
    <2>2. CASE got[p]["results"] # None
      BY <1>1, <1>3, <2>2 DEF Due, ReadBefore, Roles
    <2> QED
      BY <2>1, <2>2
  <1>4. CASE Needs(p) = {"xccdf", "xccdf-mapping"}
    <2>1. CASE got[p]["xccdf"] = None
      BY <1>4, <2>1 DEF Due, ReadBefore, Roles
    <2>2. CASE got[p]["xccdf"] # None
      BY <1>1, <1>4, <2>2 DEF Due, ReadBefore, Roles
    <2> QED
      BY <2>1, <2>2
  <1>5. CASE Needs(p) = {"arf", "xccdf-mapping"}
    <2>1. CASE got[p]["arf"] = None
      BY <1>5, <2>1 DEF Due, ReadBefore, Roles
    <2>2. CASE got[p]["arf"] # None
      BY <1>1, <1>5, <2>2 DEF Due, ReadBefore, Roles
    <2> QED
      BY <2>1, <2>2
  <1> QED
    BY <1>2, <1>3, <1>4, <1>5, NeedsKnown

\* A run at an input always has exactly one to go on with, whichever it has
\* read and whatever was done to the files: the order of the readers leaves
\* none out and never comes to a stop (cli.py:63-104, convert.py:24-31).
THEOREM ReadingNeverSticks == Safety => [](\A p \in Runs : OneIsDue(p))
  <1>1. WantInv => \A p \in Runs : OneIsDue(p)
    BY FirstWanted DEF WantInv, Wants, OneIsDue
  <1>2. Safety => []WantInv
    BY WantInit, WantStep, Invariance, PTL DEF Safety
  <1> QED
    BY <1>1, <1>2, PTL

LEMMA WantedCount ==
  ASSUME NEW p \in Runs
  PROVE  /\ IsFiniteSet(Wanted(p)) /\ Cardinality(Wanted(p)) \in 0 .. 3
         /\ Wanted(p) # {} => Cardinality(Wanted(p)) > 0
  <1>1. \E a, b, c : Needs(p) \subseteq {a, b, c}
    BY NeedsKnown
  <1>2. PICK a, b, c : Needs(p) \subseteq {a, b, c}
    BY <1>1
  <1>3. IsFiniteSet({a}) /\ Cardinality({a}) = 1
    BY FS_Singleton
  <1>4. IsFiniteSet({a} \cup {b}) /\ Cardinality({a} \cup {b}) \in 0 .. 2
    BY <1>3, FS_AddElement
  <1>5. /\ IsFiniteSet(({a} \cup {b}) \cup {c})
        /\ Cardinality(({a} \cup {b}) \cup {c}) \in 0 .. 3
    BY <1>4, FS_AddElement
  <1>6. Wanted(p) \subseteq ({a} \cup {b}) \cup {c}
    BY <1>2 DEF Wanted
  <1>7. /\ IsFiniteSet(Wanted(p))
        /\ Cardinality(Wanted(p)) <= Cardinality(({a} \cup {b}) \cup {c})
    BY <1>5, <1>6, FS_Subset
  <1>8. /\ Cardinality(Wanted(p)) \in Nat
        /\ Cardinality(Wanted(p)) = 0 <=> Wanted(p) = {}
    BY <1>7, FS_CardinalityType, FS_EmptySet
  <1> QED
    BY <1>5, <1>7, <1>8

LEMMA StepsBounded ==
  ASSUME NEW p \in Runs, pc[p] \in Statements
  PROVE  StepsLeft(p) \in 0 .. 15 /\ (StepsLeft(p) = 0 <=> pc[p] \in Finished)
  <1>1. Cardinality(Wanted(p)) \in 0 .. 3
    BY WantedCount
  <1>2. ASSUME NEW n \in 0 .. 3, NEW portion
        PROVE  /\ Height(pc[p], n, portion) \in 0 .. 15
               /\ Height(pc[p], n, portion) = 0 <=> pc[p] \in Finished
    BY DEF Height, Statements, Live, Reading, Writing, Finished
  <1> QED
    BY <1>1, <1>2 DEF StepsLeft

(* What a step of p leaves of the others.                                  *)
Alone(p) ==
  /\ \A q \in Runs \ {p} : pc'[q] = pc[q] /\ got'[q] = got[q] /\ data'[q] = data[q]
  /\ UNCHANGED <<readerVars, edits>>

LEMMA RunsAlone ==
  ASSUME Inv, NEW p \in Runs, Begin(p) \/ BadArguments(p) \/ Step(p) \/ Kill(p)
  PROVE  Alone(p)
  <1>a. /\ pc \in [Runs -> Statements] /\ got \in [Runs -> [Roles -> ParsedBytes \cup {None}]]
        /\ data \in [Inodes -> Portions] /\ Runs \subseteq Inodes
    BY DEF Inv, TypeOK, Inodes
  <1>1. ASSUME Begin(p) PROVE Alone(p)
    BY <1>1, <1>a DEF Alone, inputVars, runVars, diskVars, readerVars, Begin, Goto
  <1>2. ASSUME BadArguments(p) PROVE Alone(p)
    BY <1>2, <1>a DEF Alone, inputVars, runVars, diskVars, readerVars, BadArguments, Raise
  <1>3. ASSUME NEW r \in Roles, Lstat(p, r) PROVE Alone(p)
    BY <1>3, <1>a DEF Alone, inputVars, runVars, diskVars, readerVars, Lstat, Goto, Raise, LstatError
  <1>4. ASSUME NEW r \in Roles, Read(p, r) PROVE Alone(p)
    BY <1>4, <1>a DEF Alone, inputVars, runVars, diskVars, readerVars, Read, Goto, Raise, ReadError
  <1>5. ASSUME Convert(p) PROVE Alone(p)
    BY <1>5, <1>a DEF Alone, inputVars, runVars, diskVars, readerVars, Convert, Goto, Raise, Verdict
  <1>6. ASSUME Mkdir(p) PROVE Alone(p)
    BY <1>6, <1>a DEF Alone, inputVars, runVars, diskVars, readerVars, Mkdir, Goto, Raise
  <1>7. ASSUME Mkstemp(p) PROVE Alone(p)
    BY <1>7, <1>a DEF Alone, inputVars, runVars, diskVars, readerVars, Mkstemp, Goto, Raise
  <1>8. ASSUME Flush(p) PROVE Alone(p)
    BY <1>8, <1>a DEF Alone, inputVars, runVars, diskVars, readerVars, Flush
  <1>9. ASSUME Close(p) PROVE Alone(p)
    BY <1>9, <1>a DEF Alone, inputVars, runVars, diskVars, readerVars, Close, Goto, Raise
  <1>10. ASSUME Replace(p) PROVE Alone(p)
    BY <1>10, <1>a DEF Alone, inputVars, runVars, diskVars, readerVars, Replace, Goto, Raise
  <1>11. ASSUME Cleanup(p) PROVE Alone(p)
    BY <1>11, <1>a DEF Alone, inputVars, runVars, diskVars, readerVars, Cleanup, Goto, Raise
  <1>12. ASSUME Exit(p) PROVE Alone(p)
    BY <1>12, <1>a DEF Alone, inputVars, runVars, diskVars, readerVars, Exit, Goto
  <1>13. ASSUME Kill(p) PROVE Alone(p)
    BY <1>13, <1>a DEF Alone, inputVars, runVars, diskVars, readerVars, Kill, Goto
  <1> QED
    BY <1>1, <1>2, <1>3, <1>4, <1>5, <1>6, <1>7, <1>8, <1>9, <1>10, <1>11, <1>12, <1>13 DEF Step

\* A step that is not a successful reading leaves what is wanted as it was.
LEMMA SameWanted ==
  ASSUME NEW p \in Runs, UNCHANGED got
  PROVE  Wanted(p)' = Wanted(p)
  BY DEF Wanted

LEMMA ReadDown ==
  ASSUME Inv, WantInv, NEW p \in Runs, NEW r \in Roles, Read(p, r)
  PROVE  StepsLeft(p)' < StepsLeft(p)
  <1>a. /\ pc \in [Runs -> Statements] /\ got \in [Runs -> [Roles -> ParsedBytes \cup {None}]]
        /\ pc[p] = "read" /\ Due(p, r) /\ None \notin Contents[r]
    BY ConstantsAssumption DEF Inv, TypeOK, Read
  <1>0. r \in Wanted(p)
    BY <1>a DEF Due, Wanted
  <1>b. /\ IsFiniteSet(Wanted(p)) /\ Cardinality(Wanted(p)) \in 1 .. 3
        /\ r \in Wanted(p)
    BY <1>0, WantedCount
  <1>1. CASE pc' = [pc EXCEPT ![p] = "raised"]
    <2>1. pc'[p] = "raised"
      BY <1>1, <1>a
    <2>2. ASSUME NEW n \in 1 .. 3, NEW m, NEW x, NEW y PROVE Height("raised", m, x) < Height("read", n, y)
      BY DEF Height
    <2> QED
      BY <1>a, <1>b, <2>1, <2>2 DEF StepsLeft
  <1>2. CASE \E b \in Contents[r] :
               /\ got' = [got EXCEPT ![p][r] = b]
               /\ Goto(p, IF \E s \in Needs(p) \ {r} : got[p][s] = None THEN "lstat" ELSE "convert")
    <2>1. Wanted(p)' = Wanted(p) \ {r}
      BY <1>2, <1>a DEF Wanted
    <2>2. Cardinality(Wanted(p)') = Cardinality(Wanted(p)) - 1
      BY <2>1, <1>b, FS_RemoveElement
    <2>3. pc'[p] \in {"lstat", "convert"}
      BY <1>2, <1>a DEF Goto
    <2>4. ASSUME NEW n \in 1 .. 3, NEW to \in {"lstat", "convert"}, NEW x, NEW y
          PROVE  Height(to, n - 1, x) < Height("read", n, y)
      BY DEF Height
    <2>5. Height(pc'[p], Cardinality(Wanted(p)) - 1, data'[p]) < Height("read", Cardinality(Wanted(p)), data[p])
      BY <1>b, <2>3, <2>4
    <2> QED
      BY <1>a, <2>2, <2>5 DEF StepsLeft
  <1> QED
    BY <1>1, <1>2 DEF Read, Raise

\* Every step of a run brings it nearer to its end.
LEMMA RunDown ==
  ASSUME Inv, WantInv, NEW p \in Runs, Begin(p) \/ BadArguments(p) \/ Step(p) \/ Kill(p)
  PROVE  StepsLeft(p)' < StepsLeft(p)
  <1>a. /\ pc \in [Runs -> Statements] /\ data \in [Inodes -> Portions] /\ p \in Inodes
    BY DEF Inv, TypeOK, Inodes
  <1>b. Cardinality(Wanted(p)) \in 0 .. 3
    BY WantedCount
  <1>c. ASSUME UNCHANGED got
        PROVE  StepsLeft(p)' = Height(pc'[p], Cardinality(Wanted(p)), data'[p])
    BY <1>c, SameWanted DEF StepsLeft
  <1>d. ASSUME NEW n \in 0 .. 3, NEW to, NEW portion, UNCHANGED got,
               Height(to, n, portion) < Height(pc[p], n, data[p]), n = Cardinality(Wanted(p)),
               pc'[p] = to, data'[p] = portion
        PROVE  StepsLeft(p)' < StepsLeft(p)
    BY <1>c, <1>d DEF StepsLeft
  <1> DEFINE n == Cardinality(Wanted(p))
  <1> HIDE DEF n
  <1>e. n \in 0 .. 3 /\ n = Cardinality(Wanted(p))
    BY <1>b DEF n
  <1>1. ASSUME Begin(p) PROVE StepsLeft(p)' < StepsLeft(p)
    <2>1. /\ UNCHANGED got
          /\ Height(pc'[p], n, data'[p]) < Height(pc[p], n, data[p])
      BY <1>1, <1>a, <1>e DEF Height, Finished, Live, Reading, Writing, inputVars, runVars, diskVars, readerVars, Begin, Goto
    <2> QED
      BY <1>d, <1>e, <2>1
  <1>2. ASSUME BadArguments(p) PROVE StepsLeft(p)' < StepsLeft(p)
    <2>1. /\ UNCHANGED got
          /\ Height(pc'[p], n, data'[p]) < Height(pc[p], n, data[p])
      BY <1>2, <1>a, <1>e DEF Height, Finished, Live, Reading, Writing, inputVars, runVars, diskVars, readerVars, BadArguments, Raise
    <2> QED
      BY <1>d, <1>e, <2>1
  <1>3. ASSUME NEW r \in Roles, Lstat(p, r) PROVE StepsLeft(p)' < StepsLeft(p)
    <2>1. /\ UNCHANGED got
          /\ Height(pc'[p], n, data'[p]) < Height(pc[p], n, data[p])
      BY <1>3, <1>a, <1>e DEF Height, Finished, Live, Reading, Writing, inputVars, runVars, diskVars, readerVars, Lstat, Goto, Raise, LstatError
    <2> QED
      BY <1>d, <1>e, <2>1
  <1>4. ASSUME NEW r \in Roles, Read(p, r) PROVE StepsLeft(p)' < StepsLeft(p)
    BY <1>4, ReadDown
  <1>5. ASSUME Convert(p) PROVE StepsLeft(p)' < StepsLeft(p)
    <2>1. /\ UNCHANGED got
          /\ Height(pc'[p], n, data'[p]) < Height(pc[p], n, data[p])
      BY <1>5, <1>a, <1>e DEF Height, Finished, Live, Reading, Writing, inputVars, runVars, diskVars, readerVars, Convert, Goto, Raise, Verdict
    <2> QED
      BY <1>d, <1>e, <2>1
  <1>6. ASSUME Mkdir(p) PROVE StepsLeft(p)' < StepsLeft(p)
    <2>1. /\ UNCHANGED got
          /\ Height(pc'[p], n, data'[p]) < Height(pc[p], n, data[p])
      BY <1>6, <1>a, <1>e DEF Height, Finished, Live, Reading, Writing, inputVars, runVars, diskVars, readerVars, Mkdir, Goto, Raise
    <2> QED
      BY <1>d, <1>e, <2>1
  <1>7. ASSUME Mkstemp(p) PROVE StepsLeft(p)' < StepsLeft(p)
    <2>1. /\ UNCHANGED got
          /\ Height(pc'[p], n, data'[p]) < Height(pc[p], n, data[p])
      BY <1>7, <1>a, <1>e DEF Height, Finished, Live, Reading, Writing, inputVars, runVars, diskVars, readerVars, Mkstemp, Goto, Raise
    <2> QED
      BY <1>d, <1>e, <2>1
  <1>8. ASSUME Flush(p) PROVE StepsLeft(p)' < StepsLeft(p)
    <2>1. /\ UNCHANGED got
          /\ Height(pc'[p], n, data'[p]) < Height(pc[p], n, data[p])
      BY <1>8, <1>a, <1>e DEF Height, Finished, Live, Reading, Writing, inputVars, runVars, diskVars, readerVars, Flush
    <2> QED
      BY <1>d, <1>e, <2>1
  <1>9. ASSUME Close(p) PROVE StepsLeft(p)' < StepsLeft(p)
    <2>1. /\ UNCHANGED got
          /\ Height(pc'[p], n, data'[p]) < Height(pc[p], n, data[p])
      BY <1>9, <1>a, <1>e DEF Height, Finished, Live, Reading, Writing, inputVars, runVars, diskVars, readerVars, Close, Goto, Raise
    <2> QED
      BY <1>d, <1>e, <2>1
  <1>10. ASSUME Replace(p) PROVE StepsLeft(p)' < StepsLeft(p)
    <2>1. /\ UNCHANGED got
          /\ Height(pc'[p], n, data'[p]) < Height(pc[p], n, data[p])
      BY <1>10, <1>a, <1>e DEF Height, Finished, Live, Reading, Writing, inputVars, runVars, diskVars, readerVars, Replace, Goto, Raise
    <2> QED
      BY <1>d, <1>e, <2>1
  <1>11. ASSUME Cleanup(p) PROVE StepsLeft(p)' < StepsLeft(p)
    <2>1. /\ UNCHANGED got
          /\ Height(pc'[p], n, data'[p]) < Height(pc[p], n, data[p])
      BY <1>11, <1>a, <1>e DEF Height, Finished, Live, Reading, Writing, inputVars, runVars, diskVars, readerVars, Cleanup, Goto, Raise
    <2> QED
      BY <1>d, <1>e, <2>1
  <1>12. ASSUME Exit(p) PROVE StepsLeft(p)' < StepsLeft(p)
    <2>1. /\ UNCHANGED got
          /\ Height(pc'[p], n, data'[p]) < Height(pc[p], n, data[p])
      BY <1>12, <1>a, <1>e DEF Height, Finished, Live, Reading, Writing, inputVars, runVars, diskVars, readerVars, Exit, Goto
    <2> QED
      BY <1>d, <1>e, <2>1
  <1>13. ASSUME Kill(p) PROVE StepsLeft(p)' < StepsLeft(p)
    <2>1. /\ UNCHANGED got
          /\ Height(pc'[p], n, data'[p]) < Height(pc[p], n, data[p])
      BY <1>13, <1>a, <1>e DEF Height, Finished, Live, Reading, Writing, inputVars, runVars, diskVars, readerVars, Kill, Goto
    <2> QED
      BY <1>d, <1>e, <2>1
  <1> QED
    BY <1>1, <1>2, <1>3, <1>4, <1>5, <1>6, <1>7, <1>8, <1>9, <1>10, <1>11, <1>12, <1>13 DEF Step

(* A step is one of a run or a reader, which comes nearer to its end while *)
(* all others stay where they are, or of somebody who rewrites a file.     *)
RunsStay(those) == \A q \in those : StepsLeft(q)' = StepsLeft(q)
ReadersStay(those) == \A s \in those : ReadsLeft(s)' = ReadsLeft(s)

OneComesNearer ==
  \/ \E p \in Runs : StepsLeft(p)' < StepsLeft(p) /\ RunsStay(Runs \ {p}) /\ ReadersStay(Readers)
  \/ \E r \in Readers : ReadsLeft(r)' < ReadsLeft(r) /\ RunsStay(Runs) /\ ReadersStay(Readers \ {r})
  \/ edits' = edits + 1 /\ RunsStay(Runs) /\ ReadersStay(Readers)

LEMMA StayingRuns ==
  ASSUME NEW those \in SUBSET Runs,
         \A q \in those : pc'[q] = pc[q] /\ got'[q] = got[q] /\ data'[q] = data[q]
  PROVE  RunsStay(those)
  <1> SUFFICES ASSUME NEW q \in those PROVE StepsLeft(q)' = StepsLeft(q)
    BY DEF RunsStay
  <1>1. Wanted(q)' = Wanted(q)
    BY DEF Wanted
  <1>2. pc'[q] = pc[q] /\ data'[q] = data[q]
    OBVIOUS
  <1> QED
    BY <1>1, <1>2 DEF StepsLeft

LEMMA ReaderDown ==
  ASSUME Inv, NEW r \in Readers, ReaderBegin(r) \/ ReaderStep(r)
  PROVE  /\ ReadsLeft(r)' < ReadsLeft(r) /\ ReadersStay(Readers \ {r})
         /\ UNCHANGED <<pc, got, data, edits>>
  <1>a. rpc \in [Readers -> {"idle", "lstat", "open", "read", "done", "rejected"}]
    BY DEF Inv, TypeOK
  <1>1. ASSUME NEW to, rpc' = [rpc EXCEPT ![r] = to]
        PROVE  rpc'[r] = to /\ ReadersStay(Readers \ {r})
    BY <1>1, <1>a DEF ReadersStay, ReadsLeft
  <1>2. CASE ReaderBegin(r)
    <2>1. PICK to \in {"lstat"} : rpc' = [rpc EXCEPT ![r] = to]
      BY <1>2 DEF ReaderBegin
    <2>2. rpc'[r] = to /\ ReadersStay(Readers \ {r})
      BY <1>1, <2>1
    <2>3. ReadsLeft(r)' < ReadsLeft(r)
      BY <1>2, <2>2 DEF ReaderBegin, ReadsLeft
    <2> QED
      BY <1>2, <2>2, <2>3 DEF ReaderBegin, inputVars, runVars, diskVars
  <1>3. CASE ReaderLstat(r)
    <2>1. PICK to \in {"rejected", "open"} : rpc' = [rpc EXCEPT ![r] = to]
      BY <1>3 DEF ReaderLstat
    <2>2. rpc'[r] = to /\ ReadersStay(Readers \ {r})
      BY <1>1, <2>1
    <2>3. ReadsLeft(r)' < ReadsLeft(r)
      BY <1>3, <2>2 DEF ReaderLstat, ReadsLeft
    <2> QED
      BY <1>3, <2>2, <2>3 DEF ReaderLstat, inputVars, runVars, diskVars
  <1>4. CASE ReaderOpen(r)
    <2>1. PICK to \in {"rejected", "read"} : rpc' = [rpc EXCEPT ![r] = to]
      BY <1>4 DEF ReaderOpen
    <2>2. rpc'[r] = to /\ ReadersStay(Readers \ {r})
      BY <1>1, <2>1
    <2>3. ReadsLeft(r)' < ReadsLeft(r)
      BY <1>4, <2>2 DEF ReaderOpen, ReadsLeft
    <2> QED
      BY <1>4, <2>2, <2>3 DEF ReaderOpen, inputVars, runVars, diskVars
  <1>5. CASE ReaderRead(r)
    <2>1. PICK to \in {"rejected", "done"} : rpc' = [rpc EXCEPT ![r] = to]
      BY <1>5 DEF ReaderRead
    <2>2. rpc'[r] = to /\ ReadersStay(Readers \ {r})
      BY <1>1, <2>1
    <2>3. ReadsLeft(r)' < ReadsLeft(r)
      BY <1>5, <2>2 DEF ReaderRead, ReadsLeft
    <2> QED
      BY <1>5, <2>2, <2>3 DEF ReaderRead, inputVars, runVars, diskVars
  <1> QED
    BY <1>2, <1>3, <1>4, <1>5 DEF ReaderStep

LEMMA NearerStep == Inv /\ WantInv /\ [Next]_vars => OneComesNearer \/ UNCHANGED vars
  <1> SUFFICES ASSUME Inv, WantInv, Next PROVE OneComesNearer
    OBVIOUS
  <1>1. ASSUME NEW p \in Runs, Begin(p) \/ BadArguments(p) \/ Step(p) \/ Kill(p)
        PROVE  OneComesNearer
    <2>1. Alone(p)
      BY <1>1, RunsAlone
    <2>2. RunsStay(Runs \ {p}) /\ ReadersStay(Readers)
      BY <2>1, StayingRuns DEF Alone, readerVars, ReadersStay, ReadsLeft
    <2>3. StepsLeft(p)' < StepsLeft(p)
      BY <1>1, RunDown
    <2> QED
      BY <2>2, <2>3 DEF OneComesNearer
  <1>2. ASSUME NEW r \in Readers, ReaderBegin(r) \/ ReaderStep(r)
        PROVE  OneComesNearer
    <2>1. /\ ReadsLeft(r)' < ReadsLeft(r) /\ ReadersStay(Readers \ {r})
          /\ UNCHANGED <<pc, got, data, edits>>
      BY <1>2, ReaderDown
    <2>2. RunsStay(Runs)
      BY <2>1, StayingRuns
    <2> QED
      BY <2>1, <2>2 DEF OneComesNearer
  <1>3. ASSUME NEW r \in Editable, Edit(r)
        PROVE  OneComesNearer
    <2>1. edits' = edits + 1 /\ UNCHANGED <<pc, got, data, rpc>>
      BY <1>3 DEF Edit, runVars, diskVars, readerVars
    <2>2. RunsStay(Runs) /\ ReadersStay(Readers)
      BY <2>1, StayingRuns DEF ReadersStay, ReadsLeft
    <2> QED
      BY <2>1, <2>2 DEF OneComesNearer
  <1> QED
    BY <1>1, <1>2, <1>3 DEF Next

\* No run takes more than 15 steps and no reader more than 4, a run has none
\* left exactly when it has exited or been killed, and each of its steps brings
\* it nearer while nobody else's step puts it back: no retry, loop or race in
\* the code lets a command go on for ever (cli.py:106-178).
THEOREM NobodyGoesOnForEver ==
  Safety => /\ [](\A p \in Runs : StepsLeft(p) \in 0 .. 15 /\ (StepsLeft(p) = 0 <=> pc[p] \in Finished))
            /\ [](\A r \in Readers : ReadsLeft(r) \in 0 .. 4)
            /\ [][OneComesNearer]_vars
  <1>1. Inv => \A p \in Runs : StepsLeft(p) \in 0 .. 15 /\ (StepsLeft(p) = 0 <=> pc[p] \in Finished)
    BY StepsBounded DEF Inv, TypeOK
  <1>2. Inv => \A r \in Readers : ReadsLeft(r) \in 0 .. 4
    BY DEF ReadsLeft
  <1>3. Safety => []WantInv
    BY WantInit, WantStep, Invariance, PTL DEF Safety
  <1>4. Inv /\ WantInv /\ [Next]_vars => [OneComesNearer]_vars
    BY NearerStep
  <1> QED
    BY <1>1, <1>2, <1>3, <1>4, Invariance, PTL DEF Safety

(* The input p is reading, or stopped at, is one of those.                 *)
Meeting(p, those) == \E r \in those : Due(p, r)

(* An exception that no handler of main names comes of an input only if a  *)
(* parser met bytes it raises on, or from the converter, and the one of    *)
(* convert raises none; an OSError comes of an input only if an XCCDF or   *)
(* ARF file was being read; what the parser of arguments raises has a name *)
(* of its own; nothing is raised in a run that has installed its artifact, *)
(* and no failure is reported unless something was.                        *)
Crash(p) ==
  /\ raised[p] = "Other" /\ blame[p] = "input" =>
       Meeting(p, Crashing) \/ (Verdict(p) = "Other" /\ Command[p] # "convert")
  /\ raised[p] = "OSError" /\ blame[p] = "input" => Meeting(p, {"xccdf", "arf"})
  /\ blame[p] = "usage" => raised[p] = "UsageError"
  /\ p \in installed => raised[p] = "none"
  /\ exit[p] \notin {None, 0} => raised[p] # "none"

CrashInv == \A p \in Runs : Crash(p)

LEMMA CrashInit == Init => CrashInv
  <1> SUFFICES ASSUME Init, NEW p \in Runs PROVE Crash(p)
    BY DEF CrashInv
  <1>1. raised[p] = "none" /\ blame[p] = "none" /\ exit[p] = None /\ installed = {}
    BY DEF Init
  <1> QED
    BY <1>1 DEF Crash

LEMMA CrashStep == Inv /\ BlameInv /\ CrashInv /\ [Next]_vars => CrashInv'
  <1> SUFFICES ASSUME Inv, BlameInv, CrashInv, [Next]_vars, NEW q \in Runs PROVE Crash(q)'
    BY DEF CrashInv
  <1>a. /\ raised \in [Runs -> Exceptions] /\ blame \in [Runs -> Sides]
        /\ got \in [Runs -> [Roles -> ParsedBytes \cup {None}]]
    BY DEF Inv, TypeOK
  <1>b. Crash(q)
    BY DEF CrashInv
  <1>c. ASSUME UNCHANGED got
        PROVE  /\ Verdict(q)' = Verdict(q)
               /\ Meeting(q, Crashing)' = Meeting(q, Crashing)
               /\ Meeting(q, {"xccdf", "arf"})' = Meeting(q, {"xccdf", "arf"})
    BY <1>c DEF Verdict, Meeting, Due
  <1>d. Blame(q) /\ Progress(q)
    BY DEF Inv, ProgressInv, BlameInv
  <1>e. exit \in [Runs -> {0, 1, 2, 3, 4} \cup {None}]
    BY DEF Inv, TypeOK
  <1>1. ASSUME NEW p \in Runs, Begin(p) PROVE Crash(q)'
    BY <1>1, <1>a, <1>b, <1>c, <1>d
    DEF Crash, Blame, Progress, Reading, Writing, Finished, Exceptions, inputVars, runVars, diskVars, readerVars, Begin, Goto
  <1>2. ASSUME NEW p \in Runs, BadArguments(p) PROVE Crash(q)'
    BY <1>2, <1>a, <1>b, <1>c, <1>d
    DEF Crash, Blame, Progress, Reading, Writing, Finished, Exceptions, inputVars, runVars, diskVars, readerVars, BadArguments, Raise
  <1>3. ASSUME NEW p \in Runs, NEW r \in Roles, Lstat(p, r) PROVE Crash(q)'
    <2>1. /\ UNCHANGED <<got, installed, exit>>
          /\ \/ raised'[q] = raised[q] /\ blame'[q] = blame[q]
             \/ p = q /\ raised'[q] \in {"OvalInputError", LstatError(r)} /\ blame'[q] = "input"
      BY <1>3, <1>a DEF Lstat, Goto, Raise
    <2>2. p = q /\ LstatError(r) # "OvalInputError" =>
             LstatError(r) = "OSError" /\ Meeting(q, {"xccdf", "arf"})
      BY <1>3 DEF LstatError, Lstat, Meeting
    <2>3. p = q => q \notin installed /\ exit[q] = None
      BY <1>3, <1>d, <1>e DEF Lstat, Progress, Reading
    <2> QED
      BY <1>b, <1>c, <2>1, <2>2, <2>3 DEF Crash
  <1>4. ASSUME NEW p \in Runs, NEW r \in Roles, Read(p, r) PROVE Crash(q)'
    <2>1. CASE p # q
      <3>1. got'[q] = got[q] /\ raised'[q] = raised[q] /\ blame'[q] = blame[q]
        BY <1>4, <1>a, <2>1 DEF Read, Goto, Raise
      <3>2. /\ Verdict(q)' = Verdict(q)
            /\ Meeting(q, Crashing)' = Meeting(q, Crashing)
            /\ Meeting(q, {"xccdf", "arf"})' = Meeting(q, {"xccdf", "arf"})
        BY <3>1 DEF Verdict, Meeting, Due
      <3> QED
        BY <1>4, <1>b, <3>1, <3>2 DEF Read, Crash
    <2>2. CASE p = q
      <3>1. /\ raised[q] = "none" /\ blame[q] = "none"
            /\ q \notin installed /\ installed' = installed /\ exit'[q] = None
        BY <1>4, <1>d, <1>e, <2>2 DEF Read, Blame, Progress, Reading, Finished
      <3>2. CASE raised'[q] = raised[q] /\ blame'[q] = blame[q]
        BY <3>1, <3>2 DEF Crash
      <3>3. CASE blame'[q] = "installation"
        BY <3>1, <3>3 DEF Crash
      <3>4. ASSUME got' = got, blame'[q] = "input",
                   \/ raised'[q] = "OvalInputError"
                   \/ raised'[q] = "Other" /\ r \in Crashing
                   \/ raised'[q] = ReadError(r)
            PROVE  Crash(q)'
        <4>1. Due(q, r)
          BY <1>4, <2>2 DEF Read
        <4>2. r \in Crashing => Meeting(q, Crashing)'
          BY <1>c, <3>4, <4>1 DEF Meeting
        <4>3. ReadError(r) = "OvalInputError" \/ (ReadError(r) = "OSError" /\ Meeting(q, {"xccdf", "arf"})')
          BY <1>c, <3>4, <4>1 DEF Meeting, ReadError
        <4> QED
          BY <3>1, <3>4, <4>2, <4>3 DEF Crash
      <3>5. ASSUME NEW bytes \in Bytes(r), bytes = Unguarded, bytes \notin Contents[r]
            PROVE  r \in Crashing
        BY <3>5, ConstantsAssumption DEF Bytes
      <3>6. \/ raised'[q] = raised[q] /\ blame'[q] = blame[q]
            \/ blame'[q] = "installation"
            \/ /\ got' = got /\ blame'[q] = "input"
               /\ \/ raised'[q] = "OvalInputError"
                  \/ raised'[q] = "Other" /\ r \in Crashing
                  \/ raised'[q] = ReadError(r)
        <4>1. \/ Goto(p, "lstat") \/ Goto(p, "convert")
              \/ \E e \in {"OSError", "Other"} : Raise(p, e, "installation", "raised")
              \/ got' = got /\ Raise(p, ReadError(r), "input", "raised")
              \/ /\ got' = got
                 /\ \/ Raise(p, "OvalInputError", "input", "raised")
                    \/ r \in Crashing /\ Raise(p, "Other", "input", "raised")
          BY <1>4, <3>5 DEF Read
        <4> QED
          BY <1>a, <2>2, <4>1 DEF Goto, Raise
      <3> QED
        BY <3>2, <3>3, <3>4, <3>6
    <2> QED
      BY <2>1, <2>2
  <1>5. ASSUME NEW p \in Runs, Convert(p) PROVE Crash(q)'
    <2>1. /\ Verdict(p) \in {"ok", "OvalInputError", "Other"}
          /\ Verdict(p) = "Other" => Command[p] # "convert"
      BY DEF Verdict, Needs
    <2>2. /\ UNCHANGED <<got, installed, exit>>
          /\ \/ raised'[q] = raised[q] /\ blame'[q] = blame[q]
             \/ p = q /\ raised'[q] = Verdict(q) /\ blame'[q] = "input"
      BY <1>5, <1>a DEF Convert, Goto, Raise
    <2>3. p = q => q \notin installed /\ exit[q] = None
      BY <1>5, <1>d, <1>e DEF Convert, Progress, Reading
    <2> QED
      BY <1>b, <1>c, <2>1, <2>2, <2>3 DEF Crash
  <1>6. ASSUME NEW p \in Runs, Mkdir(p) PROVE Crash(q)'
    BY <1>6, <1>a, <1>b, <1>c, <1>d
    DEF Crash, Blame, Progress, Reading, Writing, Finished, Exceptions, inputVars, runVars, diskVars, readerVars, Mkdir, Goto, Raise
  <1>7. ASSUME NEW p \in Runs, Mkstemp(p) PROVE Crash(q)'
    BY <1>7, <1>a, <1>b, <1>c, <1>d
    DEF Crash, Blame, Progress, Reading, Writing, Finished, Exceptions, inputVars, runVars, diskVars, readerVars, Mkstemp, Goto, Raise
  <1>8. ASSUME NEW p \in Runs, Flush(p) PROVE Crash(q)'
    BY <1>8, <1>a, <1>b, <1>c, <1>d
    DEF Crash, Blame, Progress, Reading, Writing, Finished, Exceptions, inputVars, runVars, diskVars, readerVars, Flush
  <1>9. ASSUME NEW p \in Runs, Close(p) PROVE Crash(q)'
    BY <1>9, <1>a, <1>b, <1>c, <1>d
    DEF Crash, Blame, Progress, Reading, Writing, Finished, Exceptions, inputVars, runVars, diskVars, readerVars, Close, Goto, Raise
  <1>10. ASSUME NEW p \in Runs, Replace(p) PROVE Crash(q)'
    BY <1>10, <1>a, <1>b, <1>c, <1>d
    DEF Crash, Blame, Progress, Reading, Writing, Finished, Exceptions, inputVars, runVars, diskVars, readerVars, Replace, Goto, Raise
  <1>11. ASSUME NEW p \in Runs, Cleanup(p) PROVE Crash(q)'
    BY <1>11, <1>a, <1>b, <1>c, <1>d
    DEF Crash, Blame, Progress, Reading, Writing, Finished, Exceptions, inputVars, runVars, diskVars, readerVars, Cleanup, Goto, Raise
  <1>12. ASSUME NEW p \in Runs, Exit(p) PROVE Crash(q)'
    <2>1. /\ UNCHANGED <<raised, blame, got, installed>>
          /\ exit'[q] \notin {None, 0} => exit[q] \notin {None, 0} \/ pc[q] = "raised"
      BY <1>12, <1>e DEF Exit, Goto
    <2> QED
      BY <2>1, <1>b, <1>c, <1>d DEF Crash, Progress
  <1>13. ASSUME NEW p \in Runs, Kill(p) PROVE Crash(q)'
    BY <1>13, <1>a, <1>b, <1>c, <1>d
    DEF Crash, Blame, Progress, Reading, Writing, Finished, Exceptions, inputVars, runVars, diskVars, readerVars, Kill, Goto
  <1>14. ASSUME NEW r \in Readers, ReaderBegin(r) PROVE Crash(q)'
    BY <1>14, <1>a, <1>b, <1>c, <1>d
    DEF Crash, Blame, Progress, Reading, Writing, Finished, Exceptions, inputVars, runVars, diskVars, readerVars, ReaderBegin
  <1>15. ASSUME NEW r \in Readers, ReaderLstat(r) PROVE Crash(q)'
    BY <1>15, <1>a, <1>b, <1>c, <1>d
    DEF Crash, Blame, Progress, Reading, Writing, Finished, Exceptions, inputVars, runVars, diskVars, readerVars, ReaderLstat
  <1>16. ASSUME NEW r \in Readers, ReaderOpen(r) PROVE Crash(q)'
    BY <1>16, <1>a, <1>b, <1>c, <1>d
    DEF Crash, Blame, Progress, Reading, Writing, Finished, Exceptions, inputVars, runVars, diskVars, readerVars, ReaderOpen
  <1>17. ASSUME NEW r \in Readers, ReaderRead(r) PROVE Crash(q)'
    BY <1>17, <1>a, <1>b, <1>c, <1>d
    DEF Crash, Blame, Progress, Reading, Writing, Finished, Exceptions, inputVars, runVars, diskVars, readerVars, ReaderRead
  <1>18. ASSUME NEW r \in Editable, Edit(r) PROVE Crash(q)'
    BY <1>18, <1>a, <1>b, <1>c, <1>d
    DEF Crash, Blame, Progress, Reading, Writing, Finished, Exceptions, inputVars, runVars, diskVars, readerVars, Edit
  <1>19. ASSUME UNCHANGED vars PROVE Crash(q)'
    BY <1>19, <1>a, <1>b, <1>c, <1>d
    DEF Crash, Blame, Progress, Reading, Writing, Finished, Exceptions, inputVars, runVars, diskVars, readerVars, vars
  <1> QED
    BY <1>1, <1>2, <1>3, <1>4, <1>5, <1>6, <1>7, <1>8, <1>9, <1>10, <1>11, <1>12, <1>13, <1>14, <1>15, <1>16, <1>17, <1>18, <1>19
    DEF Next, Step, ReaderStep

(* What each exit code says of a run, for every command: 2 and 3 are never *)
(* given for anything but the arguments and an input.  4 is the output, or *)
(* a schema of the installation, or an XCCDF or ARF file that could not be *)
(* read.  1 is the output, or the installation, or an input on which a     *)
(* parser of mappings or ARF files raises what nothing catches, or a crash *)
(* of a converter other than the one of convert.                           *)
CodeTells(p) ==
  /\ exit[p] = 0 => blame[p] = "none"
  /\ exit[p] = 1 =>
       \/ blame[p] \in {"output", "installation"}
       \/ /\ blame[p] = "input"
          /\ Meeting(p, Crashing) \/ (Verdict(p) = "Other" /\ Command[p] # "convert")
  /\ exit[p] = 2 => blame[p] = "usage"
  /\ exit[p] = 3 => blame[p] = "input"
  /\ exit[p] = 4 =>
       \/ blame[p] \in {"output", "installation"}
       \/ blame[p] = "input" /\ Meeting(p, {"xccdf", "arf"}) /\ data[p] = "none"

\* What an exit code tells of its cause, for every command.  Where codes 1 and 4
\* depart from docs/v0.1-cli-contract.md:45-51 the input that was met is named:
\* 4 for an XCCDF or ARF file that cannot be read (xccdf.py:114-121, arf.py:67);
\* 1 for a mapping nested too deeply (mapping.py:102, xccdf_mapping.py:35), a
\* comment where ET.QName expects an element (arf.py:115), and what a converter
\* raises on its own (mapping.py:145; xccdf_convert.py:15, 19 and 32).
THEOREM ExitCodesDelimited == Safety => [](\A p \in Runs : CodeTells(p))
  <1>1. ASSUME Inv, BlameInv, CrashInv, NEW p \in Runs PROVE CodeTells(p)
    <2>1. /\ Blame(p) /\ Crash(p) /\ Progress(p)
          /\ blame[p] \in Sides /\ raised[p] \in Exceptions
          /\ exit[p] \in {0, 1, 2, 3, 4} \cup {None}
          /\ exit[p] # None => (exit[p] = 0 <=> p \in installed)
          /\ Command[p] \in OvalCommands \cup XccdfCommands
      BY <1>1, ConstantsAssumption
      DEF Inv, BlameInv, CrashInv, ProgressInv, TypeOK, ExitTellsEffect
    <2>2. CASE exit[p] \in {2, 3}
      BY <2>1, <2>2, ConstantsAssumption DEF Blame, CodeTells, ExitCodeOf
    <2>3. CASE exit[p] = 4
      <3>1. raised[p] = "OSError" /\ blame[p] \in {"usage", "input", "installation", "output"}
        BY <2>1, <2>3, ConstantsAssumption DEF Blame, ExitCodeOf, Exceptions, Sides
      <3> QED
        BY <2>1, <2>3, <3>1, ConstantsAssumption DEF Blame, Progress, Crash, CodeTells
    <2>4. CASE exit[p] = 1
      <3>1. raised[p] = "Other" /\ blame[p] \in {"usage", "input", "installation", "output"}
        BY <2>1, <2>4, ConstantsAssumption DEF Blame, Crash, ExitCodeOf, Exceptions, Sides
      <3> QED
        BY <2>1, <2>4, <3>1, ConstantsAssumption DEF Blame, Progress, Crash, CodeTells
    <2>5. CASE exit[p] = 0
      BY <2>1, <2>5, ConstantsAssumption DEF Blame, Crash, CodeTells
    <2>6. CASE exit[p] = None
      BY <2>6, ConstantsAssumption DEF CodeTells
    <2> QED
      BY <2>1, <2>2, <2>3, <2>4, <2>5, <2>6
  <1>2. Safety => []BlameInv
    BY BlameInit, BlameStep, Invariance, PTL DEF Safety
  <1>3. Safety => []CrashInv
    BY <1>2, CrashInit, CrashStep, Invariance, PTL DEF Safety
  <1>4. Inv /\ BlameInv /\ CrashInv => \A p \in Runs : CodeTells(p)
    BY <1>1
  <1> QED
    BY <1>2, <1>3, <1>4, Invariance, PTL

=============================================================================
