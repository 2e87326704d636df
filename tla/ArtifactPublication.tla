------------------------ MODULE ArtifactPublication ------------------------
(***************************************************************************)
(* The artifact-writing commands of the CLI (convert, report,              *)
(* convert-xccdf, convert-arf-xccdf) as concurrent operating-system        *)
(* processes over one artifact directory, with the input files rewritten   *)
(* under them, operating-system errors, kills, and diff/findings reading   *)
(* the artifacts meanwhile.                                                *)
(*                                                                         *)
(* The directory is a map from names to inodes.  Every run creates at most *)
(* one inode, so the run itself names it; an artifact that was there       *)
(* before is the inode named by its path.  What an inode holds is how much *)
(* of its document has been written: the document is what the run parsed.  *)
(***************************************************************************)
EXTENDS Naturals

CONSTANTS
  Runs,          \* invocations of an artifact-writing command
  Command,       \* run -> its subcommand
  Mapped,        \* the convert runs that were given --mapping
  Outputs,       \* artifact paths, all in one parent directory
  OutputOf,      \* run -> its --output
  TempNames,     \* names mkstemp can choose in that directory
  Readers,       \* _read_json calls of diff and findings
  Reads,         \* reader -> the artifact path it reads
  Contents,      \* role -> the byte strings its parser accepts
  Malformed,     \* bytes every parser rejects
  Unguarded,     \* bytes of which a parser raises what nothing catches
  SameSchema,    \* <<results, definitions>> of one OVAL schema version
  Defined,       \* <<results, definitions>>, every result has a definition
  Convertible,   \* XCCDF and ARF bytes with times Python can read and all identifiers
  OneReport,     \* ARF bytes with exactly one linked XCCDF report
  ParentExists,  \* whether the artifact directory exists at first
  InitialFile,   \* role -> what its input path holds at first
  Editable,      \* roles whose file is rewritten while runs are active
  MaxEdits,      \* bound on those rewrites
  None, Absent, Irregular

OvalCommands == {"convert", "report"}
XccdfCommands == {"convert-xccdf", "convert-arf-xccdf"}
Roles == {"results", "definitions", "mapping", "xccdf", "arf", "xccdf-mapping"}

\* Inputs that are validated with a schema of the installation, and inputs a
\* parser may fail on without a diagnostic: json.loads of a mapping nested too
\* deeply (RecursionError), ET.QName of a comment in an ARF (ValueError).
Validated == {"results", "definitions", "xccdf", "arf"}
Crashing == {"mapping", "xccdf-mapping", "arf"}

ASSUME ConstantsAssumption ==
  /\ Command \in [Runs -> OvalCommands \cup XccdfCommands]
  /\ OutputOf \in [Runs -> Outputs]
  /\ Reads \in [Readers -> Outputs]
  /\ Outputs \cap TempNames = {}
  /\ Runs \cap Outputs = {}
  /\ None \notin Runs \cup Outputs \cup TempNames
  /\ None \notin 0..4
  /\ MaxEdits \in Nat
  /\ ParentExists \in BOOLEAN
  /\ Editable \subseteq Roles
  /\ \A r \in Roles : /\ {None, Absent, Irregular, Malformed, Unguarded} \cap Contents[r] = {}
                      /\ InitialFile[r] \in Contents[r] \cup {Malformed, Absent, Irregular}
  /\ {None, Absent, Irregular} \cap {Malformed, Unguarded} = {}
  /\ Malformed # Unguarded

VARIABLES
  file,       \* role -> what its input path holds now
  edits,      \* rewrites of input files so far
  pc,         \* run -> the statement it is about to execute
  got,        \* run -> role -> the bytes it parsed
  raised,     \* run -> the exception in flight
  blame,      \* run -> what failed: arguments, input, installation, output (history)
  parent,     \* the artifact directory exists
  entry,      \* directory: name -> inode
  data,       \* inode -> how much of its document it holds
  temp,       \* run -> the name mkstemp gave it
  exit,       \* run -> its exit code
  installed,  \* runs whose os.replace returned (history)
  rpc,        \* reader -> the statement it is about to execute
  held,       \* reader -> the inode it has open
  seen        \* reader -> how much of a document it got

inputVars == <<file, edits>>
runVars == <<pc, got, raised, blame, temp, exit, installed>>
diskVars == <<parent, entry, data>>
readerVars == <<rpc, held, seen>>
vars == <<inputVars, runVars, diskVars, readerVars>>

Inodes == Runs \cup Outputs
Names == Outputs \cup TempNames
Portions == {"none", "empty", "partial", "whole"}
Bytes(r) == Contents[r] \cup {Malformed} \cup (IF r \in Crashing THEN {Unguarded} ELSE {})

Reading == {"lstat", "read", "convert"}
Writing == {"write", "replace", "cleanup"}
Live == Reading \cup {"mkdir", "mkstemp", "raised", "return"} \cup Writing
Finished == {"exited", "killed"}
Statements == {"idle"} \cup Live \cup Finished
Exceptions == {"none", "UsageError", "OvalInputError", "OSError", "Other"}
Sides == {"none", "usage", "input", "installation", "output"}
ParsedBytes == UNION {Contents[r] : r \in Roles}

-----------------------------------------------------------------------------
(* Which inputs a command reads, and in which order.                       *)

Needs(p) ==
  IF Command[p] = "convert-xccdf" THEN {"xccdf", "xccdf-mapping"}
  ELSE IF Command[p] = "convert-arf-xccdf" THEN {"arf", "xccdf-mapping"}
  ELSE {"results", "definitions"} \cup
       (IF Command[p] = "report" \/ p \in Mapped THEN {"mapping"} ELSE {})

ReadBefore == {<<"results", "definitions">>, <<"results", "mapping">>,
               <<"definitions", "mapping">>, <<"xccdf", "xccdf-mapping">>,
               <<"arf", "xccdf-mapping">>}

\* r is the next input of p.
Due(p, r) ==
  /\ r \in Needs(p)
  /\ got[p][r] = None
  /\ \A s \in Needs(p) : <<s, r>> \in ReadBefore => got[p][s] # None

\* The faulty variant of ReadError: no reader converts an error of read_bytes.
UnconvertedReadError(r) == "OSError"

\* inspect_xccdf converts only FileNotFoundError of lstat, and neither it nor
\* arf._read converts an error of read_bytes; every other reader converts all.
LstatError(r) == IF r = "xccdf" THEN "OSError" ELSE "OvalInputError"
ReadError(r) == IF r \in {"xccdf", "arf"} THEN "OSError" ELSE "OvalInputError"

(* What the payload builder makes of the inputs: "ok" or the exception.    *)
Verdict(p) ==
  LET in == got[p]
      convertible == \A r \in {"xccdf", "arf"} \cap Needs(p) : in[r] \in Convertible
      faulty == IF Command[p] = "convert"
                  THEN <<in["results"], in["definitions"]>> \notin SameSchema \cap Defined
                  ELSE Command[p] = "convert-arf-xccdf" /\ in["arf"] \notin OneReport
      crashes == \/ /\ Command[p] = "report"    \* a KeyError
                    /\ <<in["results"], in["definitions"]>> \notin Defined
                 \/ ~convertible                \* a ValueError or TypeError
  IN IF faulty THEN "OvalInputError" ELSE IF crashes THEN "Other" ELSE "ok"

-----------------------------------------------------------------------------
Init ==
  /\ file = InitialFile
  /\ edits = 0
  /\ pc = [p \in Runs |-> "idle"]
  /\ got = [p \in Runs |-> [r \in Roles |-> None]]
  /\ raised = [p \in Runs |-> "none"]
  /\ blame = [p \in Runs |-> "none"]
  /\ temp = [p \in Runs |-> None]
  /\ exit = [p \in Runs |-> None]
  /\ installed = {}
  /\ entry \in [Names -> {None} \cup Outputs]
  /\ \A n \in Names : entry[n] # None => n = entry[n]
  /\ parent = ParentExists
  /\ ~parent => \A o \in Outputs : entry[o] = None
  /\ data = [i \in Inodes |-> IF i \in Outputs THEN "whole" ELSE "none"]
  /\ rpc = [r \in Readers |-> "idle"]
  /\ held = [r \in Readers |-> None]
  /\ seen = [r \in Readers |-> None]

\* An exception leaves statement to; side says what failed.
Raise(p, exception, side, to) ==
  /\ raised' = [raised EXCEPT ![p] = exception]
  /\ blame' = [blame EXCEPT ![p] = side]
  /\ pc' = [pc EXCEPT ![p] = to]

Goto(p, to) ==
  /\ pc' = [pc EXCEPT ![p] = to]
  /\ UNCHANGED <<raised, blame>>

-----------------------------------------------------------------------------
(* Faulty variants of the definitions below: what a plausible mistake in   *)
(* the code would make of them.  No specification uses them; each shows    *)
(* that a property can tell the mistake from the code.                     *)

\* The reserved internal code for an exception no handler names.
InternalExitCodeOf(exception) ==
  CASE exception = "UsageError" -> 2 [] exception = "OvalInputError" -> 3
    [] exception = "OSError" -> 4 [] OTHER -> 5

\* The check for absent definitions without the one for schema versions.
ConvertUnchecked(p) ==
  /\ pc[p] = "convert"
  /\ IF <<got[p]["results"], got[p]["definitions"]>> \in Defined
       THEN Goto(p, "mkdir")
       ELSE Raise(p, Verdict(p), "input", "raised")
  /\ UNCHANGED <<inputVars, diskVars, readerVars, got, temp, exit, installed>>

\* The directory is made before the payload is built.
ConvertAfterMkdir(p) ==
  /\ pc[p] = "convert"
  /\ parent' = TRUE
  /\ IF Verdict(p) = "ok"
       THEN Goto(p, "mkdir")
       ELSE Raise(p, Verdict(p), "input", "raised")
  /\ UNCHANGED <<inputVars, readerVars, entry, data, got, temp, exit, installed>>

\* The artifact itself is opened for writing.
MkstempInPlace(p) ==
  /\ pc[p] = "mkstemp"
  /\ \E n \in TempNames :
       /\ entry' = [entry EXCEPT ![n] = p, ![OutputOf[p]] = p]
       /\ temp' = [temp EXCEPT ![p] = n]
  /\ data' = [data EXCEPT ![p] = "empty"]
  /\ Goto(p, "write")
  /\ UNCHANGED <<inputVars, readerVars, parent, got, exit, installed>>

\* One temporary name for all: a run waits until it is free.
MkstempWaits(p) ==
  /\ pc[p] = "mkstemp"
  /\ \E n \in TempNames :
       /\ entry[n] = None
       /\ entry' = [entry EXCEPT ![n] = p]
       /\ temp' = [temp EXCEPT ![p] = n]
  /\ data' = [data EXCEPT ![p] = "empty"]
  /\ Goto(p, "write")
  /\ UNCHANGED <<inputVars, readerVars, parent, got, exit, installed>>

\* os.replace inside the with statement, before the stream is closed.
CloseAfterReplace(p) ==
  /\ pc[p] = "write"
  /\ Goto(p, "replace")
  /\ UNCHANGED <<inputVars, readerVars, diskVars, got, temp, exit, installed>>

\* except OSError in place of except Exception.
CloseUnguarded(p) ==
  /\ pc[p] = "write"
  /\ \/ /\ data' = [data EXCEPT ![p] = "whole"]
        /\ Goto(p, "replace")
     \/ /\ Raise(p, "OSError", "output", "cleanup")
        /\ UNCHANGED data
     \/ /\ Raise(p, "Other", "output", "raised")
        /\ UNCHANGED data
  /\ UNCHANGED <<inputVars, readerVars, parent, entry, got, temp, exit, installed>>

\* A statement that can fail follows os.replace in the try block.
ReplaceThenSync(p) ==
  /\ pc[p] = "replace"
  /\ entry' = [entry EXCEPT ![OutputOf[p]] = entry[temp[p]], ![temp[p]] = None]
  /\ installed' = installed \cup {p}
  /\ Goto(p, "return") \/ Raise(p, "OSError", "output", "cleanup")
  /\ UNCHANGED <<inputVars, readerVars, parent, data, got, temp, exit>>

\* The artifact is removed together with the temporary file.
CleanupArtifact(p) ==
  /\ pc[p] = "cleanup"
  /\ entry' = [entry EXCEPT ![temp[p]] = None, ![OutputOf[p]] = None]
  /\ Goto(p, "raised")
  /\ UNCHANGED <<inputVars, readerVars, parent, data, got, temp, exit, installed>>

\* The exception is not raised again after the cleanup.
CleanupSwallows(p) ==
  /\ pc[p] = "cleanup"
  /\ entry' = [entry EXCEPT ![temp[p]] = None]
  /\ Goto(p, "return")
  /\ UNCHANGED <<inputVars, readerVars, parent, data, got, temp, exit, installed>>

\* The reader reads until it gets more than an empty file.
ReadWaits(r) ==
  /\ rpc[r] = "read"
  /\ data[held[r]] = "partial"
  /\ seen' = [seen EXCEPT ![r] = data[held[r]]]
  /\ rpc' = [rpc EXCEPT ![r] = "done"]
  /\ UNCHANGED <<inputVars, runVars, diskVars, held>>

-----------------------------------------------------------------------------
(* Reading: one lstat and one read_bytes per input, in order.              *)

Begin(p) ==
  /\ pc[p] = "idle"
  /\ Goto(p, "lstat")
  /\ UNCHANGED <<inputVars, diskVars, readerVars, got, temp, exit, installed>>

BadArguments(p) ==
  /\ pc[p] = "idle"
  /\ Raise(p, "UsageError", "usage", "raised")
  /\ UNCHANGED <<inputVars, diskVars, readerVars, got, temp, exit, installed>>

Lstat(p, r) ==
  /\ pc[p] = "lstat"
  /\ Due(p, r)
  /\ \/ /\ file[r] \notin {Absent, Irregular}
        /\ Goto(p, "read")
     \/ /\ file[r] \in {Absent, Irregular}
        /\ Raise(p, "OvalInputError", "input", "raised")
     \/ Raise(p, LstatError(r), "input", "raised")
  /\ UNCHANGED <<inputVars, diskVars, readerVars, got, temp, exit, installed>>

\* The path may have changed since lstat: read_bytes follows a symbolic link
\* to any bytes, and fails on a directory or on nothing.
Read(p, r) ==
  /\ pc[p] = "read"
  /\ Due(p, r)
  /\ \/ \E bytes \in IF file[r] = Irregular THEN Bytes(r) ELSE {file[r]} \cap Bytes(r) :
          \/ /\ bytes \in Contents[r]
             /\ got' = [got EXCEPT ![p][r] = bytes]
             /\ Goto(p, IF \E s \in Needs(p) \ {r} : got[p][s] = None
                          THEN "lstat" ELSE "convert")
          \/ /\ bytes \notin Contents[r]
             /\ Raise(p, IF bytes = Unguarded THEN "Other" ELSE "OvalInputError", "input", "raised")
             /\ UNCHANGED got
          \/ /\ r \in Validated   \* the schema cannot be read, or not compiled
             /\ \E exception \in {"OSError", "Other"} :
                  Raise(p, exception, "installation", "raised")
             /\ UNCHANGED got
     \/ /\ Raise(p, ReadError(r), "input", "raised")
        /\ UNCHANGED got
  /\ UNCHANGED <<inputVars, diskVars, readerVars, temp, exit, installed>>

Convert(p) ==
  /\ pc[p] = "convert"
  /\ IF Verdict(p) = "ok"
       THEN Goto(p, "mkdir")
       ELSE Raise(p, Verdict(p), "input", "raised")
  /\ UNCHANGED <<inputVars, diskVars, readerVars, got, temp, exit, installed>>

-----------------------------------------------------------------------------
(* Writing: a temporary file beside the artifact, then os.replace.         *)

Mkdir(p) ==
  /\ pc[p] = "mkdir"
  /\ \/ /\ parent' = TRUE
        /\ Goto(p, "mkstemp")
     \/ /\ Raise(p, "OSError", "output", "raised")
        /\ UNCHANGED parent
  /\ UNCHANGED <<inputVars, readerVars, entry, data, got, temp, exit, installed>>

Mkstemp(p) ==
  /\ pc[p] = "mkstemp"
  /\ \/ \E n \in TempNames :
          /\ entry[n] = None
          /\ entry' = [entry EXCEPT ![n] = p]
          /\ data' = [data EXCEPT ![p] = "empty"]
          /\ temp' = [temp EXCEPT ![p] = n]
          /\ Goto(p, "write")
     \/ /\ Raise(p, "OSError", "output", "raised")
        /\ UNCHANGED <<entry, data, temp>>
  /\ UNCHANGED <<inputVars, readerVars, parent, got, exit, installed>>

\* Any buffer but the last reaches the file before the stream is closed.
Flush(p) ==
  /\ pc[p] = "write"
  /\ data[p] = "empty"
  /\ data' = [data EXCEPT ![p] = "partial"]
  /\ UNCHANGED <<inputVars, runVars, readerVars, parent, entry>>

\* fdopen, fchmod, write or the implicit close of the with statement.
Close(p) ==
  /\ pc[p] = "write"
  /\ \/ /\ data' = [data EXCEPT ![p] = "whole"]
        /\ Goto(p, "replace")
     \/ \E exception \in {"OSError", "Other"} :
          /\ Raise(p, exception, "output", "cleanup")
          /\ UNCHANGED data
  /\ UNCHANGED <<inputVars, readerVars, parent, entry, got, temp, exit, installed>>

Replace(p) ==
  /\ pc[p] = "replace"
  /\ \/ /\ entry' = [entry EXCEPT ![OutputOf[p]] = entry[temp[p]], ![temp[p]] = None]
        /\ installed' = installed \cup {p}
        /\ Goto(p, "return")
     \/ /\ Raise(p, "OSError", "output", "cleanup")
        /\ UNCHANGED <<entry, installed>>
  /\ UNCHANGED <<inputVars, readerVars, parent, data, got, temp, exit>>

\* except Exception: unlink(missing_ok=True) and re-raise; a failing unlink
\* raises its own OSError instead and leaves the temporary file.
Cleanup(p) ==
  /\ pc[p] = "cleanup"
  /\ \/ /\ entry' = [entry EXCEPT ![temp[p]] = None]
        /\ Goto(p, "raised")
     \/ /\ Raise(p, "OSError", "output", "raised")
        /\ UNCHANGED entry
  /\ UNCHANGED <<inputVars, readerVars, parent, data, got, temp, exit, installed>>

-----------------------------------------------------------------------------
(* Exit codes: the handlers of main, or the interpreter's 1.               *)

ExitCodeOf(exception) ==
  IF exception = "UsageError" THEN 2
  ELSE IF exception = "OvalInputError" THEN 3
  ELSE IF exception = "OSError" THEN 4
  ELSE 1

Exit(p) ==
  /\ \/ /\ pc[p] = "raised"
        /\ exit' = [exit EXCEPT ![p] = ExitCodeOf(raised[p])]
     \/ /\ pc[p] = "return"
        /\ exit' = [exit EXCEPT ![p] = 0]
  /\ Goto(p, "exited")
  /\ UNCHANGED <<inputVars, diskVars, readerVars, got, temp, installed>>

\* SIGKILL, SIGTERM, or Ctrl-C: KeyboardInterrupt is not an Exception, so no
\* handler of main and no cleanup runs.
Kill(p) ==
  /\ pc[p] \in Live
  /\ Goto(p, "killed")
  /\ UNCHANGED <<inputVars, diskVars, readerVars, got, temp, exit, installed>>

-----------------------------------------------------------------------------
(* diff and findings: _read_json, an lstat and then open and read.         *)

ReaderBegin(r) ==
  /\ rpc[r] = "idle"
  /\ rpc' = [rpc EXCEPT ![r] = "lstat"]
  /\ UNCHANGED <<inputVars, runVars, diskVars, held, seen>>

ReaderLstat(r) ==
  /\ rpc[r] = "lstat"
  /\ rpc' = [rpc EXCEPT ![r] = IF entry[Reads[r]] = None THEN "rejected" ELSE "open"]
  /\ UNCHANGED <<inputVars, runVars, diskVars, held, seen>>

ReaderOpen(r) ==
  /\ rpc[r] = "open"
  /\ IF entry[Reads[r]] = None
       THEN /\ rpc' = [rpc EXCEPT ![r] = "rejected"]
            /\ UNCHANGED held
       ELSE /\ rpc' = [rpc EXCEPT ![r] = "read"]
            /\ held' = [held EXCEPT ![r] = entry[Reads[r]]]
  /\ UNCHANGED <<inputVars, runVars, diskVars, seen>>

ReaderRead(r) ==
  /\ rpc[r] = "read"
  /\ \/ /\ seen' = [seen EXCEPT ![r] = data[held[r]]]
        /\ rpc' = [rpc EXCEPT ![r] = "done"]
     \/ /\ rpc' = [rpc EXCEPT ![r] = "rejected"]
        /\ UNCHANGED seen
  /\ UNCHANGED <<inputVars, runVars, diskVars, held>>

-----------------------------------------------------------------------------
(* The input files belong to others, who may rewrite them at any time.     *)

Edit(r) ==
  /\ edits < MaxEdits
  /\ edits' = edits + 1
  /\ \E content \in (Bytes(r) \cup {Absent, Irregular}) \ {file[r]} :
       file' = [file EXCEPT ![r] = content]
  /\ UNCHANGED <<runVars, diskVars, readerVars>>

Step(p) ==
  \/ \E r \in Roles : Lstat(p, r) \/ Read(p, r)
  \/ Convert(p) \/ Mkdir(p) \/ Mkstemp(p)
  \/ Flush(p) \/ Close(p) \/ Replace(p) \/ Cleanup(p) \/ Exit(p)

ReaderStep(r) == ReaderLstat(r) \/ ReaderOpen(r) \/ ReaderRead(r)

Next ==
  \/ \E p \in Runs : Begin(p) \/ BadArguments(p) \/ Step(p) \/ Kill(p)
  \/ \E r \in Readers : ReaderBegin(r) \/ ReaderStep(r)
  \/ \E r \in Editable : Edit(r)

\* A started process is scheduled until it ends.
Fairness ==
  /\ \A p \in Runs : WF_vars(Step(p))
  /\ \A r \in Readers : WF_vars(ReaderStep(r))

Safety == Init /\ [][Next]_vars
Spec == Safety /\ Fairness
-----------------------------------------------------------------------------
(* Properties.                                                             *)

TypeOK ==
  /\ edits \in 0..MaxEdits
  /\ \A r \in Roles : file[r] \in Bytes(r) \cup {Absent, Irregular}
  /\ pc \in [Runs -> Statements]
  /\ got \in [Runs -> [Roles -> ParsedBytes \cup {None}]]
  /\ raised \in [Runs -> Exceptions]
  /\ blame \in [Runs -> Sides]
  /\ temp \in [Runs -> TempNames \cup {None}]
  /\ exit \in [Runs -> {0, 1, 2, 3, 4} \cup {None}]
  /\ installed \subseteq Runs
  /\ parent \in BOOLEAN
  /\ entry \in [Names -> Inodes \cup {None}]
  /\ data \in [Inodes -> Portions]
  /\ rpc \in [Readers -> {"idle", "lstat", "open", "read", "done", "rejected"}]
  /\ held \in [Readers -> Inodes \cup {None}]
  /\ seen \in [Readers -> Portions \cup {None}]

\* An artifact path never names a file that is still being written, or was
\* abandoned half-written by a killed or failed run: cli.py replaces the
\* artifact only after the with statement has closed the temporary file.
ArtifactsAreWhole ==
  \A o \in Outputs : entry[o] # None => data[entry[o]] = "whole"

\* The inputs p parsed are all there, and convert saw matching documents.
Accepted(p) ==
  /\ \A r \in Needs(p) : got[p][r] \in Contents[r]
  /\ Command[p] \in OvalCommands =>
       <<got[p]["results"], got[p]["definitions"]>> \in Defined
  /\ Command[p] = "convert" =>
       <<got[p]["results"], got[p]["definitions"]>> \in SameSchema
  /\ Command[p] = "convert-arf-xccdf" => got[p]["arf"] \in OneReport

\* Whatever is done to the input files while a run reads them, an artifact
\* that replaces another is the requested one of a run whose parsed inputs
\* were all accepted, in the combination the converter checked: the check in
\* convert.py:29-37 binds the bytes that were parsed, not the files.
ArtifactsAreAccepted ==
  \A o \in Outputs :
    entry[o] \in Runs => OutputOf[entry[o]] = o /\ Accepted(entry[o])

\* A temporary file belongs to one run that is still using it, or was killed
\* with it, or has told its caller that an output operation failed: a run
\* that ends with any other code than 4 has left none behind (cli.py:163-165
\* and docs/evidence-handling.md:16-17).
TempsAreAccountedFor ==
  \A n \in TempNames :
    entry[n] # None =>
      LET p == entry[n]
      IN /\ p \in Runs /\ temp[p] = n
         /\ \/ pc[p] \in Writing \cup {"killed"}
            \/ pc[p] = "raised" /\ raised[p] = "OSError"
            \/ pc[p] = "exited" /\ exit[p] = 4

\* A run that reports success has installed its artifact, and one that
\* reports a failure of any kind has not: no error is raised after os.replace
\* and none before it is swallowed.
ExitTellsEffect ==
  \A p \in Runs : exit[p] # None => (exit[p] = 0 <=> p \in installed)

\* Code 2 blames the arguments and code 3 an input, and code 4 neither: the table
\* of exit codes in docs/v0.1-cli-contract.md:45-51 has it for the output.  (A
\* schema of the installation that cannot be read ends with 4 as well.)
NamesCause(p) ==
  /\ exit[p] = 3 => blame[p] = "input"
  /\ exit[p] = 4 => blame[p] \in {"output", "installation"}
  /\ exit[p] = 2 => blame[p] = "usage"

\* No command takes a failure of an input for one of the output.
ExitNamesCause == \A p \in Runs : NamesCause(p)

\* An input that is missing, malformed or inconsistent with another exits with
\* code 3 and its diagnostic ("A missing definition, unsupported schema
\* version, unresolved mapping, or malformed XML exits nonzero with an
\* actionable diagnostic", docs/v0.1-oval-results-mapping.md:74-76).
InputFaultsAreDiagnosed ==
  \A p \in Runs : exit[p] # None /\ blame[p] = "input" => exit[p] = 3

\* The OVAL commands never do: oval._read_xml and mapping._read_mapping turn
\* every error of lstat and read_bytes into an OvalInputError, so that none is
\* taken for an output failure.
OvalExitNamesCause ==
  \A p \in Runs : Command[p] \in OvalCommands => NamesCause(p)

\* A run that fails on its inputs has created neither a file nor, if it was
\* alone, the artifact directory (docs/v0.1-cli-contract.md:55): all reading
\* and converting precedes mkdir.
RejectedInputLeavesNoTrace ==
  /\ \A p \in Runs : blame[p] \in {"usage", "input", "installation"} => data[p] = "none"
  /\ (\A p \in Runs : pc[p] \in {"idle"} \cup Reading \/ blame[p] \in {"usage", "input", "installation"})
       => parent = ParentExists

\* diff and findings never get part of a document, although they open and
\* read the path in separate steps while runs replace it.
ReadersSeeWholeArtifacts == \A r \in Readers : seen[r] \in {None, "whole"}

\* A step changes an artifact path only to put there, whole and for the first
\* time, the document of a run that was asked to write that path, and never
\* changes a document that has been installed.
ArtifactChange ==
  /\ \A o \in Outputs : entry'[o] # entry[o] =>
       \E p \in Runs \ installed :
         /\ entry'[o] = p /\ OutputOf[p] = o /\ data[p] = "whole"
         /\ installed' = installed \cup {p}
  /\ \A i \in installed \cup Outputs : data'[i] = data[i]

OnlyReplaceChangesArtifacts == [][ArtifactChange]_vars

\* A run that has been started and is not killed reports an exit code, and a
\* reader that has been started ends: nothing waits for another process.
EveryRunEnds == \A p \in Runs : (pc[p] # "idle") ~> (pc[p] \in Finished)
EveryReaderEnds == \A r \in Readers : (rpc[r] # "idle") ~> (rpc[r] \in {"done", "rejected"})

-----------------------------------------------------------------------------
(* The invariant that carries the safety properties, by induction.         *)

\* What a run has done by the statement it has reached.
Progress(p) ==
  /\ pc[p] \in {"idle", "mkdir", "mkstemp"} \cup Reading \/ blame[p] \in {"usage", "input", "installation"}
       => temp[p] = None /\ data[p] = "none" /\ p \notin installed
  /\ pc[p] \in Writing =>
       /\ temp[p] \in TempNames /\ entry[temp[p]] = p /\ p \notin installed
  /\ pc[p] = "replace" => data[p] = "whole"
  /\ pc[p] \in {"raised", "cleanup"} => raised[p] # "none" /\ p \notin installed
  /\ pc[p] = "return" => p \in installed
  /\ exit[p] # None <=> pc[p] = "exited"
  /\ blame[p] \in {"usage", "input", "installation"} => pc[p] \in {"raised"} \cup Finished

ProgressInv == \A p \in Runs : Progress(p)

\* Past the converter the parsed inputs are the accepted ones.
AcceptedSoFar(p) ==
  /\ \A r \in Roles : got[p][r] \in Contents[r] \cup {None}
  /\ pc[p] = "convert" => \A r \in Needs(p) : got[p][r] # None
  /\ pc[p] \in {"mkdir", "mkstemp"} \cup Writing => Accepted(p)
  /\ p \in installed => Accepted(p)

AcceptedInv == \A p \in Runs : AcceptedSoFar(p)

\* What is installed is whole, and no artifact is anything else.
InstalledInv ==
  /\ \A i \in installed \cup Outputs : data[i] = "whole"
  /\ \A o \in Outputs : entry[o] # None =>
       \/ entry[o] = o
       \/ entry[o] \in installed /\ OutputOf[entry[o]] = o
  /\ \A n \in TempNames : entry[n] \notin installed

\* What a reader has open was installed when it opened it.
ReaderInv ==
  \A r \in Readers :
    /\ held[r] # None => held[r] \in installed \cup Outputs
    /\ rpc[r] = "read" => held[r] # None
    /\ rpc[r] \in {"idle", "lstat", "open"} => held[r] = None

Inv ==
  /\ TypeOK
  /\ ProgressInv
  /\ AcceptedInv
  /\ InstalledInv
  /\ ReaderInv
  /\ TempsAreAccountedFor
  /\ ExitTellsEffect
  /\ ReadersSeeWholeArtifacts

-----------------------------------------------------------------------------
(* Refinement: os.replace is the only publishing step.  An inode that is   *)
(* not whole maps to a value no abstract artifact has, and a reader        *)
(* obtains its artifact when it opens the path.                            *)

Document(i) == IF i = None \/ data[i] = "whole" THEN i ELSE "torn"

StatusOf(p) ==
  IF pc[p] \in {"idle", "killed"} THEN pc[p]
  ELSE IF pc[p] = "return" THEN "published"
  ELSE IF pc[p] = "exited" THEN IF exit[p] = 0 THEN "ok" ELSE "failed"
  ELSE "pending"

Abstract == INSTANCE AtomicOutput WITH
  artifact <- [o \in Outputs |-> Document(entry[o])],
  status <- [p \in Runs |-> StatusOf(p)],
  view <- [r \in Readers |-> Document(held[r])]

\* The whole protocol of temporary file, close, replace and cleanup behaves,
\* for callers and readers, like one atomic publication per successful run.
PublishesAtomically == Abstract!Spec
=============================================================================
