---------------------------- MODULE AtomicOutput ----------------------------
(***************************************************************************)
(* What the artifact-writing commands promise, without saying how: an      *)
(* artifact path changes in one step from one complete artifact to the     *)
(* complete artifact of one successful run, a run that fails or is killed  *)
(* before that step changes nothing, and a reader obtains an artifact that *)
(* stood at its path at one instant.  docs/v0.1-cli-contract.md:13-14 and  *)
(* :54-55 are the prose of this module.                                    *)
(***************************************************************************)
CONSTANTS Runs, Readers, Outputs, OutputOf, Reads, None

VARIABLES artifact,   \* path -> the run whose artifact stands there
          status,     \* run -> how far its caller has seen it get
          view        \* reader -> the artifact it obtained

vars == <<artifact, status, view>>

Init ==
  /\ artifact \in [Outputs -> {None} \cup Outputs]
  /\ \A o \in Outputs : artifact[o] \in {None, o}
  /\ status = [p \in Runs |-> "idle"]
  /\ view = [r \in Readers |-> None]

Begin(p) ==
  /\ status[p] = "idle"
  /\ status' = [status EXCEPT ![p] = "pending"]
  /\ UNCHANGED <<artifact, view>>

\* The only step that changes an artifact path.
Publish(p) ==
  /\ status[p] = "pending"
  /\ artifact' = [artifact EXCEPT ![OutputOf[p]] = p]
  /\ status' = [status EXCEPT ![p] = "published"]
  /\ UNCHANGED view

\* Exit code 0 is reported only after Publish, any other only instead of it.
Succeed(p) ==
  /\ status[p] = "published"
  /\ status' = [status EXCEPT ![p] = "ok"]
  /\ UNCHANGED <<artifact, view>>

Fail(p) ==
  /\ status[p] = "pending"
  /\ status' = [status EXCEPT ![p] = "failed"]
  /\ UNCHANGED <<artifact, view>>

Die(p) ==
  /\ status[p] \in {"pending", "published"}
  /\ status' = [status EXCEPT ![p] = "killed"]
  /\ UNCHANGED <<artifact, view>>

Obtain(r) ==
  /\ view[r] = None
  /\ artifact[Reads[r]] # None
  /\ view' = [view EXCEPT ![r] = artifact[Reads[r]]]
  /\ UNCHANGED <<artifact, status>>

Settle(p) == Publish(p) \/ Succeed(p) \/ Fail(p) \/ Die(p)

Next ==
  \/ \E p \in Runs : Begin(p) \/ Settle(p)
  \/ \E r \in Readers : Obtain(r)

\* A run that has begun is never left hanging.
Fairness == \A p \in Runs : WF_vars(Settle(p))

Safety == Init /\ [][Next]_vars
Spec == Safety /\ Fairness
=============================================================================
