-------------------------- MODULE ReleaseRegistry --------------------------
(***************************************************************************)
(* What the release process promises, without builds, jobs or files: under *)
(* a prerelease tag that was pushed, once and for good, a release appears  *)
(* in one step, and it is of the commit the tag was pushed for, whose      *)
(* package has the version the tag states.  No other tag is released.      *)
(***************************************************************************)
EXTENDS Naturals, Sequences

CONSTANTS PreTags, GaTags, None

VARIABLES
  history,   \* the package version of each commit, as the tag that states it
  pushed,    \* the commit of each tag, or None
  published  \* the commits that what is published under a tag is of, or None

registry == <<history, pushed, published>>
AllTags == PreTags \cup GaTags

Init ==
  /\ history \in {<<tag>> : tag \in AllTags}
  /\ pushed = [tag \in AllTags |-> None] /\ published = [tag \in AllTags |-> None]

Commit ==
  /\ \E version \in AllTags : history' = Append(history, version)
  /\ UNCHANGED <<pushed, published>>

Push(tag) ==
  /\ pushed[tag] = None
  /\ \E commit \in 1 .. Len(history) : pushed' = [pushed EXCEPT ![tag] = commit]
  /\ UNCHANGED <<history, published>>

Release(tag) ==
  /\ pushed[tag] # None /\ history[pushed[tag]] = tag /\ published[tag] = None
  /\ published' = [published EXCEPT ![tag] = {pushed[tag]}]
  /\ UNCHANGED <<history, pushed>>

Next ==
  \/ Commit
  \/ \E tag \in AllTags : Push(tag)
  \/ \E tag \in PreTags : Release(tag)

Spec == Init /\ [][Next]_registry
=============================================================================
