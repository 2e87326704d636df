-------------------------- MODULE MCReleasePipeline --------------------------
(* One tag of each kind and the checkout of a maintainer.  What is in a      *)
(* release, in a directory the boundary check refuses and in one that a      *)
(* build has left is read by no step, only by the properties; so states that *)
(* differ in it alone, and in which the same properties hold, are seen as    *)
(* one.                                                                      *)
EXTENDS ReleasePipeline

IsRead(p) ==
  IF p = "local" THEN job[p].pc # "idle"
                 ELSE At(p, "boundary") => BoundaryAccepts(dir[p], p, job[p].commit)

Seen ==
  <<commits, record, tags, job, artifact,
    [p \in Places |-> IF IsRead(p) THEN dir[p] ELSE dir[p] # None],
    [tag \in Tags |-> releases[tag] # None],
    TypeOK, PublishedIsOfTag, AcceptedAgreesWithManifest>>
=============================================================================
