---------------------------- MODULE JobDirectory ----------------------------
(***************************************************************************)
(* The job data the diagram reads (interface Job of                        *)
(* src/ui/src/jobs/JobDependencyDiagram.tsx, without the fields only       *)
(* copied for display) and the relations among the jobs of a job list,     *)
(* used as reference definitions by the models of the diagram.            *)
(*                                                                         *)
(* A job list is a function from the names of the listed jobs to their     *)
(* records; a name outside its domain is a job that was not listed.        *)
(***************************************************************************)
EXTENDS Integers, Sequences, FiniteSets, Graphs

CONSTANTS
    Names,        \* every job name the data may mention
    NoParent      \* parent_job absent or empty

JobRecord == [parent_job: Names \cup {NoParent},
              dependent_jobs: Seq(Names)]

IsJobList(dir) ==
    /\ DOMAIN dir \subseteq Names
    /\ \A n \in DOMAIN dir : dir[n] \in JobRecord

\* The job n of dir has a parent_job that dir lists.
HasParentIn(dir, n) ==
    /\ dir[n].parent_job # NoParent
    /\ dir[n].parent_job \in DOMAIN dir

\* child -> parent links among the listed jobs.
ParentGraphOf(dir) ==
    [node |-> DOMAIN dir,
     edge |-> {<<n, dir[n].parent_job>> : n \in {m \in DOMAIN dir : HasParentIn(dir, m)}}]

\* job -> dependent job links among the listed jobs.
ChildGraphOf(dir) ==
    [node |-> DOMAIN dir,
     edge |-> {e \in (DOMAIN dir) \X (DOMAIN dir) : Contains(dir[e[1]].dependent_jobs, e[2])}]

AncestorsIn(dir, focal) ==
    IF focal \in DOMAIN dir THEN Descendants(ParentGraphOf(dir), focal) ELSE {}

DescendantsIn(dir, focal) ==
    IF focal \in DOMAIN dir THEN Descendants(ChildGraphOf(dir), focal) ELSE {}

\* The listed jobs a diagram around focal is to show.
RelatedIn(dir, focal) ==
    IF focal \in DOMAIN dir
      THEN {focal} \cup AncestorsIn(dir, focal) \cup DescendantsIn(dir, focal)
      ELSE {}
=============================================================================
