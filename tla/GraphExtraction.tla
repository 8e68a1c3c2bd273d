--------------------------- MODULE GraphExtraction ---------------------------
(***************************************************************************)
(* What buildDependencyGraph promises its caller, with the coordinates     *)
(* left out: spec section 4.1 (the related jobs and their signed levels,   *)
(* the focal job at 0, an ancestor one less than the job it was reached    *)
(* from, a descendant one more), section 4.3 (one edge for every related   *)
(* job whose parent_job is related) and section 4.4 (the call returns).    *)
(*                                                                         *)
(* The promise is stated for the job lists the server keeps consistent:    *)
(* no parent cycle, and dependent_jobs listing exactly the listed jobs     *)
(* that name the job as parent_job.  On a cycle the spec is not one        *)
(* promise: section 4.3 yields both links of a 2-cycle where Scenario 3    *)
(* expects one edge, and the level rule of 4.1 is first assignment wins,   *)
(* which the code breaks (run graph_levels).                               *)
(***************************************************************************)
EXTENDS JobDirectory

CONSTANTS
    Focal,        \* currentJob.name
    NoGraph       \* no result returned yet

VARIABLES
    jobMap,       \* the fetched jobs by name
    graph         \* the returned graph as [nodes, level, edges], or NoGraph

\* The job list has no parent cycle and its two kinds of link agree.
IsConsistent(dir) ==
    /\ \A S \in SUBSET DOMAIN dir \ {{}} : \E m \in S : dir[m].parent_job \notin S
    /\ \A n \in DOMAIN dir :
         {dir[n].dependent_jobs[i] : i \in DOMAIN dir[n].dependent_jobs}
            = {m \in DOMAIN dir : dir[m].parent_job = n}

\* The nodes G reaches from S in at most k steps.
RECURSIVE Within(_, _, _)
Within(G, S, k) == IF k = 0 THEN S ELSE Within(G, S \cup AllSuccessors(G, S), k - 1)

\* The number of steps from n to m in G, for m reachable from n.
Steps(G, n, m) ==
    CHOOSE k \in 0..Cardinality(G.node) :
        m \in Within(G, {n}, k) /\ (k = 0 \/ m \notin Within(G, {n}, k - 1))

\* Section 4.1's level of a related job.
PromisedLevel(dir, focal, m) ==
    IF m \in AncestorsIn(dir, focal) THEN -Steps(ParentGraphOf(dir), focal, m)
    ELSE IF m = focal THEN 0
    ELSE Steps(ChildGraphOf(dir), focal, m)

\* The nodes, their levels and the parent -> child edges promised.
PromisedGraph(dir, focal) ==
    LET related == RelatedIn(dir, focal) IN
    [nodes |-> related,
     level |-> [m \in related |-> PromisedLevel(dir, focal, m)],
     edges |-> {<<dir[c].parent_job, c>> :
                  c \in {m \in related : dir[m].parent_job \in related}}]

Init ==
    /\ IsJobList(jobMap) /\ IsConsistent(jobMap)
    /\ graph = NoGraph

Compute ==
    /\ graph = NoGraph
    /\ graph' = PromisedGraph(jobMap, Focal)
    /\ UNCHANGED jobMap

\* The result, once returned, is the promised graph and does not change.
SafetySpec == Init /\ [][Compute]_<<jobMap, graph>>

\* The call returns: the result is eventually there.
Spec == SafetySpec /\ WF_<<jobMap, graph>>(Compute)

\* Spec without its ENABLED: Compute is enabled exactly until it has been
\* taken, so under SafetySpec its weak fairness says the graph is returned.
Returns == <>(graph # NoGraph)
=============================================================================
