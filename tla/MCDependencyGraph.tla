------------------------- MODULE MCDependencyGraph -------------------------
(***************************************************************************)
(* Model of buildDependencyGraph over every small job list: the fetched    *)
(* jobs are any non-empty subset of a few names, references may name jobs  *)
(* that were not fetched.                                                  *)
(***************************************************************************)
EXTENDS DependencyGraph

CONSTANTS a, b, c, d

Names3 == {a, b, c}
Names4 == {a, b, c, d}
FocalA == a

\* dependent_jobs of up to two distinct names, in either order.
DepLists == {<<>>} \cup {<<x>> : x \in Names} \cup {<<x, y>> \in Names \X Names : x # y}

\* Any data the API may return: parent_job and dependent_jobs unrelated,
\* cycles and dangling references included.
AnyDirectories ==
    UNION {[D -> [parent_job: Names \cup {NoParent}, dependent_jobs: DepLists]] :
             D \in SUBSET Names \ {{}}}

\* parent_job links without a cycle among the fetched jobs: no non-empty
\* set of fetched jobs holds the parent of each of its members.
Acyclic(D, par) ==
    \A S \in SUBSET D \ {{}} : \E m \in S : par[m] \notin S

\* Data the server keeps consistent: dependent_jobs of a job lists exactly
\* the fetched jobs whose parent_job it is (in any order, here the order of
\* a permutation perm of the fetched names); parent links are acyclic but
\* may dangle.
ConsistentDirectories ==
    UNION {
      {[n \in D |-> [parent_job |-> par[n],
                     dependent_jobs |-> SelectSeq(perm, LAMBDA j : par[j] = n)]] :
         par \in {f \in [D -> Names \cup {NoParent}] : Acyclic(D, f)},
         perm \in SetToSeqs(D)} :
      D \in SUBSET Names \ {{}}}

\* Any data with at most one dependent per job and c possibly missing:
\* still every parent cycle, child cycle, self-reference and dangling name
\* over three names, small enough to check termination without symmetry.
ShortDepLists == {<<>>} \cup {<<x>> : x \in Names}
CyclicDirectories ==
    UNION {[D -> [parent_job: Names \cup {NoParent}, dependent_jobs: ShortDepLists]] :
             D \in {Names, Names \ {c}}}

Symmetry3 == Permutations({b, c})
Symmetry4 == Permutations({b, c, d})
=============================================================================
