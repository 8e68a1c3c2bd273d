----------------------- MODULE MCJobDependencyDiagram -----------------------
(***************************************************************************)
(* The diagram of job a on a server with jobs a and b, where someone else  *)
(* may make b the parent of a (and a a dependent of b) or undo it.         *)
(***************************************************************************)
EXTENDS JobDependencyDiagram

CONSTANTS a, b

NamesAB == {a, b}
FocalA == a
ByName == <<a, b>>
\* Names in which the focal job sorts after its parent.
ByNameFocalLast == <<b, a>>

NoLinks == [parent_job |-> NoParent, dependent_jobs |-> <<>>]

\* a and b unrelated, or b the parent of a.
Unlinked == (a :> NoLinks) @@ (b :> NoLinks)
Linked == (a :> [parent_job |-> b, dependent_jobs |-> <<>>])
          @@ (b :> [parent_job |-> NoParent, dependent_jobs |-> <<a>>])
ServerAB == {Unlinked, Linked}
ServerLinked == {Linked}
=============================================================================
