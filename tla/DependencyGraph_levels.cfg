\* Spec section 3 on levels, on every job list over three names: fails on a parent_job cycle.
CONSTANTS
    a = a
    b = b
    c = c
    d = d
    Names <- Names3
    Focal <- FocalA
    NoParent = NoParent
    NoCall = NoCall
    NoGraph = NoGraph
    Directories <- AnyDirectories
INIT Init
NEXT Next
SYMMETRY Symmetry3
\* buildDependencyGraph returns: the final state has no successor.
CHECK_DEADLOCK FALSE
INVARIANT
    FocalBetweenRelatives
