\* buildDependencyGraph on every job list over three names (focal a).
CONSTANTS
    a = a
    b = b
    c = c
    d = d
    Names <- Names3
    Focal <- FocalA
    NoParent = NoParent
    NoCall = NoCall
    NoGraph = NoGraph
    Directories <- AnyDirectories
INIT Init
NEXT Next
SYMMETRY Symmetry3
\* buildDependencyGraph returns: the final state has no successor.
CHECK_DEADLOCK FALSE
INVARIANTS
    CallDepthBounded
    NodesAreReachableJobs
    NodesDoNotOverlap
    EdgesJoinNodes
    DiagramFitsCanvas
