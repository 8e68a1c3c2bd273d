\* buildDependencyGraph on every consistent, acyclic job list over four names (focal a).
CONSTANTS
    a = a
    b = b
    c = c
    d = d
    Names <- Names4
    Focal <- FocalA
    NoParent = NoParent
    NoCall = NoCall
    NoGraph = NoGraph
    Directories <- ConsistentDirectories
INIT Init
NEXT Next
SYMMETRY Symmetry4
\* buildDependencyGraph returns: the final state has no successor.
CHECK_DEADLOCK FALSE
INVARIANTS
    FocalBetweenRelatives
    EdgesSpanOneLevel
    DiagramFitsCanvas
    ConnectorsPointDown
