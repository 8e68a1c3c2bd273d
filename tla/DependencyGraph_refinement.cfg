\* buildDependencyGraph implements GraphExtraction on every consistent, acyclic job list over four names (focal a).
CONSTANTS
    a = a
    b = b
    c = c
    d = d
    Names <- Names4
    Focal <- FocalA
    NoParent = NoParent
    NoCall = NoCall
    NoGraph = NoGraph
    Directories <- ConsistentDirectories
SPECIFICATION Spec
\* buildDependencyGraph returns: the final state has no successor.
CHECK_DEADLOCK FALSE
PROPERTY
    ImplementsGraphExtraction
