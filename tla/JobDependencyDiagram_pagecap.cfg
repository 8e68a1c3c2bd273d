\* b is the parent of a and sorts before it; only the first job by name fits in the page (perPage 1 standing for 1000).
CONSTANTS
    a = a
    b = b
    Names <- NamesAB
    Focal <- FocalA
    NoParent = NoParent
    NoRecord = NoRecord
    ServerStates <- ServerLinked
    SortedNames <- ByNameFocalLast
    PerPage = 1
    MaxFetches = 1
    JobStatuses = {"untriggered"}
SPECIFICATION Spec
INVARIANT
    NoDependencyMessageAgreesWithRecord
\* With one server state and one call, the page is idle once the call has
\* settled and the record is loaded: a final state, not a deadlock.
CHECK_DEADLOCK FALSE
