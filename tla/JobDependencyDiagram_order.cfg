\* Two runs of the fetch effect whose calls settle out of order: the older outcome stays on screen.
CONSTANTS
    a = a
    b = b
    Names <- NamesAB
    Focal <- FocalA
    NoParent = NoParent
    NoRecord = NoRecord
    ServerStates <- ServerAB
    SortedNames <- ByName
    PerPage = 2
    MaxFetches = 2
    JobStatuses = {"untriggered"}
SPECIFICATION Spec
INVARIANT
    DisplayedOutcomeIsNewest
