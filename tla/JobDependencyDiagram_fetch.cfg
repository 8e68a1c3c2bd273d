\* The diagram with up to two runs of its fetch effect, whole pages (perPage 2 >= 2 jobs).
CONSTANTS
    a = a
    b = b
    Names <- NamesAB
    Focal <- FocalA
    NoParent = NoParent
    NoRecord = NoRecord
    ServerStates <- ServerAB
    SortedNames <- ByName
    PerPage = 2
    MaxFetches = 2
    JobStatuses = {"untriggered", "success"}
SPECIFICATION Spec
INVARIANTS
    TypeOK
    NoVerdictBeforeData
    StatusViewsAgree
