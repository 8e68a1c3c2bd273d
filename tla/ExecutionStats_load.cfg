\* Two mounts of the card, answers of up to two days with counts 0..1.
\* A settled card waits for the user: it may stop.
CONSTANTS
    MaxCount = 1
    Days = 2
    MaxMounts = 2
    NoStats = NoStats
    Rejected = Rejected
SPECIFICATION Spec
CHECK_DEADLOCK FALSE
INVARIANTS
    TypeOK
    StatsViewMatchesOwnCall
PROPERTIES
    StatsLoadingEnds
