\* One execution row, expanded and collapsed up to twice, "Load full output" clicked up to twice.
CONSTANTS
    NoView = NoView
    MaxClicks = 2
    MaxExpands = 2
SPECIFICATION Spec
\* The page may sit idle with every call settled; the bounds end the rest.
CHECK_DEADLOCK FALSE
INVARIANTS
    TypeOK
PROPERTIES
    ButtonLoadingEnds
