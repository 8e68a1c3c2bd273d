\* One execution row, expanded once, the full output loaded once.
CONSTANTS
    NoView = NoView
    MaxClicks = 1
    MaxExpands = 1
SPECIFICATION Spec
CHECK_DEADLOCK FALSE
INVARIANT
    OutputShownOnce
