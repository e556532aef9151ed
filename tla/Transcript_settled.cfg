SPECIFICATION Spec
CONSTANTS
    Parts = {"Chat", "View"}
INVARIANTS
    ShowsTheRollout
    NoTwin
    Drawn
CHECK_DEADLOCK FALSE
