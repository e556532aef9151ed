SPECIFICATION Spec
CONSTANTS
    Tasks = {"a", "b"}
    NoTask = "none"
    MaxTurns = 2
    MaxMoves = 3
INVARIANT EveryMarkCleared
CHECK_DEADLOCK FALSE
