SPECIFICATION Spec
CONSTANTS
    Tasks = {"a", "b"}
    NoTask = "none"
    Troubles = {"snapshot"}
    MaxTurns = 2
INVARIANT NoAnswerLost
CHECK_DEADLOCK FALSE
