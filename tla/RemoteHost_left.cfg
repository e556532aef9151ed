SPECIFICATION Spec
CONSTANTS
    Profiles = {"p1", "p2"}
    First = "p1"
    Healths = {"connected", "hung", "off"}
    Samples = 2
    Cooldown = 1
    MaxHubs = 2
    MaxQueue = 2
    MaxTasks = 1
    MaxEvents = 1
    MaxMoves = 3
INVARIANT RecoveryHasAnAnswer
CHECK_DEADLOCK FALSE
