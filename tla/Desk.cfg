SPECIFICATION DeskSpec
CONSTANTS
    Parts = {"Window", "Monitor", "Buddy", "Appr", "Managed", "Automation", "Turn", "Remote", "Context", "Ledger", "History", "Profile", "Goal", "Page"}
    Accounts = {"p1", "p2"}
    Credits = 2
    MaxSends = 2
    MaxMoves = 3
    Tasks = {"a", "b"}
    NoTask = "none"
    Profiles = {"p1", "p2"}
    First = "p1"
    Healths = {"connected", "hung", "off"}
    Samples = 2
    Cooldown = 1
    MaxHubs = 2
    MaxQueue = 2
    MaxTasks = 1
    MaxEvents = 1
    MaxHostMoves = 3
    Repairers = {"monitor", "loader"}
    Batch = 4
    MaxGap = 2
    MaxRecords = 3
    Methods = {"item/tool/requestUserInput", "execCommandApproval"}
    Matters = {"m"}
    MaxAsked = 2
    Environments = {"e1"}
    NoEnv = "none"
    MaxIds = 3
    MaxSilence = 2
    MaxSwitches = 4
    Stops = {"paused", "blocked"}
    MaxAsks = 2
    MaxTurns = 1
    MaxBuddyTurns = 2
    Schedules = {"daily", "weekly"}
    MaxRuns = 2
    MaxEdits = 3
    MaxLosses = 1
    Threads = {"a", "b"}
    NoThread = "none"
    MaxRunning = 2
    MaxVisits = 3
    Modes = {"auto", "prompt"}
    Contents = {"y"}
    FirstContent = "x"
    MaxItems = 1
    MaxReports = 1
    MaxWrites = 1
    MaxClicks = 1
    Models = {"m1", "m2"}
    FirstModel = "m1"
    MaxLedgerTurns = 2
    MaxCalls = 1
    MaxPicks = 1
    MaxStream = 1
    MaxChanges = 2
    MaxDrops = 1
    Rollouts = {"r1"}
    Chunk = 3
    Overlap = 2
    MaxBytes = 5
INVARIANTS
    MarkersFollowed
    
    NoAnswerLost
    NoRequestStranded
    NoRefreshLost
    TimerRunsStored
    EndedRunsRecorded
    IdleLooksIdle
    HealthyHostSpared
    KnownTurnsSpared
    OneCheckpointEach
    EvidenceTrue
    EndsAccounted
    LedgerTrue
    ProjectionFaithful
    Isolated
    GoalTrue
    PageTrue
PROPERTIES
    RecoveryKeepsItsAnswer
    RestartsSpaced
    KeepsPromise
CHECK_DEADLOCK FALSE
