SPECIFICATION Spec
CONSTANTS
    Threads = {t1, t2}
    Existing = {t1}
    NoThread = NoThread
    Prompts = {p1}
    Stamps = {1, 2, 3}
    Modes = {"managed"}
    Troubles = {"refusals"}
    MaxLosses = 1
    MaxReconnects = 0
    MaxQueued = 2
    Slack = 1
CHECK_DEADLOCK FALSE
INVARIANTS ResumedIsLive NoOrphanedPending AtMostOnce
