SPECIFICATION FairSpec
CONSTANTS
    Threads = {t1, t2}
    Existing = {t1}
    NoThread = NoThread
    Prompts = {}
    Stamps = {1, 2, 3, 4}
    Modes = {"managed"}
    Troubles = {}
    MaxLosses = 1
    MaxReconnects = 0
    MaxQueued = 2
    Slack = 2
CHECK_DEADLOCK FALSE
PROPERTY OpenTaskResumed
