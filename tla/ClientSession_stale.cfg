SPECIFICATION Spec
CONSTANTS
    Threads = {t1, t2}
    Existing = {t1}
    NoThread = NoThread
    Prompts = {}
    Stamps = {1, 2, 3}
    Modes = {"direct", "managed"}
    Troubles = {}
    MaxLosses = 0
    MaxReconnects = 1
    MaxQueued = 2
    Slack = 1
CHECK_DEADLOCK FALSE
INVARIANT ResumedIsLive
