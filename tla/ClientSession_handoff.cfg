SPECIFICATION Spec
CONSTANTS
    Threads = {t1, t2}
    Existing = {t1}
    NoThread = NoThread
    Prompts = {p1}
    Stamps = {1, 2}
    Modes = {"direct", "managed"}
    Troubles = {"host restarts", "oversized frames", "other clients"}
    MaxLosses = 0
    MaxReconnects = 1
    MaxQueued = 2
    Slack = 1
CHECK_DEADLOCK FALSE
PROPERTY HandoffInterruptsNoTurn
