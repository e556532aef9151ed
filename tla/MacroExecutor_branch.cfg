SPECIFICATION Spec
CONSTANTS
    Macros = {m1}
    Requests <- BranchRequests
    Files = {1, 2}
    Texts = {"old", "new", "patched", "built"}
    Initial = "old"
    AnyText = "*"
    Failures = {"rename", "command"}
    MaxCache = 1
INVARIANT ConditionsHonoured
CHECK_DEADLOCK FALSE
