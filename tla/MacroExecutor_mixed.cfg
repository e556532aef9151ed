SPECIFICATION Spec
CONSTANTS
    Macros = {m1, m2}
    Requests <- MixedRequests
    Files = {1, 2}
    Texts = {"old", "new", "patched", "built"}
    Initial = "old"
    AnyText = "*"
    Failures = {"rename", "command"}
    MaxCache = 1
INVARIANTS MutationsExclusive CompletedMeansDone StepsInOrder NeverStuck
PROPERTIES StaleWriteRefused
CHECK_DEADLOCK FALSE
SYMMETRY MacroSymmetry
