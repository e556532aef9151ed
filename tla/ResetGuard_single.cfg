SPECIFICATION FairSpec
CONSTANTS
    Procs = {w1}
    Keys = {k1, k2}
    NoKey = NoKey
    Ids = {1, 2, 3}
    NoId = 0
    Credits = 2
    MaxEvents = 2
INVARIANTS TypeOK AtMostOneCredit AttemptOnDiskFirst RecordedResetHappened
PROPERTIES CompletedIsFinal AttemptFinishes
