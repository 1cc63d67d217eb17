\* A page that follows a log through failures, restarts and overlapping fetches.
SPECIFICATION Spec
CONSTANTS
    f1 = f1
    f2 = f2
    Batch = 2
    MaxLogSize = 2
    SampleAttacks = 2
    OldRows = {0, 2}
    Slots = {f1, f2}
    MaxCalls = 2
    MaxFaults = 1
INVARIANTS TypeOK DequeIsTheTail NothingSkipped PageIsExact NothingMissed
PROPERTY PageCatchesUp
