\* A scheduled job and an operator's run overlap, with faults, on three kinds of collector.
SPECIFICATION FairSpec
CONSTANTS
    r1 = r1
    r2 = r2
    e1 = e1
    e2 = e2
    e3 = e3
    c1 = c1
    c2 = c2
    c3 = c3
    c4 = c4
    NoCursor = NoCursor
    Feed <- TwoVersions
    Poison <- BadItem
    CommitEvery = 2
    Runs = {r1, r2}
    Drivers <- JobAndOperator
    Sources <- Collected
    MaxBucket = 1
    MaxFaults = 1
INVARIANTS TypeOK CursorSafe OneRowPerEvent Backed
PROPERTY EventuallyIngested
