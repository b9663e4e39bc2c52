\* A scan saves its cursor behind items that failed.
SPECIFICATION Spec
CONSTANTS
    r1 = r1
    r2 = r2
    e1 = e1
    e2 = e2
    e3 = e3
    c1 = c1
    c2 = c2
    c3 = c3
    c4 = c4
    NoCursor = NoCursor
    Feed <- TwoVersions
    Poison <- BadItem
    CommitEvery = 2
    Runs = {r1}
    Drivers <- Scans
    Sources <- Entries
    MaxBucket = 0
    MaxFaults = 0
INVARIANT NothingSkipped
