\* A queue of one.
SPECIFICATION FairSpec
CONSTANTS
    e1 = e1
    e2 = e2
    c1 = c1
    c2 = c2
    c3 = c3
    n1 = n1
    g1 = g1
    g2 = g2
    NoId = NoId
    Missing = Missing
    Failed = Failed
    Endpoints = {e1, e2}
    Candidates = {c1, c2, c3}
    Serves <- Shared
    FamilyOf <- Kinds
    MayServe <- Behind
    Published <- Claims
    MinGap = 1
    Limit = 1
    MaxTime = 2
    MaxHeight = 0
    MaxFirst = 2
    MaxFaults = 0
PROPERTY NotStranded
\* When the clock has run out and nothing is due the system stops.
CHECK_DEADLOCK FALSE
