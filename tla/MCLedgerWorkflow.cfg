\* An analyst decides while an item is processed.
SPECIFICATION Spec
CONSTANTS
    i1 = i1
    c1 = c1
    n1 = n1
    f1 = f1
    a1 = a1
    a2 = a2
    o1 = o1
    Sessions = {i1, c1, n1, f1, a1, a2, o1}
    KindOf <- KindOfAll
    Profiles <- Candidates
    Overrides <- Lower
    Decisions <- Contacted
    Plans <- Analyst
    MaxScores = 2
    MaxDays = 0
    MaxFaults = 0
INVARIANT WorkflowYours
