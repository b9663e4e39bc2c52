\* Sessions of every kind in turn, four that overlap, and two analysts at once, with rollbacks.
SPECIFICATION Spec
CONSTANTS
    i1 = i1
    c1 = c1
    n1 = n1
    f1 = f1
    a1 = a1
    a2 = a2
    o1 = o1
    Sessions = {i1, c1, n1, f1, a1, a2, o1}
    KindOf <- KindOfAll
    Profiles <- Candidates
    Overrides <- Lower
    Decisions <- Contacted
    Plans <- All
    MaxScores = 3
    MaxDays = 1
    MaxFaults = 1
INVARIANTS TypeOK DecisionOnRecord AlertBacked PostsOnRecord WorkflowKept AlertOnEntry AlertOnce
PROPERTIES LedgerKept
\* When the bound on rescores is used up the model stops.
CHECK_DEADLOCK FALSE
