\* Identity conflicts, and resets with analysts at work.
SPECIFICATION Spec
CONSTANTS
    None = None
    n1 = n1
    n2 = n2
    s1 = s1
    s2 = s2
    eip1 = eip1
    eip2 = eip2
    g1 = g1
    g2 = g2
    g3 = g3
    testnet = testnet
    mainnet = mainnet
    MaxResolved = 2
    Domains = {1, 2}
    Githubs = {1}
    Names = {n1, n2}
    Slugs = {s1, s2}
    Chains = {eip1, eip2}
    Genesis = {g1, g2, g3}
    Envs = {testnet, mainnet}
    Observations <- AllObservations
CONSTRAINT OneFeed
INVARIANTS TypeOK OneActive SupersessionEndsActive ResetFlagged
    CollisionFlagged ChainConflictRecorded
PROPERTIES LinkJustified HistoryKept LineKept
