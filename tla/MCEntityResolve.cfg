\* A decision that comes up twice cannot be resolved the second time.
SPECIFICATION Spec
CONSTANTS
    None = None
    n1 = n1
    n2 = n2
    s1 = s1
    s2 = s2
    eip1 = eip1
    eip2 = eip2
    g1 = g1
    g2 = g2
    g3 = g3
    testnet = testnet
    mainnet = mainnet
    MaxResolved = 1
    Domains = {1, 2}
    Githubs = {1}
    Names = {n1, n2}
    Slugs = {s1, s2}
    Chains = {eip1, eip2}
    Genesis = {g1}
    Envs = {testnet, mainnet}
    Observations <- IdentityObservations
CONSTRAINT FewResolved
INVARIANT OpenTaskResolvable
