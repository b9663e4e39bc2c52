\* Opt-outs through the API, also before anything is published.
SPECIFICATION Spec
CONSTANTS
    m1 = m1
    m2 = m2
    h1 = h1
    h2 = h2
    o1 = o1
    o2 = o2
    s1 = s1
    s2 = s2
    NoOrg = NoOrg
    Channels = {m1, m2}
    Orgs = {o1, o2}
    Hashes = {h1, h2}
    Fold <- Folded
    Lower <- Folded
    Sessions = {s1}
    Paths = {"api"}
    MaxRows = 3
INVARIANT OptOutHonoured
