\* Opt-outs both ways and ingest sessions, all overlapping.
SPECIFICATION Spec
CONSTANTS
    m1 = m1
    m2 = m2
    h1 = h1
    h2 = h2
    o1 = o1
    o2 = o2
    s1 = s1
    s2 = s2
    NoOrg = NoOrg
    Channels = {m1, m2}
    Orgs = {o1, o2}
    Hashes = {h1, h2}
    Fold <- Folded
    Lower <- Folded
    Sessions = {s1, s2}
    Paths = {"api", "compliance"}
    MaxRows = 3
CONSTRAINT OneOwner
SYMMETRY Alike
INVARIANTS TypeOK ChannelAgrees
PROPERTY SuppressionSticks
