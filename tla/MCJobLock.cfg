\* One worker on its own, whose database refuses nothing.
SPECIFICATION Spec
CONSTANTS
    w1 = w1
    ingest = ingest
    recheck = recheck
    Workers = {w1}
    Jobs = {ingest, recheck}
    Checkpointed = {ingest}
    Refused = {}
    PoolSize = 2
    MaxOverflow = 0
    MaxDepth = 2
INVARIANT SkipJustified
