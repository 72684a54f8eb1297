SPECIFICATION MCSpec
CONSTANTS
    o = o
    c = c
    Calls = {c1}
    Bundles <- MCBundles
    Trusted = {1, 2}
    Durable = FALSE
    Faults = FALSE
    MaxImporters = 5
    MaxOverlapping = 0
    Clients = {o, c}
    Outside = o
    Roots = {r1, r2}
    RegisteredSigners = {s1}
    Threshold = 2
    TTL = 1
    MaxTime = 1
    MaxBlocks = 2
    MaxOps = 0
PROPERTY OlderRejected
CHECK_DEADLOCK FALSE
