SPECIFICATION MCSpec
CONSTANTS
    o = o
    c = c
    Calls = {c1}
    Bundles <- MCBundles
    Trusted = {1, 2}
    Durable = TRUE
    Faults = FALSE
    MaxImporters = 0
    MaxOverlapping = 0
    Clients = {o, c}
    Outside = o
    Roots = {r1, r2}
    RegisteredSigners = {s1}
    Threshold = 2
    TTL = 1
    MaxTime = 3
    MaxBlocks = 2
    MaxOps = 1
INVARIANT RelayedFits
CHECK_DEADLOCK FALSE
