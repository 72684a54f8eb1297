SPECIFICATION MCSpec
CONSTANTS
    a = a
    w = w
    o = o
    Remote <- MCRemote
    Observer <- MCObserver
    Observing = TRUE
    Contexts <- MCContexts
    Weight <- MCWeight
    Threshold <- MCThreshold
    RequireKnownPrev = TRUE
    MaxClockSkew = 1
    MaxEventAge = 1
    MaxParents = 2
    RetentionByKind <- MCRetentionByKind
    RetentionPolicies <- MCRetentionPolicies
    FirstLocal = 6
    MaxLocal = 3
    MaxAnchors = 2
    MaxNow = 2
    Calls = {c1, c2}
    Bundles <- MCBundles
    Trusted = {1, 2}
    Durable = TRUE
    Faults = TRUE
    MaxImporters = 4
    MaxOverlapping = 2
    Clients = {pub, cl}
    Outside = pub
    Roots = {r1, r2}
    RegisteredSigners = {s1}
    RootThreshold = 2
    TTL = 1
    MaxTime = 2
    MaxBlocks = 2
    MaxOps = 2
SYMMETRY Symmetry
INVARIANTS DerivedMatches ChainsLinear  SelfCompromiseOnlyAfterLoss HeadsCoverEvents
            RevokedStayOut 
PROPERTIES ConfirmationStable PruningKeepsLinks OlderRejected ReplaySafe RevocationLasts
CHECK_DEADLOCK FALSE
