SPECIFICATION Spec
CONSTANTS
    a = a
    w = w
    o = o
    Remote <- MCRemote
    Observer <- MCObserver
    Observing = FALSE
    Contexts <- MCContexts
    Weight <- MCWeight
    Threshold <- MCThreshold
    RequireKnownPrev = TRUE
    MaxClockSkew = 1
    MaxEventAge = 0
    MaxParents = 2
    RetentionByKind <- MCRetentionByKind
    RetentionPolicies <- MCRetentionPolicies
    FirstLocal = 6
    MaxLocal = 0
    MaxAnchors = 2
    MaxNow = 2
INVARIANTS
    OneEventPerSeq
