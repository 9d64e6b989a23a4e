SPECIFICATION Spec
CONSTANTS
    p1 = p1
    p2 = p2
    Replicas = {p1, p2}
    Requests = {r1, r2, r3}
    Offset <- MCOffset
    Skew = 0
    Limits = {2}
    MaxLimit = 2
    WINDOW = 3
    Delay = 1
    FAIL_OPEN = TRUE
    FALLBACK_MULTIPLIER = 1
    EVICT_IDLE = 3
    MaxTime = 4
SYMMETRY RequestSymmetry
INVARIANTS NoFalseBlock FallbackCeiling
