SPECIFICATION Spec
CONSTANTS
    p1 = p1
    p2 = p2
    Replicas = {p1, p2}
    Requests = {r1, r2, r3}
    Offset <- MCOffset
    Skew = 1
    Limits = {1}
    MaxLimit = 1
    WINDOW = 5
    Delay = 1
    FAIL_OPEN = FALSE
    FALLBACK_MULTIPLIER = 2
    EVICT_IDLE = 4
    MaxTime = 6
SYMMETRY RequestSymmetry
INVARIANTS TypeOK SlidingWindow
