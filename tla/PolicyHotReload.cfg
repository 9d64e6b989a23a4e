SPECIFICATION Spec
CONSTANTS
    Keys = {k1}
    Known = {k1}
    Slots = {s1}
    TTL = 2
    Delay = 0
    MaxVersion = 3
    MaxTime = 1
    Admins = {a1, a2}
    Replicas = {p1}
    None = None
    Junk = {"not_object"}
    MaxJunk = 1
SYMMETRY AdminSymmetry
INVARIANTS TypeOK PushInvalidates SignalAfterCommit NoLostUpdate
PROPERTY ImplementsCache
