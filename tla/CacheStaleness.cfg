SPECIFICATION Spec
CONSTANTS
    Keys = {k1, k2}
    Known = {k1}
    Slots = {s1, s2}
    TTL = 2
    Delay = 1
    MaxVersion = 3
    MaxTime = 5
SYMMETRY SlotSymmetry
INVARIANTS TypeOK StalenessBound
