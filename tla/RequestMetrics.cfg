CONSTANTS
    r1 = r1  r2 = r2  r3 = r3  r4 = r4
    ka = ka  kb = kb
    Requests = {r1, r2, r3, r4}
    Keys = {ka, kb}
    KeyOf <- Pairs
    Answers <- SomeAnswers
    Limited = {r3}
    MaxInFlight = 2
    MaxFaults = 1
    Workers = {w1, w2}
    BATCH_SIZE = 3
SYMMETRY Symmetry
SPECIFICATION Spec
INVARIANTS NoInvisibleDrop TableExact PercentilesInRange BatchPercentiles SourcesAgree
CHECK_DEADLOCK FALSE
