SPECIFICATION Spec
CONSTANTS
    Consumers = {c1, c2}
    Restarting = {c1, c2}
    c1 = c1
    c2 = c2
    None = None
    BATCH_SIZE = 2
    CLAIM_COUNT = 1
    CLAIM_ATTEMPTS = 2
    STREAM_MAXLEN = 2
    EntryKinds = {"event", "malformed", "unwritable"}
    LiveMayStall = FALSE
    MaxEntries = 3
    MaxCrashes = 2
SYMMETRY ConsumerSymmetry
INVARIANTS TypeOK NoLoss NothingStranded DuplicatesOnlyFromCrash ExclusiveHold
PROPERTY ImplementsAtLeastOnce
