SPECIFICATION Spec
CONSTANTS
    Consumers = {c1}
    Restarting = {c1}
    c1 = c1
    None = None
    BATCH_SIZE = 2
    CLAIM_COUNT = 1
    CLAIM_ATTEMPTS = 2
    STREAM_MAXLEN = 3
    EntryKinds = {"event"}
    LiveMayStall = FALSE
    MaxEntries = 2
    MaxCrashes = 1
INVARIANT NoDoubleCount
