SPECIFICATION FairSpec
CONSTANTS
    Consumers = {c1, c2}
    Restarting = {c1}
    c1 = c1
    c2 = c2
    None = None
    BATCH_SIZE = 2
    CLAIM_COUNT = 1
    CLAIM_ATTEMPTS = 1
    STREAM_MAXLEN = 3
    EntryKinds = {"event", "malformed"}
    LiveMayStall = TRUE
    MaxEntries = 2
    MaxCrashes = 1
PROPERTY EventuallyHandled
