SPECIFICATION Spec
CONSTANTS
    ep = ep
    src = src
    Endpoints = {ep}
    Sources = {src}
    Contents <- MCContents
    READ_COUNT = 2
    SECOND = 2
    DEDUP_WINDOW = 2
    SWEEP_EVERY = 2
    MIN_SAMPLES = 2
    BASELINE_TTL = 2
    EVICT_EVERY = 1
    STREAM_MAXLEN = 2
    MaxEntries = 3
    MaxTime = 4
    MaxCrashes = 1
INVARIANTS TypeOK NoDoubleAlert MissedOnlyByCrash NoBacklog DedupSpacing SnapshotsAddUp OneSamplePerSecond
PROPERTY SuppressionJustified
