SPECIFICATION FairSpec
CONSTANTS
    Sockets = {s1, s2, s3}
    None = None
    BACKOFF_INITIAL = 1
    BACKOFF_MAX = 3
    RPS_HISTORY_LIMIT = 2
    ALERT_FEED_LIMIT = 1
    MaxEffects = 3
    MaxMessages = 3
INVARIANTS TypeOK OneAttempt OrphansExplained ShowsNewest
PROPERTY Reconnects
