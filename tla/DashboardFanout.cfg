SPECIFICATION FairSpec
CONSTANTS
    Clients = {c1, c2, c3}
    None = None
    MaxMessages = 2
INVARIANTS TypeOK DeathExplained GaplessFeed
PROPERTY FeedProgresses
