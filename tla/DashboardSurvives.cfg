SPECIFICATION Spec
CONSTANTS
    Clients = {c1, c2}
    None = None
    MaxMessages = 1
INVARIANT BroadcastSurvives
