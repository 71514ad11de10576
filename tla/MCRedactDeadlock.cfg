CONSTANTS
    t1 = t1
    a1 = a1
    Threads = {t1}
    Ids = {a1}
    Initial = 1
    SaveLast = 1
    MaxRequests = 3
    MaxStarts = 1
    GenesisData = GenesisData
    Redacted = Redacted
    Note = Note
    NoThread = NoThread
SPECIFICATION FairSpec
PROPERTY RequestsAnswered
CHECK_DEADLOCK FALSE
