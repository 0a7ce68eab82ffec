CONSTANTS
    e1 = e1
    e2 = e2
    w1 = w1
    w2 = w2
    p1 = p1
    p2 = p2
    Entries <- TwoEntries
    Writers <- OneWriter
    Pushers <- OnePusher
    AutoPushers <- OnePusher
    NewPushers <- NoPushers
    Kinds = {"good", "newer"}
    Deletable <- NoEntries
    Repairs = FALSE
    MaxAttempts = 1
    BatchLimit = 1
    MaxRows = 2
    MaxFaults = 0
SPECIFICATION FairSpec
PROPERTIES
    GoodRowsAreSettled
