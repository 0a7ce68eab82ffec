CONSTANTS
    e1 = e1
    e2 = e2
    w1 = w1
    w2 = w2
    p1 = p1
    p2 = p2
    Entries <- OneEntry
    Writers <- OneWriter
    Pushers <- OnePusher
    AutoPushers <- NoPushers
    NewPushers <- NoPushers
    Kinds = {"good"}
    Deletable <- OneEntry
    Repairs = TRUE
    MaxAttempts = 1
    BatchLimit = 2
    MaxRows = 2
    MaxFaults = 1
SPECIFICATION Spec
INVARIANTS
    LostDeleteIsRepairable
