CONSTANTS
    e1 = e1
    e2 = e2
    w1 = w1
    w2 = w2
    p1 = p1
    p2 = p2
    Entries <- OneEntry
    Writers <- TwoWriters
    Pushers <- OnePusher
    AutoPushers <- NoPushers
    NewPushers <- NoPushers
    Kinds = {"good"}
    Deletable <- OneEntry
    Repairs = FALSE
    MaxAttempts = 1
    BatchLimit = 3
    MaxRows = 3
    MaxFaults = 0
SPECIFICATION Spec
INVARIANTS
    ConfirmedDeleteIsEffective
