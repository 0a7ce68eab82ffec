CONSTANTS
    e1 = e1
    e2 = e2
    w1 = w1
    w2 = w2
    p1 = p1
    p2 = p2
    Entries <- TwoEntries
    Writers <- OneWriter
    Pushers <- TwoPushers
    AutoPushers <- NoPushers
    NewPushers <- NoPushers
    Kinds = {"good"}
    Deletable <- NoEntries
    Repairs = FALSE
    MaxAttempts = 2
    BatchLimit = 2
    MaxRows = 2
    MaxFaults = 1
SPECIFICATION Spec
INVARIANTS
    ConfirmedIsCovered
    ClaimsAreAccountedFor
    AttemptsAreBounded
    ClaimsAreExclusive
PROPERTIES
    KeepsThePromise
SYMMETRY Interchangeable
