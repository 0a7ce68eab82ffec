CONSTANTS
    c1 = c1
    h1 = h1
    j1 = j1
    j2 = j2
    Contents <- OneContent
    Hooks <- OneHook
    Jobs <- TwoJobs
    Backends <- BothBackends
    BatchLimit = 1
    TripThreshold = 2
    Tries = 1
    MaxRows = 2
    MaxCrashes = 1
SPECIFICATION Spec
INVARIANTS
    TypeOK
    ConfirmedIsSummarized
    ClaimedTwiceIsRecovered
    BreakerCountsTheStreak
PROPERTIES
    EveryObservationIsConfirmed
