CONSTANTS
    f1 = f1
    f2 = f2
    p1 = p1
    p2 = p2
    Files <- TwoFiles
    Workers <- TwoWorkers
    Kinds = {"hand", "auto", "crawl"}
    MaxEdits = 1
    MaxCrashes = 1
    MaxStale = 1
SPECIFICATION Spec
INVARIANTS
    TypeOK
    PassesAreExclusive
    FreshMeansIndexed
PROPERTIES
    UndisturbedPassHeals
SYMMETRY Interchangeable
