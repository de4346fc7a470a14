SPECIFICATION Spec
CONSTANTS
    i1 = i1
    i2 = i2
    LambdaRuns = {i1, i2}
    MaxCreates = 2
    MaxDbs = 2
    MaxCommits = 2
    MaxRuns = 2
SYMMETRY LambdaSymmetry
INVARIANTS
    TypeOK
    UrlsNameThePasswords
    ReleasesAreBacked
    ProductionWasApproved
PROPERTIES
    ReleasesMoveForward
CHECK_DEADLOCK FALSE
