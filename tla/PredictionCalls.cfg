\* The deployed limit of one generation at a time.
SPECIFICATION FairSpec
CONSTANTS
    s1 = s1
    s2 = s2
    p1 = p1
    Calls <- MCCalls
    Streams <- MCStreams
    RawResults <- MCRawResults
    MaxConcurrency = 1
    Requested = 2
    MaxFaults = 1
    MaxLoadFailures = 1
    MaxRestarts = 1
INVARIANTS
    TypeOK
    InferenceBounded
    OneModelLoaded
    RowsTellTheTruth
PROPERTIES
    ModelErrorsConverted
    CallsAreAnswered
CHECK_DEADLOCK FALSE
