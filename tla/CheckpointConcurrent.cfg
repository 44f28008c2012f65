CONSTANTS
    alice = alice
    bob = bob
    main = main
    r1 = r1
    r2 = r2
    t1 = t1
    t2 = t2
    t3 = t3
    t4 = t4
    Users = {alice, bob}
    Labels = {main}
    Sessions <- MCSessions
    Digest <- MCDigest
    Uuids = {t1, t2, t3}
    NoThread = NoThread
    Requests = {r1, r2}
    Rollover = 1
    TakeLimit = 1
    Serial = FALSE
    MaxTurns = 3
    MaxExpiries = 2
    MaxFaults = 1

SPECIFICATION Spec
SYMMETRY UuidSymmetry

INVARIANT TypeOK
INVARIANT Isolation
INVARIANT RolloverBound

\* The run stops when MaxTurns turns have run.
CHECK_DEADLOCK FALSE
