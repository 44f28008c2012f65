CONSTANTS
    alice = alice
    bob = bob
    main = main
    r1 = r1
    r2 = r2
    t1 = t1
    t2 = t2
    t3 = t3
    t4 = t4
    Users = {alice, bob}
    Labels = {main}
    Sessions <- MCSessions
    Digest <- MCDigest
    Uuids = {t1, t2, t3}
    NoThread = NoThread
    Requests = {r1, r2}
    Rollover = 1
    TakeLimit = 1
    Serial = TRUE
    MaxTurns = 3
    MaxExpiries = 1
    MaxFaults = 0

SPECIFICATION Spec

INVARIANT SafeDeletion
INVARIANT NoOrphanThreads
PROPERTY RefinesSessionMemory

\* The run stops when MaxTurns turns have run.
CHECK_DEADLOCK FALSE
