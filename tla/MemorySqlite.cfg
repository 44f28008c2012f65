CONSTANTS
    k1 = k1
    k2 = k2
    k3 = k3
    alice = alice
    bob = bob
    u1 = u1
    u2 = u2
    w1 = w1
    Keys <- MCKeys
    Owner <- MCOwner
    Users = {alice, bob}
    Writers = {u1, u2}
    Workers = {w1}
    Backend = "sqlite"
    Quota = 1
    ClaimLimit = 2
    MaxWrites = 3
    MaxFaults = 0

SPECIFICATION FairSpec

INVARIANT QuotaHolds
PROPERTY EveryWriteEmbedded

\* The run stops when MaxWrites writes have committed and the queue is drained.
CHECK_DEADLOCK FALSE
