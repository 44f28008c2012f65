CONSTANTS
    k1 = k1
    k2 = k2
    k3 = k3
    alice = alice
    bob = bob
    u1 = u1
    u2 = u2
    w1 = w1
    Keys <- OneOwnerKeys
    Owner <- OneOwner
    Users = {alice}
    Writers = {u1, u2}
    Workers = {w1}
    Backend = "postgres"
    Quota = 2
    ClaimLimit = 2
    MaxWrites = 4
    MaxFaults = 1

SPECIFICATION Spec
SYMMETRY WriterSymmetry

INVARIANT TypeOK
INVARIANT OnePendingJob
INVARIANT CompletedMeansCurrent

\* The run stops when MaxWrites writes have committed and the queue is drained.
CHECK_DEADLOCK FALSE
