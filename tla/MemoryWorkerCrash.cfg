CONSTANTS
    k1 = k1
    k2 = k2
    k3 = k3
    alice = alice
    bob = bob
    u1 = u1
    u2 = u2
    w1 = w1
    Keys <- OneOwnerKeys
    Owner <- OneOwner
    Users = {alice}
    Writers = {u1, u2}
    Workers = {w1}
    Backend = "postgres"
    Quota = 2
    ClaimLimit = 2
    MaxWrites = 2
    MaxFaults = 1

SPECIFICATION FairSpec

PROPERTY EveryWriteEmbedded

CHECK_DEADLOCK FALSE
