CONSTANTS
    g1 = g1
    g2 = g2
    g3 = g3
    NoGid = NoGid
    MaxBatch = 1
    Gid <- MCGid
    Parent <- MCParent
SPECIFICATION Spec
INVARIANTS
    TypeOK
    OneBatchInPlay
    PassSettles
    TurnIsGiven
    HeldBatchStaysDown
    StartedBatchRuns
    UserPausesUntouched

