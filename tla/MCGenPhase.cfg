\* Gen B: two workers with batched writers, an auto-flush in mid-task; and the census.
CONSTANTS
    Workers = 2
    N = 3
    Class <- MCClass
    Shard = {1, 2}
    ShardOf <- MCShardOf
    Leaves <- MCLeaves
    Unchecked = {2}
    Limit = 2
SPECIFICATION FairSpec
INVARIANTS
    TypeOK
    EmissionsConserved
    BarrierSeesAll
    CompleteRun
    StagingBounded
PROPERTIES
    Terminates
CHECK_DEADLOCK FALSE
