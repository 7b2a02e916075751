SPECIFICATION Spec
CONSTANTS
    None = None
    Canceled = Canceled
    q1 = q1
    q2 = q2
    p1 = p1
    p2 = p2
    Queries = {q1, q2}
    Partitions = {p1, p2}
    Tags <- MCTags
    Batches <- MCBatches
    Filters <- MCFilters
    MaxRestarts = 1
INVARIANTS
    OneSource
    CompleteUnlessRaced
    WaitsOnLiveLoad
SYMMETRY MCSymmetry
CHECK_DEADLOCK FALSE
