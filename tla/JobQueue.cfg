SPECIFICATION Spec
CONSTANTS
    replay = replay
    discovery = discovery
    w1 = w1
    w2 = w2
    k1 = k1
    None = None
    Job = {replay, discovery}
    Worker = {w1, w2}
    Trace = {1}
    Task = {k1}
    TaskOf <- OldTaskOf
    Sample <- SharedSample
    Discovery = {discovery}
    Handled = {replay, discovery}
    MaxStalls = 1
INVARIANTS
    TypeOK
    PrunedEvidenceIsMarked
PROPERTIES
    KeepsRegister
    OnlyLastClaimFinishes
    SucceedsOnFrozenSample
    JobsSettle
CHECK_DEADLOCK FALSE
