SPECIFICATION Spec
CONSTANTS
    replay = replay
    discovery = discovery
    w1 = w1
    w2 = w2
    k1 = k1
    None = None
    Job = {replay}
    Worker = {w1, w2}
    Trace = {1}
    Task = {k1}
    TaskOf <- OldTaskOf
    Sample <- ReplaySample
    Discovery = {}
    Handled = {replay}
    MaxStalls = 0
PROPERTIES
    StaleIsReclaimed
CHECK_DEADLOCK FALSE
