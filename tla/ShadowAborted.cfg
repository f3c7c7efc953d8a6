SPECIFICATION ShadowSpec
CONSTANTS
    c1 = c1
    m1 = m1
    m2 = m2
    a = a
    b = b
    None = None
    Call <- MCCall
    Important <- MCMirror
    Mirror <- MCMirror
    Shadows = {a, b}
    ShadowOf <- MCShadowOf
    Capacity = 2
    MirrorCapacity = 1
    Workers = 2
INVARIANTS
    DrainedBeforeExit
CHECK_DEADLOCK FALSE
