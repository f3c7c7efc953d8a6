SPECIFICATION Spec
CONSTANTS
    c1 = c1
    c2 = c2
    c3 = c3
    m1 = m1
    ed = ed
    ch = ch
    s1 = s1
    s2 = s2
    None = None
    Unknown = Unknown
    NoLimit = NoLimit
    Call <- GlobalCall
    UseCase <- MCUseCase
    Session <- MCSession
    Request <- GlobalRequest
    Served = {c2}
    Candidate = {c2}
    Mirror = {}
    GlobalLimit = 3
    UseCaseLimit <- NoUseCaseLimit
    FallbackLimit <- NoUseCaseLimit
    SessionLimit = 4
    ReserveInFlight = TRUE
    Bill = {1}
    Capacity = 1
    MaxDay = 1
INVARIANTS
    UnknownNeverZero
