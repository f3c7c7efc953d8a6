SPECIFICATION Spec
CONSTANTS
    c1 = c1
    c2 = c2
    c3 = c3
    m1 = m1
    ed = ed
    ch = ch
    s1 = s1
    s2 = s2
    None = None
    Unknown = Unknown
    NoLimit = NoLimit
    Call <- CeilingCall
    UseCase <- MCUseCase
    Session <- MCSession
    Request <- CeilingRequest
    Served = {c3}
    Candidate = {c3}
    Mirror = {}
    GlobalLimit = 5
    UseCaseLimit <- EditorLimit
    FallbackLimit <- EditorThreshold
    SessionLimit = 4
    ReserveInFlight = TRUE
    Bill = {2}
    Capacity = 1
    MaxDay = 2
INVARIANTS
    TypeOK
    HeldWhileOutstanding
    CeilingsHold
    SnapshotCoversRows
    UnknownStaysRefused
PROPERTIES
    RoomOnlyFromSettlement
