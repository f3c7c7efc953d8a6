SPECIFICATION Spec
CONSTANTS
    ed = ed
    qa = qa
    wf = wf
    st = st
    old = old
    cheap = cheap
    x1 = x1
    x2 = x2
    x3 = x3
    sh = sh
    rev = rev
    t1 = t1
    t2 = t2
    t3 = t3
    None = None
    UseCase = {ed, qa}
    Scope <- MCScope
    Model = {old, cheap}
    Experiment = {x1, x2, x3}
    UseCaseOf <- MCUseCaseOf
    CandidateOf <- MCCandidateOf
    Shadow = {sh}
    MirrorsOf <- MCMirrorsOf
    Revision = {rev}
    Approvals <- MCApprovals
    Declared <- MCDeclared
    Task = {t1, t2, t3}
    Request <- MCRequest
    ScopeOf <- MCScopeOf
    IsCandidate <- MCIsCandidate
    MaxCalls <- MCMaxCalls
    MaxBindings = 2
    MaxEvents = 3
INVARIANTS
    TypeOK
    OneOwner
    RunawayCountedOnce
    TaskNeverStraddles
    LiveTaskStaysBound
PROPERTIES
    RouterCatchesUp
