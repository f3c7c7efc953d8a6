SPECIFICATION OperatorSpec
CONSTANTS
    t1 = t1
    c1 = c1
    b1 = b1
    left = left
    right = right
    step = step
    tool = tool
    Nil = Nil
    Task = {t1, c1, b1}
    Handle = {left, right, step, tool}
    Tool = {tool}
    Identity <- MCIdentity
    Arm <- MCArm
    Plans <- MCPlans
    Margin = 20
    MinTasks = 5
    Scale = 100
    MaxSample = 19
    Null = Null
    None = None
    UseCase = {"ed"}
    Scope <- MCScope
    Model = {"old", "cheap", "stray"}
    Experiment = {"x1", "x2"}
    UseCaseOf <- MCUseCaseOf
    CandidateOf <- MCCandidateOf
    Shadow = {"sh"}
    MirrorsOf <- MCMirrorsOf
    Revision = {"r1", "r2", "r3", "r4"}
    Approvals <- MCApprovals
    Declared <- MCDeclared
    Known = {"old", "cheap"}
    ShareOf <- MCShareOf
    NarrowedTo <- MCNarrowedTo
    MirrorOf <- MCMirrorOf
    Parent <- MCParent
    DeclaredSteps <- MCDeclaredSteps
    Artifacts <- MCArtifacts
    MaxWrites = 2
    MaxChanges = 2
    Supplies <- MCSupplies
    MinSupport = 2
    Threshold = 60
    MatchAt = 60
    Replicates = 2
    MaxScore = 10
    MinUnits = 2
    NIMargin = 1
    MinDirectional = 2
    Candidate = "cheap"
    Percents = {1, 99}
    PageSize = 2
    MaxCalls = 3
    MaxJobs = 1
    MaxPage = 1
    MaxPosted = 1
INVARIANTS
    OperatorTypeOK
    RunsFaithful
    ReportsStand
    ImputationSound
    FragmentsRestOnEvidence
    FamiliesAccount
    SampleStands
    RetentionIsExact
    HeldOut
    VerdictEarned
    ActivationIsReviewed
    ScreenAgrees
PROPERTIES
    LateReportsKeepVerdict
    InspectionHoldsStill
CHECK_DEADLOCK FALSE
