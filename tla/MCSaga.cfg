CONSTANTS
    A = A
    B = B
    C = C
    D = D
    E = E
    Step = {A, B, C}
    Needs <- Join
    OnError <- AllCompensate
    Compensable = {A, B}
    StepType <- AllWork
    Deadline = {}
    BadConfig = {}
    MaxTries <- RetryUndo
    Outcomes <- LastFails
    Actor = {}
    Faults = {"late crash", "stall", "reaper crash"}
    Worker = {w1, w2}
    MaxTaskAttempts = 2
    MaxAttempt = 3
    Nobody = Nobody
    NoStep = NoStep
    NoRow = NoRow
    NoTask = NoTask
SYMMETRY Symmetry
SPECIFICATION Spec
INVARIANTS TypeOK DependenciesFirst SingleCustody SequentialUnwind
PROPERTY ImplementsSaga
CHECK_DEADLOCK FALSE
