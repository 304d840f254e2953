CONSTANTS
    A = A
    B = B
    C = C
    D = D
    E = E
    Step = {A, B, C}
    Needs <- Chain
    OnError <- AllFail
    Compensable = {}
    StepType <- AllWork
    Deadline = {}
    BadConfig = {}
    MaxTries <- OneTry
    Outcomes <- AnyResult
    Actor = {}
    Faults = {"late crash"}
    Worker = {w1, w2}
    MaxTaskAttempts = 2
    MaxAttempt = 2
    Nobody = Nobody
    NoStep = NoStep
    NoRow = NoRow
    NoTask = NoTask
SYMMETRY Symmetry
SPECIFICATION Spec
INVARIANT NotStranded
CHECK_DEADLOCK FALSE
