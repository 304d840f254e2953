CONSTANTS
    A = A
    B = B
    C = C
    D = D
    E = E
    Step = {A, B, C, D}
    Needs <- Parked
    OnError <- AllCompensate
    Compensable = {A}
    StepType <- ParkedTypes
    Deadline = {}
    BadConfig = {}
    MaxTries <- OneTry
    Outcomes <- AlwaysOk
    Actor = {p1, p2}
    Faults = {}
    Worker = {w1, w2}
    MaxTaskAttempts = 2
    MaxAttempt = 4
    Nobody = Nobody
    NoStep = NoStep
    NoRow = NoRow
    NoTask = NoTask
SYMMETRY Symmetry
SPECIFICATION Spec
INVARIANT OneDecision
CHECK_DEADLOCK FALSE
