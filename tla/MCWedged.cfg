CONSTANTS
    A = A
    B = B
    C = C
    D = D
    E = E
    Step = {A, B, C, D}
    Needs <- Parked
    OnError <- AllCompensate
    Compensable = {A}
    StepType <- ParkedTypes
    Deadline = {B}
    BadConfig = {}
    MaxTries <- OneTry
    Outcomes <- AlwaysOk
    Actor = {p1}
    Faults = {"crash"}
    Worker = {w1, w2}
    MaxTaskAttempts = 4
    MaxAttempt = 4
    Nobody = Nobody
    NoStep = NoStep
    NoRow = NoRow
    NoTask = NoTask
SYMMETRY Symmetry
SPECIFICATION Spec
INVARIANT ReaperRuns
CHECK_DEADLOCK FALSE
