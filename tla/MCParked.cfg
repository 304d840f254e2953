CONSTANTS
    A = A
    B = B
    C = C
    D = D
    E = E
    Step = {A, B, C, D, E}
    Needs <- Parked
    OnError <- TimerFails
    Compensable = {A, C}
    StepType <- ParkedTypes
    Deadline = {B}
    BadConfig = {D}
    MaxTries <- RetryUndos
    Outcomes <- UndoMayFail
    Actor = {p1}
    Faults = {"slow reaper", "reaper crash"}
    Worker = {w1}
    MaxTaskAttempts = 2
    MaxAttempt = 4
    Nobody = Nobody
    NoStep = NoStep
    NoRow = NoRow
    NoTask = NoTask
SPECIFICATION FairSpec
INVARIANTS ApprovedOnly ArmedOnce UnwindTended
PROPERTIES NothingNewAfterStop Ends
CHECK_DEADLOCK FALSE
