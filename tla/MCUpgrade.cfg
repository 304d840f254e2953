CONSTANTS
    Workflow <- RollingUpgrade
    Target = n1
    Person = {}
    Node = {n1}
    NoKey = NoKey
    Sabotage <- BreakTarget
    Trouble <- NoTrouble
    MaxCrash = 1
    Step <- Steps
    Needs <- NeedsOf
    OnError <- OnErrorOf
    Compensable <- CompensableOf
    StepType <- AllWork
    Deadline = {}
    BadConfig = {}
    MaxTries <- TriesOf
    Outcomes <- AnyResult
    Actor = {}
    Faults = {"crash"}
    Worker = {w1, w2}
    MaxTaskAttempts = 2
    MaxAttempt = 4
    Nobody = Nobody
    NoStep = NoStep
    NoRow = NoRow
    NoTask = NoTask
SPECIFICATION ProvisioningSpec
INVARIANT UndoneIsGone
CHECK_DEADLOCK FALSE
