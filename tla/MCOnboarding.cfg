CONSTANTS
    Workflow <- Joiner
    Target = priya
    Person = {priya}
    Node = {}
    NoKey = NoKey
    Sabotage <- RejectTarget
    Trouble <- SomeTrouble
    MaxCrash = 1
    Step <- Steps
    Needs <- NeedsOf
    OnError <- OnErrorOf
    Compensable <- CompensableOf
    StepType <- AllWork
    Deadline = {}
    BadConfig = {}
    MaxTries <- TriesOf
    Outcomes <- AnyResult
    Actor = {}
    Faults = {"crash"}
    Worker = {w1, w2}
    MaxTaskAttempts = 3
    MaxAttempt = 4
    Nobody = Nobody
    NoStep = NoStep
    NoRow = NoRow
    NoTask = NoTask
SPECIFICATION FairProvisioning
INVARIANTS NotStranded ProjectionAgrees LogTellsTruth
PROPERTIES SuccessIsStable Ends
CHECK_DEADLOCK FALSE
