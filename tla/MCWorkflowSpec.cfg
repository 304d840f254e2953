CONSTANTS
    Id = {1, 2, 3}
    Submission <- Submissions
SPECIFICATION FairSpec
INVARIANTS VerdictIsRight OrderIsRight
PROPERTY Returns
CHECK_DEADLOCK FALSE
