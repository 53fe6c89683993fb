\* A resume after a hook refused a result.
SPECIFICATION Spec
CONSTANTS
    t1 = t1
    t2 = t2
    t3 = t3
    file = file
    workspace = workspace
    Task <- MCTask
    Name <- MCName
    Normal <- MCNormal
    Global = workspace
    Plans <- MCPlans
    Rank <- MCRank
    Idempotent = {t2}
    MaxConcurrency = 2
    MaxRepairs = 1
    MaxResumes = 2
    Retries = 1
CHECK_DEADLOCK FALSE
PROPERTY
    RefusedResultsNotSeeded
