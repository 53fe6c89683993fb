\* One scheduler pass over every DAG of three tasks: its safety, the lifecycle
\* promise that it implements, and that it comes to an end.
SPECIFICATION FairSpec
CONSTANTS
    t1 = t1
    t2 = t2
    t3 = t3
    file = file
    FILE = FILE
    other = other
    workspace = workspace
    Task <- MCTask
    Name <- MCName
    Normal <- MCNormal
    Global = workspace
    Plans <- MCPlans
    Rank <- MCRank
    NoTask = NoTask
    MaxConcurrency = 2
    MaxCancels = 2
    Retries = 1
CHECK_DEADLOCK FALSE
INVARIANTS
    TypeOK
    ExclusiveExecution
    NoLeaseLeak
    ResourceBlockIsTemporary
    NoTaskAbandoned
    CancelledRunIsQuiet
PROPERTIES
    LegalTransitions
    ImplementsLifecycle
    Termination
