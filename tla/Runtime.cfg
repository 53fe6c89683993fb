\* The parts of the runtime around plans and their execution, one by one.
SPECIFICATION MCSpec
CONSTANTS
    a1 = a1
    a2 = a2
    k1 = k1
    k2 = k2
    Path = {p1, p2}
    Content = {x1, x2}
    MaxCheckpoint = 2
    Absent = nothing
    Tasks <- MCTasks
    Mutating = {"t2"}
    Criteria <- MCCriteria
    Evidence <- MCEvidence
    MaxPasses = 2
    MaxRepairs = 4
    MaxProcesses = 2
    Worker = {w1, w2}
    Effect = {e1, e2}
    MaxRevisions = 1
    MaxGoalRepairs = 1
    MaxSteps = 2
    MaxProtocol = 1
    MaxCalls = 2
    MaxMessages = 8
    Parent = {w1, w2}
    Specialist = {1, 2}
    Capability = {k1, k2}
    Skills <- MCSkills
    MaxSubagents = 3
    MaxRequest = 2
    Agent = {a1, a2}
    Visible = {a1}
    Retries = 1
    MaxChunks = 2
    MaxTools = 1
    MaxAsked = 1
    PanelTool = {w1, w2}
    Process = {a1, a2}
    Thread = {k1, k2}
    Home <- MCHome
    Artifact = {e1, e2, e3}
    MaxRefs = 2
    MaxUsage = 1
    MaxLines = 4
    MaxLength = 2
    MaxPieces = 6
    Text = {v1, v2}
    Writer = {w1, w2}
    Explorer = explorer
    Stray = stray
    MaxUpdate = 2
    Workspace = {a1, a2}
    MaxItems = 4
    Call = {w1, w2}
    MaxCancels = 1
    Requirement = {e1}
    Official = {"T1", "T2"}
    MaxTasks = 3
    Nobody = nothing
    Nothing = nothing
SYMMETRY Alike
CHECK_DEADLOCK FALSE
INVARIANTS
    RuntimeTypeOK
    SeedsFitTheirGap
    ConvergedIsWhole
    EffectsWereApproved
    RequestsAreWhole
    MutatorsWorkAlone
    ShownIsTheAnswer
    ShownRunningRuns
    NamedIsReadable
    EveryLineIsInAChunk
    IndexFollowsWrites
    WhatWasSaidIsFiled
    NoProcessIsLeft
    ApprovedPlansTraceTheSpec
PROPERTIES
    LaterEditsSurvive
