\* One process: a failed write or a kill between the two files of a plan.
SPECIFICATION Spec
CONSTANTS
    Process = {p1}
    Text = {draft, final}
    MaxId = 2
    MaxRevision = 3
    Nothing = Nothing
INVARIANT ConflictMeansStale
