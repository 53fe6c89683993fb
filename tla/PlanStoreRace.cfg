\* Two processes share the directory, and no lock.
SPECIFICATION Spec
CONSTANTS
    Process = {p1, p2}
    Text = {draft, final}
    MaxId = 1
    MaxRevision = 2
    Nothing = Nothing
PROPERTY RevisionsImmutable
