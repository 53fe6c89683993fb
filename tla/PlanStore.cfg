\* One process, with failed writes and kills.
SPECIFICATION Spec
CONSTANTS
    Process = {p1}
    Text = {draft, final}
    MaxId = 2
    MaxRevision = 3
    Nothing = Nothing
INVARIANTS
    TypeOK
    CurrentIsRecorded
PROPERTIES
    RevisionsImmutable
    ExecutedIsCurrent
    ImplementsRegistry
