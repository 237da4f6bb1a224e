SPECIFICATION MailboxSpec
CONSTANTS
    Cells <- CommandCells
    Attempts = 3
    SeqModulus = 6
    MaxPublications = 5
INVARIANTS
    SnapshotCoherent
PROPERTIES
    ImplementsLatestValue
    ReadsGetThrough
