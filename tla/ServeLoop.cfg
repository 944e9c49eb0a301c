SPECIFICATION FairSpec
CONSTANTS
    Notifiers = {n1, n2}
    Nobody = Nobody
    MaxLines = 3
    MaxNotes = 2
INVARIANT TypeOK
PROPERTY HoldsDialogue
PROPERTY RequestsAreAnswered
PROPERTY ReturnsOnClose
CHECK_DEADLOCK FALSE
