\* The loop waits for a line when the context is cancelled.
CONSTANTS
    Notifiers = {n1}
    Nobody = Nobody
    MaxLines = 1
    MaxNotes = 0
SPECIFICATION FairSpec
PROPERTY ReturnsOnCancel
CHECK_DEADLOCK FALSE
