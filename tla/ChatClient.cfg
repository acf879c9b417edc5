\* Two endpoints, so that a line may be posted between two attempts.
SPECIFICATION Spec
CONSTANTS
    MaxLines = 2
    MaxFrames = 2
    Endpoints = 2
INVARIANTS
    WriteInProgress
    LinesInOrder
PROPERTIES
    LinesAreSent
    InputEndEndsClient
CHECK_DEADLOCK FALSE
