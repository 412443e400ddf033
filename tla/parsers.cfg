CONSTANTS
    QueryId = 7
    Limit = 16
    Chunk = 6
    MaxStream = 30
    Messages <- SomeMessages

SPECIFICATION ParsersSpec

INVARIANTS
    ReadsInBounds
    AnswerRight
    HeadRight

CHECK_DEADLOCK FALSE
