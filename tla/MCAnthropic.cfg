SPECIFICATION FairMessagesSpec
CONSTANTS
    Replies <- AllReplies
    MaxBlocks = 4
    MaxParts = 2
INVARIANTS
    WholeOrError
    StreamedIsAnswered
    ReplayKeepsTheTurn
PROPERTIES
    CallEnds
