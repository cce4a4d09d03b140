SPECIFICATION MessagesSpec
CONSTANTS
    Replies <- AllReplies
    MaxBlocks = 4
    MaxParts = 2
INVARIANT
    SignedThinkingReplayed
