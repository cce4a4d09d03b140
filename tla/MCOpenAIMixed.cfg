SPECIFICATION FairStreamSpec
CONSTANTS
    MaxLines = 8
    Streams <- Mixed
INVARIANTS
    TextIsStreamed
