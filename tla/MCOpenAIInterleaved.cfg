SPECIFICATION FairStreamSpec
CONSTANTS
    MaxLines = 8
    Streams <- Interleaved
INVARIANTS
    OwnArguments
