SPECIFICATION FairStreamSpec
CONSTANTS
    MaxLines = 8
    Streams <- FunctionCalls
INVARIANTS
    FunctionCallReturned
