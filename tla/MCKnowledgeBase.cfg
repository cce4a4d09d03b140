SPECIFICATION FairSpec
CONSTANTS
    Calls = {"p", "q"}
    Docs <- MCDocs
    DocsOf <- MCDocsOf
    WithMetadata = {"shared"}
    MaxConcurrency = 1
    BatchSize = 1
    MaxRetries = 2
INVARIANTS
    AddedIsThere
    RollbackClears
PROPERTIES
    AddReturns
