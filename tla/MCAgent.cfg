SPECIFICATION FairSpec
CONSTANTS
    Names <- MCNames
    ToolList <- MCTools
    Upper <- MCUpper
    IterationLimits = {0, 2}
    MaxActions = 2
    MaxCalls = 2
INVARIANTS
    AgentSeesEveryAction
    ReturnedStepsAreComplete
    MemoryMatchesAnswers
PROPERTIES
    ImplementsProtocol
    CallReturns
