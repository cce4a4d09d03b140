SPECIFICATION AgentSpec
CONSTANTS
    Names = {"calculator", "weather"}
    ToolList <- MCTools
    Upper <- MCUpper
    IterationLimits = {3}
    MaxActions = 2
    MaxCalls = 1
    Arguments = {"{__arg1: 1+1}", "2+2"}
    Parsable = {"{__arg1: 1+1}"}
    Unwrapped <- MCUnwrapped
INVARIANTS
    TurnsAsTheyWere
