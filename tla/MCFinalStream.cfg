SPECIFICATION FairSpec
CONSTANTS
    Glyphs <- Alphabet
    Texts <- AllTexts
    Lists <- AllLists
    DefaultKeywords <- Default
    Space = " "
    Colon = ":"
    MaxChunk = 3
    MaxOthers = 1
INVARIANTS
    ForwardsTheRest
    KeywordHeard
PROPERTIES
    StreamsToTheEnd
