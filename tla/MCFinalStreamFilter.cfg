SPECIFICATION Spec
CONSTANTS
    Glyphs <- Alphabet
    Texts <- AllTexts
    Lists <- AllLists
    DefaultKeywords <- Default
    Space = " "
    Colon = ":"
    MaxChunk = 3
    MaxOthers = 0
INVARIANT
    KeywordNotForwarded
