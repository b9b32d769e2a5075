SPECIFICATION UtilsSpec
CONSTANTS
    Texts <- MCTexts
    Titles <- MCTitles
    MaxTextLength = 3
    BufferSize = 10
    Characters = {a, b, newline}
    NL = newline
    Files <- MCFiles
INVARIANTS
    TypedTextFits
    LoopsStayInside
    TitleOverrunsByOne
    RoundTrip
    LinesOfBuffer
