SPECIFICATION Spec
CONSTANTS
    a = a
    b = b
    Letters <- MCLetters
    Urls <- MCUrls
    Misreads <- MCMisreads
    MaxLines = 3
    MaxTail = 2
INVARIANTS
    NoDuplicates
    DamageNeedsTear
    HeaderIsRight
PROPERTIES
    ListedStaysListed
