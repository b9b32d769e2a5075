SPECIFICATION FairSession
CONSTANTS
    Heap = {h1, h2}
    NoList = NoList
    WildList = WildList
    Shelves <- MCShelves
    EntryCount = 2
    DisplayHeight = 544
    HeaderHeight = 112
    a = a
    Letters <- MCLetters
    Urls <- MCUrls
    Misreads <- MCMisreads
    MaxLines = 2
    MaxTail = 1
    EpisodeCounts = {0, 1}
    NoFeed = NoFeed
INVARIANTS
    ShelfIsPodcasts
    EveryGoodFeedIsShelved
PROPERTIES
    MenuComesBack
    ImplementsCatalogue
