SPECIFICATION AppSpec
CONSTANTS
    Heap = {h1}
    NoList = NoList
    WildList = WildList
    Shelves <- MCShelves
    EntryCount = 2
    DisplayHeight = 544
    HeaderHeight = 112
    MaxHeld = 2
PROPERTIES
    AcceptRunsHighlightedEntry
