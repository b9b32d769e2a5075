SPECIFICATION Spec
CONSTANTS
    Heap = {h1, h2, h3}
    NoList = NoList
    WildList = WildList
    Shelves <- MCShelves
    EntryCount = 2
    DisplayHeight = 544
    HeaderHeight = 112
INVARIANTS
    TypeOK
    NoDanglingList
    HeapIsOwned
    PageHoldsSelection
PROPERTIES
    MainUnreachableAfterEpisodes
    OnlyUpdateStrandsSelection
    HighlightLagsAtMostOneFrame
    ImplementsNavigation
