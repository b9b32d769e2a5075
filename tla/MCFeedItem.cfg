SPECIFICATION ItemSpec
CONSTANTS
    ItemNodes <- MCItemNodes
    EntryNodes <- MCEntryNodes
    Dates <- MCDates
    Characters <- MCCharacters
    Attributes <- MCAttributes
    Width = 65536
INVARIANTS
    RssFieldsFound
    OnlyLoneBracketFails
    EntryDescriptionFound
