SPECIFICATION HistorySpec
CONSTANTS
    Buttons = {accept, back}
    MaxPushes = 3
INVARIANTS
    EveryPushCounts
PROPERTIES
    NoTriggerTwice
    ReleaseTriggers
