SPECIFICATION FairSpec
CONSTANTS
    Buttons = {accept, back}
    Accept = accept
    Texts = {none, url}
    NoText = none
    Garbage = Garbage
INVARIANTS
    AnswerIsTyped
PROPERTIES
    OpenNeedsNewPush
    DialogKeepsItsPushes
    NotOpenedIsForever
    WaitsOnlyForDialog
