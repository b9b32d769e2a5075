SPECIFICATION Spec
CONSTANT Documents <- MCDocuments
INVARIANTS
    ReadsWholeFeed
    ForeignNamespaceHidesFeed
