SPECIFICATION Spec
CONSTANT Documents <- MCDocuments
INVARIANT UnsupportedFormatIsRefused
