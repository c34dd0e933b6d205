SPECIFICATION ReaderSpec
CONSTANTS
    Lists <- MCLists
    Raws <- MCRaws
    MaxResets = 1
INVARIANTS
    RoundTrip
    SameAgain
    WithinPadding
