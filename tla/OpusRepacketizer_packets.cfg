SPECIFICATION Spec
CONSTANT
    Applications <- MCApplications
INVARIANTS
    FramesKept
    ExtensionsKept
    AtMost120ms
    NoOverrun
    JoinFits
