SPECIFICATION FairSpec
CONSTANTS
    Attempts = {k1, k2}
INVARIANT NeverStranded
PROPERTIES
    WorkingPageIsKept
    Recovers
