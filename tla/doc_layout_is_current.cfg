SPECIFICATION LayoutSpec
CONSTANTS
    None = None
    Calls = {k1}
    Hooks = {h1}
INVARIANT LayoutIsCurrent
