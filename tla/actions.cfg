SPECIFICATION LayoutFairSpec
CONSTANTS
    None = None
    Calls = {k1, k2}
    Hooks = {h1}
INVARIANTS
    NeverBothMessages
    MessageStandsUnlessCrossed
    IdleIsNotBusy
    PageIsCurrent
PROPERTIES
    BothShownOnlyIfTorn
    ButtonsComeBack
