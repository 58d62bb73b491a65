SPECIFICATION Spec
CONSTANTS
    Null = Null
    Transactions = {t1, t2}
    Circuits = {c1, c2}
    Pages = {p1, p2}
    Calls = {k1}
    Hooks = {h1, h2}
    MaxRevision = 3
SYMMETRY Symmetry
INVARIANTS
    TypeOK
    JournalPagesShowAnswered
    CurrentShowsAnswered
    ShownInOneTab
PROPERTIES
    ScreensSpec
    TabsSpec
    PagesNeverGoBack
CHECK_DEADLOCK FALSE
