SPECIFICATION Spec
CONSTANTS
    Null = Null
    Phones = {p1}
    Transactions = {t1}
    Circuits = {c1, c2}
    Calls = {k1, k2}
    Hooks = {h1, h2}
SYMMETRY Symmetry
INVARIANTS
    PhoneIsTheConfirmedOne
    OutcomeExplained
    AckedSuccessUntilChecked
    CallbackKeptUnlessRaced
    ChecksDoNotOverlap
PROPERTIES
    CheckKeptUnlessRaced
    LostStaysLost
    JournalSpec
    TabsSpec
CHECK_DEADLOCK FALSE
