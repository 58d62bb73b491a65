SPECIFICATION Spec
CONSTANTS
    Null = Null
    Phones = {p1}
    Transactions = {t1, t2}
    Circuits = {c1}
    Calls = {k1, k2}
    Hooks = {h1}
SYMMETRY Symmetry
INVARIANTS
    TypeOK
    IInv
    TrackedIsStored
    OutcomeIsGenuine
CHECK_DEADLOCK FALSE
