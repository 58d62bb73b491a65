SPECIFICATION Spec
CONSTANTS
    Null = Null
    Phones = {p1}
    Transactions = {t1}
    Circuits = {c1}
    Calls = {k1, k2}
    Hooks = {h1}
INVARIANT StoredWasNotRefused
CHECK_DEADLOCK FALSE
