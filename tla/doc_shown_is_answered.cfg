SPECIFICATION Spec
CONSTANTS
    Null = Null
    Transactions = {t1, t2}
    Circuits = {c1}
    Pages = {p1, p2}
    Calls = {k1}
    Hooks = {h1}
    MaxRevision = 2
INVARIANT ShownIsAnswered
CHECK_DEADLOCK FALSE
