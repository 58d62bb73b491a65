SPECIFICATION FairSpec
CONSTANTS
    Null = Null
    Transactions = {t1}
    Circuits = {c1, c2}
    Pages = {p1, p2}
    Calls = {k1, k2}
    Hooks = {h1}
    MaxRevision = 2
PROPERTIES
    WebhooksAnswered
    CallsEnd
CHECK_DEADLOCK FALSE
