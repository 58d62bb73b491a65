SPECIFICATION Spec
CONSTANTS
    Null = Null
    Contents = {x1, x2}
INVARIANTS
    TypeOK
    ToldTokenIsAccepted
