SPECIFICATION Spec
CONSTANTS
    t1 = t1
    t2 = t2
    p1 = p1
    p2 = p2
    none = none
    Token = {t1, t2}
    Press = {p1, p2}
    None = none
    Capacity = 2
    MaxFaults = 2
INVARIANTS
    TypeOK
    RingSettles
    TokensKept
