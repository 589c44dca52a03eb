SPECIFICATION Spec
CONSTANTS
    Subs = {s1}
    Callers = {c1, c2}
    Lifetimes = {0, 1, 4}
    MinLead = 3
    MaxTime = 4
SYMMETRY Symmetry
INVARIANTS
    DueBeforeItLapses
    NeverClaimsMore
CHECK_DEADLOCK FALSE
