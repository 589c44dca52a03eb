SPECIFICATION Spec
CONSTANTS
    Workers = {w1, w2}
    OwnsSecret = TRUE
    Limits <- MCLimits
SYMMETRY Symmetry
INVARIANTS
    StrandedForCause
    CursorHasRows
    RevokedForCause
CHECK_DEADLOCK FALSE
