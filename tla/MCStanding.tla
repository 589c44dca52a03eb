----------------------------- MODULE MCStanding -----------------------------
EXTENDS Standing, TLC

\* Workers are interchangeable.
Symmetry == Permutations(Workers)

\* Two operations and a fault, without and with a Run beside them; and one
\* operation beside a credential that is replaced.
MCLimits ==
    {[credentials |-> 1, edits |-> 1, ops |-> 2, overlaps |-> 0, faults |-> 1],
     [credentials |-> 1, edits |-> 0, ops |-> 2, overlaps |-> 1, faults |-> 1],
     [credentials |-> 2, edits |-> 1, ops |-> 1, overlaps |-> 1, faults |-> 0]}
=============================================================================
