--------------------------- MODULE MCSubscriptions ---------------------------
EXTENDS Subscriptions, TLC

\* Rows are interchangeable, and so are callers.
Symmetry == Permutations(Subs) \cup Permutations(Callers)
=============================================================================
