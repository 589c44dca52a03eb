---------------------------- MODULE MCScheduling ----------------------------
EXTENDS Scheduling, TLC

\* Workers are interchangeable, and so are sweeps.
Symmetry == Permutations(Workers) \cup Permutations(Schedulers)
=============================================================================
