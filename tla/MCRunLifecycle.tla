--------------------------- MODULE MCRunLifecycle ---------------------------
EXTENDS RunLifecycle, TLC

\* Workers are interchangeable; ids are ordered, so they are not.
WorkerSymmetry == Permutations(Workers)
=============================================================================
