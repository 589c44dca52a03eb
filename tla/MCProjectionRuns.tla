-------------------------- MODULE MCProjectionRuns --------------------------
EXTENDS ProjectionRuns, TLC

\* Workers are interchangeable; rows and loads are ordered, so they are not.
WorkerSymmetry == Permutations(Workers)
=============================================================================
