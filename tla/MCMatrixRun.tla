---------------------------- MODULE MCMatrixRun -----------------------------
\* MatrixRun for TLC: runs, experiments and fingerprints are interchangeable.
EXTENDS MatrixRun, TLC

Symmetry == Permutations(Runs) \cup Permutations(Experiments)
              \cup Permutations(Fingerprints)
=============================================================================
