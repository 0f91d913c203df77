--------------------------- MODULE MCComputeFirst ---------------------------
\* Instances of ComputeFirst for TLC.
EXTENDS ComputeFirst, TLC

\* The requests are interchangeable; sound for the safety runs only.
RequestSymmetry == Permutations(Requests)
=============================================================================
