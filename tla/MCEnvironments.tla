--------------------------- MODULE MCEnvironments ---------------------------
EXTENDS Environments, TLC

\* Clients and names are only compared, so any permutation of them that keeps
\* the root clients apart is sound.
Symmetry == Permutations(Names) \cup Permutations(Clients \ Roots)
=============================================================================
