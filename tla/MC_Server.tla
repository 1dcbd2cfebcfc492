------------------------------ MODULE MC_Server ------------------------------
EXTENDS Server, TLC

\* The code tells neither the transports nor their threads apart; used by the
\* safety runs only.
Symmetry == Permutations(Workers) \cup Permutations(Transports)
=============================================================================
