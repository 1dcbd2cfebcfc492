------------------------------ MODULE MC_Client ------------------------------
EXTENDS Client, TLC

\* The code tells neither the transports nor their threads apart; used by the
\* safety runs only.
Symmetry == Permutations(Readers) \cup Permutations(Transports)
=============================================================================
