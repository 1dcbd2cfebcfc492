-------------------------- MODULE MC_StreamableHttp --------------------------
EXTENDS StreamableHttp, TLC

\* Neither the connections nor the application threads are told apart by the
\* code; used by the safety runs only.
Symmetry == Permutations(Conns) \cup Permutations(Apps)

TwoFds == 3..4
ThreeFds == 3..5
=============================================================================
