---------------------------- MODULE MCWgLanGate ----------------------------
EXTENDS WgLanGate, TLC
Sym == Permutations(Lans)
=============================================================================
