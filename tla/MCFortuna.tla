----------------------------- MODULE MCFortuna -----------------------------
EXTENDS Fortuna, TLC

Symmetry == Permutations(Requests)
=============================================================================
