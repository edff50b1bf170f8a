----------------------------- MODULE MCRouting -----------------------------
EXTENDS Routing, MCResolver, TLC

Symmetry == Permutations(Dial)
=============================================================================
