----------------------------- MODULE MCCallTable -----------------------------
EXTENDS CallTable, TLC

\* Calls of one direction are interchangeable.
Symmetric == Permutations(Incoming) \cup Permutations(Outgoing)
=============================================================================
