-------------------------- MODULE MCIntrusiveList --------------------------
EXTENDS IntrusiveList, TLC

\* Addresses are interchangeable.
Symmetry == Permutations(Lists) \cup Permutations(Nodes)
=============================================================================
