----------------------------- MODULE MCFutures -----------------------------
EXTENDS FuturesRefinement, TLC

\* Addresses and waiters are interchangeable.
Symmetry == Permutations(Promises) \cup Permutations(Futures)
              \cup Permutations(Notifies)
=============================================================================
