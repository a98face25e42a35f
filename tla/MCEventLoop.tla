---------------------------- MODULE MCEventLoop ----------------------------
EXTENDS EventLoop, TLC

\* Addresses are interchangeable, and so are closures.  Not used with
\* liveness properties.
Symmetry == Permutations(Registrants) \cup Permutations(Actions)
=============================================================================
