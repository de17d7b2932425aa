------------------------------ MODULE MCLedger ------------------------------
\* Instance of Ledger for TLC.  The contents are interchangeable: no definition
\* tells one from another.
EXTENDS Ledger, TLC

\* Bound: once the ledger is spoilt it is followed for as long as the tasks overlap.
SpoiltBound == spoilt => Overlapping /\ Cardinality(history) <= 1

Symmetry == Permutations(Digests)
=============================================================================
