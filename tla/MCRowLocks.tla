----------------------------- MODULE MCRowLocks -----------------------------
EXTENDS RowLocks, TLC

\* Addresses, organizations and requests are treated alike: ids are not, since rows
\* are deleted in their order.
Symmetry ==
  Permutations(Emails) \cup Permutations(Organizations) \cup Permutations(Requests)
=============================================================================
