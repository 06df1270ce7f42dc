------------------------- MODULE MCSearchDocuments -------------------------
EXTENDS SearchDocuments, TLC

CONSTANTS u1, u2, v1, r1, r2, x1, x2

\* One email: u2 can register when u1 is not there, or was not read.
AuthorOf == [v \in Reviews |-> u1]
EmailOf  == [u \in Users |-> "email"]

Symmetry == Permutations(Requests) \cup Permutations(Contents)
=============================================================================
