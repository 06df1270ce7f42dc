------------------------- MODULE MCApplicationQuota -------------------------
(* Instances of ApplicationQuota for the model checker.                    *)
EXTENDS ApplicationQuota, TLC

\* The reviewer is an administrator, or the recruiter of every job.
EveryJob == [v \in Reviews |-> Jobs]

\* The batches of a review request: any; or one row, both rows at once, in any order, or
\* one in each batch.
AnyBatch == (SUBSET Applies) \X (SUBSET Applies)
TwoRows  == LET a == CHOOSE a \in Applies : TRUE
            IN  {<<{}, {a}>>, <<{}, Applies>>, <<{a}, Applies \ {a}>>}

Identities == Permutations(Workers)
              \cup Permutations(Applies)
=============================================================================
