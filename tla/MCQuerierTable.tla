---------------------------- MODULE MCQuerierTable ----------------------------
(* Finite instances of QuerierTable. *)
EXTENDS QuerierTable, TLC

CONSTANTS q1, q2, p1, p2

MCTags == Queries \X {"pre-warm", "get"}
MCFilters == {{p1}, {p2}}

\* One batch per partition.
MCBatches == {<<p1, 1>>, <<p2, 1>>}

\* The queries are interchangeable.
MCSymmetry == Permutations(Queries)

=============================================================================
