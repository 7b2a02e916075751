---------------------------- MODULE MCIngester ----------------------------
EXTENDS Ingester, TLC

(* Neither the writes nor the tables are told apart. *)
Symmetry == Permutations(Ops) \cup Permutations(Tables)
=============================================================================
