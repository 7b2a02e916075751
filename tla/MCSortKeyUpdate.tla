-------------------------- MODULE MCSortKeyUpdate --------------------------
EXTENDS SortKeyUpdate, TLC

CONSTANTS a, b, j1, j2, j3

(* Two jobs on one ingester, one on the other. *)
MCIngesterOf == (j1 :> a @@ j2 :> a @@ j3 :> b)

MCColumns == {"region", "host"}
=============================================================================
