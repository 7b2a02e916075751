------------------------- MODULE SequenceOperators -------------------------
(***************************************************************************)
(* Operators on sequences written as recursive functions and               *)
(* concatenations, so that facts about them can be proved.                 *)
(***************************************************************************)
EXTENDS Naturals, Sequences

(* The sequences of ss one after the other (Iterator::flatten). *)
Concat(ss) ==
  LET joined[i \in 0..Len(ss)] == IF i = 0 THEN <<>> ELSE joined[i - 1] \o ss[i]
  IN joined[Len(ss)]

(* The elements of s that are in S, in the order of s (Iterator::filter). *)
Keep(s, S) == Concat([i \in 1..Len(s) |-> IF s[i] \in S THEN <<s[i]>> ELSE <<>>])
=============================================================================
