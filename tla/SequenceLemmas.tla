--------------------------- MODULE SequenceLemmas ---------------------------
(***************************************************************************)
(* Facts about the operators of SequenceOperators.  Induction is over a    *)
(* set (of numbers, or of sequences) that is shown to contain everything.  *)
(***************************************************************************)
EXTENDS SequenceOperators, Integers, Functions, WellFoundedInduction, TLAPS

(* The provers' time for a leaf that does not name one. *)
USE ZenonT(5), SMTT(20)

(* Basic facts about sequences.  These, and not all of SequenceTheorems,
   since the provers are given every statement of an extended module.      *)
LEMMA SeqDef ==
  ASSUME NEW T
  PROVE  Seq(T) = UNION {[1..n -> T] : n \in Nat}
OBVIOUS

LEMMA SeqMonotonic ==
  ASSUME NEW T, NEW U, T \subseteq U, NEW s \in Seq(T)
  PROVE  s \in Seq(U)
OBVIOUS

LEMMA ElementOfSeq ==
  ASSUME NEW T, NEW s \in Seq(T), NEW i \in 1..Len(s)
  PROVE  s[i] \in T
OBVIOUS

LEMMA EmptySeq ==
  ASSUME NEW T
  PROVE  <<>> \in Seq(T) /\ Len(<<>>) = 0 /\ \A s \in Seq(T) : s # <<>> => Len(s) \in Nat \ {0}
OBVIOUS

LEMMA LenProperties ==
  ASSUME NEW T, NEW s \in Seq(T)
  PROVE  Len(s) \in Nat /\ DOMAIN s = 1..Len(s) /\ s \in [1..Len(s) -> T]
OBVIOUS

LEMMA SeqEqual ==
  ASSUME NEW T, NEW s \in Seq(T), NEW u \in Seq(T), Len(s) = Len(u), \A i \in 1..Len(s) : s[i] = u[i]
  PROVE  s = u
OBVIOUS

LEMMA ConcatProperties ==
  ASSUME NEW T, NEW s \in Seq(T), NEW u \in Seq(T)
  PROVE  /\ s \o u \in Seq(T) /\ Len(s \o u) = Len(s) + Len(u)
         /\ \A i \in 1..(Len(s) + Len(u)) : (s \o u)[i] = IF i <= Len(s) THEN s[i] ELSE u[i - Len(s)]
OBVIOUS

LEMMA ConcatEmptySeq ==
  ASSUME NEW T, NEW s \in Seq(T)
  PROVE  <<>> \o s = s /\ s \o <<>> = s
OBVIOUS

LEMMA AppendProperties ==
  ASSUME NEW T, NEW s \in Seq(T), NEW e \in T
  PROVE  /\ Append(s, e) \in Seq(T) /\ Append(s, e) # <<>> /\ Len(Append(s, e)) = Len(s) + 1
         /\ Append(s, e)[Len(s) + 1] = e /\ \A i \in 1..Len(s) : Append(s, e)[i] = s[i]
OBVIOUS

LEMMA AppendIsConcat ==
  ASSUME NEW T, NEW s \in Seq(T), NEW e \in T
  PROVE  Append(s, e) = s \o <<e>>
OBVIOUS

LEMMA SequenceEmptyOrAppend ==
  ASSUME NEW T, NEW s \in Seq(T), s # <<>>
  PROVE  \E r \in Seq(T), e \in T : s = Append(r, e)
<1>1. Len(s) \in Nat \ {0} /\ s[Len(s)] \in T
  OBVIOUS
<1> DEFINE r == [i \in 1..(Len(s) - 1) |-> s[i]]
<1>2. r \in Seq(T) /\ s = Append(r, s[Len(s)])
  BY <1>1
<1>3. QED
  BY <1>1, <1>2, Zenon

(* A set of natural numbers that is not empty has a least element. *)
LEMMA LeastElement ==
  ASSUME NEW S, S \subseteq Nat, S # {}
  PROVE  \E x \in S : \A y \in S : x <= y
<1> DEFINE R == OpToRel(<, Nat)
<1>1. IsWellFoundedOn(R, Nat)
  BY NatLessThanWellFounded
<1>2. \A x, y \in Nat : x < y => <<x, y>> \in R
  BY DEF OpToRel
<1> HIDE DEF R
<1>3. PICK x \in S : \A y \in S : ~(<<y, x>> \in R)
  BY <1>1, WFMin, Zenon
<1>4. ASSUME NEW y \in S PROVE x <= y
  <2>1. ~(y < x)
    BY <1>2, <1>3, Zenon
  <2>2. QED
    BY <2>1
<1>5. QED
  BY <1>4

(* A set that contains 0 and the successor of each of its elements contains
   every natural number.                                                   *)
LEMMA NatSet ==
  ASSUME NEW S, 0 \in S, \A n \in Nat : n \in S => n + 1 \in S
  PROVE  Nat \subseteq S
<1>1. SUFFICES ASSUME Nat \ S # {} PROVE FALSE
  OBVIOUS
<1>2. PICK x \in Nat \ S : \A y \in Nat \ S : x <= y
  BY <1>1, LeastElement
<1>3. x # 0
  OBVIOUS
<1>4. x - 1 \in Nat /\ ~(x <= x - 1) /\ x - 1 + 1 = x
  BY <1>3
<1>5. x - 1 \in S
  BY <1>2, <1>4, Zenon
<1>6. QED
  BY <1>4, <1>5

(* Append, and what the elements of the result are. *)
LEMMA Appended ==
  ASSUME NEW T, NEW s \in Seq(T), NEW e \in T
  PROVE  /\ Append(s, e) \in Seq(T)
         /\ Len(s) \in Nat /\ Len(Append(s, e)) = Len(s) + 1
         /\ \A i \in 1..Len(s) : Append(s, e)[i] = s[i]
         /\ Append(s, e)[Len(s) + 1] = e
BY AppendProperties, LenProperties

(* A set that contains the empty sequence and is closed under Append
   contains every sequence.                                                *)
LEMMA SeqSet ==
  ASSUME NEW T, NEW P, <<>> \in P, \A s \in Seq(T), e \in T : s \in P => Append(s, e) \in P
  PROVE  Seq(T) \subseteq P
<1> DEFINE N == {n \in Nat : \A s \in Seq(T) : Len(s) = n => s \in P}
<1>1. 0 \in N
  <2>1. \A s \in Seq(T) : Len(s) = 0 => s = <<>>
    BY EmptySeq
  <2>2. QED
    BY <2>1
<1>2. ASSUME NEW n \in Nat, n \in N PROVE n + 1 \in N
  <2> SUFFICES ASSUME NEW s \in Seq(T), Len(s) = n + 1 PROVE s \in P
    OBVIOUS
  <2>1. s # <<>>
    BY EmptySeq
  <2>2. PICK r \in Seq(T), e \in T : s = Append(r, e)
    BY <2>1, SequenceEmptyOrAppend
  <2>3. Len(r) \in Nat /\ Len(s) = Len(r) + 1
    BY <2>2, Appended
  <2>4. Len(r) = n
    BY <2>3
  <2>5. QED
    BY <1>2, <2>2, <2>4
<1>3. Nat \subseteq N
  <2> HIDE DEF N
  <2>1. QED
    BY <1>1, <1>2, NatSet
<1>4. QED
  BY <1>3, LenProperties

-----------------------------------------------------------------------------
(* The partial concatenations of ss. *)
Steps(f, ss) ==
  /\ DOMAIN f = 0..Len(ss)
  /\ f[0] = <<>>
  /\ \A i \in 1..Len(ss) : f[i] = f[i - 1] \o ss[i]

(* The recursive function that Concat is defined by exists. *)
LEMMA StepsExist ==
  ASSUME NEW X, NEW ss \in Seq(X)
  PROVE  \E f : f = [i \in 0..Len(ss) |-> IF i = 0 THEN <<>> ELSE f[i - 1] \o ss[i]]
<1> DEFINE E(f, n) == /\ DOMAIN f = 0..n
                      /\ f = [i \in 0..n |-> f[i]]
                      /\ f[0] = <<>>
                      /\ \A i \in 1..n : f[i] = f[i - 1] \o ss[i]
           N == {n \in Nat : \E f : E(f, n)}
<1>1. 0 \in N
  <2> DEFINE f == [i \in 0..0 |-> <<>>]
  <2>1. E(f, 0)
    OBVIOUS
  <2>2. QED
    BY <2>1, Zenon
<1>2. ASSUME NEW n \in Nat, n \in N PROVE n + 1 \in N
  <2>1. PICK f : E(f, n)
    BY <1>2, Zenon
  <2> DEFINE e == f[n] \o ss[n + 1]
             g == [i \in 0..(n + 1) |-> IF i = n + 1 THEN e ELSE f[i]]
  <2>2. DOMAIN g = 0..(n + 1) /\ g = [i \in 0..(n + 1) |-> g[i]] /\ g[0] = <<>>
    BY <2>1
  <2>3. \A i \in 0..n : g[i] = f[i]
    OBVIOUS
  <2>4. g[n + 1] = e
    OBVIOUS
  <2> HIDE DEF g
  <2>5. ASSUME NEW i \in 1..(n + 1) PROVE g[i] = g[i - 1] \o ss[i]
    <3>1. CASE i = n + 1
      <4>1. i - 1 = n /\ n \in 0..n
        BY <3>1
      <4>2. QED
        BY <2>3, <2>4, <3>1, <4>1, Zenon
    <3>2. CASE i # n + 1
      <4>1. i \in 1..n /\ i \in 0..n /\ i - 1 \in 0..n
        BY <3>2
      <4>2. QED
        BY <2>1, <2>3, <4>1
    <3>3. QED
      BY <3>1, <3>2, Zenon
  <2>6. E(g, n + 1) /\ n + 1 \in Nat
    BY <2>2, <2>5
  <2> HIDE DEF g
  <2>7. QED
    BY <2>6, Zenon
<1>3. Len(ss) \in N
  <2> HIDE DEF N
  <2>1. QED
    BY <1>1, <1>2, NatSet, LenProperties
<1>4. PICK f : E(f, Len(ss))
  BY <1>3, Zenon
<1>5. f = [i \in 0..Len(ss) |-> IF i = 0 THEN <<>> ELSE f[i - 1] \o ss[i]]
  <2>1. ASSUME NEW i \in 0..Len(ss)
        PROVE  f[i] = IF i = 0 THEN <<>> ELSE f[i - 1] \o ss[i]
    <3>1. i = 0 \/ i \in 1..Len(ss)
      BY LenProperties
    <3>2. QED
      BY <1>4, <3>1
  <2>2. QED
    BY <1>4, <2>1
<1>6. QED
  BY <1>5

(* Concat is the last of its partial concatenations. *)
LEMMA ConcatSteps ==
  ASSUME NEW X, NEW ss \in Seq(X)
  PROVE  \E f : Steps(f, ss) /\ Concat(ss) = f[Len(ss)]
<1> DEFINE F(f) == [i \in 0..Len(ss) |-> IF i = 0 THEN <<>> ELSE f[i - 1] \o ss[i]]
           k == CHOOSE f : f = F(f)
<1>1. k = F(k)
  <2>1. \E f : f = F(f)
    BY StepsExist, Zenon
  <2> HIDE DEF F
  <2>2. QED
    BY <2>1
<1>2. Concat(ss) = k[Len(ss)]
  BY DEF Concat
<1> HIDE DEF k
<1>3. Steps(k, ss)
  <2>1. Len(ss) \in Nat
    BY LenProperties
  <2>2. DOMAIN k = 0..Len(ss) /\ k[0] = <<>>
    BY <1>1, <2>1
  <2>3. ASSUME NEW i \in 1..Len(ss) PROVE k[i] = k[i - 1] \o ss[i]
    <3>1. i \in 0..Len(ss) /\ i # 0
      BY <2>1
    <3>2. QED
      BY <1>1, <3>1
  <2>4. QED
    BY <2>2, <2>3 DEF Steps
<1>4. QED
  BY <1>2, <1>3

(* The steps of two sequences agree as far as the sequences do. *)
LEMMA StepsAgree ==
  ASSUME NEW X, NEW ss \in Seq(X), NEW tt \in Seq(X), NEW f, NEW g,
         Steps(f, ss), Steps(g, tt), Len(ss) <= Len(tt), \A i \in 1..Len(ss) : ss[i] = tt[i]
  PROVE  f[Len(ss)] = g[Len(ss)]
<1> DEFINE N == {n \in Nat : n <= Len(ss) => f[n] = g[n]}
<1>1. Len(ss) \in Nat /\ Len(tt) \in Nat
  BY LenProperties
<1>2. 0 \in N
  BY DEF Steps
<1>3. ASSUME NEW n \in Nat, n \in N PROVE n + 1 \in N
  <2> SUFFICES ASSUME n + 1 <= Len(ss) PROVE f[n + 1] = g[n + 1]
    BY <1>1
  <2>1. n + 1 \in 1..Len(ss) /\ n + 1 \in 1..Len(tt) /\ (n + 1) - 1 = n /\ n <= Len(ss)
    BY <1>1
  <2>2. f[n] = g[n] /\ ss[n + 1] = tt[n + 1]
    BY <1>3, <2>1
  <2>3. f[n + 1] = f[n] \o ss[n + 1] /\ g[n + 1] = g[n] \o tt[n + 1]
    BY <2>1, Zenon DEF Steps
  <2>4. QED
    BY <2>2, <2>3
<1>4. Nat \subseteq N
  <2> HIDE DEF N
  <2>1. QED
    BY <1>2, <1>3, NatSet
<1>5. QED
  BY <1>1, <1>4

(* Concat, by recursion on the sequence. *)
LEMMA ConcatOfNone == Concat(<<>>) = <<>>
<1>1. PICK f : Steps(f, <<>>) /\ Concat(<<>>) = f[Len(<<>>)]
  BY ConcatSteps, EmptySeq, Zenon
<1>2. QED
  BY <1>1 DEF Steps

LEMMA ConcatOfAppend ==
  ASSUME NEW X, NEW ss \in Seq(X), NEW e \in X
  PROVE  Concat(Append(ss, e)) = Concat(ss) \o e
<1> DEFINE tt == Append(ss, e)
<1>1. /\ tt \in Seq(X) /\ Len(ss) \in Nat /\ Len(tt) = Len(ss) + 1
      /\ \A i \in 1..Len(ss) : tt[i] = ss[i]
      /\ tt[Len(ss) + 1] = e
  BY Appended
<1> HIDE DEF tt
<1>2. PICK f : Steps(f, ss) /\ Concat(ss) = f[Len(ss)]
  BY ConcatSteps
<1>3. PICK g : Steps(g, tt) /\ Concat(tt) = g[Len(tt)]
  BY <1>1, ConcatSteps
<1>4. f[Len(ss)] = g[Len(ss)]
  <2>1. Len(ss) <= Len(tt) /\ \A i \in 1..Len(ss) : ss[i] = tt[i]
    BY <1>1
  <2>2. QED
    BY <1>1, <1>2, <1>3, <2>1, StepsAgree
<1>5. Len(tt) \in 1..Len(tt) /\ Len(tt) - 1 = Len(ss)
  BY <1>1
<1>6. g[Len(tt)] = g[Len(ss)] \o e
  BY <1>1, <1>3, <1>5, Zenon DEF Steps
<1>7. QED
  BY <1>2, <1>3, <1>4, <1>6 DEF tt

LEMMA ConcatType ==
  ASSUME NEW T, NEW ss \in Seq(Seq(T))
  PROVE  Concat(ss) \in Seq(T)
<1> DEFINE P == {r \in Seq(Seq(T)) : Concat(r) \in Seq(T)}
<1>1. <<>> \in P
  BY ConcatOfNone, EmptySeq, Zenon
<1>2. ASSUME NEW r \in Seq(Seq(T)), NEW e \in Seq(T), r \in P PROVE Append(r, e) \in P
  <2>1. Append(r, e) \in Seq(Seq(T))
    BY Appended
  <2>2. Concat(Append(r, e)) = Concat(r) \o e
    BY ConcatOfAppend
  <2>3. Concat(r) \o e \in Seq(T)
    BY <1>2, ConcatProperties
  <2>4. QED
    BY <2>1, <2>2, <2>3, Zenon
<1>3. Seq(Seq(T)) \subseteq P
  <2> HIDE DEF P
  <2>1. QED
    BY <1>1, <1>2, SeqSet
<1>4. QED
  BY <1>3

-----------------------------------------------------------------------------
(* Keep, by recursion on the sequence. *)
LEMMA KeepEmpty == \A S : Keep(<<>>, S) = <<>>
<1> TAKE S
<1>1. [i \in 1..Len(<<>>) |-> IF <<>>[i] \in S THEN <<(<<>>)[i]>> ELSE <<>>] = <<>>
  OBVIOUS
<1>2. QED
  BY <1>1, ConcatOfNone DEF Keep

LEMMA KeepAppend ==
  ASSUME NEW T, NEW s \in Seq(T), NEW e \in T, NEW S
  PROVE  Keep(Append(s, e), S) = IF e \in S THEN Append(Keep(s, S), e) ELSE Keep(s, S)
<1> DEFINE t == Append(s, e)
           M(r) == [i \in 1..Len(r) |-> IF r[i] \in S THEN <<r[i]>> ELSE <<>>]
           p == IF e \in S THEN <<e>> ELSE <<>>
<1>1. /\ t \in Seq(T) /\ Len(s) \in Nat /\ Len(t) = Len(s) + 1
      /\ \A i \in 1..Len(s) : t[i] = s[i]
      /\ t[Len(s) + 1] = e
  BY Appended
<1> HIDE DEF t
<1>2. p \in Seq(T)
  OBVIOUS
<1>3. /\ M(s) \in Seq(Seq(T)) /\ Len(M(s)) = Len(s)
      /\ \A i \in 1..Len(s) : M(s)[i] = IF s[i] \in S THEN <<s[i]>> ELSE <<>>
  <2>1. \A i \in 1..Len(s) : s[i] \in T
    BY ElementOfSeq
  <2>2. M(s) \in [1..Len(s) -> Seq(T)]
    BY <2>1
  <2>3. QED
    BY <1>1, <2>2
<1>4. /\ M(t) \in Seq(Seq(T)) /\ Len(M(t)) = Len(t)
      /\ \A i \in 1..Len(t) : M(t)[i] = IF t[i] \in S THEN <<t[i]>> ELSE <<>>
  <2>1. \A i \in 1..Len(t) : t[i] \in T
    BY <1>1, ElementOfSeq
  <2>2. M(t) \in [1..Len(t) -> Seq(T)]
    BY <2>1
  <2>3. QED
    BY <1>1, <2>2
<1>5. Keep(s, S) = Concat(M(s)) /\ Keep(t, S) = Concat(M(t))
  BY DEF Keep
<1> HIDE DEF M, p
<1>6. M(t) = Append(M(s), p)
  <2>1. /\ Append(M(s), p) \in Seq(Seq(T)) /\ Len(Append(M(s), p)) = Len(t)
        /\ \A i \in 1..Len(s) : Append(M(s), p)[i] = M(s)[i]
        /\ Append(M(s), p)[Len(s) + 1] = p
    BY <1>1, <1>2, <1>3, Appended
  <2>2. ASSUME NEW i \in 1..Len(t) PROVE M(t)[i] = Append(M(s), p)[i]
    <3>1. CASE i = Len(s) + 1
      BY <1>1, <1>4, <2>1, <3>1 DEF p
    <3>2. CASE i # Len(s) + 1
      <4>1. i \in 1..Len(s)
        BY <1>1, <3>2
      <4>2. QED
        BY <1>1, <1>3, <1>4, <2>1, <4>1, Zenon
    <3>3. QED
      BY <3>1, <3>2, Zenon
  <2>3. QED
    BY <1>4, <2>1, <2>2, SeqEqual, Zenon
<1>7. Keep(t, S) = Keep(s, S) \o p
  BY <1>2, <1>3, <1>5, <1>6, ConcatOfAppend, Zenon
<1>8. Keep(s, S) \in Seq(T)
  BY <1>3, <1>5, ConcatType
<1>9. CASE e \in S
  <2>1. Keep(s, S) \o <<e>> = Append(Keep(s, S), e)
    BY <1>8, AppendIsConcat
  <2>2. QED
    BY <1>7, <1>9, <2>1 DEF t, p
<1>10. CASE e \notin S
  <2>1. Keep(s, S) \o <<>> = Keep(s, S)
    BY <1>8, ConcatEmptySeq
  <2>2. QED
    BY <1>7, <1>10, <2>1 DEF t, p
<1>11. QED
  BY <1>9, <1>10

(* What is kept is in S. *)
LEMMA KeepType ==
  ASSUME NEW T, NEW s \in Seq(T), NEW S
  PROVE  Keep(s, S) \in Seq(T \cap S)
<1> DEFINE P == {r \in Seq(T) : Keep(r, S) \in Seq(T \cap S)}
<1>1. <<>> \in P
  BY KeepEmpty, EmptySeq, Zenon
<1>2. ASSUME NEW r \in Seq(T), NEW e \in T, r \in P PROVE Append(r, e) \in P
  <2>1. Append(r, e) \in Seq(T)
    BY Appended
  <2>2. CASE e \in S
    <3>1. Append(Keep(r, S), e) \in Seq(T \cap S)
      BY <1>2, <2>2, AppendProperties
    <3>2. Keep(Append(r, e), S) = Append(Keep(r, S), e)
      BY <2>2, KeepAppend
    <3>3. QED
      BY <2>1, <3>1, <3>2
  <2>3. CASE e \notin S
    BY <1>2, <2>1, <2>3, KeepAppend
  <2>4. QED
    BY <2>2, <2>3
<1>3. Seq(T) \subseteq P
  <2> HIDE DEF P
  <2>1. QED
    BY <1>1, <1>2, SeqSet
<1>4. QED
  BY <1>3

(* A sequence whose elements are in R is a sequence over R. *)
LEMMA SeqOver ==
  ASSUME NEW T, NEW s \in Seq(T), NEW R, \A i \in 1..Len(s) : s[i] \in R
  PROVE  s \in Seq(R)
<1>1. Len(s) \in Nat /\ s \in [1..Len(s) -> T]
  BY LenProperties
<1>2. s \in [1..Len(s) -> R]
  BY <1>1
<1>3. QED
  BY <1>1, <1>2, SeqDef

(* The elements of a longer sequence. *)
LEMMA RangeAppend ==
  ASSUME NEW T, NEW s \in Seq(T), NEW e \in T
  PROVE  Range(Append(s, e)) = Range(s) \cup {e}
<1> DEFINE t == Append(s, e)
<1>1. /\ t \in Seq(T) /\ Len(s) \in Nat /\ Len(t) = Len(s) + 1
      /\ \A i \in 1..Len(s) : t[i] = s[i]
      /\ t[Len(s) + 1] = e
  BY Appended
<1> HIDE DEF t
<1>2. DOMAIN s = 1..Len(s) /\ DOMAIN t = 1..(Len(s) + 1)
  BY <1>1, LenProperties
<1>3. Range(t) \subseteq Range(s) \cup {e}
  <2> SUFFICES ASSUME NEW i \in DOMAIN t PROVE t[i] \in Range(s) \cup {e}
    BY DEF Range
  <2>1. CASE i = Len(s) + 1
    BY <1>1, <2>1
  <2>2. CASE i # Len(s) + 1
    <3>1. i \in 1..Len(s)
      BY <1>1, <1>2, <2>2
    <3>2. QED
      BY <1>1, <1>2, <3>1 DEF Range
  <2>3. QED
    BY <2>1, <2>2
<1>4. Range(s) \subseteq Range(t)
  <2> SUFFICES ASSUME NEW i \in DOMAIN s PROVE s[i] \in Range(t)
    BY DEF Range
  <2>1. i \in DOMAIN t /\ t[i] = s[i]
    BY <1>1, <1>2
  <2>2. QED
    BY <2>1 DEF Range
<1>5. e \in Range(t)
  <2>1. Len(s) + 1 \in DOMAIN t
    BY <1>1, <1>2
  <2>2. QED
    BY <1>1, <2>1 DEF Range
<1>6. QED
  BY <1>3, <1>4, <1>5 DEF t

LEMMA RangeEmpty == Range(<<>>) = {}
BY DEF Range

LEMMA InjectiveAppend ==
  ASSUME NEW T, NEW s \in Seq(T), NEW e \in T
  PROVE  IsInjective(Append(s, e)) <=> IsInjective(s) /\ e \notin Range(s)
<1> DEFINE t == Append(s, e)
<1>1. /\ t \in Seq(T) /\ Len(s) \in Nat /\ Len(t) = Len(s) + 1
      /\ \A i \in 1..Len(s) : t[i] = s[i]
      /\ t[Len(s) + 1] = e
  BY Appended
<1> HIDE DEF t
<1>2. DOMAIN s = 1..Len(s) /\ DOMAIN t = 1..(Len(s) + 1)
  BY <1>1, LenProperties
<1>3. ASSUME IsInjective(t) PROVE IsInjective(s) /\ e \notin Range(s)
  <2>1. \A i \in DOMAIN s : i \in DOMAIN t /\ t[i] = s[i] /\ i # Len(s) + 1
    BY <1>1, <1>2
  <2>2. Len(s) + 1 \in DOMAIN t
    BY <1>1, <1>2
  <2>3. IsInjective(s)
    BY <1>3, <2>1 DEF IsInjective
  <2>4. \A i \in DOMAIN s : s[i] # e
    BY <1>1, <1>3, <2>1, <2>2 DEF IsInjective
  <2>5. QED
    BY <2>3, <2>4 DEF Range
<1>4. ASSUME IsInjective(s), e \notin Range(s) PROVE IsInjective(t)
  <2> SUFFICES ASSUME NEW i \in DOMAIN t, NEW j \in DOMAIN t, t[i] = t[j] PROVE i = j
    BY DEF IsInjective
  <2>1. \A k \in DOMAIN t : (k \in DOMAIN s /\ t[k] = s[k]) \/ (k = Len(s) + 1 /\ t[k] = e)
    BY <1>1, <1>2
  <2>2. \A k \in DOMAIN s : s[k] # e
    BY <1>4 DEF Range
  <2>3. QED
    BY <1>4, <2>1, <2>2 DEF IsInjective
<1>5. QED
  BY <1>3, <1>4 DEF t

LEMMA KeepInjective ==
  ASSUME NEW T, NEW s \in Seq(T), IsInjective(s), NEW S
  PROVE  IsInjective(Keep(s, S)) /\ Range(Keep(s, S)) = Range(s) \cap S
<1> DEFINE Q(r) == IsInjective(r) => IsInjective(Keep(r, S)) /\ Range(Keep(r, S)) = Range(r) \cap S
           P == {r \in Seq(T) : Q(r)}
<1>1. <<>> \in P
  <2>1. Q(<<>>)
    BY KeepEmpty, RangeEmpty, Zenon DEF IsInjective
  <2>2. QED
    BY <2>1, EmptySeq
<1>2. ASSUME NEW r \in Seq(T), NEW e \in T, r \in P PROVE Append(r, e) \in P
  <2>1. Append(r, e) \in Seq(T)
    BY Appended
  <2> SUFFICES ASSUME IsInjective(Append(r, e))
               PROVE  /\ IsInjective(Keep(Append(r, e), S))
                      /\ Range(Keep(Append(r, e), S)) = Range(Append(r, e)) \cap S
    BY <2>1
  <2> DEFINE k == Keep(r, S)
  <2>2. IsInjective(r) /\ e \notin Range(r)
    BY InjectiveAppend
  <2>3. IsInjective(k) /\ Range(k) = Range(r) \cap S
    BY <1>2, <2>2, Zenon
  <2>4. Range(Append(r, e)) = Range(r) \cup {e}
    BY RangeAppend
  <2>5. Keep(Append(r, e), S) = IF e \in S THEN Append(k, e) ELSE k
    BY KeepAppend
  <2>6. k \in Seq(T)
    <3>1. k \in Seq(T \cap S)
      BY KeepType
    <3>2. \A i \in 1..Len(k) : k[i] \in T
      BY <3>1, ElementOfSeq
    <3> HIDE DEF k
    <3>3. QED
      BY <3>1, <3>2, SeqOver
  <2> HIDE DEF k
  <2>7. CASE e \in S
    <3>1. Range(Append(k, e)) = Range(k) \cup {e}
      BY <2>6, RangeAppend
    <3>2. IsInjective(Append(k, e))
      BY <2>2, <2>3, <2>6, InjectiveAppend
    <3>3. QED
      BY <2>3, <2>4, <2>5, <2>7, <3>1, <3>2
  <2>8. CASE e \notin S
    BY <2>3, <2>4, <2>5, <2>8
  <2>9. QED
    BY <2>7, <2>8
<1>3. s \in P
  <2> HIDE DEF P
  <2>1. QED
    BY <1>1, <1>2, SeqSet
<1>4. QED
  BY <1>3
=============================================================================
