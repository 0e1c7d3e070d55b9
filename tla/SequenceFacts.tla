--------------------------- MODULE SequenceFacts ---------------------------
(***************************************************************************)
(* Induction over the natural numbers, in a form that needs no operator as *)
(* a parameter: the property is given as the set of numbers that have it.  *)
(* And what it proves of the sequence operators the models use.            *)
(***************************************************************************)
EXTENDS SequencesExt, Integers, WellFoundedInduction, TLAPS

(* A set of natural numbers that is not empty has a least one.             *)
LEMMA LeastNumber ==
  ASSUME NEW T, T \subseteq Nat, T # {}
  PROVE  \E x \in T : \A y \in T : x <= y
<1>1. IsWellFoundedOn({ss \in Nat \X Nat : ss[1] < ss[2]}, Nat)
  BY NatLessThanWellFounded DEF OpToRel
<1>2. PICK x \in T : \A y \in T : <<y, x>> \notin {ss \in Nat \X Nat : ss[1] < ss[2]}
  BY <1>1, WFMin
<1>3. ASSUME NEW y \in T PROVE x <= y
  <2>1. <<y, x>> \in Nat \X Nat /\ <<y, x>>[1] = y /\ <<y, x>>[2] = x
    OBVIOUS
  <2>2. ~ (y < x)
    BY <1>2, <2>1
  <2> QED BY <2>2
<1> QED BY <1>3

(* A set with 0 in it, and n + 1 whenever n is, has them all.              *)
LEMMA Induction ==
  ASSUME NEW T, 0 \in T, \A n \in Nat : n \in T => n + 1 \in T
  PROVE  \A n \in Nat : n \in T
<1> SUFFICES ASSUME Nat \ T # {} PROVE FALSE
  OBVIOUS
<1>1. PICK x \in Nat \ T : \A y \in Nat \ T : x <= y
  BY LeastNumber
<1>2. x # 0 /\ x - 1 \in Nat /\ x - 1 \in T
  BY <1>1
<1> QED BY <1>1, <1>2

(* FlattenSeq joins its sequences one after the other: f[i] is the first i *)
(* of them joined.                                                         *)
LEMMA FlattenUnfolds ==
  ASSUME NEW seqs, Len(seqs) \in Nat \ {0}
  PROVE  \E f : /\ f[1] = seqs[1]
                /\ \A i \in 2 .. Len(seqs) : f[i] = f[i - 1] \o seqs[i]
                /\ FlattenSeq(seqs) = f[Len(seqs)]
<1> DEFINE Joins(f, n) ==
             f = [i \in 1 .. n |-> IF i = 1 THEN seqs[i] ELSE f[i - 1] \o seqs[i]]
           T == {n \in Nat : \E j : Joins(j, n)}
<1>1. 0 \in T
  <2>1. Joins([i \in 1 .. 0 |-> 0], 0)
    OBVIOUS
  <2> QED BY <2>1
<1>2. ASSUME NEW n \in Nat, n \in T PROVE n + 1 \in T
  <2>1. PICK f : Joins(f, n)
    BY <1>2
  <2> DEFINE g == [i \in 1 .. n + 1 |->
                     IF i <= n THEN f[i] ELSE IF i = 1 THEN seqs[i] ELSE f[n] \o seqs[i]]
  <2>2. \A i \in 1 .. n : f[i] = IF i = 1 THEN seqs[i] ELSE f[i - 1] \o seqs[i]
    BY <2>1
  <2>3. \A i \in 1 .. n + 1 : g[i] = IF i = 1 THEN seqs[i] ELSE g[i - 1] \o seqs[i]
    BY <2>2
  <2>4. Joins(g, n + 1)
    BY <2>3
  <2> HIDE DEF g
  <2>5. \E j : Joins(j, n + 1)
    BY <2>4
  <2> HIDE DEF Joins
  <2> QED BY <2>5
<1>3. PICK h : Joins(h, Len(seqs))
  <2> HIDE DEF T
  <2>1. Len(seqs) \in T
    BY <1>1, <1>2, Induction
  <2> QED BY <2>1 DEF T
<1> DEFINE f == CHOOSE g : Joins(g, Len(seqs))
<1>4. Joins(f, Len(seqs))
  BY <1>3
<1>5. FlattenSeq(seqs) = f[Len(seqs)]
  BY DEF FlattenSeq
<1>6. f[1] = seqs[1] /\ \A i \in 2 .. Len(seqs) : f[i] = f[i - 1] \o seqs[i]
  <2> HIDE DEF f
  <2>1. \A i \in 1 .. Len(seqs) : f[i] = IF i = 1 THEN seqs[i] ELSE f[i - 1] \o seqs[i]
    BY <1>4
  <2>2. f[1] = seqs[1]
    BY <2>1, 1 \in 1 .. Len(seqs), Zenon
  <2>3. ASSUME NEW i \in 2 .. Len(seqs) PROVE f[i] = f[i - 1] \o seqs[i]
    <3>1. i \in 1 .. Len(seqs) /\ i # 1
      OBVIOUS
    <3> QED BY <2>1, <3>1, Zenon
  <2> QED BY <2>2, <2>3
<1> QED BY <1>5, <1>6

(* Sequences joined by a function of how many are joined: there is one,    *)
(* and it is the only one.                                                 *)
LEMMA JoinsExist ==
  ASSUME NEW n \in Nat, NEW parts
  PROVE  \E f : f = [i \in 0 .. n |-> IF i = 0 THEN <<>> ELSE f[i - 1] \o parts[i]]
<1> DEFINE Joins(f, k) ==
             f = [i \in 0 .. k |-> IF i = 0 THEN <<>> ELSE f[i - 1] \o parts[i]]
           T == {k \in Nat : \E j : Joins(j, k)}
<1>1. 0 \in T
  <2> DEFINE g == [i \in 0 .. 0 |-> <<>>]
  <2>1. Joins(g, 0)
    OBVIOUS
  <2> HIDE DEF g, Joins
  <2> QED BY <2>1
<1>2. ASSUME NEW k \in Nat, k \in T PROVE k + 1 \in T
  <2>1. PICK f : Joins(f, k)
    BY <1>2
  <2> DEFINE g == [i \in 0 .. k + 1 |-> IF i <= k THEN f[i] ELSE f[k] \o parts[k + 1]]
  <2>2. \A i \in 0 .. k : f[i] = IF i = 0 THEN <<>> ELSE f[i - 1] \o parts[i]
    BY <2>1
  <2>3. ASSUME NEW i \in 0 .. k + 1
        PROVE  g[i] = IF i = 0 THEN <<>> ELSE g[i - 1] \o parts[i]
    <3>1. CASE i <= k
      BY <2>2, <3>1
    <3>2. CASE i = k + 1
      <4>1. i - 1 = k /\ i # 0
        BY <3>2
      <4>2. g[i] = f[k] \o parts[k + 1] /\ g[k] = f[k]
        BY <3>2
      <4> HIDE DEF g
      <4> QED BY <3>2, <4>1, <4>2, Zenon
    <3> QED BY <3>1, <3>2
  <2>4. Joins(g, k + 1)
    BY <2>3
  <2> HIDE DEF g
  <2>5. \E j : Joins(j, k + 1)
    BY <2>4
  <2> HIDE DEF Joins
  <2> QED BY <2>5
<1>3. n \in T
  <2> HIDE DEF T
  <2> QED BY <1>1, <1>2, Induction
<1> QED BY <1>3

JoinsUpTo(f, n, parts, S) ==
  /\ f[0] = <<>>
  /\ \A i \in 1 .. n : parts[i] \in Seq(S) /\ f[i] = f[i - 1] \o parts[i]

LEMMA JoinsAgree ==
  ASSUME NEW n \in Nat, NEW S, NEW parts, NEW f, NEW g,
         JoinsUpTo(f, n, parts, S), JoinsUpTo(g, n, parts, S)
  PROVE  f[n] = g[n] /\ f[n] \in Seq(S)
<1> DEFINE T == {k \in Nat : k <= n => f[k] = g[k] /\ f[k] \in Seq(S)}
<1>1. 0 \in T
  <2>1. <<>> \in Seq(S) /\ f[0] = g[0] /\ f[0] \in Seq(S)
    BY DEF JoinsUpTo
  <2> QED BY <2>1
<1>2. ASSUME NEW k \in Nat, k \in T PROVE k + 1 \in T
  <2> SUFFICES ASSUME k + 1 <= n PROVE f[k + 1] = g[k + 1] /\ f[k + 1] \in Seq(S)
    OBVIOUS
  <2>1. f[k] = g[k] /\ f[k] \in Seq(S)
    BY <1>2
  <2>2. k + 1 \in 1 .. n /\ (k + 1) - 1 = k
    OBVIOUS
  <2>3. parts[k + 1] \in Seq(S) /\ f[k + 1] = f[k] \o parts[k + 1]
        /\ g[k + 1] = g[k] \o parts[k + 1]
    BY <2>2 DEF JoinsUpTo
  <2> QED BY <2>1, <2>3
<1>3. n \in T
  <2> HIDE DEF T
  <2> QED BY <1>1, <1>2, Induction
<1> QED BY <1>3

(* What has been joined is a prefix of what is joined to it.               *)
LEMMA PrefixOfJoin ==
  ASSUME NEW S, NEW s \in Seq(S), NEW t \in Seq(S)
  PROVE  IsPrefix(s, s \o t) /\ IsPrefix(s, s)
BY DEF IsPrefix
=============================================================================
