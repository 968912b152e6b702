--------------------------- MODULE SequenceLemmas ----------------------------
(***************************************************************************)
(* Facts about natural numbers, recursive functions and sequences that the *)
(* proofs of several components use.                                       *)
(*                                                                         *)
(* The library's induction theorems take a predicate as a parameter, which *)
(* the provers do not instantiate.  LeastNat and NatRecursion say the same *)
(* about sets and functions: a proof by induction takes the least number   *)
(* at which the claim fails, and a function defined by recursion satisfies *)
(* its definition because NatRecursion gives one that does.                *)
(***************************************************************************)
EXTENDS Integers, SequencesExt, TLAPS, WellFoundedInduction

\* The library's order on the natural numbers, as a set of pairs.
LEMMA LessRelation == OpToRel(<, Nat) = {ss \in Nat \X Nat : ss[1] < ss[2]}
  BY Zenon DEF OpToRel

\* A set of natural numbers that is not empty has a least element.
LEMMA LeastNat ==
  ASSUME NEW T, T \subseteq Nat, T # {}
  PROVE  \E x \in T : \A y \in T : x <= y
<1> DEFINE R == {ss \in Nat \X Nat : ss[1] < ss[2]}
<1>1. IsWellFoundedOn(R, Nat)
  BY NatLessThanWellFounded, LessRelation, Zenon
<1>2. \E x \in T : \A y \in T : ~ (<<y, x>> \in R)
  <2> HIDE DEF R
  <2> QED  BY <1>1, WFMin
<1>3. PICK x \in T : \A y \in T : ~ (<<y, x>> \in R)
  BY <1>2
<1>4. ASSUME NEW y \in T PROVE x <= y
  <2>1. x \in Nat /\ y \in Nat /\ <<y, x>> \notin R
    BY <1>3
  <2>2. ~(y < x)
    BY <2>1
  <2>3. QED  BY <2>1, <2>2
<1>5. QED  BY <1>4

\* Induction: a set of natural numbers with 0 and every successor is Nat.
LEMMA NatIsLeastInductiveSet ==
  ASSUME NEW T, 0 \in T, \A n \in Nat : n \in T => n + 1 \in T
  PROVE  \A n \in Nat : n \in T
<1> DEFINE F == {n \in Nat : n \notin T}
<1> SUFFICES ASSUME F # {} PROVE FALSE
  OBVIOUS
<1>1. F \subseteq Nat
  OBVIOUS
<1> HIDE DEF F
<1>2. PICK x \in F : \A y \in F : x <= y
  BY <1>1, LeastNat
<1>3. x \in Nat /\ x # 0
  BY DEF F
<1>4. x - 1 \in Nat /\ x - 1 \notin F
  BY <1>2, <1>3
<1>5. (x - 1) + 1 \in T
  BY <1>4 DEF F
<1>6. QED  BY <1>3, <1>5 DEF F

\* Induction up to a bound.
LEMMA IntervalInduction ==
  ASSUME NEW N \in Nat, NEW T, 0 \in T, \A n \in 1..N : n - 1 \in T => n \in T
  PROVE  \A n \in 0..N : n \in T
<1> DEFINE F == {n \in Nat : n <= N /\ n \notin T}
<1> SUFFICES ASSUME F # {} PROVE FALSE
  OBVIOUS
<1>1. F \subseteq Nat
  OBVIOUS
<1> HIDE DEF F
<1>2. PICK x \in F : \A y \in F : x <= y
  BY <1>1, LeastNat
<1>3. x \in 1..N /\ x \notin T
  BY DEF F
<1>4. x - 1 \in Nat /\ x - 1 \notin F
  BY <1>2, <1>3
<1>5. x - 1 \in T
  BY <1>3, <1>4 DEF F
<1>6. QED  BY <1>3, <1>5

\* f has the value base at 0, and each step leads from one value to the next.
Recursive(f, base, step) == f[0] = base /\ \A n \in Nat : f[n + 1] = step[n][f[n]]

\* A function on the natural numbers may be defined by its value at 0 and a
\* step from each number to the next.
THEOREM NatRecursion ==
  ASSUME NEW X, NEW base \in X, NEW step \in [Nat -> [X -> X]]
  PROVE  \E f \in [Nat -> X] : Recursive(f, base, step)
<1> DEFINE Upto(n) == {g \in [0..n -> X] :
                         g[0] = base /\ \A m \in 0..(n - 1) : g[m + 1] = step[m][g[m]]}
           T == {n \in Nat : Upto(n) # {}}
<1>1. 0 \in T
  <2>1. [m \in 0..0 |-> base] \in Upto(0)
    OBVIOUS
  <2>2. QED  BY <2>1
<1>2. ASSUME NEW n \in Nat, n \in T PROVE n + 1 \in T
  <2>0. PICK g : g \in Upto(n)
    <3> HIDE DEF Upto
    <3> QED  BY <1>2
  <2> DEFINE h == [m \in 0..(n + 1) |-> IF m = n + 1 THEN step[n][g[n]] ELSE g[m]]
  <2>1. h \in [0..(n + 1) -> X]
    BY <2>0
  <2>2. h[0] = base
    BY <2>0
  <2>3. ASSUME NEW m \in 0..n PROVE h[m + 1] = step[m][h[m]]
    <3>1. CASE m = n
      <4>1. n \in 0..(n + 1) /\ n + 1 \in 0..(n + 1) /\ n # n + 1
        OBVIOUS
      <4>2. h[n + 1] = step[n][g[n]]
        BY <4>1
      <4>3. h[n] = g[n]
        BY <4>1
      <4> HIDE DEF h
      <4>4. QED  BY <3>1, <4>2, <4>3
    <3>2. CASE m \in 0..(n - 1)
      BY <2>0, <3>2
    <3>3. QED  BY <3>1, <3>2
  <2>4. h \in Upto(n + 1)
    <3>1. (n + 1) - 1 = n
      OBVIOUS
    <3> HIDE DEF h
    <3>2. QED  BY <2>1, <2>2, <2>3, <3>1
  <2>5. QED
    <3> HIDE DEF Upto, h
    <3> QED  BY <2>4
<1>3. \A n \in Nat : Upto(n) # {}
  <2>1. \A n \in Nat : n \in T
    <3> HIDE DEF T
    <3> QED  BY <1>1, <1>2, NatIsLeastInductiveSet
  <2>2. QED  BY <2>1
<1> DEFINE Fn(n) == CHOOSE g : g \in Upto(n)
<1>4. \A n \in Nat : Fn(n) \in Upto(n)
  BY <1>3
<1> HIDE DEF Fn
<1>5. ASSUME NEW n \in Nat PROVE Fn(n + 1)[n] = Fn(n)[n]
  <2> DEFINE D == {k \in Nat : k <= n => Fn(n + 1)[k] = Fn(n)[k]}
  <2>1. Fn(n) \in Upto(n) /\ Fn(n + 1) \in Upto(n + 1)
    <3> HIDE DEF Upto
    <3> QED  BY <1>4
  <2>2. 0 \in D
    BY <2>1
  <2>3. ASSUME NEW k \in Nat, k \in D PROVE k + 1 \in D
    <3> SUFFICES ASSUME k + 1 <= n PROVE Fn(n + 1)[k + 1] = Fn(n)[k + 1]
      OBVIOUS
    <3>1. k \in 0..(n - 1) /\ k \in 0..n
      OBVIOUS
    <3>2. Fn(n)[k + 1] = step[k][Fn(n)[k]]
      BY <2>1, <3>1
    <3>3. Fn(n + 1)[k + 1] = step[k][Fn(n + 1)[k]]
      BY <2>1, <3>1
    <3>4. Fn(n + 1)[k] = Fn(n)[k]
      BY <2>3, <3>1
    <3>5. QED  BY <3>2, <3>3, <3>4
  <2>4. \A k \in Nat : k \in D
    <3> HIDE DEF D
    <3> QED  BY <2>2, <2>3, NatIsLeastInductiveSet
  <2>5. QED  BY <2>4
<1> DEFINE f == [n \in Nat |-> Fn(n)[n]]
<1>6. ASSUME NEW n \in Nat PROVE Fn(n)[n] \in X
  BY <1>4
<1>7. f \in [Nat -> X] /\ f[0] = base
  <2>1. Fn(0) \in Upto(0)
    BY <1>4
  <2>2. QED  BY <1>6, <2>1
<1>8. ASSUME NEW n \in Nat PROVE f[n + 1] = step[n][f[n]]
  <2>1. Fn(n + 1) \in Upto(n + 1)
    <3> HIDE DEF Upto
    <3> QED  BY <1>4
  <2>2. Fn(n + 1)[n] = Fn(n)[n]
    BY <1>5
  <2>3. f[n + 1] = Fn(n + 1)[n + 1] /\ f[n] = Fn(n)[n]
    OBVIOUS
  <2> HIDE DEF f
  <2>4. Fn(n + 1)[n + 1] = step[n][Fn(n + 1)[n]]
    BY <2>1
  <2>5. QED  BY <2>2, <2>3, <2>4
<1>9. QED
  <2> HIDE DEF f
  <2> QED  BY <1>7, <1>8 DEF Recursive

\* The same for a function on an interval.
LEMMA IntervalRecursion ==
  ASSUME NEW X, NEW base \in X, NEW N \in Nat, NEW step \in [1..N -> [X -> X]]
  PROVE  \E f \in [0..N -> X] : f[0] = base /\ \A n \in 1..N : f[n] = step[n][f[n - 1]]
<1> DEFINE ext == [n \in Nat |-> IF n + 1 \in 1..N THEN step[n + 1] ELSE [x \in X |-> x]]
<1>1. ext \in [Nat -> [X -> X]]
  OBVIOUS
<1>2. \A n \in 1..N : n - 1 \in Nat /\ (n - 1) + 1 = n /\ ext[n - 1] = step[n]
  OBVIOUS
<1> HIDE DEF ext
<1>3. PICK g \in [Nat -> X] : Recursive(g, base, ext)
  BY <1>1, NatRecursion
<1> DEFINE f == [n \in 0..N |-> g[n]]
<1>4. f \in [0..N -> X] /\ f[0] = g[0]
  OBVIOUS
<1>5. \A n \in 1..N : f[n] = g[n] /\ f[n - 1] = g[n - 1]
  OBVIOUS
<1>6. g[0] = base
  BY <1>3 DEF Recursive
<1>7. ASSUME NEW n \in 1..N PROVE g[n] = step[n][g[n - 1]]
  <2>1. \A m \in Nat : g[m + 1] = ext[m][g[m]]
    BY <1>3 DEF Recursive
  <2>2. g[(n - 1) + 1] = ext[n - 1][g[n - 1]]
    BY <1>2, <2>1
  <2>3. QED  BY <1>2, <2>2
<1> HIDE DEF f
<1>8. QED  BY <1>4, <1>5, <1>6, <1>7

\* Appending an element keeps the others where they are.
LEMMA AppendFacts ==
  ASSUME NEW S, NEW s \in Seq(S), NEW m \in S
  PROVE  /\ Append(s, m) \in Seq(S) /\ DOMAIN s = 1..Len(s) /\ Len(s) \in Nat
         /\ (s = <<>> <=> Len(s) = 0)
         /\ DOMAIN Append(s, m) = 1..(Len(s) + 1)
         /\ Len(Append(s, m)) = Len(s) + 1 /\ Append(s, m) # <<>>
         /\ Append(s, m)[Len(s) + 1] = m
         /\ \A i \in 1..Len(s) : Append(s, m)[i] = s[i] /\ s[i] \in S
  OBVIOUS

==============================================================================
