--------------------------- MODULE TransferProofs ----------------------------
(***************************************************************************)
(* Proofs about the synchronisation of two datasets, for any set of syncs, *)
(* any number of blocks and of faults.                                     *)
(***************************************************************************)
EXTENDS Transfer, SequenceLemmas, SequenceTheorems

-----------------------------------------------------------------------------
(* Prefixes of chains *)

\* A prefix has the elements of the chain, up to its length.
LEMMA PrefixFacts ==
  ASSUME NEW S, NEW c \in Seq(S), NEW n \in 0..Len(c)
  PROVE  /\ Prefix(c, n) \in Seq(S)
         /\ Len(Prefix(c, n)) = n
         /\ \A i \in 1..n : Prefix(c, n)[i] = c[i]
<1>1. \A i \in 1..n : c[i] \in S
  OBVIOUS
<1>2. n \in Int /\ 1 \in Int
  OBVIOUS
<1>3. /\ SubSeq(c, 1, n) \in Seq(S)
      /\ Len(SubSeq(c, 1, n)) = IF 1 <= n THEN n - 1 + 1 ELSE 0
      /\ \A i \in 1..(n - 1 + 1) : SubSeq(c, 1, n)[i] = c[1 + i - 1]
  BY <1>1, <1>2, SubSeqProperties
<1>4. QED  BY <1>3 DEF Prefix

\* A chain is its longest prefix, and prefixes nest.
LEMMA PrefixesNest ==
  ASSUME NEW S, NEW c \in Seq(S), NEW n \in 0..Len(c), NEW m \in 0..n
  PROVE  /\ Prefix(c, Len(c)) = c
         /\ Prefix(Prefix(c, n), m) = Prefix(c, m)
<1>1. /\ Len(c) \in 0..Len(c) /\ m \in 0..Len(c) /\ Len(Prefix(c, n)) = n
      /\ Prefix(c, n) \in Seq(S) /\ \A i \in 1..n : Prefix(c, n)[i] = c[i]
  BY PrefixFacts
<1>2. /\ Prefix(c, Len(c)) \in Seq(S) /\ Len(Prefix(c, Len(c))) = Len(c)
      /\ \A i \in 1..Len(c) : Prefix(c, Len(c))[i] = c[i]
  BY <1>1, PrefixFacts
<1>3. /\ Prefix(Prefix(c, n), m) \in Seq(S) /\ Len(Prefix(Prefix(c, n), m)) = m
      /\ \A i \in 1..m : Prefix(Prefix(c, n), m)[i] = Prefix(c, n)[i]
  BY <1>1, PrefixFacts
<1>4. /\ Prefix(c, m) \in Seq(S) /\ Len(Prefix(c, m)) = m
      /\ \A i \in 1..m : Prefix(c, m)[i] = c[i]
  BY <1>1, PrefixFacts
<1>5. Prefix(c, Len(c)) = c
  BY <1>2, SeqEqual
<1>6. \A i \in 1..m : Prefix(Prefix(c, n), m)[i] = Prefix(c, m)[i]
  BY <1>1, <1>3, <1>4
<1>7. Prefix(Prefix(c, n), m) = Prefix(c, m)
  BY <1>3, <1>4, <1>6, SeqEqual
<1>8. QED  BY <1>5, <1>7

\* What it means for one chain to continue another.
LEMMA IsPrefixFacts ==
  ASSUME NEW S, NEW p \in Seq(S), NEW c \in Seq(S)
  PROVE  /\ IsPrefix(p, c) <=> Len(p) <= Len(c) /\ Prefix(c, Len(p)) = p
         /\ IsPrefix(p, c) => \A n \in 0..Len(p) : Prefix(p, n) = Prefix(c, n)
         /\ IsPrefix(p, c) => \A n \in 1..Len(p) : p[n] = c[n]
<1>1. Len(p) \in 0..Len(p) /\ Prefix(p, Len(p)) = p
  BY PrefixesNest
<1>2. IsPrefix(p, c) <=> Len(p) <= Len(c) /\ Prefix(c, Len(p)) = p
  BY <1>1 DEF IsPrefix, Prefix
<1>3. ASSUME IsPrefix(p, c), NEW n \in 0..Len(p)
      PROVE  Prefix(p, n) = Prefix(c, n)
  <2>1. Len(p) \in 0..Len(c)
    BY <1>2, <1>3
  <2>2. Prefix(Prefix(c, Len(p)), n) = Prefix(c, n)
    BY <2>1, PrefixesNest
  <2>3. QED  BY <1>2, <1>3, <2>2
<1>4. ASSUME IsPrefix(p, c), NEW n \in 1..Len(p)
      PROVE  p[n] = c[n]
  <2>1. Len(p) \in 0..Len(c)
    BY <1>2, <1>4
  <2>2. Prefix(c, Len(p))[n] = c[n]
    BY <2>1, PrefixFacts
  <2>3. QED  BY <1>2, <1>4, <2>2
<1>5. QED  BY <1>2, <1>3, <1>4

\* Dropping the newest block.
LEMMA FrontFacts ==
  ASSUME NEW S, NEW c \in Seq(S), c # <<>>
  PROVE  Front(c) = Prefix(c, Len(c) - 1) /\ Len(c) - 1 \in 0..Len(c)
  BY DEF Front, Prefix

\* Appending a block continues the chain.
LEMMA AppendContinues ==
  ASSUME NEW S, NEW c \in Seq(S), NEW x \in S
  PROVE  /\ \A n \in 0..Len(c) : Prefix(Append(c, x), n) = Prefix(c, n)
         /\ Prefix(Append(c, x), Len(c) + 1) = Append(c, x)
<1> DEFINE d == Append(c, x)
<1>1. /\ d \in Seq(S) /\ Len(d) = Len(c) + 1 /\ Len(c) \in Nat
      /\ \A i \in 1..Len(c) : d[i] = c[i]
  BY AppendFacts
<1> HIDE DEF d
<1>2. ASSUME NEW n \in 0..Len(c)
      PROVE  Prefix(d, n) = Prefix(c, n)
  <2>1. /\ Prefix(d, n) \in Seq(S) /\ Len(Prefix(d, n)) = n
        /\ \A i \in 1..n : Prefix(d, n)[i] = d[i]
    <3>1. n \in 0..Len(d)
      BY <1>1
    <3>2. QED  BY <1>1, <3>1, PrefixFacts
  <2>2. /\ Prefix(c, n) \in Seq(S) /\ Len(Prefix(c, n)) = n
        /\ \A i \in 1..n : Prefix(c, n)[i] = c[i]
    BY PrefixFacts
  <2>3. \A i \in 1..n : Prefix(d, n)[i] = Prefix(c, n)[i]
    BY <1>1, <2>1, <2>2, SMTT(30)
  <2>4. QED  BY <2>1, <2>2, <2>3, SeqEqual
<1>3. Prefix(d, Len(d)) = d
  <2>1. Len(d) \in 0..Len(d)
    BY <1>1
  <2>2. QED  BY <1>1, <2>1, PrefixesNest
<1>4. QED  BY <1>1, <1>2, <1>3 DEF d

-----------------------------------------------------------------------------
(* The comparison of two chains *)

\* The hashes of the two blocks with number n - 1.
Same(c, d, n) == Prefix(c, n) = Prefix(d, n)

\* Chains that agree somewhere agree from there down.
LEMMA SameIsDownward ==
  ASSUME NEW S, NEW c \in Seq(S), NEW d \in Seq(S),
         NEW n \in 0..Len(c), n <= Len(d), Same(c, d, n), NEW m \in 0..n
  PROVE  Same(c, d, m)
<1>1. n \in 0..Len(d)
  OBVIOUS
<1>2. Prefix(Prefix(c, n), m) = Prefix(c, m) /\ Prefix(Prefix(d, n), m) = Prefix(d, m)
  BY <1>1, PrefixesNest
<1>3. QED  BY <1>2 DEF Same

\* n is the length of the longest common prefix.
IsCommon(c, d, n) ==
  /\ n \in 0..Len(c) /\ n <= Len(d) /\ Same(c, d, n)
  /\ \A m \in (n + 1)..Len(c) : m > Len(d) \/ ~Same(c, d, m)

\* There is no other longest common prefix, so Common is the one found.
LEMMA CommonIsUnique ==
  ASSUME NEW S, NEW c \in Seq(S), NEW d \in Seq(S), NEW n, IsCommon(c, d, n)
  PROVE  Common(c, d) = n
<1>1. \A m : IsCommon(c, d, m) => m = n
  BY DEF IsCommon
<1>2. Common(c, d) = CHOOSE m \in 0..Len(c) : IsCommon(c, d, m)
  BY DEF Common, IsCommon, Same
<1>3. n \in 0..Len(c)
  BY DEF IsCommon
<1>4. QED  BY <1>1, <1>2, <1>3

\* The walk of find_common_ancestor, as a recursion.
Walk(f, c, d) ==
  /\ f[0] = 0
  /\ \A n \in Nat : f[n + 1] = IF Same(c, d, n + 1) THEN n + 1 ELSE f[n]

\* The recursion is well-founded.
LEMMA WalkRecursion ==
  ASSUME NEW c, NEW d
  PROVE  \E f : /\ Walk(f, c, d)
                /\ find_common_ancestor(c, d) = f[IF Len(c) < Len(d) THEN Len(c) ELSE Len(d)]
<1> DEFINE Def(f) == [n \in Nat |-> IF n = 0 THEN 0
                                    ELSE IF Prefix(c, n) = Prefix(d, n) THEN n ELSE f[n - 1]]
           step == [n \in Nat |-> [x \in Nat |-> IF Same(c, d, n + 1) THEN n + 1 ELSE x]]
<1>1. step \in [Nat -> [Nat -> Nat]]
  OBVIOUS
<1>2. \E f \in [Nat -> Nat] : Recursive(f, 0, step)
  <2> HIDE DEF step
  <2> QED  BY <1>1, NatRecursion
<1>3. PICK g \in [Nat -> Nat] : Recursive(g, 0, step)
  BY <1>2
<1>4. g[0] = 0 /\ \A n \in Nat : g[n + 1] = IF Same(c, d, n + 1) THEN n + 1 ELSE g[n]
  <2>1. \A n \in Nat : step[n][g[n]] = IF Same(c, d, n + 1) THEN n + 1 ELSE g[n]
    OBVIOUS
  <2> HIDE DEF step
  <2>2. QED  BY <1>3, <2>1 DEF Recursive
<1>5. g = Def(g)
  <2>1. ASSUME NEW n \in Nat
        PROVE  g[n] = Def(g)[n]
    <3>1. CASE n = 0
      BY <1>4, <3>1
    <3>2. CASE n # 0
      <4>1. n - 1 \in Nat /\ (n - 1) + 1 = n
        BY <3>2
      <4>2. g[n] = IF Same(c, d, n) THEN n ELSE g[n - 1]
        BY <1>4, <4>1
      <4>3. QED  BY <3>2, <4>2 DEF Same
    <3>3. QED  BY <3>1, <3>2
  <2>2. QED  BY <1>3, <2>1
<1>6. PICK f : f = Def(f) /\ f = CHOOSE h : h = Def(h)
  <2> HIDE DEF Def
  <2> QED  BY <1>5
<1>7. Walk(f, c, d)
  <2>1. f[0] = 0
    BY <1>6
  <2>2. ASSUME NEW n \in Nat
        PROVE  f[n + 1] = IF Same(c, d, n + 1) THEN n + 1 ELSE f[n]
    <3>1. n + 1 \in Nat /\ n + 1 # 0 /\ (n + 1) - 1 = n
      OBVIOUS
    <3>2. f[n + 1] = Def(f)[n + 1]
      BY <1>6
    <3>3. QED  BY <3>1, <3>2 DEF Same
  <2>3. QED  BY <2>1, <2>2 DEF Walk
<1>8. find_common_ancestor(c, d) = f[IF Len(c) < Len(d) THEN Len(c) ELSE Len(d)]
  BY <1>6, Zenon DEF find_common_ancestor
<1>9. QED  BY <1>7, <1>8

\* find_common_ancestor finds the end of the longest common prefix.
LEMMA CommonAncestorIsCommon ==
  ASSUME NEW S, NEW c \in Seq(S), NEW d \in Seq(S)
  PROVE  IsCommon(c, d, find_common_ancestor(c, d))
<1>1. PICK f : /\ Walk(f, c, d)
               /\ find_common_ancestor(c, d) = f[IF Len(c) < Len(d) THEN Len(c) ELSE Len(d)]
  BY WalkRecursion
<1> DEFINE Found(n) == /\ f[n] \in 0..n
                       /\ f[n] = 0 \/ Same(c, d, f[n])
                       /\ \A m \in (f[n] + 1)..n : ~Same(c, d, m)
           T == {n \in Nat : Found(n)}
<1>2. 0 \in T
  <2>1. f[0] = 0
    BY <1>1 DEF Walk
  <2>2. QED  BY <2>1
<1>3. ASSUME NEW n \in Nat, n \in T
      PROVE  n + 1 \in T
  <2>1. f[n + 1] = IF Same(c, d, n + 1) THEN n + 1 ELSE f[n]
    BY <1>1 DEF Walk
  <2>2. f[n] \in 0..n /\ (f[n] = 0 \/ Same(c, d, f[n]))
        /\ \A m \in (f[n] + 1)..n : ~Same(c, d, m)
    BY <1>3
  <2>3. CASE Same(c, d, n + 1)
    BY <2>1, <2>3
  <2>4. CASE ~Same(c, d, n + 1)
    BY <2>1, <2>2, <2>4
  <2>5. QED  BY <2>3, <2>4
<1>4. \A n \in Nat : n \in T
  <2> HIDE DEF T
  <2> QED  BY <1>2, <1>3, NatIsLeastInductiveSet
<1>5. PICK k \in Nat : k = IF Len(c) < Len(d) THEN Len(c) ELSE Len(d)
  OBVIOUS
<1>6. Found(k) /\ find_common_ancestor(c, d) = f[k]
  BY <1>1, <1>4, <1>5
<1>7. Same(c, d, 0)
  <2>1. Prefix(c, 0) = <<>> /\ Prefix(d, 0) = <<>>
    BY SubSeqEmpty DEF Prefix
  <2>2. QED  BY <2>1 DEF Same
<1>8. QED  BY <1>5, <1>6, <1>7 DEF IsCommon

\* The blocks of a chain after its first n.
After(c, n) == [i \in 1..(Len(c) - n) |-> Prefix(c, n + i)]

\* What a chain has ahead of one that it continues.
LEMMA AheadBlocks ==
  ASSUME NEW S, NEW ahead \in Seq(S), NEW reference \in Seq(S),
         Len(reference) <= Len(ahead), Prefix(ahead, Len(reference)) = reference
  PROVE  /\ iter_blocks_interval(ahead, Prefix(ahead, Len(reference))) =
              After(ahead, Len(reference))
         /\ IsCommon(ahead, reference, Len(reference))
         /\ IsCommon(reference, ahead, Len(reference))
<1>1. IsPrefix(reference, ahead) /\ Prefix(reference, Len(reference)) = reference
  BY IsPrefixFacts, PrefixesNest
<1>2. iter_blocks_interval(ahead, reference) = After(ahead, Len(reference))
  BY <1>1 DEF iter_blocks_interval, After
<1>3. QED  BY <1>1, <1>2 DEF IsCommon, Same

\* The comparison by sequence numbers and single hashes tells what the longest
\* common prefix tells, for any two chains of which the first is not empty.
LEMMA CompareChains ==
  ASSUME NEW S, NEW c \in Seq(S), NEW d \in Seq(S), c # NoHead
  PROVE  compare_chains(c, d) = Comparison(c, d)
<1> DEFINE n == find_common_ancestor(c, d)
<1>0. Comparison(c, d) = IF c = d THEN [kind |-> "Equal"]
        ELSE IF Common(c, d) = Len(d)
             THEN [kind |-> "LhsAhead", blocks |-> After(c, Common(c, d))]
        ELSE IF Common(c, d) = Len(c)
             THEN [kind |-> "LhsBehind", blocks |-> After(d, Common(c, d))]
        ELSE [kind |-> "Divergence", lhs |-> Len(c) - Common(c, d), rhs |-> Len(d) - Common(c, d)]
  BY DEF Comparison, After
<1>1. IsCommon(c, d, n)
  BY CommonAncestorIsCommon
<1>2. Common(c, d) = n
  BY <1>1, CommonIsUnique
<1>3. Len(c) \in Nat \ {0} /\ Len(d) \in Nat /\ n \in Nat
  BY <1>1 DEF IsCommon, NoHead
<1>4. CASE c = d
  BY <1>0, <1>4 DEF compare_chains
<1>5. CASE c # d /\ Len(d) < Len(c) /\ Prefix(c, Len(d)) = d
  <2>1. n = Len(d) /\ iter_blocks_interval(c, Prefix(c, Len(d))) = After(c, Len(d))
    <3>1. IsCommon(c, d, Len(d)) /\ iter_blocks_interval(c, Prefix(c, Len(d))) = After(c, Len(d))
      BY <1>3, <1>5, AheadBlocks
    <3>2. QED  BY <1>2, <3>1, CommonIsUnique
  <2>2. CASE d = NoHead
    <3>1. Len(NoHead) = Len(d)
      BY <2>2
    <3>2. compare_chains(c, d) = Ahead("LhsAhead", c, d)
      BY <1>5, <2>2 DEF compare_chains
    <3>3. QED  BY <1>0, <1>2, <1>5, <2>1, <3>2 DEF Ahead
  <2>3. CASE d # NoHead
    <3>1. compare_chains(c, d) = Ahead("LhsAhead", c, d)
      BY <1>3, <1>5, <2>3 DEF compare_chains, check_expected_common_ancestor
    <3>2. QED  BY <1>0, <1>2, <1>5, <2>1, <3>1 DEF Ahead
  <2>4. QED  BY <2>2, <2>3
<1>6. CASE c # d /\ Len(c) < Len(d) /\ Prefix(d, Len(c)) = c
  <2>1. n = Len(c) /\ iter_blocks_interval(d, Prefix(d, Len(c))) = After(d, Len(c))
    <3>1. IsCommon(c, d, Len(c)) /\ iter_blocks_interval(d, Prefix(d, Len(c))) = After(d, Len(c))
      BY <1>3, <1>6, AheadBlocks
    <3>2. QED  BY <1>2, <3>1, CommonIsUnique
  <2>2. d # NoHead /\ Len(d) # Len(c)
    BY <1>3, <1>6 DEF NoHead
  <2>3. compare_chains(c, d) = Ahead("LhsBehind", d, c)
    BY <1>3, <1>6, <2>2 DEF compare_chains, check_expected_common_ancestor
  <2>4. QED  BY <1>0, <1>2, <1>3, <1>6, <2>1, <2>3 DEF Ahead
<1>7. CASE /\ c # d
           /\ Len(d) < Len(c) => Prefix(c, Len(d)) # d
           /\ Len(c) < Len(d) => Prefix(d, Len(c)) # c
  <2>1. Prefix(c, Len(c)) = c /\ Prefix(d, Len(d)) = d
    BY PrefixesNest
  <2>2. d # NoHead
    <3>1. Prefix(c, 0) = <<>>
      BY SubSeqEmpty DEF Prefix
    <3>2. d = NoHead => Len(d) = 0
      BY DEF NoHead
    <3>3. QED  BY <1>3, <1>7, <3>1, <3>2 DEF NoHead
  <2>3. n # Len(d) /\ n # Len(c)
    BY <1>1, <1>3, <1>7, <2>1 DEF IsCommon, Same
  <2>4. compare_chains(c, d) = describe_divergence(c, d, n)
    BY <1>3, <1>7, <2>2 DEF compare_chains, check_expected_common_ancestor
  <2>5. QED  BY <1>0, <1>2, <1>7, <2>3, <2>4 DEF describe_divergence
<1>8. QED
  <2>1. Len(c) = Len(d) \/ Len(c) < Len(d) \/ Len(d) < Len(c)
    BY <1>3
  <2>2. QED  BY <1>4, <1>5, <1>6, <1>7, <2>1

-----------------------------------------------------------------------------
(* The blocks of an interval *)

\* A chain of the source: its first block is the source's Seed.
SourceChain(c) == c \in Chains /\ c # <<>> /\ c[1] = SrcSeed

\* The blocks between two heads are a run of the newer chain, and they are all
\* of its blocks but those of the older one, if the older one is a prefix.
LEMMA IntervalFacts ==
  ASSUME NEW head, SourceChain(head), NEW tail \in Chains
  PROVE  LET blocks == iter_blocks_interval(head, tail)
         IN  /\ blocks \in Seq(Chains)
             /\ RunOfBlocks(blocks)
             /\ \A n \in 1..Len(head) :
                  \/ IsPrefix(tail, head) /\ n <= Len(tail)
                  \/ \E i \in 1..Len(blocks) : blocks[i] = Prefix(head, n)
             /\ \A i \in 1..Len(blocks) : \E n \in 1..Len(head) : blocks[i] = Prefix(head, n)
             /\ blocks # <<>> => Len(blocks[1]) = 1 \/ (IsPrefix(tail, head) /\ tail # <<>>
                                                         /\ Front(blocks[1]) = tail)
             /\ tail = NoHead => blocks # <<>>
<1> DEFINE blocks == iter_blocks_interval(head, tail)
<1>0. head \in Seq(1..MaxId) /\ tail \in Seq(1..MaxId) /\ head # <<>> /\ head[1] = SrcSeed
      /\ Len(head) \in Nat /\ Len(tail) \in Nat /\ Len(head) > 0
  BY DEF SourceChain, Chains
<1>1. PICK from \in 0..Len(head) :
        /\ from = IF IsPrefix(tail, head) THEN Len(tail) ELSE 0
        /\ blocks = [n \in 1..(Len(head) - from) |-> Prefix(head, from + n)]
  <2>1. IsPrefix(tail, head) => Len(tail) <= Len(head)
    BY DEF IsPrefix
  <2>2. QED  BY <1>0, <2>1 DEF iter_blocks_interval
<1> HIDE DEF blocks
<1>2. \A n \in 0..Len(head) : /\ Prefix(head, n) \in Seq(1..MaxId) /\ Len(Prefix(head, n)) = n
                              /\ \A i \in 1..n : Prefix(head, n)[i] = head[i]
  BY <1>0, PrefixFacts
<1>3. /\ blocks \in Seq(Chains) /\ Len(blocks) = Len(head) - from
      /\ \A i \in 1..Len(blocks) : from + i \in 1..Len(head) /\ blocks[i] = Prefix(head, from + i)
  <2>1. \A i \in 1..(Len(head) - from) : Prefix(head, from + i) \in Chains
    BY <1>0, <1>2 DEF Chains
  <2>2. blocks \in Seq(Chains) /\ Len(blocks) = Len(head) - from
    <3>1. PICK k \in Nat : k = Len(head) - from
      <4>1. Len(head) - from \in Nat
        BY <1>0
      <4>2. QED  BY <4>1
    <3>2. blocks \in [1..k -> Chains]
      BY <1>1, <2>1, <3>1
    <3> HIDE DEF Chains
    <3>3. QED  BY <3>1, <3>2
  <2>3. QED  BY <1>0, <1>1, <2>2
<1>4. RunOfBlocks(blocks)
  <2>1. ASSUME NEW i \in 1..Len(blocks)
        PROVE  blocks[i] # <<>> /\ blocks[i][1] = SrcSeed
    <3>1. /\ Len(Prefix(head, from + i)) = from + i /\ from + i \in 1..Len(head)
          /\ Prefix(head, from + i)[1] = head[1]
      BY <1>0, <1>2, <1>3
    <3>2. Prefix(head, from + i) # <<>>
      BY <3>1
    <3>3. QED  BY <1>0, <1>3, <3>1, <3>2
  <2>2. ASSUME NEW i \in 1..(Len(blocks) - 1)
        PROVE  Front(blocks[i + 1]) = blocks[i]
    <3>1. /\ i \in 1..Len(blocks) /\ i + 1 \in 1..Len(blocks)
          /\ from + (i + 1) \in 0..Len(head) /\ from + i \in 0..(from + (i + 1))
      BY <1>0, <1>3
    <3>2. blocks[i + 1] = Prefix(head, from + (i + 1)) /\ blocks[i] = Prefix(head, from + i)
      BY <1>3, <3>1
    <3>3. Len(blocks[i + 1]) = from + (i + 1)
      BY <1>2, <3>1, <3>2
    <3>4. Prefix(blocks[i + 1], from + i) = blocks[i]
      BY <1>0, <3>1, <3>2, PrefixesNest
    <3>5. QED  BY <3>1, <3>3, <3>4 DEF Front, Prefix
  <2>3. QED  BY <2>1, <2>2 DEF RunOfBlocks
<1>5. ASSUME NEW n \in 1..Len(head), ~(IsPrefix(tail, head) /\ n <= Len(tail))
      PROVE  \E i \in 1..Len(blocks) : blocks[i] = Prefix(head, n)
  <2>1. n - from \in 1..Len(blocks) /\ from + (n - from) = n
    BY <1>0, <1>1, <1>3, <1>5
  <2>2. blocks[n - from] = Prefix(head, n)
    BY <1>3, <2>1
  <2>3. QED  BY <2>1, <2>2
<1>6. ASSUME blocks # <<>>
      PROVE  Len(blocks[1]) = 1 \/ (IsPrefix(tail, head) /\ tail # <<>> /\ Front(blocks[1]) = tail)
  <2>1. 1 \in 1..Len(blocks)
    BY <1>3, <1>6
  <2>2. blocks[1] = Prefix(head, from + 1) /\ from + 1 \in 1..Len(head)
    BY <1>3, <2>1
  <2>3. Len(blocks[1]) = from + 1
    BY <1>2, <2>2
  <2>4. CASE from = 0
    BY <2>3, <2>4
  <2>5. CASE from # 0
    <3>1. IsPrefix(tail, head) /\ from = Len(tail) /\ tail # <<>>
      BY <1>0, <1>1, <2>5
    <3>2. Prefix(blocks[1], from) = Prefix(head, from)
      BY <1>0, <2>2, PrefixesNest
    <3>3. Prefix(head, from) = tail
      BY <1>0, <3>1, IsPrefixFacts
    <3>4. QED  BY <2>3, <3>1, <3>2, <3>3 DEF Front, Prefix
  <2>6. QED  BY <2>4, <2>5
<1>7. ASSUME tail = NoHead
      PROVE  blocks # <<>>
  <2>1. Len(tail) = 0
    BY <1>7 DEF NoHead
  <2>2. Len(blocks) = Len(head)
    BY <1>0, <1>1, <1>3, <2>1
  <2>3. QED  BY <1>0, <2>2
<1>8. QED  BY <1>3, <1>4, <1>5, <1>6, <1>7 DEF blocks

-----------------------------------------------------------------------------
(* The invariant, piece by piece *)

\* The destination only grows: blocks and objects are never removed.
Grows == stored \subseteq stored' /\ objects \cup lost \subseteq objects' \cup lost'

\* What is complete stays complete.
LEMMA CompleteStays ==
  ASSUME Grows
  PROVE  \A c : Complete(c) => Complete(c)'
  BY DEF Grows, Complete

\* Nothing is behind no head.
LEMMA NoHeadIsComplete == Complete(NoHead) /\ Complete(NoHead)'
<1>1. Len(NoHead) = 0 /\ DOMAIN NoHead = {}
  BY DEF NoHead
<1>2. QED  BY <1>1 DEF Complete, Blocks, Objects, Range

\* A sync that does not move is not disturbed by one that does, nor by a writer
\* that appends.
LEMMA OthersKeepInv ==
  ASSUME NEW r \in Sessions, SessionInv(r), session'[r] = session[r], Grows,
         session[r].phase = "load" /\ r.protocol = "simple" =>
           (IsPrefix(session[r].new_head, src) => IsPrefix(session[r].new_head, src'))
  PROVE  SessionInv(r)'
<1>1. Complete(session[r].old_head)'
  BY CompleteStays DEF SessionInv
<1>2. ASSUME BatchInv(r)
      PROVE  BatchInv(r)'
  BY <1>2 DEF BatchInv, Grows
<1>3. QED  BY <1>1, <1>2 DEF SessionInv

\* An idle sync keeps nothing.
LEMMA IdleIsFine ==
  ASSUME NEW s \in Sessions, session'[s] = Idle
  PROVE  SessionInv(s)'
<1>1. Complete(session[s].old_head)'
  BY NoHeadIsComplete DEF Idle, Complete
<1>2. QED  BY <1>1 DEF SessionInv, Idle

\* One sync moves.
LEMMA OneSyncMoves ==
  ASSUME SyncInv, NEW s \in Sessions, NEW state \in SessionStates, To(s, state),
         src' = src, Grows, SessionInv(s)'
  PROVE  /\ session' \in [Sessions -> SessionStates]
         /\ \A r \in Sessions : SessionInv(r)'
<1>1. /\ session' \in [Sessions -> SessionStates]
      /\ \A r \in Sessions : r # s => session'[r] = session[r]
  <2>1. session \in [Sessions -> SessionStates]
    BY DEF SyncInv, TypeOK
  <2>2. QED  BY <2>1 DEF To
<1>2. ASSUME NEW r \in Sessions, r # s
      PROVE  SessionInv(r)'
  BY <1>1, <1>2, OthersKeepInv DEF SyncInv
<1>3. QED  BY <1>1, <1>2

\* The blocks that a sync has loaded are what is missing between the head that
\* it read and the one it will set.
LEMMA LoadedBatch ==
  ASSUME SyncInv, NEW s \in Sessions, NEW old \in Chains, NEW new \in Chains,
         NEW chain, SourceChain(chain), IsPrefix(new, chain), NEW tail \in Chains,
         tail = old \/ tail = NoHead, Complete(old), ~s.force => IsPrefix(old, new),
         Loaded(s, old, new, iter_blocks_interval(chain, tail)),
         UNCHANGED <<src, dst, stored, objects, nextId, faults, lost>>
  PROVE  SyncInv'
<1>1. PICK blocks \in Seq(Chains) :
        /\ blocks = iter_blocks_interval(chain, tail)
        /\ RunOfBlocks(blocks)
        /\ \A n \in 1..Len(chain) : \/ IsPrefix(tail, chain) /\ n <= Len(tail)
                                    \/ \E i \in 1..Len(blocks) : blocks[i] = Prefix(chain, n)
        /\ \A i \in 1..Len(blocks) : \E n \in 1..Len(chain) : blocks[i] = Prefix(chain, n)
        /\ blocks # <<>> => Len(blocks[1]) = 1 \/ (IsPrefix(tail, chain) /\ tail # <<>>
                                                    /\ Front(blocks[1]) = tail)
        /\ tail = NoHead => blocks # <<>>
  BY IntervalFacts
<1>2. /\ chain \in Seq(1..MaxId) /\ new \in Seq(1..MaxId) /\ old \in Seq(1..MaxId)
      /\ Len(chain) \in Nat /\ Len(new) \in Nat /\ Len(old) \in Nat
  BY DEF SourceChain, Chains
<1>3. /\ Len(new) <= Len(chain)
      /\ \A n \in 0..Len(new) : Prefix(new, n) = Prefix(chain, n)
      /\ \A n \in 1..Len(new) : new[n] = chain[n]
  BY <1>2, IsPrefixFacts
<1>4. \A n \in 1..Len(chain) : IsPrefix(tail, chain) /\ n <= Len(tail) =>
        /\ Prefix(chain, n) \in Blocks(old)
        /\ n \in 1..Len(old) /\ chain[n] = old[n]
  <2> SUFFICES ASSUME NEW n \in 1..Len(chain), IsPrefix(tail, chain), n <= Len(tail)
               PROVE  /\ Prefix(chain, n) \in Blocks(old)
                      /\ n \in 1..Len(old) /\ chain[n] = old[n]
    OBVIOUS
  <2>1. tail = old
    BY DEF NoHead
  <2>2. n \in 1..Len(old) /\ n \in 0..Len(old)
    BY <1>2, <2>1
  <2>3. Prefix(old, n) = Prefix(chain, n) /\ old[n] = chain[n]
    BY <1>2, <2>1, <2>2, IsPrefixFacts
  <2>4. QED  BY <2>2, <2>3 DEF Blocks
<1>5. \A i \in 1..Len(blocks), n \in 1..Len(chain) :
        blocks[i] = Prefix(chain, n) => Last(blocks[i]) = chain[n]
  <2>1. \A n \in 1..Len(chain) : Len(Prefix(chain, n)) = n /\ Prefix(chain, n)[n] = chain[n]
    BY <1>2, PrefixFacts
  <2>2. QED  BY <2>1 DEF Last
<1>6. PICK missing \in SUBSET (3..MaxId) :
        /\ missing = collect_object_references(s, blocks)
        /\ \A i \in 1..Len(blocks) :
              Last(blocks[i]) \in missing \cup objects \cup {SrcSeed, OtherSeed}
  <2>1. \A i \in 1..Len(blocks) : Last(blocks[i]) \in 1..MaxId
    <3>1. \A n \in 1..Len(chain) : chain[n] \in 1..MaxId
      BY <1>2, ElementOfSeq
    <3>2. QED  BY <1>1, <1>5, <3>1
  <2>2. Range(blocks) = {blocks[i] : i \in 1..Len(blocks)}
    BY DEF Range
  <2>3. collect_object_references(s, blocks) \subseteq 3..MaxId
    BY <2>1, <2>2, TransferAssumption DEF collect_object_references, SrcSeed, OtherSeed
  <2>4. \A i \in 1..Len(blocks) : Last(blocks[i]) \in
          collect_object_references(s, blocks) \cup objects \cup {SrcSeed, OtherSeed}
    BY <2>2 DEF collect_object_references
  <2>5. QED  BY <2>3, <2>4
<1>7. PICK phase \in {"create", "objects"} :
        phase = IF old = NoHead THEN "create" ELSE "objects"
  OBVIOUS
<1>8. PICK state \in SessionStates :
        /\ state = [phase |-> phase, old_head |-> old, new_head |-> new, blocks |-> blocks,
                    missing |-> missing, check |-> old]
        /\ state.phase = phase /\ state.old_head = old /\ state.new_head = new
        /\ state.blocks = blocks /\ state.missing = missing
  <2> DEFINE new_state == [phase |-> phase, old_head |-> old, new_head |-> new,
                           blocks |-> blocks, missing |-> missing, check |-> old]
  <2>1. new_state \in SessionStates
    BY DEF SessionStates
  <2>2. QED  BY <2>1
<1>9. To(s, state) /\ session'[s] = state
  <2>1. To(s, state)
    BY <1>1, <1>6, <1>7, <1>8 DEF Loaded
  <2>2. session \in [Sessions -> SessionStates]
    BY DEF SyncInv, TypeOK
  <2>3. QED  BY <2>1, <2>2 DEF To
<1>10. Blocks(new) \subseteq stored \cup Range(blocks)
  <2> SUFFICES ASSUME NEW n \in 1..Len(new)
               PROVE  Prefix(new, n) \in stored \cup Range(blocks)
    BY DEF Blocks
  <2>1. n \in 1..Len(chain) /\ Prefix(new, n) = Prefix(chain, n)
    BY <1>2, <1>3
  <2>2. CASE IsPrefix(tail, chain) /\ n <= Len(tail)
    BY <1>4, <2>1, <2>2 DEF Complete
  <2>3. CASE \E i \in 1..Len(blocks) : blocks[i] = Prefix(chain, n)
    BY <2>1, <2>3 DEF Range
  <2>4. QED  BY <1>1, <2>1, <2>2, <2>3
<1>11. Objects(new) \subseteq objects \cup lost \cup missing
  <2> SUFFICES ASSUME NEW x \in Objects(new)
               PROVE  x \in objects \cup lost \cup missing
    OBVIOUS
  <2>1. PICK n \in DOMAIN new : x = new[n] /\ x \notin {SrcSeed, OtherSeed}
    BY DEF Objects, Range
  <2>2. n \in 1..Len(new)
    BY <1>2, <2>1
  <2>3. n \in 1..Len(chain) /\ new[n] = chain[n]
    BY <1>2, <1>3, <2>2
  <2>4. CASE IsPrefix(tail, chain) /\ n <= Len(tail)
    <3>1. n \in 1..Len(old) /\ new[n] = old[n]
      BY <1>4, <2>3, <2>4
    <3>2. x \in Objects(old)
      BY <1>2, <2>1, <3>1 DEF Objects, Range
    <3>3. QED  BY <3>2 DEF Complete
  <2>5. CASE \E i \in 1..Len(blocks) : blocks[i] = Prefix(chain, n)
    BY <1>5, <1>6, <2>1, <2>3, <2>5
  <2>6. QED  BY <1>1, <2>3, <2>4, <2>5
<1>12. old = NoHead => blocks # <<>> /\ Len(blocks[1]) = 1
  BY <1>1 DEF NoHead
<1>13. blocks # <<>> => Len(blocks[1]) = 1 \/ Front(blocks[1]) \in stored
  <2>1. old # <<>> => old \in Blocks(old)
    <3>1. Len(old) \in 0..Len(old) /\ Prefix(old, Len(old)) = old
      BY <1>2, PrefixesNest
    <3>2. QED  BY <1>2, <3>1 DEF Blocks
  <2>2. QED  BY <1>1, <2>1 DEF Complete, NoHead
<1>14. BatchInv(s)'
  BY <1>1, <1>7, <1>8, <1>9, <1>10, <1>11, <1>12, <1>13 DEF BatchInv
<1>15. Complete(session[s].old_head)'
  BY <1>8, <1>9 DEF Complete
<1>16. SessionInv(s)'
  BY <1>7, <1>8, <1>9, <1>14, <1>15 DEF SessionInv
<1>17. Grows /\ src' = src
  BY DEF Grows
<1>18. /\ session' \in [Sessions -> SessionStates]
       /\ \A r \in Sessions : SessionInv(r)'
  BY <1>9, <1>16, <1>17, OneSyncMoves
<1>19. QED  BY <1>18 DEF SyncInv, TypeOK, SourceInv, Complete

-----------------------------------------------------------------------------
(* The steps *)

\* What the invariant says of the datasets and of one sync.
LEMMA Typing ==
  ASSUME SyncInv
  PROVE  /\ SourceChain(src) /\ dst \in Chains /\ src # NoHead
         /\ NoHead \in Chains /\ IsPrefix(src, src)
         /\ \A s \in Sessions : session[s] \in SessionStates
<1>1. src \in Chains /\ Len(src) >= 2 /\ src[1] = SrcSeed /\ dst \in Chains
  BY DEF SyncInv, TypeOK, SourceInv
<1>2. src # <<>> /\ <<>> \in Chains
  BY <1>1 DEF Chains
<1>3. \A s \in Sessions : session[s] \in SessionStates
  BY DEF SyncInv, TypeOK
<1>4. QED  BY <1>1, <1>2, <1>3 DEF SourceChain, NoHead, IsPrefix, Chains

\* A sync ends.
LEMMA FinishKeepsSessions ==
  ASSUME SyncInv, NEW s \in Sessions, Finish(s), Grows, src' = src
  PROVE  /\ session' \in [Sessions -> SessionStates]
         /\ \A r \in Sessions : SessionInv(r)'
<1>1. Idle \in SessionStates
  BY Typing DEF Idle, SessionStates, NoHead
<1>2. session'[s] = Idle
  BY DEF Finish, To, SyncInv, TypeOK
<1>3. QED  BY <1>1, <1>2, IdleIsFine, OneSyncMoves DEF Finish

\* A sync ends that leaves the destination alone.
LEMMA FinishPreserves ==
  ASSUME SyncInv, NEW s \in Sessions, Finish(s), faults' \in 0..MaxFaults,
         UNCHANGED <<src, dst, stored, objects, nextId, lost>>
  PROVE  SyncInv'
<1>1. Grows
  BY DEF Grows
<1>2. QED  BY <1>1, FinishKeepsSessions DEF SyncInv, TypeOK, SourceInv, Complete

\* A sync has read the destination's head.
LEMMA ReadHeadPreserves ==
  ASSUME SyncInv, NEW s \in Sessions, NEW new \in Chains,
         s.protocol = "simple" => s.force /\ IsPrefix(new, src),
         To(s, Loading(dst, new)),
         UNCHANGED <<src, dst, stored, objects, nextId, faults, lost>>
  PROVE  SyncInv'
<1>1. PICK state \in SessionStates :
        /\ state = Loading(dst, new)
        /\ state.phase = "load" /\ state.old_head = dst /\ state.new_head = new
        /\ state.blocks = <<>>
  <2>1. Loading(dst, new) \in SessionStates
    BY Typing DEF Loading, SessionStates
  <2>2. QED  BY <2>1 DEF Loading
<1>2. To(s, state) /\ session'[s] = state
  BY <1>1 DEF To, SyncInv, TypeOK
<1>3. Complete(session[s].old_head)'
  BY <1>1, <1>2 DEF SyncInv, Complete
<1>4. SessionInv(s)'
  BY <1>1, <1>2, <1>3 DEF SessionInv
<1>5. Grows
  BY DEF Grows
<1>6. QED  BY <1>2, <1>4, <1>5, OneSyncMoves DEF SyncInv, TypeOK, SourceInv, Complete

\* A destination that the comparison finds behind is a prefix of the source, and
\* the blocks ahead are those of the interval.
LEMMA LhsAheadIsInterval ==
  ASSUME NEW c \in Chains, NEW d \in Chains, c # NoHead, compare_chains(c, d).kind = "LhsAhead"
  PROVE  IsPrefix(d, c) /\ compare_chains(c, d).blocks = iter_blocks_interval(c, d)
<1>0. Len(c) \in Nat \ {0} /\ Len(d) \in Nat /\ c \in Seq(1..MaxId) /\ d \in Seq(1..MaxId)
      /\ Len(NoHead) = 0 /\ (Len(d) = 0 => d = NoHead)
  BY DEF Chains, NoHead
<1>1. ASSUME Len(d) <= Len(c), Prefix(c, Len(d)) = d, compare_chains(c, d) = Ahead("LhsAhead", c, d)
      PROVE  IsPrefix(d, c) /\ compare_chains(c, d).blocks = iter_blocks_interval(c, d)
  BY <1>0, <1>1, IsPrefixFacts DEF Ahead
<1>2. CASE c = d
  BY <1>2 DEF compare_chains
<1>3. CASE c # d /\ d = NoHead
  <2>1. Prefix(c, Len(d)) = d
    BY <1>0, <1>3, SubSeqEmpty DEF Prefix, NoHead
  <2>2. compare_chains(c, d) = Ahead("LhsAhead", c, d)
    <3>1. ~(Len(c) < Len(d))
      BY <1>0, <1>3
    <3>2. QED  BY <1>3, <3>1 DEF compare_chains, Ahead
  <2>3. QED  BY <1>0, <1>1, <1>3, <2>1, <2>2
<1>4. CASE c # d /\ d # NoHead /\ Len(c) = Len(d)
  BY <1>0, <1>4 DEF compare_chains, describe_divergence
<1>5. CASE c # d /\ d # NoHead /\ Len(c) > Len(d)
  <2>1. compare_chains(c, d) =
          IF check_expected_common_ancestor(c, d) THEN Ahead("LhsAhead", c, d)
          ELSE describe_divergence(c, d, find_common_ancestor(c, d))
    BY <1>0, <1>5 DEF compare_chains
  <2>2. check_expected_common_ancestor(c, d)
    BY <2>1 DEF describe_divergence
  <2>3. QED  BY <1>0, <1>1, <1>5, <2>1, <2>2 DEF check_expected_common_ancestor
<1>6. CASE c # d /\ d # NoHead /\ Len(c) < Len(d)
  <2>1. compare_chains(c, d) =
          IF check_expected_common_ancestor(d, c) THEN Ahead("LhsBehind", d, c)
          ELSE describe_divergence(c, d, find_common_ancestor(c, d))
    BY <1>0, <1>6 DEF compare_chains
  <2>2. QED  BY <2>1 DEF describe_divergence, Ahead
<1>7. QED  BY <1>0, <1>2, <1>3, <1>4, <1>5, <1>6

\* The simple protocol reads what is ahead, or, forced, the heads only.
LEMMA StartSimplePreserves ==
  ASSUME SyncInv, NEW s \in Sessions, StartSimple(s)
  PROVE  SyncInv'
<1>1. CASE /\ compare_chains(src, dst).kind = "LhsAhead"
           /\ Loaded(s, dst, src, compare_chains(src, dst).blocks)
  <2>1. /\ IsPrefix(dst, src) /\ src \in Chains
        /\ compare_chains(src, dst).blocks = iter_blocks_interval(src, dst)
    BY <1>1, Typing, LhsAheadIsInterval DEF SourceChain
  <2>2. Complete(dst)
    BY DEF SyncInv
  <2>3. QED  BY <1>1, <2>1, <2>2, Typing, LoadedBatch DEF StartSimple
<1>2. CASE /\ s.force
           /\ To(s, Loading(dst, src))
  BY <1>2, Typing, ReadHeadPreserves DEF StartSimple, SourceChain
<1>3. QED  BY <1>1, <1>2 DEF StartSimple

\* The whole chain, of which the head read first is a prefix.
LEMMA LoadSimplePreserves ==
  ASSUME SyncInv, NEW s \in Sessions, LoadSimple(s)
  PROVE  SyncInv'
<1>1. /\ session[s].old_head \in Chains /\ session[s].new_head \in Chains
      /\ Complete(session[s].old_head) /\ s.force /\ IsPrefix(session[s].new_head, src)
  BY Typing DEF LoadSimple, SyncInv, SessionInv, SessionStates
<1>2. QED  BY <1>1, Typing, LoadedBatch DEF LoadSimple

\* The smart protocols begin with the destination's head.
LEMMA StartSmartPreserves ==
  ASSUME SyncInv, NEW s \in Sessions, StartPush(s) \/ StartPull(s)
  PROVE  SyncInv'
  BY Typing, ReadHeadPreserves DEF StartPush, StartPull

\* The interval above the head read first, however the source has moved since.
LEMMA LoadSmartPreserves ==
  ASSUME SyncInv, NEW s \in Sessions, LoadPush(s) \/ LoadPull(s)
  PROVE  SyncInv'
<1>1. session[s].old_head \in Chains /\ Complete(session[s].old_head) /\ src \in Chains
  BY Typing DEF SyncInv, SessionInv, SessionStates, SourceChain
<1>2. CASE Finish(s)
  <2>1. UNCHANGED <<src, dst, stored, objects, nextId, lost>> /\ faults' \in 0..MaxFaults
    BY DEF LoadPush, LoadPull, SyncInv, TypeOK
  <2>2. QED  BY <1>2, <2>1, FinishPreserves
<1>3. CASE /\ ~InvalidInterval(src, session[s].old_head, s.force)
           /\ Loaded(s, session[s].old_head, src, iter_blocks_interval(src, session[s].old_head))
  <2>1. UNCHANGED <<src, dst, stored, objects, nextId, faults, lost>>
    BY DEF LoadPush, LoadPull
  <2>2. ~s.force => IsPrefix(session[s].old_head, src)
    BY <1>3 DEF InvalidInterval
  <2>3. QED  BY <1>1, <1>3, <2>1, <2>2, Typing, LoadedBatch
<1>4. QED  BY <1>2, <1>3 DEF LoadPush, LoadPull

\* The blocks but the first are still a run.
LEMMA TailOfRun ==
  ASSUME NEW blocks \in Seq(Chains), blocks # <<>>, RunOfBlocks(blocks)
  PROVE  /\ Head(blocks) = blocks[1] /\ blocks[1] \in Chains
         /\ Tail(blocks) \in Seq(Chains) /\ RunOfBlocks(Tail(blocks))
         /\ Tail(blocks) # <<>> => Front(Tail(blocks)[1]) = blocks[1]
         /\ Range(blocks) \subseteq {blocks[1]} \cup Range(Tail(blocks))
<1> DEFINE rest == Tail(blocks)
<1>1. /\ rest \in Seq(Chains) /\ Len(rest) = Len(blocks) - 1 /\ Len(blocks) \in Nat \ {0}
      /\ \A i \in 1..Len(rest) : rest[i] = blocks[i + 1]
  BY HeadTailProperties DEF Chains
<1>2. Head(blocks) = blocks[1] /\ blocks[1] \in Chains
  OBVIOUS
<1> HIDE DEF rest
<1>3. ASSUME NEW i \in 1..Len(rest)
      PROVE  rest[i] # <<>> /\ rest[i][1] = SrcSeed
  BY <1>1 DEF RunOfBlocks
<1>4. ASSUME NEW i \in 1..(Len(rest) - 1)
      PROVE  Front(rest[i + 1]) = rest[i]
  <2>1. /\ i \in 1..Len(rest) /\ i + 1 \in 1..Len(rest)
        /\ i + 1 \in 1..(Len(blocks) - 1) /\ (i + 1) + 1 \in 1..Len(blocks)
    BY <1>1
  <2>2. rest[i] = blocks[i + 1] /\ rest[i + 1] = blocks[(i + 1) + 1]
    BY <1>1, <2>1
  <2>3. QED  BY <2>1, <2>2 DEF RunOfBlocks
<1>5. ASSUME rest # <<>>
      PROVE  Front(rest[1]) = blocks[1]
  <2>1. 1 \in 1..Len(rest) /\ 1 \in 1..(Len(blocks) - 1)
    BY <1>1, <1>5
  <2>2. rest[1] = blocks[1 + 1]
    BY <1>1, <2>1
  <2>3. QED  BY <2>1, <2>2 DEF RunOfBlocks
<1>6. ASSUME NEW i \in 1..Len(blocks), i # 1
      PROVE  blocks[i] \in Range(rest)
  <2>1. i - 1 \in 1..Len(rest) /\ (i - 1) + 1 = i
    BY <1>1, <1>6
  <2>2. rest[i - 1] = blocks[i] /\ i - 1 \in DOMAIN rest
    BY <1>1, <2>1
  <2>3. QED  BY <2>2 DEF Range
<1>7. Range(blocks) \subseteq {blocks[1]} \cup Range(rest)
  BY <1>6 DEF Range
<1>8. QED  BY <1>1, <1>2, <1>3, <1>4, <1>5, <1>7 DEF rest, RunOfBlocks

\* A Seed alone is complete once it is stored.
LEMMA SeedIsComplete ==
  ASSUME NEW seed \in Chains, Len(seed) = 1, seed[1] = SrcSeed \/ seed[1] = OtherSeed,
         seed \in stored'
  PROVE  Complete(seed)'
<1>1. Prefix(seed, 1) = seed
  <2>1. seed \in Seq(1..MaxId) /\ Len(seed) \in 0..Len(seed)
    BY DEF Chains
  <2>2. QED  BY <2>1, PrefixesNest
<1>2. Blocks(seed) = {seed}
  BY <1>1 DEF Blocks
<1>3. Range(seed) = {seed[1]}
  BY DEF Range, Chains
<1>4. Objects(seed) = {}
  BY <1>3 DEF Objects
<1>5. QED  BY <1>2, <1>4 DEF Complete

\* The destination is created from the Seed.
LEMMA CreatePreserves ==
  ASSUME SyncInv, NEW s \in Sessions, Create(s)
  PROVE  SyncInv'
<1>1. CASE dst = NoHead
  <2>1. PICK blocks \in Seq(Chains) :
          /\ blocks = session[s].blocks /\ RunOfBlocks(blocks) /\ blocks # <<>>
          /\ Len(blocks[1]) = 1 /\ blocks[1] \in Chains /\ blocks[1][1] = SrcSeed
    <3>1. session[s].blocks \in Seq(Chains) /\ session[s].phase = "create" /\ BatchInv(s)
      BY Typing DEF SessionStates, Create, SyncInv, SessionInv
    <3>2. QED  BY <3>1, TailOfRun DEF BatchInv, RunOfBlocks
  <2>2. PICK seed \in Chains :
          /\ seed = Head(blocks) /\ seed = blocks[1] /\ dst' = seed
          /\ stored' = stored \cup {seed}
          /\ To(s, [session[s] EXCEPT !.phase = "objects", !.blocks = Tail(blocks),
                                      !.check = seed])
    BY <1>1, <2>1, TailOfRun DEF Create
  <2>3. PICK state \in SessionStates :
          /\ To(s, state) /\ state.phase = "objects" /\ state.blocks = Tail(blocks)
          /\ state.old_head = session[s].old_head /\ state.new_head = session[s].new_head
          /\ state.missing = session[s].missing
    <3> DEFINE new == [session[s] EXCEPT !.phase = "objects", !.blocks = Tail(blocks),
                                         !.check = seed]
    <3>1. session[s] \in SessionStates /\ Tail(blocks) \in Seq(Chains)
      BY <2>1, Typing, TailOfRun
    <3>2. new \in SessionStates
      BY <3>1 DEF SessionStates
    <3>3. new.phase = "objects" /\ new.blocks = Tail(blocks)
      BY <3>1 DEF SessionStates
    <3>4. new.old_head = session[s].old_head /\ new.new_head = session[s].new_head
      BY <3>1 DEF SessionStates
    <3>5. new.missing = session[s].missing
      BY <3>1 DEF SessionStates
    <3>6. To(s, new)
      BY <2>2
    <3> HIDE DEF new
    <3>7. QED  BY <3>2, <3>3, <3>4, <3>5, <3>6
  <2>4. session'[s] = state
    BY <2>3 DEF To, SyncInv, TypeOK
  <2>5. Grows /\ src' = src
    BY <2>2 DEF Grows, Create
  <2>6. BatchInv(s) /\ Complete(session[s].old_head)
    BY DEF Create, SyncInv, SessionInv
  <2>7. BatchInv(s)'
    <3>1. /\ RunOfBlocks(Tail(blocks))
          /\ Tail(blocks) # <<>> => Front(Tail(blocks)[1]) \in stored'
          /\ stored \cup Range(blocks) \subseteq stored' \cup Range(Tail(blocks))
      BY <2>1, <2>2, TailOfRun
    <3>2. QED  BY <2>1, <2>3, <2>4, <2>5, <2>6, <3>1 DEF BatchInv, Grows
  <2>8. Complete(session[s].old_head)'
    BY <2>3, <2>4, <2>5, <2>6, CompleteStays DEF Complete
  <2>9. SessionInv(s)'
    BY <2>3, <2>4, <2>7, <2>8 DEF SessionInv
  <2>10. /\ session' \in [Sessions -> SessionStates]
         /\ \A r \in Sessions : SessionInv(r)'
    BY <2>3, <2>5, <2>9, OneSyncMoves
  <2>11. Complete(dst)'
    <3>1. Complete(seed)'
      BY <2>1, <2>2, SeedIsComplete
    <3>2. QED  BY <2>2, <3>1 DEF Complete
  <2>12. TypeOK' /\ SourceInv'
    BY <2>2, <2>5, <2>10 DEF Create, SyncInv, TypeOK, SourceInv
  <2>13. QED  BY <2>10, <2>11, <2>12 DEF SyncInv
<1>2. CASE Finish(s) /\ UNCHANGED <<dst, stored>>
  <2>1. UNCHANGED <<src, dst, stored, objects, nextId, lost>> /\ faults' \in 0..MaxFaults
    BY <1>2 DEF Create, SyncInv, TypeOK
  <2>2. QED  BY <1>2, <2>1, FinishPreserves
<1>3. QED  BY <1>1, <1>2 DEF Create

\* An object is transferred, or an upload is given up: missing shrinks by what
\* has come or is lost.
LEMMA MissingShrinks ==
  ASSUME SyncInv, NEW s \in Sessions, session[s].phase = "objects", NEW left \in SUBSET (3..MaxId),
         To(s, [session[s] EXCEPT !.missing = left]),
         objects \cup lost \cup session[s].missing \subseteq objects' \cup lost' \cup left,
         UNCHANGED <<src, dst, stored, nextId>>, Grows,
         objects' \subseteq 3..MaxId, lost' \subseteq 3..MaxId, faults' \in 0..MaxFaults
  PROVE  SyncInv'
<1>1. PICK state \in SessionStates :
        /\ To(s, state) /\ state.phase = "objects" /\ state.blocks = session[s].blocks
        /\ state.old_head = session[s].old_head /\ state.new_head = session[s].new_head
        /\ state.missing = left
  <2> DEFINE new == [session[s] EXCEPT !.missing = left]
  <2>1. session[s] \in SessionStates
    BY Typing
  <2>2. new \in SessionStates
    BY <2>1 DEF SessionStates
  <2>3. new.phase = "objects" /\ new.blocks = session[s].blocks
    BY <2>1 DEF SessionStates
  <2>4. new.old_head = session[s].old_head /\ new.new_head = session[s].new_head
    BY <2>1 DEF SessionStates
  <2>5. new.missing = left
    BY <2>1 DEF SessionStates
  <2> HIDE DEF new
  <2>6. QED  BY <2>2, <2>3, <2>4, <2>5 DEF new
<1>2. session'[s] = state
  BY <1>1 DEF To, SyncInv, TypeOK
<1>3. BatchInv(s) /\ Complete(session[s].old_head)
  BY DEF SyncInv, SessionInv
<1>4. BatchInv(s)'
  BY <1>1, <1>2, <1>3 DEF BatchInv, Grows
<1>5. Complete(session[s].old_head)'
  BY <1>1, <1>2, <1>3, CompleteStays DEF Complete
<1>6. SessionInv(s)'
  BY <1>1, <1>2, <1>4, <1>5 DEF SessionInv
<1>7. /\ session' \in [Sessions -> SessionStates]
      /\ \A r \in Sessions : SessionInv(r)'
  BY <1>1, <1>6, OneSyncMoves
<1>8. Complete(dst)'
  BY CompleteStays DEF SyncInv, Complete
<1>9. QED  BY <1>7, <1>8 DEF SyncInv, TypeOK, SourceInv

\* An object arrives.
LEMMA TransferObjectPreserves ==
  ASSUME SyncInv, NEW s \in Sessions, TransferObject(s)
  PROVE  SyncInv'
<1>0. session[s].missing \subseteq 3..MaxId
  BY Typing DEF SessionStates
<1>1. PICK object \in session[s].missing :
        /\ objects' = objects \cup {object}
        /\ To(s, [session[s] EXCEPT !.missing = session[s].missing \ {object}])
  BY DEF TransferObject
<1>2. Grows /\ objects' \subseteq 3..MaxId /\ lost' \subseteq 3..MaxId /\ faults' \in 0..MaxFaults
  BY <1>0, <1>1 DEF Grows, TransferObject, SyncInv, TypeOK
<1>3. QED  BY <1>0, <1>1, <1>2, MissingShrinks DEF TransferObject

\* A push gives its uploads up.
LEMMA FailUploadPreserves ==
  ASSUME SyncInv, NEW s \in Sessions, FailUpload(s)
  PROVE  SyncInv'
<1>0. session[s].missing \subseteq 3..MaxId
  BY Typing DEF SessionStates
<1>1. Grows /\ objects' \subseteq 3..MaxId /\ lost' \subseteq 3..MaxId /\ faults' \in 0..MaxFaults
  BY <1>0, TransferAssumption DEF Grows, FailUpload, SyncInv, TypeOK
<1>2. QED  BY <1>0, <1>1, MissingShrinks DEF FailUpload

\* The oldest block is stored: it continues what is stored already.
LEMMA AppendBlockPreserves ==
  ASSUME SyncInv, NEW s \in Sessions, AppendBlock(s)
  PROVE  SyncInv'
<1>1. PICK blocks \in Seq(Chains) :
        /\ blocks = session[s].blocks /\ RunOfBlocks(blocks) /\ blocks # <<>>
        /\ blocks[1] \in Chains /\ BatchInv(s) /\ Complete(session[s].old_head)
  <2>1. session[s].blocks \in Seq(Chains) /\ session[s].phase = "objects" /\ BatchInv(s)
        /\ session[s].blocks # <<>> /\ Complete(session[s].old_head)
    BY Typing DEF SessionStates, AppendBlock, SyncInv, SessionInv
  <2>2. QED  BY <2>1, TailOfRun DEF BatchInv
<1>2. /\ stored' = stored \cup {blocks[1]}
      /\ To(s, [session[s] EXCEPT !.blocks = Tail(blocks)])
      /\ UNCHANGED <<src, dst, objects, nextId, faults, lost>>
  BY <1>1, TailOfRun DEF AppendBlock
<1>3. PICK state \in SessionStates :
        /\ To(s, state) /\ state.phase = "objects" /\ state.blocks = Tail(blocks)
        /\ state.old_head = session[s].old_head /\ state.new_head = session[s].new_head
        /\ state.missing = session[s].missing
  <2> DEFINE new == [session[s] EXCEPT !.blocks = Tail(blocks)]
  <2>1. session[s] \in SessionStates /\ Tail(blocks) \in Seq(Chains)
        /\ session[s].phase = "objects"
    BY <1>1, Typing, TailOfRun DEF AppendBlock
  <2>2. new \in SessionStates
    BY <2>1 DEF SessionStates
  <2>3. new.phase = "objects" /\ new.blocks = Tail(blocks)
    BY <2>1 DEF SessionStates
  <2>4. new.old_head = session[s].old_head /\ new.new_head = session[s].new_head
    BY <2>1 DEF SessionStates
  <2>5. new.missing = session[s].missing
    BY <2>1 DEF SessionStates
  <2>6. To(s, new)
    BY <1>2
  <2> HIDE DEF new
  <2>7. QED  BY <2>2, <2>3, <2>4, <2>5, <2>6
<1>4. session'[s] = state
  BY <1>3 DEF To, SyncInv, TypeOK
<1>5. Grows /\ src' = src
  BY <1>2 DEF Grows
<1>6. BatchInv(s)'
  <2>1. /\ RunOfBlocks(Tail(blocks))
        /\ Tail(blocks) # <<>> => Front(Tail(blocks)[1]) \in stored'
        /\ stored \cup Range(blocks) \subseteq stored' \cup Range(Tail(blocks))
    BY <1>1, <1>2, TailOfRun
  <2>2. QED  BY <1>1, <1>3, <1>4, <1>5, <2>1 DEF BatchInv, Grows
<1>7. Complete(session[s].old_head)'
  BY <1>1, <1>3, <1>4, <1>5, CompleteStays DEF Complete
<1>8. SessionInv(s)'
  BY <1>3, <1>4, <1>6, <1>7 DEF SessionInv
<1>9. /\ session' \in [Sessions -> SessionStates]
      /\ \A r \in Sessions : SessionInv(r)'
  BY <1>3, <1>5, <1>8, OneSyncMoves
<1>10. Complete(dst)'
  BY <1>2, <1>5, CompleteStays DEF SyncInv, Complete
<1>11. TypeOK' /\ SourceInv'
  BY <1>1, <1>2, <1>9 DEF SyncInv, TypeOK, SourceInv
<1>12. QED  BY <1>9, <1>10, <1>11 DEF SyncInv

\* The head is found as expected.
LEMMA CheckHeadPreserves ==
  ASSUME SyncInv, NEW s \in Sessions, CheckHead(s)
  PROVE  SyncInv'
<1>1. CASE Finish(s)
  <2>1. UNCHANGED <<src, dst, stored, objects, nextId, lost>> /\ faults' \in 0..MaxFaults
    BY DEF CheckHead, SyncInv, TypeOK
  <2>2. QED  BY <1>1, <2>1, FinishPreserves
<1>2. CASE To(s, [session[s] EXCEPT !.phase = "set"])
  <2>1. PICK state \in SessionStates :
          /\ To(s, state) /\ state.phase = "set" /\ state.blocks = session[s].blocks
          /\ state.old_head = session[s].old_head /\ state.new_head = session[s].new_head
          /\ state.missing = session[s].missing
    <3> DEFINE new == [session[s] EXCEPT !.phase = "set"]
    <3>1. session[s] \in SessionStates
      BY Typing
    <3>2. new \in SessionStates
      BY <3>1 DEF SessionStates
    <3>3. new.phase = "set" /\ new.blocks = session[s].blocks
      BY <3>1 DEF SessionStates
    <3>4. new.old_head = session[s].old_head /\ new.new_head = session[s].new_head
      BY <3>1 DEF SessionStates
    <3>5. new.missing = session[s].missing
      BY <3>1 DEF SessionStates
    <3> HIDE DEF new
    <3>6. QED  BY <1>2, <3>2, <3>3, <3>4, <3>5 DEF new
  <2>2. session'[s] = state
    BY <2>1 DEF To, SyncInv, TypeOK
  <2>3. BatchInv(s) /\ Complete(session[s].old_head)
        /\ session[s].blocks = <<>> /\ session[s].missing = {}
        /\ UNCHANGED <<src, dst, stored, objects, nextId, faults, lost>>
    BY DEF CheckHead, SyncInv, SessionInv
  <2>4. BatchInv(s)'
    BY <2>1, <2>2, <2>3 DEF BatchInv
  <2>5. Grows
    BY <2>3 DEF Grows
  <2>6. Complete(session[s].old_head)' /\ Complete(dst)'
    BY <2>1, <2>2, <2>3 DEF Complete, SyncInv
  <2>7. SessionInv(s)'
    BY <2>1, <2>2, <2>4, <2>6 DEF SessionInv
  <2>8. /\ session' \in [Sessions -> SessionStates]
        /\ \A r \in Sessions : SessionInv(r)'
    BY <2>1, <2>3, <2>5, <2>7, OneSyncMoves
  <2>9. QED  BY <2>3, <2>6, <2>8 DEF SyncInv, TypeOK, SourceInv
<1>3. QED  BY <1>1, <1>2 DEF CheckHead

\* The head moves to what is complete by now.
LEMMA SetHeadPreserves ==
  ASSUME SyncInv, NEW s \in Sessions, SetHead(s)
  PROVE  SyncInv'
<1>1. /\ session[s].new_head \in Chains /\ BatchInv(s)
      /\ session[s].blocks = <<>> /\ session[s].missing = {}
  BY Typing DEF SessionStates, SetHead, SyncInv, SessionInv, BatchInv
<1>2. Range(<<>>) = {}
  BY DEF Range
<1>3. Complete(session[s].new_head)
  BY <1>1, <1>2 DEF BatchInv, Complete
<1>4. Complete(dst)'
  BY <1>3 DEF SetHead, Complete
<1>5. Grows /\ src' = src /\ Finish(s)
  BY DEF Grows, SetHead
<1>6. /\ session' \in [Sessions -> SessionStates]
      /\ \A r \in Sessions : SessionInv(r)'
  BY <1>5, FinishKeepsSessions
<1>7. QED  BY <1>1, <1>4, <1>6 DEF SetHead, SyncInv, TypeOK, SourceInv

\* A sync dies; what it has stored stays.
LEMMA AbortPreserves ==
  ASSUME SyncInv, NEW s \in Sessions, Abort(s)
  PROVE  SyncInv'
<1>1. faults' \in 0..MaxFaults
  BY TransferAssumption DEF Abort, SyncInv, TypeOK
<1>2. QED  BY <1>1, FinishPreserves DEF Abort

\* No sync moves.
LEMMA NoSyncMoves ==
  ASSUME SyncInv, session' = session, Grows,
         \A r \in Sessions : session[r].phase = "load" /\ r.protocol = "simple" =>
           (IsPrefix(session[r].new_head, src) => IsPrefix(session[r].new_head, src'))
  PROVE  /\ session' \in [Sessions -> SessionStates]
         /\ \A r \in Sessions : SessionInv(r)'
<1>1. \A r \in Sessions : SessionInv(r)'
  BY OthersKeepInv DEF SyncInv
<1>2. QED  BY <1>1 DEF SyncInv, TypeOK

\* A commit to the source continues what a sync has read of it.
LEMMA SrcCommitPreserves ==
  ASSUME SyncInv, SrcCommit
  PROVE  SyncInv'
<1>1. /\ src \in Seq(1..MaxId) /\ nextId \in 1..MaxId /\ nextId + 1 \in 4..(MaxId + 1)
      /\ Len(src) >= 2 /\ src[1] = SrcSeed /\ src' = Append(src, nextId)
  BY TransferAssumption DEF SrcCommit, SyncInv, TypeOK, SourceInv, Chains
<1>2. /\ src' \in Seq(1..MaxId) /\ Len(src') = Len(src) + 1 /\ Len(src) \in Nat
      /\ src'[1] = src[1]
  <2>1. /\ Append(src, nextId) \in Seq(1..MaxId) /\ Len(src) \in Nat
        /\ Len(Append(src, nextId)) = Len(src) + 1
        /\ \A i \in 1..Len(src) : Append(src, nextId)[i] = src[i]
    BY <1>1, AppendFacts
  <2>2. 1 \in 1..Len(src)
    BY <1>1, <2>1
  <2>3. QED  BY <1>1, <2>1, <2>2
<1>3. ASSUME NEW r \in Sessions, IsPrefix(session[r].new_head, src)
      PROVE  IsPrefix(session[r].new_head, src')
  <2>1. PICK p \in Seq(1..MaxId) : p = session[r].new_head
    BY Typing DEF SessionStates, Chains
  <2>2. Len(p) <= Len(src) /\ Len(p) \in Nat /\ Prefix(src, Len(p)) = p
    BY <1>1, <1>3, <2>1, IsPrefixFacts
  <2>3. Len(p) \in 0..Len(src) /\ Len(p) <= Len(src')
    BY <1>2, <2>2
  <2>4. Prefix(src', Len(p)) = Prefix(src, Len(p))
    BY <1>1, <2>3, AppendContinues
  <2>5. QED  BY <1>2, <2>1, <2>2, <2>3, <2>4, IsPrefixFacts
<1>4. Grows /\ session' = session
  BY DEF Grows, SrcCommit
<1>5. /\ session' \in [Sessions -> SessionStates]
      /\ \A r \in Sessions : SessionInv(r)'
  BY <1>3, <1>4, NoSyncMoves
<1>6. QED  BY <1>1, <1>2, <1>5 DEF SrcCommit, SyncInv, TypeOK, SourceInv, Complete, Chains

\* A reset of the source does not touch what syncs have read.
LEMMA SrcResetPreserves ==
  ASSUME SyncInv, SrcReset
  PROVE  SyncInv'
<1>1. src \in Seq(1..MaxId) /\ Len(src) \in Nat /\ Len(src) > 2 /\ src[1] = SrcSeed /\ src # <<>>
  BY DEF SrcReset, SyncInv, TypeOK, SourceInv, Chains
<1>2. src' = Prefix(src, Len(src) - 1) /\ Len(src) - 1 \in 0..Len(src)
  BY <1>1, FrontFacts DEF SrcReset
<1>3. src' \in Seq(1..MaxId) /\ Len(src') = Len(src) - 1 /\ src'[1] = src[1]
  <2>1. 1 \in 1..(Len(src) - 1)
    BY <1>1
  <2>2. QED  BY <1>1, <1>2, <2>1, PrefixFacts
<1>4. Grows /\ session' = session
  BY DEF Grows, SrcReset
<1>5. /\ session' \in [Sessions -> SessionStates]
      /\ \A r \in Sessions : SessionInv(r)'
  BY <1>4, NoSyncMoves DEF SrcReset
<1>6. QED  BY <1>1, <1>3, <1>5 DEF SrcReset, SyncInv, TypeOK, SourceInv, Complete, Chains

\* A commit to the destination stores its block and its object.
LEMMA DstCommitPreserves ==
  ASSUME SyncInv, DstCommit
  PROVE  SyncInv'
<1>1. /\ dst \in Seq(1..MaxId) /\ nextId \in 1..MaxId /\ nextId \in 3..MaxId
      /\ nextId + 1 \in 4..(MaxId + 1) /\ dst' = Append(dst, nextId)
      /\ stored' = stored \cup {dst'} /\ objects' = objects \cup {nextId} /\ lost' = lost
  BY TransferAssumption DEF DstCommit, SyncInv, TypeOK, Chains
<1>2. /\ dst' \in Seq(1..MaxId) /\ Len(dst') = Len(dst) + 1 /\ Len(dst) \in Nat
      /\ \A i \in 1..Len(dst) : dst'[i] = dst[i]
      /\ dst'[Len(dst) + 1] = nextId
      /\ \A n \in 0..Len(dst) : Prefix(dst', n) = Prefix(dst, n)
      /\ Prefix(dst', Len(dst) + 1) = dst'
  <2> DEFINE new == Append(dst, nextId)
  <2>1. /\ new \in Seq(1..MaxId) /\ Len(new) = Len(dst) + 1 /\ Len(dst) \in Nat
        /\ \A i \in 1..Len(dst) : new[i] = dst[i]
        /\ new[Len(dst) + 1] = nextId
    BY <1>1, AppendFacts
  <2>2. /\ \A n \in 0..Len(dst) : Prefix(new, n) = Prefix(dst, n)
        /\ Prefix(new, Len(dst) + 1) = new
    BY <1>1, AppendContinues
  <2>3. dst' = new
    BY <1>1
  <2> HIDE DEF new
  <2>4. QED  BY <2>1, <2>2, <2>3
<1>3. Grows /\ session' = session /\ src' = src
  BY <1>1 DEF Grows, DstCommit
<1>4. /\ session' \in [Sessions -> SessionStates]
      /\ \A r \in Sessions : SessionInv(r)'
  BY <1>3, NoSyncMoves
<1>5. Complete(dst)'
  <2>1. ASSUME NEW n \in 1..Len(dst')
        PROVE  Prefix(dst', n) \in stored'
    <3>1. CASE n \in 1..Len(dst)
      BY <1>1, <1>2, <3>1 DEF SyncInv, Complete, Blocks
    <3>2. CASE n = Len(dst) + 1
      BY <1>1, <1>2, <3>2
    <3>3. QED  BY <1>2, <3>1, <3>2
  <2>2. ASSUME NEW n \in 1..Len(dst'), dst'[n] \notin {SrcSeed, OtherSeed}
        PROVE  dst'[n] \in objects' \cup lost'
    <3>1. CASE n \in 1..Len(dst)
      <4>1. dst'[n] \in Objects(dst)
        BY <1>1, <1>2, <2>2, <3>1 DEF Objects, Range
      <4>2. QED  BY <1>1, <4>1 DEF SyncInv, Complete
    <3>2. CASE n = Len(dst) + 1
      BY <1>1, <1>2, <3>2
    <3>3. QED  BY <1>2, <3>1, <3>2
  <2>3. DOMAIN dst' = 1..Len(dst')
    BY <1>2
  <2>4. Blocks(dst') \subseteq stored'
    BY <2>1 DEF Blocks
  <2>5. Objects(dst') \subseteq objects' \cup lost'
    BY <2>2, <2>3 DEF Objects, Range
  <2>6. QED  BY <2>4, <2>5 DEF Complete, Blocks, Objects
<1>6. QED  BY <1>1, <1>2, <1>4, <1>5 DEF DstCommit, SyncInv, TypeOK, SourceInv, Chains

\* Another dataset begins with a Seed of its own.
LEMMA DstCreatePreserves ==
  ASSUME SyncInv, DstCreate
  PROVE  SyncInv'
<1>1. PICK seed \in Chains : /\ seed = <<OtherSeed>> /\ Len(seed) = 1 /\ seed[1] = OtherSeed
                             /\ dst' = seed /\ stored' = stored \cup {seed}
  <2>1. OtherSeed \in 1..MaxId
    BY TransferAssumption DEF OtherSeed
  <2>2. <<OtherSeed>> \in Chains /\ Len(<<OtherSeed>>) = 1 /\ <<OtherSeed>>[1] = OtherSeed
    BY <2>1 DEF Chains
  <2>3. QED  BY <2>2 DEF DstCreate
<1>2. Complete(seed)'
  BY <1>1, SeedIsComplete
<1>3. Complete(dst)'
  BY <1>1, <1>2 DEF Complete
<1>4. Grows /\ session' = session /\ src' = src
  BY <1>1 DEF Grows, DstCreate
<1>5. /\ session' \in [Sessions -> SessionStates]
      /\ \A r \in Sessions : SessionInv(r)'
  BY <1>4, NoSyncMoves
<1>6. QED  BY <1>1, <1>3, <1>5 DEF DstCreate, SyncInv, TypeOK, SourceInv

-----------------------------------------------------------------------------
(* The theorems *)

\* At first there is no destination, and no sync.
LEMMA InitImpliesSyncInv ==
  ASSUME Init
  PROVE  SyncInv
<1>1. src \in Chains /\ Len(src) = 2 /\ src[1] = SrcSeed
  BY TransferAssumption DEF Init, Chains, SrcSeed, OtherSeed
<1>2. NoHead \in Chains /\ <<>> \in Seq(Chains)
  BY DEF NoHead, Chains
<1>3. Idle \in SessionStates
  BY <1>2 DEF Idle, SessionStates
<1>4. TypeOK
  BY <1>1, <1>2, <1>3, TransferAssumption DEF Init, TypeOK, OtherSeed
<1>5. Complete(dst)
  BY NoHeadIsComplete DEF Init
<1>6. ASSUME NEW s \in Sessions
      PROVE  SessionInv(s)
  BY NoHeadIsComplete DEF Init, SessionInv, Idle
<1>7. QED  BY <1>1, <1>4, <1>5, <1>6 DEF SyncInv, SourceInv

\* Every step of the syncs and of the other writers.
LEMMA NextPreservesSyncInv ==
  ASSUME SyncInv, [Next]_vars
  PROVE  SyncInv'
<1>1. ASSUME NEW s \in Sessions, Start(s)
      PROVE  SyncInv'
  BY <1>1, StartSimplePreserves, StartSmartPreserves DEF Start
<1>2. ASSUME NEW s \in Sessions, Step(s)
      PROVE  SyncInv'
  BY <1>2, LoadSimplePreserves, LoadSmartPreserves, CreatePreserves, TransferObjectPreserves,
     AppendBlockPreserves, CheckHeadPreserves, SetHeadPreserves DEF Step
<1>3. ASSUME NEW s \in Sessions, FailUpload(s) \/ Abort(s)
      PROVE  SyncInv'
  BY <1>3, FailUploadPreserves, AbortPreserves
<1>4. CASE SrcCommit \/ SrcReset \/ DstCommit \/ DstCreate
  BY <1>4, SrcCommitPreserves, SrcResetPreserves, DstCommitPreserves, DstCreatePreserves
<1>5. CASE UNCHANGED vars
  <2>1. Grows /\ session' = session /\ src' = src
    BY <1>5 DEF vars, Grows
  <2>2. \A r \in Sessions : SessionInv(r)'
    BY <2>1, NoSyncMoves
  <2>3. QED  BY <1>5, <2>2 DEF vars, SyncInv, TypeOK, SourceInv, Complete
<1>6. QED  BY <1>1, <1>2, <1>3, <1>4, <1>5 DEF Next

\* The inductive invariant: what is behind every head that a sync has read or
\* will set is there, or is on the sync's list.
THEOREM SyncInvariant == Spec => []SyncInv
<1>1. Init => SyncInv
  BY InitImpliesSyncInv
<1>2. SyncInv /\ [Next]_vars => SyncInv'
  BY NextPreservesSyncInv
<1>3. QED  BY <1>1, <1>2, PTL DEF Spec

\* Whatever syncs, commits, resets and aborts interleave, the head of the
\* destination never leads to a block that is not stored, nor to an object that
\* is not there unless a push gave its upload up.
THEOREM DestinationIsComplete == Spec => []DestinationComplete
<1>1. SyncInv => DestinationComplete
  BY DEF SyncInv, Complete, DestinationComplete
<1>2. QED  BY <1>1, SyncInvariant, PTL

\* A sync that is not forced continues the head that it read, and every sync
\* appends blocks whose predecessor is stored.
THEOREM SyncsKeepToTheChain == Spec => []TransferInv
<1>1. SyncInv => TransferInv
  <2> SUFFICES ASSUME SyncInv PROVE TransferInv
    OBVIOUS
  <2>1. UnforcedContinues
    BY DEF SyncInv, SessionInv, BatchInv, UnforcedContinues
  <2>2. BatchConnects
    <3> SUFFICES ASSUME NEW s \in Sessions
                 PROVE  LET blocks == session[s].blocks
                        IN  /\ \A i \in 1..(Len(blocks) - 1) : Front(blocks[i + 1]) = blocks[i]
                            /\ session[s].phase = "objects" /\ blocks # <<>>
                                 => Len(blocks[1]) = 1 \/ Front(blocks[1]) \in stored
      BY DEF BatchConnects
    <3>1. CASE session[s].phase \in {"idle", "load"}
      <4>1. session[s].blocks = <<>> /\ Len(<<>>) = 0
        BY <3>1 DEF SyncInv, SessionInv
      <4>2. QED  BY <3>1, <4>1
    <3>2. CASE session[s].phase \in {"create", "objects", "set"}
      BY <3>2 DEF SyncInv, SessionInv, BatchInv, RunOfBlocks
    <3>3. QED  BY <3>1, <3>2, Typing DEF SessionStates
  <2>3. QED  BY <2>1, <2>2 DEF TransferInv, SyncInv
<1>2. QED  BY <1>1, SyncInvariant, PTL

\* The comparison of sequence numbers and of single hashes finds what the whole
\* chains have in common, whatever has become of the two datasets.
THEOREM ComparisonIsExact == Spec => []ComparatorIsExact
<1>1. SyncInv => ComparatorIsExact
  <2> SUFFICES ASSUME SyncInv PROVE ComparatorIsExact
    OBVIOUS
  <2>1. src \in Seq(1..MaxId) /\ dst \in Seq(1..MaxId) /\ src # NoHead
    BY Typing DEF SourceChain, Chains
  <2>2. QED  BY <2>1, CompareChains DEF ComparatorIsExact
<1>2. QED  BY <1>1, SyncInvariant, PTL

=============================================================================
