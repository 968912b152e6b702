--------------------------- MODULE DatasetsProofs ----------------------------
(***************************************************************************)
(* Proofs about Datasets.                                                  *)
(***************************************************************************)
EXTENDS Datasets, SequenceLemmas, SequenceTheorems, FiniteSetTheorems

-----------------------------------------------------------------------------
(* Blocks and chains.                                                      *)

\* A block of a set of blocks is a block, whatever inputs the others have.
LEMMA BlockOf ==
  ASSUME NEW R, NEW I, NEW b \in Blocks(R, I)
  PROVE  IsBlock(b, R)
  BY DEF IsBlock, Blocks

\* The fields of a block.
LEMMA BlockFields ==
  ASSUME NEW R, NEW b, IsBlock(b, R)
  PROVE  /\ b.type \in BlockTypes /\ b.time \in Nat /\ b.prevOffset \in Int
         /\ b.start \in Int /\ b.data \in Seq(R) /\ b.prevCheckpoint \in Nat
         /\ b.newCheckpoint \in Nat /\ b.watermark \in Nat /\ b.sourceState \in Nat
<1>1. PICK I : b \in Blocks(R, I)
  BY DEF IsBlock
<1>2. QED  BY <1>1 DEF Blocks

\* The last offset of a block is not before the one it starts from.
LEMMA LastOffsetFacts ==
  ASSUME NEW R, NEW b, IsBlock(b, R)
  PROVE  /\ LastOffset(b) \in Int
         /\ (b.data # <<>> => b.start = b.prevOffset + 1) => b.prevOffset <= LastOffset(b)
<1>1. b.data \in Seq(R) /\ b.start \in Int /\ b.prevOffset \in Int
  BY BlockFields
<1>2. Len(b.data) \in Nat /\ (b.data # <<>> => Len(b.data) > 0)
  BY <1>1
<1>3. QED  BY <1>1, <1>2 DEF LastOffset

\* The inputs of a sequence of blocks are all that its type depends on.
LEMMA ChainOf ==
  ASSUME NEW R, NEW I, NEW c \in Seq(Blocks(R, I))
  PROVE  IsChain(c, R)
<1> DEFINE J == {c[i].input : i \in DOMAIN c}
<1>1. Len(c) \in Nat /\ DOMAIN c = 1..Len(c)
      /\ \A i \in 1..Len(c) : c[i] \in Blocks(R, I)
  OBVIOUS
<1>2. ASSUME NEW i \in 1..Len(c) PROVE c[i] \in Blocks(R, J)
  <2>1. c[i] \in Blocks(R, I) /\ c[i].input \in J
    BY <1>1
  <2> HIDE DEF J
  <2>2. QED  BY <2>1 DEF Blocks
<1>3. c = [i \in 1..Len(c) |-> c[i]]
  OBVIOUS
<1>4. c \in Seq(Blocks(R, J))
  <2> HIDE DEF J
  <2> QED  BY <1>1, <1>2, <1>3
<1>5. QED  BY <1>4 DEF IsChain

\* A chain is a sequence of blocks.
LEMMA ChainIsSeq ==
  ASSUME NEW R, NEW c, IsChain(c, R)
  PROVE  /\ Len(c) \in Nat /\ DOMAIN c = 1..Len(c)
         /\ c = <<>> <=> Len(c) = 0
         /\ \A i \in 1..Len(c) : IsBlock(c[i], R)
         /\ c \in Seq(Blocks(R, {c[i].input : i \in DOMAIN c}))
<1>1. PICK I : I = {c[i].input : i \in DOMAIN c}
  OBVIOUS
<1>2. c \in Seq(Blocks(R, I))
  BY <1>1 DEF IsChain
<1>3. \A i \in 1..Len(c) : IsBlock(c[i], R)
  BY <1>2, BlockOf
<1>4. QED  BY <1>1, <1>2, <1>3

\* Another way round: a sequence of blocks is a chain.
LEMMA SeqIsChain ==
  ASSUME NEW R, NEW S, NEW c \in Seq(S), \A i \in 1..Len(c) : IsBlock(c[i], R)
  PROVE  IsChain(c, R)
<1>1. PICK I : I = {c[i].input : i \in DOMAIN c}
  OBVIOUS
<1>2. ASSUME NEW i \in 1..Len(c) PROVE c[i] \in Blocks(R, I)
  <2>1. c[i] \in Blocks(R, {c[i].input}) /\ c[i].input \in I
    BY <1>1 DEF IsBlock
  <2>2. QED  BY <2>1 DEF Blocks
<1>3. c = [i \in 1..Len(c) |-> c[i]] /\ Len(c) \in Nat
  OBVIOUS
<1>4. c \in Seq(Blocks(R, I))
  BY <1>2, <1>3
<1>5. QED  BY <1>4, ChainOf

\* A chain grows by a block ...
LEMMA ChainAppend ==
  ASSUME NEW R, NEW c, IsChain(c, R), NEW b, IsBlock(b, R)
  PROVE  /\ IsChain(Append(c, b), R) /\ Append(c, b) # <<>>
         /\ Len(Append(c, b)) = Len(c) + 1
         /\ Append(c, b)[Len(c) + 1] = b
         /\ \A i \in 1..Len(c) : Append(c, b)[i] = c[i]
<1>1. PICK S : c \in Seq(S)
  BY ChainIsSeq
<1> DEFINE T == S \cup {b}
<1>2. c \in Seq(T) /\ b \in T
  BY <1>1
<1> HIDE DEF T
<1>3. /\ Append(c, b) \in Seq(T) /\ Append(c, b) # <<>> /\ Len(Append(c, b)) = Len(c) + 1
      /\ Append(c, b)[Len(c) + 1] = b
      /\ \A i \in 1..Len(c) : Append(c, b)[i] = c[i]
  BY <1>2, AppendFacts
<1>4. \A i \in 1..Len(Append(c, b)) : IsBlock(Append(c, b)[i], R)
  <2>1. Len(c) \in Nat /\ \A i \in 1..Len(c) : IsBlock(c[i], R)
    BY ChainIsSeq
  <2>2. QED  BY <1>3, <2>1
<1>5. QED  BY <1>3, <1>4, SeqIsChain

\* ... and its ancestors are chains.
LEMMA ChainPrefix ==
  ASSUME NEW R, NEW c, IsChain(c, R), NEW n \in 0..Len(c)
  PROVE  /\ IsChain(SubSeq(c, 1, n), R) /\ Len(SubSeq(c, 1, n)) = n
         /\ \A i \in 1..n : SubSeq(c, 1, n)[i] = c[i]
<1>1. PICK S : c \in Seq(S)
  BY ChainIsSeq
<1>0. Len(c) \in Nat /\ \A i \in 1..Len(c) : IsBlock(c[i], R)
  BY ChainIsSeq
<1>2. SubSeq(c, 1, n) \in Seq(S) /\ Len(SubSeq(c, 1, n)) = n
      /\ \A i \in 1..n : SubSeq(c, 1, n)[i] = c[i]
  BY <1>0, <1>1
<1>3. \A i \in 1..Len(SubSeq(c, 1, n)) : IsBlock(SubSeq(c, 1, n)[i], R)
  BY <1>0, <1>2
<1>4. IsChain(SubSeq(c, 1, n), R)
  BY <1>2, <1>3, SeqIsChain
<1>5. QED  BY <1>2, <1>4

-----------------------------------------------------------------------------
(* The searches of the visitors.                                           *)

\* LastOf finds the last block with a type of T, if there is one.
LEMMA LastOfFacts ==
  ASSUME NEW R, NEW c, IsChain(c, R), NEW T
  PROVE  /\ LastOf(c, T) \in 0..Len(c)
         /\ LastOf(c, T) # 0 => c[LastOf(c, T)].type \in T
         /\ \A j \in 1..Len(c) : j > LastOf(c, T) => c[j].type \notin T
<1>0. Len(c) \in Nat
  BY ChainIsSeq
<1>1. CASE \A i \in 1..Len(c) : c[i].type \notin T
  <2>1. LastOf(c, T) = 0
    BY <1>1 DEF LastOf
  <2>2. QED  BY <1>0, <1>1, <2>1
<1>2. CASE \E i \in 1..Len(c) : c[i].type \in T
  <2> DEFINE M == {m \in Nat : m <= Len(c) /\ \A j \in (m + 1)..Len(c) : c[j].type \notin T}
             IsLast(i) == c[i].type \in T /\ \A j \in (i + 1)..Len(c) : c[j].type \notin T
  <2>1. M \subseteq Nat /\ Len(c) \in M
    BY <1>0
  <2>2. PICK m \in M : \A n \in M : m <= n
    <3> HIDE DEF M
    <3> QED  BY <2>1, LeastNat
  <2>3. m # 0
    BY <1>0, <1>2
  <2>4. m \in 1..Len(c) /\ m - 1 \notin M
    <3>1. m \in 1..Len(c)
      BY <1>0, <2>3
    <3>2. m - 1 \in M => m <= m - 1
      <4> HIDE DEF M
      <4> QED  BY <2>2
    <3>3. QED  BY <3>1, <3>2
  <2>5. c[m].type \in T
    BY <1>0, <2>4
  <2>6. \E i \in 1..Len(c) : IsLast(i)
    BY <2>4, <2>5
  <2>7. LastOf(c, T) = CHOOSE i \in 1..Len(c) : IsLast(i)
    BY <1>2 DEF LastOf
  <2>8. LastOf(c, T) \in 1..Len(c) /\ IsLast(LastOf(c, T))
    <3> HIDE DEF IsLast
    <3> QED  BY <2>6, <2>7
  <2>9. QED  BY <1>0, <2>8
<1>3. QED  BY <1>1, <1>2

\* Has says whether there is a block of a type.
LEMMA HasFacts ==
  ASSUME NEW R, NEW c, IsChain(c, R), NEW t
  PROVE  Has(c, t) <=> \E i \in 1..Len(c) : c[i].type = t
<1>1. PICK k : k = LastOf(c, {t})
  OBVIOUS
<1>2. /\ k \in 0..Len(c) /\ (k # 0 => c[k].type \in {t})
      /\ \A j \in 1..Len(c) : j > k => c[j].type \notin {t}
  BY <1>1, LastOfFacts
<1>3. Len(c) \in Nat
  BY ChainIsSeq
<1>4. k # 0 <=> \E i \in 1..Len(c) : c[i].type = t
  BY <1>2, <1>3
<1>5. QED  BY <1>1, <1>4 DEF Has

-----------------------------------------------------------------------------
(* Sequential chains.                                                      *)

\* An ancestor of a sequential chain is sequential.
LEMMA SequentialPrefix ==
  ASSUME NEW R, NEW c, IsChain(c, R), Sequential(c), NEW n \in 0..Len(c)
  PROVE  Sequential(SubSeq(c, 1, n))
<1>1. PICK a : a = SubSeq(c, 1, n)
  OBVIOUS
<1>2. IsChain(a, R) /\ Len(a) = n /\ \A i \in 1..n : a[i] = c[i]
  BY <1>1, ChainPrefix
<1>3. 1..n \subseteq 1..Len(c)
  BY ChainIsSeq
<1>4. \A i \in 1..Len(a) : a[i].type = "Seed" <=> i = 1
  BY <1>2, <1>3 DEF Sequential
<1>5. \A t : Has(a, t) => Has(c, t)
  BY <1>2, <1>3, HasFacts
<1>6. \A i, j \in 1..Len(a) : i < j => Follows(a[j], a[i])
  BY <1>2, <1>3 DEF Sequential
<1>7. ~(Has(a, "AddPushSource") /\ Has(a, "SetPollingSource"))
  BY <1>5 DEF Sequential
<1>8. QED  BY <1>1, <1>4, <1>6, <1>7 DEF Sequential

\* The validators of append compare a block with the last block and with the
\* last data block only; that is enough for it to follow every block there is.
LEMMA SequentialAppend ==
  ASSUME NEW R, NEW c, IsChain(c, R), c # <<>>, Sequential(c),
         NEW b, IsBlock(b, R), ValidBlock(c, b)
  PROVE  Sequential(Append(c, b))
<1>0. PICK n : n = Len(c)
  OBVIOUS
<1>1. n \in Nat /\ n # 0 /\ \A i \in 1..n : IsBlock(c[i], R)
  <2>1. Len(c) \in Nat /\ \A i \in 1..Len(c) : IsBlock(c[i], R)
    BY ChainIsSeq
  <2>2. Len(c) # 0
    BY ChainIsSeq
  <2>3. QED  BY <1>0, <2>1, <2>2
<1>2. PICK a : a = Append(c, b)
  OBVIOUS
<1>3. IsChain(a, R) /\ Len(a) = n + 1 /\ a[n + 1] = b /\ \A i \in 1..n : a[i] = c[i]
  BY <1>0, <1>2, ChainAppend
<1>4. \A i \in 1..(n + 1) : i \in 1..n \/ i = n + 1
  BY <1>1
<1>5. ConsistentBlock(c, b)
  BY DEF ValidBlock
<1>6. \A i \in 1..Len(a) : a[i].type = "Seed" <=> i = 1
  <2>1. b.type # "Seed"
    BY <1>5 DEF ConsistentBlock, SeedBlockOrder
  <2>2. \A i \in 1..n : c[i].type = "Seed" <=> i = 1
    BY <1>0 DEF Sequential
  <2>3. QED  BY <1>1, <1>3, <1>4, <2>1, <2>2
<1>7. ~(Has(a, "AddPushSource") /\ Has(a, "SetPollingSource"))
  <2>1. \A t : Has(a, t) => Has(c, t) \/ b.type = t
    BY <1>0, <1>3, <1>4, HasFacts
  <2>2. ~(Has(c, "AddPushSource") /\ Has(c, "SetPollingSource"))
    BY DEF Sequential
  <2>3. OneKindOfSource(c, b)
    BY <1>5 DEF ConsistentBlock
  <2>4. QED  BY <2>1, <2>2, <2>3 DEF OneKindOfSource
<1>8. ASSUME NEW i \in 1..n PROVE Follows(b, c[i])
  <2>0. \A j, k \in 1..n : j < k => Follows(c[k], c[j])
    BY <1>0 DEF Sequential
  <2>1. c[i].time <= b.time
    <3>1. c[n].time <= b.time
      BY <1>0, <1>5 DEF ConsistentBlock, SystemTimeIsMonotonic
    <3>2. i = n \/ c[i].time <= c[n].time
      BY <1>1, <2>0 DEF Follows
    <3>3. c[i].time \in Nat /\ c[n].time \in Nat /\ b.time \in Nat
      <4>1. n \in 1..n
        BY <1>1
      <4>2. QED  BY <1>1, <4>1, BlockFields
    <3>4. QED  BY <3>1, <3>2, <3>3
  <2>2. ASSUME IsData(c[i]), IsData(b)
        PROVE  /\ c[i].watermark <= b.watermark
               /\ LastOffset(c[i]) <= b.prevOffset
               /\ b.data # <<>> => b.start = b.prevOffset + 1
    <3>1. PICK k : k = LastDataOf(c)
      OBVIOUS
    <3>2. k \in 1..n /\ IsData(c[k]) /\ i <= k
      <4>1. PICK T : T = {"AddData", "ExecuteTransform"}
        OBVIOUS
      <4>2. k = LastOf(c, T) /\ c[i].type \in T
        BY <2>2, <3>1, <4>1 DEF LastDataOf, IsData
      <4>3. k \in 0..n /\ (k # 0 => c[k].type \in T)
            /\ \A j \in 1..n : j > k => c[j].type \notin T
        BY <1>0, <4>2, LastOfFacts
      <4>4. i <= k /\ k # 0
        BY <1>1, <4>2, <4>3
      <4>5. QED  BY <1>1, <4>1, <4>3, <4>4 DEF IsData
    <3>3. WatermarkIsMonotonic(c, b) /\ OffsetsAreSequential(c, b)
      BY <1>5 DEF ConsistentBlock
    <3>4. c[k].watermark <= b.watermark
      BY <2>2, <3>1, <3>2, <3>3 DEF WatermarkIsMonotonic
    <3>5. b.prevOffset = LastOffset(c[k]) /\ (b.data # <<>> => b.start = b.prevOffset + 1)
      BY <2>2, <3>1, <3>2, <3>3 DEF OffsetsAreSequential
    <3>6. CASE i = k
      <4>1. LastOffset(c[k]) \in Int
        BY <1>1, <3>2, LastOffsetFacts
      <4>2. QED  BY <3>4, <3>5, <3>6, <4>1
    <3>7. CASE i # k
      <4>1. Follows(c[k], c[i])
        BY <1>1, <2>0, <3>2, <3>7
      <4>2. /\ c[i].watermark <= c[k].watermark
            /\ LastOffset(c[i]) <= c[k].prevOffset
            /\ c[k].data # <<>> => c[k].start = c[k].prevOffset + 1
        BY <2>2, <3>2, <4>1 DEF Follows
      <4>3. IsBlock(c[k], R) /\ IsBlock(c[i], R)
        BY <1>1, <3>2
      <4>4. c[k].prevOffset <= LastOffset(c[k]) /\ LastOffset(c[k]) \in Int
            /\ c[k].prevOffset \in Int
        BY <4>2, <4>3, LastOffsetFacts, BlockFields
      <4>5. LastOffset(c[i]) \in Int
        BY <4>3, LastOffsetFacts
      <4>6. c[i].watermark \in Nat /\ c[k].watermark \in Nat /\ b.watermark \in Nat
        BY <4>3, BlockFields
      <4>7. QED  BY <3>4, <3>5, <4>2, <4>4, <4>5, <4>6
    <3>8. QED  BY <3>6, <3>7
  <2>3. QED  BY <2>1, <2>2 DEF Follows
<1>9. \A i, j \in 1..Len(a) : i < j => Follows(a[j], a[i])
  <2>1. SUFFICES ASSUME NEW i \in 1..(n + 1), NEW j \in 1..(n + 1), i < j
                 PROVE  Follows(a[j], a[i])
    BY <1>3
  <2>2. i \in 1..n
    BY <1>1, <2>1
  <2>3. CASE j \in 1..n
    BY <1>0, <1>3, <2>1, <2>2, <2>3 DEF Sequential
  <2>4. CASE j = n + 1
    BY <1>3, <1>8, <2>2, <2>4
  <2>5. QED  BY <1>4, <2>3, <2>4
<1>10. QED  BY <1>2, <1>6, <1>7, <1>9 DEF Sequential

-----------------------------------------------------------------------------
(* The records of blocks, and the data blocks of a chain.                  *)

\* DataOf is what its recursive definition says.
LEMMA DataOfRecursion ==
  ASSUME NEW R, NEW s, IsChain(s, R)
  PROVE  \E f : /\ f[0] = <<>>
                /\ \A n \in 1..Len(s) : f[n] = f[n - 1] \o s[n].data
                /\ DataOf(s) = f[Len(s)]
<1>0. PICK N \in Nat : N = Len(s)
  BY ChainIsSeq
<1> DEFINE Def(f) == [i \in 0..N |-> IF i = 0 THEN <<>> ELSE f[i - 1] \o s[i].data]
           step == [i \in 1..N |-> [x \in Seq(R) |-> x \o s[i].data]]
<1>1. \A i \in 1..N : s[i].data \in Seq(R)
  BY <1>0, ChainIsSeq, BlockFields
<1>2. step \in [1..N -> [Seq(R) -> Seq(R)]] /\ <<>> \in Seq(R)
  BY <1>1, ConcatProperties
<1>3. PICK g \in [0..N -> Seq(R)] : g[0] = <<>> /\ \A n \in 1..N : g[n] = step[n][g[n - 1]]
  <2>1. PICK X, base : X = Seq(R) /\ base = <<>>
    OBVIOUS
  <2> HIDE DEF step
  <2>2. step \in [1..N -> [X -> X]] /\ base \in X
    BY <1>2, <2>1
  <2>3. \E g \in [0..N -> X] : g[0] = base /\ \A n \in 1..N : g[n] = step[n][g[n - 1]]
    BY <2>2, IntervalRecursion
  <2>4. QED  BY <2>1, <2>3
<1>4. \A n \in 1..N : g[n] = g[n - 1] \o s[n].data
  <2>1. ASSUME NEW n \in 1..N PROVE step[n][g[n - 1]] = g[n - 1] \o s[n].data
    <3>1. g[n - 1] \in Seq(R)
      OBVIOUS
    <3>2. QED  BY <3>1
  <2> HIDE DEF step
  <2>2. QED  BY <1>3, <2>1
<1>5. g = Def(g)
  <2>1. ASSUME NEW n \in 0..N PROVE g[n] = Def(g)[n]
    <3>1. CASE n = 0
      BY <1>3, <3>1
    <3>2. CASE n # 0
      <4>1. n \in 1..N
        BY <3>2
      <4>2. QED  BY <1>4, <3>2, <4>1
    <3>3. QED  BY <3>1, <3>2
  <2>2. QED  BY <2>1
<1>6. PICK f : f = Def(f) /\ f = CHOOSE h : h = Def(h)
  <2> HIDE DEF Def
  <2> QED  BY <1>5
<1>7. f[0] = <<>> /\ \A n \in 1..N : f[n] = f[n - 1] \o s[n].data
  BY <1>6
<1>8. DataOf(s) = f[N]
  BY <1>0, <1>6 DEF DataOf
<1>9. QED  BY <1>0, <1>7, <1>8

\* It is a sequence of records, and empty only if no block has any.
LEMMA DataOfFacts ==
  ASSUME NEW R, NEW s, IsChain(s, R)
  PROVE  /\ DataOf(s) \in Seq(R)
         /\ DataOf(s) = <<>> => \A i \in 1..Len(s) : s[i].data = <<>>
<1>0. PICK N \in Nat : N = Len(s)
  BY ChainIsSeq
<1>1. \A i \in 1..N : s[i].data \in Seq(R)
  BY <1>0, ChainIsSeq, BlockFields
<1>2. PICK f : /\ f[0] = <<>> /\ DataOf(s) = f[N]
               /\ \A n \in 1..N : f[n] = f[n - 1] \o s[n].data
  BY <1>0, DataOfRecursion
<1> DEFINE T == {n \in 0..N : f[n] \in Seq(R)
                               /\ (f[n] = <<>> => \A i \in 1..n : s[i].data = <<>>)}
<1>3. 0 \in T
  <2>1. <<>> \in Seq(R) /\ 0 \in 0..N /\ 1..0 = {}
    OBVIOUS
  <2>2. QED  BY <1>2, <2>1
<1>4. ASSUME NEW n \in 1..N, n - 1 \in T PROVE n \in T
  <2>1. f[n] = f[n - 1] \o s[n].data /\ f[n - 1] \in Seq(R) /\ s[n].data \in Seq(R)
    BY <1>1, <1>2, <1>4
  <2>2. f[n] \in Seq(R) /\ Len(f[n]) = Len(f[n - 1]) + Len(s[n].data)
    BY <2>1, ConcatProperties
  <2>3. ASSUME f[n] = <<>> PROVE f[n - 1] = <<>> /\ s[n].data = <<>>
    <3>1. Len(f[n]) = 0
      BY <2>3
    <3>2. PICK x \in Nat, y \in Nat : x = Len(f[n - 1]) /\ y = Len(s[n].data)
      BY <2>1
    <3>3. x + y = 0
      BY <2>2, <3>1, <3>2
    <3>4. x = 0 /\ y = 0
      BY <3>3
    <3>5. f[n - 1] = <<>>
      BY <2>1, <3>2, <3>4, EmptySeq
    <3>6. s[n].data = <<>>
      BY <2>1, <3>2, <3>4, EmptySeq
    <3>7. QED  BY <3>5, <3>6
  <2>4. ASSUME f[n] = <<>>, NEW i \in 1..n PROVE s[i].data = <<>>
    BY <1>4, <2>3, <2>4
  <2>5. QED  BY <2>2, <2>4
<1>5. \A n \in 0..N : n \in T
  <2> HIDE DEF T
  <2> QED  BY <1>3, <1>4, IntervalInduction
<1>6. N \in T
  BY <1>5
<1>7. QED  BY <1>0, <1>2, <1>6

\* DataBlocksAfter is what its recursive definition says.
LEMMA DataBlocksRecursion ==
  ASSUME NEW R, NEW c, IsChain(c, R), NEW n
  PROVE  \E f : /\ f[0] = <<>> /\ DataBlocksAfter(c, n) = f[Len(c)]
                /\ \A i \in 1..Len(c) :
                     f[i] = IF i > n /\ IsData(c[i]) THEN Append(f[i - 1], c[i]) ELSE f[i - 1]
<1>0. PICK N \in Nat : N = Len(c)
  BY ChainIsSeq
<1>1. PICK S : \A i \in 1..N : c[i] \in S
  <2>1. PICK S : S = {c[i] : i \in 1..N}
    OBVIOUS
  <2>2. QED  BY <2>1
<1> DEFINE Def(f) == [i \in 0..N |-> IF i = 0 THEN <<>>
                       ELSE IF i > n /\ IsData(c[i]) THEN Append(f[i - 1], c[i]) ELSE f[i - 1]]
           step == [i \in 1..N |-> [x \in Seq(S) |->
                       IF i > n /\ IsData(c[i]) THEN Append(x, c[i]) ELSE x]]
<1>2. step \in [1..N -> [Seq(S) -> Seq(S)]] /\ <<>> \in Seq(S)
  BY <1>1
<1>3. PICK g \in [0..N -> Seq(S)] : g[0] = <<>> /\ \A i \in 1..N : g[i] = step[i][g[i - 1]]
  <2>1. PICK X, base : X = Seq(S) /\ base = <<>>
    OBVIOUS
  <2> HIDE DEF step
  <2>2. step \in [1..N -> [X -> X]] /\ base \in X
    BY <1>2, <2>1
  <2>3. \E g \in [0..N -> X] : g[0] = base /\ \A i \in 1..N : g[i] = step[i][g[i - 1]]
    BY <2>2, IntervalRecursion
  <2>4. QED  BY <2>1, <2>3
<1>4. \A i \in 1..N : g[i] = IF i > n /\ IsData(c[i]) THEN Append(g[i - 1], c[i]) ELSE g[i - 1]
  <2>1. ASSUME NEW i \in 1..N
        PROVE  step[i][g[i - 1]] =
                 IF i > n /\ IsData(c[i]) THEN Append(g[i - 1], c[i]) ELSE g[i - 1]
    <3>1. g[i - 1] \in Seq(S)
      OBVIOUS
    <3>2. QED  BY <3>1
  <2> HIDE DEF step
  <2>2. QED  BY <1>3, <2>1
<1>5. g = Def(g)
  <2>1. ASSUME NEW i \in 0..N PROVE g[i] = Def(g)[i]
    <3>1. CASE i = 0
      BY <1>3, <3>1
    <3>2. CASE i # 0
      <4>1. i \in 1..N
        BY <3>2
      <4>2. QED  BY <1>4, <3>2, <4>1
    <3>3. QED  BY <3>1, <3>2
  <2>2. QED  BY <2>1
<1>6. PICK f : f = Def(f) /\ f = CHOOSE h : h = Def(h)
  <2> HIDE DEF Def
  <2> QED  BY <1>5
<1>7. /\ f[0] = <<>>
      /\ \A i \in 1..N :
           f[i] = IF i > n /\ IsData(c[i]) THEN Append(f[i - 1], c[i]) ELSE f[i - 1]
  <2>1. f[0] = <<>>
    BY <1>6
  <2>2. ASSUME NEW i \in 1..N
        PROVE  f[i] = IF i > n /\ IsData(c[i]) THEN Append(f[i - 1], c[i]) ELSE f[i - 1]
    <3>1. i \in 0..N /\ i # 0
      OBVIOUS
    <3>2. f[i] = Def(f)[i]
      BY <1>6
    <3>3. QED  BY <3>1, <3>2
  <2>3. QED  BY <2>1, <2>2
<1>8. DataBlocksAfter(c, n) = f[N]
  BY <1>0, <1>6 DEF DataBlocksAfter
<1>9. QED  BY <1>0, <1>7, <1>8

\* In a sequential chain the last of them has the latest watermark.
LEMMA DataBlocksFacts ==
  ASSUME NEW R, NEW c, IsChain(c, R), Sequential(c), NEW n, NEW k, k = DataBlocksAfter(c, n)
  PROVE  /\ IsChain(k, R) /\ (c = <<>> => k = <<>>)
         /\ \A i \in 1..Len(k) : k[i].watermark <= k[Len(k)].watermark
<1>0. PICK N \in Nat : N = Len(c)
  BY ChainIsSeq
<1>1. PICK f : /\ f[0] = <<>> /\ k = f[N]
               /\ \A i \in 1..N :
                    f[i] = IF i > n /\ IsData(c[i]) THEN Append(f[i - 1], c[i]) ELSE f[i - 1]
  BY <1>0, DataBlocksRecursion
<1> DEFINE Good(s, m) ==
             /\ IsChain(s, R)
             /\ \A i \in 1..Len(s) : \E p \in 1..m : s[i] = c[p] /\ IsData(c[p])
             /\ \A i \in 1..Len(s) : s[i].watermark <= s[Len(s)].watermark
           T == {m \in 0..N : Good(f[m], m)}
<1>2. 0 \in T
  <2>1. <<>> \in Seq(Blocks(R, {})) /\ Len(<<>>) = 0
    OBVIOUS
  <2>2. IsChain(<<>>, R)
    BY <2>1, ChainOf
  <2>3. QED  BY <1>1, <2>1, <2>2
<1>3. ASSUME NEW m \in 1..N, m - 1 \in T PROVE m \in T
  <2>1. Good(f[m - 1], m - 1)
    BY <1>3
  <2>2. IsBlock(c[m], R)
    BY <1>0, ChainIsSeq
  <2>3. CASE m > n /\ IsData(c[m])
    <3>1. PICK s : s = f[m - 1]
      OBVIOUS
    <3>2. f[m] = Append(s, c[m])
      BY <1>1, <2>3, <3>1
    <3>3. PICK a : a = Append(s, c[m])
      OBVIOUS
    <3>4. /\ IsChain(a, R) /\ Len(a) = Len(s) + 1 /\ a[Len(s) + 1] = c[m]
          /\ \A i \in 1..Len(s) : a[i] = s[i]
      BY <2>1, <2>2, <3>1, <3>3, ChainAppend
    <3>5. Len(s) \in Nat
      BY <2>1, <3>1, ChainIsSeq
    <3>6. ASSUME NEW i \in 1..Len(s)
          PROVE  s[i].watermark <= c[m].watermark /\ \E p \in 1..m : s[i] = c[p] /\ IsData(c[p])
      <4>1. PICK p \in 1..(m - 1) : s[i] = c[p] /\ IsData(c[p])
        BY <2>1, <3>1
      <4>2. p \in 1..Len(c) /\ m \in 1..Len(c) /\ p < m /\ p \in 1..m
        BY <1>0
      <4>3. Follows(c[m], c[p])
        BY <4>2 DEF Sequential
      <4>4. QED  BY <2>3, <4>1, <4>2, <4>3 DEF Follows
    <3>7. \A i \in 1..Len(a) : \E p \in 1..m : a[i] = c[p] /\ IsData(c[p])
      BY <2>3, <3>4, <3>5, <3>6
    <3>8. \A i \in 1..Len(a) : a[i].watermark <= a[Len(a)].watermark
      <4>1. c[m].watermark \in Nat
        BY <2>2, BlockFields
      <4>2. QED  BY <3>4, <3>5, <3>6, <4>1
    <3>9. Good(a, m)
      BY <3>4, <3>7, <3>8
    <3>10. m \in 0..N
      OBVIOUS
    <3>11. QED
      <4> HIDE DEF Good
      <4> QED  BY <3>2, <3>3, <3>9, <3>10
  <2>4. CASE ~(m > n /\ IsData(c[m]))
    <3>1. f[m] = f[m - 1]
      BY <1>1, <2>4
    <3>2. 1..(m - 1) \subseteq 1..m
      OBVIOUS
    <3>3. Good(f[m], m)
      BY <2>1, <3>1, <3>2
    <3>4. QED  BY <3>3
  <2>5. QED  BY <2>3, <2>4
<1>4. \A m \in 0..N : m \in T
  <2> HIDE DEF T
  <2> QED  BY <1>2, <1>3, IntervalInduction
<1>5. Good(k, N)
  BY <1>1, <1>4
<1>6. c = <<>> => k = <<>>
  BY <1>0, <1>1
<1>7. QED  BY <1>5, <1>6
-----------------------------------------------------------------------------
(* Compaction.                                                             *)

\* What gather_chain_info has in hand.
Batch(R, I) == [slices : Seq(Blocks(R, I)), watermark : Nat, sourceState : Nat,
                newCheckpoint : Nat]
Gathered(R, I) == [batches : Seq(Blocks(R, I)), info : Batch(R, I), records : Nat]

\* Reverse has the same elements.
LEMMA ReverseFacts ==
  ASSUME NEW S, NEW s \in Seq(S)
  PROVE  /\ Reverse(s) \in Seq(S) /\ Len(Reverse(s)) = Len(s) /\ DOMAIN Reverse(s) = 1..Len(s)
         /\ \A i \in 1..Len(s) : Reverse(s)[i] \in S
<1>1. \A i \in 1..Len(s) : (Len(s) - i) + 1 \in 1..Len(s)
  OBVIOUS
<1>2. QED  BY <1>1 DEF Reverse

\* A batch becomes a block.
LEMMA BatchFacts ==
  ASSUME NEW R, NEW I, NEW batches \in Seq(Blocks(R, I)), NEW info \in Batch(R, I)
  PROVE  append_add_data_batch(batches, info) \in Seq(Blocks(R, I))
<1>1. PICK s \in Seq(Blocks(R, I)) : s = info.slices
  BY DEF Batch
<1>2. CASE Len(s) = 0
  BY <1>1, <1>2 DEF append_add_data_batch
<1>3. CASE Len(s) = 1
  <2>1. s[1] \in Blocks(R, I)
    <3>1. 1 \in 1..Len(s)
      BY <1>3
    <3>2. QED  BY <3>1, ElementOfSeq
  <2>2. append_add_data_batch(batches, info) = Append(batches, s[1])
    BY <1>1, <1>3 DEF append_add_data_batch
  <2>3. QED  BY <2>1, <2>2, AppendFacts
<1>4. CASE Len(s) # 0 /\ Len(s) # 1
  <2>1. PICK b \in Blocks(R, I) : b = Last(s)
    BY <1>4 DEF Last
  <2>2. DataOf(Reverse(s)) \in Seq(R)
    BY ReverseFacts, ChainOf, DataOfFacts
  <2>3. PICK data \in Seq(R) : data = DataOf(Reverse(s))
    BY <2>2
  <2>4. info.watermark \in Nat /\ info.sourceState \in Nat /\ info.newCheckpoint \in Nat
    BY DEF Batch
  <2>5. PICK m : m = [b EXCEPT !.data = data, !.watermark = info.watermark,
                              !.sourceState = info.sourceState,
                              !.newCheckpoint = info.newCheckpoint]
    OBVIOUS
  <2>6. m \in Blocks(R, I)
    BY <2>4, <2>5 DEF Blocks
  <2>7. append_add_data_batch(batches, info) = Append(batches, m)
    BY <1>1, <1>4, <2>1, <2>3, <2>5 DEF append_add_data_batch
  <2>8. QED  BY <2>6, <2>7
<1>5. QED  BY <1>2, <1>3, <1>4

\* A batch stays a batch when it takes the bounds of a newer block.
LEMMA BoundsFacts ==
  ASSUME NEW R, NEW I, NEW info \in Batch(R, I), NEW b \in Blocks(R, I)
  PROVE  WithUpperBounds(info, b) \in Batch(R, I)
<1>1. /\ b.watermark \in Nat /\ b.sourceState \in Nat /\ b.newCheckpoint \in Nat
  BY DEF Blocks
<1>2. QED  BY <1>1 DEF Batch, WithUpperBounds, Or

\* One block of the walk.
LEMMA GatherFacts ==
  ASSUME NEW R, NEW I, NEW g \in Gathered(R, I), NEW b \in Blocks(R, I), NEW keep
  PROVE  GatherBlock(g, b, keep) \in Gathered(R, I)
<1>1. g.batches \in Seq(Blocks(R, I)) /\ g.info \in Batch(R, I) /\ g.records \in Nat
  BY DEF Gathered
<1>2. b.data \in Seq(R) /\ Len(b.data) \in Nat
  BY DEF Blocks
<1>3. EmptyBatch \in Batch(R, I)
  BY DEF EmptyBatch, Batch
<1>4. append_add_data_batch(g.batches, g.info) \in Seq(Blocks(R, I))
  BY <1>1, BatchFacts
<1>5. [g EXCEPT !.info = WithUpperBounds(@, b)] \in Gathered(R, I)
  <2>1. PICK i \in Batch(R, I) : i = WithUpperBounds(g.info, b)
    BY <1>1, BoundsFacts
  <2>2. [g EXCEPT !.info = i] \in Gathered(R, I)
    BY DEF Gathered
  <2>3. QED  BY <2>1, <2>2
<1>6. GatherData(g, b) \in Gathered(R, I)
  <2>1. PICK full : full = (g.records + Len(b.data) > MaxSliceRecords)
    OBVIOUS
  <2>2. PICK base \in Batch(R, I) :
          base = IF full /\ g.info.slices # <<>> THEN EmptyBatch ELSE g.info
    BY <1>1, <1>3
  <2>3. PICK i \in Batch(R, I) :
          i = [base EXCEPT !.slices = IF full THEN <<b>> ELSE Append(@, b)]
    <3>1. base.slices \in Seq(Blocks(R, I))
      BY DEF Batch
    <3>2. Append(base.slices, b) \in Seq(Blocks(R, I)) /\ <<b>> \in Seq(Blocks(R, I))
      BY <3>1, AppendFacts
    <3>3. PICK x \in Seq(Blocks(R, I)) : x = IF full THEN <<b>> ELSE Append(base.slices, b)
      BY <3>2
    <3>4. [base EXCEPT !.slices = x] \in Batch(R, I)
      BY DEF Batch
    <3>5. QED  BY <3>3, <3>4
  <2>4. PICK j \in Batch(R, I) : j = WithUpperBounds(i, b)
    BY BoundsFacts
  <2>5. GatherData(g, b) =
          [batches |-> IF full THEN append_add_data_batch(g.batches, g.info) ELSE g.batches,
           info    |-> j,
           records |-> IF full THEN Len(b.data) ELSE g.records + Len(b.data)]
    BY <2>1, <2>2, <2>3, <2>4 DEF GatherData
  <2>6. QED  BY <1>1, <1>2, <1>4, <2>5 DEF Gathered
<1>7. GatherOther(g, b) \in Gathered(R, I)
  <2>1. PICK batches \in Seq(Blocks(R, I)) :
          batches = Append(append_add_data_batch(g.batches, g.info), b)
    BY <1>4, AppendFacts
  <2>2. PICK i \in Batch(R, I) : i = IF g.info.slices # <<>> THEN EmptyBatch ELSE g.info
    BY <1>1, <1>3
  <2>3. [g EXCEPT !.batches = batches, !.info = i] \in Gathered(R, I)
    BY DEF Gathered
  <2>4. GatherOther(g, b) = [g EXCEPT !.batches = batches, !.info = i]
    BY <2>1, <2>2 DEF GatherOther
  <2>5. QED  BY <2>3, <2>4
<1>8. QED  BY <1>5, <1>6, <1>7 DEF GatherBlock

\* gather_chain_info is what its recursive definition says.
LEMMA GatherRecursion ==
  ASSUME NEW R, NEW I, NEW c \in Seq(Blocks(R, I)), NEW keep
  PROVE  \E f : /\ f[0] = [batches |-> <<>>, info |-> EmptyBatch, records |-> 0]
                /\ \A n \in 1..Len(c) : f[n] = GatherBlock(f[n - 1], Reverse(c)[n], keep)
                /\ \A n \in 0..Len(c) : f[n] \in Gathered(R, I)
                /\ gather_chain_info(c, keep) = f[Len(c)].batches
<1>0. PICK N \in Nat : N = Len(c)
  OBVIOUS
<1>1. PICK r : r = Reverse(c)
  OBVIOUS
<1>2. \A n \in 1..N : r[n] \in Blocks(R, I)
  BY <1>0, <1>1, ReverseFacts
<1>3. PICK base : base = [batches |-> <<>>, info |-> EmptyBatch, records |-> 0]
  OBVIOUS
<1>4. base \in Gathered(R, I)
  BY <1>3 DEF Gathered, Batch, EmptyBatch
<1>5. PICK X : X = Gathered(R, I)
  OBVIOUS
<1> DEFINE Def(f) == [n \in 0..N |-> IF n = 0 THEN base ELSE GatherBlock(f[n - 1], r[n], keep)]
           step == [n \in 1..N |-> [x \in X |-> GatherBlock(x, r[n], keep)]]
<1>6. \A n \in 1..N : \A x \in X : GatherBlock(x, r[n], keep) \in X
  BY <1>2, <1>5, GatherFacts
<1>7. step \in [1..N -> [X -> X]] /\ base \in X
  BY <1>4, <1>5, <1>6
<1>8. PICK g \in [0..N -> X] : g[0] = base /\ \A n \in 1..N : g[n] = step[n][g[n - 1]]
  <2> HIDE DEF step
  <2> QED  BY <1>7, IntervalRecursion
<1>9. \A n \in 1..N : g[n] = GatherBlock(g[n - 1], r[n], keep)
  <2>1. ASSUME NEW n \in 1..N PROVE step[n][g[n - 1]] = GatherBlock(g[n - 1], r[n], keep)
    <3>1. g[n - 1] \in X
      OBVIOUS
    <3>2. QED  BY <3>1
  <2> HIDE DEF step
  <2>2. QED  BY <1>8, <2>1
<1>10. g = Def(g)
  <2>1. ASSUME NEW n \in 0..N PROVE g[n] = Def(g)[n]
    <3>1. CASE n = 0
      BY <1>8, <3>1
    <3>2. CASE n # 0
      <4>1. n \in 1..N
        BY <3>2
      <4>2. QED  BY <1>9, <3>2, <4>1
    <3>3. QED  BY <3>1, <3>2
  <2>2. QED  BY <2>1
<1>11. PICK f : f = Def(f) /\ f = CHOOSE h : h = Def(h)
  <2> HIDE DEF Def
  <2> QED  BY <1>10
<1>12. f[0] = base
  BY <1>11
<1>13. ASSUME NEW n \in 1..N PROVE f[n] = GatherBlock(f[n - 1], r[n], keep)
  <2>1. n \in 0..N /\ n # 0
    OBVIOUS
  <2>2. f[n] = Def(f)[n]
    BY <1>11
  <2>3. QED  BY <2>1, <2>2
<1> DEFINE T == {n \in 0..N : f[n] \in X}
<1>14. 0 \in T
  BY <1>4, <1>5, <1>12
<1>15. ASSUME NEW n \in 1..N, n - 1 \in T PROVE n \in T
  <2>1. n \in 0..N /\ f[n - 1] \in X
    BY <1>15
  <2>2. QED  BY <1>6, <1>13, <2>1
<1>16. \A n \in 0..N : n \in T
  <2> HIDE DEF T
  <2> QED  BY <1>14, <1>15, IntervalInduction
<1>17. gather_chain_info(c, keep) = f[N].batches
  <2>1. PICK h : h = CHOOSE walk : walk = Def(walk)
    OBVIOUS
  <2>2. gather_chain_info(c, keep) = h[N].batches
    BY <1>0, <1>1, <1>3, <2>1 DEF gather_chain_info
  <2>3. QED
    <3> HIDE DEF Def
    <3> QED  BY <1>11, <2>1, <2>2
<1>18. \A n \in 0..N : f[n] \in Gathered(R, I)
  BY <1>5, <1>16
<1>19. QED
  <2> HIDE DEF T, Def, step
  <2> QED  BY <1>0, <1>1, <1>3, <1>12, <1>13, <1>17, <1>18

\* The events of the new chain are blocks.
LEMMA GatherChainFacts ==
  ASSUME NEW R, NEW I, NEW c \in Seq(Blocks(R, I)), NEW keep
  PROVE  gather_chain_info(c, keep) \in Seq(Blocks(R, I))
<1>1. PICK f : /\ \A n \in 0..Len(c) : f[n] \in Gathered(R, I)
               /\ gather_chain_info(c, keep) = f[Len(c)].batches
  BY GatherRecursion
<1>2. f[Len(c)] \in Gathered(R, I)
  BY <1>1
<1>3. QED  BY <1>1, <1>2 DEF Gathered

\* The blocks that are kept when only metadata are.
Kept(b) == ~IsData(b) /\ b.type # "Seed"
OnlyMetadata(keep) == keep = TRUE

\* One block of that walk: no batch is ever begun.
LEMMA KeepStep ==
  ASSUME NEW R, NEW I, NEW g \in Gathered(R, I), g.info.slices = <<>>, NEW b \in Blocks(R, I),
         NEW keep, OnlyMetadata(keep)
  PROVE  /\ GatherBlock(g, b, keep).info.slices = <<>>
         /\ Kept(b) => GatherBlock(g, b, keep).batches = Append(g.batches, b)
         /\ ~Kept(b) => GatherBlock(g, b, keep).batches = g.batches
<1>1. g.info \in Batch(R, I)
  BY DEF Gathered
<1>2. CASE b.type = "AddData"
  <2>1. PICK i \in Batch(R, I) : i = WithUpperBounds(g.info, b)
    BY <1>1, BoundsFacts
  <2>2. i.slices = <<>>
    BY <1>1, <2>1 DEF WithUpperBounds, Batch
  <2>3. GatherBlock(g, b, keep) = [g EXCEPT !.info = i]
    BY <1>2, <2>1 DEF GatherBlock, OnlyMetadata
  <2>4. GatherBlock(g, b, keep).info = i /\ GatherBlock(g, b, keep).batches = g.batches
    BY <2>3 DEF Gathered
  <2>5. QED  BY <1>2, <2>2, <2>4 DEF Kept, IsData
<1>3. CASE b.type \in {"Seed", "ExecuteTransform"}
  BY <1>3 DEF GatherBlock, Kept, IsData
<1>4. CASE b.type \notin {"AddData", "Seed", "ExecuteTransform"}
  <2>1. append_add_data_batch(g.batches, g.info) = g.batches
    BY DEF append_add_data_batch
  <2>2. GatherBlock(g, b, keep) = GatherOther(g, b)
    BY <1>4 DEF GatherBlock
  <2>3. PICK batches : batches = Append(g.batches, b)
    OBVIOUS
  <2>4. GatherOther(g, b) = [g EXCEPT !.batches = batches, !.info = g.info]
    BY <2>1, <2>3 DEF GatherOther
  <2>5. GatherOther(g, b).info = g.info /\ GatherOther(g, b).batches = batches
    BY <2>4 DEF Gathered
  <2>6. QED  BY <1>4, <2>2, <2>3, <2>5 DEF Kept, IsData
<1>5. QED  BY <1>2, <1>3, <1>4

\* All the blocks to keep and no other, of which there are so many less.
MetadataOf(c, g) ==
  /\ \A i \in 1..Len(g) : \E j \in 1..Len(c) : g[i] = c[j] /\ Kept(c[j])
  /\ \A j \in 1..Len(c) : Kept(c[j]) => \E i \in 1..Len(g) : g[i] = c[j]
  /\ \A j, k \in 1..Len(c) : j # k /\ ~Kept(c[j]) /\ ~Kept(c[k]) => Len(g) <= Len(c) - 2

\* If only metadata are kept then the walk finds every block of metadata but the
\* Seed, and no other.
LEMMA KeepsMetadata ==
  ASSUME NEW R, NEW I, NEW c \in Seq(Blocks(R, I)), NEW keep, OnlyMetadata(keep),
         NEW g, g = gather_chain_info(c, keep)
  PROVE  MetadataOf(c, g)
<1>0. PICK N \in Nat : N = Len(c)
  OBVIOUS
<1>1. PICK r : r = Reverse(c)
  OBVIOUS
<1>2. \A n \in 1..N : r[n] \in Blocks(R, I) /\ r[n] = c[(N - n) + 1]
  <2>1. \A n \in 1..N : r[n] = c[(N - n) + 1]
    BY <1>0, <1>1 DEF Reverse
  <2>2. QED  BY <1>0, <1>1, <2>1, ReverseFacts
<1>3. PICK f : /\ f[0] = [batches |-> <<>>, info |-> EmptyBatch, records |-> 0]
               /\ \A n \in 1..N : f[n] = GatherBlock(f[n - 1], r[n], keep)
               /\ \A n \in 0..N : f[n] \in Gathered(R, I)
               /\ g = f[N].batches
  <2>1. \E f : /\ f[0] = [batches |-> <<>>, info |-> EmptyBatch, records |-> 0]
               /\ \A n \in 1..Len(c) : f[n] = GatherBlock(f[n - 1], Reverse(c)[n], keep)
               /\ \A n \in 0..Len(c) : f[n] \in Gathered(R, I)
               /\ gather_chain_info(c, keep) = f[Len(c)].batches
    BY GatherRecursion
  <2>2. QED  BY <1>0, <1>1, <2>1
<1> DEFINE Only(x, n) == \A i \in 1..Len(x) : \E j \in 1..n : x[i] = r[j] /\ Kept(r[j])
           All(x, n) == \A j \in 1..n : Kept(r[j]) => \E i \in 1..Len(x) : x[i] = r[j]
           Short(x, n) == /\ Len(x) <= n
                          /\ \A j \in 1..n : ~Kept(r[j]) => Len(x) <= n - 1
                          /\ \A j, k \in 1..n : j < k /\ ~Kept(r[j]) /\ ~Kept(r[k])
                                                   => Len(x) <= n - 2
           T == {n \in 0..N : /\ f[n].info.slices = <<>>
                               /\ Only(f[n].batches, n) /\ All(f[n].batches, n)
                               /\ Short(f[n].batches, n)}
<1>4. 0 \in T
  <2>1. f[0].info.slices = <<>> /\ f[0].batches = <<>> /\ Len(<<>>) = 0
    BY <1>3 DEF EmptyBatch
  <2>2. Only(<<>>, 0) /\ All(<<>>, 0) /\ Short(<<>>, 0)
    BY <2>1
  <2> HIDE DEF Only, All, Short
  <2>3. QED  BY <2>1, <2>2
<1>5. ASSUME NEW n \in 1..N, n - 1 \in T PROVE n \in T
  <2>1. PICK x : x = f[n - 1].batches
    OBVIOUS
  <2>2. f[n - 1].info.slices = <<>> /\ Only(x, n - 1) /\ All(x, n - 1) /\ Short(x, n - 1)
    BY <1>5, <2>1
  <2>3. PICK b : b = r[n] /\ b \in Blocks(R, I)
    BY <1>2
  <2>4. n - 1 \in 0..N /\ n \in 0..N
    OBVIOUS
  <2>5. f[n - 1] \in Gathered(R, I) /\ f[n] = GatherBlock(f[n - 1], b, keep)
    BY <1>3, <2>3, <2>4
  <2>6. x \in Seq(Blocks(R, I))
    BY <2>1, <2>5 DEF Gathered
  <2>7. PICK y : y = f[n].batches
    OBVIOUS
  <2>8. /\ f[n].info.slices = <<>> /\ (Kept(b) => y = Append(x, b)) /\ (~Kept(b) => y = x)
    <3>1. PICK p : p = f[n - 1]
      OBVIOUS
    <3>2. p \in Gathered(R, I) /\ p.info.slices = <<>> /\ b \in Blocks(R, I)
      BY <2>2, <2>3, <2>5, <3>1
    <3>3. /\ GatherBlock(p, b, keep).info.slices = <<>>
          /\ Kept(b) => GatherBlock(p, b, keep).batches = Append(p.batches, b)
          /\ ~Kept(b) => GatherBlock(p, b, keep).batches = p.batches
      BY <3>2, KeepStep
    <3>4. p.batches = x /\ f[n] = GatherBlock(p, b, keep)
      BY <2>1, <2>5, <3>1
    <3>5. QED  BY <2>7, <3>3, <3>4
  <2>9. /\ \A j \in 1..n : j \in 1..(n - 1) \/ j = n
        /\ \A j \in 1..(n - 1) : j \in 1..n
        /\ n \in 1..n
    OBVIOUS
  <2>10. Only(y, n) /\ All(y, n) /\ Short(y, n)
    <3>0. Len(x) \in Nat
      BY <2>6
    <3>1. CASE Kept(b)
      <4>1. /\ Len(y) = Len(x) + 1 /\ y[Len(x) + 1] = b
            /\ \A i \in 1..Len(x) : y[i] = x[i]
        BY <2>3, <2>6, <2>8, <3>1, AppendFacts
      <4>2. \A i \in 1..Len(y) : i \in 1..Len(x) \/ i = Len(x) + 1
        BY <3>0, <4>1
      <4>3. \A i \in 1..Len(x) : i \in 1..Len(y)
        BY <3>0, <4>1
      <4>4. Len(x) + 1 \in 1..Len(y)
        BY <3>0, <4>1
      <4>5. Only(y, n)
        <5>1. ASSUME NEW i \in 1..Len(y) PROVE \E j \in 1..n : y[i] = r[j] /\ Kept(r[j])
          <6>1. CASE i = Len(x) + 1
            <7>1. y[i] = r[n] /\ Kept(r[n])
              BY <2>3, <3>1, <4>1, <6>1
            <7>2. QED  BY <2>9, <7>1
          <6>2. CASE i \in 1..Len(x)
            <7>1. PICK j \in 1..(n - 1) : x[i] = r[j] /\ Kept(r[j])
              BY <2>2, <6>2
            <7>2. j \in 1..n /\ y[i] = r[j]
              BY <2>9, <4>1, <6>2, <7>1
            <7>3. QED  BY <7>1, <7>2
          <6>3. QED  BY <4>2, <6>1, <6>2
        <5>2. QED  BY <5>1
      <4>6. All(y, n)
        BY <2>2, <2>3, <2>9, <4>1, <4>3, <4>4
      <4>7. Short(y, n)
        <5>1. Len(y) <= n
          BY <2>2, <3>0, <4>1
        <5>2. ASSUME NEW j \in 1..n, ~Kept(r[j]) PROVE Len(y) <= n - 1 /\ j \in 1..(n - 1)
          <6>1. j \in 1..(n - 1)
            BY <2>3, <2>9, <3>1, <5>2
          <6>2. Len(x) <= (n - 1) - 1
            BY <2>2, <5>2, <6>1
          <6>3. QED  BY <3>0, <4>1, <6>1, <6>2
        <5>3. ASSUME NEW j \in 1..n, NEW k \in 1..n, j < k, ~Kept(r[j]), ~Kept(r[k])
              PROVE  Len(y) <= n - 2
          <6>1. j \in 1..(n - 1) /\ k \in 1..(n - 1)
            BY <5>2, <5>3
          <6>2. Len(x) <= (n - 1) - 2
            BY <2>2, <5>3, <6>1
          <6>3. QED  BY <3>0, <4>1, <6>2
        <5>4. QED  BY <5>1, <5>2, <5>3
      <4>8. QED
        <5> HIDE DEF Only, All, Short
        <5> QED  BY <4>5, <4>6, <4>7
    <3>2. CASE ~Kept(b)
      <4>1. y = x
        BY <2>8, <3>2
      <4>2. Only(y, n)
        BY <2>2, <2>9, <4>1
      <4>3. All(y, n)
        BY <2>2, <2>3, <2>9, <3>2, <4>1
      <4>4. Short(y, n)
        <5>1. Len(y) <= n - 1
          BY <2>2, <4>1
        <5>2. ASSUME NEW j \in 1..n, NEW k \in 1..n, j < k, ~Kept(r[j]), ~Kept(r[k])
              PROVE  Len(y) <= n - 2
          <6>1. j \in 1..(n - 1)
            BY <5>2
          <6>2. Len(x) <= (n - 1) - 1
            BY <2>2, <5>2, <6>1
          <6>3. QED  BY <3>0, <4>1, <6>2
        <5>3. Len(y) <= n
          BY <3>0, <4>1, <5>1
        <5>4. QED  BY <5>1, <5>2, <5>3
      <4>5. QED
        <5> HIDE DEF Only, All, Short
        <5> QED  BY <4>2, <4>3, <4>4
    <3>3. QED  BY <3>1, <3>2
  <2>11. QED
    <3> HIDE DEF Only, All, Short
    <3> QED  BY <2>4, <2>7, <2>8, <2>10
<1>6. \A n \in 0..N : n \in T
  <2> HIDE DEF T
  <2> QED  BY <1>4, <1>5, IntervalInduction
<1>7. Only(g, N) /\ All(g, N) /\ Short(g, N)
  <2> HIDE DEF Only, All, Short
  <2>1. N \in T
    <3> HIDE DEF T
    <3> QED  BY <1>6
  <2>2. QED  BY <1>3, <2>1
<1>8. /\ \A j \in 1..N : (N - j) + 1 \in 1..N /\ (N - ((N - j) + 1)) + 1 = j
      /\ \A j \in 1..N : r[(N - j) + 1] = c[j]
  <2>1. \A j \in 1..N : (N - j) + 1 \in 1..N /\ (N - ((N - j) + 1)) + 1 = j
    OBVIOUS
  <2>2. QED  BY <1>2, <2>1
<1>9. ASSUME NEW i \in 1..Len(g) PROVE \E j \in 1..N : g[i] = c[j] /\ Kept(c[j])
  <2>1. PICK j \in 1..N : g[i] = r[j] /\ Kept(r[j])
    BY <1>7
  <2>2. PICK k \in 1..N : k = (N - j) + 1
    BY <1>8
  <2>3. r[j] = c[k]
    BY <1>2, <2>2
  <2>4. QED  BY <2>1, <2>3
<1>10. ASSUME NEW j \in 1..N, Kept(c[j]) PROVE \E i \in 1..Len(g) : g[i] = c[j]
  <2>1. PICK k \in 1..N : k = (N - j) + 1
    BY <1>8
  <2>2. r[k] = c[j]
    BY <1>8, <2>1
  <2>3. \E i \in 1..Len(g) : g[i] = r[k]
    BY <1>7, <1>10, <2>2
  <2>4. QED  BY <2>2, <2>3
<1>11. ASSUME NEW j \in 1..N, NEW k \in 1..N, j # k, ~Kept(c[j]), ~Kept(c[k])
       PROVE  Len(g) <= N - 2
  <2>1. PICK a \in 1..N, b \in 1..N : a = (N - j) + 1 /\ b = (N - k) + 1
    BY <1>8
  <2>2. ~Kept(r[a]) /\ ~Kept(r[b]) /\ a # b
    BY <1>8, <1>11, <2>1
  <2>3. a < b \/ b < a
    BY <2>2
  <2>4. QED  BY <1>7, <2>2, <2>3
<1>12. QED  BY <1>0, <1>9, <1>10, <1>11 DEF MetadataOf

\* The new chain is a chain on top of the old Seed ...
LEMMA CompactedFacts ==
  ASSUME NEW R, NEW c, IsChain(c, R), c # <<>>, NEW keep, NEW t \in Nat
  PROVE  /\ IsChain(Compacted(c, keep, t), R) /\ Len(Compacted(c, keep, t)) \in Nat \ {0}
         /\ Compacted(c, keep, t)[1] = c[1]
<1>1. PICK I : c \in Seq(Blocks(R, I))
  BY ChainIsSeq
<1>2. PICK g \in Seq(Blocks(R, I)) : g = gather_chain_info(c, keep)
  BY <1>1, GatherChainFacts
<1>3. PICK r : r = Reverse(g)
  OBVIOUS
<1>4. Len(g) \in Nat /\ DOMAIN g = 1..Len(g) /\ \A i \in 1..Len(g) : r[i] \in Blocks(R, I)
  BY <1>3, ReverseFacts
<1>5. PICK d : d = [i \in DOMAIN g |-> [r[i] EXCEPT !.time = t]]
  OBVIOUS
<1>6. d \in Seq(Blocks(R, I))
  <2>1. ASSUME NEW b \in Blocks(R, I) PROVE [b EXCEPT !.time = t] \in Blocks(R, I)
    BY DEF Blocks
  <2>2. QED  BY <1>4, <1>5, <2>1
<1>7. c[1] \in Blocks(R, I)
  <2>1. 1 \in 1..Len(c)
    BY <1>1
  <2>2. QED  BY <1>1, <2>1, ElementOfSeq
<1>8. PICK a : a = <<c[1]>>
  OBVIOUS
<1>9. a \in Seq(Blocks(R, I)) /\ Len(a) = 1 /\ a[1] = c[1]
  BY <1>7, <1>8
<1>10. Compacted(c, keep, t) = a \o d
  BY <1>2, <1>3, <1>5, <1>8 DEF Compacted
<1>11. a \o d \in Seq(Blocks(R, I)) /\ Len(a \o d) = 1 + Len(d) /\ (a \o d)[1] = a[1]
  <2>1. Len(a \o d) = Len(a) + Len(d) /\ a \o d \in Seq(Blocks(R, I))
    BY <1>6, <1>9, ConcatProperties
  <2>2. Len(d) \in Nat
    BY <1>6
  <2>3. 1 \in 1..(Len(a) + Len(d)) /\ 1 <= Len(a)
    BY <1>9, <2>2
  <2>4. (a \o d)[1] = a[1]
    BY <1>6, <1>9, <2>3, ConcatProperties
  <2>5. QED  BY <1>9, <2>1, <2>4
<1>12. Len(d) \in Nat
  BY <1>6
<1>13. Len(a \o d) \in Nat \ {0} /\ (a \o d)[1] = c[1]
  BY <1>9, <1>11, <1>12
<1>14. IsChain(a \o d, R)
  BY <1>11, ChainOf
<1>15. QED  BY <1>10, <1>13, <1>14

\* The blocks of n after the first are of the types of those that c keeps.
HasMetadataOf(n, c, t) ==
  /\ \A i \in 2..Len(n) : /\ \E j \in 1..Len(c) : n[i].type = c[j].type /\ Kept(c[j])
                          /\ n[i].time = t
  /\ \A j \in 1..Len(c) : Kept(c[j]) => \E i \in 1..Len(n) : n[i].type = c[j].type

\* If only metadata are kept, the types of its blocks are those of the kept ones.
LEMMA CompactedMetadata ==
  ASSUME NEW R, NEW c, IsChain(c, R), c # <<>>, NEW keep, OnlyMetadata(keep), NEW t \in Nat,
         NEW n, n = Compacted(c, keep, t)
  PROVE  HasMetadataOf(n, c, t) /\ Len(n) = 1 + Len(gather_chain_info(c, keep))
<1>1. PICK I : c \in Seq(Blocks(R, I))
  BY ChainIsSeq
<1>2. PICK g \in Seq(Blocks(R, I)) : g = gather_chain_info(c, keep)
  BY <1>1, GatherChainFacts
<1>3. /\ \A i \in 1..Len(g) : \E j \in 1..Len(c) : g[i] = c[j] /\ Kept(c[j])
      /\ \A j \in 1..Len(c) : Kept(c[j]) => \E i \in 1..Len(g) : g[i] = c[j]
  <2>1. MetadataOf(c, g)
    BY <1>1, <1>2, KeepsMetadata
  <2>2. QED  BY <2>1 DEF MetadataOf
<1>4. PICK N \in Nat : N = Len(g)
  OBVIOUS
<1>5. PICK r : r = Reverse(g)
  OBVIOUS
<1>6. \A i \in 1..N : r[i] = g[(N - i) + 1] /\ (N - i) + 1 \in 1..N /\ g[i] \in Blocks(R, I)
  BY <1>4, <1>5 DEF Reverse
<1>7. PICK d : d = [i \in 1..N |-> [r[i] EXCEPT !.time = t]]
  OBVIOUS
<1>8. ASSUME NEW i \in 1..N
      PROVE  /\ d[i] \in Blocks(R, I) /\ d[i].time = t
             /\ d[i].type = g[(N - i) + 1].type
  <2>1. PICK b \in Blocks(R, I) : b = g[(N - i) + 1] /\ r[i] = b
    BY <1>6
  <2>2. d[i] = [b EXCEPT !.time = t]
    BY <1>7, <2>1
  <2>3. [b EXCEPT !.time = t] \in Blocks(R, I) /\ [b EXCEPT !.time = t].time = t
        /\ [b EXCEPT !.time = t].type = b.type
    BY DEF Blocks
  <2>4. QED  BY <2>1, <2>2, <2>3
<1>9. d \in Seq(Blocks(R, I)) /\ Len(d) = N
  BY <1>7, <1>8
<1>10. PICK a : a = <<c[1]>>
  OBVIOUS
<1>11. a \in Seq(Blocks(R, I)) /\ Len(a) = 1
  <2>1. 1 \in 1..Len(c)
    BY <1>1
  <2>2. c[1] \in Blocks(R, I)
    BY <1>1, <2>1, ElementOfSeq
  <2>3. QED  BY <1>10, <2>2
<1>12. n = a \o d
  <2>1. DOMAIN g = 1..N
    BY <1>4
  <2>2. QED  BY <1>2, <1>5, <1>7, <1>10, <2>1 DEF Compacted
<1>13. Len(n) = 1 + N /\ \A i \in 2..(1 + N) : n[i] = d[i - 1]
  <2>1. Len(a \o d) = Len(a) + Len(d)
    BY <1>9, <1>11, ConcatProperties
  <2>2. \A i \in 1..(Len(a) + Len(d)) : (a \o d)[i] = IF i <= Len(a) THEN a[i] ELSE d[i - Len(a)]
    BY <1>9, <1>11, ConcatProperties
  <2>3. QED  BY <1>9, <1>11, <1>12, <2>1, <2>2
<1>14. ASSUME NEW i \in 2..Len(n)
       PROVE  n[i].time = t /\ \E j \in 1..Len(c) : n[i].type = c[j].type /\ Kept(c[j])
  <2>1. PICK k \in 1..N : k = i - 1 /\ n[i] = d[k]
    BY <1>13
  <2>2. PICK m \in 1..N : m = (N - k) + 1
    BY <1>6
  <2>3. PICK j \in 1..Len(c) : g[m] = c[j] /\ Kept(c[j])
    BY <1>3, <1>4
  <2>4. QED  BY <1>8, <2>1, <2>2, <2>3
<1>15. ASSUME NEW j \in 1..Len(c), Kept(c[j])
       PROVE  \E i \in 1..Len(n) : n[i].type = c[j].type
  <2>1. PICK m \in 1..N : g[m] = c[j]
    BY <1>3, <1>4, <1>15
  <2>2. PICK k \in 1..N : k = (N - m) + 1 /\ (N - k) + 1 = m
    OBVIOUS
  <2>3. d[k].type = c[j].type
    BY <1>8, <2>1, <2>2
  <2>4. k + 1 \in 2..(1 + N) /\ k + 1 \in 1..Len(n) /\ (k + 1) - 1 = k
    BY <1>13
  <2>5. n[k + 1] = d[k]
    BY <1>13, <2>4
  <2>6. QED  BY <2>3, <2>4, <2>5
<1>16. QED  BY <1>2, <1>4, <1>13, <1>14, <1>15 DEF HasMetadataOf

\* An ancestor is the one before it and one more block.
LEMMA PrefixGrows ==
  ASSUME NEW R, NEW c, IsChain(c, R), NEW n \in 1..Len(c)
  PROVE  SubSeq(c, 1, n) = Append(SubSeq(c, 1, n - 1), c[n])
<1>1. PICK S : c \in Seq(S)
  BY ChainIsSeq
<1>2. Len(c) \in Nat /\ n - 1 \in 0..Len(c) /\ n \in 0..Len(c)
  BY <1>1
<1>3. PICK a, b : a = SubSeq(c, 1, n - 1) /\ b = SubSeq(c, 1, n)
  OBVIOUS
<1>4. a \in Seq(S) /\ Len(a) = n - 1 /\ \A i \in 1..(n - 1) : a[i] = c[i]
  BY <1>1, <1>2, <1>3, ChainPrefix, SubSeqProperties
<1>5. b \in Seq(S) /\ Len(b) = n /\ \A i \in 1..n : b[i] = c[i]
  BY <1>1, <1>2, <1>3, ChainPrefix, SubSeqProperties
<1>6. c[n] \in S
  BY <1>1, ElementOfSeq
<1>7. /\ Append(a, c[n]) \in Seq(S) /\ Len(Append(a, c[n])) = Len(a) + 1
      /\ Append(a, c[n])[Len(a) + 1] = c[n]
      /\ \A i \in 1..Len(a) : Append(a, c[n])[i] = a[i]
  BY <1>4, <1>6, AppendFacts
<1>8. Len(Append(a, c[n])) = n
  BY <1>4, <1>7
<1>9. \A i \in 1..n : Append(a, c[n])[i] = b[i]
  BY <1>4, <1>5, <1>7
<1>10. Append(a, c[n]) = b
  BY <1>5, <1>7, <1>8, <1>9, SeqEqual
<1>11. QED  BY <1>3, <1>10

\* ... and, its blocks having been accepted one by one, it is sequential.
LEMMA CompactedSequential ==
  ASSUME NEW R, NEW c, IsChain(c, R), c # <<>>, Sequential(c), NEW keep, NEW t \in Nat,
         CompactionAccepted(c, keep, t)
  PROVE  Sequential(Compacted(c, keep, t))
<1>1. PICK a : a = Compacted(c, keep, t)
  OBVIOUS
<1>2. IsChain(a, R) /\ Len(a) \in Nat \ {0} /\ a[1] = c[1]
  BY <1>1, CompactedFacts
<1>3. PICK N \in Nat : Len(a) = N + 1
  BY <1>2
<1>4. \A i \in 2..(N + 1) : ValidBlock(SubSeq(a, 1, i - 1), a[i])
  BY <1>1, <1>3 DEF CompactionAccepted
<1> DEFINE T == {n \in 0..N : Sequential(SubSeq(a, 1, n + 1))}
<1>5. 0 \in T
  <2>1. 1 \in 0..Len(a) /\ 1 \in 0..Len(c)
    BY <1>2, ChainIsSeq
  <2>2. PICK x, y : x = SubSeq(a, 1, 1) /\ y = SubSeq(c, 1, 1)
    OBVIOUS
  <2>3. IsChain(x, R) /\ Len(x) = 1 /\ x[1] = a[1]
    BY <1>2, <2>1, <2>2, ChainPrefix
  <2>4. IsChain(y, R) /\ Len(y) = 1 /\ y[1] = c[1]
    BY <2>1, <2>2, ChainPrefix
  <2>5. x = y
    <3>1. PICK S1, S2 : x \in Seq(S1) /\ y \in Seq(S2)
      BY <2>3, <2>4, ChainIsSeq
    <3>2. PICK S : S = S1 \cup S2
      OBVIOUS
    <3>3. x \in Seq(S) /\ y \in Seq(S)
      BY <3>1, <3>2
    <3>4. \A i \in 1..Len(x) : x[i] = y[i]
      BY <1>2, <2>3, <2>4
    <3>5. QED  BY <2>3, <2>4, <3>3, <3>4, SeqEqual
  <2>6. Sequential(y)
    BY <2>1, <2>2, SequentialPrefix
  <2>7. SubSeq(a, 1, 0 + 1) = y
    BY <2>2, <2>5
  <2>8. Sequential(SubSeq(a, 1, 0 + 1))
    BY <2>6, <2>7, Zenon
  <2>9. QED  BY <2>8
<1>6. ASSUME NEW n \in 1..N, n - 1 \in T PROVE n \in T
  <2>1. /\ n \in 0..Len(a) /\ n + 1 \in 1..Len(a) /\ (n + 1) - 1 = n /\ (n - 1) + 1 = n
        /\ n + 1 \in 2..(N + 1)
    BY <1>3
  <2>2. PICK x : x = SubSeq(a, 1, n)
    OBVIOUS
  <2>3. Sequential(x)
    BY <1>6, <2>1, <2>2
  <2>4. IsChain(x, R) /\ Len(x) = n
    BY <1>2, <2>1, <2>2, ChainPrefix
  <2>5. x # <<>>
    BY <2>4
  <2>6. IsBlock(a[n + 1], R)
    BY <1>2, <2>1, ChainIsSeq
  <2>7. ValidBlock(x, a[n + 1])
    BY <1>4, <2>1, <2>2
  <2>8. Sequential(Append(x, a[n + 1]))
    BY <2>3, <2>4, <2>5, <2>6, <2>7, SequentialAppend
  <2>9. SubSeq(a, 1, n + 1) = Append(x, a[n + 1])
    BY <1>2, <2>1, <2>2, PrefixGrows
  <2>10. Sequential(SubSeq(a, 1, n + 1))
    BY <2>8, <2>9, Zenon
  <2>11. n \in 0..N
    OBVIOUS
  <2>12. QED  BY <2>10, <2>11
<1>7. \A n \in 0..N : n \in T
  <2> HIDE DEF T
  <2> QED  BY <1>5, <1>6, IntervalInduction
<1>8. Sequential(SubSeq(a, 1, Len(a)))
  BY <1>3, <1>7
<1>9. SubSeq(a, 1, Len(a)) = a
  <2>1. PICK S : a \in Seq(S)
    BY <1>2, ChainIsSeq
  <2>2. QED  BY <2>1, SubSeqFull
<1>10. QED  BY <1>1, <1>8, <1>9
-----------------------------------------------------------------------------
(* The events that operations commit.                                      *)

\* A block with a type and a time alone is a block.
LEMMA BareBlock ==
  ASSUME NEW R, NEW t \in BlockTypes, NEW time \in Nat
  PROVE  Block(t, time) \in Blocks(R, {NoInput})
<1>1. <<>> \in Seq(R) /\ -1 \in Int
  OBVIOUS
<1>2. QED  BY <1>1 DEF Block, Blocks

\* The last event of a type, or an empty one, is a block.
LEMMA LastEventFacts ==
  ASSUME NEW R, NEW c, IsChain(c, R), NEW t \in BlockTypes
  PROVE  IsBlock(LastEvent(c, t), R)
<1>1. CASE Has(c, t)
  <2>1. LastOf(c, {t}) \in 0..Len(c) /\ LastOf(c, {t}) # 0
    BY <1>1, LastOfFacts DEF Has
  <2>2. LastOf(c, {t}) \in 1..Len(c)
    BY <2>1
  <2>3. QED  BY <1>1, <2>2, ChainIsSeq DEF LastEvent
<1>2. CASE ~Has(c, t)
  <2>1. 0 \in Nat
    OBVIOUS
  <2>2. QED  BY <1>2, <2>1, BareBlock, BlockOf DEF LastEvent
<1>3. QED  BY <1>1, <1>2

\* One block is a chain for the functions on chains.
LEMMA OneBlock ==
  ASSUME NEW R, NEW b, IsBlock(b, R)
  PROVE  IsChain(<<b>>, R) /\ <<b>> # <<>> /\ <<b>>[1] = b
<1>1. PICK s : s = <<b>>
  OBVIOUS
<1>2. s \in Seq({b}) /\ Len(s) = 1 /\ s[1] = b /\ s # <<>>
  BY <1>1
<1>3. \A i \in 1..Len(s) : IsBlock(s[i], R)
  BY <1>2
<1>4. IsChain(s, R)
  BY <1>2, <1>3, SeqIsChain
<1>5. QED  BY <1>1, <1>2, <1>4

\* A schema before other events.
LEMMA WithSchemaFacts ==
  ASSUME NEW R, NEW c, NEW time \in Nat, NEW events, IsChain(events, R)
  PROVE  /\ IsChain(WithSchema(c, time, events), R)
         /\ events # <<>> => WithSchema(c, time, events) # <<>>
         /\ Has(c, "SetDataSchema") => WithSchema(c, time, events) = events
         /\ ~Has(c, "SetDataSchema") =>
               WithSchema(c, time, events)[1] = Block("SetDataSchema", time)
<1>1. PICK S : events \in Seq(S)
  BY ChainIsSeq
<1>2. CASE Has(c, "SetDataSchema")
  <2>1. <<>> \o events = events
    BY <1>1, ConcatEmptySeq
  <2>2. WithSchema(c, time, events) = events
    BY <1>2, <2>1 DEF WithSchema
  <2>3. QED  BY <1>2, <2>2
<1>3. CASE ~Has(c, "SetDataSchema")
  <2>1. PICK b : b = Block("SetDataSchema", time)
    OBVIOUS
  <2>2. IsBlock(b, R)
    <3>1. "SetDataSchema" \in BlockTypes
      BY DEF BlockTypes
    <3>2. QED  BY <2>1, <3>1, BareBlock, BlockOf
  <2>3. PICK a, T : a = <<b>> /\ T = S \cup {b}
    OBVIOUS
  <2>4. a \in Seq(T) /\ Len(a) = 1 /\ a[1] = b /\ events \in Seq(T) /\ Len(events) \in Nat
    BY <1>1, <2>3
  <2>5. a \o events \in Seq(T) /\ Len(a \o events) = 1 + Len(events)
    BY <2>4, ConcatProperties
  <2>6. ASSUME NEW i \in 1..(1 + Len(events))
        PROVE  (a \o events)[i] = IF i <= 1 THEN a[i] ELSE events[i - 1]
    <3>1. i \in 1..(Len(a) + Len(events))
      BY <2>4
    <3>2. (a \o events)[i] = IF i <= Len(a) THEN a[i] ELSE events[i - Len(a)]
      BY <2>4, <3>1, ConcatProperties
    <3>3. QED  BY <2>4, <3>2
  <2>7. \A i \in 1..Len(a \o events) : IsBlock((a \o events)[i], R)
    <3>1. \A i \in 1..Len(events) : IsBlock(events[i], R)
      BY ChainIsSeq
    <3>2. QED  BY <2>2, <2>4, <2>5, <2>6, <3>1
  <2>8. IsChain(a \o events, R)
    BY <2>5, <2>7, SeqIsChain
  <2>9. (a \o events)[1] = b /\ a \o events # <<>>
    BY <2>4, <2>5, <2>6
  <2>10. WithSchema(c, time, events) = a \o events
    BY <1>3, <2>1, <2>3 DEF WithSchema
  <2>11. QED  BY <1>3, <2>1, <2>8, <2>9, <2>10
<1>4. QED  BY <1>2, <1>3

\* The events of the data writer are blocks.
LEMMA NextAddDataFacts ==
  ASSUME NEW R, NEW c, IsChain(c, R), NEW time \in Nat
  PROVE  NextAddData(c, time) \in Blocks(R, {NoInput}) /\ NextAddData(c, time).type = "AddData"
<1>1. "AddData" \in BlockTypes
  BY DEF BlockTypes
<1>2. PICK prev : prev = LastEvent(c, "AddData") /\ IsBlock(prev, R)
  BY <1>1, LastEventFacts
<1>3. LastOffset(prev) \in Int /\ prev.newCheckpoint \in Nat /\ prev.watermark \in Nat
  BY <1>2, LastOffsetFacts, BlockFields
<1>4. PICK b \in Blocks(R, {NoInput}) : b = Block("AddData", time)
  BY <1>1, BareBlock
<1>5. PICK e : e = [b EXCEPT !.prevOffset = LastOffset(prev),
                           !.prevCheckpoint = prev.newCheckpoint, !.watermark = prev.watermark]
  OBVIOUS
<1>6. e \in Blocks(R, {NoInput}) /\ e.type = b.type
  BY <1>3, <1>5 DEF Blocks
<1>7. b.type = "AddData"
  BY <1>4 DEF Block
<1>8. NextAddData(c, time) = e
  BY <1>2, <1>4, <1>5 DEF NextAddData
<1>9. QED  BY <1>6, <1>7, <1>8

\* The writer stages blocks of ingest, never a transform.
LEMMA StageFacts ==
  ASSUME NEW R, NEW c, IsChain(c, R), NEW records \in Seq(R), NEW latest \in Nat,
         NEW newState \in Nat, NEW time \in Nat
  PROVE  /\ IsChain(stage(c, records, latest, newState, time), R)
         /\ stage(c, records, latest, newState, time) # <<>> =>
               stage(c, records, latest, newState, time)[1].type # "ExecuteTransform"
<1>1. "AddData" \in BlockTypes
  BY DEF BlockTypes
<1>2. PICK prev : prev = LastEvent(c, "AddData") /\ IsBlock(prev, R)
  BY <1>1, LastEventFacts
<1>3. LastOffset(prev) \in Int
  BY <1>2, LastOffsetFacts
<1>4. PICK e0 \in Blocks(R, {NoInput}) : e0 = NextAddData(c, time) /\ e0.type = "AddData"
  BY NextAddDataFacts
<1>5. PICK event \in Blocks(R, {NoInput}) :
        event = [e0 EXCEPT !.sourceState = newState] /\ event.type = "AddData"
  <2>1. PICK e : e = [e0 EXCEPT !.sourceState = newState]
    OBVIOUS
  <2>2. e \in Blocks(R, {NoInput}) /\ e.type = e0.type
    BY <2>1 DEF Blocks
  <2>3. QED  BY <1>4, <2>1, <2>2
<1>6. PICK w \in Nat : w = IF event.watermark < latest THEN latest ELSE event.watermark
  BY DEF Blocks
<1>7. PICK data \in Blocks(R, {NoInput}) :
        /\ data = [event EXCEPT !.start = LastOffset(prev) + 1, !.data = records, !.watermark = w]
        /\ data.type = "AddData"
  <2>1. PICK x \in Int : x = LastOffset(prev) + 1
    BY <1>3
  <2>2. PICK e : e = [event EXCEPT !.start = x, !.data = records, !.watermark = w]
    OBVIOUS
  <2>3. e \in Blocks(R, {NoInput}) /\ e.type = event.type
    BY <2>2 DEF Blocks
  <2>4. QED  BY <1>5, <2>1, <2>2, <2>3
<1>8. PICK evts : evts = CASE records # <<>> -> <<data>>
                           [] newState # prev.sourceState -> <<event>>
                           [] OTHER -> <<>>
  OBVIOUS
<1>9. IsChain(evts, R) /\ (evts = <<>> \/ evts[1].type = "AddData")
  <2>1. /\ IsChain(<<data>>, R) /\ IsChain(<<event>>, R)
        /\ <<data>>[1] = data /\ <<event>>[1] = event
    BY BlockOf, OneBlock
  <2>2. IsChain(<<>>, R)
    <3>1. <<>> \in Seq(Blocks(R, {}))
      OBVIOUS
    <3>2. QED  BY <3>1, ChainOf
  <2>3. evts \in {<<data>>, <<event>>, <<>>}
    BY <1>8
  <2>4. QED  BY <1>5, <1>7, <2>1, <2>2, <2>3
<1>10. stage(c, records, latest, newState, time) = WithSchema(c, time, evts)
  BY <1>2, <1>4, <1>5, <1>6, <1>7, <1>8 DEF stage
<1>11. PICK s : s = WithSchema(c, time, evts)
  OBVIOUS
<1>12. /\ IsChain(s, R)
       /\ Has(c, "SetDataSchema") => s = evts
       /\ ~Has(c, "SetDataSchema") => s[1] = Block("SetDataSchema", time)
  BY <1>9, <1>11, WithSchemaFacts
<1>13. Block("SetDataSchema", time).type = "SetDataSchema"
  BY DEF Block
<1>14. s # <<>> => s[1].type # "ExecuteTransform"
  BY <1>9, <1>12, <1>13
<1>15. QED  BY <1>10, <1>11, <1>12, <1>14
-----------------------------------------------------------------------------
(* Transforms.                                                             *)

\* The empty chain is sequential.
LEMMA EmptyChain ==
  ASSUME NEW R
  PROVE  IsChain(<<>>, R) /\ Sequential(<<>>)
<1>1. <<>> \in Seq(Blocks(R, {})) /\ Len(<<>>) = 0
  OBVIOUS
<1>2. IsChain(<<>>, R)
  BY <1>1, ChainOf
<1>3. \A t : ~Has(<<>>, t)
  BY <1>1, <1>2, HasFacts
<1>4. QED  BY <1>1, <1>2, <1>3 DEF Sequential

\* The data blocks that a transform is given, and the news among them: if any
\* has a watermark then so has the last.
LEMMA UnprocessedFacts ==
  ASSUME NEW R, NEW u, IsChain(u, R), Sequential(u), NEW prev,
         NEW input, input = NextInput(prev, u), NEW k, k = Unprocessed(input)
  PROVE  /\ IsChain(k, R)
         /\ k # <<>> => input.newBlock # <<>> /\ Last(k).watermark \in Nat
         /\ HasNews(input) => /\ k # <<>>
                              /\ DataOf(k) # <<>> \/ Last(k).watermark # 0
<1>1. PICK n : n = input.newBlock
  OBVIOUS
<1>2. n \in {u, <<>>}
  BY <1>1 DEF NextInput
<1>3. IsChain(n, R) /\ Sequential(n)
  BY <1>2, EmptyChain
<1>4. k = DataBlocksAfter(n, Len(input.prevBlock))
  BY <1>1 DEF Unprocessed
<1>5. /\ IsChain(k, R) /\ (n = <<>> => k = <<>>)
      /\ \A i \in 1..Len(k) : k[i].watermark <= k[Len(k)].watermark
  BY <1>3, <1>4, DataBlocksFacts
<1>6. ASSUME k # <<>> PROVE input.newBlock # <<>> /\ Last(k).watermark \in Nat
  <2>1. Len(k) \in Nat /\ Len(k) # 0
    <3>1. Len(k) \in Nat
      BY <1>5, ChainIsSeq
    <3>2. Len(k) # 0
      BY <1>5, <1>6, ChainIsSeq
    <3>3. QED  BY <3>1, <3>2
  <2>2. IsBlock(k[Len(k)], R)
    <3>1. Len(k) \in 1..Len(k)
      BY <2>1
    <3>2. QED  BY <1>5, <3>1, ChainIsSeq
  <2>3. QED  BY <1>1, <1>5, <1>6, <2>2, BlockFields DEF Last
<1>7. ASSUME HasNews(input)
      PROVE  k # <<>> /\ (DataOf(k) # <<>> \/ Last(k).watermark # 0)
  <2>1. PICK i \in DOMAIN k : k[i].data # <<>> \/ k[i].watermark # 0
    BY <1>7 DEF HasNews
  <2>2. i \in 1..Len(k) /\ Len(k) \in Nat
    BY <1>5, ChainIsSeq
  <2>3. k # <<>>
    <3>1. Len(k) # 0
      BY <2>2
    <3>2. QED  BY <1>5, <3>1, ChainIsSeq
  <2>4. CASE k[i].data # <<>>
    BY <1>5, <2>2, <2>3, <2>4, DataOfFacts
  <2>5. CASE k[i].watermark # 0
    <3>1. k[i].watermark \in Nat
      BY <1>5, <2>2, ChainIsSeq, BlockFields
    <3>2. Last(k).watermark \in Nat
      BY <1>6, <2>3
    <3>3. k[i].watermark <= Last(k).watermark
      BY <1>5, <2>2 DEF Last
    <3>4. QED  BY <2>3, <2>5, <3>1, <3>2, <3>3
  <2>6. QED  BY <2>1, <2>4, <2>5
<1>8. QED  BY <1>5, <1>6, <1>7

\* How the event b of a transform continues the last one, for the data blocks k.
Continues(b, prev, k, time) ==
  /\ b.time = time /\ b.prevOffset = LastOffset(prev)
  /\ b.data # <<>> => b.start = b.prevOffset + 1
  /\ b.prevCheckpoint = prev.newCheckpoint
  /\ b.watermark = IF k = <<>> THEN prev.watermark ELSE Or(Last(k).watermark, prev.watermark)

\* The event of a transform, which is neither empty nor a no-op if there was
\* anything new.
LEMMA TransformedFacts ==
  ASSUME NEW R, NEW c, IsChain(c, R), NEW u, IsChain(u, R), Sequential(u), NEW time \in Nat,
         NEW input, input = NextInput(LastEvent(c, "ExecuteTransform").input, u),
         NEW b, b = Transformed(c, input, time)
  PROVE  /\ IsBlock(b, R)
         /\ b.type = "ExecuteTransform" /\ b.input = input /\ b.data = DataOf(Unprocessed(input))
         /\ Continues(b, LastEvent(c, "ExecuteTransform"), Unprocessed(input), time)
         /\ HasNews(input) => EventIsNotEmpty(b) /\ ~NoOpEvent(c, b)
<1>1. "ExecuteTransform" \in BlockTypes
  BY DEF BlockTypes
<1>2. PICK prev : prev = LastEvent(c, "ExecuteTransform") /\ IsBlock(prev, R)
  BY <1>1, LastEventFacts
<1>3. PICK k : k = Unprocessed(input)
  OBVIOUS
<1>4. /\ IsChain(k, R)
      /\ k # <<>> => input.newBlock # <<>> /\ Last(k).watermark \in Nat
      /\ HasNews(input) => k # <<>> /\ (DataOf(k) # <<>> \/ Last(k).watermark # 0)
  <2>1. PICK p : p = LastEvent(c, "ExecuteTransform").input
    OBVIOUS
  <2>2. input = NextInput(p, u)
    BY <2>1
  <2>3. QED  BY <1>3, <2>2, UnprocessedFacts
<1>5. PICK data \in Seq(R) : data = DataOf(k)
  BY <1>4, DataOfFacts
<1>6. LastOffset(prev) \in Int /\ prev.newCheckpoint \in Nat /\ prev.watermark \in Nat
  BY <1>2, LastOffsetFacts, BlockFields
<1>7. PICK start \in Int : start = IF data = <<>> THEN 0 ELSE LastOffset(prev) + 1
  BY <1>6
<1>8. PICK ckpt \in Nat : ckpt = IF data = <<>> THEN prev.newCheckpoint ELSE time + 1
  BY <1>6
<1>9. PICK w \in Nat : w = IF k = <<>> THEN prev.watermark
                          ELSE Or(Last(k).watermark, prev.watermark)
  BY <1>4, <1>6 DEF Or
<1>10. PICK e \in Blocks(R, {NoInput}) : e = Block("ExecuteTransform", time)
  BY <1>1, BareBlock
<1>11. e.type = "ExecuteTransform"
  BY <1>10 DEF Block
<1>12. PICK off \in Int : off = LastOffset(prev)
  BY <1>6
<1>13. b = [e EXCEPT !.input = input, !.prevOffset = off, !.start = start, !.data = data,
                     !.prevCheckpoint = prev.newCheckpoint, !.newCheckpoint = ckpt,
                     !.watermark = w]
  BY <1>2, <1>3, <1>5, <1>7, <1>8, <1>9, <1>10, <1>12 DEF Transformed
<1>14. b \in Blocks(R, {input})
  <2>1. PICK from \in Nat : from = prev.newCheckpoint
    BY <1>6
  <2>2. PICK e1 \in Blocks(R, {input}) :
          e1 = [e EXCEPT !.input = input, !.prevOffset = off, !.start = start]
    BY DEF Blocks
  <2>3. PICK e2 \in Blocks(R, {input}) :
          e2 = [e1 EXCEPT !.data = data, !.prevCheckpoint = from, !.newCheckpoint = ckpt,
                          !.watermark = w]
    BY DEF Blocks
  <2>4. b = e2
    BY <1>13, <2>1, <2>2, <2>3 DEF Blocks
  <2>5. QED  BY <2>4
<1>15. b.type = "ExecuteTransform"
  BY <1>11, <1>13 DEF Blocks
<1>16. b.data = data
  BY <1>13 DEF Blocks
<1>17. b.watermark = w
  BY <1>13 DEF Blocks
<1>18. b.input = input
  BY <1>13 DEF Blocks
<1>19. ASSUME HasNews(input) PROVE EventIsNotEmpty(b) /\ ~NoOpEvent(c, b)
  <2>1. b.data # <<>> \/ b.watermark # 0
    BY <1>4, <1>5, <1>9, <1>16, <1>17, <1>19 DEF Or
  <2>2. EventIsNotEmpty(b)
    BY <1>15, <2>1 DEF EventIsNotEmpty
  <2>3. b.input.newBlock # <<>>
    BY <1>4, <1>18, <1>19
  <2>4. ~NoOpEvent(c, b)
    BY <1>15, <2>3 DEF NoOpEvent
  <2>5. QED  BY <2>2, <2>4
<1>20. Continues(b, prev, k, time)
  <2>1. b.time = time
    <3>1. e.time = time
      BY <1>10 DEF Block
    <3>2. QED  BY <1>13, <3>1 DEF Blocks
  <2>2. b.prevOffset = off /\ b.start = start /\ b.prevCheckpoint = prev.newCheckpoint
    BY <1>13 DEF Blocks
  <2>3. b.data # <<>> => b.start = b.prevOffset + 1
    BY <1>7, <1>12, <1>16, <2>2
  <2>4. QED  BY <1>9, <1>12, <1>17, <2>1, <2>2, <2>3 DEF Continues
<1>21. QED  BY <1>2, <1>3, <1>5, <1>14, <1>15, <1>16, <1>18, <1>19, <1>20, BlockOf

\* A transform that is to be committed does not begin with a no-op.
LEMMA TransformEventsFacts ==
  ASSUME NEW R, NEW c, IsChain(c, R), NEW u, IsChain(u, R), Sequential(u), NEW time \in Nat,
         NextTransform(c, u) = "Updated",
         NEW events, events = TransformEvents(c, u, time)
  PROVE  /\ IsChain(events, R) /\ events # <<>>
         /\ ~ToleratedNoOp(c, events[1])
<1>1. PICK input : input = NextInput(LastEvent(c, "ExecuteTransform").input, u)
  OBVIOUS
<1>2. PICK b : b = Transformed(c, input, time)
  OBVIOUS
<1>3. IsBlock(b, R) /\ (HasNews(input) => EventIsNotEmpty(b) /\ ~NoOpEvent(c, b))
  BY <1>1, <1>2, TransformedFacts
<1>4. PICK s : s = <<b>>
  OBVIOUS
<1>5. IsChain(s, R) /\ s # <<>> /\ s[1] = b
  BY <1>3, <1>4, OneBlock
<1>6. events = WithSchema(c, time, s)
  BY <1>1, <1>2, <1>4 DEF TransformEvents
<1>7. /\ IsChain(events, R) /\ events # <<>>
      /\ Has(c, "SetDataSchema") => events = s
      /\ ~Has(c, "SetDataSchema") => events[1] = Block("SetDataSchema", time)
  <2>1. /\ IsChain(WithSchema(c, time, s), R)
        /\ s # <<>> => WithSchema(c, time, s) # <<>>
        /\ Has(c, "SetDataSchema") => WithSchema(c, time, s) = s
        /\ ~Has(c, "SetDataSchema") =>
              WithSchema(c, time, s)[1] = Block("SetDataSchema", time)
    BY <1>5, WithSchemaFacts
  <2>2. QED  BY <1>5, <1>6, <2>1
<1>8. CASE Has(c, "SetDataSchema")
  <2>1. HasNews(input)
    BY <1>1, <1>8 DEF NextTransform
  <2>2. ~ToleratedNoOp(c, b)
    BY <1>3, <2>1 DEF ToleratedNoOp
  <2>3. QED  BY <1>5, <1>7, <1>8, <2>2
<1>9. CASE ~Has(c, "SetDataSchema")
  <2>1. events[1].type = "SetDataSchema"
    BY <1>7, <1>9 DEF Block
  <2>2. QED  BY <1>7, <2>1 DEF ToleratedNoOp
<1>10. QED  BY <1>8, <1>9
-----------------------------------------------------------------------------
(* The invariant.                                                          *)

\* The chains of the heads, and those that workers hold, are sequential.
ChainInv == DatasetsInv /\ ChainsAreSequential

\* What the invariant says of one operation.
OpInv(o) ==
  /\ OpOK(o)
  /\ o.kind \in {"commit", "append"} => Sequential(o.base)
  /\ o.kind = "append" => ValidBlock(o.base, o.events[1])
  /\ o.kind = "rewrite" => Sequential(o.target)
  /\ o.kind = "commit" /\ ToleratedNoOp(o.base, o.events[1]) => o.base # o.begin

HeadInv(c) == Chain(c) /\ Sequential(c)

\* The invariant, dataset by dataset and worker by worker.
LEMMA ByParts ==
  ChainInv <=> /\ now \in Nat
               /\ DOMAIN head = Dataset /\ \A d \in Dataset : HeadInv(head[d])
               /\ DOMAIN summary = Dataset
               /\ DOMAIN op = Workers /\ \A w \in Workers : OpInv(op[w])
  BY DEF ChainInv, DatasetsInv, TypeOK, ChainsAreSequential, PendingChainsAreSequential,
         TransformCommitsSomething, OpInv, HeadInv

\* The operations.
LEMMA IdleInv ==
  OpInv(Idle) /\ OpInv(TransformAgain)
  BY DEF OpInv, OpOK, Idle, TransformAgain

\* An operation that computed a summary has nothing to keep.
LEMMA SummaryInv ==
  ASSUME NEW d \in Dataset, NEW new
  PROVE  OpInv([kind |-> "summary", ds |-> d, new |-> new])
  BY DEF OpInv, OpOK

\* What an operation that commits has to keep.
LEMMA CommittingInv ==
  ASSUME NEW step \in {"commit", "append"}, NEW d \in Dataset, NEW begin, NEW base, NEW events,
         Chain(begin), HeadInv(base), IsAncestor(begin, base), Chain(events),
         step = "append" => ValidBlock(base, events[1]),
         step = "commit" /\ ToleratedNoOp(base, events[1]) => base # begin
  PROVE  OpInv(Committing(step, d, begin, base, events))
<1>1. PICK o : o = Committing(step, d, begin, base, events)
  OBVIOUS
<1>2. /\ o.kind = step /\ o.ds = d /\ o.begin = begin /\ o.base = base /\ o.events = events
  BY <1>1 DEF Committing
<1>3. OpOK(o)
  BY <1>2 DEF OpOK, HeadInv
<1>4. QED  BY <1>1, <1>2, <1>3 DEF OpInv, HeadInv

\* What an operation that replaces the chain has to keep.
LEMMA RewriteInv ==
  ASSUME NEW d \in Dataset, NEW target, HeadInv(target), NEW then \in {Idle, TransformAgain}
  PROVE  OpInv(Rewrite(d, target, then))
<1>1. PICK o : o = Rewrite(d, target, then)
  OBVIOUS
<1>2. o.kind = "rewrite" /\ o.ds = d /\ o.target = target /\ o.then = then
  BY <1>1 DEF Rewrite
<1>3. OpOK(o)
  BY <1>2 DEF OpOK, HeadInv
<1>4. QED  BY <1>1, <1>2, <1>3 DEF OpInv, HeadInv

\* A chain is an ancestor of itself, and so is what it was before a block more.
LEMMA AncestorFacts ==
  ASSUME NEW R, NEW c, IsChain(c, R)
  PROVE  /\ IsAncestor(c, c)
         /\ \A a, b : IsChain(a, R) /\ IsAncestor(a, c) /\ IsBlock(b, R) =>
               IsAncestor(a, Append(c, b)) /\ Append(c, b) # a
<1>1. PICK S : c \in Seq(S)
  BY ChainIsSeq
<1>2. IsAncestor(c, c)
  <2>1. SubSeq(c, 1, Len(c)) = c /\ Len(c) \in Nat
    BY <1>1, SubSeqFull
  <2>2. QED  BY <2>1 DEF IsAncestor
<1>3. ASSUME NEW a, NEW b, IsChain(a, R), IsAncestor(a, c), IsBlock(b, R)
      PROVE  IsAncestor(a, Append(c, b)) /\ Append(c, b) # a
  <2>1. Len(a) \in Nat /\ Len(c) \in Nat /\ Len(a) <= Len(c) /\ a = SubSeq(c, 1, Len(a))
    BY <1>3, ChainIsSeq DEF IsAncestor
  <2>2. PICK e : e = Append(c, b)
    OBVIOUS
  <2>3. /\ IsChain(e, R) /\ Len(e) = Len(c) + 1
        /\ \A i \in 1..Len(c) : e[i] = c[i]
    BY <1>3, <2>2, ChainAppend
  <2>4. PICK p : p = SubSeq(e, 1, Len(a))
    OBVIOUS
  <2>5. Len(a) \in 0..Len(e) /\ Len(a) \in 0..Len(c)
    BY <2>1, <2>3
  <2>6. IsChain(p, R) /\ Len(p) = Len(a) /\ \A i \in 1..Len(a) : p[i] = e[i]
    BY <2>3, <2>4, <2>5, ChainPrefix
  <2>7. \A i \in 1..Len(a) : a[i] = c[i]
    BY <2>1, <2>5, ChainPrefix
  <2>8. p = a
    <3>1. PICK S1, S2 : p \in Seq(S1) /\ a \in Seq(S2)
      BY <1>3, <2>6, ChainIsSeq
    <3>2. PICK T : T = S1 \cup S2
      OBVIOUS
    <3>3. p \in Seq(T) /\ a \in Seq(T)
      BY <3>1, <3>2
    <3>4. \A i \in 1..Len(a) : p[i] = a[i]
      BY <2>1, <2>3, <2>6, <2>7
    <3>5. QED  BY <2>6, <3>3, <3>4, SeqEqual
  <2>9. e # a
    BY <2>1, <2>3
  <2>10. Len(a) <= Len(e)
    BY <2>1, <2>3
  <2>11. QED  BY <2>2, <2>4, <2>8, <2>9, <2>10 DEF IsAncestor
<1>4. QED  BY <1>2, <1>3

\* A commit on top of a head.
LEMMA CommitInv ==
  ASSUME NEW d \in Dataset, NEW base, HeadInv(base), NEW events, Chain(events),
         ~ToleratedNoOp(base, events[1])
  PROVE  OpInv(Commit(d, base, events))
<1>1. Chain(base) /\ IsAncestor(base, base)
  BY AncestorFacts DEF HeadInv, Chain
<1>2. QED  BY <1>1, CommittingInv DEF Commit

\* A step that changes what one worker does, and perhaps one head.
LEMMA OpStep ==
  ASSUME ChainInv, NEW w \in Workers, NEW o, OpInv(o), op' = [op EXCEPT ![w] = o],
         DOMAIN summary' = Dataset, now' \in Nat,
         \/ head' = head
         \/ \E d \in Dataset : \E c : HeadInv(c) /\ head' = [head EXCEPT ![d] = c]
  PROVE  ChainInv'
<1>1. /\ DOMAIN head = Dataset /\ \A d \in Dataset : HeadInv(head[d])
      /\ DOMAIN op = Workers /\ \A v \in Workers : OpInv(op[v])
  BY ByParts
<1>2. DOMAIN op' = Workers /\ \A v \in Workers : OpInv(op'[v])
  <2>1. DOMAIN op' = Workers
    BY <1>1
  <2>2. ASSUME NEW v \in Workers PROVE op'[v] = IF v = w THEN o ELSE op[v]
    BY <1>1
  <2>3. QED  BY <1>1, <2>1, <2>2
<1>3. DOMAIN head' = Dataset /\ \A d \in Dataset : HeadInv(head'[d])
  <2>1. CASE head' = head
    BY <1>1, <2>1
  <2>2. CASE \E d \in Dataset : \E c : HeadInv(c) /\ head' = [head EXCEPT ![d] = c]
    <3>a. PICK d \in Dataset : \E c : HeadInv(c) /\ head' = [head EXCEPT ![d] = c]
      BY <2>2
    <3>1. PICK c : HeadInv(c) /\ head' = [head EXCEPT ![d] = c]
      BY <3>a
    <3>2. DOMAIN head' = Dataset
      BY <1>1, <3>1
    <3>3. ASSUME NEW e \in Dataset PROVE head'[e] = IF e = d THEN c ELSE head[e]
      BY <1>1, <3>1
    <3>4. QED  BY <1>1, <3>1, <3>2, <3>3
  <2>3. QED  BY <2>1, <2>2
<1>4. ChainInv' <=> /\ now' \in Nat
                    /\ DOMAIN head' = Dataset /\ \A d \in Dataset : HeadInv(head'[d])
                    /\ DOMAIN summary' = Dataset
                    /\ DOMAIN op' = Workers /\ \A v \in Workers : OpInv(op'[v])
  BY DEF ChainInv, DatasetsInv, TypeOK, ChainsAreSequential, PendingChainsAreSequential,
         TransformCommitsSomething, OpInv, HeadInv
<1>5. QED  BY <1>2, <1>3, <1>4

\* The new chain of a compaction.
LEMMA CompactedInv ==
  ASSUME NEW c, HeadInv(c), NEW keep, NEW t \in Nat, CompactionAccepted(c, keep, t)
  PROVE  HeadInv(Compacted(c, keep, t))
<1>1. IsChain(c, Recorded) /\ c # <<>> /\ Sequential(c)
  BY DEF HeadInv, Chain
<1>2. PICK a : a = Compacted(c, keep, t)
  OBVIOUS
<1>3. IsChain(a, Recorded) /\ Len(a) \in Nat \ {0}
  BY <1>1, <1>2, CompactedFacts
<1>4. a # <<>>
  BY <1>3
<1>5. Sequential(a)
  BY <1>1, <1>2, CompactedSequential
<1>6. QED  BY <1>2, <1>3, <1>4, <1>5 DEF HeadInv, Chain

\* The initial chains, a Seed and a source or query, are sequential.
LEMMA InitInv == Init => ChainInv
<1> SUFFICES ASSUME Init PROVE ChainInv
  OBVIOUS
<1>1. ASSUME NEW d \in Dataset PROVE HeadInv(InitialChain(d))
  <2>1. PICK t \in {"SetPollingSource", "SetTransform"} :
          t = IF d = Root THEN "SetPollingSource" ELSE "SetTransform"
    OBVIOUS
  <2>2. PICK b1, b2 : b1 = Block("Seed", 0) /\ b2 = Block(t, 0)
    OBVIOUS
  <2>3. IsBlock(b1, Recorded) /\ IsBlock(b2, Recorded)
    <3>1. "Seed" \in BlockTypes /\ t \in BlockTypes /\ 0 \in Nat
      BY DEF BlockTypes
    <3>2. QED  BY <2>2, <3>1, BareBlock, BlockOf
  <2>4. PICK c : c = <<b1, b2>>
    OBVIOUS
  <2>5. c \in Seq({b1, b2}) /\ Len(c) = 2 /\ c[1] = b1 /\ c[2] = b2 /\ c # <<>>
    BY <2>4
  <2>6. IsChain(c, Recorded)
    <3>1. \A i \in 1..Len(c) : IsBlock(c[i], Recorded)
      BY <2>3, <2>5
    <3>2. QED  BY <2>5, <3>1, SeqIsChain
  <2>7. b1.type = "Seed" /\ b2.type = t /\ b1.time = 0 /\ b2.time = 0
    BY <2>2 DEF Block
  <2>8. Sequential(c)
    <3>1. \A i \in 1..Len(c) : c[i].type = "Seed" <=> i = 1
      BY <2>5, <2>7
    <3>2. ~Has(c, "AddPushSource")
      BY <2>5, <2>6, <2>7, HasFacts
    <3>3. Follows(c[2], c[1])
      BY <2>5, <2>7 DEF Follows, IsData
    <3>4. \A i, j \in 1..Len(c) : i < j => i = 1 /\ j = 2
      BY <2>5
    <3>5. QED  BY <3>1, <3>2, <3>3, <3>4 DEF Sequential
  <2>9. InitialChain(d) = c
    BY <2>1, <2>2, <2>4 DEF InitialChain
  <2>10. QED  BY <2>5, <2>6, <2>8, <2>9 DEF HeadInv, Chain
<1>2. /\ now = 0 /\ head = [d \in Dataset |-> InitialChain(d)]
      /\ summary = [d \in Dataset |-> NoSummary] /\ op = [w \in Workers |-> Idle]
  BY DEF Init
<1>3. /\ DOMAIN head = Dataset /\ \A d \in Dataset : HeadInv(head[d])
      /\ DOMAIN summary = Dataset
      /\ DOMAIN op = Workers /\ \A w \in Workers : OpInv(op[w])
  BY <1>1, <1>2, IdleInv
<1>4. QED  BY <1>2, <1>3, ByParts
-----------------------------------------------------------------------------
(* The steps.                                                              *)

\* What a worker that commits has in hand.
LEMMA CommittingParts ==
  ASSUME NEW o, OpInv(o), o.kind \in {"commit", "append"}
  PROVE  /\ o.ds \in Dataset /\ Chain(o.begin) /\ HeadInv(o.base)
         /\ IsAncestor(o.begin, o.base) /\ Chain(o.events)
         /\ IsBlock(o.events[1], Recorded)
         /\ o.kind = "append" => ValidBlock(o.base, o.events[1])
<1>1. /\ o.ds \in Dataset /\ Chain(o.begin) /\ Chain(o.base)
      /\ IsAncestor(o.begin, o.base) /\ Chain(o.events)
  <2>1. o \notin {Idle, TransformAgain}
    BY DEF Idle, TransformAgain
  <2>2. QED  BY <2>1 DEF OpInv, OpOK
<1>2. IsBlock(o.events[1], Recorded)
  <2>1. IsChain(o.events, Recorded) /\ o.events # <<>>
    BY <1>1 DEF Chain
  <2>2. Len(o.events) \in Nat /\ Len(o.events) # 0
    <3>1. Len(o.events) \in Nat
      BY <2>1, ChainIsSeq
    <3>2. Len(o.events) # 0
      BY <2>1, ChainIsSeq
    <3>3. QED  BY <3>1, <3>2
  <2>3. 1 \in 1..Len(o.events)
    BY <2>2
  <2>4. QED  BY <2>1, <2>3, ChainIsSeq
<1>3. QED  BY <1>1, <1>2 DEF OpInv, HeadInv

\* What most steps use of the invariant.
LEMMA Parts ==
  ASSUME ChainInv
  PROVE  /\ now \in Nat /\ now + 1 \in Nat /\ Root \in Dataset /\ Derived \in Dataset
         /\ DOMAIN summary = Dataset
         /\ \A d \in Dataset : HeadInv(head[d])
         /\ \A w \in Workers : OpInv(op[w])
<1>1. now \in Nat /\ DOMAIN summary = Dataset
      /\ \A d \in Dataset : HeadInv(head[d])
      /\ \A w \in Workers : OpInv(op[w])
  BY ByParts
<1>2. now + 1 \in Nat
  BY <1>1
<1>3. QED  BY <1>1, <1>2 DEF Dataset

\* The remaining events, if there are any.
LEMMA TailFacts ==
  ASSUME NEW R, NEW c, IsChain(c, R), c # <<>>, Len(c) # 1
  PROVE  IsChain(Tail(c), R) /\ Tail(c) # <<>>
<1>1. PICK I : c \in Seq(Blocks(R, I))
  BY ChainIsSeq
<1>2. Tail(c) \in Seq(Blocks(R, I)) /\ Len(Tail(c)) = Len(c) - 1
  BY <1>1, HeadTailProperties
<1>3. Len(c) \in Nat
  BY <1>1
<1>4. Tail(c) # <<>>
  <2>1. PICK t : t = Tail(c)
    OBVIOUS
  <2>2. t \in Seq(Blocks(R, I)) /\ Len(t) # 0
    BY <1>2, <1>3, <2>1
  <2>3. t # <<>>
    BY <2>2, EmptySeq
  <2>4. QED  BY <2>1, <2>3
<1>5. QED  BY <1>2, <1>4, ChainOf

\* The invariant does not read summaries.
LEMMA WriteSummaryStep ==
  ASSUME ChainInv, NEW w \in Workers, WriteSummary(w)
  PROVE  ChainInv'
<1>1. /\ op' = [op EXCEPT ![w] = Idle] /\ head' = head /\ now' = now
      /\ summary' = [summary EXCEPT ![op[w].ds] = op[w].new]
  BY DEF WriteSummary
<1>2. DOMAIN summary' = Dataset /\ now' \in Nat
  BY <1>1, Parts
<1>3. QED  BY <1>1, <1>2, IdleInv, OpStep

\* Nor does it matter which summary an operation has computed.
LEMMA GetSummaryStep ==
  ASSUME ChainInv, NEW w \in Workers, NEW d \in Dataset, GetSummary(w, d)
  PROVE  ChainInv'
<1>1. PICK new : op' = [op EXCEPT ![w] = [kind |-> "summary", ds |-> d, new |-> new]]
  BY DEF GetSummary
<1>2. head' = head /\ now' = now + 1 /\ summary' = summary
  BY DEF GetSummary, Tick
<1>3. DOMAIN summary' = Dataset /\ now' \in Nat
  BY <1>2, Parts
<1>4. PICK o : o = [kind |-> "summary", ds |-> d, new |-> new]
  OBVIOUS
<1>5. OpInv(o)
  BY <1>4, SummaryInv
<1>6. QED  BY <1>1, <1>2, <1>3, <1>4, <1>5, OpStep

\* A block that passes the checks of append is valid for its base.
LEMMA CheckAppendStep ==
  ASSUME ChainInv, NEW w \in Workers, CheckAppend(w)
  PROVE  ChainInv'
<1>1. PICK o : o = op[w]
  OBVIOUS
<1>2. /\ o.kind = "commit"
      /\ op' = [op EXCEPT ![w] = IF ValidBlock(o.base, o.events[1]) /\ head[o.ds] = o.base
                                 THEN Committing("append", o.ds, o.begin, o.base, o.events)
                                 ELSE Idle]
      /\ head' = head /\ summary' = summary /\ now' = now
  BY <1>1 DEF CheckAppend
<1>3. DOMAIN summary' = Dataset /\ now' \in Nat /\ OpInv(o)
  BY <1>1, <1>2, Parts
<1>4. CASE ValidBlock(o.base, o.events[1]) /\ head[o.ds] = o.base
  <2>1. PICK p : p = Committing("append", o.ds, o.begin, o.base, o.events)
    OBVIOUS
  <2>2. OpInv(p)
    BY <1>2, <1>3, <1>4, <2>1, CommittingParts, CommittingInv
  <2>3. op' = [op EXCEPT ![w] = p]
    BY <1>2, <1>4, <2>1
  <2>4. QED  BY <1>2, <1>3, <2>2, <2>3, OpStep
<1>5. CASE ~(ValidBlock(o.base, o.events[1]) /\ head[o.ds] = o.base)
  <2>1. op' = [op EXCEPT ![w] = Idle]
    BY <1>2, <1>5
  <2>2. QED  BY <1>2, <1>3, <2>1, IdleInv, OpStep
<1>6. QED  BY <1>4, <1>5

\* The block was valid for the chain it is appended to, whatever the head is now.
LEMMA InsertBlockStep ==
  ASSUME ChainInv, NEW w \in Workers, InsertBlock(w)
  PROVE  ChainInv'
<1>1. PICK o, c : o = op[w] /\ c = Append(o.base, o.events[1])
  OBVIOUS
<1>2. /\ o.kind = "append"
      /\ head' = [head EXCEPT ![o.ds] = c]
      /\ op' = [op EXCEPT ![w] = IF Len(o.events) = 1 THEN Idle
                                 ELSE Committing("commit", o.ds, o.begin, c, Tail(o.events))]
      /\ summary' = summary /\ now' = now
  BY <1>1 DEF InsertBlock
<1>3. DOMAIN summary' = Dataset /\ now' \in Nat /\ OpInv(o)
  BY <1>1, <1>2, Parts
<1>4. /\ o.ds \in Dataset /\ Chain(o.begin) /\ HeadInv(o.base) /\ IsAncestor(o.begin, o.base)
      /\ Chain(o.events) /\ IsBlock(o.events[1], Recorded)
      /\ ValidBlock(o.base, o.events[1])
  BY <1>2, <1>3, CommittingParts
<1>5. HeadInv(c)
  <2>1. IsChain(o.base, Recorded) /\ o.base # <<>> /\ Sequential(o.base)
    BY <1>4 DEF HeadInv, Chain
  <2>2. IsChain(c, Recorded) /\ c # <<>>
    BY <1>1, <1>4, <2>1, ChainAppend
  <2>3. Sequential(c)
    BY <1>1, <1>4, <2>1, SequentialAppend
  <2>4. QED  BY <2>2, <2>3 DEF HeadInv, Chain
<1>6. \E d \in Dataset : \E x : HeadInv(x) /\ head' = [head EXCEPT ![d] = x]
  BY <1>2, <1>4, <1>5
<1>7. CASE Len(o.events) = 1
  <2>1. op' = [op EXCEPT ![w] = Idle]
    BY <1>2, <1>7
  <2>2. QED  BY <1>3, <1>6, <2>1, IdleInv, OpStep
<1>8. CASE Len(o.events) # 1
  <2>1. PICK p : p = Committing("commit", o.ds, o.begin, c, Tail(o.events))
    OBVIOUS
  <2>2. Chain(Tail(o.events))
    BY <1>4, <1>8, TailFacts DEF Chain
  <2>3. IsAncestor(o.begin, c) /\ c # o.begin
    <3>1. IsChain(o.base, Recorded) /\ IsChain(o.begin, Recorded)
      BY <1>4 DEF HeadInv, Chain
    <3>2. QED  BY <1>1, <1>4, <3>1, AncestorFacts
  <2>4. OpInv(p)
    BY <1>4, <1>5, <2>1, <2>2, <2>3, CommittingInv
  <2>5. op' = [op EXCEPT ![w] = p]
    BY <1>2, <1>8, <2>1
  <2>6. QED  BY <1>3, <1>6, <2>4, <2>5, OpStep
<1>9. QED  BY <1>7, <1>8

\* Compaction and reset make a chain the head that is as good as it was.
LEMMA SetRefStep ==
  ASSUME ChainInv, NEW w \in Workers, SetRef(w)
  PROVE  ChainInv'
<1>1. PICK o : o = op[w]
  OBVIOUS
<1>2. /\ o.kind = "rewrite" /\ head' = [head EXCEPT ![o.ds] = o.target]
      /\ op' = [op EXCEPT ![w] = o.then] /\ summary' = summary /\ now' = now
  BY <1>1 DEF SetRef
<1>3. DOMAIN summary' = Dataset /\ now' \in Nat /\ OpInv(o)
  BY <1>1, <1>2, Parts
<1>4. o.ds \in Dataset /\ HeadInv(o.target) /\ o.then \in {Idle, TransformAgain}
  <2>1. o \notin {Idle, TransformAgain}
    BY <1>2 DEF Idle, TransformAgain
  <2>2. QED  BY <1>2, <1>3, <2>1 DEF OpInv, OpOK, HeadInv
<1>5. OpInv(o.then)
  BY <1>4, IdleInv
<1>6. \E d \in Dataset : \E x : HeadInv(x) /\ head' = [head EXCEPT ![d] = x]
  BY <1>2, <1>4
<1>7. QED  BY <1>2, <1>3, <1>5, <1>6, OpStep

\* A worker that stops has nothing in hand.
LEMMA CrashStep ==
  ASSUME ChainInv, NEW w \in Workers, Crash(w)
  PROVE  ChainInv'
<1>1. /\ op' = [op EXCEPT ![w] = Idle] /\ head' = head /\ now' = now + 1
      /\ summary' = summary
  BY DEF Crash, Tick
<1>2. DOMAIN summary' = Dataset /\ now' \in Nat
  BY <1>1, Parts
<1>3. QED  BY <1>1, <1>2, IdleInv, OpStep
\* An operation that commits events on top of the head it has read.
LEMMA CommitStep ==
  ASSUME ChainInv, NEW w \in Workers, NEW d \in Dataset, NEW events, Chain(events),
         ~ToleratedNoOp(head[d], events[1]),
         op' = [op EXCEPT ![w] = Commit(d, head[d], events)],
         head' = head, DOMAIN summary' = Dataset, now' \in Nat
  PROVE  ChainInv'
<1>1. PICK o : o = Commit(d, head[d], events)
  OBVIOUS
<1>2. OpInv(o)
  BY <1>1, Parts, CommitInv
<1>3. QED  BY <1>1, <1>2, OpStep

\* Ingest starts to commit what the writer staged.
LEMMA IngestStep ==
  ASSUME ChainInv, NEW w \in Workers, NEW n \in 0..1, NEW s \in {0, now + 1}, Ingest(w, n, s)
  PROVE  ChainInv'
<1>1. PICK c, t, events : c = head[Root] /\ t = now + 1 /\ events = StagedEvents(c, n, s, t)
  OBVIOUS
<1>2. /\ events # <<>> /\ op' = [op EXCEPT ![w] = Commit(Root, head[Root], events)]
      /\ head' = head /\ summary' = summary /\ now' = now + 1
  BY <1>1 DEF Ingest, Tick
<1>3. /\ Root \in Dataset /\ DOMAIN summary' = Dataset /\ now' \in Nat /\ t \in Nat
      /\ s \in Nat /\ HeadInv(c)
  BY <1>1, <1>2, Parts
<1>4. PICK records \in Seq(Recorded) : records = NewRecords(n, t)
  <2>1. \A i \in 1..n : <<t, i>> \in Recorded
    BY <1>3 DEF Recorded
  <2>2. n \in Nat
    OBVIOUS
  <2>3. PICK r : r = NewRecords(n, t)
    OBVIOUS
  <2>4. r = [i \in 1..n |-> <<t, i>>]
    BY <2>3 DEF NewRecords
  <2>5. r \in Seq(Recorded)
    BY <2>1, <2>2, <2>4
  <2>6. QED  BY <2>3, <2>5
<1>5. IsChain(c, Recorded)
  BY <1>3 DEF HeadInv, Chain
<1>6. events = stage(c, records, t, s, t)
  BY <1>1, <1>4 DEF StagedEvents
<1>7. IsChain(events, Recorded) /\ events[1].type # "ExecuteTransform"
  BY <1>2, <1>3, <1>5, <1>6, StageFacts
<1>8. ~ToleratedNoOp(head[Root], events[1])
  BY <1>7 DEF ToleratedNoOp
<1>9. Chain(events)
  BY <1>2, <1>7 DEF Chain
<1>10. QED  BY <1>2, <1>3, <1>8, <1>9, CommitStep

\* A manual watermark is an AddData without data.
LEMMA SetWatermarkStep ==
  ASSUME ChainInv, NEW w \in Workers, SetWatermark(w)
  PROVE  ChainInv'
<1>1. PICK c, t : c = head[Root] /\ t = now + 1
  OBVIOUS
<1>2. PICK b, events : b = [NextAddData(c, t) EXCEPT !.watermark = t] /\ events = <<b>>
  OBVIOUS
<1>3. /\ op' = [op EXCEPT ![w] = Commit(Root, head[Root], events)]
      /\ head' = head /\ now' = now + 1
      /\ summary' = [summary EXCEPT ![Root] = UpdatedSummary(@, head[Root])]
  BY <1>1, <1>2 DEF SetWatermark, Tick
<1>4. Root \in Dataset /\ now' \in Nat /\ t \in Nat /\ HeadInv(c)
  BY <1>1, <1>3, Parts
<1>5. DOMAIN summary' = Dataset
  BY <1>3, Parts
<1>6. PICK e \in Blocks(Recorded, {NoInput}) : e = NextAddData(c, t) /\ e.type = "AddData"
  BY <1>4, NextAddDataFacts DEF HeadInv, Chain
<1>7. b \in Blocks(Recorded, {NoInput}) /\ b.type = e.type
  BY <1>2, <1>4, <1>6 DEF Blocks
<1>8. IsChain(events, Recorded) /\ events # <<>> /\ events[1] = b
  BY <1>2, <1>7, BlockOf, OneBlock
<1>9. ~ToleratedNoOp(head[Root], events[1])
  BY <1>6, <1>7, <1>8 DEF ToleratedNoOp
<1>10. Chain(events)
  BY <1>8 DEF Chain
<1>11. QED  BY <1>3, <1>4, <1>5, <1>9, <1>10, CommitStep

\* What users may send is blocks.
LEMMA UserEventFacts ==
  ASSUME ChainInv, NEW t \in Nat, NEW e \in UserEvents(t)
  PROVE  IsBlock(e, Recorded) /\ e.type # "ExecuteTransform"
<1>1. CASE e \in {Block(x, t) : x \in {"Seed", "SetInfo", "AddPushSource", "SetPollingSource"}}
  <2>1. PICK x \in {"Seed", "SetInfo", "AddPushSource", "SetPollingSource"} : e = Block(x, t)
    BY <1>1
  <2>2. x \in BlockTypes /\ e.type = x
    BY <2>1 DEF BlockTypes, Block
  <2>3. QED  BY <2>1, <2>2, BareBlock, BlockOf
<1>2. ASSUME NEW a \in [prevOffset : -1..0, start : 0..1, data : Objects(Root),
                        watermark : {0, t}],
             e = [Block("AddData", t) EXCEPT !.prevOffset = a.prevOffset, !.start = a.start,
                                             !.data = a.data, !.watermark = a.watermark]
      PROVE  IsBlock(e, Recorded) /\ e.type # "ExecuteTransform"
  <2>1. PICK p \in -1..0, s \in 0..1, x \in Objects(Root), m \in {0, t} :
          e = [Block("AddData", t) EXCEPT !.prevOffset = p, !.start = s, !.data = x,
                                          !.watermark = m]
    BY <1>2
  <2>2. x \in Seq(Recorded)
    <3>1. PICK c : c = head[Root]
      OBVIOUS
    <3>2. IsChain(c, Recorded)
      BY <3>1, Parts DEF HeadInv, Chain
    <3>3. PICK i \in DOMAIN c : x = c[i].data
      BY <3>1 DEF Objects
    <3>4. QED  BY <3>2, <3>3, ChainIsSeq, BlockFields
  <2>3. PICK b \in Blocks(Recorded, {NoInput}) : b = Block("AddData", t)
    <3>1. "AddData" \in BlockTypes
      BY DEF BlockTypes
    <3>2. QED  BY <3>1, BareBlock
  <2>4. b.type = "AddData"
    BY <2>3 DEF Block
  <2>5. p \in Int /\ s \in Int /\ m \in Nat
    OBVIOUS
  <2>6. e \in Blocks(Recorded, {NoInput}) /\ e.type = b.type
    BY <2>1, <2>2, <2>3, <2>5 DEF Blocks
  <2>7. QED  BY <2>4, <2>6, BlockOf
<1>3. \/ e \in {Block(x, t) : x \in {"Seed", "SetInfo", "AddPushSource", "SetPollingSource"}}
      \/ \E a \in [prevOffset : -1..0, start : 0..1, data : Objects(Root), watermark : {0, t}] :
           e = [Block("AddData", t) EXCEPT !.prevOffset = a.prevOffset, !.start = a.start,
                                           !.data = a.data, !.watermark = a.watermark]
  BY DEF UserEvents
<1>4. QED  BY <1>1, <1>2, <1>3

\* An event of a user starts to be committed.
LEMMA CommitEventStep ==
  ASSUME ChainInv, NEW w \in Workers, CommitEvent(w)
  PROVE  ChainInv'
<1>1. PICK t : t = now + 1
  OBVIOUS
<1>2. PICK e \in UserEvents(t) : op' = [op EXCEPT ![w] = Commit(Root, head[Root], <<e>>)]
  BY <1>1 DEF CommitEvent
<1>3. head' = head /\ summary' = summary /\ now' = now + 1
  BY DEF CommitEvent, Tick
<1>4. Root \in Dataset /\ DOMAIN summary' = Dataset /\ now' \in Nat /\ t \in Nat
  BY <1>1, <1>3, Parts
<1>5. IsBlock(e, Recorded) /\ e.type # "ExecuteTransform"
  BY <1>4, UserEventFacts
<1>6. PICK events : events = <<e>>
  OBVIOUS
<1>7. Chain(events) /\ events[1] = e
  BY <1>5, <1>6, OneBlock DEF Chain
<1>8. ~ToleratedNoOp(head[Root], events[1])
  BY <1>5, <1>7 DEF ToleratedNoOp
<1>9. QED  BY <1>2, <1>3, <1>4, <1>6, <1>7, <1>8, CommitStep

\* What compaction will make the head is sequential.
LEMMA StartCompactionStep ==
  ASSUME ChainInv, NEW w \in Workers, NEW d \in Dataset, NEW keep,
         NEW then \in {Idle, TransformAgain}, StartCompaction(w, d, keep, then)
  PROVE  ChainInv'
<1>1. PICK t : t = now + 1
  OBVIOUS
<1>2. /\ summary' = [summary EXCEPT ![d] = UpdatedSummary(@, head[d])]
      /\ op' = [op EXCEPT ![w] =
                  IF ~NothingToDo(head[d], keep) /\ CompactionAccepted(head[d], keep, t)
                  THEN Rewrite(d, Compacted(head[d], keep, t), then) ELSE Idle]
      /\ now' = now + 1 /\ head' = head
  BY <1>1 DEF StartCompaction, Tick
<1>3. t \in Nat /\ now' \in Nat /\ HeadInv(head[d])
  BY <1>1, <1>2, Parts
<1>4. DOMAIN summary' = Dataset
  BY <1>2, Parts
<1>5. CASE CompactionAccepted(head[d], keep, t) /\ ~NothingToDo(head[d], keep)
  <2>1. PICK a, o : a = Compacted(head[d], keep, t) /\ o = Rewrite(d, a, then)
    OBVIOUS
  <2>2. HeadInv(a)
    BY <1>3, <1>5, <2>1, CompactedInv
  <2>3. OpInv(o)
    BY <2>1, <2>2, RewriteInv
  <2>4. op' = [op EXCEPT ![w] = o]
    BY <1>2, <1>5, <2>1
  <2>5. QED  BY <1>2, <1>3, <1>4, <2>3, <2>4, OpStep
<1>6. CASE ~(CompactionAccepted(head[d], keep, t) /\ ~NothingToDo(head[d], keep))
  <2>1. op' = [op EXCEPT ![w] = Idle]
    BY <1>2, <1>6
  <2>2. QED  BY <1>2, <1>3, <1>4, <2>1, IdleInv, OpStep
<1>7. QED  BY <1>5, <1>6

\* A transform commits a query that advances, or compacts and starts again.
LEMMA TransformImplStep ==
  ASSUME ChainInv, NEW w \in Workers, NEW reset, TransformImpl(w, reset)
  PROVE  ChainInv'
<1>1. PICK c, u : c = head[Derived] /\ u = head[Root]
  OBVIOUS
<1>2. CASE NextTransform(c, u) = "InvalidInterval" /\ reset
  <2>1. StartCompaction(w, Derived, TRUE, TransformAgain)
    BY <1>1, <1>2 DEF TransformImpl
  <2>2. QED  BY <2>1, Parts, StartCompactionStep
<1>3. CASE ~(NextTransform(c, u) = "InvalidInterval" /\ reset)
  <2>1. /\ op' = [op EXCEPT ![w] = IF NextTransform(c, u) = "Updated"
                                   THEN Commit(Derived, c, TransformEvents(c, u, now))
                                   ELSE Idle]
        /\ head' = head /\ summary' = summary /\ now' = now
    BY <1>1, <1>3 DEF TransformImpl
  <2>2. /\ Derived \in Dataset /\ DOMAIN summary' = Dataset /\ now \in Nat /\ now' \in Nat
        /\ HeadInv(c) /\ HeadInv(u)
    BY <1>1, <2>1, Parts
  <2>3. CASE NextTransform(c, u) = "Updated"
    <3>1. PICK events : events = TransformEvents(c, u, now)
      OBVIOUS
    <3>2. IsChain(events, Recorded) /\ events # <<>> /\ ~ToleratedNoOp(c, events[1])
      <4>1. IsChain(c, Recorded) /\ IsChain(u, Recorded) /\ Sequential(u)
        BY <2>2 DEF HeadInv, Chain
      <4>2. PICK t \in Nat : t = now
        BY <2>2
      <4>3. events = TransformEvents(c, u, t)
        BY <3>1, <4>2
      <4>4. QED  BY <2>3, <4>1, <4>3, TransformEventsFacts
    <3>3. Chain(events)
      BY <3>2 DEF Chain
    <3>4. op' = [op EXCEPT ![w] = Commit(Derived, head[Derived], events)]
      BY <1>1, <2>1, <2>3, <3>1
    <3>5. QED  BY <1>1, <2>1, <2>2, <3>2, <3>3, <3>4, CommitStep
  <2>4. CASE NextTransform(c, u) # "Updated"
    <3>1. op' = [op EXCEPT ![w] = Idle]
      BY <2>1, <2>4
    <3>2. QED  BY <2>1, <2>2, <3>1, IdleInv, OpStep
  <2>5. QED  BY <2>3, <2>4
<1>4. QED  BY <1>2, <1>3

\* A prefix of a chain is as sequential as the chain.
LEMMA ResetStep ==
  ASSUME ChainInv, NEW w \in Workers, NEW d \in Dataset, NEW i \in 1..(Len(head[d]) - 1),
         Reset(w, d, i)
  PROVE  ChainInv'
<1>1. PICK c, a : c = head[d] /\ a = SubSeq(c, 1, i)
  OBVIOUS
<1>2. /\ op' = [op EXCEPT ![w] = Rewrite(d, a, Idle)]
      /\ head' = head /\ summary' = summary /\ now' = now + 1
  BY <1>1 DEF Reset, Tick
<1>3. HeadInv(c) /\ DOMAIN summary' = Dataset /\ now' \in Nat
  BY <1>1, <1>2, Parts
<1>4. IsChain(c, Recorded) /\ Sequential(c)
  BY <1>3 DEF HeadInv, Chain
<1>5. Len(c) \in Nat
  BY <1>4, ChainIsSeq
<1>6. i \in 0..Len(c) /\ i # 0
  BY <1>1, <1>5
<1>7. IsChain(a, Recorded) /\ Len(a) = i
  BY <1>1, <1>4, <1>6, ChainPrefix
<1>8. Sequential(a)
  BY <1>1, <1>4, <1>6, SequentialPrefix
<1>9. a # <<>>
  BY <1>6, <1>7
<1>10. HeadInv(a)
  BY <1>7, <1>8, <1>9 DEF HeadInv, Chain
<1>11. PICK o : o = Rewrite(d, a, Idle)
  OBVIOUS
<1>12. OpInv(o)
  BY <1>10, <1>11, RewriteInv
<1>13. QED  BY <1>2, <1>3, <1>11, <1>12, OpStep

\* Every step keeps the invariant.
LEMMA NextInv == ChainInv /\ [Next]_vars => ChainInv'
<1> SUFFICES ASSUME ChainInv, [Next]_vars PROVE ChainInv'
  OBVIOUS
<1>1. CASE UNCHANGED vars
  BY <1>1 DEF vars, ChainInv, DatasetsInv, TypeOK, ChainsAreSequential,
              PendingChainsAreSequential, TransformCommitsSomething
<1>2. ASSUME NEW w \in Workers, Steps(w) PROVE ChainInv'
  <2>1. CASE ResumeTransform(w)
    BY <2>1, TransformImplStep DEF ResumeTransform
  <2>2. QED
    BY <1>2, <2>1, WriteSummaryStep, CheckAppendStep, InsertBlockStep, SetRefStep DEF Steps
<1>3. ASSUME NEW w \in Workers, Crash(w) PROVE ChainInv'
  BY <1>3, CrashStep
<1>4. ASSUME NEW w \in Workers, NEW n \in 0..1, NEW s \in {0, now + 1}, Ingest(w, n, s)
      PROVE  ChainInv'
  BY <1>4, IngestStep
<1>5. ASSUME NEW w \in Workers, SetWatermark(w) PROVE ChainInv'
  BY <1>5, SetWatermarkStep
<1>6. ASSUME NEW w \in Workers, CommitEvent(w) PROVE ChainInv'
  BY <1>6, CommitEventStep
<1>7. ASSUME NEW w \in Workers, Transform(w) PROVE ChainInv'
  BY <1>7, TransformImplStep DEF Transform
<1>8. ASSUME NEW w \in Workers, NEW d \in Dataset, GetSummary(w, d) PROVE ChainInv'
  BY <1>8, GetSummaryStep
<1>9. ASSUME NEW w \in Workers, NEW d \in Dataset, NEW k \in BOOLEAN, Compact(w, d, k)
      PROVE  ChainInv'
  <2>1. StartCompaction(w, d, k, Idle)
    BY <1>9 DEF Compact
  <2>2. QED  BY <2>1, StartCompactionStep
<1>10. ASSUME NEW w \in Workers, NEW d \in Dataset, NEW i \in 1..(Len(head[d]) - 1),
              Reset(w, d, i)
       PROVE  ChainInv'
  BY <1>10, ResetStep
<1>11. QED
  BY <1>1, <1>2, <1>3, <1>4, <1>5, <1>6, <1>7, <1>8, <1>9, <1>10 DEF Next

\* The inductive invariant: the heads are sequential chains, every chain that a
\* worker is about to make a head is one as well, and a block that was checked
\* is still valid for the chain it will be appended to.
THEOREM DatasetsInvariant == Spec => []ChainInv
  BY InitInv, NextInv, PTL DEF Spec

\* Whatever the workers, the requests they get, the limit of a slice and the
\* number of operations: every chain that becomes the head of a dataset by
\* append, compaction or reset is sequential at any distance, although append
\* compares a block only with the last one and the last data block, and
\* although another worker may move the head between the check and the move.
THEOREM HeadsAreSequential == Spec => []ChainsAreSequential
<1>1. ChainInv => ChainsAreSequential
  BY DEF ChainInv
<1>2. QED  BY <1>1, DatasetsInvariant, PTL

\* The operations have what they need, and what commit_execute_transform asserts
\* holds: a transform never comes down to a no-op before it has committed
\* anything.  It takes the order of watermarks in the chain of the input: the
\* event gets that of the last block, and the news may be in an earlier one.
THEOREM TransformsCommit == Spec => []DatasetsInv
<1>1. ChainInv => DatasetsInv
  BY DEF ChainInv
<1>2. QED  BY <1>1, DatasetsInvariant, PTL

-----------------------------------------------------------------------------
(* The cached summary.                                                     *)

\* NumRecordsFrom is what its recursive definition says.
LEMMA NumRecordsRecursion ==
  ASSUME NEW R, NEW c, IsChain(c, R), NEW from
  PROVE  \E f : /\ f[0] = 0 /\ NumRecordsFrom(c, from) = f[Len(c)]
                /\ \A i \in 1..Len(c) :
                     f[i] = f[i - 1] + (IF i >= from /\ IsData(c[i]) THEN Len(c[i].data) ELSE 0)
<1>0. PICK N \in Nat : N = Len(c)
  BY ChainIsSeq
<1>1. PICK size : /\ size \in [1..N -> Nat]
                  /\ \A i \in 1..N :
                       size[i] = IF i >= from /\ IsData(c[i]) THEN Len(c[i].data) ELSE 0
  <2>1. \A i \in 1..N : Len(c[i].data) \in Nat
    <3>1. \A i \in 1..N : c[i].data \in Seq(R)
      BY <1>0, ChainIsSeq, BlockFields
    <3>2. QED  BY <3>1
  <2>2. PICK size : size = [i \in 1..N |->
                              IF i >= from /\ IsData(c[i]) THEN Len(c[i].data) ELSE 0]
    OBVIOUS
  <2>3. size \in [1..N -> Nat]
    BY <2>1, <2>2
  <2>4. QED  BY <2>2, <2>3
<1> DEFINE Def(f) == [i \in 0..N |-> IF i = 0 THEN 0
                       ELSE f[i - 1] + (IF i >= from /\ IsData(c[i]) THEN Len(c[i].data) ELSE 0)]
           step == [i \in 1..N |-> [x \in Nat |-> x + size[i]]]
<1>2. step \in [1..N -> [Nat -> Nat]] /\ 0 \in Nat
  BY <1>1
<1>3. PICK g \in [0..N -> Nat] : g[0] = 0 /\ \A i \in 1..N : g[i] = step[i][g[i - 1]]
  <2>1. PICK X, base : X = Nat /\ base = 0
    OBVIOUS
  <2> HIDE DEF step
  <2>2. step \in [1..N -> [X -> X]] /\ base \in X
    BY <1>2, <2>1
  <2>3. \E g \in [0..N -> X] : g[0] = base /\ \A i \in 1..N : g[i] = step[i][g[i - 1]]
    BY <2>2, IntervalRecursion
  <2>4. QED  BY <2>1, <2>3
<1>4. \A i \in 1..N : g[i] = g[i - 1] + size[i]
  <2>1. ASSUME NEW i \in 1..N PROVE step[i][g[i - 1]] = g[i - 1] + size[i]
    <3>1. g[i - 1] \in Nat
      OBVIOUS
    <3>2. QED  BY <3>1
  <2> HIDE DEF step
  <2>2. QED  BY <1>3, <2>1
<1>5. g = Def(g)
  <2>1. ASSUME NEW i \in 0..N PROVE g[i] = Def(g)[i]
    <3>1. CASE i = 0
      BY <1>3, <3>1
    <3>2. CASE i # 0
      <4>1. i \in 1..N
        BY <3>2
      <4>2. g[i] = g[i - 1] + (IF i >= from /\ IsData(c[i]) THEN Len(c[i].data) ELSE 0)
        BY <1>1, <1>4, <4>1
      <4>3. QED  BY <3>2, <4>2
    <3>3. QED  BY <3>1, <3>2
  <2>2. QED  BY <2>1
<1>6. PICK f : f = Def(f) /\ f = CHOOSE h : h = Def(h)
  <2> HIDE DEF Def
  <2> QED  BY <1>5
<1>7. /\ f[0] = 0
      /\ \A i \in 1..N :
           f[i] = f[i - 1] + (IF i >= from /\ IsData(c[i]) THEN Len(c[i].data) ELSE 0)
  <2>1. f[0] = 0
    BY <1>6
  <2>2. ASSUME NEW i \in 1..N
        PROVE  f[i] = f[i - 1] + (IF i >= from /\ IsData(c[i]) THEN Len(c[i].data) ELSE 0)
    <3>1. i \in 0..N /\ i # 0
      OBVIOUS
    <3>2. f[i] = Def(f)[i]
      <4> HIDE DEF Def
      <4> QED  BY <1>6
    <3>3. QED  BY <3>1, <3>2
  <2>3. QED  BY <2>1, <2>2
<1>8. NumRecordsFrom(c, from) = f[N]
  BY <1>0, <1>6 DEF NumRecordsFrom
<1>9. QED  BY <1>0, <1>7, <1>8

\* A block has as many records as its data, and their offsets lie between its
\* first and its last.
LEMMA RecordsOfFacts ==
  ASSUME NEW R, NEW b, IsBlock(b, R)
  PROVE  /\ IsFiniteSet(RecordsOf(b)) /\ Cardinality(RecordsOf(b)) = Len(b.data)
         /\ \A x \in RecordsOf(b) :
              /\ b.data # <<>>
              /\ x[1] \in Int /\ b.start <= x[1] /\ x[1] <= LastOffset(b)
<1>0. PICK N \in Nat : N = Len(b.data)
  <2>1. b.data \in Seq(R)
    BY BlockFields
  <2>2. QED  BY <2>1
<1>1. b.data \in Seq(R) /\ b.start \in Int /\ DOMAIN b.data = 1..N
  <2>1. b.data \in Seq(R) /\ b.start \in Int
    BY BlockFields
  <2>2. QED  BY <1>0, <2>1
<1>2. PICK g : g = [i \in 1..N |-> <<b.start + i - 1, b.data[i]>>]
  OBVIOUS
<1>3. RecordsOf(b) = {g[i] : i \in 1..N}
  BY <1>1, <1>2 DEF RecordsOf
<1>4. \A i \in 1..N : g[i][1] = b.start + i - 1
  BY <1>2
<1>5. g \in [1..N -> RecordsOf(b)]
  BY <1>2, <1>3
<1>6. \A i, j \in 1..N : i # j => g[i] # g[j]
  <2>1. ASSUME NEW i \in 1..N, NEW j \in 1..N, g[i] = g[j] PROVE i = j
    <3>1. b.start + i - 1 = b.start + j - 1
      BY <1>4, <2>1
    <3>2. QED  BY <1>1, <3>1
  <2>2. QED  BY <2>1
<1>7. \A x \in RecordsOf(b) : \E i \in 1..N : g[i] = x
  BY <1>3
<1>8. ExistsBijection(1..N, RecordsOf(b))
  <2>1. g \in Injection(1..N, RecordsOf(b))
    BY <1>5, <1>6 DEF Injection, IsInjective
  <2>2. g \in Surjection(1..N, RecordsOf(b))
    BY <1>5, <1>7 DEF Surjection
  <2>3. QED  BY <2>1, <2>2 DEF ExistsBijection, Bijection
<1>9. IsFiniteSet(1..N) /\ Cardinality(1..N) = N
  <2>1. 1 \in Int /\ N \in Int
    OBVIOUS
  <2>2. IsFiniteSet(1..N) /\ Cardinality(1..N) = IF 1 > N THEN 0 ELSE N - 1 + 1
    BY <2>1, FS_Interval
  <2>3. QED  BY <2>2
<1>10. IsFiniteSet(RecordsOf(b)) /\ Cardinality(RecordsOf(b)) = N
  BY <1>8, <1>9, FS_Bijection
<1>11. ASSUME NEW x \in RecordsOf(b)
       PROVE  b.data # <<>> /\ x[1] \in Int /\ b.start <= x[1] /\ x[1] <= LastOffset(b)
  <2>1. PICK i \in 1..N : x = g[i]
    BY <1>7
  <2>2. x[1] = b.start + i - 1
    BY <1>4, <2>1
  <2>3. b.data # <<>>
    BY <1>0, <1>1, EmptySeq
  <2>4. LastOffset(b) = b.start + N - 1
    BY <1>0, <2>3 DEF LastOffset
  <2>5. QED  BY <1>1, <2>2, <2>3, <2>4
<1>12. QED  BY <1>0, <1>10, <1>11

\* The records of the first m blocks of a chain.
RecordsUpTo(c, m) == UNION {RecordsOf(c[i]) : i \in {j \in 1..m : IsData(c[j])}}

\* A block more adds its records; in a sequential chain they are all new.
LEMMA RecordsUpToStep ==
  ASSUME NEW R, NEW c, IsChain(c, R), Sequential(c), NEW m \in 1..Len(c)
  PROVE  /\ ~IsData(c[m]) => RecordsUpTo(c, m) = RecordsUpTo(c, m - 1)
         /\ IsData(c[m]) => /\ RecordsUpTo(c, m) = RecordsUpTo(c, m - 1) \cup RecordsOf(c[m])
                            /\ RecordsUpTo(c, m - 1) \cap RecordsOf(c[m]) = {}
<1>0. Len(c) \in Nat /\ \A i \in 1..Len(c) : IsBlock(c[i], R)
  BY ChainIsSeq
<1>1. /\ m \in 1..m /\ \A i \in 1..m : i \in 1..(m - 1) \/ i = m
      /\ \A i \in 1..(m - 1) : i \in 1..m /\ i \in 1..Len(c) /\ i < m
  BY <1>0
<1>2. \A n : \A x : x \in RecordsUpTo(c, n) <=>
                      \E i \in 1..n : IsData(c[i]) /\ x \in RecordsOf(c[i])
  BY DEF RecordsUpTo
<1>3. ASSUME ~IsData(c[m]) PROVE RecordsUpTo(c, m) = RecordsUpTo(c, m - 1)
  BY <1>1, <1>2, <1>3
<1>4. ASSUME IsData(c[m])
      PROVE  RecordsUpTo(c, m) = RecordsUpTo(c, m - 1) \cup RecordsOf(c[m])
  BY <1>1, <1>2, <1>4
<1>5. ASSUME IsData(c[m]), NEW x, x \in RecordsUpTo(c, m - 1), x \in RecordsOf(c[m])
      PROVE  FALSE
  <2>1. PICK i \in 1..(m - 1) : IsData(c[i]) /\ x \in RecordsOf(c[i])
    BY <1>2, <1>5
  <2>2. i \in 1..Len(c) /\ i < m
    BY <1>1
  <2>3. IsBlock(c[i], R) /\ IsBlock(c[m], R)
    BY <1>0, <2>2
  <2>4. x[1] \in Int /\ x[1] <= LastOffset(c[i])
    BY <2>1, <2>3, RecordsOfFacts
  <2>5. c[m].data # <<>> /\ c[m].start <= x[1]
    BY <1>5, <2>3, RecordsOfFacts
  <2>6. Follows(c[m], c[i])
    BY <2>2 DEF Sequential
  <2>7. LastOffset(c[i]) <= c[m].prevOffset /\ c[m].start = c[m].prevOffset + 1
    BY <1>5, <2>1, <2>5, <2>6 DEF Follows
  <2>8. LastOffset(c[i]) \in Int /\ c[m].prevOffset \in Int /\ c[m].start \in Int
    BY <2>3, LastOffsetFacts, BlockFields
  <2>9. QED  BY <2>4, <2>5, <2>7, <2>8
<1>6. QED  BY <1>3, <1>4, <1>5

\* What compute_summary_increment counts is what the blocks from n + 1 on add.
LEMMA CountedRecords ==
  ASSUME NEW R, NEW c, IsChain(c, R), Sequential(c), NEW n \in 0..Len(c)
  PROVE  /\ NumRecordsFrom(c, n + 1) \in Nat
         /\ Cardinality(RecordsUpTo(c, Len(c))) =
              Cardinality(RecordsUpTo(c, n)) + NumRecordsFrom(c, n + 1)
<1>0. PICK N \in Nat : N = Len(c)
  BY ChainIsSeq
<1>1. PICK f : /\ f[0] = 0 /\ NumRecordsFrom(c, n + 1) = f[N]
               /\ \A i \in 1..N : f[i] = f[i - 1] +
                    (IF i >= n + 1 /\ IsData(c[i]) THEN Len(c[i].data) ELSE 0)
  BY <1>0, NumRecordsRecursion, SMTT(20)
<1>2. ASSUME NEW i \in 1..N
      PROVE  /\ IsFiniteSet(RecordsOf(c[i])) /\ Len(c[i].data) \in Nat
             /\ Cardinality(RecordsOf(c[i])) = Len(c[i].data)
  <2>1. IsBlock(c[i], R)
    BY <1>0, ChainIsSeq
  <2>2. c[i].data \in Seq(R)
    BY <2>1, BlockFields
  <2>3. Len(c[i].data) \in Nat
    BY <2>2
  <2>4. QED  BY <2>1, <2>3, RecordsOfFacts
<1> DEFINE U(i) == RecordsUpTo(c, i)
           T == {i \in 0..N : /\ IsFiniteSet(U(i)) /\ f[i] \in Nat
                              /\ i <= n => f[i] = 0
                              /\ n <= i => /\ IsFiniteSet(U(n))
                                          /\ Cardinality(U(i)) = Cardinality(U(n)) + f[i]}
<1>3. 0 \in T
  <2>1. U(0) = {}
    BY DEF RecordsUpTo
  <2>2. IsFiniteSet(U(0)) /\ Cardinality(U(0)) = 0
    BY <2>1, FS_EmptySet
  <2>3. n <= 0 => n = 0
    BY <1>0
  <2> HIDE DEF U
  <2>4. QED  BY <1>1, <2>2, <2>3
<1>4. ASSUME NEW i \in 1..N, i - 1 \in T PROVE i \in T
  <2> HIDE DEF U
  <2>1. /\ IsFiniteSet(U(i - 1)) /\ f[i - 1] \in Nat
        /\ i - 1 <= n => f[i - 1] = 0
        /\ n <= i - 1 => /\ IsFiniteSet(U(n))
                         /\ Cardinality(U(i - 1)) = Cardinality(U(n)) + f[i - 1]
    BY <1>4
  <2>2. PICK k \in Nat : k = Cardinality(U(i - 1))
    BY <2>1, FS_CardinalityType
  <2>3. /\ ~IsData(c[i]) => U(i) = U(i - 1)
        /\ IsData(c[i]) => U(i) = U(i - 1) \cup RecordsOf(c[i])
                           /\ U(i - 1) \cap RecordsOf(c[i]) = {}
    BY <1>0, RecordsUpToStep DEF U
  <2>4. PICK z \in Nat : z = Len(c[i].data)
    BY <1>2
  <2>5. IsFiniteSet(U(i)) /\ Cardinality(U(i)) = k + (IF IsData(c[i]) THEN z ELSE 0)
    <3>1. CASE ~IsData(c[i])
      BY <2>1, <2>2, <2>3, <3>1
    <3>2. CASE IsData(c[i])
      <4>1. PICK A, B : A = U(i - 1) /\ B = RecordsOf(c[i])
        OBVIOUS
      <4>2. IsFiniteSet(A) /\ IsFiniteSet(B) /\ A \cap B = {} /\ U(i) = A \cup B
            /\ Cardinality(A) = k /\ Cardinality(B) = z
        BY <1>2, <2>1, <2>2, <2>3, <2>4, <3>2, <4>1
      <4>3. IsFiniteSet(A \cup B)
            /\ Cardinality(A \cup B) = Cardinality(A) + Cardinality(B) - Cardinality(A \cap B)
        BY <4>2, FS_Union
      <4>4. Cardinality(A \cap B) = 0
        BY <4>2, FS_EmptySet
      <4>5. QED  BY <3>2, <4>2, <4>3, <4>4
    <3>3. QED  BY <3>1, <3>2
  <2>6. f[i] = f[i - 1] + (IF i >= n + 1 /\ IsData(c[i]) THEN z ELSE 0)
    BY <1>1, <2>4
  <2>7. f[i] \in Nat /\ (i <= n => f[i] = 0)
    BY <1>0, <2>1, <2>6
  <2>8. ASSUME n <= i
        PROVE  IsFiniteSet(U(n)) /\ Cardinality(U(i)) = Cardinality(U(n)) + f[i]
    <3>1. CASE n = i
      <4>1. f[i] = 0
        BY <2>7, <3>1
      <4>2. Cardinality(U(i)) \in Nat
        BY <2>5, FS_CardinalityType
      <4>3. QED  BY <2>5, <3>1, <4>1, <4>2
    <3>2. CASE n # i
      <4>1. n <= i - 1 /\ i >= n + 1
        BY <1>0, <2>8, <3>2
      <4>2. k = Cardinality(U(n)) + f[i - 1]
        BY <2>1, <2>2, <4>1
      <4>3. f[i] = f[i - 1] + (IF IsData(c[i]) THEN z ELSE 0)
        BY <2>6, <4>1
      <4>4. IsFiniteSet(U(n)) /\ Cardinality(U(n)) \in Nat
        BY <2>1, <4>1, FS_CardinalityType
      <4>5. QED  BY <2>1, <2>5, <4>2, <4>3, <4>4
    <3>3. QED  BY <3>1, <3>2
  <2>9. QED  BY <2>5, <2>7, <2>8
<1>5. \A i \in 0..N : i \in T
  <2> HIDE DEF T
  <2> QED  BY <1>3, <1>4, IntervalInduction
<1>6. N \in T /\ n <= N
  BY <1>0, <1>5
<1>7. QED  BY <1>0, <1>1, <1>6

\* A summary that was never computed, or that of the sequential chain it names.
ExactSummary(s) ==
  \/ s = NoSummary
  \/ /\ HeadInv(s.last)
     /\ s.numRecords = Cardinality(Records(s.last))
     /\ s.lastPulled = (IF LastDataOf(s.last) = 0 THEN 0 ELSE s.last[LastDataOf(s.last)].time)

\* update_summary makes an exact summary from an exact one, whichever branch of
\* history that one is of.
LEMMA UpdatedSummaryIsExact ==
  ASSUME NEW c, HeadInv(c), NEW prev, ExactSummary(prev)
  PROVE  ExactSummary(UpdatedSummary(prev, c))
<1>0. PICK N \in Nat : N = Len(c)
  BY ChainIsSeq DEF HeadInv, Chain
<1>1. /\ IsChain(c, Recorded) /\ Sequential(c) /\ N # 0 /\ DOMAIN c = 1..N
      /\ \A i \in 1..N : IsBlock(c[i], Recorded)
  <2>1. IsChain(c, Recorded) /\ Sequential(c) /\ c # <<>>
    BY DEF HeadInv, Chain
  <2>2. N # 0 /\ DOMAIN c = 1..N
    BY <1>0, <2>1, ChainIsSeq
  <2>3. \A i \in 1..N : IsBlock(c[i], Recorded)
    BY <1>0, <2>1, ChainIsSeq
  <2>4. QED  BY <2>1, <2>2, <2>3
<1>2. Records(c) = RecordsUpTo(c, N)
  BY <1>1 DEF Records, RecordsUpTo
<1>3. PICK k \in 0..N : k = LastDataOf(c)
  BY <1>0, <1>1, LastOfFacts DEF LastDataOf
<1>4. CASE prev.last # <<>> /\ IsAncestor(prev.last, c)
  <2>1. PICK a : a = prev.last
    OBVIOUS
  <2>2. /\ HeadInv(a) /\ prev.numRecords = Cardinality(Records(a))
        /\ prev.lastPulled = (IF LastDataOf(a) = 0 THEN 0 ELSE a[LastDataOf(a)].time)
    BY <1>4, <2>1 DEF ExactSummary, NoSummary
  <2>3. IsChain(a, Recorded)
    BY <2>2 DEF HeadInv, Chain
  <2>4. PICK n \in 0..N : n = Len(a)
    BY <1>0, <1>4, <2>1, <2>3, ChainIsSeq DEF IsAncestor
  <2>5. DOMAIN a = 1..n /\ \A i \in 1..n : a[i] = c[i]
    <3>1. a = SubSeq(c, 1, n)
      BY <1>4, <2>1, <2>4 DEF IsAncestor
    <3>2. \A i \in 1..n : SubSeq(c, 1, n)[i] = c[i]
      BY <1>0, <1>1, ChainPrefix
    <3>3. DOMAIN a = 1..n
      BY <2>3, <2>4, ChainIsSeq
    <3>4. QED  BY <3>1, <3>2, <3>3
  <2>6. Records(a) = RecordsUpTo(c, n)
    BY <2>5 DEF Records, RecordsUpTo
  <2>7. Cardinality(Records(c)) = prev.numRecords + NumRecordsFrom(c, n + 1)
    BY <1>0, <1>1, <1>2, <2>2, <2>6, CountedRecords
  <2>8. LastPulled(c, n + 1, prev.lastPulled) = IF k = 0 THEN 0 ELSE c[k].time
    <3>1. CASE k >= n + 1
      BY <1>0, <1>3, <3>1 DEF LastPulled
    <3>2. CASE ~(k >= n + 1)
      <4>1. PICK T : T = {"AddData", "ExecuteTransform"}
        OBVIOUS
      <4>2. /\ (k # 0 => c[k].type \in T) /\ \A j \in 1..N : j > k => c[j].type \notin T
        BY <1>0, <1>1, <1>3, <4>1, LastOfFacts DEF LastDataOf
      <4>3. PICK l \in 0..n : l = LastDataOf(a) /\ (l # 0 => a[l].type \in T)
                              /\ \A j \in 1..n : j > l => a[j].type \notin T
        BY <2>3, <2>4, <4>1, LastOfFacts DEF LastDataOf
      <4>4. k <= n
        BY <1>0, <3>2
      <4>5. k = l
        <5>1. ASSUME k < l PROVE FALSE
          <6>1. l \in 1..n /\ l \in 1..N
            BY <1>0, <5>1
          <6>2. QED  BY <2>5, <4>2, <4>3, <5>1, <6>1
        <5>2. ASSUME l < k PROVE FALSE
          <6>1. k \in 1..n
            BY <1>0, <4>4, <5>2
          <6>2. QED  BY <2>5, <4>2, <4>3, <5>2, <6>1
        <5>3. QED  BY <5>1, <5>2
      <4>6. k # 0 => a[k] = c[k]
        BY <1>0, <2>5, <4>4
      <4>7. QED  BY <1>3, <2>2, <3>2, <4>3, <4>5, <4>6 DEF LastPulled
    <3>3. QED  BY <3>1, <3>2
  <2>9. PICK s : s = UpdatedSummary(prev, c)
    OBVIOUS
  <2>10. /\ s.last = c /\ s.numRecords = prev.numRecords + NumRecordsFrom(c, n + 1)
         /\ s.lastPulled = LastPulled(c, n + 1, prev.lastPulled)
    BY <1>4, <2>1, <2>4, <2>9 DEF UpdatedSummary
  <2>11. ExactSummary(s)
    BY <1>3, <2>7, <2>8, <2>10 DEF ExactSummary
  <2>12. QED  BY <2>9, <2>11
<1>5. CASE ~(prev.last # <<>> /\ IsAncestor(prev.last, c))
  <2>1. Cardinality(Records(c)) = NumRecordsFrom(c, 1)
    <3>1. RecordsUpTo(c, 0) = {}
      BY DEF RecordsUpTo
    <3>2. Cardinality(RecordsUpTo(c, 0)) = 0
      BY <3>1, FS_EmptySet
    <3>3. PICK z \in 0..N : z = 0
      BY <1>0
    <3>4. Cardinality(Records(c)) = Cardinality(RecordsUpTo(c, z)) + NumRecordsFrom(c, z + 1)
      BY <1>0, <1>1, <1>2, CountedRecords
    <3>5. z + 1 = 1
      BY <3>3
    <3>6. Cardinality(Records(c)) = 0 + NumRecordsFrom(c, 1)
      BY <3>2, <3>3, <3>4, <3>5
    <3>7. NumRecordsFrom(c, 1) \in Int
      BY <1>0, <1>1, <3>3, <3>5, CountedRecords
    <3>8. QED  BY <3>6, <3>7
  <2>2. LastPulled(c, 1, 0) = IF k = 0 THEN 0 ELSE c[k].time
    BY <1>0, <1>3 DEF LastPulled
  <2>3. PICK s : s = UpdatedSummary(prev, c)
    OBVIOUS
  <2>4. s.last = c /\ s.numRecords = NumRecordsFrom(c, 1) /\ s.lastPulled = LastPulled(c, 1, 0)
    BY <1>5, <2>3 DEF UpdatedSummary
  <2>5. ExactSummary(s)
    BY <1>3, <2>1, <2>2, <2>4 DEF ExactSummary
  <2>6. QED  BY <2>3, <2>5
<1>6. QED  BY <1>4, <1>5

\* The summaries that are kept, and those that workers are about to write.
SummariesInv ==
  /\ \A d \in Dataset : ExactSummary(summary[d])
  /\ \A w \in Workers : op[w].kind = "summary" => ExactSummary(op[w].new)

\* A step that changes what one worker does, and perhaps one summary.
LEMMA SummariesStep ==
  ASSUME ChainInv, SummariesInv, NEW w \in Workers, NEW o, op' = [op EXCEPT ![w] = o],
         o.kind = "summary" => ExactSummary(o.new),
         \/ summary' = summary
         \/ \E d \in Dataset : \E s : ExactSummary(s) /\ summary' = [summary EXCEPT ![d] = s]
  PROVE  SummariesInv'
<1>1. DOMAIN summary = Dataset /\ DOMAIN op = Workers
  BY ByParts
<1>2. ASSUME NEW v \in Workers, op'[v].kind = "summary" PROVE ExactSummary(op'[v].new)
  <2>1. op'[v] = IF v = w THEN o ELSE op[v]
    BY <1>1
  <2>2. QED  BY <1>2, <2>1 DEF SummariesInv
<1>3. ASSUME NEW e \in Dataset PROVE ExactSummary(summary'[e])
  <2>1. CASE summary' = summary
    BY <2>1 DEF SummariesInv
  <2>2. CASE \E d \in Dataset : \E s : ExactSummary(s) /\ summary' = [summary EXCEPT ![d] = s]
    <3>1. PICK d \in Dataset : \E s : ExactSummary(s) /\ summary' = [summary EXCEPT ![d] = s]
      BY <2>2
    <3>2. PICK s : ExactSummary(s) /\ summary' = [summary EXCEPT ![d] = s]
      BY <3>1
    <3>3. summary'[e] = IF e = d THEN s ELSE summary[e]
      BY <1>1, <3>2
    <3>4. QED  BY <3>2, <3>3 DEF SummariesInv
  <2>3. QED  BY <2>1, <2>2
<1>4. QED  BY <1>2, <1>3 DEF SummariesInv, ExactSummary, HeadInv

\* A step that leaves summaries alone.
LEMMA NoSummaryStep ==
  ASSUME ChainInv, SummariesInv, NEW w \in Workers, NEW o, op' = [op EXCEPT ![w] = o],
         o.kind # "summary", summary' = summary
  PROVE  SummariesInv'
  BY SummariesStep

\* The operations that do not compute a summary.
LEMMA OtherKinds ==
  /\ Idle.kind # "summary" /\ TransformAgain.kind # "summary"
  /\ \A d, b, e : Commit(d, b, e).kind # "summary"
  /\ \A d, a, b, e : /\ Committing("commit", d, a, b, e).kind # "summary"
                     /\ Committing("append", d, a, b, e).kind # "summary"
  /\ \A d, t, then : Rewrite(d, t, then).kind # "summary"
  BY DEF Idle, TransformAgain, Commit, Committing, Rewrite

\* A computed summary is that of a head, and so is the one that get_summary and
\* compact_dataset and set_watermark leave behind.
LEMMA SummaryOfHead ==
  ASSUME ChainInv, SummariesInv, NEW d \in Dataset
  PROVE  /\ ExactSummary(UpdatedSummary(summary[d], head[d]))
         /\ [summary EXCEPT ![d] = UpdatedSummary(@, head[d])]
              = [summary EXCEPT ![d] = UpdatedSummary(summary[d], head[d])]
<1>1. HeadInv(head[d]) /\ ExactSummary(summary[d])
  BY Parts DEF SummariesInv
<1>2. QED  BY <1>1, UpdatedSummaryIsExact

\* Compaction brings the summary up to date first.
LEMMA SummariesCompaction ==
  ASSUME ChainInv, SummariesInv, NEW w \in Workers, NEW d \in Dataset, NEW keep, NEW then,
         StartCompaction(w, d, keep, then)
  PROVE  SummariesInv'
<1>1. PICK o : op' = [op EXCEPT ![w] = o] /\ o.kind # "summary"
  <2>1. op' = [op EXCEPT ![w] =
                  IF ~NothingToDo(head[d], keep) /\ CompactionAccepted(head[d], keep, now + 1)
                  THEN Rewrite(d, Compacted(head[d], keep, now + 1), then) ELSE Idle]
    BY DEF StartCompaction
  <2>2. PICK o : o = IF ~NothingToDo(head[d], keep) /\ CompactionAccepted(head[d], keep, now + 1)
                     THEN Rewrite(d, Compacted(head[d], keep, now + 1), then) ELSE Idle
    OBVIOUS
  <2>3. o.kind # "summary"
    BY <2>2, OtherKinds
  <2>4. QED  BY <2>1, <2>2, <2>3
<1>2. summary' = [summary EXCEPT ![d] = UpdatedSummary(@, head[d])]
  BY DEF StartCompaction
<1>3. PICK s : s = UpdatedSummary(summary[d], head[d])
  OBVIOUS
<1>4. ExactSummary(s) /\ summary' = [summary EXCEPT ![d] = s]
  BY <1>2, <1>3, SummaryOfHead
<1>5. QED  BY <1>1, <1>4, SummariesStep

\* A transform that does not start with a compaction has no summary.
LEMMA SummariesTransform ==
  ASSUME ChainInv, SummariesInv, NEW w \in Workers, NEW reset, TransformImpl(w, reset)
  PROVE  SummariesInv'
<1>1. PICK c, u : c = head[Derived] /\ u = head[Root]
  OBVIOUS
<1>2. CASE NextTransform(c, u) = "InvalidInterval" /\ reset
  <2>1. StartCompaction(w, Derived, TRUE, TransformAgain)
    BY <1>1, <1>2 DEF TransformImpl
  <2>2. QED  BY <2>1, Parts, SummariesCompaction
<1>3. CASE ~(NextTransform(c, u) = "InvalidInterval" /\ reset)
  <2>1. /\ op' = [op EXCEPT ![w] = IF NextTransform(c, u) = "Updated"
                                   THEN Commit(Derived, c, TransformEvents(c, u, now))
                                   ELSE Idle]
        /\ summary' = summary
    BY <1>1, <1>3 DEF TransformImpl
  <2>2. PICK o : o = IF NextTransform(c, u) = "Updated"
                     THEN Commit(Derived, c, TransformEvents(c, u, now)) ELSE Idle
    OBVIOUS
  <2>3. o.kind # "summary"
    BY <2>2, OtherKinds
  <2>4. op' = [op EXCEPT ![w] = o]
    BY <2>1, <2>2
  <2>5. QED  BY <2>1, <2>3, <2>4, NoSummaryStep
<1>4. QED  BY <1>2, <1>3

\* The steps of a started operation.
LEMMA SummariesSteps ==
  ASSUME ChainInv, SummariesInv, NEW w \in Workers, Steps(w)
  PROVE  SummariesInv'
<1>1. CASE WriteSummary(w)
  <2>1. op[w].kind = "summary" /\ op' = [op EXCEPT ![w] = Idle]
        /\ summary' = [summary EXCEPT ![op[w].ds] = op[w].new]
    BY <1>1 DEF WriteSummary
  <2>2. OpInv(op[w]) /\ ExactSummary(op[w].new)
    BY <2>1, Parts DEF SummariesInv
  <2>3. op[w].ds \in Dataset
    BY <2>1, <2>2 DEF OpInv, OpOK, Idle, TransformAgain
  <2>4. QED  BY <2>1, <2>2, <2>3, OtherKinds, SummariesStep
<1>2. CASE CheckAppend(w)
  <2>1. PICK o : o = op[w]
    OBVIOUS
  <2>2. PICK p : p = IF ValidBlock(o.base, o.events[1]) /\ head[o.ds] = o.base
                     THEN Committing("append", o.ds, o.begin, o.base, o.events) ELSE Idle
    OBVIOUS
  <2>3. op' = [op EXCEPT ![w] = p] /\ summary' = summary
    BY <1>2, <2>1, <2>2 DEF CheckAppend
  <2>4. p.kind # "summary"
    BY <2>2, OtherKinds
  <2>5. QED  BY <2>3, <2>4, NoSummaryStep
<1>3. CASE InsertBlock(w)
  <2>1. PICK o : o = op[w]
    OBVIOUS
  <2>2. PICK p : p = IF Len(o.events) = 1 THEN Idle
                     ELSE Committing("commit", o.ds, o.begin, Append(o.base, o.events[1]),
                                     Tail(o.events))
    OBVIOUS
  <2>3. op' = [op EXCEPT ![w] = p] /\ summary' = summary
    BY <1>3, <2>1, <2>2 DEF InsertBlock
  <2>4. p.kind # "summary"
    BY <2>2, OtherKinds
  <2>5. QED  BY <2>3, <2>4, NoSummaryStep
<1>4. CASE SetRef(w)
  <2>1. op[w].kind = "rewrite" /\ op' = [op EXCEPT ![w] = op[w].then] /\ summary' = summary
    BY <1>4 DEF SetRef
  <2>2. OpInv(op[w])
    BY Parts
  <2>3. op[w].then \in {Idle, TransformAgain}
    BY <2>1, <2>2 DEF OpInv, OpOK, Idle, TransformAgain
  <2>4. op[w].then.kind # "summary"
    BY <2>3, OtherKinds
  <2>5. QED  BY <2>1, <2>4, NoSummaryStep
<1>5. CASE ResumeTransform(w)
  BY <1>5, SummariesTransform DEF ResumeTransform
<1>6. QED  BY <1>1, <1>2, <1>3, <1>4, <1>5 DEF Steps

\* Every step keeps the summaries exact.
LEMMA SummariesNext == ChainInv /\ SummariesInv /\ [Next]_vars => SummariesInv'
<1> SUFFICES ASSUME ChainInv, SummariesInv, [Next]_vars PROVE SummariesInv'
  OBVIOUS
<1>0. Root \in Dataset
  BY DEF Dataset
<1>1. CASE UNCHANGED vars
  BY <1>1 DEF vars, SummariesInv, ExactSummary, HeadInv
<1>2. ASSUME NEW w \in Workers, Crash(w) PROVE SummariesInv'
  BY <1>2, OtherKinds, NoSummaryStep DEF Crash
<1>3. ASSUME NEW w \in Workers, NEW n, NEW s, Ingest(w, n, s) PROVE SummariesInv'
  <2>1. PICK events : op' = [op EXCEPT ![w] = Commit(Root, head[Root], events)]
                      /\ summary' = summary
    BY <1>3 DEF Ingest
  <2>2. PICK o : o = Commit(Root, head[Root], events)
    OBVIOUS
  <2>3. o.kind # "summary" /\ op' = [op EXCEPT ![w] = o]
    BY <2>1, <2>2, OtherKinds
  <2>4. QED  BY <2>1, <2>3, NoSummaryStep
<1>4. ASSUME NEW w \in Workers, SetWatermark(w) PROVE SummariesInv'
  <2>1. PICK events : op' = [op EXCEPT ![w] = Commit(Root, head[Root], events)]
    BY <1>4 DEF SetWatermark
  <2>2. summary' = [summary EXCEPT ![Root] = UpdatedSummary(@, head[Root])]
    BY <1>4 DEF SetWatermark
  <2>3. PICK t : t = UpdatedSummary(summary[Root], head[Root])
    OBVIOUS
  <2>4. ExactSummary(t) /\ summary' = [summary EXCEPT ![Root] = t]
    BY <1>0, <2>2, <2>3, SummaryOfHead
  <2>5. PICK o : o = Commit(Root, head[Root], events)
    OBVIOUS
  <2>6. o.kind # "summary" /\ op' = [op EXCEPT ![w] = o]
    BY <2>1, <2>5, OtherKinds
  <2>7. QED  BY <1>0, <2>4, <2>6, SummariesStep
<1>5. ASSUME NEW w \in Workers, CommitEvent(w) PROVE SummariesInv'
  <2>1. PICK e \in UserEvents(now + 1) :
          op' = [op EXCEPT ![w] = Commit(Root, head[Root], <<e>>)]
    BY <1>5 DEF CommitEvent
  <2>2. summary' = summary
    BY <1>5 DEF CommitEvent
  <2>3. PICK o : o = Commit(Root, head[Root], <<e>>)
    OBVIOUS
  <2>4. o.kind # "summary" /\ op' = [op EXCEPT ![w] = o]
    BY <2>1, <2>3, OtherKinds
  <2>5. QED  BY <2>2, <2>4, NoSummaryStep
<1>6. ASSUME NEW w \in Workers, Transform(w) PROVE SummariesInv'
  BY <1>6, SummariesTransform DEF Transform
<1>7. ASSUME NEW w \in Workers, NEW d \in Dataset, GetSummary(w, d) PROVE SummariesInv'
  <2>1. PICK new : new = UpdatedSummary(summary[d], head[d])
    OBVIOUS
  <2>2. PICK o : o = [kind |-> "summary", ds |-> d, new |-> new]
    OBVIOUS
  <2>3. op' = [op EXCEPT ![w] = o] /\ summary' = summary
    BY <1>7, <2>1, <2>2 DEF GetSummary
  <2>4. ExactSummary(o.new)
    BY <2>1, <2>2, SummaryOfHead
  <2>5. QED  BY <2>3, <2>4, SummariesStep
<1>8. ASSUME NEW w \in Workers, NEW d \in Dataset, NEW k, Compact(w, d, k) PROVE SummariesInv'
  BY <1>8, SummariesCompaction DEF Compact
<1>9. ASSUME NEW w \in Workers, NEW d, NEW i, Reset(w, d, i) PROVE SummariesInv'
  <2>1. op' = [op EXCEPT ![w] = Rewrite(d, SubSeq(head[d], 1, i), Idle)] /\ summary' = summary
    BY <1>9 DEF Reset
  <2>2. PICK o : o = Rewrite(d, SubSeq(head[d], 1, i), Idle)
    OBVIOUS
  <2>3. o.kind # "summary" /\ op' = [op EXCEPT ![w] = o]
    BY <2>1, <2>2, OtherKinds
  <2>4. QED  BY <2>1, <2>3, NoSummaryStep
<1>10. QED
  BY <1>1, <1>2, <1>3, <1>4, <1>5, <1>6, <1>7, <1>8, <1>9, SummariesSteps DEF Next

\* The summary of a dataset is that of the block it names, for any number of
\* readers and writers: the increments of compute_summary_increment add up to
\* the records of the chain, because offsets never overlap in a sequential
\* chain, and a summary of a branch that was left is computed from the Seed.
THEOREM SummariesAreExact == Spec => []SummaryIsExact
<1>1. Init => SummariesInv
  BY DEF Init, SummariesInv, ExactSummary, Idle
<1>2. SummariesInv => SummaryIsExact
  BY DEF SummariesInv, SummaryIsExact, ExactSummary
<1>3. QED  BY <1>1, <1>2, SummariesNext, DatasetsInvariant, PTL DEF Spec

-----------------------------------------------------------------------------
(* What a derived dataset holds.                                           *)

\* Chains with the same blocks are the same.
LEMMA ChainsEqual ==
  ASSUME NEW R, NEW a, NEW b, IsChain(a, R), IsChain(b, R), Len(a) = Len(b),
         \A i \in 1..Len(a) : a[i] = b[i]
  PROVE  a = b
<1>1. PICK S1, S2 : a \in Seq(S1) /\ b \in Seq(S2)
  BY ChainIsSeq
<1>2. PICK S : S = S1 \cup S2
  OBVIOUS
<1>3. a \in Seq(S) /\ b \in Seq(S)
  BY <1>1, <1>2
<1>4. QED  BY <1>3, SeqEqual

\* A block more has its records after those of the others.
LEMMA DataOfAppend ==
  ASSUME NEW R, NEW s, IsChain(s, R), NEW b, IsBlock(b, R)
  PROVE  DataOf(Append(s, b)) = DataOf(s) \o b.data
<1>0. PICK N \in Nat : N = Len(s)
  BY ChainIsSeq
<1>1. PICK a : a = Append(s, b)
  OBVIOUS
<1>2. IsChain(a, R) /\ Len(a) = N + 1 /\ a[N + 1] = b /\ \A i \in 1..N : a[i] = s[i]
  BY <1>0, <1>1, ChainAppend
<1>3. PICK f : f[0] = <<>> /\ (\A n \in 1..N : f[n] = f[n - 1] \o s[n].data) /\ DataOf(s) = f[N]
  BY <1>0, DataOfRecursion
<1>4. PICK g : /\ g[0] = <<>> /\ DataOf(a) = g[N + 1]
               /\ \A n \in 1..(N + 1) : g[n] = g[n - 1] \o a[n].data
  <2>1. PICK M : M = Len(a)
    OBVIOUS
  <2>2. \E g : g[0] = <<>> /\ DataOf(a) = g[M] /\ \A n \in 1..M : g[n] = g[n - 1] \o a[n].data
    BY <1>2, <2>1, DataOfRecursion
  <2>3. QED  BY <1>2, <2>1, <2>2
<1> DEFINE T == {n \in 0..N : f[n] = g[n]}
<1>5. 0 \in T
  BY <1>3, <1>4
<1>6. ASSUME NEW n \in 1..N, n - 1 \in T PROVE n \in T
  <2>1. n \in 1..(N + 1) /\ n \in 0..N /\ f[n - 1] = g[n - 1]
    BY <1>6
  <2>2. f[n] = f[n - 1] \o s[n].data /\ g[n] = g[n - 1] \o a[n].data /\ a[n] = s[n]
    BY <1>2, <1>3, <1>4, <2>1
  <2>3. QED  BY <2>1, <2>2
<1>7. \A n \in 0..N : n \in T
  <2> HIDE DEF T
  <2> QED  BY <1>5, <1>6, IntervalInduction
<1>8. f[N] = g[N]
  BY <1>7
<1>9. N + 1 \in 1..(N + 1) /\ (N + 1) - 1 = N
  OBVIOUS
<1>10. g[N + 1] = g[N] \o b.data
  BY <1>2, <1>4, <1>9
<1>11. QED  BY <1>1, <1>3, <1>4, <1>8, <1>10

\* The data blocks of a chain are blocks.
LEMMA DataBlocksChain ==
  ASSUME NEW R, NEW c, IsChain(c, R), NEW n
  PROVE  IsChain(DataBlocksAfter(c, n), R)
<1>0. PICK N \in Nat : N = Len(c)
  BY ChainIsSeq
<1>1. PICK f : /\ f[0] = <<>> /\ DataBlocksAfter(c, n) = f[N]
               /\ \A i \in 1..N :
                    f[i] = IF i > n /\ IsData(c[i]) THEN Append(f[i - 1], c[i]) ELSE f[i - 1]
  BY <1>0, DataBlocksRecursion
<1> DEFINE T == {m \in 0..N : IsChain(f[m], R)}
<1>2. 0 \in T
  BY <1>1, EmptyChain
<1>3. ASSUME NEW m \in 1..N, m - 1 \in T PROVE m \in T
  <2>1. PICK s : s = f[m - 1]
    OBVIOUS
  <2>a. IsChain(s, R) /\ m \in 0..N
    BY <1>3, <2>1
  <2>b. IsBlock(c[m], R)
    BY <1>0, ChainIsSeq
  <2>2. IsChain(s, R) /\ IsBlock(c[m], R) /\ m \in 0..N
    BY <2>a, <2>b
  <2>3. IsChain(Append(s, c[m]), R)
    BY <2>2, ChainAppend
  <2>4. f[m] = Append(s, c[m]) \/ f[m] = s
    BY <1>1, <2>1
  <2>5. QED  BY <2>2, <2>3, <2>4
<1>4. \A m \in 0..N : m \in T
  <2> HIDE DEF T
  <2> QED  BY <1>2, <1>3, IntervalInduction
<1>5. QED  BY <1>1, <1>4

\* A block more is one of the data blocks or changes nothing.
LEMMA DataBlocksAppend ==
  ASSUME NEW R, NEW c, IsChain(c, R), NEW b, IsBlock(b, R), NEW n \in Nat
  PROVE  DataBlocksAfter(Append(c, b), n) =
           IF Len(c) + 1 > n /\ IsData(b) THEN Append(DataBlocksAfter(c, n), b)
                                          ELSE DataBlocksAfter(c, n)
<1>0. PICK N \in Nat : N = Len(c)
  BY ChainIsSeq
<1>1. PICK a : a = Append(c, b)
  OBVIOUS
<1>2. IsChain(a, R) /\ Len(a) = N + 1 /\ a[N + 1] = b /\ \A i \in 1..N : a[i] = c[i]
  BY <1>0, <1>1, ChainAppend
<1>3. PICK f : /\ f[0] = <<>> /\ DataBlocksAfter(c, n) = f[N]
               /\ \A i \in 1..N :
                    f[i] = IF i > n /\ IsData(c[i]) THEN Append(f[i - 1], c[i]) ELSE f[i - 1]
  BY <1>0, DataBlocksRecursion
<1>4. PICK g : /\ g[0] = <<>> /\ DataBlocksAfter(a, n) = g[N + 1]
               /\ \A i \in 1..(N + 1) :
                    g[i] = IF i > n /\ IsData(a[i]) THEN Append(g[i - 1], a[i]) ELSE g[i - 1]
  <2>1. PICK M : M = Len(a)
    OBVIOUS
  <2>a. IsChain(a, R)
    BY <1>2
  <2>2. \E g : /\ g[0] = <<>> /\ DataBlocksAfter(a, n) = g[M]
               /\ \A i \in 1..M :
                    g[i] = IF i > n /\ IsData(a[i]) THEN Append(g[i - 1], a[i]) ELSE g[i - 1]
    BY <2>1, <2>a, DataBlocksRecursion
  <2>3. QED  BY <1>2, <2>1, <2>2
<1> DEFINE T == {i \in 0..N : f[i] = g[i]}
<1>5. 0 \in T
  BY <1>3, <1>4
<1>6. ASSUME NEW i \in 1..N, i - 1 \in T PROVE i \in T
  <2>1. i \in 1..(N + 1) /\ i \in 0..N /\ f[i - 1] = g[i - 1] /\ a[i] = c[i]
    BY <1>2, <1>6
  <2>2. g[i] = IF i > n /\ IsData(c[i]) THEN Append(f[i - 1], c[i]) ELSE f[i - 1]
    BY <1>4, <2>1
  <2>3. QED  BY <1>3, <2>1, <2>2
<1>7. \A i \in 0..N : i \in T
  <2> HIDE DEF T
  <2> QED  BY <1>5, <1>6, IntervalInduction
<1>8. f[N] = g[N]
  BY <1>7
<1>9. N + 1 \in 1..(N + 1) /\ (N + 1) - 1 = N
  OBVIOUS
<1>10. g[N + 1] = IF N + 1 > n /\ IsData(b) THEN Append(g[N], b) ELSE g[N]
  BY <1>2, <1>4, <1>9
<1>11. QED  BY <1>0, <1>1, <1>3, <1>4, <1>8, <1>10

\* The records that the blocks of a chain after the first n hold.
DataAfter(c, n) == DataOf(DataBlocksAfter(c, n))

\* How they grow.
LEMMA DataAfterAppend ==
  ASSUME NEW R, NEW c, IsChain(c, R), NEW b, IsBlock(b, R), NEW n \in Nat
  PROVE  /\ DataAfter(c, n) \in Seq(R) /\ DataAfter(Append(c, b), n) \in Seq(R)
         /\ Len(c) >= n /\ IsData(b) => DataAfter(Append(c, b), n) = DataAfter(c, n) \o b.data
         /\ ~(Len(c) >= n /\ IsData(b)) => DataAfter(Append(c, b), n) = DataAfter(c, n)
<1>1. PICK s : s = DataBlocksAfter(c, n)
  OBVIOUS
<1>2. IsChain(s, R) /\ DataOf(s) \in Seq(R)
  BY <1>1, DataBlocksChain, DataOfFacts
<1>3. DataOf(Append(s, b)) = DataOf(s) \o b.data
  BY <1>2, DataOfAppend
<1>4. DataAfter(Append(c, b), n) =
        IF Len(c) + 1 > n /\ IsData(b) THEN DataOf(s) \o b.data ELSE DataOf(s)
  <2>1. PICK z : z = DataBlocksAfter(Append(c, b), n)
    OBVIOUS
  <2>2. z = IF Len(c) + 1 > n /\ IsData(b) THEN Append(s, b) ELSE s
    BY <1>1, <2>1, DataBlocksAppend
  <2>3. DataAfter(Append(c, b), n) = DataOf(z)
    BY <2>1 DEF DataAfter
  <2>4. QED  BY <1>3, <2>2, <2>3
<1>5. IsChain(Append(c, b), R)
  BY ChainAppend
<1>6. DataAfter(Append(c, b), n) \in Seq(R)
  BY <1>5, DataBlocksChain, DataOfFacts DEF DataAfter
<1>7. Len(c) + 1 > n <=> Len(c) >= n
  <2>1. Len(c) \in Nat
    BY ChainIsSeq
  <2>2. QED  BY <2>1
<1>8. DataOf(s) = DataAfter(c, n)
  BY <1>1 DEF DataAfter
<1>9. QED  BY <1>2, <1>4, <1>6, <1>7, <1>8

\* All the records of a chain, after a data block more.
LEMMA AllDataAppend ==
  ASSUME NEW R, NEW c, IsChain(c, R), NEW b, IsBlock(b, R), IsData(b)
  PROVE  DataAfter(Append(c, b), 0) = DataAfter(c, 0) \o b.data
<1>1. PICK z \in Nat : z = 0
  OBVIOUS
<1>2. Len(c) >= z
  <2>1. Len(c) \in Nat
    BY ChainIsSeq
  <2>2. QED  BY <1>1, <2>1
<1>3. DataAfter(Append(c, b), z) = DataAfter(c, z) \o b.data
  BY <1>2, DataAfterAppend
<1>4. QED  BY <1>1, <1>3

\* From one ancestor of a chain to the next.
LEMMA DataAfterPrefix ==
  ASSUME NEW R, NEW c, IsChain(c, R), NEW m \in 1..Len(c), NEW n \in Nat,
         NEW x, x = DataAfter(SubSeq(c, 1, m - 1), n)
  PROVE  DataAfter(SubSeq(c, 1, m), n) = IF m > n /\ IsData(c[m]) THEN x \o c[m].data ELSE x
<1>0. PICK N \in Nat : N = Len(c)
  BY ChainIsSeq
<1>1. PICK p : p = SubSeq(c, 1, m - 1)
  OBVIOUS
<1>2. IsChain(p, R) /\ Len(p) = m - 1
  <2>1. m - 1 \in 0..Len(c)
    BY <1>0
  <2>2. QED  BY <1>1, <2>1, ChainPrefix
<1>3. PICK b : b = c[m] /\ IsBlock(b, R)
  BY ChainIsSeq
<1>4. SubSeq(c, 1, m) = Append(p, b)
  BY <1>1, <1>3, PrefixGrows
<1>a. IsChain(p, R) /\ IsBlock(b, R)
  BY <1>2, <1>3
<1>5. ASSUME Len(p) >= n /\ IsData(b) PROVE DataAfter(Append(p, b), n) = DataAfter(p, n) \o b.data
  <2>1. PICK d : d = b.data
    OBVIOUS
  <2>2. DataAfter(Append(p, b), n) = DataAfter(p, n) \o d
    BY <1>a, <1>5, <2>1, DataAfterAppend
  <2>3. QED  BY <2>1, <2>2
<1>6. ASSUME ~(Len(p) >= n /\ IsData(b)) PROVE DataAfter(Append(p, b), n) = DataAfter(p, n)
  BY <1>a, <1>6, DataAfterAppend
<1>7. Len(p) >= n <=> m > n
  BY <1>0, <1>2
<1>8. DataAfter(p, n) = x
  BY <1>1
<1>9. QED  BY <1>3, <1>4, <1>5, <1>6, <1>7, <1>8

\* No blocks hold no records.
LEMMA DataAfterEmpty ==
  ASSUME NEW n
  PROVE  DataAfter(<<>>, n) = <<>>
<1>1. IsChain(<<>>, {}) /\ Len(<<>>) = 0
  BY EmptyChain
<1>2. DataBlocksAfter(<<>>, n) = <<>>
  BY <1>1, DataBlocksRecursion
<1>3. DataOf(<<>>) = <<>>
  BY <1>1, DataOfRecursion
<1>4. QED  BY <1>2, <1>3 DEF DataAfter

\* The records of a chain are those of its first n blocks and then the rest.
LEMMA DataAfterSplit ==
  ASSUME NEW R, NEW c, IsChain(c, R), NEW n \in 0..Len(c)
  PROVE  DataAfter(c, 0) = DataAfter(SubSeq(c, 1, n), 0) \o DataAfter(c, n)
<1>0. PICK N \in Nat : N = Len(c)
  BY ChainIsSeq
<1> DEFINE P(m) == SubSeq(c, 1, m)
           T == {m \in 0..N :
                   /\ m <= n => DataAfter(P(m), n) = <<>>
                   /\ n <= m => DataAfter(P(m), 0) = DataAfter(P(n), 0) \o DataAfter(P(m), n)}
<1>1. ASSUME NEW m \in 0..N
      PROVE  IsChain(P(m), R) /\ Len(P(m)) = m
             /\ DataAfter(P(m), 0) \in Seq(R) /\ DataAfter(P(m), n) \in Seq(R)
  <2>1. IsChain(P(m), R) /\ Len(P(m)) = m
    BY <1>0, ChainPrefix
  <2> HIDE DEF P
  <2>2. QED  BY <2>1, DataBlocksChain, DataOfFacts DEF DataAfter
<1>2. P(0) = <<>>
  <2>1. IsChain(P(0), R) /\ Len(P(0)) = 0
    BY <1>0, <1>1
  <2> HIDE DEF P
  <2>2. QED  BY <2>1, ChainIsSeq
<1>3. 0 \in T
  <2> HIDE DEF P
  <2>1. DataAfter(P(0), n) = <<>> /\ DataAfter(P(0), 0) = <<>>
    BY <1>2, DataAfterEmpty
  <2>2. n <= 0 => n = 0
    BY <1>0
  <2>3. <<>> \o <<>> = <<>>
    OBVIOUS
  <2>4. n <= 0 => DataAfter(P(0), 0) = DataAfter(P(n), 0) \o DataAfter(P(0), n)
    BY <2>1, <2>2, <2>3
  <2>5. QED  BY <2>1, <2>4
<1>4. ASSUME NEW m \in 1..N, m - 1 \in T PROVE m \in T
  <2>1. P(m) = Append(P(m - 1), c[m])
    BY <1>0, PrefixGrows
  <2> HIDE DEF P
  <2>2. m - 1 \in 0..N /\ m \in 0..N /\ (m - 1) + 1 = m /\ m > 0
    OBVIOUS
  <2>3. IsBlock(c[m], R) /\ IsChain(P(m - 1), R) /\ Len(P(m - 1)) = m - 1
    BY <1>0, <1>1, <2>2, ChainIsSeq
  <2>4. PICK d \in Seq(R) : d = c[m].data
    BY <2>3, BlockFields
  <2>5. PICK x \in Seq(R), y \in Seq(R) : x = DataAfter(P(m - 1), 0) /\ y = DataAfter(P(m - 1), n)
    BY <1>1, <2>2
  <2>6. DataAfter(P(m), 0) = IF IsData(c[m]) THEN x \o d ELSE x
    <3>1. DataAfter(P(m), 0) = IF m > 0 /\ IsData(c[m]) THEN x \o d ELSE x
      BY <1>0, <2>4, <2>5, DataAfterPrefix DEF P
    <3>2. QED  BY <2>2, <3>1
  <2>7. DataAfter(P(m), n) = IF m > n /\ IsData(c[m]) THEN y \o d ELSE y
    BY <1>0, <2>4, <2>5, DataAfterPrefix DEF P
  <2>8. m <= n => DataAfter(P(m), n) = <<>>
    BY <1>0, <1>4, <2>2, <2>5, <2>7
  <2>9. ASSUME n <= m PROVE DataAfter(P(m), 0) = DataAfter(P(n), 0) \o DataAfter(P(m), n)
    <3>1. PICK z \in Seq(R) : z = DataAfter(P(n), 0)
      BY <1>0, <1>1
    <3>2. CASE n = m
      <4>1. DataAfter(P(m), n) = <<>>
        BY <2>8, <3>2
      <4>2. z \o <<>> = z
        BY ConcatEmptySeq
      <4>3. QED  BY <3>1, <3>2, <4>1, <4>2
    <3>3. CASE n # m
      <4>1. n <= m - 1 /\ m > n
        BY <1>0, <2>9, <3>3
      <4>2. x = z \o y
        BY <1>4, <2>5, <3>1, <4>1
      <4>3. (z \o y) \o d = z \o (y \o d)
        BY ConcatAssociative, SMTT(20)
      <4>4. QED  BY <2>6, <2>7, <3>1, <4>1, <4>2, <4>3
    <3>4. QED  BY <3>2, <3>3
  <2>10. QED  BY <2>2, <2>8, <2>9
<1>5. \A m \in 0..N : m \in T
  <2> HIDE DEF T
  <2> QED  BY <1>3, <1>4, IntervalInduction
<1>6. n <= N /\ N \in T
  BY <1>0, <1>5
<1>7. SubSeq(c, 1, N) = c
  <2>1. PICK S : c \in Seq(S)
    BY ChainIsSeq
  <2>2. QED  BY <1>0, <2>1, SubSeqFull
<1>8. QED  BY <1>6, <1>7

\* The last event after a block more.
LEMMA LastEventAppend ==
  ASSUME NEW R, NEW c, IsChain(c, R), NEW b, IsBlock(b, R), NEW t
  PROVE  /\ b.type = t => LastEvent(Append(c, b), t) = b
         /\ b.type # t => LastEvent(Append(c, b), t) = LastEvent(c, t)
         /\ b.type # t => (Has(Append(c, b), t) <=> Has(c, t))
<1>0. PICK N \in Nat : N = Len(c)
  BY ChainIsSeq
<1>1. PICK a : a = Append(c, b)
  OBVIOUS
<1>2. IsChain(a, R) /\ Len(a) = N + 1 /\ a[N + 1] = b /\ \A i \in 1..N : a[i] = c[i]
  BY <1>0, <1>1, ChainAppend
<1>3. PICK k : /\ k = LastOf(c, {t}) /\ k \in 0..N /\ (k # 0 => c[k].type \in {t})
               /\ \A j \in 1..N : j > k => c[j].type \notin {t}
  BY <1>0, LastOfFacts
<1>4. PICK l : /\ l = LastOf(a, {t}) /\ l \in 0..(N + 1) /\ (l # 0 => a[l].type \in {t})
               /\ \A j \in 1..(N + 1) : j > l => a[j].type \notin {t}
  BY <1>2, LastOfFacts
<1>5. ASSUME b.type = t PROVE l = N + 1
  BY <1>2, <1>4, <1>5
<1>6. ASSUME b.type # t PROVE l = k
  <2>1. l # N + 1
    BY <1>2, <1>4, <1>6
  <2>2. l \in 0..N
    BY <1>4, <2>1
  <2>3. ASSUME k < l PROVE FALSE
    <3>1. l \in 1..N
      BY <1>3, <2>2, <2>3
    <3>2. l # 0 /\ a[l] = c[l]
      BY <1>2, <3>1
    <3>3. a[l].type \in {t}
      BY <1>4, <3>2
    <3>4. c[l].type \notin {t}
      BY <1>3, <2>3, <3>1
    <3>5. QED  BY <3>2, <3>3, <3>4
  <2>4. ASSUME l < k PROVE FALSE
    <3>1. k \in 1..N /\ k \in 1..(N + 1)
      BY <1>3, <2>2, <2>4
    <3>2. k # 0 /\ a[k] = c[k]
      BY <1>2, <3>1
    <3>3. c[k].type \in {t}
      BY <1>3, <3>2
    <3>4. a[k].type \notin {t}
      BY <1>4, <2>4, <3>1
    <3>5. QED  BY <3>2, <3>3, <3>4
  <2>5. QED  BY <1>3, <2>2, <2>3, <2>4
<1>7. Has(a, t) = (l # 0) /\ Has(c, t) = (k # 0)
  BY <1>3, <1>4 DEF Has
<1>8. b.type = t => LastEvent(a, t) = b
  <2>1. ASSUME b.type = t PROVE LastEvent(a, t) = a[N + 1]
    <3>1. l = N + 1 /\ l # 0
      BY <1>5, <2>1
    <3>2. LastEvent(a, t) = a[l]
      BY <1>4, <1>7, <3>1 DEF LastEvent
    <3>3. QED  BY <3>1, <3>2
  <2>2. QED  BY <1>2, <2>1
<1>9. ASSUME b.type # t PROVE LastEvent(a, t) = LastEvent(c, t) /\ (Has(a, t) <=> Has(c, t))
  <2>1. l = k
    BY <1>6, <1>9
  <2>2. k # 0 => a[k] = c[k]
    BY <1>2, <1>3
  <2>3. LastEvent(a, t) = IF l # 0 THEN a[l] ELSE Block(t, 0)
    BY <1>4, <1>7 DEF LastEvent
  <2>4. LastEvent(c, t) = IF k # 0 THEN c[k] ELSE Block(t, 0)
    BY <1>3, <1>7 DEF LastEvent
  <2>5. QED  BY <1>7, <2>1, <2>2, <2>3, <2>4
<1>10. QED  BY <1>1, <1>8, <1>9

\* The block of the input up to which a derived chain has processed it.
LastQueried(c) == LastInputBlock(LastEvent(c, "ExecuteTransform").input)

\* A chain that holds the records of its input, and all of whose ancestors do.
Matches(c) == IsChain(LastQueried(c), Recorded) /\ DataAfter(c, 0) = DataAfter(LastQueried(c), 0)
Faithful(c) == IsChain(c, Recorded) /\ \A n \in 0..Len(c) : Matches(SubSeq(c, 1, n))

\* A faithful chain matches its input.
LEMMA FaithfulMatches ==
  ASSUME NEW c, Faithful(c)
  PROVE  Matches(c) /\ IsChain(c, Recorded)
<1>1. IsChain(c, Recorded) /\ \A n \in 0..Len(c) : Matches(SubSeq(c, 1, n))
  BY DEF Faithful
<1>2. PICK S : c \in Seq(S)
  BY <1>1, ChainIsSeq
<1>3. Len(c) \in 0..Len(c) /\ SubSeq(c, 1, Len(c)) = c
  BY <1>2, SubSeqFull
<1>4. Matches(SubSeq(c, 1, Len(c)))
  BY <1>1, <1>3
<1>5. QED  BY <1>1, <1>3, <1>4

\* Its ancestors are faithful.
LEMMA FaithfulPrefix ==
  ASSUME NEW c, Faithful(c), NEW n \in 0..Len(c)
  PROVE  Faithful(SubSeq(c, 1, n))
<1>1. IsChain(c, Recorded) /\ \A m \in 0..Len(c) : Matches(SubSeq(c, 1, m))
  BY DEF Faithful
<1>2. PICK a : a = SubSeq(c, 1, n)
  OBVIOUS
<1>3. IsChain(a, Recorded) /\ Len(a) = n /\ \A i \in 1..n : a[i] = c[i]
  BY <1>1, <1>2, ChainPrefix
<1>4. ASSUME NEW m \in 0..n PROVE Matches(SubSeq(a, 1, m))
  <2>0. Len(c) \in Nat
    BY <1>1, ChainIsSeq
  <2>1. m \in 0..Len(c) /\ m \in 0..Len(a)
    BY <1>3, <2>0
  <2>2. PICK x, y : x = SubSeq(a, 1, m) /\ y = SubSeq(c, 1, m)
    OBVIOUS
  <2>3. IsChain(x, Recorded) /\ Len(x) = m /\ \A i \in 1..m : x[i] = a[i]
    BY <1>3, <2>1, <2>2, ChainPrefix
  <2>4. IsChain(y, Recorded) /\ Len(y) = m /\ \A i \in 1..m : y[i] = c[i]
    BY <1>1, <2>1, <2>2, ChainPrefix
  <2>5. \A i \in 1..m : x[i] = y[i]
    BY <1>3, <2>0, <2>3, <2>4
  <2>6. x = y
    BY <2>3, <2>4, <2>5, ChainsEqual
  <2>7. Matches(y)
    BY <1>1, <2>1, <2>2
  <2>8. QED  BY <2>2, <2>6, <2>7
<1>5. QED  BY <1>2, <1>3, <1>4 DEF Faithful

\* One block more that keeps the match.
LEMMA FaithfulAppend ==
  ASSUME NEW c, Faithful(c), NEW b, IsBlock(b, Recorded), Matches(Append(c, b))
  PROVE  Faithful(Append(c, b))
<1>1. IsChain(c, Recorded) /\ \A m \in 0..Len(c) : Matches(SubSeq(c, 1, m))
  BY DEF Faithful
<1>0. PICK N \in Nat : N = Len(c)
  BY <1>1, ChainIsSeq
<1>2. PICK a : a = Append(c, b)
  OBVIOUS
<1>3. IsChain(a, Recorded) /\ Len(a) = N + 1 /\ \A i \in 1..N : a[i] = c[i]
  BY <1>0, <1>1, <1>2, ChainAppend
<1>4. ASSUME NEW m \in 0..(N + 1) PROVE Matches(SubSeq(a, 1, m))
  <2>1. CASE m = N + 1
    <3>1. PICK S : a \in Seq(S)
      BY <1>3, ChainIsSeq
    <3>2. SubSeq(a, 1, Len(a)) = a
      BY <3>1, SubSeqFull
    <3>3. SubSeq(a, 1, m) = a
      BY <1>3, <2>1, <3>2
    <3>4. QED  BY <1>2, <3>3
  <2>2. CASE m \in 0..N
    <3>1. m \in 0..Len(a) /\ m \in 0..Len(c)
      BY <1>0, <1>3, <2>2
    <3>2. PICK x, y : x = SubSeq(a, 1, m) /\ y = SubSeq(c, 1, m)
      OBVIOUS
    <3>3. IsChain(x, Recorded) /\ Len(x) = m /\ \A i \in 1..m : x[i] = a[i]
      BY <1>3, <3>1, <3>2, ChainPrefix
    <3>4. IsChain(y, Recorded) /\ Len(y) = m /\ \A i \in 1..m : y[i] = c[i]
      BY <1>1, <3>1, <3>2, ChainPrefix
    <3>5. \A i \in 1..m : x[i] = y[i]
      BY <1>3, <2>2, <3>3, <3>4
    <3>6. x = y
      BY <3>3, <3>4, <3>5, ChainsEqual
    <3>7. Matches(y)
      BY <1>1, <3>1, <3>2
    <3>8. QED  BY <3>2, <3>6, <3>7
  <2>3. QED  BY <1>0, <2>1, <2>2
<1>5. QED  BY <1>2, <1>3, <1>4 DEF Faithful

\* A block without data keeps it.
LEMMA MetadataIsFaithful ==
  ASSUME NEW c, Faithful(c), NEW b, IsBlock(b, Recorded), ~IsData(b)
  PROVE  Faithful(Append(c, b))
<1>1. IsChain(c, Recorded) /\ Matches(c)
  BY FaithfulMatches
<1>2. b.type # "ExecuteTransform"
  BY DEF IsData
<1>3. PICK a : a = Append(c, b)
  OBVIOUS
<1>4. LastQueried(a) = LastQueried(c)
  <2>1. LastEvent(a, "ExecuteTransform") = LastEvent(c, "ExecuteTransform")
    BY <1>1, <1>2, <1>3, LastEventAppend
  <2>2. QED  BY <2>1 DEF LastQueried
<1>5. DataAfter(a, 0) = DataAfter(c, 0)
  <2>1. PICK z \in Nat : z = 0
    OBVIOUS
  <2>2. DataAfter(a, z) = DataAfter(c, z)
    BY <1>1, <1>3, DataAfterAppend
  <2>3. QED  BY <2>1, <2>2
<1>6. Matches(a)
  BY <1>1, <1>4, <1>5 DEF Matches
<1>7. QED  BY <1>3, <1>6, FaithfulAppend

\* So does a query that starts where the last one ended and whose records are
\* those of the blocks of the input since then.
LEMMA QueryIsFaithful ==
  ASSUME NEW c, Faithful(c), NEW b, IsBlock(b, Recorded), b.type = "ExecuteTransform",
         b.input.prevBlock = LastQueried(c), IsChain(b.input.newBlock, Recorded),
         ~InvalidInterval(b.input), b.data = DataOf(Unprocessed(b.input))
  PROVE  Faithful(Append(c, b))
<1>1. IsChain(c, Recorded) /\ Matches(c)
  BY FaithfulMatches
<1>2. PICK prev, new : prev = b.input.prevBlock /\ new = b.input.newBlock
  OBVIOUS
<1>3. IsChain(prev, Recorded) /\ DataAfter(c, 0) = DataAfter(prev, 0) /\ IsChain(new, Recorded)
  BY <1>1, <1>2 DEF Matches
<1>4. b.data = DataAfter(new, Len(prev))
  BY <1>2 DEF Unprocessed, DataAfter
<1>5. PICK a : a = Append(c, b)
  OBVIOUS
<1>6. LastQueried(a) = IF new # <<>> THEN new ELSE prev
  <2>1. LastEvent(a, "ExecuteTransform") = b
    BY <1>1, <1>5, LastEventAppend
  <2>2. QED  BY <1>2, <2>1 DEF LastQueried, LastInputBlock
<1>7. DataAfter(a, 0) = DataAfter(prev, 0) \o b.data
  <2>1. IsData(b) /\ IsChain(c, Recorded)
    BY <1>1 DEF IsData
  <2>2. DataAfter(Append(c, b), 0) = DataAfter(c, 0) \o b.data
    BY <2>1, AllDataAppend, Zenon
  <2>3. QED  BY <1>3, <1>5, <2>2
<1>8. CASE new = <<>>
  <2>1. b.data = <<>>
    BY <1>4, <1>8, DataAfterEmpty
  <2>2. DataAfter(prev, 0) \in Seq(Recorded)
    BY <1>3, DataBlocksChain, DataOfFacts DEF DataAfter
  <2>3. DataAfter(prev, 0) \o <<>> = DataAfter(prev, 0)
    BY <2>2, ConcatEmptySeq
  <2>4. Matches(a)
    BY <1>3, <1>6, <1>7, <1>8, <2>1, <2>3 DEF Matches
  <2>5. QED  BY <1>5, <2>4, FaithfulAppend
<1>9. CASE new # <<>>
  <2>1. IsAncestor(prev, new)
    BY <1>2, <1>9 DEF InvalidInterval
  <2>2. PICK n : n = Len(prev)
    OBVIOUS
  <2>3. n \in 0..Len(new) /\ prev = SubSeq(new, 1, n)
    <3>1. Len(prev) \in Nat /\ Len(new) \in Nat
      BY <1>3, ChainIsSeq
    <3>2. QED  BY <2>1, <2>2, <3>1 DEF IsAncestor
  <2>4. DataAfter(new, 0) = DataAfter(prev, 0) \o DataAfter(new, n)
    BY <1>3, <2>3, DataAfterSplit
  <2>5. Matches(a)
    BY <1>3, <1>4, <1>6, <1>7, <1>9, <2>2, <2>4 DEF Matches
  <2>6. QED  BY <1>5, <2>5, FaithfulAppend
<1>10. QED  BY <1>8, <1>9

\* A chain without data is faithful: it has processed nothing.
LEMMA NoDataIsFaithful ==
  ASSUME NEW c, IsChain(c, Recorded), \A i \in 1..Len(c) : ~IsData(c[i])
  PROVE  Faithful(c)
<1>0. PICK N \in Nat : N = Len(c)
  BY ChainIsSeq
<1> DEFINE P(n) == SubSeq(c, 1, n)
           T == {n \in 0..N : Faithful(P(n))}
<1>1. 0 \in T
  <2>1. IsChain(P(0), Recorded) /\ Len(P(0)) = 0
    BY <1>0, ChainPrefix
  <2>2. PICK e : e = <<>>
    OBVIOUS
  <2>3. P(0) = e
    <3> HIDE DEF P
    <3> QED  BY <2>1, <2>2, ChainIsSeq
  <2>4. IsChain(e, Recorded) /\ Len(e) = 0
    BY <2>2, EmptyChain
  <2>5. ~Has(e, "ExecuteTransform")
    BY <2>4, HasFacts
  <2>6. LastQueried(e) = <<>>
    BY <2>5 DEF LastQueried, LastEvent, LastInputBlock, Block, NoInput
  <2>7. Matches(e)
    BY <2>2, <2>4, <2>6 DEF Matches
  <2>8. \A n \in 0..Len(e) : SubSeq(e, 1, n) = e
    <3>1. PICK S : e \in Seq(S)
      BY <2>4, ChainIsSeq
    <3>2. SubSeq(e, 1, Len(e)) = e
      BY <3>1, SubSeqFull
    <3>3. QED  BY <2>4, <3>2
  <2>9. Faithful(e)
    BY <2>4, <2>7, <2>8 DEF Faithful
  <2>10. QED
    <3> HIDE DEF P
    <3> QED  BY <2>3, <2>9
<1>2. ASSUME NEW n \in 1..N, n - 1 \in T PROVE n \in T
  <2>1. PICK b : b = c[n] /\ IsBlock(b, Recorded) /\ ~IsData(b)
    BY <1>0, ChainIsSeq
  <2>2. P(n) = Append(P(n - 1), b)
    BY <1>0, <2>1, PrefixGrows
  <2> HIDE DEF P
  <2>3. Faithful(P(n - 1)) /\ n \in 0..N
    BY <1>2
  <2>4. Faithful(Append(P(n - 1), b))
    BY <2>1, <2>3, MetadataIsFaithful
  <2>5. QED  BY <2>2, <2>3, <2>4
<1>3. \A n \in 0..N : n \in T
  <2> HIDE DEF T
  <2> QED  BY <1>1, <1>2, IntervalInduction
<1>4. Faithful(P(N))
  BY <1>3
<1>5. P(N) = c
  <2>1. PICK S : c \in Seq(S)
    BY ChainIsSeq
  <2>2. QED  BY <1>0, <2>1, SubSeqFull
<1>6. QED
  <2> HIDE DEF P
  <2> QED  BY <1>4, <1>5

\* A sequence and one element.
LEMMA ConcatOne ==
  ASSUME NEW S, NEW s \in Seq(S), NEW e \in S
  PROVE  s \o <<e>> = Append(s, e)
<1>1. PICK a : a = <<e>>
  OBVIOUS
<1>2. a \in Seq(S) /\ Len(a) = 1 /\ a[1] = e
  BY <1>1
<1>3. /\ s \o a \in Seq(S) /\ Len(s \o a) = Len(s) + 1
      /\ \A i \in 1..(Len(s) + 1) : (s \o a)[i] = IF i <= Len(s) THEN s[i] ELSE a[i - Len(s)]
  <2>1. /\ s \o a \in Seq(S) /\ Len(s \o a) = Len(s) + Len(a)
        /\ \A i \in 1..(Len(s) + Len(a)) :
             (s \o a)[i] = IF i <= Len(s) THEN s[i] ELSE a[i - Len(s)]
    BY <1>2, ConcatProperties
  <2>2. QED  BY <1>2, <2>1
<1>4. /\ Append(s, e) \in Seq(S) /\ Len(s) \in Nat /\ Len(Append(s, e)) = Len(s) + 1
      /\ Append(s, e)[Len(s) + 1] = e /\ \A i \in 1..Len(s) : Append(s, e)[i] = s[i]
  BY AppendFacts
<1>5. \A i \in 1..(Len(s) + 1) : (s \o a)[i] = Append(s, e)[i]
  <2>1. ASSUME NEW i \in 1..(Len(s) + 1) PROVE (s \o a)[i] = Append(s, e)[i]
    <3>1. CASE i = Len(s) + 1
      BY <1>2, <1>3, <1>4, <3>1
    <3>2. CASE i \in 1..Len(s)
      BY <1>3, <1>4, <3>2
    <3>3. Len(s) \in Nat
      BY <1>4
    <3>4. i = Len(s) + 1 \/ i \in 1..Len(s)
      BY <3>3
    <3>5. QED  BY <3>1, <3>2, <3>4
  <2>2. QED  BY <2>1
<1>6. QED  BY <1>1, <1>3, <1>4, <1>5, SeqEqual

\* The first of several events, and the others.
LEMMA FirstEvent ==
  ASSUME NEW R, NEW base, IsChain(base, R), NEW events, IsChain(events, R), events # <<>>,
         NEW w, w = base \o events, NEW a, a = Append(base, events[1])
  PROVE  /\ Len(base) + 1 \in 0..Len(w)
         /\ a = SubSeq(w, 1, Len(base) + 1)
         /\ a \o Tail(events) = w
<1>1. PICK S1, S2 : base \in Seq(S1) /\ events \in Seq(S2)
  BY ChainIsSeq
<1>2. PICK S : S = S1 \cup S2
  OBVIOUS
<1>3. base \in Seq(S) /\ events \in Seq(S) /\ Len(base) \in Nat /\ Len(events) \in Nat \ {0}
  <2>1. base \in Seq(S) /\ events \in Seq(S)
    BY <1>1, <1>2
  <2>2. Len(events) \in Nat \ {0}
    BY <2>1, EmptySeq
  <2>3. QED  BY <2>1, <2>2
<1>4. PICK m, n : m = Len(base) /\ n = Len(events)
  OBVIOUS
<1>5. m \in Nat /\ n \in Nat \ {0}
  BY <1>3, <1>4
<1>7. /\ w \in Seq(S) /\ Len(w) = m + n
      /\ \A i \in 1..(m + n) : w[i] = IF i <= m THEN base[i] ELSE events[i - m]
  BY <1>3, <1>4, ConcatProperties
<1>8. IsChain(w, R)
  <2>1. (\A i \in 1..m : IsBlock(base[i], R)) /\ (\A i \in 1..n : IsBlock(events[i], R))
    BY <1>4, ChainIsSeq
  <2>2. \A i \in 1..Len(w) : IsBlock(w[i], R)
    BY <1>5, <1>7, <2>1
  <2>3. QED  BY <1>7, <2>2, SeqIsChain
<1>10. /\ a \in Seq(S) /\ Len(a) = m + 1 /\ a[m + 1] = events[1]
       /\ \A i \in 1..m : a[i] = base[i]
  <2>1. events[1] \in S
    BY <1>3, ElementOfSeq
  <2>2. QED  BY <1>3, <1>4, <2>1, AppendFacts
<1>11. m + 1 \in 0..Len(w)
  BY <1>5, <1>7
<1>12. \A i \in 1..(m + 1) : a[i] = w[i]
  <2>1. ASSUME NEW i \in 1..(m + 1) PROVE a[i] = w[i]
    <3>1. CASE i = m + 1
      BY <1>5, <1>7, <1>10, <3>1
    <3>2. CASE i \in 1..m
      BY <1>5, <1>7, <1>10, <3>2
    <3>3. i = m + 1 \/ i \in 1..m
      BY <1>5
    <3>4. QED  BY <3>1, <3>2, <3>3
  <2>2. QED  BY <2>1
<1>13. a = SubSeq(w, 1, m + 1)
  <2>1. PICK p : p = SubSeq(w, 1, m + 1)
    OBVIOUS
  <2>2. IsChain(p, R) /\ Len(p) = m + 1 /\ \A i \in 1..(m + 1) : p[i] = w[i]
    BY <1>8, <1>11, <2>1, ChainPrefix
  <2>3. IsChain(a, R)
    <3>1. IsBlock(events[1], R)
      <4>1. 1 \in 1..Len(events)
        BY <1>3
      <4>2. QED  BY <4>1, ChainIsSeq
    <3>2. QED  BY <3>1, ChainAppend
  <2>4. a = p
    BY <1>10, <1>12, <2>2, <2>3, ChainsEqual
  <2>5. QED  BY <2>1, <2>4
<1>15. a \o Tail(events) = w
  <2>1. PICK r : r = Tail(events)
    OBVIOUS
  <2>2. r \in Seq(S) /\ Len(r) = n - 1 /\ \A i \in 1..(n - 1) : r[i] = events[i + 1]
    BY <1>3, <1>4, <2>1, HeadTailProperties
  <2>3. /\ a \o r \in Seq(S) /\ Len(a \o r) = (m + 1) + (n - 1)
        /\ \A i \in 1..((m + 1) + (n - 1)) :
             (a \o r)[i] = IF i <= m + 1 THEN a[i] ELSE r[i - (m + 1)]
    <3>1. /\ a \o r \in Seq(S) /\ Len(a \o r) = Len(a) + Len(r)
          /\ \A i \in 1..(Len(a) + Len(r)) :
               (a \o r)[i] = IF i <= Len(a) THEN a[i] ELSE r[i - Len(a)]
      <4>1. a \in Seq(S) /\ r \in Seq(S)
        BY <1>10, <2>2
      <4>2. QED  BY <4>1, ConcatProperties
    <3>2. Len(a) = m + 1 /\ Len(r) = n - 1
      BY <1>10, <2>2
    <3>3. QED  BY <3>1, <3>2
  <2>4. ASSUME NEW i \in 1..(m + n) PROVE (a \o r)[i] = w[i]
    <3>0. i \in 1..((m + 1) + (n - 1)) /\ (i <= m + 1 => i \in 1..(m + 1))
      BY <1>5
    <3>1. (a \o r)[i] = IF i <= m + 1 THEN a[i] ELSE r[i - (m + 1)]
      BY <2>3, <3>0
    <3>2. CASE i <= m + 1
      BY <1>12, <3>0, <3>1, <3>2
    <3>3. CASE ~(i <= m + 1)
      <4>1. i - (m + 1) \in 1..(n - 1) /\ (i - (m + 1)) + 1 = i - m /\ ~(i <= m)
        BY <1>5, <3>3
      <4>2. r[i - (m + 1)] = events[i - m]
        BY <2>2, <4>1
      <4>3. QED  BY <1>7, <3>1, <3>3, <4>1, <4>2
    <3>4. QED  BY <3>2, <3>3
  <2>5. Len(a \o r) = m + n
    BY <1>5, <2>3
  <2>6. a \o r = w
    BY <1>7, <2>3, <2>4, <2>5, SeqEqual
  <2>7. QED  BY <2>1, <2>6
<1>16. QED  BY <1>4, <1>11, <1>13, <1>15

\* The events of a transform keep the match: the schema, if it is new, and the
\* query, which begins where the last one ended.
LEMMA TransformIsFaithful ==
  ASSUME NEW c, Faithful(c), NEW u, IsChain(u, Recorded), Sequential(u), NEW time \in Nat,
         NextTransform(c, u) = "Updated",
         NEW events, events = TransformEvents(c, u, time)
  PROVE  Faithful(c \o events)
<1>1. PICK input : input = NextInput(LastEvent(c, "ExecuteTransform").input, u)
  OBVIOUS
<1>2. PICK b : b = Transformed(c, input, time)
  OBVIOUS
<1>3. IsChain(c, Recorded)
  BY FaithfulMatches
<1>4. /\ IsBlock(b, Recorded) /\ b.type = "ExecuteTransform" /\ b.input = input
      /\ b.data = DataOf(Unprocessed(input))
  BY <1>1, <1>2, <1>3, TransformedFacts
<1>5. ~InvalidInterval(input)
  BY <1>1 DEF NextTransform
<1>6. input.prevBlock = LastQueried(c) /\ input.newBlock \in {u, <<>>}
  BY <1>1 DEF NextInput, LastQueried
<1>7. IsChain(input.newBlock, Recorded)
  BY <1>6, EmptyChain
<1>8. PICK S : c \in Seq(S)
  BY <1>3, ChainIsSeq
<1>9. events = WithSchema(c, time, <<b>>)
  BY <1>1, <1>2 DEF TransformEvents
<1>10. CASE Has(c, "SetDataSchema")
  <2>1. PICK one : one = <<b>>
    OBVIOUS
  <2>2. one \in Seq({b})
    BY <2>1
  <2>3. <<>> \o one = one
    BY <2>2, ConcatEmptySeq
  <2>4. events = one
    BY <1>9, <1>10, <2>1, <2>3 DEF WithSchema
  <2>5. PICK Z : Z = S \cup {b}
    OBVIOUS
  <2>6. c \in Seq(Z) /\ b \in Z
    BY <1>8, <2>5
  <2>7. c \o <<b>> = Append(c, b)
    BY <2>6, ConcatOne
  <2>8. Faithful(Append(c, b))
    BY <1>4, <1>5, <1>6, <1>7, QueryIsFaithful
  <2>9. QED  BY <2>1, <2>4, <2>7, <2>8
<1>11. CASE ~Has(c, "SetDataSchema")
  <2>1. PICK s : s = Block("SetDataSchema", time)
    OBVIOUS
  <2>2. IsBlock(s, Recorded) /\ ~IsData(s) /\ s.type # "ExecuteTransform"
    <3>1. "SetDataSchema" \in BlockTypes
      BY DEF BlockTypes
    <3>2. s \in Blocks(Recorded, {NoInput})
      BY <2>1, <3>1, BareBlock
    <3>3. s.type = "SetDataSchema"
      BY <2>1 DEF Block
    <3>4. QED  BY <3>2, <3>3, BlockOf DEF IsData
  <2>3. PICK a : a = Append(c, s)
    OBVIOUS
  <2>4. Faithful(a)
    BY <2>2, <2>3, MetadataIsFaithful
  <2>5. LastQueried(a) = LastQueried(c)
    <3>1. LastEvent(a, "ExecuteTransform") = LastEvent(c, "ExecuteTransform")
      BY <1>3, <2>2, <2>3, LastEventAppend
    <3>2. QED  BY <3>1 DEF LastQueried
  <2>6. Faithful(Append(a, b))
    BY <1>4, <1>5, <1>6, <1>7, <2>4, <2>5, QueryIsFaithful
  <2>7. PICK Z : Z = S \cup {s, b}
    OBVIOUS
  <2>8. c \in Seq(Z) /\ s \in Z /\ b \in Z
    BY <1>8, <2>7
  <2>9. c \o <<s>> = a
    BY <2>3, <2>8, ConcatOne
  <2>10. a \in Seq(Z)
    BY <2>3, <2>8, AppendFacts
  <2>11. a \o <<b>> = Append(a, b)
    BY <2>8, <2>10, ConcatOne
  <2>12. PICK x, y : x = <<s>> /\ y = <<b>>
    OBVIOUS
  <2>13. x \in Seq(Z) /\ y \in Seq(Z)
    BY <2>8, <2>12
  <2>14. (c \o x) \o y = c \o (x \o y)
    BY <2>8, <2>13, ConcatAssociative
  <2>15. events = x \o y
    BY <1>9, <1>11, <2>1, <2>12 DEF WithSchema
  <2>16. c \o events = Append(a, b)
    BY <2>9, <2>11, <2>12, <2>14, <2>15
  <2>17. QED  BY <2>6, <2>16
<1>12. QED  BY <1>10, <1>11

\* Compaction that keeps only metadata leaves no data.
LEMMA CompactionIsFaithful ==
  ASSUME NEW c, HeadInv(c), NEW keep, OnlyMetadata(keep), NEW t \in Nat
  PROVE  Faithful(Compacted(c, keep, t))
<1>1. IsChain(c, Recorded) /\ c # <<>> /\ Sequential(c)
  BY DEF HeadInv, Chain
<1>2. PICK n : n = Compacted(c, keep, t)
  OBVIOUS
<1>3. IsChain(n, Recorded) /\ Len(n) \in Nat \ {0} /\ n[1] = c[1]
  BY <1>1, <1>2, CompactedFacts
<1>4. \A i \in 2..Len(n) : \E j \in 1..Len(c) : n[i].type = c[j].type /\ Kept(c[j])
  <2>1. HasMetadataOf(n, c, t)
    BY <1>1, <1>2, CompactedMetadata
  <2>2. QED  BY <2>1 DEF HasMetadataOf
<1>5. ASSUME NEW i \in 1..Len(n) PROVE ~IsData(n[i])
  <2>1. CASE i = 1
    <3>1. 1 \in 1..Len(c)
      <4>1. Len(c) \in Nat /\ Len(c) # 0
        BY <1>1, ChainIsSeq
      <4>2. QED  BY <4>1
    <3>2. c[1].type = "Seed"
      BY <1>1, <3>1 DEF Sequential
    <3>3. QED  BY <1>3, <2>1, <3>2 DEF IsData
  <2>2. CASE i \in 2..Len(n)
    <3>1. PICK j \in 1..Len(c) : n[i].type = c[j].type /\ Kept(c[j])
      BY <1>4, <2>2
    <3>2. QED  BY <3>1 DEF Kept, IsData
  <2>3. i = 1 \/ i \in 2..Len(n)
    BY <1>3
  <2>4. QED  BY <2>1, <2>2, <2>3
<1>6. QED  BY <1>2, <1>3, <1>5, NoDataIsFaithful

\* What operations on the derived dataset will make its head matches the input,
\* at each block they commit.
FaithfulOp(o) ==
  /\ o.kind \in {"commit", "append"} /\ o.ds = Derived => Faithful(o.base \o o.events)
  /\ o.kind = "rewrite" /\ o.ds = Derived => Faithful(o.target)

DerivedInv == Faithful(head[Derived]) /\ \A w \in Workers : FaithfulOp(op[w])

\* A step that changes what one worker does, and perhaps a head.
LEMMA DerivedStep ==
  ASSUME ChainInv, DerivedInv, NEW w \in Workers, NEW o, FaithfulOp(o),
         op' = [op EXCEPT ![w] = o],
         \/ head' = head
         \/ \E d \in Dataset : \E c : /\ head' = [head EXCEPT ![d] = c]
                                      /\ d = Derived => Faithful(c)
  PROVE  DerivedInv'
<1>1. DOMAIN head = Dataset /\ DOMAIN op = Workers /\ Derived \in Dataset
  BY ByParts DEF Dataset
<1>2. ASSUME NEW v \in Workers PROVE FaithfulOp(op'[v])
  <2>1. op'[v] = IF v = w THEN o ELSE op[v]
    BY <1>1
  <2>2. QED  BY <2>1 DEF DerivedInv
<1>3. Faithful(head'[Derived])
  <2>1. CASE head' = head
    BY <2>1 DEF DerivedInv
  <2>2. CASE \E d \in Dataset : \E c : /\ head' = [head EXCEPT ![d] = c]
                                       /\ d = Derived => Faithful(c)
    <3>1. PICK d \in Dataset : \E c : /\ head' = [head EXCEPT ![d] = c]
                                      /\ d = Derived => Faithful(c)
      BY <2>2
    <3>2. PICK c : head' = [head EXCEPT ![d] = c] /\ (d = Derived => Faithful(c))
      BY <3>1
    <3>3. head'[Derived] = IF Derived = d THEN c ELSE head[Derived]
      BY <1>1, <3>2
    <3>4. QED  BY <3>2, <3>3 DEF DerivedInv
  <2>3. QED  BY <2>1, <2>2
<1>4. QED  BY <1>2, <1>3 DEF DerivedInv, FaithfulOp


\* Operations that commit nothing on the derived dataset.
LEMMA OtherOperations ==
  /\ FaithfulOp(Idle) /\ FaithfulOp(TransformAgain)
  /\ \A b, e : FaithfulOp(Commit(Root, b, e))
  /\ \A d, n : FaithfulOp([kind |-> "summary", ds |-> d, new |-> n])
<1>1. Root # Derived
  BY DatasetsAssumption
<1>2. ASSUME NEW b, NEW e PROVE FaithfulOp(Commit(Root, b, e))
  <2>1. PICK o : o = Commit(Root, b, e)
    OBVIOUS
  <2>2. o.kind = "commit" /\ o.ds = Root
    BY <2>1 DEF Commit, Committing
  <2>3. QED  BY <1>1, <2>1, <2>2 DEF FaithfulOp
<1>3. ASSUME NEW d, NEW n PROVE FaithfulOp([kind |-> "summary", ds |-> d, new |-> n])
  <2>1. PICK o : o = [kind |-> "summary", ds |-> d, new |-> n]
    OBVIOUS
  <2>2. o.kind = "summary"
    BY <2>1
  <2>3. QED  BY <2>1, <2>2 DEF FaithfulOp
<1>4. FaithfulOp(Idle) /\ FaithfulOp(TransformAgain)
  BY DEF FaithfulOp, Idle, TransformAgain
<1>5. QED  BY <1>2, <1>3, <1>4

\* Operations on one dataset.
LEMMA FaithfulCommitting ==
  ASSUME NEW step \in {"commit", "append"}, NEW d, NEW begin, NEW base, NEW events,
         d = Derived => Faithful(base \o events)
  PROVE  FaithfulOp(Committing(step, d, begin, base, events))
<1>1. PICK o : o = Committing(step, d, begin, base, events)
  OBVIOUS
<1>2. o.kind = step /\ o.ds = d /\ o.base = base /\ o.events = events
  BY <1>1 DEF Committing
<1>3. QED  BY <1>1, <1>2 DEF FaithfulOp

\* A head to be set is faithful when its chain is.
LEMMA FaithfulRewrite ==
  ASSUME NEW d, NEW target, NEW then, d = Derived => Faithful(target)
  PROVE  FaithfulOp(Rewrite(d, target, then))
<1>1. PICK o : o = Rewrite(d, target, then)
  OBVIOUS
<1>2. o.kind = "rewrite" /\ o.ds = d /\ o.target = target
  BY <1>1 DEF Rewrite
<1>3. QED  BY <1>1, <1>2 DEF FaithfulOp


\* A derived dataset is only compacted to its metadata.
LEMMA DerivedCompaction ==
  ASSUME ChainInv, DerivedInv, NEW w \in Workers, NEW d \in Dataset, NEW keep,
         d = Derived => OnlyMetadata(keep),
         NEW then \in {Idle, TransformAgain}, StartCompaction(w, d, keep, then)
  PROVE  DerivedInv'
<1>1. PICK t : t = now + 1
  OBVIOUS
<1>2. /\ op' = [op EXCEPT ![w] =
                  IF ~NothingToDo(head[d], keep) /\ CompactionAccepted(head[d], keep, t)
                  THEN Rewrite(d, Compacted(head[d], keep, t), then) ELSE Idle]
      /\ head' = head
  BY <1>1 DEF StartCompaction
<1>3. t \in Nat /\ HeadInv(head[d])
  BY <1>1, Parts
<1>4. PICK o : o = IF ~NothingToDo(head[d], keep) /\ CompactionAccepted(head[d], keep, t)
                   THEN Rewrite(d, Compacted(head[d], keep, t), then) ELSE Idle
  OBVIOUS
<1>5. FaithfulOp(o)
  <2>1. d = Derived => Faithful(Compacted(head[d], keep, t))
    BY <1>3, CompactionIsFaithful
  <2>2. FaithfulOp(Rewrite(d, Compacted(head[d], keep, t), then))
    BY <2>1, FaithfulRewrite
  <2>3. QED  BY <1>4, <2>2, OtherOperations
<1>6. QED  BY <1>2, <1>4, <1>5, DerivedStep

\* A transform.
LEMMA DerivedTransform ==
  ASSUME ChainInv, DerivedInv, NEW w \in Workers, NEW reset, TransformImpl(w, reset)
  PROVE  DerivedInv'
<1>1. PICK c, u : c = head[Derived] /\ u = head[Root]
  OBVIOUS
<1>2. CASE NextTransform(c, u) = "InvalidInterval" /\ reset
  <2>1. PICK keep : OnlyMetadata(keep) /\ StartCompaction(w, Derived, keep, TransformAgain)
    BY <1>1, <1>2 DEF TransformImpl, OnlyMetadata
  <2>2. QED  BY <2>1, Parts, DerivedCompaction
<1>3. CASE ~(NextTransform(c, u) = "InvalidInterval" /\ reset)
  <2>1. /\ op' = [op EXCEPT ![w] = IF NextTransform(c, u) = "Updated"
                                   THEN Commit(Derived, c, TransformEvents(c, u, now))
                                   ELSE Idle]
        /\ head' = head
    BY <1>1, <1>3 DEF TransformImpl
  <2>2. PICK o : o = IF NextTransform(c, u) = "Updated"
                     THEN Commit(Derived, c, TransformEvents(c, u, now)) ELSE Idle
    OBVIOUS
  <2>3. FaithfulOp(o)
    <3>1. CASE NextTransform(c, u) = "Updated"
      <4>1. PICK t \in Nat : t = now
        BY Parts
      <4>2. PICK events : events = TransformEvents(c, u, t)
        OBVIOUS
      <4>3. HeadInv(u)
        BY <1>1, Parts
      <4>4. IsChain(u, Recorded) /\ Sequential(u) /\ Faithful(c)
        BY <1>1, <4>3 DEF DerivedInv, HeadInv, Chain
      <4>5. Faithful(c \o events)
        BY <3>1, <4>2, <4>4, TransformIsFaithful
      <4>6. o = Committing("commit", Derived, c, c, events)
        BY <2>2, <3>1, <4>1, <4>2 DEF Commit
      <4>7. QED  BY <4>5, <4>6, FaithfulCommitting
    <3>2. CASE NextTransform(c, u) # "Updated"
      BY <2>2, <3>2, OtherOperations
    <3>3. QED  BY <3>1, <3>2
  <2>4. op' = [op EXCEPT ![w] = o]
    BY <2>1, <2>2
  <2>5. QED  BY <2>1, <2>3, <2>4, DerivedStep
<1>4. QED  BY <1>2, <1>3

\* The steps of a started operation: a block that is appended makes the head an
\* ancestor of the chain the operation was to reach.
LEMMA DerivedSteps ==
  ASSUME ChainInv, DerivedInv, NEW w \in Workers, Steps(w)
  PROVE  DerivedInv'
<1>1. PICK o : o = op[w]
  OBVIOUS
<1>2. OpInv(o) /\ FaithfulOp(o)
  BY <1>1, Parts DEF DerivedInv
<1>3. CASE WriteSummary(w)
  BY <1>3, OtherOperations, DerivedStep DEF WriteSummary
<1>4. CASE CheckAppend(w)
  <2>1. PICK p : p = IF ValidBlock(o.base, o.events[1]) /\ head[o.ds] = o.base
                     THEN Committing("append", o.ds, o.begin, o.base, o.events) ELSE Idle
    OBVIOUS
  <2>2. o.kind = "commit" /\ op' = [op EXCEPT ![w] = p] /\ head' = head
    BY <1>1, <1>4, <2>1 DEF CheckAppend
  <2>3. o.ds = Derived => Faithful(o.base \o o.events)
    BY <1>2, <2>2 DEF FaithfulOp
  <2>4. FaithfulOp(p)
    BY <2>1, <2>3, FaithfulCommitting, OtherOperations
  <2>5. QED  BY <2>2, <2>4, DerivedStep
<1>5. CASE InsertBlock(w)
  <2>1. PICK c, rest : c = Append(o.base, o.events[1]) /\ rest = Tail(o.events)
    OBVIOUS
  <2>2. PICK p : p = IF Len(o.events) = 1 THEN Idle
                     ELSE Committing("commit", o.ds, o.begin, c, rest)
    OBVIOUS
  <2>3. /\ o.kind = "append" /\ op' = [op EXCEPT ![w] = p]
        /\ head' = [head EXCEPT ![o.ds] = c]
    BY <1>1, <1>5, <2>1, <2>2 DEF InsertBlock
  <2>4. o.ds \in Dataset /\ HeadInv(o.base) /\ Chain(o.events)
    BY <1>2, <2>3, CommittingParts
  <2>5. PICK base, events : base = o.base /\ events = o.events
    OBVIOUS
  <2>6. IsChain(base, Recorded) /\ IsChain(events, Recorded) /\ events # <<>>
    BY <2>4, <2>5 DEF HeadInv, Chain
  <2>7. ASSUME o.ds = Derived PROVE Faithful(c) /\ Faithful(c \o rest)
    <3>1. Faithful(base \o events)
      BY <1>2, <2>3, <2>5, <2>7 DEF FaithfulOp
    <3>2. PICK a, n : a = base \o events /\ n = Len(base) + 1
      OBVIOUS
    <3>3. n \in 0..Len(a) /\ c = SubSeq(a, 1, n) /\ c \o rest = a
      <4>1. c = Append(base, events[1]) /\ rest = Tail(events)
        BY <2>1, <2>5
      <4>2. Len(base) + 1 \in 0..Len(a) /\ c = SubSeq(a, 1, Len(base) + 1)
            /\ c \o Tail(events) = a
        BY <2>6, <3>2, <4>1, FirstEvent
      <4>3. QED  BY <3>2, <4>1, <4>2
    <3>4. Faithful(SubSeq(a, 1, n))
      BY <3>1, <3>2, <3>3, FaithfulPrefix
    <3>5. QED  BY <3>1, <3>2, <3>3, <3>4
  <2>8. FaithfulOp(p)
    BY <2>2, <2>7, FaithfulCommitting, OtherOperations
  <2>9. QED  BY <2>3, <2>4, <2>7, <2>8, DerivedStep
<1>6. CASE SetRef(w)
  <2>1. /\ o.kind = "rewrite" /\ op' = [op EXCEPT ![w] = o.then]
        /\ head' = [head EXCEPT ![o.ds] = o.target]
    BY <1>1, <1>6 DEF SetRef
  <2>2. o.ds \in Dataset /\ o.then \in {Idle, TransformAgain}
    <3>1. o \notin {Idle, TransformAgain}
      BY <2>1 DEF Idle, TransformAgain
    <3>2. QED  BY <1>2, <2>1, <3>1 DEF OpInv, OpOK
  <2>3. o.ds = Derived => Faithful(o.target)
    BY <1>2, <2>1 DEF FaithfulOp
  <2>4. FaithfulOp(o.then)
    BY <2>2, OtherOperations
  <2>5. QED  BY <2>1, <2>2, <2>3, <2>4, DerivedStep
<1>7. CASE ResumeTransform(w)
  BY <1>7, DerivedTransform DEF ResumeTransform
<1>8. QED  BY <1>3, <1>4, <1>5, <1>6, <1>7, DerivedStep DEF Steps

\* Every step keeps the match.
LEMMA DerivedNext == ChainInv /\ DerivedInv /\ [Next]_vars => DerivedInv'
<1> SUFFICES ASSUME ChainInv, DerivedInv, [Next]_vars PROVE DerivedInv'
  OBVIOUS
<1>1. CASE UNCHANGED vars
  BY <1>1 DEF vars, DerivedInv, FaithfulOp
<1>2. ASSUME NEW w \in Workers, Crash(w) PROVE DerivedInv'
  BY <1>2, OtherOperations, DerivedStep DEF Crash
<1>3. ASSUME NEW w \in Workers, NEW events, head' = head,
             op' = [op EXCEPT ![w] = Commit(Root, head[Root], events)]
      PROVE  DerivedInv'
  <2>1. PICK o : o = Commit(Root, head[Root], events)
    OBVIOUS
  <2>2. FaithfulOp(o)
    BY <2>1, OtherOperations
  <2>3. QED  BY <1>3, <2>1, <2>2, DerivedStep
<1>4. ASSUME NEW w \in Workers, NEW n, NEW s, Ingest(w, n, s) PROVE DerivedInv'
  BY <1>3, <1>4 DEF Ingest
<1>5. ASSUME NEW w \in Workers, SetWatermark(w) PROVE DerivedInv'
  BY <1>3, <1>5 DEF SetWatermark
<1>6. ASSUME NEW w \in Workers, CommitEvent(w) PROVE DerivedInv'
  BY <1>3, <1>6 DEF CommitEvent
<1>7. ASSUME NEW w \in Workers, Transform(w) PROVE DerivedInv'
  BY <1>7, DerivedTransform DEF Transform
<1>8. ASSUME NEW w \in Workers, NEW d \in Dataset, GetSummary(w, d) PROVE DerivedInv'
  <2>1. PICK new : new = UpdatedSummary(summary[d], head[d])
    OBVIOUS
  <2>2. PICK o : o = [kind |-> "summary", ds |-> d, new |-> new]
    OBVIOUS
  <2>3. op' = [op EXCEPT ![w] = o] /\ head' = head
    BY <1>8, <2>1, <2>2 DEF GetSummary
  <2>4. FaithfulOp(o)
    BY <2>2, OtherOperations
  <2>5. QED  BY <2>3, <2>4, DerivedStep
<1>9. ASSUME NEW w \in Workers, NEW d \in Dataset, NEW k \in BOOLEAN, Compact(w, d, k)
      PROVE  DerivedInv'
  <2>1. StartCompaction(w, d, k, Idle) /\ (d = Derived => k)
    BY <1>9 DEF Compact
  <2>2. d = Derived => OnlyMetadata(k)
    BY <2>1 DEF OnlyMetadata
  <2>3. QED  BY <2>1, <2>2, DerivedCompaction
<1>10. ASSUME NEW w \in Workers, NEW d \in Dataset, NEW i \in 1..(Len(head[d]) - 1),
              Reset(w, d, i)
       PROVE  DerivedInv'
  <2>1. PICK c, a : c = head[d] /\ a = SubSeq(c, 1, i)
    OBVIOUS
  <2>2. PICK o : o = Rewrite(d, a, Idle)
    OBVIOUS
  <2>3. op' = [op EXCEPT ![w] = o] /\ head' = head
    BY <1>10, <2>1, <2>2 DEF Reset
  <2>4. i \in 0..Len(c)
    <3>1. HeadInv(c)
      BY <2>1, Parts
    <3>2. Len(c) \in Nat
      BY <3>1, ChainIsSeq DEF HeadInv, Chain
    <3>3. QED  BY <2>1, <3>2
  <2>5. d = Derived => Faithful(a)
    BY <2>1, <2>4, FaithfulPrefix DEF DerivedInv
  <2>6. FaithfulOp(o)
    BY <2>2, <2>5, FaithfulRewrite
  <2>7. QED  BY <2>3, <2>6, DerivedStep
<1>11. QED
  BY <1>1, <1>2, <1>4, <1>5, <1>6, <1>7, <1>8, <1>9, <1>10, DerivedSteps DEF Next

\* Nothing is processed when the datasets are created.
LEMMA DerivedInit == Init => DerivedInv
<1> SUFFICES ASSUME Init PROVE DerivedInv
  OBVIOUS
<1>1. PICK a, b, c : a = Block("Seed", 0) /\ b = Block("SetTransform", 0) /\ c = <<a, b>>
  OBVIOUS
<1>2. head[Derived] = c
  BY <1>1, DatasetsAssumption DEF Init, InitialChain, Dataset
<1>3. a.type = "Seed" /\ b.type = "SetTransform"
  BY <1>1 DEF Block
<1>4. c \in Seq({a, b}) /\ Len(c) = 2 /\ c[1] = a /\ c[2] = b
  BY <1>1
<1>5. IsBlock(a, Recorded) /\ IsBlock(b, Recorded)
  <2>1. "Seed" \in BlockTypes /\ "SetTransform" \in BlockTypes
    BY DEF BlockTypes
  <2>2. QED  BY <1>1, <2>1, BareBlock, BlockOf
<1>6. \A i \in 1..Len(c) : IsBlock(c[i], Recorded) /\ ~IsData(c[i])
  <2>1. ~IsData(a) /\ ~IsData(b)
    BY <1>3 DEF IsData
  <2>2. QED  BY <1>4, <1>5, <2>1
<1>7. IsChain(c, Recorded)
  BY <1>4, <1>6, SeqIsChain
<1>8. Faithful(c)
  BY <1>6, <1>7, NoDataIsFaithful
<1>9. \A w \in Workers : op[w] = Idle
  BY DEF Init
<1>10. QED  BY <1>2, <1>8, <1>9, OtherOperations DEF DerivedInv

\* A derived dataset holds every record of its input once and in order, up to
\* the block its last query names, for any number of workers: the interval of a
\* query begins at the block where the last one ended, a chain is replaced only
\* by one of its ancestors or by its metadata, and an operation that is stopped
\* between two blocks leaves an ancestor of the chain it was to reach.
THEOREM DerivedHoldsItsInput == Spec => []DerivedMatchesItsInput
<1>1. DerivedInv => DerivedMatchesItsInput
  <2>1. ASSUME DerivedInv PROVE Matches(head[Derived])
    BY <2>1, FaithfulMatches DEF DerivedInv
  <2>2. QED  BY <2>1 DEF Matches, DerivedMatchesItsInput, Processed, LastQueried, DataAfter
<1>2. QED  BY <1>1, DerivedInit, DerivedNext, DatasetsInvariant, PTL DEF Spec

-----------------------------------------------------------------------------
(* A transform makes progress.                                             *)

\* The data blocks after the first n are blocks of the chain.
LEMMA DataBlocksOrigin ==
  ASSUME NEW R, NEW c, IsChain(c, R), NEW n \in Nat, NEW k, k = DataBlocksAfter(c, n)
  PROVE  \A i \in 1..Len(k) : \E j \in 1..Len(c) : j > n /\ k[i] = c[j] /\ IsData(c[j])
<1>0. PICK N \in Nat : N = Len(c)
  BY ChainIsSeq
<1>1. PICK f : /\ f[0] = <<>> /\ k = f[N]
               /\ \A i \in 1..N :
                    f[i] = IF i > n /\ IsData(c[i]) THEN Append(f[i - 1], c[i]) ELSE f[i - 1]
  BY <1>0, DataBlocksRecursion
<1> DEFINE From(s) == \A i \in 1..Len(s) : \E j \in 1..N : j > n /\ s[i] = c[j] /\ IsData(c[j])
           T == {m \in 0..N : IsChain(f[m], R) /\ From(f[m])}
<1>2. 0 \in T
  <2>1. IsChain(<<>>, R) /\ Len(<<>>) = 0
    BY EmptyChain
  <2>2. From(<<>>)
    BY <2>1
  <2>3. QED  BY <1>1, <2>1, <2>2
<1>3. ASSUME NEW m \in 1..N, m - 1 \in T PROVE m \in T
  <2>1. PICK s, b : s = f[m - 1] /\ b = c[m]
    OBVIOUS
  <2>2. IsChain(s, R) /\ From(s) /\ IsBlock(b, R) /\ m \in 0..N
    <3>1. IsChain(s, R) /\ From(s) /\ m \in 0..N
      BY <1>3, <2>1
    <3>2. m \in 1..Len(c)
      BY <1>0
    <3>3. IsBlock(c[m], R)
      BY <3>2, ChainIsSeq
    <3>4. QED  BY <2>1, <3>1, <3>3
  <2>3. CASE m > n /\ IsData(b)
    <3>1. PICK a : a = Append(s, b)
      OBVIOUS
    <3>2. /\ IsChain(a, R) /\ Len(a) = Len(s) + 1 /\ a[Len(s) + 1] = b
          /\ \A i \in 1..Len(s) : a[i] = s[i]
      BY <2>2, <3>1, ChainAppend
    <3>3. Len(s) \in Nat
      BY <2>2, ChainIsSeq
    <3>4. ASSUME NEW i \in 1..Len(a)
          PROVE  \E j \in 1..N : j > n /\ a[i] = c[j] /\ IsData(c[j])
      <4>1. CASE i = Len(s) + 1
        BY <2>1, <2>3, <3>2, <4>1
      <4>2. CASE i \in 1..Len(s)
        BY <2>2, <3>2, <4>2
      <4>3. i = Len(s) + 1 \/ i \in 1..Len(s)
        BY <3>2, <3>3
      <4>4. QED  BY <4>1, <4>2, <4>3
    <3>5. f[m] = a
      BY <1>1, <2>1, <2>3, <3>1
    <3>6. QED  BY <2>2, <3>2, <3>4, <3>5
  <2>4. CASE ~(m > n /\ IsData(b))
    <3>1. f[m] = s
      BY <1>1, <2>1, <2>4
    <3>2. QED  BY <2>2, <3>1
  <2>5. QED  BY <2>3, <2>4
<1>4. \A m \in 0..N : m \in T
  <2> HIDE DEF T
  <2> QED  BY <1>2, <1>3, IntervalInduction
<1>5. From(f[N])
  <2>1. N \in T
    BY <1>4
  <2>2. QED  BY <2>1
<1>6. QED  BY <1>0, <1>1, <1>5

\* Blocks without records have none together.
LEMMA NoRecords ==
  ASSUME NEW R, NEW s, IsChain(s, R), \A i \in 1..Len(s) : s[i].data = <<>>
  PROVE  DataOf(s) = <<>>
<1>0. PICK N \in Nat : N = Len(s)
  BY ChainIsSeq
<1>1. PICK f : /\ f[0] = <<>> /\ DataOf(s) = f[N]
               /\ \A n \in 1..N : f[n] = f[n - 1] \o s[n].data
  BY <1>0, DataOfRecursion
<1> DEFINE T == {n \in 0..N : f[n] = <<>>}
<1>2. 0 \in T
  BY <1>1
<1>3. ASSUME NEW n \in 1..N, n - 1 \in T PROVE n \in T
  <2>1. f[n - 1] = <<>> /\ s[n].data = <<>> /\ n \in 0..N
    BY <1>0, <1>3
  <2>2. PICK e : e = <<>>
    OBVIOUS
  <2>3. e \in Seq({}) /\ e \o <<>> = e
    BY <2>2, ConcatEmptySeq
  <2>4. f[n] = <<>>
    BY <1>1, <2>1, <2>2, <2>3
  <2>5. QED  BY <2>1, <2>4
<1>4. \A n \in 0..N : n \in T
  <2> HIDE DEF T
  <2> QED  BY <1>2, <1>3, IntervalInduction
<1>5. QED  BY <1>1, <1>4

\* The offset up to which a query has read its input, and its watermark, are
\* those of a data block of the input.
KnowsInput(b) ==
  LET last == LastInputBlock(b.input) IN
  /\ ChainLastOffset(last) # -1 => LastInputOffset(b.input) = ChainLastOffset(last)
  /\ b.watermark # 0 =>
       \E j \in 1..Len(last) : IsData(last[j]) /\ b.watermark <= last[j].watermark

\* The blocks of a derived dataset at the time t.
GoodBlock(b, t) ==
  /\ b.type \in {"Seed", "SetTransform", "SetDataSchema", "ExecuteTransform"}
  /\ b.time \in 0..t
  /\ b.type = "ExecuteTransform" => KnowsInput(b)
Good(c, t) == \A i \in 1..Len(c) : GoodBlock(c[i], t)

\* So it is for the last query, and if there was none.
LEMMA LastQueryKnowsInput ==
  ASSUME NEW R, NEW c, IsChain(c, R), NEW t, Good(c, t)
  PROVE  KnowsInput(LastEvent(c, "ExecuteTransform"))
<1>1. PICK e : e = "ExecuteTransform"
  OBVIOUS
<1>2. CASE Has(c, e)
  <2>1. PICK k : k = LastOf(c, {e})
    OBVIOUS
  <2>2. k \in 0..Len(c) /\ k # 0 /\ c[k].type \in {e}
    BY <1>2, <2>1, LastOfFacts DEF Has
  <2>3. k \in 1..Len(c) /\ c[k].type = e
    BY <2>2
  <2>4. KnowsInput(c[k])
    BY <1>1, <2>3 DEF Good, GoodBlock
  <2>5. LastEvent(c, e) = c[k]
    BY <1>2, <2>1 DEF LastEvent
  <2>6. QED  BY <1>1, <2>4, <2>5
<1>3. CASE ~Has(c, e)
  <2>1. PICK b : b = LastEvent(c, e)
    OBVIOUS
  <2>2. b.input = NoInput /\ b.watermark = 0
    BY <1>3, <2>1 DEF LastEvent, Block
  <2>3. LastInputBlock(b.input) = <<>>
    BY <2>2 DEF LastInputBlock, NoInput
  <2>4. ChainLastOffset(<<>>) = -1
    <3>1. IsChain(<<>>, {}) /\ Len(<<>>) = 0
      BY EmptyChain
    <3>2. LastDataOf(<<>>) = 0
      BY <3>1, LastOfFacts DEF LastDataOf
    <3>3. QED  BY <3>2 DEF ChainLastOffset
  <2>5. KnowsInput(b)
    BY <2>2, <2>3, <2>4 DEF KnowsInput
  <2>6. QED  BY <1>1, <2>1, <2>5
<1>4. QED  BY <1>2, <1>3

\* A query of what is new in the input knows it up to its head, and has no
\* earlier watermark than the one before it.
LEMMA QueryKnowsInput ==
  ASSUME NEW prev, IsBlock(prev, Recorded), KnowsInput(prev),
         IsChain(LastInputBlock(prev.input), Recorded), NEW u, HeadInv(u),
         NEW input, input = NextInput(prev.input, u), ~InvalidInterval(input),
         NEW b, b.input = input, NEW time, Continues(b, prev, Unprocessed(input), time)
  PROVE  /\ KnowsInput(b) /\ prev.watermark <= b.watermark
         /\ input.newOffset # -1 => input.newBlock # <<>>
<1>1. PICK last, off, x : /\ last = LastInputBlock(prev.input) /\ off = LastInputOffset(prev.input)
                          /\ x = IF ChainLastOffset(u) # -1 THEN ChainLastOffset(u) ELSE off
  OBVIOUS
<1>2. /\ input.prevBlock = last /\ input.newBlock = IF u # last THEN u ELSE <<>>
      /\ input.prevOffset = off /\ input.newOffset = IF x # off THEN x ELSE -1
  BY <1>1 DEF NextInput
<1>3. IsChain(u, Recorded) /\ u # <<>> /\ Sequential(u)
  BY DEF HeadInv, Chain
<1>4. LastInputBlock(input) = u
  BY <1>2, <1>3 DEF LastInputBlock
<1>5. ChainLastOffset(u) # -1 => LastInputOffset(input) = ChainLastOffset(u)
  BY <1>1, <1>2 DEF LastInputOffset
<1>6. ASSUME input.newBlock = <<>> PROVE input.newOffset = -1
  <2>1. u = last
    BY <1>2, <1>3, <1>6
  <2>2. ChainLastOffset(u) # -1 => off = ChainLastOffset(u)
    BY <1>1, <2>1 DEF KnowsInput
  <2>3. x = off
    BY <1>1, <2>2
  <2>4. QED  BY <1>2, <2>3
<1>7. Len(last) \in Nat /\ Len(u) \in Nat
  BY <1>1, <1>3, ChainIsSeq
<1>8. /\ Len(last) <= Len(u) /\ \A j \in 1..Len(last) : u[j] = last[j]
      /\ input.newBlock \in {u, <<>>}
  <2>1. CASE u = last
    BY <1>2, <1>7, <2>1
  <2>2. CASE u # last
    <3>1. IsAncestor(last, u)
      BY <1>2, <1>3, <2>2 DEF InvalidInterval
    <3>2. Len(last) <= Len(u) /\ last = SubSeq(u, 1, Len(last))
      BY <3>1 DEF IsAncestor
    <3>3. PICK m : m = Len(last)
      OBVIOUS
    <3>4. m \in 0..Len(u)
      BY <1>7, <3>2, <3>3
    <3>5. \A j \in 1..m : SubSeq(u, 1, m)[j] = u[j]
      BY <1>3, <3>4, ChainPrefix
    <3>6. QED  BY <1>2, <3>2, <3>3, <3>5
  <2>3. QED  BY <2>1, <2>2
<1>9. prev.watermark \in Nat
  BY BlockFields
<1>10. prev.watermark # 0 =>
         \E j \in 1..Len(last) : IsData(u[j]) /\ prev.watermark <= u[j].watermark
  BY <1>1, <1>8 DEF KnowsInput
<1>11. PICK k : k = Unprocessed(input)
  OBVIOUS
<1>12. b.watermark = IF k = <<>> THEN prev.watermark ELSE Or(Last(k).watermark, prev.watermark)
  BY <1>11 DEF Continues
<1>13. /\ prev.watermark <= b.watermark
       /\ b.watermark # 0 => \E j \in 1..Len(u) : IsData(u[j]) /\ b.watermark <= u[j].watermark
  <2>1. CASE k = <<>>
    <3>1. b.watermark = prev.watermark
      BY <1>12, <2>1
    <3>2. \A j \in 1..Len(last) : j \in 1..Len(u)
      BY <1>7, <1>8
    <3>3. QED  BY <1>9, <1>10, <3>1, <3>2
  <2>2. CASE k # <<>>
    <3>1. k = DataBlocksAfter(input.newBlock, Len(last))
      BY <1>2, <1>11 DEF Unprocessed
    <3>2. k = DataBlocksAfter(u, Len(last))
      <4>1. PICK n : n = Len(last)
        OBVIOUS
      <4>2. DataBlocksAfter(<<>>, n) = <<>>
        <5>1. IsChain(<<>>, Recorded) /\ Sequential(<<>>)
          BY EmptyChain
        <5>2. QED  BY <5>1, DataBlocksFacts
      <4>3. QED  BY <1>8, <2>2, <3>1, <4>1, <4>2
    <3>3. Len(k) \in 1..Len(k)
      <4>1. IsChain(k, Recorded)
        BY <1>3, <3>2, DataBlocksFacts
      <4>2. Len(k) \in Nat /\ Len(k) # 0
        BY <2>2, <4>1, ChainIsSeq
      <4>3. QED  BY <4>2
    <3>4. PICK m \in 1..Len(u) : m > Len(last) /\ k[Len(k)] = u[m] /\ IsData(u[m])
      <4>1. PICK n \in Nat : n = Len(last)
        BY <1>7
      <4>2. \A i \in 1..Len(k) : \E j \in 1..Len(u) : j > n /\ k[i] = u[j] /\ IsData(u[j])
        BY <1>3, <3>2, <4>1, DataBlocksOrigin
      <4>3. QED  BY <3>3, <4>1, <4>2
    <3>5. PICK w \in Nat : w = u[m].watermark
      <4>1. IsBlock(u[m], Recorded)
        BY <1>3, ChainIsSeq
      <4>2. QED  BY <4>1, BlockFields
    <3>6. prev.watermark <= w
      <4>1. CASE prev.watermark = 0
        BY <4>1
      <4>2. CASE prev.watermark # 0
        <5>1. PICK j \in 1..Len(last) : IsData(u[j]) /\ prev.watermark <= u[j].watermark
          BY <1>10, <4>2
        <5>2. j \in 1..Len(u) /\ j < m
          BY <1>7, <1>8, <3>4
        <5>3. Follows(u[m], u[j])
          BY <1>3, <5>2 DEF Sequential
        <5>4. u[j].watermark <= u[m].watermark
          BY <3>4, <5>1, <5>3 DEF Follows
        <5>5. u[j].watermark \in Nat
          <6>1. IsBlock(u[j], Recorded)
            BY <1>3, <5>2, ChainIsSeq
          <6>2. QED  BY <6>1, BlockFields
        <5>6. QED  BY <1>9, <3>5, <5>1, <5>4, <5>5
      <4>3. QED  BY <4>1, <4>2
    <3>7. b.watermark = IF w # 0 THEN w ELSE prev.watermark
      BY <1>12, <2>2, <3>4, <3>5 DEF Or, Last
    <3>8. prev.watermark <= b.watermark /\ b.watermark <= w
      BY <1>9, <3>6, <3>7
    <3>9. QED  BY <3>4, <3>5, <3>8
  <2>3. QED  BY <2>1, <2>2
<1>14. KnowsInput(b)
  BY <1>4, <1>5, <1>13 DEF KnowsInput
<1>15. QED  BY <1>6, <1>13, <1>14

\* The last data block of a derived chain is its last query.
LEMMA LastDataIsQuery ==
  ASSUME NEW R, NEW c, IsChain(c, R), NEW t, Good(c, t), LastDataOf(c) # 0
  PROVE  c[LastDataOf(c)] = LastEvent(c, "ExecuteTransform") /\ Has(c, "ExecuteTransform")
<1>1. PICK k, l : k = LastDataOf(c) /\ l = LastOf(c, {"ExecuteTransform"})
  OBVIOUS
<1>2. /\ k \in 0..Len(c) /\ k # 0 /\ c[k].type \in {"AddData", "ExecuteTransform"}
      /\ \A j \in 1..Len(c) : j > k => c[j].type \notin {"AddData", "ExecuteTransform"}
  BY <1>1, LastOfFacts DEF LastDataOf
<1>3. /\ l \in 0..Len(c) /\ (l # 0 => c[l].type \in {"ExecuteTransform"})
      /\ \A j \in 1..Len(c) : j > l => c[j].type \notin {"ExecuteTransform"}
  BY <1>1, LastOfFacts
<1>4. Len(c) \in Nat /\ k \in 1..Len(c)
  BY <1>2, ChainIsSeq
<1>5. c[k].type = "ExecuteTransform"
  BY <1>2, <1>4 DEF Good, GoodBlock
<1>6. ~(k > l)
  BY <1>3, <1>4, <1>5
<1>7. ~(l > k)
  <2>1. ASSUME l > k PROVE FALSE
    <3>1. l \in 1..Len(c) /\ l # 0
      BY <1>3, <1>4, <2>1
    <3>2. c[l].type \in {"ExecuteTransform"}
      BY <1>3, <3>1
    <3>3. c[l].type \notin {"AddData", "ExecuteTransform"}
      BY <1>2, <2>1, <3>1
    <3>4. QED  BY <3>2, <3>3
  <2>2. QED  BY <2>1
<1>8. k = l /\ l # 0
  BY <1>2, <1>3, <1>6, <1>7
<1>9. QED  BY <1>1, <1>8 DEF LastEvent, Has

\* append accepts a query that continues the last one, unless it is a no-op.
LEMMA QueryAccepted ==
  ASSUME NEW c, IsChain(c, Recorded), c # <<>>, NEW t \in Nat, Good(c, t),
         Has(c, "SetDataSchema"), Has(c, "SetTransform"),
         NEW prev, prev = LastEvent(c, "ExecuteTransform"), NEW u, u # <<>>,
         NEW input, input = NextInput(prev.input, u),
         input.newOffset # -1 => input.newBlock # <<>>,
         NEW b, IsBlock(b, Recorded), b.type = "ExecuteTransform", b.input = input,
         NEW k, Continues(b, prev, k, t), prev.watermark <= b.watermark
  PROVE  ValidBlock(c, b) \/ ToleratedNoOp(c, b)
<1>1. LastDataOf(c) # 0 => c[LastDataOf(c)] = prev
  BY LastDataIsQuery
<1>2. SeedBlockOrder(c, b)
  BY DEF SeedBlockOrder
<1>3. SystemTimeIsMonotonic(c, b)
  <2>1. Len(c) \in 1..Len(c)
    <3>1. Len(c) \in Nat /\ Len(c) # 0
      BY ChainIsSeq
    <3>2. QED  BY <3>1
  <2>2. c[Len(c)].time <= t
    BY <2>1 DEF Good, GoodBlock
  <2>3. b.time = t
    BY DEF Continues
  <2>4. QED  BY <2>2, <2>3 DEF SystemTimeIsMonotonic
<1>4. WatermarkIsMonotonic(c, b)
  BY <1>1 DEF WatermarkIsMonotonic
<1>5. OffsetsAreSequential(c, b)
  BY <1>1 DEF OffsetsAreSequential, Continues
<1>6. OneKindOfSource(c, b) /\ SchemaBeforeData(c, b)
  BY DEF OneKindOfSource, SchemaBeforeData
<1>7. CheckpointsAreLinked(c, b)
  BY DEF CheckpointsAreLinked, Continues
<1>8. ValidExecuteTransform(c, b)
  <2>1. /\ input.prevBlock = LastInputBlock(prev.input)
        /\ input.prevOffset = LastInputOffset(prev.input)
        /\ input.newBlock # <<>> => input.newBlock # input.prevBlock
        /\ input.newOffset # -1 => input.newOffset # input.prevOffset
    BY DEF NextInput
  <2>2. QED  BY <2>1 DEF ValidExecuteTransform
<1>9. ConsistentBlock(c, b)
  BY <1>2, <1>3, <1>4, <1>5, <1>6, <1>7, <1>8 DEF ConsistentBlock
<1>10. QED  BY <1>9 DEF ValidBlock, ToleratedNoOp

\* A new schema, too.
LEMMA MetadataAccepted ==
  ASSUME NEW R, NEW c, IsChain(c, R), c # <<>>, NEW t \in Nat, c[Len(c)].time <= t,
         NEW b, b.type \in {"SetTransform", "SetDataSchema"}, b.time = t
  PROVE  ValidBlock(c, b)
<1>1. ~IsData(b) /\ b.type # "Seed" /\ b.type # "ExecuteTransform" /\ b.type # "AddData"
  BY DEF IsData
<1>2. SeedBlockOrder(c, b) /\ SystemTimeIsMonotonic(c, b) /\ WatermarkIsMonotonic(c, b)
  BY <1>1 DEF SeedBlockOrder, SystemTimeIsMonotonic, WatermarkIsMonotonic
<1>3. OffsetsAreSequential(c, b) /\ OneKindOfSource(c, b) /\ SchemaBeforeData(c, b)
  BY <1>1 DEF OffsetsAreSequential, OneKindOfSource, SchemaBeforeData
<1>4. CheckpointsAreLinked(c, b) /\ ValidExecuteTransform(c, b)
  BY <1>1 DEF CheckpointsAreLinked, ValidExecuteTransform
<1>5. EventIsNotEmpty(b)
  BY <1>1 DEF EventIsNotEmpty
<1>6. ~NoOpEvent(c, b)
  BY <1>1 DEF NoOpEvent
<1>7. QED  BY <1>2, <1>3, <1>4, <1>5, <1>6 DEF ValidBlock, ConsistentBlock

\* One block more.
LEMMA GoodAppend ==
  ASSUME NEW R, NEW c, IsChain(c, R), NEW t, Good(c, t), NEW b, IsBlock(b, R), GoodBlock(b, t)
  PROVE  Good(Append(c, b), t)
<1>1. PICK a : a = Append(c, b)
  OBVIOUS
<1>2. Len(a) = Len(c) + 1 /\ a[Len(c) + 1] = b /\ \A i \in 1..Len(c) : a[i] = c[i]
  BY <1>1, ChainAppend
<1>3. Len(c) \in Nat
  BY ChainIsSeq
<1>4. ASSUME NEW i \in 1..Len(a) PROVE GoodBlock(a[i], t)
  <2>1. CASE i = Len(c) + 1
    BY <1>2, <2>1
  <2>2. CASE i \in 1..Len(c)
    BY <1>2, <2>2 DEF Good
  <2>3. i = Len(c) + 1 \/ i \in 1..Len(c)
    BY <1>2, <1>3
  <2>4. QED  BY <2>1, <2>2, <2>3
<1>5. QED  BY <1>1, <1>4 DEF Good

\* One block alone.
LEMMA GoodOne ==
  ASSUME NEW b, NEW t, GoodBlock(b, t)
  PROVE  Good(<<b>>, t)
<1>1. PICK s : s = <<b>>
  OBVIOUS
<1>2. Len(s) = 1 /\ s[1] = b
  BY <1>1
<1>3. QED  BY <1>1, <1>2 DEF Good

\* What a transform commits is accepted, block by block, and good.
LEMMA TransformAccepted ==
  ASSUME NEW c, HeadInv(c), Faithful(c), NEW u, HeadInv(u), NEW t \in Nat, Good(c, t),
         NextTransform(c, u) = "Updated", NEW events, events = TransformEvents(c, u, t),
         NEW base, base = c \o SubSeq(events, 1, Len(events) - 1)
  PROVE  /\ base # c => ValidBlock(c, events[1])
         /\ ValidBlock(base, Last(events)) \/ ToleratedNoOp(base, Last(events))
         /\ Good(events, t)
<1>1. PICK prev, input : /\ prev = LastEvent(c, "ExecuteTransform")
                         /\ input = NextInput(prev.input, u)
  OBVIOUS
<1>2. PICK b : b = Transformed(c, input, t)
  OBVIOUS
<1>3. IsChain(c, Recorded) /\ c # <<>> /\ IsChain(u, Recorded) /\ u # <<>> /\ Sequential(u)
  BY DEF HeadInv, Chain
<1>4. /\ IsBlock(b, Recorded) /\ b.type = "ExecuteTransform" /\ b.input = input
      /\ Continues(b, prev, Unprocessed(input), t)
  BY <1>1, <1>2, <1>3, TransformedFacts
<1>5. ~InvalidInterval(input) /\ Has(c, "SetTransform")
  BY <1>1 DEF NextTransform
<1>6. IsBlock(prev, Recorded) /\ KnowsInput(prev)
  <2>1. "ExecuteTransform" \in BlockTypes
    BY DEF BlockTypes
  <2>2. QED  BY <1>1, <1>3, <2>1, LastEventFacts, LastQueryKnowsInput
<1>7. IsChain(LastInputBlock(prev.input), Recorded)
  BY <1>1, FaithfulMatches DEF Matches, LastQueried
<1>8. /\ KnowsInput(b) /\ prev.watermark <= b.watermark
      /\ input.newOffset # -1 => input.newBlock # <<>>
  BY <1>1, <1>4, <1>5, <1>6, <1>7, QueryKnowsInput
<1>9. GoodBlock(b, t)
  BY <1>4, <1>8 DEF GoodBlock, Continues
<1>10. events = WithSchema(c, t, <<b>>)
  BY <1>1, <1>2 DEF TransformEvents
<1>11. PICK S : c \in Seq(S)
  BY <1>3, ChainIsSeq
<1>12. CASE Has(c, "SetDataSchema")
  <2>1. PICK one : one = <<b>>
    OBVIOUS
  <2>2. one \in Seq({b}) /\ Len(one) = 1 /\ one[1] = b
    BY <2>1
  <2>3. <<>> \o one = one
    BY <2>2, ConcatEmptySeq
  <2>4. events = one
    BY <1>10, <1>12, <2>1, <2>3 DEF WithSchema
  <2>5. SubSeq(one, 1, Len(one) - 1) = <<>>
    <3>1. Len(one) - 1 = 0
      BY <2>2
    <3>2. SubSeq(one, 1, 0) = <<>>
      BY <2>2
    <3>3. QED  BY <3>1, <3>2
  <2>6. c \o <<>> = c
    BY <1>11, ConcatEmptySeq
  <2>7. base = c
    BY <2>4, <2>5, <2>6
  <2>8. ValidBlock(c, b) \/ ToleratedNoOp(c, b)
    BY <1>1, <1>3, <1>4, <1>5, <1>8, <1>12, QueryAccepted
  <2>9. Last(events) = b
    BY <2>2, <2>4 DEF Last
  <2>10. Good(events, t)
    BY <1>9, <2>1, <2>4, GoodOne
  <2>11. QED  BY <2>7, <2>8, <2>9, <2>10
<1>13. CASE ~Has(c, "SetDataSchema")
  <2>1. PICK s : s = Block("SetDataSchema", t)
    OBVIOUS
  <2>2. IsBlock(s, Recorded) /\ s.type = "SetDataSchema" /\ s.time = t
    <3>1. "SetDataSchema" \in BlockTypes
      BY DEF BlockTypes
    <3>2. s \in Blocks(Recorded, {NoInput})
      BY <2>1, <3>1, BareBlock
    <3>3. s.type = "SetDataSchema" /\ s.time = t
      BY <2>1 DEF Block
    <3>4. QED  BY <3>2, <3>3, BlockOf
  <2>3. PICK x, Z : x = <<s>> /\ Z = S \cup {s, b}
    OBVIOUS
  <2>4. c \in Seq(Z) /\ s \in Z /\ b \in Z /\ x \in Seq(Z) /\ Len(x) = 1 /\ x[1] = s
    BY <1>11, <2>3
  <2>5. x \o <<b>> = Append(x, b)
    BY <2>4, ConcatOne
  <2>6. events = Append(x, b)
    BY <1>10, <1>13, <2>1, <2>3, <2>5 DEF WithSchema
  <2>7. IsChain(x, Recorded)
    BY <2>2, <2>3, OneBlock
  <2>a. PICK e : e = events
    OBVIOUS
  <2>8. IsChain(e, Recorded) /\ Len(e) = 2 /\ e[2] = b /\ e[1] = s
    <3>1. e = Append(x, b)
      BY <2>6, <2>a
    <3>2. /\ IsChain(e, Recorded) /\ Len(e) = Len(x) + 1 /\ e[Len(x) + 1] = b
          /\ \A i \in 1..Len(x) : e[i] = x[i]
      <4>1. IsBlock(b, Recorded)
        BY <1>4
      <4>2. QED  BY <2>7, <3>1, <4>1, ChainAppend
    <3>3. QED  BY <2>4, <3>2
  <2>9. SubSeq(e, 1, Len(e) - 1) = x
    <3>1. Len(e) - 1 = 1 /\ 1 \in 0..Len(e)
      BY <2>8
    <3>a. PICK n \in 0..Len(e) : n = 1
      BY <3>1
    <3>2. PICK y : n = 1 /\ y = SubSeq(e, 1, n)
      BY <3>a
    <3>3. IsChain(y, Recorded) /\ Len(y) = n /\ \A i \in 1..n : y[i] = e[i]
      <4>1. IsChain(e, Recorded)
        BY <2>8
      <4>2. /\ IsChain(SubSeq(e, 1, n), Recorded) /\ Len(SubSeq(e, 1, n)) = n
            /\ \A i \in 1..n : SubSeq(e, 1, n)[i] = e[i]
        BY <4>1, ChainPrefix
      <4>3. QED  BY <3>2, <4>2
    <3>4. y = x
      BY <2>4, <2>7, <2>8, <3>2, <3>3, ChainsEqual
    <3>5. QED  BY <3>1, <3>2, <3>4
  <2>10. PICK a : a = Append(c, s) /\ a = base
    <3>1. c \o <<s>> = Append(c, s)
      BY <2>4, ConcatOne
    <3>2. QED  BY <2>3, <2>9, <2>a, <3>1
  <2>11. ValidBlock(c, s)
    <3>1. Len(c) \in 1..Len(c)
      <4>1. Len(c) \in Nat /\ Len(c) # 0
        BY <1>3, ChainIsSeq
      <4>2. QED  BY <4>1
    <3>2. c[Len(c)].time <= t
      BY <3>1 DEF Good, GoodBlock
    <3>3. QED  BY <1>3, <2>2, <3>2, MetadataAccepted
  <2>12. GoodBlock(s, t)
    BY <2>2 DEF GoodBlock
  <2>b. /\ IsChain(a, Recorded) /\ a # <<>>
        /\ a[Len(c) + 1] = s /\ Len(a) = Len(c) + 1
    <3>1. IsChain(c, Recorded) /\ IsBlock(s, Recorded)
      BY <1>3, <2>2
    <3>2. /\ IsChain(Append(c, s), Recorded) /\ Append(c, s) # <<>>
          /\ Append(c, s)[Len(c) + 1] = s /\ Len(Append(c, s)) = Len(c) + 1
      BY <3>1, ChainAppend
    <3>3. QED  BY <2>10, <3>2
  <2>13. IsChain(a, Recorded) /\ a # <<>> /\ Good(a, t)
    <3>1. IsChain(a, Recorded) /\ a # <<>>
      BY <2>b
    <3>2. Good(a, t)
      BY <1>3, <2>2, <2>10, <2>12, GoodAppend
    <3>3. QED  BY <3>1, <3>2
  <2>14. Has(a, "SetTransform") /\ prev = LastEvent(a, "ExecuteTransform")
    <3>1. a = Append(c, s)
      BY <2>10
    <3>2. Has(a, "SetTransform") <=> Has(c, "SetTransform")
      BY <1>3, <2>2, <3>1, LastEventAppend
    <3>3. LastEvent(a, "ExecuteTransform") = LastEvent(c, "ExecuteTransform")
      BY <1>3, <2>2, <3>1, LastEventAppend
    <3>4. QED  BY <1>1, <1>5, <3>2, <3>3
  <2>15. Has(a, "SetDataSchema")
    <3>1. /\ a[Len(c) + 1] = s /\ Len(a) = Len(c) + 1
      BY <2>b
    <3>2. Len(c) \in Nat
      BY <1>3, ChainIsSeq
    <3>3. Len(c) + 1 \in 1..Len(a) /\ a[Len(c) + 1].type = "SetDataSchema"
      BY <2>2, <3>1, <3>2
    <3>4. QED  BY <2>13, <3>3, HasFacts
  <2>16. ValidBlock(a, b) \/ ToleratedNoOp(a, b)
    BY <1>1, <1>3, <1>4, <1>8, <2>13, <2>14, <2>15, QueryAccepted
  <2>17. Last(events) = b
    BY <2>8, <2>a DEF Last
  <2>18. Good(events, t)
    <3>1. Good(x, t)
      BY <2>3, <2>12, GoodOne
    <3>2. QED  BY <1>4, <1>9, <2>6, <2>7, <3>1, GoodAppend
  <2>19. QED  BY <2>8, <2>10, <2>11, <2>16, <2>17, <2>18, <2>a
<1>14. QED  BY <1>12, <1>13

\* If a transform reports that there is nothing new then there is nothing new.
LEMMA UpToDateIsTrue ==
  ASSUME NEW c, HeadInv(c), Faithful(c), NEW u, HeadInv(u), NextTransform(c, u) = "UpToDate"
  PROVE  DataAfter(c, 0) = DataAfter(u, 0)
<1>1. PICK prev, input : /\ prev = LastEvent(c, "ExecuteTransform")
                         /\ input = NextInput(prev.input, u)
  OBVIOUS
<1>2. ~InvalidInterval(input) /\ ~HasNews(input)
  BY <1>1 DEF NextTransform
<1>3. IsChain(u, Recorded) /\ u # <<>>
  BY DEF HeadInv, Chain
<1>4. PICK last : last = LastQueried(c)
  OBVIOUS
<1>5. IsChain(last, Recorded) /\ DataAfter(c, 0) = DataAfter(last, 0)
  BY <1>4, FaithfulMatches DEF Matches
<1>6. input.prevBlock = last /\ input.newBlock = IF u # last THEN u ELSE <<>>
  BY <1>1, <1>4 DEF NextInput, LastQueried
<1>7. CASE u # last
  <2>1. PICK n, k : n = Len(last) /\ k = Unprocessed(input)
    OBVIOUS
  <2>2. k = DataBlocksAfter(u, n)
    BY <1>6, <1>7, <2>1 DEF Unprocessed
  <2>3. IsChain(k, Recorded)
    BY <1>3, <2>2, DataBlocksChain
  <2>4. \A i \in 1..Len(k) : k[i].data = <<>>
    BY <1>2, <2>1, <2>3, ChainIsSeq DEF HasNews
  <2>5. DataAfter(u, n) = <<>>
    BY <2>2, <2>3, <2>4, NoRecords DEF DataAfter
  <2>6. n \in 0..Len(u) /\ last = SubSeq(u, 1, n)
    <3>1. IsAncestor(last, u)
      BY <1>2, <1>3, <1>6, <1>7 DEF InvalidInterval
    <3>2. Len(last) \in Nat /\ Len(u) \in Nat
      BY <1>3, <1>5, ChainIsSeq
    <3>3. QED  BY <2>1, <3>1, <3>2 DEF IsAncestor
  <2>7. DataAfter(u, 0) = DataAfter(last, 0) \o DataAfter(u, n)
    BY <1>3, <2>6, DataAfterSplit
  <2>8. DataAfter(last, 0) \in Seq(Recorded)
    BY <1>5, DataBlocksChain, DataOfFacts DEF DataAfter
  <2>9. DataAfter(last, 0) \o <<>> = DataAfter(last, 0)
    BY <2>8, ConcatEmptySeq
  <2>10. QED  BY <1>5, <2>5, <2>7, <2>9
<1>8. QED  BY <1>5, <1>7

\* What is left of a derived dataset when only metadata are kept.
LEMMA CompactedIsGood ==
  ASSUME NEW c, HeadInv(c), NEW t \in Nat, Good(c, t), NEW keep, OnlyMetadata(keep),
         NEW n, n = Compacted(c, keep, t)
  PROVE  /\ IsChain(n, Recorded) /\ Len(n) \in Nat \ {0} /\ n[1].type = "Seed" /\ Good(n, t)
         /\ \A i \in 2..Len(n) : n[i].type \in {"SetTransform", "SetDataSchema"} /\ n[i].time = t
<1>0. IsChain(c, Recorded) /\ c # <<>> /\ Sequential(c)
  BY DEF HeadInv, Chain
<1>6. 1 \in 1..Len(c) /\ c[1].type = "Seed"
  <2>1. Len(c) \in Nat /\ Len(c) # 0
    BY <1>0, ChainIsSeq
  <2>2. 1 \in 1..Len(c)
    BY <2>1
  <2>3. QED  BY <1>0, <2>2 DEF Sequential
<1>8. IsChain(n, Recorded) /\ Len(n) \in Nat \ {0} /\ n[1] = c[1]
  BY <1>0, CompactedFacts
<1>9. HasMetadataOf(n, c, t)
  BY <1>0, CompactedMetadata
<1>10. ASSUME NEW i \in 2..Len(n)
       PROVE  n[i].type \in {"SetTransform", "SetDataSchema"} /\ n[i].time = t
  <2>1. PICK j \in 1..Len(c) : n[i].type = c[j].type /\ Kept(c[j])
    BY <1>9 DEF HasMetadataOf
  <2>2. n[i].time = t
    BY <1>9 DEF HasMetadataOf
  <2>3. QED  BY <2>1, <2>2 DEF Kept, IsData, Good, GoodBlock
<1>11. GoodBlock(n[1], t)
  BY <1>6, <1>8 DEF Good
<1>12. \A i \in 1..Len(n) : i = 1 \/ i \in 2..Len(n)
  BY <1>8
<1>13. Good(n, t)
  <2>1. ASSUME NEW i \in 2..Len(n) PROVE GoodBlock(n[i], t)
    BY <1>10 DEF GoodBlock
  <2>2. QED  BY <1>11, <1>12, <2>1 DEF Good
<1>14. QED  BY <1>6, <1>8, <1>10, <1>13

\* A derived dataset whose input has diverged can be compacted to its metadata,
\* and the input is then processed from its beginning.
LEMMA DivergedIsReset ==
  ASSUME NEW c, HeadInv(c), NEW u, HeadInv(u), NEW t \in Nat, Good(c, t),
         NextTransform(c, u) = "InvalidInterval", NEW keep, OnlyMetadata(keep),
         NEW n, n = Compacted(c, keep, t)
  PROVE  /\ ~NothingToDo(c, keep) /\ CompactionAccepted(c, keep, t) /\ Good(n, t)
         /\ NextTransform(n, u) \in {"Updated", "UpToDate"}
<1>0. IsChain(c, Recorded) /\ c # <<>> /\ Sequential(c) /\ IsChain(u, Recorded)
  BY DEF HeadInv, Chain
<1>1. PICK prev, input : /\ prev = LastEvent(c, "ExecuteTransform")
                         /\ input = NextInput(prev.input, u)
  OBVIOUS
<1>2. Has(c, "SetTransform") /\ Has(u, "SetDataSchema") /\ InvalidInterval(input)
  BY <1>1 DEF NextTransform
<1>3. IsAncestor(<<>>, u)
  <2>1. Len(u) \in Nat /\ 0 \in 0..Len(u)
    BY <1>0, ChainIsSeq
  <2>2. PICK z \in 0..Len(u) : z = 0
    BY <2>1
  <2>3. IsChain(SubSeq(u, 1, z), Recorded) /\ Len(SubSeq(u, 1, z)) = z
    BY <1>0, ChainPrefix
  <2>4. SubSeq(u, 1, z) = <<>>
    BY <2>2, <2>3, ChainIsSeq
  <2>5. Len(<<>>) = 0 /\ 0 <= Len(u)
    BY <2>1
  <2>6. QED  BY <2>2, <2>4, <2>5 DEF IsAncestor
<1>4. ASSUME NEW a, ~Has(a, "ExecuteTransform")
      PROVE  ~InvalidInterval(NextInput(LastEvent(a, "ExecuteTransform").input, u))
  <2>1. LastEvent(a, "ExecuteTransform").input = NoInput
    BY <1>4 DEF LastEvent, Block
  <2>2. LastInputBlock(NoInput) = <<>>
    BY DEF LastInputBlock, NoInput
  <2>3. PICK i : i = NextInput(NoInput, u)
    OBVIOUS
  <2>4. i.prevBlock = <<>> /\ i.newBlock \in {u, <<>>}
    BY <2>2, <2>3 DEF NextInput
  <2>5. ~InvalidInterval(i)
    BY <1>3, <2>4 DEF InvalidInterval
  <2>6. QED  BY <2>1, <2>3, <2>5
<1>5. PICK q \in 1..Len(c) : c[q].type = "ExecuteTransform"
  <2>1. Has(c, "ExecuteTransform")
    BY <1>1, <1>2, <1>4
  <2>2. QED  BY <1>0, <2>1, HasFacts
<1>6. 1 \in 1..Len(c) /\ c[1].type = "Seed"
  <2>1. Len(c) \in Nat /\ Len(c) # 0
    BY <1>0, ChainIsSeq
  <2>2. 1 \in 1..Len(c)
    BY <2>1
  <2>3. QED  BY <1>0, <2>2 DEF Sequential
<1>7. ~NothingToDo(c, keep)
  <2>1. PICK I : c \in Seq(Blocks(Recorded, I))
    BY <1>0, ChainIsSeq
  <2>2. PICK g \in Seq(Blocks(Recorded, I)) : g = gather_chain_info(c, keep)
    BY <2>1, GatherChainFacts
  <2>3. MetadataOf(c, g)
    BY <2>1, <2>2, KeepsMetadata
  <2>4. q # 1 /\ ~Kept(c[q]) /\ ~Kept(c[1])
    BY <1>5, <1>6 DEF Kept, IsData
  <2>5. Len(g) <= Len(c) - 2
    BY <1>5, <1>6, <2>3, <2>4 DEF MetadataOf
  <2>6. Len(g) \in Nat /\ Len(c) \in Nat
    BY <2>1, <2>2
  <2>7. Len(g) + 1 # Len(c)
    BY <2>5, <2>6
  <2>8. QED  BY <2>2, <2>7 DEF NothingToDo
<1>8. /\ IsChain(n, Recorded) /\ Len(n) \in Nat \ {0} /\ n[1].type = "Seed" /\ Good(n, t)
      /\ \A i \in 2..Len(n) : n[i].type \in {"SetTransform", "SetDataSchema"} /\ n[i].time = t
  BY CompactedIsGood
<1>9. HasMetadataOf(n, c, t)
  BY <1>0, CompactedMetadata
<1>12. \A i \in 1..Len(n) : i = 1 \/ i \in 2..Len(n)
  BY <1>8
<1>14. CompactionAccepted(c, keep, t)
  <2>1. ASSUME NEW i \in 2..Len(n) PROVE ValidBlock(SubSeq(n, 1, i - 1), n[i])
    <3>1. PICK m \in 0..Len(n) : m = i - 1 /\ m # 0
      BY <1>8
    <3>2. PICK a : a = SubSeq(n, 1, m)
      OBVIOUS
    <3>3. IsChain(a, Recorded) /\ Len(a) = m /\ \A j \in 1..m : a[j] = n[j]
      BY <1>8, <3>1, <3>2, ChainPrefix
    <3>4. m \in 1..m /\ m \in 1..Len(n) /\ a # <<>>
      BY <1>8, <3>1, <3>3
    <3>5. a[Len(a)].time <= t
      BY <1>8, <3>3, <3>4 DEF Good, GoodBlock
    <3>6. ValidBlock(a, n[i])
      BY <1>8, <3>3, <3>4, <3>5, MetadataAccepted
    <3>7. QED  BY <3>1, <3>2, <3>6
  <2>2. QED  BY <2>1 DEF CompactionAccepted
<1>15. ~Has(n, "ExecuteTransform")
  <2>1. ASSUME NEW i \in 1..Len(n) PROVE n[i].type # "ExecuteTransform"
    BY <1>8, <1>12
  <2>2. QED  BY <1>8, <2>1, HasFacts
<1>16. Has(n, "SetTransform")
  <2>1. PICK j \in 1..Len(c) : c[j].type = "SetTransform"
    BY <1>0, <1>2, HasFacts
  <2>2. Kept(c[j])
    BY <2>1 DEF Kept, IsData
  <2>3. PICK i \in 1..Len(n) : n[i].type = c[j].type
    BY <1>9, <2>2 DEF HasMetadataOf
  <2>4. QED  BY <1>8, <2>1, <2>3, HasFacts
<1>17. NextTransform(n, u) \in {"Updated", "UpToDate"}
  <2>1. PICK i : i = NextInput(LastEvent(n, "ExecuteTransform").input, u)
    OBVIOUS
  <2>2. ~InvalidInterval(i)
    BY <1>4, <1>15, <2>1
  <2>3. QED  BY <1>2, <1>16, <2>1, <2>2 DEF NextTransform
<1>18. QED  BY <1>7, <1>8, <1>14, <1>17

\* The blocks that operations on the derived dataset have in hand are good.
GoodOp(o, t) ==
  /\ o.kind \in {"commit", "append"} /\ o.ds = Derived => Good(o.base, t) /\ Good(o.events, t)
  /\ o.kind = "rewrite" /\ o.ds = Derived => Good(o.target, t)

ProgressInv == Good(head[Derived], now) /\ \A w \in Workers : GoodOp(op[w], now)

\* They stay so while time passes.
LEMMA GoodLater ==
  ASSUME NEW t \in Nat, NEW later \in Nat, t <= later
  PROVE  /\ \A c : Good(c, t) => Good(c, later)
         /\ \A o : GoodOp(o, t) => GoodOp(o, later)
<1>1. ASSUME NEW b, GoodBlock(b, t) PROVE GoodBlock(b, later)
  BY <1>1 DEF GoodBlock
<1>2. ASSUME NEW c, Good(c, t) PROVE Good(c, later)
  BY <1>1, <1>2 DEF Good
<1>3. QED  BY <1>2 DEF GoodOp

\* Operations that commit nothing on the derived dataset, and those that do.
LEMMA GoodOps ==
  ASSUME NEW t
  PROVE  /\ GoodOp(Idle, t) /\ GoodOp(TransformAgain, t)
         /\ \A b, e : GoodOp(Commit(Root, b, e), t)
         /\ \A d, n : GoodOp([kind |-> "summary", ds |-> d, new |-> n], t)
         /\ \A d, n, then : (d = Derived => Good(n, t)) => GoodOp(Rewrite(d, n, then), t)
         /\ \A step \in {"commit", "append"} : \A d, begin, b, e :
              (d = Derived => Good(b, t) /\ Good(e, t)) =>
                GoodOp(Committing(step, d, begin, b, e), t)
<1>1. Root # Derived
  BY DatasetsAssumption
<1>2. ASSUME NEW step \in {"commit", "append"}, NEW d, NEW begin, NEW b, NEW e,
             d = Derived => Good(b, t) /\ Good(e, t)
      PROVE  GoodOp(Committing(step, d, begin, b, e), t)
  <2>1. PICK o : o = Committing(step, d, begin, b, e)
    OBVIOUS
  <2>2. o.kind = step /\ o.ds = d /\ o.base = b /\ o.events = e
    BY <2>1 DEF Committing
  <2>3. QED  BY <1>2, <2>1, <2>2 DEF GoodOp
<1>3. ASSUME NEW d, NEW n, NEW then, d = Derived => Good(n, t)
      PROVE  GoodOp(Rewrite(d, n, then), t)
  <2>1. PICK o : o = Rewrite(d, n, then)
    OBVIOUS
  <2>2. o.kind = "rewrite" /\ o.ds = d /\ o.target = n
    BY <2>1 DEF Rewrite
  <2>3. QED  BY <1>3, <2>1, <2>2 DEF GoodOp
<1>4. ASSUME NEW b, NEW e PROVE GoodOp(Commit(Root, b, e), t)
  BY <1>1, <1>2 DEF Commit
<1>5. ASSUME NEW d, NEW n PROVE GoodOp([kind |-> "summary", ds |-> d, new |-> n], t)
  <2>1. PICK o : o = [kind |-> "summary", ds |-> d, new |-> n]
    OBVIOUS
  <2>2. o.kind = "summary"
    BY <2>1
  <2>3. QED  BY <2>1, <2>2 DEF GoodOp
<1>6. GoodOp(Idle, t) /\ GoodOp(TransformAgain, t)
  BY DEF GoodOp, Idle, TransformAgain
<1>7. QED  BY <1>2, <1>3, <1>4, <1>5, <1>6

\* A step that changes what one worker does, and perhaps a head.
LEMMA ProgressStep ==
  ASSUME ChainInv, ProgressInv, NEW w \in Workers, NEW o, NEW t \in Nat, now <= t, now' = t,
         GoodOp(o, t), op' = [op EXCEPT ![w] = o],
         \/ head' = head
         \/ \E d \in Dataset : \E c : /\ head' = [head EXCEPT ![d] = c]
                                      /\ d = Derived => Good(c, t)
  PROVE  ProgressInv'
<1>1. DOMAIN head = Dataset /\ DOMAIN op = Workers /\ Derived \in Dataset /\ now \in Nat
  BY ByParts DEF Dataset
<1>2. ASSUME NEW v \in Workers PROVE GoodOp(op'[v], t)
  <2>1. op'[v] = IF v = w THEN o ELSE op[v]
    BY <1>1
  <2>2. GoodOp(op[v], t)
    BY <1>1, GoodLater DEF ProgressInv
  <2>3. QED  BY <2>1, <2>2
<1>3. Good(head[Derived], t)
  BY <1>1, GoodLater DEF ProgressInv
<1>4. Good(head'[Derived], t)
  <2>1. CASE head' = head
    BY <1>3, <2>1
  <2>2. CASE \E d \in Dataset : \E c : /\ head' = [head EXCEPT ![d] = c]
                                       /\ d = Derived => Good(c, t)
    <3>1. PICK d \in Dataset : \E c : /\ head' = [head EXCEPT ![d] = c]
                                      /\ d = Derived => Good(c, t)
      BY <2>2
    <3>2. PICK c : head' = [head EXCEPT ![d] = c] /\ (d = Derived => Good(c, t))
      BY <3>1
    <3>3. head'[Derived] = IF Derived = d THEN c ELSE head[Derived]
      BY <1>1, <3>2
    <3>4. QED  BY <1>3, <3>2, <3>3
  <2>3. QED  BY <2>1, <2>2
<1>5. QED  BY <1>2, <1>4 DEF ProgressInv, GoodOp, Good

\* Compaction keeps good metadata.
LEMMA ProgressCompaction ==
  ASSUME ChainInv, ProgressInv, NEW w \in Workers, NEW d \in Dataset, NEW keep,
         d = Derived => OnlyMetadata(keep), NEW then, StartCompaction(w, d, keep, then)
  PROVE  ProgressInv'
<1>1. PICK t : t = now + 1
  OBVIOUS
<1>2. /\ op' = [op EXCEPT ![w] =
                  IF ~NothingToDo(head[d], keep) /\ CompactionAccepted(head[d], keep, t)
                  THEN Rewrite(d, Compacted(head[d], keep, t), then) ELSE Idle]
      /\ head' = head /\ now' = t
  BY <1>1 DEF StartCompaction, Tick
<1>3. t \in Nat /\ now \in Nat /\ now <= t /\ HeadInv(head[d])
  BY <1>1, Parts
<1>4. PICK n : n = Compacted(head[d], keep, t)
  OBVIOUS
<1>5. PICK o : o = IF ~NothingToDo(head[d], keep) /\ CompactionAccepted(head[d], keep, t)
                   THEN Rewrite(d, n, then) ELSE Idle
  OBVIOUS
<1>6. ASSUME d = Derived PROVE Good(n, t)
  <2>1. PICK c : c = head[d]
    OBVIOUS
  <2>2. Good(c, t)
    BY <1>3, <1>6, <2>1, GoodLater DEF ProgressInv
  <2>3. HeadInv(c) /\ OnlyMetadata(keep) /\ n = Compacted(c, keep, t)
    BY <1>3, <1>4, <1>6, <2>1
  <2>4. QED  BY <1>3, <2>2, <2>3, CompactedIsGood
<1>7. GoodOp(o, t)
  <2>1. GoodOp(Rewrite(d, n, then), t)
    BY <1>6, GoodOps
  <2>2. QED  BY <1>5, <2>1, GoodOps
<1>8. op' = [op EXCEPT ![w] = o]
  BY <1>2, <1>4, <1>5
<1>9. QED  BY <1>2, <1>3, <1>7, <1>8, ProgressStep

\* A transform makes good blocks.
LEMMA ProgressTransform ==
  ASSUME ChainInv, DerivedInv, ProgressInv, NEW w \in Workers, NEW reset,
         TransformImpl(w, reset)
  PROVE  ProgressInv'
<1>1. PICK c, u : c = head[Derived] /\ u = head[Root]
  OBVIOUS
<1>2. CASE NextTransform(c, u) = "InvalidInterval" /\ reset
  <2>1. PICK keep : OnlyMetadata(keep) /\ StartCompaction(w, Derived, keep, TransformAgain)
    BY <1>1, <1>2 DEF TransformImpl, OnlyMetadata
  <2>2. QED  BY <2>1, Parts, ProgressCompaction
<1>3. CASE ~(NextTransform(c, u) = "InvalidInterval" /\ reset)
  <2>1. /\ op' = [op EXCEPT ![w] = IF NextTransform(c, u) = "Updated"
                                   THEN Commit(Derived, c, TransformEvents(c, u, now))
                                   ELSE Idle]
        /\ head' = head /\ now' = now
    BY <1>1, <1>3 DEF TransformImpl
  <2>2. PICK t \in Nat : t = now
    BY Parts
  <2>3. PICK o : o = IF NextTransform(c, u) = "Updated"
                     THEN Commit(Derived, c, TransformEvents(c, u, t)) ELSE Idle
    OBVIOUS
  <2>4. GoodOp(o, t)
    <3>1. CASE NextTransform(c, u) = "Updated"
      <4>1. PICK events : events = TransformEvents(c, u, t)
        OBVIOUS
      <4>2. HeadInv(c) /\ HeadInv(u) /\ Faithful(c) /\ Good(c, t)
        BY <1>1, <2>2, Parts DEF DerivedInv, ProgressInv
      <4>3. PICK base : base = c \o SubSeq(events, 1, Len(events) - 1)
        OBVIOUS
      <4>4. Good(events, t)
        BY <3>1, <4>1, <4>2, <4>3, TransformAccepted
      <4>5. o = Committing("commit", Derived, c, c, events)
        BY <2>3, <3>1, <4>1 DEF Commit
      <4>6. QED  BY <4>2, <4>4, <4>5, GoodOps
    <3>2. CASE NextTransform(c, u) # "Updated"
      BY <2>3, <3>2, GoodOps
    <3>3. QED  BY <3>1, <3>2
  <2>5. op' = [op EXCEPT ![w] = o] /\ now <= t /\ now' = t
    BY <2>1, <2>2, <2>3
  <2>6. QED  BY <2>1, <2>4, <2>5, ProgressStep
<1>4. QED  BY <1>2, <1>3

\* What is left of a sequence of good blocks.
LEMMA GoodTail ==
  ASSUME NEW e, IsChain(e, Recorded), e # <<>>, NEW t, Good(e, t)
  PROVE  GoodBlock(e[1], t) /\ Good(Tail(e), t)
<1>1. PICK R : e \in Seq(R)
  BY ChainIsSeq
<1>2. Len(e) \in Nat /\ Len(e) # 0
  BY <1>1
<1>3. PICK r : r = Tail(e)
  OBVIOUS
<1>4. Len(r) = Len(e) - 1 /\ \A i \in 1..Len(r) : r[i] = e[i + 1]
  BY <1>1, <1>3, HeadTailProperties
<1>5. ASSUME NEW i \in 1..Len(r) PROVE GoodBlock(r[i], t)
  <2>1. i + 1 \in 1..Len(e)
    BY <1>2, <1>4
  <2>2. QED  BY <1>4, <2>1 DEF Good
<1>6. GoodBlock(e[1], t)
  BY <1>2 DEF Good
<1>7. QED  BY <1>3, <1>5, <1>6 DEF Good

\* The steps of a started operation.
LEMMA ProgressSteps ==
  ASSUME ChainInv, DerivedInv, ProgressInv, NEW w \in Workers, Steps(w)
  PROVE  ProgressInv'
<1>1. PICK o : o = op[w]
  OBVIOUS
<1>2. PICK t \in Nat : t = now
  BY Parts
<1>3. OpInv(o) /\ GoodOp(o, t) /\ now <= t
  BY <1>1, <1>2, Parts DEF ProgressInv
<1>4. CASE WriteSummary(w)
  <2>1. op' = [op EXCEPT ![w] = Idle] /\ head' = head /\ now' = t
    BY <1>2, <1>4 DEF WriteSummary
  <2>2. QED  BY <1>3, <2>1, GoodOps, ProgressStep
<1>5. CASE CheckAppend(w)
  <2>1. PICK p : p = IF ValidBlock(o.base, o.events[1]) /\ head[o.ds] = o.base
                     THEN Committing("append", o.ds, o.begin, o.base, o.events) ELSE Idle
    OBVIOUS
  <2>2. o.kind = "commit" /\ op' = [op EXCEPT ![w] = p] /\ head' = head /\ now' = t
    BY <1>1, <1>2, <1>5, <2>1 DEF CheckAppend
  <2>3. o.ds = Derived => Good(o.base, t) /\ Good(o.events, t)
    BY <1>3, <2>2 DEF GoodOp
  <2>4. GoodOp(p, t)
    <3>1. GoodOp(Committing("append", o.ds, o.begin, o.base, o.events), t)
      BY <2>3, GoodOps
    <3>2. QED  BY <2>1, <3>1, GoodOps
  <2>5. QED  BY <1>3, <2>2, <2>4, ProgressStep
<1>6. CASE InsertBlock(w)
  <2>1. PICK c, rest : c = Append(o.base, o.events[1]) /\ rest = Tail(o.events)
    OBVIOUS
  <2>2. PICK p : p = IF Len(o.events) = 1 THEN Idle
                     ELSE Committing("commit", o.ds, o.begin, c, rest)
    OBVIOUS
  <2>3. /\ o.kind = "append" /\ op' = [op EXCEPT ![w] = p]
        /\ head' = [head EXCEPT ![o.ds] = c] /\ now' = t
    BY <1>1, <1>2, <1>6, <2>1, <2>2 DEF InsertBlock
  <2>4. o.ds \in Dataset /\ HeadInv(o.base) /\ Chain(o.events)
    BY <1>3, <2>3, CommittingParts
  <2>5. PICK base, events : base = o.base /\ events = o.events
    OBVIOUS
  <2>6. IsChain(base, Recorded) /\ IsChain(events, Recorded) /\ events # <<>>
    BY <2>4, <2>5 DEF HeadInv, Chain
  <2>7. ASSUME o.ds = Derived PROVE Good(c, t) /\ Good(rest, t)
    <3>1. Good(base, t) /\ Good(events, t)
      BY <1>3, <2>3, <2>5, <2>7 DEF GoodOp
    <3>2. PICK b : b = events[1]
      OBVIOUS
    <3>3. IsBlock(b, Recorded)
      BY <1>3, <2>3, <2>5, <3>2, CommittingParts
    <3>4. GoodBlock(b, t) /\ Good(rest, t)
      BY <2>1, <2>5, <2>6, <3>1, <3>2, GoodTail
    <3>5. c = Append(base, b)
      BY <2>1, <2>5, <3>2
    <3>6. QED  BY <2>6, <3>1, <3>3, <3>4, <3>5, GoodAppend
  <2>8. GoodOp(p, t)
    <3>1. GoodOp(Committing("commit", o.ds, o.begin, c, rest), t)
      BY <2>7, GoodOps
    <3>2. QED  BY <2>2, <3>1, GoodOps
  <2>9. QED  BY <1>3, <2>3, <2>4, <2>7, <2>8, ProgressStep
<1>7. CASE SetRef(w)
  <2>1. /\ o.kind = "rewrite" /\ op' = [op EXCEPT ![w] = o.then]
        /\ head' = [head EXCEPT ![o.ds] = o.target] /\ now' = t
    BY <1>1, <1>2, <1>7 DEF SetRef
  <2>2. o.ds \in Dataset /\ o.then \in {Idle, TransformAgain}
    <3>1. o \notin {Idle, TransformAgain}
      BY <2>1 DEF Idle, TransformAgain
    <3>2. QED  BY <1>3, <2>1, <3>1 DEF OpInv, OpOK
  <2>3. o.ds = Derived => Good(o.target, t)
    BY <1>3, <2>1 DEF GoodOp
  <2>4. GoodOp(o.then, t)
    BY <2>2, GoodOps
  <2>5. QED  BY <1>3, <2>1, <2>2, <2>3, <2>4, ProgressStep
<1>8. CASE ResumeTransform(w)
  BY <1>8, ProgressTransform DEF ResumeTransform
<1>9. QED  BY <1>4, <1>5, <1>6, <1>7, <1>8 DEF Steps

\* Every step keeps them good.
LEMMA ProgressNext == ChainInv /\ DerivedInv /\ ProgressInv /\ [Next]_vars => ProgressInv'
<1> SUFFICES ASSUME ChainInv, DerivedInv, ProgressInv, [Next]_vars PROVE ProgressInv'
  OBVIOUS
<1>1. CASE UNCHANGED vars
  BY <1>1 DEF vars, ProgressInv, GoodOp, Good
<1>2. PICK t \in Nat : t = now + 1 /\ now <= t
  BY Parts
<1>3. ASSUME NEW w \in Workers, NEW o, GoodOp(o, t), op' = [op EXCEPT ![w] = o],
             head' = head, Tick
      PROVE  ProgressInv'
  <2>1. now' = t
    BY <1>2, <1>3 DEF Tick
  <2>2. QED  BY <1>2, <1>3, <2>1, ProgressStep
<1>4. ASSUME NEW w \in Workers, NEW events, head' = head, Tick,
             op' = [op EXCEPT ![w] = Commit(Root, head[Root], events)]
      PROVE  ProgressInv'
  <2>1. PICK o : o = Commit(Root, head[Root], events)
    OBVIOUS
  <2>2. GoodOp(o, t)
    BY <2>1, GoodOps
  <2>3. QED  BY <1>3, <1>4, <2>1, <2>2
<1>5. ASSUME NEW w \in Workers, Crash(w) PROVE ProgressInv'
  BY <1>3, <1>5, GoodOps DEF Crash
<1>6. ASSUME NEW w \in Workers, NEW n, NEW s, Ingest(w, n, s) PROVE ProgressInv'
  BY <1>4, <1>6 DEF Ingest
<1>7. ASSUME NEW w \in Workers, SetWatermark(w) PROVE ProgressInv'
  BY <1>4, <1>7 DEF SetWatermark
<1>8. ASSUME NEW w \in Workers, CommitEvent(w) PROVE ProgressInv'
  BY <1>4, <1>8 DEF CommitEvent
<1>9. ASSUME NEW w \in Workers, Transform(w) PROVE ProgressInv'
  BY <1>9, ProgressTransform DEF Transform
<1>10. ASSUME NEW w \in Workers, NEW d \in Dataset, GetSummary(w, d) PROVE ProgressInv'
  <2>1. PICK new : new = UpdatedSummary(summary[d], head[d])
    OBVIOUS
  <2>2. PICK o : o = [kind |-> "summary", ds |-> d, new |-> new]
    OBVIOUS
  <2>3. op' = [op EXCEPT ![w] = o] /\ head' = head /\ Tick
    BY <1>10, <2>1, <2>2 DEF GetSummary
  <2>4. GoodOp(o, t)
    BY <2>2, GoodOps
  <2>5. QED  BY <1>3, <2>3, <2>4
<1>11. ASSUME NEW w \in Workers, NEW d \in Dataset, NEW k \in BOOLEAN, Compact(w, d, k)
       PROVE  ProgressInv'
  <2>1. StartCompaction(w, d, k, Idle) /\ (d = Derived => k)
    BY <1>11 DEF Compact
  <2>2. d = Derived => OnlyMetadata(k)
    BY <2>1 DEF OnlyMetadata
  <2>3. QED  BY <2>1, <2>2, ProgressCompaction
<1>12. ASSUME NEW w \in Workers, NEW d \in Dataset, NEW i \in 1..(Len(head[d]) - 1),
              Reset(w, d, i)
       PROVE  ProgressInv'
  <2>1. PICK c, a : c = head[d] /\ a = SubSeq(c, 1, i)
    OBVIOUS
  <2>2. PICK o : o = Rewrite(d, a, Idle)
    OBVIOUS
  <2>3. op' = [op EXCEPT ![w] = o] /\ head' = head /\ Tick
    BY <1>12, <2>1, <2>2 DEF Reset
  <2>4. IsChain(c, Recorded) /\ Len(c) \in Nat
    <3>1. HeadInv(c)
      BY <2>1, Parts
    <3>2. QED  BY <3>1, ChainIsSeq DEF HeadInv, Chain
  <2>5. i \in 0..Len(c)
    BY <2>1, <2>4
  <2>6. ASSUME d = Derived PROVE Good(a, t)
    <3>1. Good(c, t)
      BY <1>2, <2>1, <2>6, GoodLater, Parts DEF ProgressInv
    <3>2. Len(a) = i /\ \A j \in 1..i : a[j] = c[j]
      BY <2>1, <2>4, <2>5, ChainPrefix
    <3>3. \A j \in 1..i : j \in 1..Len(c)
      BY <2>4, <2>5
    <3>4. QED  BY <3>1, <3>2, <3>3 DEF Good
  <2>7. GoodOp(o, t)
    BY <2>2, <2>6, GoodOps
  <2>8. QED  BY <1>3, <2>3, <2>7
<1>13. QED
  BY <1>1, <1>5, <1>6, <1>7, <1>8, <1>9, <1>10, <1>11, <1>12, ProgressSteps DEF Next

\* So are the two blocks a derived dataset is created with.
LEMMA ProgressInit == Init => ProgressInv
<1> SUFFICES ASSUME Init PROVE ProgressInv
  OBVIOUS
<1>1. PICK a, b, c : a = Block("Seed", 0) /\ b = Block("SetTransform", 0) /\ c = <<a, b>>
  OBVIOUS
<1>2. head[Derived] = c /\ now = 0
  BY <1>1, DatasetsAssumption DEF Init, InitialChain, Dataset
<1>3. a.type = "Seed" /\ b.type = "SetTransform" /\ a.time = 0 /\ b.time = 0
  BY <1>1 DEF Block
<1>4. Len(c) = 2 /\ c[1] = a /\ c[2] = b
  BY <1>1
<1>5. GoodBlock(a, 0) /\ GoodBlock(b, 0)
  BY <1>3 DEF GoodBlock
<1>6. Good(c, 0)
  BY <1>4, <1>5 DEF Good
<1>7. \A w \in Workers : op[w] = Idle
  BY DEF Init
<1>8. QED  BY <1>2, <1>6, <1>7, GoodOps DEF ProgressInv

\* A transform that nothing disturbs makes progress, for any number of workers
\* and whatever they did before: it never reports that a derived dataset is up
\* to date when records of its input are missing in it; when the input's history
\* was rewritten, the compaction of the derived dataset to its metadata, by
\* which it starts again, has something to do, is accepted, and leads to a chain
\* that has not diverged; and when there is something new, append accepts what
\* the transform commits.  It needs that the clock has reached each block, that
\* a derived dataset holds no other events, and that a query's offset and
\* watermark are those of a block of its input.
THEOREM TransformsProgress == Spec => []TransformProgresses
<1>1. ASSUME ChainInv, DerivedInv, ProgressInv PROVE TransformProgresses
  <2>1. PICK c, u : c = head[Derived] /\ u = head[Root]
    OBVIOUS
  <2>2. PICK t \in Nat : t = now
    BY <1>1, Parts
  <2>3. HeadInv(c) /\ HeadInv(u) /\ Faithful(c) /\ Good(c, t)
    BY <1>1, <2>1, <2>2, Parts DEF DerivedInv, ProgressInv
  <2>4. PICK evts : evts = TransformEvents(c, u, t)
    OBVIOUS
  <2>5. PICK base : base = c \o SubSeq(evts, 1, Len(evts) - 1)
    OBVIOUS
  <2>6. CASE NextTransform(c, u) = "UpToDate"
    <3>1. DataOf(DataBlocksAfter(c, 0)) = DataOf(DataBlocksAfter(u, 0))
      BY <2>3, <2>6, UpToDateIsTrue DEF DataAfter
    <3>2. QED  BY <2>1, <2>6, <3>1 DEF TransformProgresses
  <2>7. CASE NextTransform(c, u) = "InvalidInterval"
    <3>1. PICK keep : keep = TRUE
      OBVIOUS
    <3>2. OnlyMetadata(keep)
      BY <3>1 DEF OnlyMetadata
    <3>3. PICK n : n = Compacted(c, keep, t)
      OBVIOUS
    <3>4. /\ ~NothingToDo(c, keep) /\ CompactionAccepted(c, keep, t)
          /\ NextTransform(n, u) \in {"Updated", "UpToDate"}
      BY <2>3, <2>7, <3>2, <3>3, DivergedIsReset
    <3>5. /\ ~NothingToDo(c, TRUE) /\ CompactionAccepted(c, TRUE, t)
          /\ NextTransform(Compacted(c, TRUE, t), u) \in {"Updated", "UpToDate"}
      BY <3>1, <3>3, <3>4, Zenon
    <3>6. QED  BY <2>1, <2>2, <2>7, <3>5 DEF TransformProgresses
  <2>8. CASE NextTransform(c, u) = "Updated"
    <3>1. /\ base # c => ValidBlock(c, evts[1])
          /\ ValidBlock(base, Last(evts)) \/ ToleratedNoOp(base, Last(evts))
      BY <2>3, <2>4, <2>5, <2>8, TransformAccepted
    <3>2. QED  BY <2>1, <2>2, <2>4, <2>5, <2>8, <3>1 DEF TransformProgresses
  <2>9. CASE NextTransform(c, u) \notin {"UpToDate", "InvalidInterval", "Updated"}
    BY <2>1, <2>9 DEF TransformProgresses
  <2>10. QED  BY <2>6, <2>7, <2>8, <2>9
<1>2. QED
  BY <1>1, DerivedInit, DerivedNext, ProgressInit, ProgressNext, DatasetsInvariant, PTL DEF Spec

-----------------------------------------------------------------------------
(* Compaction keeps the records.                                           *)

\* The data of a block and the blocks that follow it.
LEMMA DataOfCons ==
  ASSUME NEW R, NEW s, IsChain(s, R), NEW b, IsBlock(b, R),
         NEW a, IsChain(a, R), Len(a) = Len(s) + 1, a[1] = b,
         \A i \in 1..Len(s) : a[i + 1] = s[i]
  PROVE  DataOf(a) = b.data \o DataOf(s)
<1>0. PICK N \in Nat : N = Len(s)
  BY ChainIsSeq
<1>1. PICK d \in Seq(R) : d = b.data
  BY BlockFields
<1>2. PICK f : f[0] = <<>> /\ DataOf(s) = f[N] /\ \A n \in 1..N : f[n] = f[n - 1] \o s[n].data
  <2>1. PICK f : /\ f[0] = <<>> /\ DataOf(s) = f[Len(s)]
                 /\ \A n \in 1..Len(s) : f[n] = f[n - 1] \o s[n].data
    BY DataOfRecursion
  <2>2. QED  BY <1>0, <2>1, Zenon
<1>3. PICK g : /\ g[0] = <<>> /\ DataOf(a) = g[N + 1]
               /\ \A n \in 1..(N + 1) : g[n] = g[n - 1] \o a[n].data
  <2>1. PICK M : M = Len(a)
    OBVIOUS
  <2>2. \E g : g[0] = <<>> /\ DataOf(a) = g[M] /\ \A n \in 1..M : g[n] = g[n - 1] \o a[n].data
    BY <2>1, DataOfRecursion
  <2>3. QED  BY <1>0, <2>1, <2>2
<1> DEFINE T == {n \in 0..N : f[n] \in Seq(R) /\ g[n + 1] = d \o f[n]}
<1>4. 0 \in T
  <2>1. 1 \in 1..(N + 1) /\ g[1 - 1] = <<>> /\ a[1].data = d
    BY <1>1, <1>3
  <2>2. g[1] = g[1 - 1] \o a[1].data
    BY <1>3, <2>1
  <2>3. g[1] = <<>> \o d
    BY <2>1, <2>2
  <2>4. <<>> \o d = d /\ d \o <<>> = d
    BY ConcatEmptySeq
  <2>5. f[0] \in Seq(R) /\ g[0 + 1] = d \o f[0]
    BY <1>2, <2>3, <2>4
  <2>6. QED  BY <2>5
<1>5. ASSUME NEW n \in 1..N, n - 1 \in T PROVE n \in T
  <2>1. f[n - 1] \in Seq(R) /\ g[(n - 1) + 1] = d \o f[n - 1]
    BY <1>5
  <2>2. PICK e \in Seq(R) : e = s[n].data
    BY <1>0, ChainIsSeq, BlockFields
  <2>3. f[n] = f[n - 1] \o e
    BY <1>2, <2>2
  <2>4. n + 1 \in 1..(N + 1) /\ (n + 1) - 1 = n /\ (n - 1) + 1 = n
    OBVIOUS
  <2>5. a[n + 1] = s[n]
    BY <1>0
  <2>6. g[n + 1] = g[n] \o e
    BY <1>3, <2>2, <2>4, <2>5
  <2>7. PICK x \in Seq(R) : x = f[n - 1]
    BY <2>1
  <2>8. (d \o x) \o e = d \o (x \o e)
    BY ConcatAssociative, SMTT(20)
  <2>9. x \o e \in Seq(R)
    BY ConcatProperties
  <2>10. f[n] \in Seq(R) /\ g[n + 1] = d \o f[n]
    BY <2>1, <2>3, <2>4, <2>6, <2>7, <2>8, <2>9
  <2>11. QED  BY <2>10
<1>6. \A n \in 0..N : n \in T
  <2> HIDE DEF T
  <2> QED  BY <1>4, <1>5, IntervalInduction
<1>7. N \in T
  BY <1>6
<1>8. QED  BY <1>1, <1>2, <1>3, <1>7

\* The element of a reversed sequence at a position.
LEMMA ReverseAt ==
  ASSUME NEW S, NEW s \in Seq(S), NEW i \in 1..Len(s)
  PROVE  Reverse(s)[i] = s[(Len(s) - i) + 1]
  BY DEF Reverse

\* The slices of a batch are collected newest first, and their data are
\* concatenated oldest first.
LEMMA DataOfReversed ==
  ASSUME NEW R, NEW I, NEW s \in Seq(Blocks(R, I)), NEW b \in Blocks(R, I)
  PROVE  DataOf(Reverse(Append(s, b))) = b.data \o DataOf(Reverse(s))
<1>0. PICK N \in Nat : N = Len(s)
  OBVIOUS
<1>1. PICK t : t = Append(s, b)
  OBVIOUS
<1>2. /\ t \in Seq(Blocks(R, I)) /\ Len(t) = N + 1 /\ t[N + 1] = b
      /\ \A i \in 1..N : t[i] = s[i]
  BY <1>0, <1>1, AppendFacts
<1>3. PICK x, y : x = Reverse(s) /\ y = Reverse(t)
  OBVIOUS
<1>4. x \in Seq(Blocks(R, I)) /\ Len(x) = N /\ y \in Seq(Blocks(R, I)) /\ Len(y) = N + 1
  BY <1>0, <1>2, <1>3, ReverseFacts
<1>5. y[1] = b
  <2>1. 1 \in 1..Len(t) /\ (Len(t) - 1) + 1 = N + 1
    BY <1>2
  <2>2. QED  BY <1>2, <1>3, <2>1, ReverseAt
<1>6. ASSUME NEW i \in 1..N PROVE y[i + 1] = x[i]
  <2>1. i + 1 \in 1..Len(t) /\ (Len(t) - (i + 1)) + 1 = (N - i) + 1 /\ (N - i) + 1 \in 1..N
    BY <1>2
  <2>2. y[i + 1] = t[(N - i) + 1]
    BY <1>2, <1>3, <2>1, ReverseAt
  <2>3. x[i] = s[(N - i) + 1]
    BY <1>0, <1>3, ReverseAt
  <2>4. QED  BY <1>2, <2>1, <2>2, <2>3
<1>7. IsChain(x, R) /\ IsChain(y, R) /\ IsBlock(b, R)
  BY <1>4, ChainOf, BlockOf
<1>8. DataOf(y) = b.data \o DataOf(x)
  BY <1>4, <1>5, <1>6, <1>7, DataOfCons
<1>9. QED  BY <1>1, <1>3, <1>8

\* A single slice.
LEMMA DataOfOne ==
  ASSUME NEW R, NEW I, NEW s \in Seq(Blocks(R, I)), Len(s) = 1
  PROVE  DataOf(Reverse(s)) = s[1].data
<1>1. PICK e : e = <<>>
  OBVIOUS
<1>2. e \in Seq(Blocks(R, I)) /\ Len(e) = 0
  BY <1>1
<1>3. PICK b \in Blocks(R, I) : b = s[1]
  OBVIOUS
<1>4. s = Append(e, b)
  <2>1. Append(e, b) \in Seq(Blocks(R, I)) /\ Len(Append(e, b)) = 1 /\ Append(e, b)[1] = b
    BY <1>2, AppendFacts
  <2>2. QED  BY <1>3, <2>1, SeqEqual
<1>5. DataOf(Reverse(e)) = <<>>
  <2>1. PICK r : r = Reverse(e)
    OBVIOUS
  <2>2. r \in Seq(Blocks(R, I)) /\ Len(r) = 0
    BY <1>2, <2>1, ReverseFacts
  <2>3. IsChain(r, R)
    BY <2>2, ChainOf
  <2>4. PICK f : f[0] = <<>> /\ DataOf(r) = f[Len(r)]
    BY <2>3, DataOfRecursion
  <2>5. QED  BY <2>1, <2>2, <2>4
<1>6. DataOf(Reverse(s)) = b.data \o <<>>
  BY <1>2, <1>4, <1>5, DataOfReversed
<1>7. b.data \in Seq(R)
  BY DEF Blocks
<1>8. QED  BY <1>3, <1>6, <1>7, ConcatEmptySeq

\* Blocks of a root dataset, and those that compaction makes of them.
RootTypes == {"Seed", "SetInfo", "AddPushSource", "SetPollingSource", "SetDataSchema", "AddData"}
RootEvent(b) == b.type \in RootTypes /\ b.prevCheckpoint = 0 /\ b.newCheckpoint = 0
NewEvent(b) == RootEvent(b) /\ b.type # "Seed" /\ (IsData(b) => b.data # <<>>)

\* A walk with its open batch, of slices that have data.
Open(g) == g.info.slices # <<>>
Flush(g) == append_add_data_batch(g.batches, g.info)
Collected(g) ==
  /\ g.info.newCheckpoint = 0
  /\ \A i \in 1..Len(g.batches) : NewEvent(g.batches[i])
  /\ \A i \in 1..Len(g.info.slices) : NewEvent(g.info.slices[i]) /\ IsData(g.info.slices[i])

\* The block that an open batch would become.
Merged(e, info) ==
  /\ NewEvent(e) /\ IsData(e)
  /\ e.data = DataOf(Reverse(info.slices))
  /\ e.start = info.slices[Len(info.slices)].start
  /\ e.prevOffset = info.slices[Len(info.slices)].prevOffset
  /\ Len(info.slices) = 1 => e = info.slices[1]
  /\ Len(info.slices) # 1 => e.watermark = info.watermark

\* A root dataset has no queries.
LEMMA RootData ==
  ASSUME NEW b, RootEvent(b)
  PROVE  IsData(b) <=> b.type = "AddData"
  BY DEF RootEvent, RootTypes, IsData

\* Ending the open batch makes one block of its slices, or changes nothing.
LEMMA FlushFacts ==
  ASSUME NEW R, NEW I, NEW g \in Gathered(R, I), Collected(g)
  PROVE  /\ ~Open(g) => Flush(g) = g.batches
         /\ Open(g) => \E e \in Blocks(R, I) : Flush(g) = Append(g.batches, e) /\ Merged(e, g.info)
<1>1. PICK s \in Seq(Blocks(R, I)) : s = g.info.slices
  BY DEF Gathered, Batch
<1>2. Len(s) \in Nat /\ (s = <<>> <=> Len(s) = 0)
  OBVIOUS
<1>3. CASE Len(s) = 0
  BY <1>1, <1>2, <1>3 DEF Flush, Open, append_add_data_batch
<1>4. CASE Len(s) = 1
  <2>1. PICK e \in Blocks(R, I) : e = s[1]
    <3>1. 1 \in 1..Len(s)
      BY <1>4
    <3>2. QED  BY <3>1, ElementOfSeq
  <2>2. Flush(g) = Append(g.batches, e)
    BY <1>1, <1>4, <2>1 DEF Flush, append_add_data_batch
  <2>3. NewEvent(e) /\ IsData(e)
    BY <1>1, <1>4, <2>1 DEF Collected
  <2>4. e.data = DataOf(Reverse(s))
    BY <1>4, <2>1, DataOfOne
  <2>5. Merged(e, g.info)
    BY <1>1, <1>4, <2>1, <2>3, <2>4 DEF Merged
  <2>6. QED  BY <1>1, <1>2, <1>4, <2>2, <2>5 DEF Open
<1>5. CASE Len(s) # 0 /\ Len(s) # 1
  <2>1. PICK n \in 1..Len(s) : n = Len(s)
    BY <1>2, <1>5
  <2>2. PICK b \in Blocks(R, I) : b = s[n]
    OBVIOUS
  <2>3. b = Last(s)
    BY <2>1, <2>2 DEF Last
  <2>4. NewEvent(b) /\ IsData(b)
    BY <1>1, <2>1, <2>2 DEF Collected
  <2>5. PICK data \in Seq(R) : data = DataOf(Reverse(s))
    BY ReverseFacts, ChainOf, DataOfFacts
  <2>6. data # <<>>
    <3>1. PICK r : r = Reverse(s)
      OBVIOUS
    <3>2. r \in Seq(Blocks(R, I)) /\ Len(r) = Len(s)
      BY <3>1, ReverseFacts
    <3>3. 1 \in 1..Len(s) /\ (Len(s) - 1) + 1 = n
      BY <2>1
    <3>4. r[1] = b
      BY <2>2, <3>1, <3>3, ReverseAt
    <3>5. IsChain(r, R)
      BY <3>2, ChainOf
    <3>6. DataOf(r) = <<>> => r[1].data = <<>>
      BY <3>2, <3>3, <3>5, DataOfFacts
    <3>7. QED  BY <2>4, <2>5, <3>1, <3>4, <3>6 DEF NewEvent
  <2>7. g.info.watermark \in Nat /\ g.info.sourceState \in Nat /\ g.info.newCheckpoint \in Nat
    BY DEF Gathered, Batch
  <2>8. PICK e : e = [b EXCEPT !.data = data, !.watermark = g.info.watermark,
                              !.sourceState = g.info.sourceState,
                              !.newCheckpoint = g.info.newCheckpoint]
    OBVIOUS
  <2>9. e \in Blocks(R, I)
    BY <2>7, <2>8 DEF Blocks
  <2>10. /\ e.data = data /\ e.watermark = g.info.watermark
         /\ e.newCheckpoint = g.info.newCheckpoint /\ e.type = b.type /\ e.start = b.start
         /\ e.prevOffset = b.prevOffset /\ e.prevCheckpoint = b.prevCheckpoint
    BY <2>8 DEF Blocks
  <2>11. Flush(g) = Append(g.batches, e)
    BY <1>1, <1>5, <2>3, <2>5, <2>8 DEF Flush, append_add_data_batch
  <2>12. NewEvent(e) /\ IsData(e)
    BY <2>4, <2>6, <2>10 DEF NewEvent, RootEvent, IsData, Collected
  <2>13. Merged(e, g.info)
    BY <1>1, <1>5, <2>1, <2>2, <2>5, <2>10, <2>12 DEF Merged
  <2>14. QED  BY <1>1, <1>2, <1>5, <2>9, <2>11, <2>13 DEF Open
<1>6. QED  BY <1>3, <1>4, <1>5

\* What a block of the walk does to the events gathered so far: it is dropped,
\* though a merged event may take its bounds, ...
Like(a, b) == a.type = b.type /\ a.data = b.data /\ a.start = b.start /\ a.prevOffset = b.prevOffset
Drops(g, b, h) ==
  /\ b.type = "Seed" \/ (IsData(b) /\ b.data = <<>>)
  /\ Open(h) <=> Open(g)
  /\ h.records = g.records
  /\ h.info.watermark = IF b.type = "Seed" THEN g.info.watermark
                        ELSE Or(g.info.watermark, b.watermark)
  /\ Len(Flush(h)) = Len(Flush(g))
  /\ \A k \in 1..Len(Flush(g)) :
       /\ Like(Flush(h)[k], Flush(g)[k])
       /\ \/ Flush(h)[k] = Flush(g)[k]
          \/ Open(g) /\ k = Len(Flush(g)) /\ Flush(h)[k].watermark = h.info.watermark

\* ... or is an event of its own, with which a batch may begin, ...
Full(g, b) == g.records + Len(b.data) > MaxSliceRecords
Carried(g) == IF Open(g) THEN 0 ELSE g.info.watermark
Takes(g, b, h) ==
  /\ NewEvent(b) /\ Flush(h) = Append(Flush(g), b)
  /\ Open(h) <=> IsData(b)
  /\ IsData(b) => /\ Open(g) => Full(g, b)
                  /\ h.records = IF Full(g, b) THEN Len(b.data) ELSE g.records + Len(b.data)
                  /\ h.info.watermark = Or(Carried(g), b.watermark)
  /\ ~IsData(b) => h.records = g.records /\ h.info.watermark = Carried(g)

\* ... or is merged with the last of them.
Joins(g, b, h) ==
  /\ NewEvent(b) /\ IsData(b) /\ Open(g) /\ Open(h)
  /\ ~Full(g, b) /\ h.records = g.records + Len(b.data)
  /\ h.info.watermark = Or(g.info.watermark, b.watermark)
  /\ Len(Flush(h)) = Len(Flush(g)) /\ Len(Flush(g)) \in Nat \ {0}
  /\ \A k \in 1..(Len(Flush(g)) - 1) : Flush(h)[k] = Flush(g)[k]
  /\ Flush(h)[Len(Flush(g))].type = b.type
  /\ Flush(h)[Len(Flush(g))].data = b.data \o Flush(g)[Len(Flush(g))].data
  /\ Flush(h)[Len(Flush(g))].start = b.start
  /\ Flush(h)[Len(Flush(g))].prevOffset = b.prevOffset
  /\ Flush(h)[Len(Flush(g))].watermark = h.info.watermark

\* A block without records.
LEMMA DropStep ==
  ASSUME NEW R, NEW I, NEW g \in Gathered(R, I), Collected(g), NEW b \in Blocks(R, I),
         RootEvent(b), NEW h, h = [g EXCEPT !.info = WithUpperBounds(@, b)]
  PROVE  Collected(h) /\ (IsData(b) /\ b.data = <<>> => Drops(g, b, h))
<1>1. PICK i \in Batch(R, I) : i = WithUpperBounds(g.info, b)
  BY BoundsFacts DEF Gathered
<1>2. h = [g EXCEPT !.info = i] /\ g.info \in Batch(R, I)
  BY <1>1 DEF Gathered
<1>3. h.info = i /\ h.batches = g.batches /\ h.records = g.records /\ h \in Gathered(R, I)
  BY <1>2 DEF Gathered
<1>4. /\ i.slices = g.info.slices /\ i.watermark = Or(g.info.watermark, b.watermark)
      /\ i.newCheckpoint = Or(g.info.newCheckpoint, b.newCheckpoint)
  BY <1>1, <1>2 DEF WithUpperBounds, Batch
<1>5. i.newCheckpoint = 0
  BY <1>4 DEF Or, RootEvent, Collected
<1>6. Collected(h)
  BY <1>3, <1>4, <1>5 DEF Collected
<1>7. Open(h) <=> Open(g)
  BY <1>3, <1>4 DEF Open
<1>8. PICK x, y : x = Flush(g) /\ y = Flush(h)
  OBVIOUS
<1>9. /\ Len(y) = Len(x)
      /\ \A k \in 1..Len(x) : /\ Like(y[k], x[k])
                              /\ y[k] = x[k] \/ (Open(g) /\ k = Len(x) /\ y[k].watermark = i.watermark)
  <2>1. CASE ~Open(g)
    <3>1. x = y
      BY <1>3, <1>6, <1>7, <1>8, <2>1, FlushFacts
    <3>2. QED  BY <3>1 DEF Like
  <2>2. CASE Open(g)
    <3>1. PICK d \in Blocks(R, I) : x = Append(g.batches, d) /\ Merged(d, g.info)
      BY <1>8, <2>2, FlushFacts
    <3>2. PICK e \in Blocks(R, I) : y = Append(g.batches, e) /\ Merged(e, i)
      BY <1>3, <1>6, <1>7, <1>8, <2>2, FlushFacts
    <3>3. PICK a \in Seq(Blocks(R, I)) : a = g.batches
      BY DEF Gathered
    <3>4. /\ Len(x) = Len(a) + 1 /\ x[Len(a) + 1] = d /\ Len(y) = Len(a) + 1 /\ y[Len(a) + 1] = e
          /\ \A k \in 1..Len(a) : x[k] = a[k] /\ y[k] = a[k]
          /\ Len(a) \in Nat
      BY <3>1, <3>2, <3>3, AppendFacts
    <3>5. Like(e, d)
      <4>1. RootEvent(d) /\ RootEvent(e)
        BY <3>1, <3>2 DEF Merged, NewEvent
      <4>2. d.type = "AddData" /\ e.type = "AddData"
        BY <3>1, <3>2, <4>1, RootData DEF Merged
      <4>3. QED  BY <1>4, <3>1, <3>2, <4>2 DEF Merged, Like
    <3>6. e = d \/ e.watermark = i.watermark
      BY <1>4, <3>1, <3>2 DEF Merged
    <3>7. ASSUME NEW k \in 1..Len(x)
          PROVE  /\ Like(y[k], x[k])
                 /\ y[k] = x[k] \/ (Open(g) /\ k = Len(x) /\ y[k].watermark = i.watermark)
      <4>1. k = Len(a) + 1 \/ k \in 1..Len(a)
        BY <3>4
      <4>2. CASE k = Len(a) + 1
        BY <2>2, <3>4, <3>5, <3>6, <4>2
      <4>3. CASE k \in 1..Len(a)
        BY <3>4, <4>3 DEF Like
      <4>4. QED  BY <4>1, <4>2, <4>3
    <3>8. QED  BY <3>4, <3>7
  <2>3. QED  BY <2>1, <2>2
<1>10. ASSUME IsData(b), b.data = <<>> PROVE Drops(g, b, h)
  <2>1. b.type # "Seed"
    BY <1>10 DEF IsData
  <2>2. QED  BY <1>3, <1>4, <1>7, <1>8, <1>9, <1>10, <2>1 DEF Drops
<1>11. QED  BY <1>6, <1>10

\* The events gathered so far are events of the new chain.
LEMMA FlushedEvents ==
  ASSUME NEW R, NEW I, NEW g \in Gathered(R, I), Collected(g)
  PROVE  Flush(g) \in Seq(Blocks(R, I)) /\ \A k \in 1..Len(Flush(g)) : NewEvent(Flush(g)[k])
<1>1. PICK x \in Seq(Blocks(R, I)) : x = Flush(g)
  BY BatchFacts DEF Gathered, Flush
<1>2. CASE ~Open(g)
  BY <1>1, <1>2, FlushFacts DEF Collected
<1>3. CASE Open(g)
  <2>1. PICK e \in Blocks(R, I) : x = Append(g.batches, e) /\ Merged(e, g.info)
    BY <1>1, <1>3, FlushFacts
  <2>2. PICK a \in Seq(Blocks(R, I)) : a = g.batches
    BY DEF Gathered
  <2>3. /\ Len(x) = Len(a) + 1 /\ x[Len(a) + 1] = e /\ Len(a) \in Nat
        /\ \A k \in 1..Len(a) : x[k] = a[k]
    BY <2>1, <2>2, AppendFacts
  <2>4. ASSUME NEW k \in 1..Len(x) PROVE NewEvent(x[k])
    <3>1. k = Len(a) + 1 \/ k \in 1..Len(a)
      BY <2>3
    <3>2. CASE k = Len(a) + 1
      BY <2>1, <2>3, <3>2 DEF Merged
    <3>3. CASE k \in 1..Len(a)
      BY <2>2, <2>3, <3>3 DEF Collected
    <3>4. QED  BY <3>1, <3>2, <3>3
  <2>5. QED  BY <1>1, <2>4
<1>4. QED  BY <1>2, <1>3

\* The walk leaves the Seed where it is.
LEMMA SeedStep ==
  ASSUME NEW g, NEW b, b.type = "Seed"
  PROVE  Drops(g, b, g)
  BY DEF Drops, Like

\* An event without data ends a batch.
LEMMA OtherStep ==
  ASSUME NEW R, NEW I, NEW g \in Gathered(R, I), Collected(g), NEW b \in Blocks(R, I),
         NewEvent(b), ~IsData(b), NEW h, h = GatherOther(g, b)
  PROVE  Collected(h) /\ Takes(g, b, h)
<1>1. PICK x \in Seq(Blocks(R, I)) : x = Flush(g)
  BY BatchFacts DEF Gathered, Flush
<1>2. PICK y : y = Append(x, b)
  OBVIOUS
<1>3. PICK i : i = IF g.info.slices # <<>> THEN EmptyBatch ELSE g.info
  OBVIOUS
<1>4. h = [g EXCEPT !.batches = y, !.info = i]
  BY <1>1, <1>2, <1>3 DEF GatherOther, Flush
<1>5. h.batches = y /\ h.info = i /\ h.records = g.records
  BY <1>4 DEF Gathered
<1>6. i.slices = <<>> /\ i.newCheckpoint = 0 /\ i.watermark = Carried(g) /\ i \in Batch(R, I)
  BY <1>3 DEF EmptyBatch, Collected, Carried, Open, Gathered, Batch
<1>7. y \in Seq(Blocks(R, I)) /\ h \in Gathered(R, I)
  <2>1. y \in Seq(Blocks(R, I))
    BY <1>2, AppendFacts
  <2>2. QED  BY <1>4, <1>6, <2>1 DEF Gathered
<1>8. /\ Len(y) = Len(x) + 1 /\ y[Len(x) + 1] = b /\ \A k \in 1..Len(x) : y[k] = x[k]
      /\ Len(x) \in Nat
  BY <1>2, AppendFacts
<1>9. \A k \in 1..Len(x) : NewEvent(x[k])
  BY <1>1, FlushedEvents
<1>10. Collected(h)
  <2>1. ASSUME NEW k \in 1..Len(y) PROVE NewEvent(y[k])
    <3>1. k = Len(x) + 1 \/ k \in 1..Len(x)
      BY <1>8
    <3>2. QED  BY <1>8, <1>9, <3>1
  <2>2. Len(i.slices) = 0
    BY <1>6
  <2>3. QED  BY <1>5, <1>6, <2>1, <2>2 DEF Collected
<1>11. ~Open(h) /\ Flush(h) = y
  <2>1. ~Open(h)
    BY <1>5, <1>6 DEF Open
  <2>2. QED  BY <1>5, <1>7, <1>10, <2>1, FlushFacts
<1>12. QED  BY <1>1, <1>2, <1>5, <1>6, <1>10, <1>11 DEF Takes

\* A block with records: the fields of the result.
LEMMA DataFields ==
  ASSUME NEW R, NEW I, NEW g \in Gathered(R, I), NEW b \in Blocks(R, I), NEW h, h = GatherData(g, b)
  PROVE  /\ h.batches = IF Full(g, b) THEN Flush(g) ELSE g.batches
         /\ h.info.slices = IF Full(g, b) THEN <<b>> ELSE Append(g.info.slices, b)
         /\ h.info.watermark =
              Or(IF Full(g, b) /\ Open(g) THEN 0 ELSE g.info.watermark, b.watermark)
         /\ h.info.newCheckpoint =
              Or(IF Full(g, b) /\ Open(g) THEN 0 ELSE g.info.newCheckpoint, b.newCheckpoint)
         /\ h.records = IF Full(g, b) THEN Len(b.data) ELSE g.records + Len(b.data)
<1>1. PICK base : base = IF Full(g, b) /\ g.info.slices # <<>> THEN EmptyBatch ELSE g.info
  OBVIOUS
<1>2. base \in Batch(R, I)
  BY <1>1 DEF EmptyBatch, Batch, Gathered
<1>3. PICK s : s = IF Full(g, b) THEN <<b>> ELSE Append(base.slices, b)
  OBVIOUS
<1>4. PICK i : i = [base EXCEPT !.slices = s]
  OBVIOUS
<1>5. /\ i.slices = s /\ i.watermark = base.watermark /\ i.newCheckpoint = base.newCheckpoint
      /\ DOMAIN i = {"slices", "watermark", "sourceState", "newCheckpoint"}
  BY <1>2, <1>4 DEF Batch
<1>6. PICK j : j = WithUpperBounds(i, b)
  OBVIOUS
<1>7. /\ j.slices = s /\ j.watermark = Or(base.watermark, b.watermark)
      /\ j.newCheckpoint = Or(base.newCheckpoint, b.newCheckpoint)
  BY <1>5, <1>6 DEF WithUpperBounds
<1>8. h = [batches |-> IF Full(g, b) THEN Flush(g) ELSE g.batches,
           info    |-> j,
           records |-> IF Full(g, b) THEN Len(b.data) ELSE g.records + Len(b.data)]
  BY <1>1, <1>3, <1>4, <1>6 DEF GatherData, Full, Flush
<1>9. h.info = j /\ h.batches = (IF Full(g, b) THEN Flush(g) ELSE g.batches)
      /\ h.records = (IF Full(g, b) THEN Len(b.data) ELSE g.records + Len(b.data))
  BY <1>8
<1>10. /\ base.watermark = IF Full(g, b) /\ Open(g) THEN 0 ELSE g.info.watermark
       /\ base.newCheckpoint = IF Full(g, b) /\ Open(g) THEN 0 ELSE g.info.newCheckpoint
  BY <1>1 DEF EmptyBatch, Open
<1>11. s = IF Full(g, b) THEN <<b>> ELSE Append(g.info.slices, b)
  BY <1>1, <1>3
<1>12. QED  BY <1>7, <1>9, <1>10, <1>11

\* It begins a batch if there is none or it is full, and else is added to it.
LEMMA DataStep ==
  ASSUME NEW R, NEW I, NEW g \in Gathered(R, I), Collected(g), NEW b \in Blocks(R, I),
         NewEvent(b), IsData(b), NEW h, h = GatherData(g, b), h \in Gathered(R, I)
  PROVE  Collected(h) /\ (Takes(g, b, h) \/ Joins(g, b, h))
<1>1. /\ h.batches = IF Full(g, b) THEN Flush(g) ELSE g.batches
      /\ h.info.slices = IF Full(g, b) THEN <<b>> ELSE Append(g.info.slices, b)
      /\ h.info.watermark = Or(IF Full(g, b) /\ Open(g) THEN 0 ELSE g.info.watermark, b.watermark)
      /\ h.info.newCheckpoint =
           Or(IF Full(g, b) /\ Open(g) THEN 0 ELSE g.info.newCheckpoint, b.newCheckpoint)
      /\ h.records = IF Full(g, b) THEN Len(b.data) ELSE g.records + Len(b.data)
  BY DataFields
<1>2. PICK s \in Seq(Blocks(R, I)) : s = g.info.slices
  BY DEF Gathered, Batch
<1>3. /\ Append(s, b) \in Seq(Blocks(R, I)) /\ Len(Append(s, b)) = Len(s) + 1 /\ Len(s) \in Nat
      /\ Append(s, b)[Len(s) + 1] = b /\ \A i \in 1..Len(s) : Append(s, b)[i] = s[i]
      /\ s = <<>> <=> Len(s) = 0
  BY AppendFacts
<1>4. PICK u : u = h.info.slices
  OBVIOUS
<1>5. PICK one : one = <<b>>
  OBVIOUS
<1>6. one \in Seq(Blocks(R, I)) /\ Len(one) = 1 /\ one[1] = b
  BY <1>5
<1>7. \A i \in 1..Len(u) : NewEvent(u[i]) /\ IsData(u[i])
  <2>1. CASE Full(g, b)
    BY <1>1, <1>4, <1>5, <1>6, <2>1
  <2>2. CASE ~Full(g, b)
    <3>1. u = Append(s, b)
      BY <1>1, <1>2, <1>4, <2>2
    <3>2. \A i \in 1..Len(u) : i = Len(s) + 1 \/ i \in 1..Len(s)
      BY <1>3, <3>1
    <3>3. \A i \in 1..Len(s) : NewEvent(s[i]) /\ IsData(s[i])
      BY <1>2 DEF Collected
    <3>4. QED  BY <1>3, <3>1, <3>2, <3>3
  <2>3. QED  BY <2>1, <2>2
<1>8. Collected(h)
  <2>1. \A i \in 1..Len(h.batches) : NewEvent(h.batches[i])
    BY <1>1, FlushedEvents DEF Collected
  <2>2. h.info.newCheckpoint = 0
    BY <1>1 DEF Or, Collected, NewEvent, RootEvent
  <2>3. QED  BY <1>4, <1>7, <2>1, <2>2 DEF Collected
<1>9. Open(h)
  <2>1. Len(u) # 0
    BY <1>1, <1>2, <1>3, <1>4, <1>5, <1>6
  <2>2. QED  BY <1>4, <2>1 DEF Open
<1>10. CASE Full(g, b) \/ ~Open(g)
  <2>1. u = one
    <3>1. CASE Full(g, b)
      BY <1>1, <1>4, <1>5, <3>1
    <3>2. CASE ~Full(g, b) /\ ~Open(g)
      <4>1. u = Append(s, b) /\ Len(s) = 0
        BY <1>1, <1>2, <1>3, <1>4, <3>2 DEF Open
      <4>2. Len(u) = 1 /\ u[1] = b /\ u \in Seq(Blocks(R, I))
        BY <1>3, <4>1
      <4>3. QED  BY <1>6, <4>2, SeqEqual
    <3>3. QED  BY <1>10, <3>1, <3>2
  <2>2. h.batches = Flush(g)
    BY <1>1, <1>10, FlushFacts
  <2>3. PICK e \in Blocks(R, I) : Flush(h) = Append(h.batches, e) /\ Merged(e, h.info)
    BY <1>8, <1>9, FlushFacts
  <2>4. e = b
    BY <1>4, <1>6, <2>1, <2>3 DEF Merged
  <2>5. h.info.watermark = Or(Carried(g), b.watermark)
    BY <1>1, <1>10 DEF Carried
  <2>6. Takes(g, b, h)
    BY <1>1, <1>9, <1>10, <2>2, <2>3, <2>4, <2>5 DEF Takes
  <2>7. QED  BY <1>8, <2>6
<1>11. CASE ~Full(g, b) /\ Open(g)
  <2>1. u = Append(s, b) /\ h.batches = g.batches
    BY <1>1, <1>2, <1>4, <1>11
  <2>2. PICK d \in Blocks(R, I) : Flush(g) = Append(g.batches, d) /\ Merged(d, g.info)
    BY <1>11, FlushFacts
  <2>3. PICK e \in Blocks(R, I) : Flush(h) = Append(h.batches, e) /\ Merged(e, h.info)
    BY <1>8, <1>9, FlushFacts
  <2>4. PICK a \in Seq(Blocks(R, I)) : a = g.batches
    BY DEF Gathered
  <2>5. PICK x, y : x = Flush(g) /\ y = Flush(h)
    OBVIOUS
  <2>6. /\ Len(x) = Len(a) + 1 /\ x[Len(a) + 1] = d /\ Len(y) = Len(a) + 1 /\ y[Len(a) + 1] = e
        /\ \A k \in 1..Len(a) : x[k] = a[k] /\ y[k] = a[k]
        /\ Len(a) \in Nat
    BY <2>1, <2>2, <2>3, <2>4, <2>5, AppendFacts
  <2>7. Len(u) # 1 /\ u[Len(u)] = b
    BY <1>2, <1>3, <1>11, <2>1 DEF Open
  <2>8. /\ e.data = DataOf(Reverse(u)) /\ e.start = b.start /\ e.prevOffset = b.prevOffset
        /\ e.watermark = h.info.watermark /\ NewEvent(e) /\ IsData(e)
    BY <1>4, <2>3, <2>7 DEF Merged
  <2>9. e.data = b.data \o d.data
    <3>1. DataOf(Reverse(u)) = b.data \o DataOf(Reverse(s))
      BY <2>1, DataOfReversed
    <3>2. d.data = DataOf(Reverse(s))
      BY <1>2, <2>2 DEF Merged
    <3>3. QED  BY <2>8, <3>1, <3>2
  <2>10. e.type = b.type
    BY <2>8, RootData DEF NewEvent
  <2>11. Len(x) \in Nat \ {0} /\ Len(x) - 1 = Len(a) /\ x[Len(x)] = d /\ y[Len(x)] = e
    BY <2>6
  <2>12. \A k \in 1..(Len(x) - 1) : y[k] = x[k]
    BY <2>6, <2>11
  <2>13. h.records = g.records + Len(b.data) /\ h.info.watermark = Or(g.info.watermark, b.watermark)
    BY <1>1, <1>11
  <2>14. Len(y) = Len(x)
    BY <2>6
  <2>15. Joins(g, b, h)
    BY <1>9, <1>11, <2>5, <2>8, <2>9, <2>10, <2>11, <2>12, <2>13, <2>14 DEF Joins
  <2>16. QED  BY <1>8, <2>15
<1>12. QED  BY <1>10, <1>11

\* Compaction that keeps the data too.
Everything(keep) == keep = FALSE

\* Each block is dropped, taken as it is or joined to the open batch.
LEMMA WalkStep ==
  ASSUME NEW R, NEW I, NEW g \in Gathered(R, I), Collected(g), NEW b \in Blocks(R, I),
         RootEvent(b), NEW keep, Everything(keep) \/ OnlyMetadata(keep),
         NEW h, h = GatherBlock(g, b, keep)
  PROVE  /\ Collected(h)
         /\ Everything(keep) => Drops(g, b, h) \/ Takes(g, b, h) \/ Joins(g, b, h)
<1>1. CASE b.type = "Seed"
  <2>1. h = g
    BY <1>1 DEF GatherBlock
  <2>2. QED  BY <1>1, <2>1, SeedStep
<1>2. CASE b.type # "Seed" /\ ~IsData(b)
  <2>1. NewEvent(b)
    BY <1>2 DEF NewEvent
  <2>2. h = GatherOther(g, b)
    BY <1>2 DEF GatherBlock, IsData
  <2>3. QED  BY <1>2, <2>1, <2>2, OtherStep
<1>3. CASE IsData(b)
  <2>1. b.type = "AddData"
    BY <1>3, RootData
  <2>2. CASE OnlyMetadata(keep) \/ b.data = <<>>
    <3>1. h = [g EXCEPT !.info = WithUpperBounds(@, b)]
      BY <2>1, <2>2 DEF GatherBlock, OnlyMetadata
    <3>2. OnlyMetadata(keep) => ~Everything(keep)
      BY DEF OnlyMetadata, Everything
    <3>3. QED  BY <1>3, <2>2, <3>1, <3>2, DropStep
  <2>3. CASE ~OnlyMetadata(keep) /\ b.data # <<>>
    <3>1. keep = FALSE
      BY <2>3 DEF Everything
    <3>2. h = GatherData(g, b)
      BY <2>1, <2>3, <3>1 DEF GatherBlock
    <3>3. h \in Gathered(R, I)
      BY GatherFacts
    <3>4. NewEvent(b)
      BY <2>1, <2>3 DEF NewEvent
    <3>5. QED  BY <1>3, <3>2, <3>3, <3>4, DataStep
  <2>4. QED  BY <2>2, <2>3
<1>4. QED  BY <1>1, <1>2, <1>3

\* The walk over the blocks r, newest first: f[n] is what it has after n of them.
Run(f, r, N) ==
  /\ Flush(f[0]) = <<>> /\ ~Open(f[0]) /\ f[0].records = 0 /\ f[0].info.watermark = 0
  /\ \A n \in 1..N : \/ Drops(f[n - 1], r[n], f[n])
                     \/ Takes(f[n - 1], r[n], f[n])
                     \/ Joins(f[n - 1], r[n], f[n])
Walks(f, R, I, N) == \A n \in 0..N : f[n] \in Gathered(R, I) /\ Collected(f[n])

\* The walk of gather_chain_info, from the head to the Seed.
LEMMA WalkFacts ==
  ASSUME NEW R, NEW I, NEW c \in Seq(Blocks(R, I)), \A i \in 1..Len(c) : RootEvent(c[i]),
         NEW keep, Everything(keep) \/ OnlyMetadata(keep),
         NEW N \in Nat, N = Len(c), NEW r, r = Reverse(c)
  PROVE  \E f : /\ Walks(f, R, I, N) /\ gather_chain_info(c, keep) = f[N].batches
                /\ Everything(keep) => Run(f, r, N)
<1>1. \A n \in 1..N : r[n] \in Blocks(R, I) /\ RootEvent(r[n])
  <2>1. ASSUME NEW n \in 1..N PROVE r[n] \in Blocks(R, I) /\ RootEvent(r[n])
    <3>1. (N - n) + 1 \in 1..Len(c)
      OBVIOUS
    <3>2. r[n] = c[(N - n) + 1]
      BY ReverseAt
    <3>3. QED  BY <3>1, <3>2
  <2>2. QED  BY <2>1
<1>2. PICK base : base = [batches |-> <<>>, info |-> EmptyBatch, records |-> 0]
  OBVIOUS
<1>3. PICK f : /\ f[0] = base /\ \A n \in 1..N : f[n] = GatherBlock(f[n - 1], r[n], keep)
               /\ \A n \in 0..N : f[n] \in Gathered(R, I)
               /\ gather_chain_info(c, keep) = f[N].batches
  <2>1. \E f : /\ f[0] = [batches |-> <<>>, info |-> EmptyBatch, records |-> 0]
               /\ \A n \in 1..Len(c) : f[n] = GatherBlock(f[n - 1], Reverse(c)[n], keep)
               /\ \A n \in 0..Len(c) : f[n] \in Gathered(R, I)
               /\ gather_chain_info(c, keep) = f[Len(c)].batches
    BY GatherRecursion
  <2>2. QED  BY <1>2, <2>1
<1>4. /\ base.info.slices = <<>> /\ base.info.watermark = 0 /\ base.info.newCheckpoint = 0
      /\ base.batches = <<>> /\ base.records = 0
  BY <1>2 DEF EmptyBatch
<1>5. Len(<<>>) = 0
  OBVIOUS
<1>6. Collected(base)
  BY <1>4, <1>5 DEF Collected
<1>7. Flush(base) = <<>> /\ ~Open(base)
  BY <1>4, <1>5 DEF Flush, Open, append_add_data_batch
<1> DEFINE T == {n \in 0..N : Collected(f[n])}
<1>8. 0 \in T
  BY <1>3, <1>6
<1>9. ASSUME NEW n \in 1..N, Collected(f[n - 1])
      PROVE  /\ Collected(f[n])
             /\ Everything(keep) => \/ Drops(f[n - 1], r[n], f[n])
                                    \/ Takes(f[n - 1], r[n], f[n])
                                    \/ Joins(f[n - 1], r[n], f[n])
  <2>1. PICK g, b, h : g = f[n - 1] /\ b = r[n] /\ h = f[n]
    OBVIOUS
  <2>2. n - 1 \in 0..N
    OBVIOUS
  <2>3. g \in Gathered(R, I) /\ Collected(g) /\ b \in Blocks(R, I) /\ RootEvent(b)
    BY <1>1, <1>3, <1>9, <2>1, <2>2
  <2>4. h = GatherBlock(g, b, keep)
    BY <1>3, <2>1
  <2>5. /\ Collected(h)
        /\ Everything(keep) => Drops(g, b, h) \/ Takes(g, b, h) \/ Joins(g, b, h)
    BY <2>3, <2>4, WalkStep
  <2>6. QED  BY <2>1, <2>5
<1>10. ASSUME NEW n \in 1..N, n - 1 \in T PROVE n \in T
  BY <1>9, <1>10
<1>11. \A n \in 0..N : n \in T
  <2> HIDE DEF T
  <2> QED  BY <1>8, <1>10, IntervalInduction
<1>12. \A n \in 0..N : Collected(f[n])
  BY <1>11
<1>13. Walks(f, R, I, N)
  BY <1>3, <1>12 DEF Walks
<1>14. ASSUME Everything(keep) PROVE Run(f, r, N)
  <2>1. \A n \in 1..N : n - 1 \in 0..N
    OBVIOUS
  <2>2. \A n \in 1..N : \/ Drops(f[n - 1], r[n], f[n])
                        \/ Takes(f[n - 1], r[n], f[n])
                        \/ Joins(f[n - 1], r[n], f[n])
    BY <1>9, <1>12, <1>14, <2>1
  <2>3. QED  BY <1>3, <1>4, <1>7, <2>2 DEF Run
<1>15. QED
  <2> HIDE DEF T
  <2> QED  BY <1>3, <1>13, <1>14

\* A step of the walk, as it is seen in the events gathered so far.
Dropped(x, b, y) ==
  /\ b.type = "Seed" \/ (IsData(b) /\ b.data = <<>>)
  /\ Len(y) = Len(x) /\ \A k \in 1..Len(x) : Like(y[k], x[k])
Taken(x, b, y) ==
  /\ NewEvent(b) /\ Len(y) = Len(x) + 1 /\ y[Len(x) + 1] = b /\ \A k \in 1..Len(x) : y[k] = x[k]
Joined(x, b, y) ==
  /\ NewEvent(b) /\ IsData(b) /\ Len(y) = Len(x) /\ Len(x) # 0 /\ IsData(x[Len(x)])
  /\ \A k \in 1..(Len(x) - 1) : y[k] = x[k]
  /\ y[Len(x)].type = b.type /\ y[Len(x)].data = b.data \o x[Len(x)].data
  /\ y[Len(x)].start = b.start /\ y[Len(x)].prevOffset = b.prevOffset
NewEvents(x) ==
  /\ Len(x) \in Nat
  /\ \A k \in 1..Len(x) : IsBlock(x[k], Recorded) /\ NewEvent(x[k])

\* The last of them is an open batch.
OpenLast(g) == Open(g) <=> Len(Flush(g)) # 0 /\ IsData(Flush(g)[Len(Flush(g))])

\* What that does to the blocks gathered so far.
LEMMA StepShape ==
  ASSUME NEW I, NEW g \in Gathered(Recorded, I), Collected(g), NEW b, OpenLast(g),
         NEW h \in Gathered(Recorded, I), Collected(h),
         Drops(g, b, h) \/ Takes(g, b, h) \/ Joins(g, b, h),
         NEW x, x = Flush(g), NEW y, y = Flush(h)
  PROVE  /\ NewEvents(x) /\ NewEvents(y) /\ OpenLast(h)
         /\ Drops(g, b, h) => Dropped(x, b, y)
         /\ Takes(g, b, h) => Taken(x, b, y)
         /\ Joins(g, b, h) => Joined(x, b, y)
<1>1. x \in Seq(Blocks(Recorded, I)) /\ y \in Seq(Blocks(Recorded, I))
      /\ (\A k \in 1..Len(x) : NewEvent(x[k])) /\ (\A k \in 1..Len(y) : NewEvent(y[k]))
  BY FlushedEvents
<1>2. NewEvents(x) /\ NewEvents(y)
  <2>1. \A k \in 1..Len(x) : IsBlock(x[k], Recorded)
    BY <1>1, BlockOf
  <2>2. \A k \in 1..Len(y) : IsBlock(y[k], Recorded)
    BY <1>1, BlockOf
  <2>3. QED  BY <1>1, <2>1, <2>2 DEF NewEvents
<1>3. Len(x) \in Nat /\ Len(y) \in Nat
  BY <1>1
<1>4. CASE Drops(g, b, h)
  <2>1. /\ Open(h) <=> Open(g)
        /\ Dropped(x, b, y)
    BY <1>4 DEF Drops, Dropped
  <2>2. Len(x) # 0 => (IsData(y[Len(x)]) <=> IsData(x[Len(x)]))
    <3>1. Len(x) # 0 => Len(x) \in 1..Len(x)
      BY <1>3
    <3>2. QED  BY <2>1, <3>1 DEF Dropped, Like, IsData
  <2>3. OpenLast(h)
    BY <2>1, <2>2 DEF OpenLast, Dropped
  <2>4. Joins(g, b, h) => FALSE
    BY <1>4 DEF Drops, Joins, NewEvent
  <2>5. Takes(g, b, h) => FALSE
    BY <1>4 DEF Drops, Takes, NewEvent
  <2>6. QED  BY <1>2, <2>1, <2>3, <2>4, <2>5
<1>5. CASE Takes(g, b, h)
  <2>1. NewEvent(b) /\ y = Append(x, b) /\ (Open(h) <=> IsData(b))
    BY <1>5 DEF Takes
  <2>2. Len(y) = Len(x) + 1 /\ y[Len(x) + 1] = b /\ \A k \in 1..Len(x) : y[k] = x[k]
    BY <1>1, <2>1
  <2>3. OpenLast(h) /\ Taken(x, b, y)
    <3>1. Len(y) # 0 /\ y[Len(y)] = b
      BY <1>3, <2>2
    <3>2. QED  BY <2>1, <2>2, <3>1 DEF OpenLast, Taken
  <2>4. ~Drops(g, b, h)
    BY <2>1 DEF Drops, NewEvent
  <2>5. ~Joins(g, b, h)
    <3>1. Joins(g, b, h) => Len(y) = Len(x)
      BY DEF Joins
    <3>2. QED  BY <1>3, <2>2, <3>1
  <2>6. QED  BY <1>2, <2>3, <2>4, <2>5
<1>6. CASE Joins(g, b, h)
  <2>1. NewEvent(b) /\ IsData(b) /\ Open(g) /\ Open(h) /\ Len(y) = Len(x) /\ y[Len(x)].type = b.type
    BY <1>6 DEF Joins
  <2>2. Len(x) # 0 /\ IsData(x[Len(x)])
    BY <2>1 DEF OpenLast
  <2>3. Joined(x, b, y)
    BY <1>6, <2>1, <2>2 DEF Joins, Joined
  <2>4. OpenLast(h)
    BY <2>1, <2>2 DEF OpenLast, IsData
  <2>5. ~Drops(g, b, h)
    BY <2>1 DEF Drops, NewEvent
  <2>6. ~Takes(g, b, h)
    <3>1. Len(Append(x, b)) = Len(x) + 1
      BY <1>1
    <3>2. QED  BY <1>3, <2>1, <3>1 DEF Takes
  <2>7. QED  BY <1>2, <2>3, <2>4, <2>5, <2>6
<1>7. QED  BY <1>4, <1>5, <1>6

\* Of the schema: an event with data comes from a block with data, and every
\* schema before that block comes before that event.  And no type is invented.
HasRecords(b) == IsData(b) /\ b.data # <<>>
SchemasKept(x, r, n) ==
  \A k \in 1..Len(x) : IsData(x[k]) =>
    \E i \in 1..n : /\ HasRecords(r[i])
                    /\ \A j \in (i + 1)..n : r[j].type = "SetDataSchema" =>
                         \E l \in (k + 1)..Len(x) : x[l].type = "SetDataSchema"
TypesKept(x, r, n) == \A k \in 1..Len(x) : \E i \in 1..n : x[k].type = r[i].type

\* A block keeps the type it was gathered with.
LEMMA TypesStep ==
  ASSUME NEW r, NEW n \in Nat \ {0}, NEW x, NewEvents(x), NEW b, b = r[n], NEW y, NewEvents(y),
         TypesKept(x, r, n - 1),
         Dropped(x, b, y) \/ Taken(x, b, y) \/ Joined(x, b, y)
  PROVE  TypesKept(y, r, n)
<1>1. ASSUME NEW k \in 1..Len(y), y[k].type # b.type
      PROVE  k \in 1..Len(x) /\ y[k].type = x[k].type
  <2>1. Len(x) \in Nat /\ Len(y) \in Nat
    BY DEF NewEvents
  <2>2. CASE Dropped(x, b, y)
    BY <2>2 DEF Dropped, Like
  <2>3. CASE Taken(x, b, y)
    <3>1. k = Len(x) + 1 \/ k \in 1..Len(x)
      BY <2>1, <2>3 DEF Taken
    <3>2. QED  BY <1>1, <2>3, <3>1 DEF Taken
  <2>4. CASE Joined(x, b, y)
    <3>1. k = Len(x) \/ k \in 1..(Len(x) - 1)
      BY <2>1, <2>4 DEF Joined
    <3>2. k \in 1..Len(x)
      BY <2>4 DEF Joined
    <3>3. QED  BY <1>1, <2>4, <3>1, <3>2 DEF Joined
  <2>5. QED  BY <2>2, <2>3, <2>4
<1>2. n \in 1..n /\ \A i \in 1..(n - 1) : i \in 1..n
  OBVIOUS
<1>3. QED  BY <1>1, <1>2 DEF TypesKept

\* A schema is gathered after the data that need it.
LEMMA SchemasStep ==
  ASSUME NEW r, NEW n \in Nat \ {0}, NEW x, NewEvents(x), NEW b, b = r[n], NEW y, NewEvents(y),
         SchemasKept(x, r, n - 1),
         Dropped(x, b, y) \/ Taken(x, b, y) \/ Joined(x, b, y)
  PROVE  SchemasKept(y, r, n)
<1>1. Len(x) \in Nat /\ Len(y) \in Nat
  BY DEF NewEvents
<1>2. n \in 1..n /\ (\A i \in 1..(n - 1) : i \in 1..n) /\ (\A j \in (n + 1)..n : FALSE)
  OBVIOUS
<1>3. \A i \in 1..(n - 1) : \A j \in (i + 1)..n : j \in (i + 1)..(n - 1) \/ j = n
  OBVIOUS
<1>4. ASSUME NEW k \in 1..Len(y), HasRecords(b)
      PROVE  \E i \in 1..n : /\ HasRecords(r[i])
                             /\ \A j \in (i + 1)..n : r[j].type = "SetDataSchema" =>
                                  \E l \in (k + 1)..Len(y) : y[l].type = "SetDataSchema"
  BY <1>2, <1>4
<1>5. ASSUME NEW k \in 1..Len(x), IsData(x[k]),
             \A l \in (k + 1)..Len(x) : x[l].type = "SetDataSchema" =>
               l \in (k + 1)..Len(y) /\ y[l].type = "SetDataSchema",
             b.type = "SetDataSchema" => \E l \in (k + 1)..Len(y) : y[l].type = "SetDataSchema"
      PROVE  \E i \in 1..n : /\ HasRecords(r[i])
                             /\ \A j \in (i + 1)..n : r[j].type = "SetDataSchema" =>
                                  \E l \in (k + 1)..Len(y) : y[l].type = "SetDataSchema"
  <2>1. PICK i \in 1..(n - 1) :
          /\ HasRecords(r[i])
          /\ \A j \in (i + 1)..(n - 1) : r[j].type = "SetDataSchema" =>
               \E l \in (k + 1)..Len(x) : x[l].type = "SetDataSchema"
    BY <1>5 DEF SchemasKept
  <2>2. ASSUME NEW j \in (i + 1)..n, r[j].type = "SetDataSchema"
        PROVE  \E l \in (k + 1)..Len(y) : y[l].type = "SetDataSchema"
    <3>1. CASE j = n
      BY <1>5, <2>2, <3>1
    <3>2. CASE j \in (i + 1)..(n - 1)
      <4>1. PICK l \in (k + 1)..Len(x) : x[l].type = "SetDataSchema"
        BY <2>1, <2>2, <3>2
      <4>2. QED  BY <1>5, <4>1
    <3>3. QED  BY <1>3, <3>1, <3>2
  <2>3. i \in 1..n
    BY <1>2
  <2>4. QED  BY <2>1, <2>2, <2>3
<1>6. CASE Dropped(x, b, y)
  <2>1. ASSUME NEW k \in 1..Len(y), IsData(y[k])
        PROVE  /\ k \in 1..Len(x) /\ IsData(x[k])
               /\ \A l \in (k + 1)..Len(x) : x[l].type = "SetDataSchema" =>
                    l \in (k + 1)..Len(y) /\ y[l].type = "SetDataSchema"
    <3>1. k \in 1..Len(x) /\ IsData(x[k])
      BY <1>6, <2>1 DEF Dropped, Like, IsData
    <3>2. ASSUME NEW l \in (k + 1)..Len(x)
          PROVE  l \in (k + 1)..Len(y) /\ y[l].type = x[l].type
      <4>1. l \in 1..Len(x)
        BY <1>1
      <4>2. QED  BY <1>6, <4>1 DEF Dropped, Like
    <3>3. QED  BY <3>1, <3>2
  <2>2. b.type # "SetDataSchema"
    BY <1>6 DEF Dropped, IsData
  <2>3. QED  BY <1>5, <2>1, <2>2 DEF SchemasKept
<1>7. CASE Taken(x, b, y)
  <2>1. ASSUME NEW k \in 1..Len(y), IsData(y[k]), k \in 1..Len(x)
        PROVE  /\ IsData(x[k])
               /\ \A l \in (k + 1)..Len(x) : x[l].type = "SetDataSchema" =>
                    l \in (k + 1)..Len(y) /\ y[l].type = "SetDataSchema"
               /\ b.type = "SetDataSchema" => \E l \in (k + 1)..Len(y) : y[l].type = "SetDataSchema"
    <3>1. IsData(x[k])
      BY <1>7, <2>1 DEF Taken
    <3>2. ASSUME NEW l \in (k + 1)..Len(x)
          PROVE  l \in (k + 1)..Len(y) /\ y[l].type = x[l].type
      <4>1. l \in 1..Len(x)
        BY <1>1, <2>1
      <4>2. y[l] = x[l] /\ Len(y) = Len(x) + 1
        BY <1>7, <4>1 DEF Taken
      <4>3. QED  BY <1>1, <2>1, <4>2
    <3>3. y[Len(x) + 1] = b /\ Len(y) = Len(x) + 1
      BY <1>7 DEF Taken
    <3>4. Len(x) + 1 \in (k + 1)..Len(y)
      BY <1>1, <2>1, <3>3
    <3>5. QED  BY <3>1, <3>2, <3>3, <3>4
  <2>2. ASSUME NEW k \in 1..Len(y), IsData(y[k]), k \notin 1..Len(x) PROVE HasRecords(b)
    <3>1. k = Len(x) + 1
      BY <1>1, <1>7, <2>2 DEF Taken
    <3>2. QED  BY <1>7, <2>2, <3>1 DEF Taken, HasRecords, NewEvent
  <2>3. ASSUME NEW k \in 1..Len(y), IsData(y[k])
        PROVE  \E i \in 1..n : /\ HasRecords(r[i])
                               /\ \A j \in (i + 1)..n : r[j].type = "SetDataSchema" =>
                                    \E l \in (k + 1)..Len(y) : y[l].type = "SetDataSchema"
    <3>1. CASE k \in 1..Len(x)
      BY <1>5, <2>1, <2>3, <3>1
    <3>2. CASE k \notin 1..Len(x)
      BY <1>4, <2>2, <2>3, <3>2
    <3>3. QED  BY <3>1, <3>2
  <2>4. QED  BY <2>3 DEF SchemasKept
<1>8. CASE Joined(x, b, y)
  <2>1. HasRecords(b)
    BY <1>8 DEF Joined, HasRecords, NewEvent
  <2>2. QED  BY <1>4, <2>1 DEF SchemasKept
<1>9. QED  BY <1>6, <1>7, <1>8

\* Of the offsets: the events with data follow each other, and the oldest of
\* them starts where the oldest data block of the walk does.
Linked(s, n) ==
  \A i, j \in 1..n : /\ i < j /\ IsData(s[i]) /\ IsData(s[j])
                     /\ \A k \in (i + 1)..(j - 1) : ~IsData(s[k])
                     => s[i].prevOffset = LastOffset(s[j])
Starts(x) == \A k \in 1..Len(x) : IsData(x[k]) => x[k].start = x[k].prevOffset + 1
Oldest(s, n, i) == i \in 1..n /\ IsData(s[i]) /\ \A k \in (i + 1)..n : ~IsData(s[k])
OffsetsKept(x, r, n) ==
  /\ Starts(x) /\ Linked(x, Len(x))
  /\ \A k : Oldest(x, Len(x), k) => \E i : Oldest(r, n, i) /\ x[k].prevOffset = r[i].prevOffset

\* The next data block ends where the oldest event with data starts.
LEMMA NextIsLinked ==
  ASSUME NEW r, NEW n \in Nat \ {0}, Linked(r, n), NEW x, NewEvents(x), OffsetsKept(x, r, n - 1),
         NEW b, b = r[n], IsData(b), NEW k, Oldest(x, Len(x), k)
  PROVE  x[k].prevOffset = LastOffset(b)
<1>1. PICK i : Oldest(r, n - 1, i) /\ x[k].prevOffset = r[i].prevOffset
  BY DEF OffsetsKept
<1>2. i \in 1..n /\ n \in 1..n /\ i < n /\ IsData(r[i]) /\ \A j \in (i + 1)..(n - 1) : ~IsData(r[j])
  BY <1>1 DEF Oldest
<1>3. QED  BY <1>1, <1>2 DEF Linked

\* If one of two blocks is empty, they start at the same offset.
LEMMA EmptyOffset ==
  ASSUME NEW b, b.data = <<>>
  PROVE  LastOffset(b) = b.prevOffset
  BY DEF LastOffset

\* The offsets, when a block is dropped,
LEMMA OffsetsDropped ==
  ASSUME NEW r, NEW n \in Nat \ {0}, Linked(r, n), NEW x, NewEvents(x), OffsetsKept(x, r, n - 1),
         NEW b, b = r[n], NEW y, NewEvents(y), Dropped(x, b, y)
  PROVE  OffsetsKept(y, r, n)
<1>1. Len(x) \in Nat /\ Len(y) = Len(x)
  BY DEF NewEvents, Dropped
<1>2. \A k \in 1..Len(x) : /\ IsData(y[k]) <=> IsData(x[k])
                           /\ y[k].prevOffset = x[k].prevOffset /\ y[k].start = x[k].start
                           /\ LastOffset(y[k]) = LastOffset(x[k])
  BY DEF Dropped, Like, IsData, LastOffset
<1>3. Starts(y)
  BY <1>1, <1>2 DEF Starts, OffsetsKept
<1>4. Linked(y, Len(y))
  <2>1. ASSUME NEW i \in 1..Len(x), NEW j \in 1..Len(x), i < j, IsData(y[i]), IsData(y[j]),
               \A k \in (i + 1)..(j - 1) : ~IsData(y[k])
        PROVE  y[i].prevOffset = LastOffset(y[j])
    <3>1. \A k \in (i + 1)..(j - 1) : k \in 1..Len(x)
      BY <1>1
    <3>2. \A k \in (i + 1)..(j - 1) : ~IsData(x[k])
      BY <1>2, <2>1, <3>1
    <3>3. x[i].prevOffset = LastOffset(x[j])
      BY <1>2, <2>1, <3>2 DEF Linked, OffsetsKept
    <3>4. QED  BY <1>2, <3>3
  <2>2. QED  BY <1>1, <2>1 DEF Linked
<1>5. ASSUME NEW k, Oldest(y, Len(y), k)
      PROVE  \E i : Oldest(r, n, i) /\ y[k].prevOffset = r[i].prevOffset
  <2>1. Oldest(x, Len(x), k)
    <3>1. \A l \in (k + 1)..Len(x) : l \in 1..Len(x)
      BY <1>1, <1>5 DEF Oldest
    <3>2. QED  BY <1>1, <1>2, <1>5, <3>1 DEF Oldest
  <2>2. y[k].prevOffset = x[k].prevOffset
    BY <1>2, <2>1 DEF Oldest
  <2>3. CASE IsData(b)
    <3>1. b.data = <<>>
      BY <2>3 DEF Dropped, IsData
    <3>2. x[k].prevOffset = b.prevOffset
      BY <2>1, <2>3, <3>1, NextIsLinked, EmptyOffset
    <3>3. Oldest(r, n, n)
      BY <2>3 DEF Oldest
    <3>4. QED  BY <2>2, <3>2, <3>3
  <2>4. CASE ~IsData(b)
    <3>1. PICK i : Oldest(r, n - 1, i) /\ x[k].prevOffset = r[i].prevOffset
      BY <2>1 DEF OffsetsKept
    <3>2. \A l \in (i + 1)..n : l \in (i + 1)..(n - 1) \/ l = n
      BY <3>1 DEF Oldest
    <3>3. Oldest(r, n, i)
      BY <2>4, <3>1, <3>2 DEF Oldest
    <3>4. QED  BY <2>2, <3>1, <3>3
  <2>5. QED  BY <2>3, <2>4
<1>6. QED  BY <1>3, <1>4, <1>5 DEF OffsetsKept

\* when it is taken,
LEMMA OffsetsTaken ==
  ASSUME NEW r, NEW n \in Nat \ {0}, Linked(r, n), NEW x, NewEvents(x), OffsetsKept(x, r, n - 1),
         NEW b, b = r[n], HasRecords(b) => b.start = b.prevOffset + 1,
         NEW y, NewEvents(y), Taken(x, b, y)
  PROVE  OffsetsKept(y, r, n)
<1>1. /\ Len(x) \in Nat /\ Len(y) = Len(x) + 1 /\ y[Len(x) + 1] = b
      /\ \A k \in 1..Len(x) : y[k] = x[k]
  BY DEF NewEvents, Taken
<1>2. \A k \in 1..Len(y) : k = Len(x) + 1 \/ k \in 1..Len(x)
  BY <1>1
<1>3. Starts(y)
  <2>1. IsData(b) => b.start = b.prevOffset + 1
    BY DEF Taken, NewEvent, HasRecords
  <2>2. \A k \in 1..Len(x) : IsData(x[k]) => x[k].start = x[k].prevOffset + 1
    BY DEF Starts, OffsetsKept
  <2>3. QED  BY <1>1, <1>2, <2>1, <2>2 DEF Starts
<1>4. Linked(y, Len(y))
  <2>1. ASSUME NEW i \in 1..Len(y), NEW j \in 1..Len(y), i < j, IsData(y[i]), IsData(y[j]),
               \A k \in (i + 1)..(j - 1) : ~IsData(y[k])
        PROVE  y[i].prevOffset = LastOffset(y[j])
    <3>1. i \in 1..Len(x) /\ y[i] = x[i]
      <4>1. i \in 1..Len(x)
        BY <1>1, <2>1
      <4>2. QED  BY <1>1, <4>1
    <3>2. \A k \in (i + 1)..(j - 1) : k \in 1..Len(x)
      BY <1>1, <2>1
    <3>3. \A k \in (i + 1)..(j - 1) : ~IsData(x[k])
      BY <1>1, <2>1, <3>2
    <3>4. CASE j \in 1..Len(x)
      BY <1>1, <2>1, <3>1, <3>3, <3>4 DEF Linked, OffsetsKept
    <3>5. CASE j = Len(x) + 1
      <4>1. j - 1 = Len(x)
        BY <1>1, <3>5
      <4>2. \A k \in (i + 1)..Len(x) : ~IsData(x[k])
        BY <3>3, <4>1
      <4>3. Oldest(x, Len(x), i) /\ IsData(b) /\ y[j] = b
        BY <1>1, <2>1, <3>1, <3>5, <4>2 DEF Oldest
      <4>4. x[i].prevOffset = LastOffset(b)
        BY <4>3, NextIsLinked
      <4>5. QED  BY <3>1, <4>3, <4>4
    <3>6. QED  BY <1>2, <3>4, <3>5
  <2>2. QED  BY <2>1 DEF Linked
<1>5. ASSUME NEW k, Oldest(y, Len(y), k)
      PROVE  \E i : Oldest(r, n, i) /\ y[k].prevOffset = r[i].prevOffset
  <2>1. CASE IsData(b)
    <3>1. Len(x) + 1 \in (k + 1)..Len(y) \/ k = Len(x) + 1
      BY <1>1, <1>2, <1>5 DEF Oldest
    <3>2. k = Len(x) + 1
      BY <1>1, <1>5, <2>1, <3>1 DEF Oldest
    <3>3. Oldest(r, n, n)
      BY <2>1 DEF Oldest
    <3>4. QED  BY <1>1, <3>2, <3>3
  <2>2. CASE ~IsData(b)
    <3>1. k \in 1..Len(x)
      BY <1>1, <1>2, <1>5, <2>2 DEF Oldest
    <3>2. \A l \in (k + 1)..Len(x) : l \in 1..Len(x) /\ l \in (k + 1)..Len(y)
      BY <1>1, <3>1
    <3>3. Oldest(x, Len(x), k)
      BY <1>1, <1>5, <3>1, <3>2 DEF Oldest
    <3>4. PICK i : Oldest(r, n - 1, i) /\ x[k].prevOffset = r[i].prevOffset
      BY <3>3 DEF OffsetsKept
    <3>5. \A l \in (i + 1)..n : l \in (i + 1)..(n - 1) \/ l = n
      BY <3>4 DEF Oldest
    <3>6. Oldest(r, n, i)
      BY <2>2, <3>4, <3>5 DEF Oldest
    <3>7. QED  BY <1>1, <3>1, <3>4, <3>6
  <2>3. QED  BY <2>1, <2>2
<1>6. QED  BY <1>3, <1>4, <1>5 DEF OffsetsKept

\* Two slices with nothing between them.
Slice(b) == IsBlock(b, Recorded) /\ HasRecords(b) /\ b.start = b.prevOffset + 1
Concatenates(d, b, e) ==
  /\ e.prevOffset = LastOffset(b)
  /\ d.data = b.data \o e.data /\ d.start = b.start /\ d.prevOffset = b.prevOffset

\* Their merge ends where the later one ends.
LEMMA MergedOffsets ==
  ASSUME NEW b, Slice(b), NEW e, Slice(e), NEW d, Concatenates(d, b, e)
  PROVE  LastOffset(d) = LastOffset(e) /\ d.start = d.prevOffset + 1
<1> USE DEF Slice, Concatenates
<1>1. b.data \in Seq(Recorded) /\ e.data \in Seq(Recorded) /\ b.start \in Int /\ e.start \in Int
      /\ e.prevOffset \in Int
  BY BlockFields
<1>2. PICK p \in Seq(Recorded), q \in Seq(Recorded) : p = b.data /\ q = e.data
  BY <1>1
<1>3. Len(p \o q) = Len(p) + Len(q) /\ Len(p) \in Nat \ {0} /\ Len(q) \in Nat \ {0}
  BY <1>2 DEF HasRecords
<1>4. p \o q # <<>>
  BY <1>3
<1>5. LastOffset(d) = b.start + (Len(p) + Len(q)) - 1
  BY <1>2, <1>3, <1>4 DEF LastOffset
<1>6. LastOffset(b) = b.start + Len(p) - 1 /\ LastOffset(e) = e.start + Len(q) - 1
  BY <1>2 DEF LastOffset, HasRecords
<1>7. QED  BY <1>1, <1>3, <1>5, <1>6

\* and when it is joined to the open batch.
LEMMA OffsetsJoined ==
  ASSUME NEW r, NEW n \in Nat \ {0}, Linked(r, n), NEW x, NewEvents(x), OffsetsKept(x, r, n - 1),
         NEW b, b = r[n], IsBlock(b, Recorded), HasRecords(b) => b.start = b.prevOffset + 1,
         NEW y, NewEvents(y), Joined(x, b, y)
  PROVE  OffsetsKept(y, r, n)
<1>1. /\ Len(x) \in Nat \ {0} /\ Len(y) = Len(x) /\ IsData(x[Len(x)]) /\ IsData(b) /\ HasRecords(b)
      /\ \A k \in 1..(Len(x) - 1) : y[k] = x[k]
  BY DEF NewEvents, Joined, HasRecords, NewEvent
<1>2. PICK K \in Nat \ {0} : K = Len(x)
  BY <1>1
<1>3. K \in 1..K /\ \A k \in 1..K : k = K \/ k \in 1..(K - 1)
  OBVIOUS
<1>4. PICK e, d : e = x[K] /\ d = y[K]
  OBVIOUS
<1>5. IsData(d) /\ d.data = b.data \o e.data /\ d.start = b.start /\ d.prevOffset = b.prevOffset
  BY <1>1, <1>2, <1>4 DEF Joined, IsData
<1>6. IsBlock(e, Recorded) /\ HasRecords(e) /\ e.start = e.prevOffset + 1
  BY <1>1, <1>2, <1>3, <1>4 DEF NewEvents, HasRecords, NewEvent, OffsetsKept, Starts
<1>7. e.prevOffset = LastOffset(b)
  <2>1. Oldest(x, K, K)
    BY <1>1, <1>2, <1>3 DEF Oldest
  <2>2. QED  BY <1>1, <1>2, <1>4, <2>1, NextIsLinked
<1>8. LastOffset(d) = LastOffset(e) /\ d.start = d.prevOffset + 1
  <2>1. Slice(b) /\ Slice(e)
    BY <1>1, <1>6 DEF Slice
  <2>2. Concatenates(d, b, e)
    BY <1>5, <1>7 DEF Concatenates
  <2>3. QED  BY <2>1, <2>2, MergedOffsets
<1>9. /\ \A k \in 1..K : (IsData(y[k]) <=> IsData(x[k])) /\ LastOffset(y[k]) = LastOffset(x[k])
      /\ \A k \in 1..(K - 1) : y[k] = x[k]
  BY <1>1, <1>2, <1>3, <1>4, <1>5, <1>8
<1>10. Starts(y)
  <2>1. \A k \in 1..K : IsData(x[k]) => x[k].start = x[k].prevOffset + 1
    BY <1>2 DEF OffsetsKept, Starts
  <2>2. QED  BY <1>1, <1>2, <1>3, <1>4, <1>8, <1>9, <2>1 DEF Starts
<1>11. Linked(y, K)
  <2>1. ASSUME NEW i \in 1..K, NEW j \in 1..K, i < j, IsData(y[i]), IsData(y[j]),
               \A k \in (i + 1)..(j - 1) : ~IsData(y[k])
        PROVE  y[i].prevOffset = LastOffset(y[j])
    <3>1. i \in 1..(K - 1) /\ \A k \in (i + 1)..(j - 1) : k \in 1..K
      BY <2>1
    <3>2. IsData(x[i]) /\ IsData(x[j]) /\ \A k \in (i + 1)..(j - 1) : ~IsData(x[k])
      BY <1>9, <2>1, <3>1
    <3>3. x[i].prevOffset = LastOffset(x[j])
      BY <1>2, <2>1, <3>2 DEF Linked, OffsetsKept
    <3>4. QED  BY <1>9, <3>1, <3>3
  <2>2. QED  BY <2>1 DEF Linked
<1>12. ASSUME NEW k, Oldest(y, K, k)
       PROVE  \E i : Oldest(r, n, i) /\ y[k].prevOffset = r[i].prevOffset
  <2>1. k = K
    <3>1. k \in 1..K /\ (k # K => K \in (k + 1)..K)
      BY <1>12 DEF Oldest
    <3>2. QED  BY <1>4, <1>5, <1>12, <3>1 DEF Oldest
  <2>2. Oldest(r, n, n)
    BY <1>1 DEF Oldest
  <2>3. QED  BY <1>4, <1>5, <2>1, <2>2
<1>13. QED  BY <1>1, <1>2, <1>10, <1>11, <1>12 DEF OffsetsKept

\* Of the records: they are those of the blocks of the walk.
RecordIn(z, s, n) == \E i \in 1..n : IsData(s[i]) /\ z \in RecordsOf(s[i])
RecordsKept(x, r, n) == \A z : RecordIn(z, x, Len(x)) <=> RecordIn(z, r, n)

\* One block more.
LEMMA RecordInNext ==
  ASSUME NEW r, NEW n \in Nat \ {0}, NEW z
  PROVE  RecordIn(z, r, n) <=> RecordIn(z, r, n - 1) \/ (IsData(r[n]) /\ z \in RecordsOf(r[n]))
<1>1. n \in 1..n /\ (\A i \in 1..(n - 1) : i \in 1..n) /\ (\A i \in 1..n : i \in 1..(n - 1) \/ i = n)
  OBVIOUS
<1>2. QED  BY <1>1 DEF RecordIn

\* The records of two slices that follow each other.
LEMMA MergedRecords ==
  ASSUME NEW b, IsBlock(b, Recorded), HasRecords(b), NEW e, IsBlock(e, Recorded), HasRecords(e),
         e.start = b.start + Len(b.data), NEW d, d.data = b.data \o e.data, d.start = b.start
  PROVE  RecordsOf(d) = RecordsOf(b) \cup RecordsOf(e)
<1>1. b.data \in Seq(Recorded) /\ e.data \in Seq(Recorded) /\ b.start \in Int
  BY BlockFields
<1>2. PICK p \in Seq(Recorded), q \in Seq(Recorded) : p = b.data /\ q = e.data
  BY <1>1
<1>3. PICK s \in Int : s = b.start
  BY <1>1
<1>4. PICK P \in Nat, Q \in Nat : P = Len(p) /\ Q = Len(q)
  OBVIOUS
<1>5. PICK u : u = p \o q
  OBVIOUS
<1>6. /\ DOMAIN u = 1..(P + Q) /\ DOMAIN p = 1..P /\ DOMAIN q = 1..Q
      /\ \A i \in 1..P : u[i] = p[i]
      /\ \A i \in 1..Q : u[P + i] = q[i]
  <2>1. Len(u) = P + Q /\ u \in Seq(Recorded)
        /\ \A i \in 1..(P + Q) : u[i] = IF i <= P THEN p[i] ELSE q[i - P]
    BY <1>4, <1>5, ConcatProperties
  <2>2. \A i \in 1..P : u[i] = p[i]
    BY <2>1
  <2>3. ASSUME NEW i \in 1..Q PROVE u[P + i] = q[i]
    <3>1. P + i \in 1..(P + Q) /\ ~(P + i <= P) /\ (P + i) - P = i
      OBVIOUS
    <3>2. QED  BY <2>1, <3>1
  <2>4. DOMAIN u = 1..(P + Q) /\ DOMAIN p = 1..P /\ DOMAIN q = 1..Q
    BY <1>4, <2>1
  <2>5. QED  BY <2>2, <2>3, <2>4
<1>7. /\ RecordsOf(d) = {<<s + i - 1, u[i]>> : i \in 1..(P + Q)}
      /\ RecordsOf(b) = {<<s + i - 1, p[i]>> : i \in 1..P}
      /\ RecordsOf(e) = {<<(s + P) + i - 1, q[i]>> : i \in 1..Q}
  BY <1>2, <1>3, <1>4, <1>5, <1>6 DEF RecordsOf
<1>8. ASSUME NEW z \in RecordsOf(d) PROVE z \in RecordsOf(b) \/ z \in RecordsOf(e)
  <2>1. PICK i \in 1..(P + Q) : z = <<s + i - 1, u[i]>>
    BY <1>7
  <2>2. CASE i \in 1..P
    BY <1>6, <1>7, <2>1, <2>2
  <2>3. CASE i \notin 1..P
    <3>1. PICK j \in 1..Q : j = i - P
      BY <2>3
    <3>2. i = P + j /\ s + i - 1 = (s + P) + j - 1
      BY <3>1
    <3>3. z = <<(s + P) + j - 1, q[j]>>
      BY <1>6, <2>1, <3>2
    <3>4. QED  BY <1>7, <3>3
  <2>4. QED  BY <2>2, <2>3
<1>9. ASSUME NEW z \in RecordsOf(b) PROVE z \in RecordsOf(d)
  <2>1. PICK i \in 1..P : z = <<s + i - 1, p[i]>>
    BY <1>7
  <2>2. i \in 1..(P + Q) /\ z = <<s + i - 1, u[i]>>
    BY <1>6, <2>1
  <2>3. QED  BY <1>7, <2>2
<1>10. ASSUME NEW z \in RecordsOf(e) PROVE z \in RecordsOf(d)
  <2>1. PICK j \in 1..Q : z = <<(s + P) + j - 1, q[j]>>
    BY <1>7
  <2>2. PICK i \in 1..(P + Q) : i = P + j
    OBVIOUS
  <2>3. s + i - 1 = (s + P) + j - 1 /\ u[i] = q[j]
    BY <1>6, <2>2
  <2>4. z = <<s + i - 1, u[i]>>
    BY <2>1, <2>3
  <2>5. QED  BY <1>7, <2>4
<1>11. QED  BY <1>8, <1>9, <1>10

\* No record is lost or made by a step of the walk.
LEMMA RecordsStep ==
  ASSUME NEW r, NEW n \in Nat \ {0}, Linked(r, n), NEW x, NewEvents(x), OffsetsKept(x, r, n - 1),
         NEW b, b = r[n], IsBlock(b, Recorded), HasRecords(b) => b.start = b.prevOffset + 1,
         NEW y, NewEvents(y), RecordsKept(x, r, n - 1),
         Dropped(x, b, y) \/ Taken(x, b, y) \/ Joined(x, b, y)
  PROVE  RecordsKept(y, r, n)
<1> SUFFICES ASSUME NEW z PROVE RecordIn(z, y, Len(y)) <=> RecordIn(z, r, n)
  BY DEF RecordsKept
<1>1. RecordIn(z, x, Len(x)) <=> RecordIn(z, r, n - 1)
  BY DEF RecordsKept
<1>2. RecordIn(z, r, n) <=> RecordIn(z, r, n - 1) \/ (IsData(b) /\ z \in RecordsOf(b))
  BY RecordInNext
<1>3. Len(x) \in Nat /\ Len(y) \in Nat
  BY DEF NewEvents
<1>4. CASE Dropped(x, b, y)
  <2>1. ~(IsData(b) /\ z \in RecordsOf(b))
    <3>1. IsData(b) => b.data = <<>>
      BY <1>4 DEF Dropped, IsData
    <3>2. b.data = <<>> => RecordsOf(b) = {}
      BY DEF RecordsOf
    <3>3. QED  BY <3>1, <3>2
  <2>2. \A k \in 1..Len(x) : (IsData(y[k]) <=> IsData(x[k])) /\ RecordsOf(y[k]) = RecordsOf(x[k])
    BY <1>4 DEF Dropped, Like, IsData, RecordsOf
  <2>3. Len(y) = Len(x)
    BY <1>4 DEF Dropped
  <2>4. RecordIn(z, y, Len(y)) <=> RecordIn(z, x, Len(x))
    BY <2>2, <2>3 DEF RecordIn
  <2>5. QED  BY <1>1, <1>2, <2>1, <2>4
<1>5. CASE Taken(x, b, y)
  <2>1. /\ Len(y) \in Nat \ {0} /\ Len(y) - 1 = Len(x) /\ y[Len(y)] = b
        /\ \A k \in 1..Len(x) : y[k] = x[k]
    BY <1>3, <1>5 DEF Taken
  <2>2. RecordIn(z, y, Len(y)) <=> RecordIn(z, y, Len(x)) \/ (IsData(b) /\ z \in RecordsOf(b))
    BY <2>1, RecordInNext
  <2>3. RecordIn(z, y, Len(x)) <=> RecordIn(z, x, Len(x))
    BY <2>1 DEF RecordIn
  <2>4. QED  BY <1>1, <1>2, <2>2, <2>3
<1>6. CASE Joined(x, b, y)
  <2>1. PICK K \in Nat \ {0} : K = Len(x) /\ K = Len(y)
    BY <1>3, <1>6 DEF Joined
  <2>2. PICK e, d : e = x[K] /\ d = y[K]
    OBVIOUS
  <2>3. /\ IsData(b) /\ HasRecords(b) /\ IsData(e) /\ IsData(d) /\ d.data = b.data \o e.data
        /\ d.start = b.start /\ \A k \in 1..(K - 1) : y[k] = x[k]
    BY <1>6, <2>1, <2>2 DEF Joined, HasRecords, NewEvent, IsData
  <2>4. IsBlock(e, Recorded) /\ HasRecords(e) /\ e.start = e.prevOffset + 1
    <3>1. K \in 1..K
      OBVIOUS
    <3>2. QED  BY <2>1, <2>2, <2>3, <3>1 DEF NewEvents, HasRecords, NewEvent, OffsetsKept, Starts
  <2>5. e.prevOffset = LastOffset(b)
    <3>1. K \in 1..K /\ \A k \in (K + 1)..K : FALSE
      OBVIOUS
    <3>2. Oldest(x, Len(x), K)
      BY <2>1, <2>2, <2>3, <3>1 DEF Oldest
    <3>3. QED  BY <2>2, <2>3, <3>2, NextIsLinked
  <2>6. e.start = b.start + Len(b.data)
    <3>1. b.start \in Int /\ Len(b.data) \in Nat
      <4>1. b.data \in Seq(Recorded)
        BY BlockFields
      <4>2. QED  BY <4>1, BlockFields
    <3>2. LastOffset(b) = b.start + Len(b.data) - 1
      BY <2>3 DEF LastOffset, HasRecords
    <3>3. QED  BY <2>4, <2>5, <3>1, <3>2
  <2>7. RecordsOf(d) = RecordsOf(b) \cup RecordsOf(e)
    BY <2>3, <2>4, <2>6, MergedRecords
  <2>8. RecordIn(z, y, K) <=> RecordIn(z, y, K - 1) \/ z \in RecordsOf(d)
    BY <2>2, <2>3, RecordInNext
  <2>9. RecordIn(z, x, K) <=> RecordIn(z, x, K - 1) \/ z \in RecordsOf(e)
    BY <2>2, <2>3, RecordInNext
  <2>10. RecordIn(z, y, K - 1) <=> RecordIn(z, x, K - 1)
    BY <2>3 DEF RecordIn
  <2>11. QED  BY <1>1, <1>2, <2>1, <2>3, <2>7, <2>8, <2>9, <2>10
<1>7. QED  BY <1>4, <1>5, <1>6

\* Of the watermarks: those of the blocks of the walk never grow, so the bound of
\* an open batch lies between the events before it and the blocks to come.
Declining(s, N) ==
  \A i, j \in 1..N : i < j /\ IsData(s[i]) /\ IsData(s[j]) => s[j].watermark <= s[i].watermark
Below(w, r, n, N) == \A i \in (n + 1)..N : IsData(r[i]) => r[i].watermark <= w
Over(w, x, K) == \A k \in 1..K : IsData(x[k]) => w <= x[k].watermark
Closed(g, x) == IF Open(g) THEN Len(x) - 1 ELSE Len(x)
WatermarksKept(g, x, r, n, N) ==
  /\ \A k \in 1..Len(x) : IsData(x[k]) => /\ Below(x[k].watermark, r, n, N)
                                          /\ Over(x[k].watermark, x, k - 1)
  /\ Over(g.info.watermark, x, Closed(g, x))
  /\ Open(g) \/ g.info.watermark # 0 => Below(g.info.watermark, r, n, N)

\* The blocks that are left get fewer.
LEMMA BelowNext ==
  ASSUME NEW r, NEW N \in Nat, NEW n \in 1..N, NEW w, Below(w, r, n - 1, N)
  PROVE  Below(w, r, n, N) /\ (IsData(r[n]) => r[n].watermark <= w)
<1>1. n \in ((n - 1) + 1)..N /\ \A i \in (n + 1)..N : i \in ((n - 1) + 1)..N
  OBVIOUS
<1>2. QED  BY <1>1 DEF Below

\* Older blocks have lower watermarks.
LEMMA DecliningBelow ==
  ASSUME NEW r, NEW N \in Nat, NEW n \in 1..N, Declining(r, N), IsData(r[n])
  PROVE  Below(r[n].watermark, r, n, N)
<1>1. \A i \in (n + 1)..N : i \in 1..N /\ n < i
  OBVIOUS
<1>2. QED  BY <1>1 DEF Declining, Below

\* A bound that one block more has set, or not.
LEMMA OrBelow ==
  ASSUME NEW r, NEW N \in Nat, NEW n \in 1..N, Declining(r, N), NEW p, IsData(r[n]),
         p # 0 => Below(p, r, n - 1, N)
  PROVE  Below(Or(p, r[n].watermark), r, n, N)
<1>1. CASE p # 0
  BY <1>1, BelowNext DEF Or
<1>2. CASE p = 0
  BY <1>2, DecliningBelow DEF Or
<1>3. QED  BY <1>1, <1>2

\* One of two bounds of the blocks gathered.
LEMMA OrOver ==
  ASSUME NEW x, NEW K, NEW p, NEW w, Over(p, x, K), Over(w, x, K)
  PROVE  Over(Or(p, w), x, K)
  BY DEF Over, Or

\* The same blocks have the same bounds.
LEMMA OverSame ==
  ASSUME NEW x, NEW y, NEW K, NEW w, Over(w, x, K), \A k \in 1..K : y[k] = x[k]
  PROVE  Over(w, y, K)
  BY DEF Over

\* No watermark is the lowest.
LEMMA ZeroOver ==
  ASSUME NEW x, NewEvents(x), NEW K, K \in Nat, K <= Len(x)
  PROVE  Over(0, x, K)
<1>1. \A k \in 1..K : k \in 1..Len(x)
  BY DEF NewEvents
<1>2. \A k \in 1..K : IsBlock(x[k], Recorded)
  BY <1>1 DEF NewEvents
<1>3. \A k \in 1..K : x[k].watermark \in Nat
  BY <1>2, BlockFields
<1>4. QED  BY <1>3 DEF Over

\* What is below the events with data.
LEMMA NextOver ==
  ASSUME NEW g, NEW x, NewEvents(x), NEW r, NEW N \in Nat, NEW n \in 1..N, IsData(r[n]),
         WatermarksKept(g, x, r, n - 1, N), NEW K \in Nat, K <= Len(x)
  PROVE  Over(r[n].watermark, x, K)
<1>1. \A k \in 1..K : k \in 1..Len(x)
  BY DEF NewEvents
<1>2. \A k \in 1..K : IsData(x[k]) => Below(x[k].watermark, r, n - 1, N)
  BY <1>1 DEF WatermarksKept
<1>3. \A k \in 1..K : IsData(x[k]) => r[n].watermark <= x[k].watermark
  BY <1>2, BelowNext
<1>4. QED  BY <1>3 DEF Over

\* The last event takes another bound, or stays as it is.
LEMMA BoundUpdated ==
  ASSUME NEW g, NEW h, NEW x, NewEvents(x), NEW y, NewEvents(y), NEW r, NEW N \in Nat, NEW n \in 1..N,
         WatermarksKept(g, x, r, n - 1, N), NEW K \in Nat, K = Len(x), K = Len(y),
         \A k \in 1..K : IsData(y[k]) <=> IsData(x[k]), \A k \in 1..(K - 1) : y[k] = x[k],
         K # 0 => y[K] = x[K] \/ (Open(h) /\ y[K].watermark = h.info.watermark),
         Open(h) <=> Open(g), Over(h.info.watermark, x, Closed(g, x)),
         Open(h) \/ h.info.watermark # 0 => Below(h.info.watermark, r, n, N)
  PROVE  WatermarksKept(h, y, r, n, N)
<1>1. PICK q : q = h.info.watermark
  OBVIOUS
<1>2. CASE Open(h)
  <2>1. Over(q, x, K - 1)
    BY <1>1, <1>2 DEF Closed
  <2>2. Over(q, y, K - 1)
    BY <2>1, OverSame
  <2>3. Over(q, y, Closed(h, y))
    BY <1>2, <2>2 DEF Closed
  <2>4. ASSUME NEW k \in 1..K, IsData(y[k])
        PROVE  Below(y[k].watermark, r, n, N) /\ Over(y[k].watermark, y, k - 1)
    <3>1. CASE y[k] = x[k]
      <4>1. Below(x[k].watermark, r, n - 1, N) /\ Over(x[k].watermark, x, k - 1)
        BY <2>4 DEF WatermarksKept
      <4>2. \A j \in 1..(k - 1) : y[j] = x[j]
        <5>1. \A j \in 1..(k - 1) : j \in 1..(K - 1)
          OBVIOUS
        <5>2. QED  BY <5>1
      <4>3. Over(x[k].watermark, y, k - 1)
        BY <4>1, <4>2, OverSame
      <4>4. QED  BY <3>1, <4>1, <4>3, BelowNext
    <3>2. CASE y[k] # x[k]
      <4>1. k = K \/ k \in 1..(K - 1)
        OBVIOUS
      <4>2. k = K /\ y[k].watermark = q
        BY <1>1, <3>2, <4>1
      <4>3. QED  BY <1>1, <1>2, <2>2, <4>2
    <3>3. QED  BY <3>1, <3>2
  <2>5. QED  BY <1>1, <1>2, <2>3, <2>4 DEF WatermarksKept
<1>3. CASE ~Open(h)
  <2>1. ASSUME NEW k \in 1..K PROVE y[k] = x[k]
    <3>1. k = K \/ k \in 1..(K - 1)
      OBVIOUS
    <3>2. QED  BY <1>3, <3>1
  <2>2. Over(q, y, K)
    <3>1. Over(q, x, K)
      BY <1>1, <1>3 DEF Closed
    <3>2. QED  BY <2>1, <3>1, OverSame
  <2>3. Over(q, y, Closed(h, y))
    BY <1>3, <2>2 DEF Closed
  <2>4. ASSUME NEW k \in 1..K, IsData(y[k])
        PROVE  Below(y[k].watermark, r, n, N) /\ Over(y[k].watermark, y, k - 1)
    <3>1. Below(x[k].watermark, r, n - 1, N) /\ Over(x[k].watermark, x, k - 1)
      BY <2>4 DEF WatermarksKept
    <3>2. \A j \in 1..(k - 1) : y[j] = x[j]
      <4>1. \A j \in 1..(k - 1) : j \in 1..K
        OBVIOUS
      <4>2. QED  BY <2>1, <4>1
    <3>3. Over(x[k].watermark, y, k - 1)
      BY <3>1, <3>2, OverSame
    <3>4. QED  BY <2>1, <3>1, <3>3, BelowNext
  <2>5. QED  BY <1>1, <1>3, <2>3, <2>4 DEF WatermarksKept
<1>4. QED  BY <1>2, <1>3

\* The watermarks, when a block is dropped,
LEMMA WatermarksDropped ==
  ASSUME NEW g, NEW h, NEW x, x = Flush(g), NewEvents(x), NEW y, y = Flush(h), NewEvents(y),
         NEW r, NEW N \in Nat, NEW n \in 1..N, Declining(r, N), NEW b, b = r[n], Drops(g, b, h),
         WatermarksKept(g, x, r, n - 1, N), OpenLast(g)
  PROVE  WatermarksKept(h, y, r, n, N)
<1>1. PICK K \in Nat : K = Len(x)
  BY DEF NewEvents
<1>2. /\ Open(h) <=> Open(g)
      /\ Len(y) = K
      /\ \A k \in 1..K : Like(y[k], x[k])
      /\ \A k \in 1..K : y[k] = x[k] \/ (Open(g) /\ k = K /\ y[k].watermark = h.info.watermark)
  BY <1>1 DEF Drops
<1>3. \A k \in 1..K : IsData(y[k]) <=> IsData(x[k])
  BY <1>2 DEF Like, IsData
<1>4. \A k \in 1..(K - 1) : y[k] = x[k]
  <2>1. \A k \in 1..(K - 1) : k \in 1..K /\ k # K
    OBVIOUS
  <2>2. QED  BY <1>2, <2>1
<1>5. K # 0 => y[K] = x[K] \/ (Open(h) /\ y[K].watermark = h.info.watermark)
  <2>1. K # 0 => K \in 1..K
    OBVIOUS
  <2>2. QED  BY <1>2, <2>1
<1>6. PICK p, q : p = g.info.watermark /\ q = h.info.watermark
  OBVIOUS
<1>7. Over(p, x, Closed(g, x)) /\ (Open(g) \/ p # 0 => Below(p, r, n - 1, N))
  BY <1>6 DEF WatermarksKept
<1>8. Over(q, x, Closed(g, x)) /\ (Open(g) \/ q # 0 => Below(q, r, n, N))
  <2>1. CASE b.type = "Seed"
    <3>1. q = p
      BY <1>6, <2>1 DEF Drops
    <3>2. QED  BY <1>7, <3>1, BelowNext
  <2>2. CASE b.type # "Seed"
    <3>1. IsData(b) /\ q = Or(p, b.watermark)
      BY <1>6, <2>2 DEF Drops
    <3>2. Below(q, r, n, N)
      BY <1>7, <3>1, OrBelow
    <3>3. PICK M \in Nat : M = Closed(g, x) /\ M <= Len(x)
      BY <1>1 DEF Closed, OpenLast
    <3>4. Over(b.watermark, x, M)
      BY <3>1, <3>3, NextOver
    <3>5. QED  BY <1>7, <3>1, <3>2, <3>3, <3>4, OrOver
  <2>3. QED  BY <2>1, <2>2
<1>9. QED
  <2>1. Over(h.info.watermark, x, Closed(g, x))
    BY <1>6, <1>8
  <2>2. Open(h) \/ h.info.watermark # 0 => Below(h.info.watermark, r, n, N)
    BY <1>2, <1>6, <1>8
  <2>3. K = Len(y) /\ (Open(h) <=> Open(g))
    BY <1>2
  <2>4. QED  BY <1>1, <1>3, <1>4, <1>5, <2>1, <2>2, <2>3, BoundUpdated

\* when it is joined to the open batch,
LEMMA WatermarksJoined ==
  ASSUME NEW g, NEW h, NEW x, x = Flush(g), NewEvents(x), NEW y, y = Flush(h), NewEvents(y),
         NEW r, NEW N \in Nat, NEW n \in 1..N, Declining(r, N), NEW b, b = r[n], Joins(g, b, h),
         WatermarksKept(g, x, r, n - 1, N), OpenLast(g)
  PROVE  WatermarksKept(h, y, r, n, N)
<1>1. PICK K \in Nat \ {0} : K = Len(x) /\ K = Len(y)
  BY DEF Joins
<1>2. /\ Open(h) /\ Open(g) /\ IsData(b) /\ y[K].type = b.type
      /\ \A k \in 1..(K - 1) : y[k] = x[k]
      /\ y[K].watermark = h.info.watermark
  BY <1>1 DEF Joins
<1>3. IsData(x[K]) /\ IsData(y[K])
  BY <1>1, <1>2 DEF OpenLast, IsData
<1>4. \A k \in 1..K : IsData(y[k]) <=> IsData(x[k])
  <2>1. \A k \in 1..K : k = K \/ k \in 1..(K - 1)
    OBVIOUS
  <2>2. QED  BY <1>2, <1>3, <2>1
<1>5. PICK p, q : p = g.info.watermark /\ q = h.info.watermark
  OBVIOUS
<1>6. q = Or(p, b.watermark)
  BY <1>5 DEF Joins
<1>7. Over(p, x, Closed(g, x)) /\ (Open(g) \/ p # 0 => Below(p, r, n - 1, N))
  BY <1>5 DEF WatermarksKept
<1>8. Below(q, r, n, N)
  BY <1>2, <1>6, <1>7, OrBelow
<1>9. PICK M \in Nat : M = Closed(g, x) /\ M <= Len(x)
  BY <1>1 DEF Closed
<1>10. Over(b.watermark, x, M)
  BY <1>2, <1>9, NextOver
<1>11. Over(q, x, Closed(g, x))
  BY <1>6, <1>7, <1>9, <1>10, OrOver
<1>12. QED
  <2>1. Over(h.info.watermark, x, Closed(g, x))
    BY <1>5, <1>11
  <2>2. Below(h.info.watermark, r, n, N)
    BY <1>5, <1>8
  <2>3. QED  BY <1>1, <1>2, <1>4, <2>1, <2>2, BoundUpdated

\* and when it is taken.
LEMMA WatermarksTaken ==
  ASSUME NEW g, NEW h, NEW x, x = Flush(g), NewEvents(x), NEW y, y = Flush(h), NewEvents(y),
         NEW r, NEW N \in Nat, NEW n \in 1..N, Declining(r, N), NEW b, b = r[n], Takes(g, b, h),
         Taken(x, b, y), WatermarksKept(g, x, r, n - 1, N)
  PROVE  WatermarksKept(h, y, r, n, N)
<1>1. PICK K \in Nat : K = Len(x)
  BY DEF NewEvents
<1>2. Len(y) = K + 1 /\ y[K + 1] = b /\ (\A k \in 1..K : y[k] = x[k]) /\ (Open(h) <=> IsData(b))
  BY <1>1 DEF Taken, Takes
<1>3. PICK p, q : p = Carried(g) /\ q = h.info.watermark
  OBVIOUS
<1>4. Over(p, x, K) /\ (p # 0 => Below(p, r, n - 1, N))
  <2>1. CASE Open(g)
    <3>1. p = 0
      BY <1>3, <2>1 DEF Carried
    <3>2. QED  BY <1>1, <3>1, ZeroOver
  <2>2. CASE ~Open(g)
    <3>1. p = g.info.watermark /\ Closed(g, x) = K
      BY <1>1, <1>3, <2>2 DEF Carried, Closed
    <3>2. QED  BY <3>1 DEF WatermarksKept
  <2>3. QED  BY <2>1, <2>2
<1>5. /\ Over(q, x, K) /\ (Open(h) \/ q # 0 => Below(q, r, n, N))
      /\ IsData(b) => Over(b.watermark, x, K) /\ Below(b.watermark, r, n, N)
  <2>1. CASE IsData(b)
    <3>1. q = Or(p, b.watermark)
      BY <1>3, <2>1 DEF Takes
    <3>2. Over(b.watermark, x, K)
      <4>1. K <= Len(x)
        BY <1>1
      <4>2. IsData(r[n])
        BY <2>1
      <4>3. Over(r[n].watermark, x, K)
        BY <4>1, <4>2, NextOver
      <4>4. QED  BY <4>3
    <3>3. Over(q, x, K)
      BY <1>4, <3>1, <3>2, OrOver
    <3>4. Below(q, r, n, N) /\ Below(b.watermark, r, n, N)
      BY <1>4, <2>1, <3>1, OrBelow, DecliningBelow
    <3>5. QED  BY <3>2, <3>3, <3>4
  <2>2. CASE ~IsData(b)
    <3>1. q = p
      BY <1>3, <2>2 DEF Takes
    <3>2. QED  BY <1>2, <1>4, <2>2, <3>1, BelowNext
  <2>3. QED  BY <2>1, <2>2
<1>6. Over(q, y, K) /\ (IsData(b) => Over(b.watermark, y, K))
  BY <1>2, <1>5, OverSame
<1>7. Over(q, y, Closed(h, y))
  <2>1. CASE IsData(b)
    <3>1. Closed(h, y) = K
      BY <1>2, <2>1 DEF Closed
    <3>2. QED  BY <1>6, <3>1
  <2>2. CASE ~IsData(b)
    <3>1. Closed(h, y) = K + 1
      BY <1>2, <2>2 DEF Closed
    <3>2. \A k \in 1..(K + 1) : k = K + 1 \/ k \in 1..K
      OBVIOUS
    <3>3. Over(q, y, K + 1)
      BY <1>2, <1>6, <2>2, <3>2 DEF Over
    <3>4. QED  BY <3>1, <3>3
  <2>3. QED  BY <2>1, <2>2
<1>8. ASSUME NEW k \in 1..Len(y), IsData(y[k])
      PROVE  Below(y[k].watermark, r, n, N) /\ Over(y[k].watermark, y, k - 1)
  <2>1. k = K + 1 \/ k \in 1..K
    BY <1>2
  <2>2. CASE k = K + 1
    <3>1. k - 1 = K /\ y[k] = b
      BY <1>2, <2>2
    <3>2. QED  BY <1>5, <1>6, <1>8, <3>1
  <2>3. CASE k \in 1..K
    <3>1. y[k] = x[k]
      BY <1>2, <2>3
    <3>2. Below(x[k].watermark, r, n - 1, N) /\ Over(x[k].watermark, x, k - 1)
      BY <1>1, <1>8, <2>3, <3>1 DEF WatermarksKept
    <3>3. \A j \in 1..(k - 1) : y[j] = x[j]
      <4>1. \A j \in 1..(k - 1) : j \in 1..K
        BY <2>3
      <4>2. QED  BY <1>2, <4>1
    <3>4. Over(x[k].watermark, y, k - 1)
      BY <3>2, <3>3, OverSame
    <3>5. QED  BY <3>1, <3>2, <3>4, BelowNext
  <2>4. QED  BY <2>1, <2>2, <2>3
<1>9. QED  BY <1>3, <1>5, <1>7, <1>8 DEF WatermarksKept

\* Of the counter of records, which metadata do not reset: a walk over the events
\* has the values W, and finds no event that it could add to the one before.
Counts(w, b) ==
  IF ~IsData(b) THEN w
  ELSE IF w + Len(b.data) > MaxSliceRecords THEN Len(b.data) ELSE w + Len(b.data)
CountsOf(W, x, K) ==
  /\ W \in [0..K -> Nat] /\ W[0] = 0
  /\ \A m \in 1..K : W[m] = Counts(W[m - 1], x[m])
  /\ \A m \in 1..(K - 1) : IsData(x[m]) /\ IsData(x[m + 1]) => Full([records |-> W[m]], x[m + 1])
CountsKept(g, x) == \E W : CountsOf(W, x, Len(x)) /\ g.records = W[Len(x)]

\* The counts, when a block is dropped,
LEMMA CountsDropped ==
  ASSUME NEW g, NEW h, NEW x, x = Flush(g), NewEvents(x), NEW y, y = Flush(h), NewEvents(y),
         NEW b, Drops(g, b, h), CountsKept(g, x)
  PROVE  CountsKept(h, y)
<1>1. PICK K \in Nat : K = Len(x)
  BY DEF NewEvents
<1>2. Len(y) = K /\ h.records = g.records /\ \A k \in 1..K : Like(y[k], x[k])
  BY <1>1 DEF Drops
<1>3. PICK W : CountsOf(W, x, K) /\ g.records = W[K]
  BY <1>1 DEF CountsKept
<1>4. \A k \in 1..K : (IsData(y[k]) <=> IsData(x[k])) /\ y[k].data = x[k].data
  BY <1>2 DEF Like, IsData
<1>5. \A k \in 1..K : W[k] = Counts(W[k - 1], y[k])
  BY <1>3, <1>4 DEF CountsOf, Counts
<1>6. ASSUME NEW m \in 1..(K - 1), IsData(y[m]), IsData(y[m + 1])
      PROVE  Full([records |-> W[m]], y[m + 1])
  <2>1. m \in 1..K /\ m + 1 \in 1..K
    OBVIOUS
  <2>2. Full([records |-> W[m]], x[m + 1])
    BY <1>3, <1>4, <1>6, <2>1 DEF CountsOf
  <2>3. QED  BY <1>4, <2>1, <2>2 DEF Full
<1>7. CountsOf(W, y, K)
  BY <1>3, <1>5, <1>6 DEF CountsOf
<1>8. QED  BY <1>2, <1>3, <1>7 DEF CountsKept

\* when it is taken,
LEMMA CountsTaken ==
  ASSUME NEW g, NEW h, NEW x, x = Flush(g), NewEvents(x), NEW y, y = Flush(h), NewEvents(y),
         NEW b, IsBlock(b, Recorded), Takes(g, b, h), Taken(x, b, y), CountsKept(g, x), OpenLast(g)
  PROVE  CountsKept(h, y)
<1>1. PICK K \in Nat : K = Len(x)
  BY DEF NewEvents
<1>2. Len(y) = K + 1 /\ y[K + 1] = b /\ \A k \in 1..K : y[k] = x[k]
  BY <1>1 DEF Taken
<1>3. PICK W : CountsOf(W, x, K) /\ g.records = W[K]
  BY <1>1 DEF CountsKept
<1>4. PICK w \in Nat : w = Len(b.data)
  <2>1. b.data \in Seq(Recorded)
    BY BlockFields
  <2>2. QED  BY <2>1
<1>5. PICK v : v = Counts(W[K], b)
  OBVIOUS
<1>6. W[K] \in Nat /\ v \in Nat
  BY <1>3, <1>4, <1>5 DEF CountsOf, Counts
<1>7. h.records = v
  BY <1>3, <1>5 DEF Takes, Counts, Full
<1>8. PICK V : V = [m \in 0..(K + 1) |-> IF m = K + 1 THEN v ELSE W[m]]
  OBVIOUS
<1>9. V \in [0..(K + 1) -> Nat] /\ V[K + 1] = v /\ \A m \in 0..K : V[m] = W[m]
  BY <1>3, <1>6, <1>8 DEF CountsOf
<1>10. V[0] = 0
  BY <1>3, <1>9 DEF CountsOf
<1>11. ASSUME NEW m \in 1..(K + 1) PROVE V[m] = Counts(V[m - 1], y[m])
  <2>1. m = K + 1 \/ m \in 1..K
    OBVIOUS
  <2>2. CASE m = K + 1
    <3>1. m - 1 = K /\ y[m] = b /\ V[m] = v /\ V[K] = W[K]
      BY <1>2, <1>9, <2>2
    <3>2. QED  BY <1>5, <3>1
  <2>3. CASE m \in 1..K
    <3>1. m \in 0..K /\ m - 1 \in 0..K
      BY <2>3
    <3>2. W[m] = Counts(W[m - 1], x[m])
      BY <1>3, <2>3 DEF CountsOf
    <3>3. QED  BY <1>2, <1>9, <2>3, <3>1, <3>2
  <2>4. QED  BY <2>1, <2>2, <2>3
<1>12. ASSUME NEW m \in 1..((K + 1) - 1), IsData(y[m]), IsData(y[m + 1])
       PROVE  Full([records |-> V[m]], y[m + 1])
  <2>1. m \in 1..K /\ m \in 0..K /\ (m = K \/ m \in 1..(K - 1))
    OBVIOUS
  <2>2. y[m] = x[m] /\ V[m] = W[m]
    BY <1>2, <1>9, <2>1
  <2>3. CASE m = K
    <3>1. y[m + 1] = b
      BY <1>2, <2>3
    <3>2. IsData(b) /\ Open(g)
      BY <1>1, <1>12, <2>1, <2>2, <2>3, <3>1 DEF OpenLast
    <3>3. Full(g, b)
      BY <3>2 DEF Takes
    <3>4. QED  BY <1>3, <2>2, <2>3, <3>1, <3>3 DEF Full
  <2>4. CASE m \in 1..(K - 1)
    <3>1. m + 1 \in 1..K
      BY <2>4
    <3>2. y[m + 1] = x[m + 1]
      BY <1>2, <3>1
    <3>3. QED  BY <1>3, <1>12, <2>2, <2>4, <3>2 DEF CountsOf
  <2>5. QED  BY <2>1, <2>3, <2>4
<1>13. CountsOf(V, y, K + 1)
  BY <1>9, <1>10, <1>11, <1>12 DEF CountsOf
<1>14. QED  BY <1>2, <1>7, <1>9, <1>13 DEF CountsKept

\* and when it is joined to the open batch.
LEMMA CountsJoined ==
  ASSUME NEW g, NEW h, NEW x, x = Flush(g), NewEvents(x), NEW y, y = Flush(h), NewEvents(y),
         NEW b, IsBlock(b, Recorded), Joins(g, b, h), Joined(x, b, y), CountsKept(g, x)
  PROVE  CountsKept(h, y)
<1>1. PICK K \in Nat \ {0} : K = Len(x) /\ K = Len(y)
  BY DEF NewEvents, Joined
<1>2. PICK e, d : e = x[K] /\ d = y[K]
  OBVIOUS
<1>3. /\ IsData(d) /\ IsData(e) /\ IsData(b) /\ d.data = b.data \o e.data
      /\ \A k \in 1..(K - 1) : y[k] = x[k]
  BY <1>1, <1>2 DEF Joined, IsData
<1>4. PICK W : CountsOf(W, x, K) /\ g.records = W[K]
  BY <1>1 DEF CountsKept
<1>5. PICK p \in Seq(Recorded), q \in Seq(Recorded) : p = b.data /\ q = e.data
  <2>1. K \in 1..K
    OBVIOUS
  <2>2. IsBlock(e, Recorded)
    BY <1>1, <1>2, <2>1 DEF NewEvents
  <2>3. b.data \in Seq(Recorded) /\ e.data \in Seq(Recorded)
    BY <2>2, BlockFields
  <2>4. QED  BY <2>3
<1>6. PICK u \in Nat, w \in Nat : u = Len(b.data) /\ w = Len(e.data)
  BY <1>5
<1>7. Len(d.data) = u + w
  BY <1>3, <1>5, <1>6, ConcatProperties
<1>8. PICK v \in Nat : v = W[K - 1]
  <2>1. K - 1 \in 0..K
    OBVIOUS
  <2>2. QED  BY <1>4, <2>1 DEF CountsOf
<1>9. W[K] = Counts(v, e)
  <2>1. K \in 1..K
    OBVIOUS
  <2>2. QED  BY <1>2, <1>4, <1>8, <2>1 DEF CountsOf
<1>10. W[K] + u <= MaxSliceRecords /\ h.records = W[K] + u /\ W[K] \in Nat
  <2>1. ~(g.records + Len(b.data) > MaxSliceRecords) /\ h.records = g.records + Len(b.data)
    BY DEF Joins, Full
  <2>2. W[K] \in Nat
    BY <1>4 DEF CountsOf
  <2>3. QED  BY <1>4, <1>6, <2>1, <2>2, MaxSliceRecordsAssumption
<1>11. W[K] + u = Counts(v, d)
  <2>1. PICK l \in Nat : l = W[K]
    BY <1>10
  <2>2. l = IF v + w > MaxSliceRecords THEN w ELSE v + w
    BY <1>3, <1>6, <1>9, <2>1 DEF Counts
  <2>3. l + u = IF v + (u + w) > MaxSliceRecords THEN u + w ELSE v + (u + w)
    BY <1>10, <2>1, <2>2, MaxSliceRecordsAssumption
  <2>4. QED  BY <1>3, <1>7, <2>1, <2>3 DEF Counts
<1>12. PICK V : V = [W EXCEPT ![K] = W[K] + u]
  OBVIOUS
<1>13. V \in [0..K -> Nat] /\ V[K] = W[K] + u /\ (\A m \in 0..(K - 1) : V[m] = W[m])
  <2>1. W \in [0..K -> Nat] /\ K \in 0..K
    BY <1>4 DEF CountsOf
  <2>2. V \in [0..K -> Nat]
    BY <1>10, <1>12, <2>1
  <2>3. QED  BY <1>12, <2>1, <2>2
<1>14. V[0] = 0
  BY <1>4, <1>13 DEF CountsOf
<1>15. ASSUME NEW m \in 1..K PROVE V[m] = Counts(V[m - 1], y[m])
  <2>1. (m = K \/ m \in 1..(K - 1)) /\ m - 1 \in 0..(K - 1)
    OBVIOUS
  <2>2. CASE m = K
    BY <1>2, <1>8, <1>11, <1>13, <2>1, <2>2
  <2>3. CASE m \in 1..(K - 1)
    <3>1. m \in 0..(K - 1)
      BY <2>3
    <3>2. W[m] = Counts(W[m - 1], x[m])
      BY <1>4 DEF CountsOf
    <3>3. QED  BY <1>3, <1>13, <2>1, <2>3, <3>1, <3>2
  <2>4. QED  BY <2>1, <2>2, <2>3
<1>16. ASSUME NEW m \in 1..(K - 1), IsData(y[m]), IsData(y[m + 1])
       PROVE  Full([records |-> V[m]], y[m + 1])
  <2>1. m \in 0..(K - 1) /\ m + 1 \in 1..K /\ (m + 1 = K \/ m + 1 \in 1..(K - 1))
    OBVIOUS
  <2>2. IsData(x[m + 1]) /\ V[m] = W[m] /\ IsData(x[m])
    BY <1>2, <1>3, <1>13, <1>16, <2>1
  <2>3. Full([records |-> W[m]], x[m + 1])
    BY <1>4, <2>2 DEF CountsOf
  <2>4. CASE m + 1 \in 1..(K - 1)
    BY <1>3, <2>2, <2>3, <2>4
  <2>5. CASE m + 1 = K
    <3>1. W[m] + w > MaxSliceRecords
      BY <1>2, <1>6, <2>3, <2>5 DEF Full
    <3>2. W[m] \in Nat
      BY <1>4, <2>1 DEF CountsOf
    <3>3. W[m] + (u + w) > MaxSliceRecords
      BY <3>1, <3>2, MaxSliceRecordsAssumption
    <3>4. y[m + 1] = d
      BY <1>2, <2>5
    <3>5. QED  BY <1>7, <2>2, <3>3, <3>4 DEF Full
  <2>6. QED  BY <2>1, <2>4, <2>5
<1>17. CountsOf(V, y, K)
  BY <1>13, <1>14, <1>15, <1>16 DEF CountsOf
<1>18. QED  BY <1>1, <1>10, <1>13, <1>17 DEF CountsKept

\* Chains of a root dataset, every block of which was accepted by append.
ValidChain(c) == \A i \in 2..Len(c) : ValidBlock(SubSeq(c, 1, i - 1), c[i])
RootChain(c, t) == ValidChain(c) /\ \A i \in 1..Len(c) : RootEvent(c[i]) /\ c[i].time <= t

\* How the data blocks of a chain stand to each other, and to its schema.
LEMMA ValidChainFacts ==
  ASSUME NEW c, IsChain(c, Recorded), ValidChain(c), NEW j \in 1..Len(c), IsData(c[j]), ~IsData(c[1])
  PROVE  /\ \A i \in 1..(j - 1) : IsData(c[i]) /\ (\A k \in (i + 1)..(j - 1) : ~IsData(c[k]))
              => c[j].prevOffset = LastOffset(c[i])
         /\ c[j].data # <<>> => /\ c[j].start = c[j].prevOffset + 1
                                /\ \E i \in 1..(j - 1) : c[i].type = "SetDataSchema"
<1>1. j \in 2..Len(c) /\ j - 1 \in 0..Len(c) /\ Len(c) \in Nat
  <2>1. j # 1 /\ Len(c) \in Nat
    BY ChainIsSeq
  <2>2. QED  BY <2>1
<1>2. PICK a, b : a = SubSeq(c, 1, j - 1) /\ b = c[j]
  OBVIOUS
<1>3. IsChain(a, Recorded) /\ Len(a) = j - 1 /\ \A i \in 1..(j - 1) : a[i] = c[i]
  BY <1>1, <1>2, ChainPrefix
<1>4. OffsetsAreSequential(a, b) /\ SchemaBeforeData(a, b) /\ IsData(b)
  <2>1. ValidBlock(a, b)
    BY <1>1, <1>2 DEF ValidChain
  <2>2. QED  BY <1>2, <2>1 DEF ValidBlock, ConsistentBlock
<1>5. ASSUME NEW i \in 1..(j - 1), IsData(c[i]), \A k \in (i + 1)..(j - 1) : ~IsData(c[k])
      PROVE  b.prevOffset = LastOffset(c[i])
  <2>1. PICK k : k = LastDataOf(a)
    OBVIOUS
  <2>2. /\ k \in 0..(j - 1) /\ (k # 0 => IsData(a[k]))
        /\ \A l \in 1..(j - 1) : l > k => ~IsData(a[l])
    BY <1>3, <2>1, LastOfFacts DEF LastDataOf, IsData
  <2>3. ~(i > k)
    BY <1>3, <1>5, <2>2
  <2>4. k # 0 /\ k \in 1..(j - 1) /\ IsData(c[k])
    BY <1>3, <2>2, <2>3
  <2>5. k = i
    <3>1. k # i => k \in (i + 1)..(j - 1)
      BY <2>3, <2>4
    <3>2. QED  BY <1>5, <2>4, <3>1
  <2>6. b.prevOffset = LastOffset(a[k])
    BY <1>4, <2>1, <2>4 DEF OffsetsAreSequential
  <2>7. QED  BY <1>3, <2>5, <2>6
<1>6. ASSUME b.data # <<>>
      PROVE  b.start = b.prevOffset + 1 /\ \E i \in 1..(j - 1) : c[i].type = "SetDataSchema"
  <2>1. b.start = b.prevOffset + 1
    BY <1>4, <1>6 DEF OffsetsAreSequential
  <2>2. Has(a, "SetDataSchema")
    BY <1>4, <1>6 DEF SchemaBeforeData
  <2>3. \E i \in 1..(j - 1) : a[i].type = "SetDataSchema"
    BY <1>3, <2>2, HasFacts
  <2>4. QED  BY <1>3, <2>1, <2>3
<1>7. QED  BY <1>2, <1>5, <1>6

\* Such a chain, newest block first.
WellPlaced(b) == HasRecords(b) => b.start = b.prevOffset + 1
NewestFirst(r, N) ==
  /\ Linked(r, N) /\ Declining(r, N)
  /\ \A i \in 1..N : IsBlock(r[i], Recorded) /\ RootEvent(r[i]) /\ WellPlaced(r[i])
  /\ \A i \in 1..N : r[i].type = "Seed" <=> i = N
  /\ \A i \in 1..N : HasRecords(r[i]) => \E j \in (i + 1)..N : r[j].type = "SetDataSchema"

\* The blocks of a root dataset are such a sequence.
LEMMA RootReversed ==
  ASSUME NEW c, HeadInv(c), NEW t, RootChain(c, t), NEW N, N = Len(c), NEW r, r = Reverse(c)
  PROVE  NewestFirst(r, N) /\ N \in Nat \ {0} /\ \A i \in 1..N : r[i] = c[(N - i) + 1]
<1>1. PICK S : c \in Seq(S)
  BY ChainIsSeq DEF HeadInv, Chain
<1>2. IsChain(c, Recorded) /\ N \in Nat \ {0} /\ \A i \in 1..N : IsBlock(c[i], Recorded)
  <2>1. IsChain(c, Recorded) /\ c # <<>>
    BY DEF HeadInv, Chain
  <2>2. Len(c) # 0 /\ Len(c) \in Nat
    BY <1>1, <2>1
  <2>3. \A i \in 1..Len(c) : IsBlock(c[i], Recorded)
    BY <2>1, ChainIsSeq
  <2>4. QED  BY <2>1, <2>2, <2>3
<1>3. /\ \A i \in 1..N : r[i] = c[(N - i) + 1]
      /\ \A i \in 1..N : (N - i) + 1 \in 1..N
  BY <1>1, <1>2, ReverseAt
<1>4. ~IsData(c[1])
  <2>1. 1 \in 1..N
    BY <1>2
  <2>2. c[1].type = "Seed"
    BY <2>1 DEF HeadInv, Sequential
  <2>3. QED  BY <2>2 DEF IsData
<1>5. ValidChain(c)
  BY DEF RootChain
<1>6. Linked(r, N)
  <2>1. ASSUME NEW i \in 1..N, NEW j \in 1..N, i < j, IsData(r[i]), IsData(r[j]),
               \A k \in (i + 1)..(j - 1) : ~IsData(r[k])
        PROVE  r[i].prevOffset = LastOffset(r[j])
    <3>1. PICK p \in 1..N, q \in 1..N : p = (N - i) + 1 /\ q = (N - j) + 1
      BY <1>3
    <3>2. r[i] = c[p] /\ r[j] = c[q] /\ q \in 1..(p - 1)
      BY <1>2, <1>3, <2>1, <3>1
    <3>3. ASSUME NEW k \in (q + 1)..(p - 1) PROVE ~IsData(c[k])
      <4>1. PICK l \in (i + 1)..(j - 1) : l = (N - k) + 1 /\ (N - l) + 1 = k
        BY <1>2, <3>1
      <4>2. l \in 1..N
        BY <1>2
      <4>3. r[l] = c[k]
        BY <1>3, <4>1, <4>2
      <4>4. QED  BY <2>1, <4>1, <4>3
    <3>4. c[p].prevOffset = LastOffset(c[q])
      BY <1>2, <1>4, <1>5, <2>1, <3>2, <3>3, ValidChainFacts
    <3>5. QED  BY <3>2, <3>4
  <2>2. QED  BY <2>1 DEF Linked
<1>7. Declining(r, N)
  <2>1. ASSUME NEW i \in 1..N, NEW j \in 1..N, i < j, IsData(r[i]), IsData(r[j])
        PROVE  r[j].watermark <= r[i].watermark
    <3>1. PICK p \in 1..N, q \in 1..N : p = (N - i) + 1 /\ q = (N - j) + 1
      BY <1>3
    <3>2. r[i] = c[p] /\ r[j] = c[q] /\ q < p
      BY <1>2, <1>3, <2>1, <3>1
    <3>3. Follows(c[p], c[q])
      BY <3>2 DEF HeadInv, Sequential
    <3>4. QED  BY <2>1, <3>2, <3>3 DEF Follows
  <2>2. QED  BY <2>1 DEF Declining
<1>8. ASSUME NEW i \in 1..N PROVE IsBlock(r[i], Recorded) /\ RootEvent(r[i]) /\ WellPlaced(r[i])
  <2>1. PICK p \in 1..N : p = (N - i) + 1 /\ r[i] = c[p]
    BY <1>3
  <2>2. IsBlock(c[p], Recorded) /\ RootEvent(c[p])
    BY <1>2 DEF RootChain
  <2>3. IsData(c[p]) => (c[p].data # <<>> => c[p].start = c[p].prevOffset + 1)
    BY <1>2, <1>4, <1>5, ValidChainFacts
  <2>4. QED  BY <2>1, <2>2, <2>3 DEF WellPlaced, HasRecords
<1>9. ASSUME NEW i \in 1..N PROVE r[i].type = "Seed" <=> i = N
  <2>1. PICK p \in 1..N : p = (N - i) + 1 /\ r[i] = c[p]
    BY <1>3
  <2>2. p = 1 <=> i = N
    BY <1>2, <2>1
  <2>3. QED  BY <2>1, <2>2 DEF HeadInv, Sequential
<1>10. ASSUME NEW i \in 1..N, HasRecords(r[i])
       PROVE  \E j \in (i + 1)..N : r[j].type = "SetDataSchema"
  <2>1. PICK p \in 1..N : p = (N - i) + 1 /\ r[i] = c[p]
    BY <1>3
  <2>2. IsData(c[p]) /\ c[p].data # <<>>
    BY <1>10, <2>1 DEF HasRecords
  <2>3. PICK q \in 1..(p - 1) : c[q].type = "SetDataSchema"
    BY <1>2, <1>4, <1>5, <2>2, ValidChainFacts
  <2>4. PICK j \in (i + 1)..N : j = (N - q) + 1 /\ (N - j) + 1 = q
    <3>1. PICK j : j = (N - q) + 1
      OBVIOUS
    <3>2. N \in Nat /\ i \in Int /\ p \in Int /\ q \in Int /\ q >= 1 /\ q <= p - 1 /\ p = (N - i) + 1
      BY <1>2, <2>1
    <3>3. j \in Int /\ j >= i + 1 /\ j <= N /\ (N - j) + 1 = q
      BY <3>1, <3>2
    <3>4. j \in (i + 1)..N
      BY <3>2, <3>3
    <3>5. QED  BY <3>1, <3>3, <3>4
  <2>5. j \in 1..N
    BY <1>2
  <2>6. r[j] = c[q]
    BY <1>3, <2>4, <2>5
  <2>7. QED  BY <2>3, <2>4, <2>6
<1>11. QED  BY <1>2, <1>3, <1>6, <1>7, <1>8, <1>9, <1>10 DEF NewestFirst

\* All of this together, for a walk that has seen n of N blocks.
WalkKeeps(g, x, r, n, N) ==
  /\ OpenLast(g) /\ TypesKept(x, r, n) /\ SchemasKept(x, r, n)
  /\ OffsetsKept(x, r, n) /\ RecordsKept(x, r, n)
  /\ WatermarksKept(g, x, r, n, N) /\ CountsKept(g, x)

\* Each block keeps the invariant of the walk.
LEMMA WalkKeepsStep ==
  ASSUME NEW I, NEW g \in Gathered(Recorded, I), Collected(g),
         NEW h \in Gathered(Recorded, I), Collected(h),
         NEW r, NEW N \in Nat, NEW n \in 1..N, NewestFirst(r, N), NEW b, b = r[n],
         Drops(g, b, h) \/ Takes(g, b, h) \/ Joins(g, b, h),
         NEW x, x = Flush(g), NEW y, y = Flush(h), WalkKeeps(g, x, r, n - 1, N)
  PROVE  WalkKeeps(h, y, r, n, N)
<1>1. /\ OpenLast(g) /\ TypesKept(x, r, n - 1) /\ SchemasKept(x, r, n - 1)
      /\ OffsetsKept(x, r, n - 1) /\ RecordsKept(x, r, n - 1)
      /\ WatermarksKept(g, x, r, n - 1, N) /\ CountsKept(g, x)
  BY DEF WalkKeeps
<1>2. IsBlock(b, Recorded) /\ (HasRecords(b) => b.start = b.prevOffset + 1) /\ Declining(r, N)
  BY DEF NewestFirst, WellPlaced
<1>3. Linked(r, n)
  <2>1. Linked(r, N) /\ \A i \in 1..n : i \in 1..N
    BY DEF NewestFirst
  <2>2. QED  BY <2>1 DEF Linked
<1>4. NewEvents(x) /\ NewEvents(y) /\ OpenLast(h)
  BY <1>1, StepShape
<1>5. n \in Nat \ {0}
  OBVIOUS
<1>6. CASE Drops(g, b, h)
  <2>1. Dropped(x, b, y)
    BY <1>1, <1>6, StepShape
  <2>2. TypesKept(y, r, n) /\ SchemasKept(y, r, n)
    BY <1>1, <1>4, <1>5, <2>1, TypesStep, SchemasStep
  <2>3. OffsetsKept(y, r, n)
    BY <1>1, <1>3, <1>4, <1>5, <2>1, OffsetsDropped
  <2>4. RecordsKept(y, r, n)
    BY <1>1, <1>2, <1>3, <1>4, <1>5, <2>1, RecordsStep
  <2>5. WatermarksKept(h, y, r, n, N)
    BY <1>1, <1>2, <1>4, <1>6, WatermarksDropped
  <2>6. CountsKept(h, y)
    BY <1>1, <1>4, <1>6, CountsDropped
  <2>7. QED  BY <1>4, <2>2, <2>3, <2>4, <2>5, <2>6 DEF WalkKeeps
<1>7. CASE Takes(g, b, h)
  <2>1. Taken(x, b, y)
    BY <1>1, <1>7, StepShape
  <2>2. TypesKept(y, r, n) /\ SchemasKept(y, r, n)
    BY <1>1, <1>4, <1>5, <2>1, TypesStep, SchemasStep
  <2>3. OffsetsKept(y, r, n)
    BY <1>1, <1>2, <1>3, <1>4, <1>5, <2>1, OffsetsTaken
  <2>4. RecordsKept(y, r, n)
    BY <1>1, <1>2, <1>3, <1>4, <1>5, <2>1, RecordsStep
  <2>5. WatermarksKept(h, y, r, n, N)
    BY <1>1, <1>2, <1>4, <1>7, <2>1, WatermarksTaken
  <2>6. CountsKept(h, y)
    BY <1>1, <1>2, <1>4, <1>7, <2>1, CountsTaken
  <2>7. QED  BY <1>4, <2>2, <2>3, <2>4, <2>5, <2>6 DEF WalkKeeps
<1>8. CASE Joins(g, b, h)
  <2>1. Joined(x, b, y)
    BY <1>1, <1>8, StepShape
  <2>2. TypesKept(y, r, n) /\ SchemasKept(y, r, n)
    BY <1>1, <1>4, <1>5, <2>1, TypesStep, SchemasStep
  <2>3. OffsetsKept(y, r, n)
    BY <1>1, <1>2, <1>3, <1>4, <1>5, <2>1, OffsetsJoined
  <2>4. RecordsKept(y, r, n)
    BY <1>1, <1>2, <1>3, <1>4, <1>5, <2>1, RecordsStep
  <2>5. WatermarksKept(h, y, r, n, N)
    BY <1>1, <1>2, <1>4, <1>8, WatermarksJoined
  <2>6. CountsKept(h, y)
    BY <1>1, <1>2, <1>4, <1>8, <2>1, CountsJoined
  <2>7. QED  BY <1>4, <2>2, <2>3, <2>4, <2>5, <2>6 DEF WalkKeeps
<1>9. QED  BY <1>6, <1>7, <1>8

\* It holds before the first block,
LEMMA WalkKeepsInit ==
  ASSUME NEW g, Flush(g) = <<>>, ~Open(g), g.records = 0, g.info.watermark = 0,
         NEW r, NEW N \in Nat, NEW x, x = Flush(g)
  PROVE  WalkKeeps(g, x, r, 0, N)
<1>1. Len(x) = 0 /\ (\A k \in 1..0 : FALSE) /\ (\A k \in 1..(0 - 1) : FALSE) /\ 0 \in 0..0
  OBVIOUS
<1>2. OpenLast(g)
  BY <1>1 DEF OpenLast
<1>3. TypesKept(x, r, 0) /\ SchemasKept(x, r, 0)
  BY <1>1 DEF TypesKept, SchemasKept
<1>4. OffsetsKept(x, r, 0)
  BY <1>1 DEF OffsetsKept, Starts, Linked, Oldest
<1>5. RecordsKept(x, r, 0)
  BY <1>1 DEF RecordsKept, RecordIn
<1>6. WatermarksKept(g, x, r, 0, N)
  BY <1>1 DEF WatermarksKept, Over, Closed
<1>7. CountsKept(g, x)
  <2>1. PICK W : W = [m \in 0..0 |-> 0]
    OBVIOUS
  <2>2. W \in [0..0 -> Nat] /\ W[0] = 0
    BY <1>1, <2>1
  <2>3. CountsOf(W, x, 0)
    BY <1>1, <2>2 DEF CountsOf
  <2>4. QED  BY <1>1, <2>2, <2>3 DEF CountsKept
<1>8. QED  BY <1>2, <1>3, <1>4, <1>5, <1>6, <1>7 DEF WalkKeeps

\* and so after each of them.
LEMMA Walked ==
  ASSUME NEW I, NEW r, NEW N \in Nat, NewestFirst(r, N), NEW f, Walks(f, Recorded, I, N), Run(f, r, N)
  PROVE  \A n \in 0..N : WalkKeeps(f[n], Flush(f[n]), r, n, N)
<1> DEFINE T == {n \in 0..N : WalkKeeps(f[n], Flush(f[n]), r, n, N)}
<1>1. 0 \in T
  <2>1. WalkKeeps(f[0], Flush(f[0]), r, 0, N)
    BY WalkKeepsInit DEF Run
  <2>2. QED  BY <2>1
<1>2. ASSUME NEW n \in 1..N, n - 1 \in T PROVE n \in T
  <2>1. PICK g, h, b : g = f[n - 1] /\ h = f[n] /\ b = r[n]
    OBVIOUS
  <2>2. n - 1 \in 0..N /\ n \in 0..N
    OBVIOUS
  <2>3. g \in Gathered(Recorded, I) /\ Collected(g) /\ h \in Gathered(Recorded, I) /\ Collected(h)
    BY <2>1, <2>2 DEF Walks
  <2>4. Drops(g, b, h) \/ Takes(g, b, h) \/ Joins(g, b, h)
    BY <2>1 DEF Run
  <2>5. WalkKeeps(g, Flush(g), r, n - 1, N)
    BY <1>2, <2>1
  <2>6. WalkKeeps(h, Flush(h), r, n, N)
    BY <2>1, <2>3, <2>4, <2>5, WalkKeepsStep
  <2>7. QED  BY <2>1, <2>2, <2>6
<1>3. \A n \in 0..N : n \in T
  <2> HIDE DEF T
  <2> QED  BY <1>1, <1>2, IntervalInduction
<1>4. QED  BY <1>3

\* What the walk has at its end: the events of the new chain, newest first.
EventsKept(x, r, N) ==
  /\ NewEvents(x) /\ TypesKept(x, r, N) /\ OffsetsKept(x, r, N) /\ RecordsKept(x, r, N)
  /\ Declining(x, Len(x)) /\ \E W : CountsOf(W, x, Len(x))
  /\ \A k \in 1..Len(x) : IsData(x[k]) => \E l \in (k + 1)..Len(x) : x[l].type = "SetDataSchema"

\* What it says of the events that are gathered at the end.
LEMMA WalkEnds ==
  ASSUME NEW I, NEW r, NEW N \in Nat, NewestFirst(r, N), NEW f, Walks(f, Recorded, I, N), Run(f, r, N),
         NEW x, x = f[N].batches
  PROVE  EventsKept(x, r, N) /\ x \in Seq(Blocks(Recorded, I))
<1>1. N \in 0..N
  OBVIOUS
<1>2. PICK g : g = f[N]
  OBVIOUS
<1>3. PICK y : y = Flush(g)
  OBVIOUS
<1>4. WalkKeeps(g, y, r, N, N)
  BY <1>1, <1>2, <1>3, Walked
<1>5. g \in Gathered(Recorded, I) /\ Collected(g)
  BY <1>1, <1>2 DEF Walks
<1>6. y \in Seq(Blocks(Recorded, I)) /\ \A k \in 1..Len(y) : NewEvent(y[k])
  BY <1>3, <1>5, FlushedEvents
<1>7. PICK m \in Nat : m = Len(y)
  BY <1>6
<1>8. NewEvents(y)
  <2>1. \A k \in 1..Len(y) : IsBlock(y[k], Recorded)
    BY <1>6, BlockOf
  <2>2. QED  BY <1>6, <1>7, <2>1 DEF NewEvents
<1>9. ASSUME NEW k \in 1..m, IsData(y[k])
      PROVE  \E l \in (k + 1)..m : y[l].type = "SetDataSchema"
  <2>1. PICK i \in 1..N : /\ HasRecords(r[i])
                          /\ \A j \in (i + 1)..N : r[j].type = "SetDataSchema" =>
                               \E l \in (k + 1)..m : y[l].type = "SetDataSchema"
    BY <1>4, <1>7, <1>9 DEF WalkKeeps, SchemasKept
  <2>2. PICK j \in (i + 1)..N : r[j].type = "SetDataSchema"
    BY <2>1 DEF NewestFirst
  <2>3. QED  BY <2>1, <2>2
<1>10. ~Open(g)
  <2>1. SUFFICES ASSUME Open(g) PROVE FALSE
    OBVIOUS
  <2>2. m # 0 /\ IsData(y[m])
    BY <1>3, <1>4, <1>7, <2>1 DEF WalkKeeps, OpenLast
  <2>3. m \in 1..m
    BY <2>2
  <2>4. \E l \in (m + 1)..m : y[l].type = "SetDataSchema"
    BY <1>9, <2>2, <2>3
  <2>5. QED  BY <2>4
<1>11. y = x
  BY <1>2, <1>3, <1>5, <1>10, FlushFacts
<1>12. Declining(y, m)
  <2>1. ASSUME NEW i \in 1..m, NEW j \in 1..m, i < j, IsData(y[i]), IsData(y[j])
        PROVE  y[j].watermark <= y[i].watermark
    <3>1. Over(y[j].watermark, y, j - 1)
      BY <1>4, <1>7, <2>1 DEF WalkKeeps, WatermarksKept
    <3>2. i \in 1..(j - 1)
      BY <2>1
    <3>3. QED  BY <2>1, <3>1, <3>2 DEF Over
  <2>2. QED  BY <2>1 DEF Declining
<1>13. EventsKept(y, r, N)
  <2>1. TypesKept(y, r, N) /\ OffsetsKept(y, r, N) /\ RecordsKept(y, r, N)
    BY <1>4 DEF WalkKeeps
  <2>2. \E W : CountsOf(W, y, Len(y))
    BY <1>4 DEF WalkKeeps, CountsKept
  <2>3. QED  BY <1>7, <1>8, <1>9, <1>12, <2>1, <2>2 DEF EventsKept
<1>14. QED  BY <1>6, <1>11, <1>13

\* An event committed again.
Renews(b, e, t) ==
  /\ b.time = t /\ b.type = e.type /\ b.data = e.data /\ b.start = e.start
  /\ b.prevOffset = e.prevOffset /\ b.watermark = e.watermark
  /\ b.prevCheckpoint = e.prevCheckpoint /\ b.newCheckpoint = e.newCheckpoint

\* The new chain: the events x, oldest first, on top of the old Seed.
OnTop(new, x, c, t) ==
  /\ IsChain(new, Recorded) /\ Len(new) = Len(x) + 1 /\ new[1] = c[1] /\ Len(x) \in Nat
  /\ \A p \in 2..Len(new) : /\ (Len(x) + 2) - p \in 1..Len(x)
                            /\ Renews(new[p], x[(Len(x) + 2) - p], t)

\* The compacted chain is the Seed and these events, oldest first.
LEMMA CompactedBlocks ==
  ASSUME NEW I, NEW c \in Seq(Blocks(Recorded, I)), c # <<>>, NEW keep, NEW t \in Nat,
         NEW x \in Seq(Blocks(Recorded, I)), x = gather_chain_info(c, keep), NEW m, m = Len(x),
         NEW new, new = Compacted(c, keep, t)
  PROVE  new \in Seq(Blocks(Recorded, I)) /\ OnTop(new, x, c, t)
<1>1. m \in Nat /\ DOMAIN x = 1..m
  OBVIOUS
<1>2. PICK r : r = Reverse(x)
  OBVIOUS
<1>3. \A i \in 1..m : r[i] = x[(m - i) + 1] /\ (m - i) + 1 \in 1..m /\ x[i] \in Blocks(Recorded, I)
  <2>1. ASSUME NEW i \in 1..m
        PROVE  r[i] = x[(m - i) + 1] /\ (m - i) + 1 \in 1..m /\ x[i] \in Blocks(Recorded, I)
    BY <1>1, <1>2, ReverseAt
  <2>2. QED  BY <2>1
<1>4. PICK d : d = [i \in 1..m |-> [r[i] EXCEPT !.time = t]]
  OBVIOUS
<1>5. ASSUME NEW i \in 1..m
      PROVE  d[i] \in Blocks(Recorded, I) /\ Renews(d[i], x[(m - i) + 1], t)
  <2>1. PICK b \in Blocks(Recorded, I) : b = x[(m - i) + 1] /\ r[i] = b
    BY <1>3
  <2>2. PICK e : e = [b EXCEPT !.time = t]
    OBVIOUS
  <2>3. e \in Blocks(Recorded, I) /\ Renews(e, b, t)
    BY <2>2 DEF Blocks, Renews
  <2>4. d[i] = e
    BY <1>4, <2>1, <2>2
  <2>5. QED  BY <2>1, <2>3, <2>4
<1>6. d \in Seq(Blocks(Recorded, I)) /\ Len(d) = m
  <2>1. PICK B : B = Blocks(Recorded, I)
    OBVIOUS
  <2>2. d \in [1..m -> B]
    BY <1>4, <1>5, <2>1
  <2>3. d \in Seq(B) /\ Len(d) = m
    BY <1>1, <2>2
  <2>4. QED  BY <2>1, <2>3
<1>7. PICK a : a = <<c[1]>>
  OBVIOUS
<1>8. a \in Seq(Blocks(Recorded, I)) /\ Len(a) = 1 /\ a[1] = c[1]
  <2>1. 1 \in 1..Len(c)
    OBVIOUS
  <2>2. c[1] \in Blocks(Recorded, I)
    BY <2>1, ElementOfSeq
  <2>3. QED  BY <1>7, <2>2
<1>9. new = a \o d
  BY <1>1, <1>2, <1>4, <1>7 DEF Compacted
<1>10. /\ new \in Seq(Blocks(Recorded, I)) /\ Len(new) = m + 1
       /\ \A i \in 1..(m + 1) : new[i] = IF i <= 1 THEN a[i] ELSE d[i - 1]
  <2>1. /\ a \o d \in Seq(Blocks(Recorded, I)) /\ Len(a \o d) = Len(a) + Len(d)
        /\ \A i \in 1..(Len(a) + Len(d)) : (a \o d)[i] = IF i <= Len(a) THEN a[i] ELSE d[i - Len(a)]
    BY <1>6, <1>8, ConcatProperties
  <2>2. QED  BY <1>1, <1>6, <1>8, <1>9, <2>1
<1>11. new[1] = c[1]
  BY <1>1, <1>8, <1>10
<1>12. ASSUME NEW p \in 2..(m + 1)
       PROVE  (m + 2) - p \in 1..m /\ Renews(new[p], x[(m + 2) - p], t)
  <2>1. PICK i \in 1..m : i = p - 1
    BY <1>1
  <2>2. (m - i) + 1 = (m + 2) - p /\ (m + 2) - p \in 1..m
    BY <1>1, <2>1
  <2>3. new[p] = d[i]
    BY <1>1, <1>10, <2>1
  <2>4. QED  BY <1>5, <2>2, <2>3
<1>13. IsChain(new, Recorded)
  BY <1>10, ChainOf
<1>14. QED  BY <1>1, <1>10, <1>11, <1>12, <1>13 DEF OnTop

\* A Seed and blocks of the time t.
FreshBlocks(new, t) ==
  /\ new[1].type = "Seed" /\ new[1].time <= t
  /\ \A p \in 1..Len(new) : RootEvent(new[p])
  /\ \A p \in 2..Len(new) : NewEvent(new[p]) /\ new[p].time = t

\* The blocks of a compacted chain are such.
LEMMA NewBlocks ==
  ASSUME NEW c, HeadInv(c), NEW t, RootChain(c, t), NEW x, NewEvents(x), NEW new, OnTop(new, x, c, t)
  PROVE  FreshBlocks(new, t)
<1>1. new[1] = c[1] /\ Len(new) \in Nat
  BY ChainIsSeq DEF OnTop
<1>2. 1 \in 1..Len(c)
  <2>1. PICK S : c \in Seq(S)
    BY ChainIsSeq DEF HeadInv, Chain
  <2>2. c # <<>>
    BY DEF HeadInv, Chain
  <2>3. QED  BY <2>1, <2>2
<1>3. c[1].type = "Seed" /\ RootEvent(c[1]) /\ c[1].time <= t
  BY <1>2 DEF HeadInv, Sequential, RootChain
<1>4. ASSUME NEW p \in 2..Len(new) PROVE NewEvent(new[p]) /\ new[p].time = t
  <2>1. PICK k \in 1..Len(x) : Renews(new[p], x[k], t)
    BY DEF OnTop
  <2>2. NewEvent(x[k])
    BY DEF NewEvents
  <2>3. QED  BY <2>1, <2>2 DEF Renews, NewEvent, RootEvent, IsData
<1>5. \A p \in 1..Len(new) : p = 1 \/ p \in 2..Len(new)
  BY <1>1
<1>6. \A p \in 1..Len(new) : RootEvent(new[p])
  BY <1>1, <1>3, <1>4, <1>5 DEF NewEvent
<1>7. QED  BY <1>1, <1>3, <1>4, <1>6 DEF FreshBlocks

\* The types of its blocks are those of blocks of the old chain.
LEMMA NewTypes ==
  ASSUME NEW c, HeadInv(c), NEW t, NEW N \in Nat, N = Len(c), NEW r, \A i \in 1..N : r[i] = c[(N - i) + 1],
         NEW x, TypesKept(x, r, N), NEW new, OnTop(new, x, c, t), NEW p \in 2..Len(new)
  PROVE  Has(c, new[p].type)
<1>1. PICK k \in 1..Len(x) : Renews(new[p], x[k], t)
  BY DEF OnTop
<1>2. PICK i \in 1..N : x[k].type = r[i].type
  BY DEF TypesKept
<1>3. PICK j \in 1..N : j = (N - i) + 1
  OBVIOUS
<1>4. c[j].type = new[p].type
  BY <1>1, <1>2, <1>3 DEF Renews
<1>5. IsChain(c, Recorded)
  BY DEF HeadInv, Chain
<1>6. QED  BY <1>3, <1>4, <1>5, HasFacts

\* No checkpoints.
LEMMA NoCheckpoint ==
  ASSUME NEW a, IsChain(a, Recorded), \A i \in 1..Len(a) : RootEvent(a[i]), NEW type
  PROVE  LastEvent(a, type).newCheckpoint = 0
<1>1. CASE Has(a, type)
  <2>1. PICK k : k = LastOf(a, {type})
    OBVIOUS
  <2>2. k \in 0..Len(a)
    BY <2>1, LastOfFacts
  <2>3. k # 0
    BY <1>1, <2>1 DEF Has
  <2>4. k \in 1..Len(a)
    BY <2>2, <2>3
  <2>5. LastEvent(a, type) = a[k]
    BY <1>1, <2>1 DEF LastEvent
  <2>6. QED  BY <2>4, <2>5 DEF RootEvent
<1>2. CASE ~Has(a, type)
  BY <1>2 DEF LastEvent, Block
<1>3. QED  BY <1>1, <1>2

\* Append accepts each block of the compacted chain on top of those before it.
LEMMA NewBlockAccepted ==
  ASSUME NEW c, HeadInv(c), NEW t \in Nat, RootChain(c, t), NEW N \in Nat, N = Len(c),
         NEW r, \A i \in 1..N : r[i] = c[(N - i) + 1], NEW x, EventsKept(x, r, N),
         NEW new, OnTop(new, x, c, t), NEW p \in 2..Len(new)
  PROVE  ValidBlock(SubSeq(new, 1, p - 1), new[p])
<1>1. PICK m \in Nat : m = Len(x)
  BY DEF OnTop
<1>2. /\ IsChain(new, Recorded) /\ Len(new) = m + 1
      /\ \A q \in 2..(m + 1) : (m + 2) - q \in 1..m /\ Renews(new[q], x[(m + 2) - q], t)
  BY <1>1 DEF OnTop
<1>3. /\ NewEvents(x) /\ TypesKept(x, r, N) /\ Declining(x, m) /\ Linked(x, m) /\ Starts(x)
      /\ \A k \in 1..m : IsData(x[k]) => \E l \in (k + 1)..m : x[l].type = "SetDataSchema"
  BY <1>1 DEF EventsKept, OffsetsKept
<1>4. /\ new[1].type = "Seed" /\ new[1].time <= t
      /\ \A q \in 1..(m + 1) : RootEvent(new[q])
      /\ \A q \in 2..(m + 1) : NewEvent(new[q]) /\ new[q].time = t
  <2>1. NewEvents(x) /\ Len(new) = m + 1
    BY <1>2, <1>3
  <2>2. FreshBlocks(new, t)
    BY <2>1, NewBlocks
  <2>3. QED  BY <2>1, <2>2 DEF FreshBlocks
<1>5. PICK a, b : a = SubSeq(new, 1, p - 1) /\ b = new[p]
  OBVIOUS
<1>6. IsChain(a, Recorded) /\ Len(a) = p - 1 /\ \A q \in 1..(p - 1) : a[q] = new[q]
  <2>1. p - 1 \in 0..Len(new)
    BY <1>2
  <2>2. QED  BY <1>2, <1>5, <2>1, ChainPrefix
<1>7. p \in 2..(m + 1) /\ (\A q \in 1..(p - 1) : q = 1 \/ q \in 2..(m + 1)) /\ a # <<>>
  <2>1. Len(a) # 0
    BY <1>6
  <2>2. QED  BY <1>2, <2>1
<1>8. NewEvent(b) /\ RootEvent(b) /\ b.time = t /\ b.type # "Seed"
  BY <1>4, <1>5, <1>7 DEF NewEvent
<1>9. \A q \in 1..Len(a) : RootEvent(a[q])
  <2>1. \A q \in 1..(p - 1) : q \in 1..(m + 1)
    BY <1>7
  <2>2. QED  BY <1>4, <1>6, <2>1
<1>10. PICK k \in 1..m : k = (m + 2) - p /\ Renews(b, x[k], t)
  BY <1>2, <1>5, <1>7
<1>11. SeedBlockOrder(a, b)
  BY <1>7, <1>8 DEF SeedBlockOrder
<1>12. SystemTimeIsMonotonic(a, b)
  <2>1. p - 1 \in 1..(p - 1)
    BY <1>7
  <2>2. new[p - 1].time <= t
    <3>1. p - 1 = 1 \/ p - 1 \in 2..(m + 1)
      BY <1>7
    <3>2. t <= t
      OBVIOUS
    <3>3. CASE p - 1 = 1
      BY <1>4, <3>3
    <3>4. CASE p - 1 \in 2..(m + 1)
      <4>1. new[p - 1].time = t
        BY <1>4, <3>4
      <4>2. QED  BY <3>2, <4>1
    <3>5. QED  BY <3>1, <3>3, <3>4
  <2>3. a[Len(a)].time <= b.time
    BY <1>6, <1>8, <2>1, <2>2
  <2>4. QED  BY <2>3 DEF SystemTimeIsMonotonic
<1>13. ASSUME IsData(b), LastDataOf(a) # 0
       PROVE  /\ a[LastDataOf(a)].watermark <= b.watermark
              /\ b.prevOffset = LastOffset(a[LastDataOf(a)])
  <2>1. PICK q : q = LastDataOf(a)
    OBVIOUS
  <2>2. /\ q \in 0..(p - 1) /\ IsData(a[q])
        /\ \A l \in 1..(p - 1) : l > q => ~IsData(a[l])
    BY <1>6, <1>13, <2>1, LastOfFacts DEF LastDataOf, IsData
  <2>3. q \in 1..(p - 1)
    BY <1>13, <2>1, <2>2
  <2>4. q # 1
    BY <1>4, <1>6, <2>2, <2>3 DEF IsData
  <2>5. PICK j \in 1..m : j = (m + 2) - q /\ Renews(a[q], x[j], t)
    <3>1. q \in 2..(m + 1) /\ a[q] = new[q]
      BY <1>6, <1>7, <2>3, <2>4
    <3>2. QED  BY <1>2, <3>1
  <2>6. k < j /\ IsData(x[k]) /\ IsData(x[j])
    BY <1>7, <1>10, <1>13, <2>2, <2>3, <2>5 DEF Renews, IsData
  <2>7. ASSUME NEW i \in (k + 1)..(j - 1) PROVE ~IsData(x[i])
    <3>1. PICK l \in 1..(p - 1) : l = (m + 2) - i /\ l > q /\ (m + 2) - l = i
      <4>1. q \in Int /\ p \in Int /\ k \in Int /\ j \in Int /\ q >= 1
        BY <1>7, <2>3
      <4>2. i > k /\ i < j /\ i \in Int
        BY <4>1
      <4>3. (m + 2) - i < p /\ (m + 2) - i > q
        BY <1>10, <2>5, <4>1, <4>2
      <4>4. (m + 2) - i \in 1..(p - 1) /\ (m + 2) - ((m + 2) - i) = i
        BY <4>1, <4>2, <4>3
      <4>5. QED  BY <4>3, <4>4
    <3>2. ~IsData(new[l])
      BY <1>6, <2>2, <3>1
    <3>3. l \in 2..(m + 1)
      BY <1>7, <2>3, <3>1
    <3>4. Renews(new[l], x[i], t)
      BY <1>2, <3>1, <3>3
    <3>5. QED  BY <3>2, <3>4 DEF Renews, IsData
  <2>8. x[j].watermark <= x[k].watermark /\ x[k].prevOffset = LastOffset(x[j])
    BY <1>3, <2>6, <2>7 DEF Declining, Linked
  <2>9. LastOffset(a[q]) = LastOffset(x[j])
    BY <2>5 DEF Renews, LastOffset
  <2>10. QED  BY <1>10, <2>1, <2>5, <2>8, <2>9 DEF Renews
<1>14. WatermarkIsMonotonic(a, b)
  BY <1>13 DEF WatermarkIsMonotonic
<1>15. OffsetsAreSequential(a, b)
  <2>1. IsData(b) => b.start = b.prevOffset + 1
    BY <1>1, <1>3, <1>10 DEF Starts, Renews, IsData
  <2>2. QED  BY <1>13, <2>1 DEF OffsetsAreSequential
<1>16. OneKindOfSource(a, b)
  <2>1. ~(Has(c, "AddPushSource") /\ Has(c, "SetPollingSource"))
    BY DEF HeadInv, Sequential
  <2>2. Has(c, b.type)
    BY <1>3, <1>5, NewTypes
  <2>3. ASSUME NEW type, type # "Seed", Has(a, type) PROVE Has(c, type)
    <3>1. PICK q \in 1..(p - 1) : new[q].type = type
      BY <1>6, <2>3, HasFacts
    <3>2. q \in 2..Len(new)
      BY <1>2, <1>4, <1>7, <2>3, <3>1
    <3>3. QED  BY <1>3, <3>1, <3>2, NewTypes
  <2>4. (Has(a, "AddPushSource") => Has(c, "AddPushSource"))
        /\ (Has(a, "SetPollingSource") => Has(c, "SetPollingSource"))
    BY <2>3
  <2>5. QED  BY <2>1, <2>2, <2>4 DEF OneKindOfSource
<1>17. SchemaBeforeData(a, b)
  <2>1. SUFFICES ASSUME IsData(b) PROVE Has(a, "SetDataSchema")
    BY DEF SchemaBeforeData
  <2>2. PICK l \in (k + 1)..m : x[l].type = "SetDataSchema"
    BY <1>3, <1>10, <2>1 DEF Renews, IsData
  <2>3. PICK q \in 1..(p - 1) : q = (m + 2) - l /\ q \in 2..(m + 1) /\ (m + 2) - q = l
    BY <1>7, <1>10
  <2>4. new[q].type = "SetDataSchema"
    BY <1>2, <2>2, <2>3 DEF Renews
  <2>5. QED  BY <1>6, <2>3, <2>4, HasFacts
<1>18. CheckpointsAreLinked(a, b)
  <2>1. LastEvent(a, b.type).newCheckpoint = 0
    BY <1>6, <1>9, NoCheckpoint
  <2>2. QED  BY <1>8, <2>1 DEF CheckpointsAreLinked, RootEvent
<1>19. b.type # "ExecuteTransform"
  BY <1>8 DEF RootEvent, RootTypes
<1>20. ValidExecuteTransform(a, b)
  BY <1>19 DEF ValidExecuteTransform
<1>21. IsData(b) => b.data # <<>>
  BY <1>8 DEF NewEvent
<1>22. EventIsNotEmpty(b)
  BY <1>19, <1>21 DEF EventIsNotEmpty, IsData
<1>23. ~NoOpEvent(a, b)
  BY <1>21 DEF NoOpEvent
<1>24. ConsistentBlock(a, b)
  BY <1>11, <1>12, <1>14, <1>15, <1>16, <1>17, <1>18, <1>20 DEF ConsistentBlock
<1>25. QED  BY <1>5, <1>22, <1>23, <1>24 DEF ValidBlock

\* The records of a chain are those of its blocks ...
LEMMA RecordsIn ==
  ASSUME NEW c, IsChain(c, Recorded), NEW z
  PROVE  z \in Records(c) <=> RecordIn(z, c, Len(c))
<1>1. PICK S : c \in Seq(S)
  BY ChainIsSeq
<1>2. DOMAIN c = 1..Len(c)
  BY <1>1
<1>3. QED  BY <1>2 DEF Records, RecordIn

\* ... and those of the new chain are those of the old one.
LEMMA RecordsStay ==
  ASSUME NEW c, HeadInv(c), NEW t, NEW N \in Nat, N = Len(c), NEW r, \A i \in 1..N : r[i] = c[(N - i) + 1],
         NEW x, RecordsKept(x, r, N), NEW new, OnTop(new, x, c, t), ~IsData(c[1])
  PROVE  Records(new) = Records(c)
<1>1. PICK m \in Nat : m = Len(x)
  BY DEF OnTop
<1>2. /\ IsChain(new, Recorded) /\ Len(new) = m + 1 /\ new[1] = c[1]
      /\ \A q \in 2..(m + 1) : (m + 2) - q \in 1..m /\ Renews(new[q], x[(m + 2) - q], t)
  BY <1>1 DEF OnTop
<1>3. IsChain(c, Recorded)
  BY DEF HeadInv, Chain
<1>4. ASSUME NEW b, NEW e, Renews(b, e, t), NEW z
      PROVE  (IsData(b) /\ z \in RecordsOf(b)) <=> (IsData(e) /\ z \in RecordsOf(e))
  <2>1. RecordsOf(b) = RecordsOf(e) /\ (IsData(b) <=> IsData(e))
    BY <1>4 DEF Renews, RecordsOf, IsData
  <2>2. QED  BY <2>1
<1>5. ASSUME NEW z PROVE RecordIn(z, new, m + 1) <=> RecordIn(z, x, m)
  <2>1. ASSUME RecordIn(z, new, m + 1) PROVE RecordIn(z, x, m)
    <3>1. PICK p \in 1..(m + 1) : IsData(new[p]) /\ z \in RecordsOf(new[p])
      BY <2>1 DEF RecordIn
    <3>2. p # 1
      BY <1>2, <3>1
    <3>3. p \in 2..(m + 1)
      BY <3>2
    <3>4. PICK k \in 1..m : Renews(new[p], x[k], t)
      BY <1>2, <3>3
    <3>5. IsData(x[k]) /\ z \in RecordsOf(x[k])
      BY <1>4, <3>1, <3>4
    <3>6. QED  BY <3>5 DEF RecordIn
  <2>2. ASSUME RecordIn(z, x, m) PROVE RecordIn(z, new, m + 1)
    <3>1. PICK k \in 1..m : IsData(x[k]) /\ z \in RecordsOf(x[k])
      BY <2>2 DEF RecordIn
    <3>2. PICK p \in 1..(m + 1) : p \in 2..(m + 1) /\ (m + 2) - p = k
      <4>1. (m + 2) - k \in 1..(m + 1) /\ (m + 2) - k \in 2..(m + 1) /\ (m + 2) - ((m + 2) - k) = k
        OBVIOUS
      <4>2. QED  BY <4>1
    <3>3. Renews(new[p], x[k], t)
      BY <1>2, <3>2
    <3>4. IsData(new[p]) /\ z \in RecordsOf(new[p])
      BY <1>4, <3>1, <3>3
    <3>5. QED  BY <3>4 DEF RecordIn
  <2>3. QED  BY <2>1, <2>2
<1>6. ASSUME NEW z PROVE RecordIn(z, r, N) <=> RecordIn(z, c, N)
  <2>1. \A i \in 1..N : (N - i) + 1 \in 1..N /\ (N - ((N - i) + 1)) + 1 = i
    OBVIOUS
  <2>2. ASSUME NEW i \in 1..N PROVE r[(N - i) + 1] = c[i]
    BY <2>1
  <2>3. ASSUME RecordIn(z, r, N) PROVE RecordIn(z, c, N)
    <3>1. PICK i \in 1..N : IsData(r[i]) /\ z \in RecordsOf(r[i])
      BY <2>3 DEF RecordIn
    <3>2. PICK j \in 1..N : r[i] = c[j]
      BY <2>1
    <3>3. QED  BY <3>1, <3>2 DEF RecordIn
  <2>4. ASSUME RecordIn(z, c, N) PROVE RecordIn(z, r, N)
    <3>1. PICK i \in 1..N : IsData(c[i]) /\ z \in RecordsOf(c[i])
      BY <2>4 DEF RecordIn
    <3>2. PICK j \in 1..N : r[j] = c[i]
      BY <2>1, <2>2
    <3>3. QED  BY <3>1, <3>2 DEF RecordIn
  <2>5. QED  BY <2>3, <2>4
<1>7. \A z : RecordIn(z, x, m) <=> RecordIn(z, r, N)
  BY <1>1 DEF RecordsKept
<1>8. \A z : z \in Records(new) <=> z \in Records(c)
  <2>1. \A z : z \in Records(new) <=> RecordIn(z, new, m + 1)
    BY <1>2, RecordsIn
  <2>2. \A z : z \in Records(c) <=> RecordIn(z, c, N)
    BY <1>3, RecordsIn
  <2>3. QED  BY <1>5, <1>6, <1>7, <2>1, <2>2
<1>9. QED  BY <1>8

\* A walk over the new chain, newest block first: no event is dropped, and none
\* joins the one before.
Rewalked(g, s, W, n) ==
  /\ Len(Flush(g)) = n /\ g.records = W[n]
  /\ Open(g) <=> n # 0 /\ IsData(s[n])

\* Each block of the compacted chain is taken.
LEMMA RewalkStep ==
  ASSUME NEW I, NEW x, NEW m \in Nat, NEW W, CountsOf(W, x, m), NEW s, NEW t,
         \A k \in 1..m : Renews(s[k], x[k], t) /\ NewEvent(s[k]),
         NEW n \in 1..m, NEW g \in Gathered(Recorded, I), Collected(g), NEW h, NEW b, b = s[n],
         Drops(g, b, h) \/ Takes(g, b, h) \/ Joins(g, b, h), Rewalked(g, s, W, n - 1)
  PROVE  Rewalked(h, s, W, n)
<1>1. NewEvent(b) /\ Renews(b, x[n], t)
  OBVIOUS
<1>2. ~Drops(g, b, h)
  BY <1>1 DEF Drops, NewEvent
<1>3. Len(Flush(g)) = n - 1 /\ g.records = W[n - 1] /\ (Open(g) <=> n - 1 # 0 /\ IsData(s[n - 1]))
  BY DEF Rewalked
<1>4. b.data = x[n].data /\ (IsData(b) <=> IsData(x[n]))
  BY <1>1 DEF Renews, IsData
<1>5. ~Joins(g, b, h)
  <2>1. SUFFICES ASSUME Joins(g, b, h) PROVE FALSE
    OBVIOUS
  <2>2. IsData(b) /\ Open(g) /\ ~Full(g, b)
    BY <2>1 DEF Joins
  <2>3. n - 1 # 0 /\ IsData(s[n - 1])
    BY <1>3, <2>2
  <2>4. n - 1 \in 1..(m - 1) /\ n - 1 \in 1..m /\ (n - 1) + 1 = n
    BY <2>3
  <2>5. IsData(x[n - 1])
    BY <2>3, <2>4 DEF Renews, IsData
  <2>6. Full([records |-> W[n - 1]], x[n])
    BY <1>4, <2>2, <2>4, <2>5 DEF CountsOf
  <2>7. QED  BY <1>3, <1>4, <2>2, <2>6 DEF Full
<1>6. Takes(g, b, h)
  BY <1>2, <1>5
<1>7. Len(Flush(h)) = n
  <2>1. PICK y \in Seq(Blocks(Recorded, I)) : y = Flush(g)
    BY FlushedEvents
  <2>2. Flush(h) = Append(y, b)
    BY <1>6, <2>1 DEF Takes
  <2>3. Len(Append(y, b)) = Len(y) + 1
    OBVIOUS
  <2>4. QED  BY <1>3, <2>1, <2>2, <2>3
<1>8. h.records = W[n]
  <2>1. W[n] = Counts(W[n - 1], x[n])
    BY DEF CountsOf
  <2>2. QED  BY <1>3, <1>4, <1>6, <2>1 DEF Takes, Counts, Full
<1>9. Open(h) <=> n # 0 /\ IsData(s[n])
  BY <1>6 DEF Takes
<1>10. QED  BY <1>7, <1>8, <1>9 DEF Rewalked

\* A second walk gathers as many blocks as the first left.
LEMMA Rewalk ==
  ASSUME NEW I, NEW x, NEW m \in Nat, NEW W, CountsOf(W, x, m), NEW s, NEW t,
         \A k \in 1..m : Renews(s[k], x[k], t) /\ NewEvent(s[k]), s[m + 1].type = "Seed",
         m # 0 => ~IsData(x[m]), NEW f, Walks(f, Recorded, I, m + 1), Run(f, s, m + 1)
  PROVE  Len(f[m + 1].batches) = m
<1> DEFINE T == {n \in 0..m : Rewalked(f[n], s, W, n)}
<1>1. 0 \in T
  <2>1. Flush(f[0]) = <<>> /\ ~Open(f[0]) /\ f[0].records = 0
    BY DEF Run
  <2>2. Len(<<>>) = 0
    OBVIOUS
  <2>3. W[0] = 0
    BY DEF CountsOf
  <2>4. Rewalked(f[0], s, W, 0)
    BY <2>1, <2>2, <2>3 DEF Rewalked
  <2>5. QED  BY <2>4
<1>2. ASSUME NEW n \in 1..m, n - 1 \in T PROVE n \in T
  <2>1. PICK g, h, b : g = f[n - 1] /\ h = f[n] /\ b = s[n]
    OBVIOUS
  <2>2. n - 1 \in 0..(m + 1) /\ n \in 1..(m + 1) /\ n \in 0..m
    OBVIOUS
  <2>3. g \in Gathered(Recorded, I) /\ Collected(g)
    BY <2>1, <2>2 DEF Walks
  <2>4. Drops(g, b, h) \/ Takes(g, b, h) \/ Joins(g, b, h)
    BY <2>1, <2>2 DEF Run
  <2>5. Rewalked(g, s, W, n - 1)
    BY <1>2, <2>1
  <2>6. Rewalked(h, s, W, n)
    BY <2>1, <2>3, <2>4, <2>5, RewalkStep
  <2>7. QED  BY <2>1, <2>2, <2>6
<1>3. \A n \in 0..m : n \in T
  <2> HIDE DEF T
  <2> QED  BY <1>1, <1>2, IntervalInduction
<1>4. PICK g, h, b : g = f[m] /\ h = f[m + 1] /\ b = s[m + 1]
  OBVIOUS
<1>5. Rewalked(g, s, W, m)
  BY <1>3, <1>4
<1>6. m + 1 \in 1..(m + 1) /\ (m + 1) - 1 = m /\ m + 1 \in 0..(m + 1)
  OBVIOUS
<1>7. h \in Gathered(Recorded, I) /\ Collected(h)
  BY <1>4, <1>6 DEF Walks
<1>8. Drops(g, b, h)
  <2>1. Drops(g, b, h) \/ Takes(g, b, h) \/ Joins(g, b, h)
    BY <1>4, <1>6 DEF Run
  <2>2. ~NewEvent(b)
    BY <1>4 DEF NewEvent
  <2>3. QED  BY <2>1, <2>2 DEF Takes, Joins
<1>9. ~Open(g)
  <2>1. m # 0 => m \in 1..m
    OBVIOUS
  <2>2. m # 0 => ~IsData(s[m])
    BY <2>1 DEF Renews, IsData
  <2>3. QED  BY <1>5, <2>2 DEF Rewalked
<1>10. ~Open(h) /\ Len(Flush(h)) = m
  BY <1>5, <1>8, <1>9 DEF Drops, Rewalked
<1>11. Flush(h) = h.batches
  BY <1>7, <1>10, FlushFacts
<1>12. QED  BY <1>4, <1>10, <1>11

\* Compaction of a chain of a root dataset.
LEMMA CompactionFacts ==
  ASSUME NEW c, HeadInv(c), NEW t \in Nat, RootChain(c, t), NEW keep, Everything(keep),
         NEW new, new = Compacted(c, keep, t)
  PROVE  /\ CompactionAccepted(c, keep, t)
         /\ Records(new) = Records(c)
         /\ NothingToDo(new, keep)
<1>1. PICK I : c \in Seq(Blocks(Recorded, I))
  BY ChainIsSeq DEF HeadInv, Chain
<1>2. PICK N, r : N = Len(c) /\ r = Reverse(c)
  OBVIOUS
<1>3. NewestFirst(r, N) /\ N \in Nat \ {0} /\ \A i \in 1..N : r[i] = c[(N - i) + 1]
  BY <1>2, RootReversed
<1>4. \A i \in 1..Len(c) : RootEvent(c[i])
  BY DEF RootChain
<1>5. PICK f : /\ Walks(f, Recorded, I, N) /\ gather_chain_info(c, keep) = f[N].batches
               /\ Run(f, r, N)
  <2>1. N \in Nat
    BY <1>3
  <2>2. QED  BY <1>1, <1>2, <1>4, <2>1, WalkFacts
<1>6. PICK x : x = gather_chain_info(c, keep)
  OBVIOUS
<1>7. EventsKept(x, r, N) /\ x \in Seq(Blocks(Recorded, I))
  <2>1. N \in Nat /\ x = f[N].batches
    BY <1>3, <1>5, <1>6
  <2>2. QED  BY <1>3, <1>5, <2>1, WalkEnds
<1>8. PICK m \in Nat : m = Len(x)
  BY <1>7
<1>9. c # <<>>
  BY DEF HeadInv, Chain
<1>10. /\ new \in Seq(Blocks(Recorded, I)) /\ Len(new) = m + 1 /\ new[1] = c[1]
       /\ \A p \in 2..(m + 1) : (m + 2) - p \in 1..m /\ Renews(new[p], x[(m + 2) - p], t)
  <2>1. new \in Seq(Blocks(Recorded, I)) /\ OnTop(new, x, c, t)
    BY <1>1, <1>6, <1>7, <1>9, CompactedBlocks
  <2>2. QED  BY <1>8, <2>1 DEF OnTop
<1>11. OnTop(new, x, c, t)
  BY <1>1, <1>6, <1>7, <1>9, CompactedBlocks
<1>12. /\ new[1].type = "Seed"
       /\ \A p \in 1..Len(new) : RootEvent(new[p])
       /\ \A p \in 2..Len(new) : NewEvent(new[p])
  <2>1. NewEvents(x)
    BY <1>7 DEF EventsKept
  <2>2. FreshBlocks(new, t)
    BY <1>11, <2>1, NewBlocks
  <2>3. QED  BY <2>2 DEF FreshBlocks
<1>13. CompactionAccepted(c, keep, t)
  <2>1. ASSUME NEW p \in 2..Len(new) PROVE ValidBlock(SubSeq(new, 1, p - 1), new[p])
    <3>1. N \in Nat /\ \A i \in 1..N : r[i] = c[(N - i) + 1]
      BY <1>3
    <3>2. QED  BY <1>2, <1>7, <1>11, <3>1, NewBlockAccepted
  <2>2. QED  BY <2>1 DEF CompactionAccepted
<1>14. Records(new) = Records(c)
  <2>1. N \in Nat /\ \A i \in 1..N : r[i] = c[(N - i) + 1]
    BY <1>3
  <2>2. ~IsData(c[1])
    BY <1>10, <1>12 DEF IsData
  <2>3. RecordsKept(x, r, N)
    BY <1>7 DEF EventsKept
  <2>4. QED  BY <1>2, <1>11, <2>1, <2>2, <2>3, RecordsStay
<1>15. NothingToDo(new, keep)
  <2>1. PICK s : s = Reverse(new)
    OBVIOUS
  <2>2. m + 1 \in Nat /\ m + 1 = Len(new)
    BY <1>10
  <2>3. PICK e : /\ Walks(e, Recorded, I, m + 1) /\ gather_chain_info(new, keep) = e[m + 1].batches
                 /\ Run(e, s, m + 1)
    BY <1>10, <1>12, <2>1, <2>2, WalkFacts
  <2>4. \A k \in 1..(m + 1) : s[k] = new[((m + 1) - k) + 1]
    BY <1>10, <2>1, ReverseAt
  <2>5. ASSUME NEW k \in 1..m PROVE Renews(s[k], x[k], t) /\ NewEvent(s[k])
    <3>1. PICK p \in 2..(m + 1) : p = ((m + 1) - k) + 1 /\ (m + 2) - p = k
      <4>1. ((m + 1) - k) + 1 \in 2..(m + 1) /\ (m + 2) - (((m + 1) - k) + 1) = k
        OBVIOUS
      <4>2. QED  BY <4>1
    <3>2. k \in 1..(m + 1)
      OBVIOUS
    <3>3. s[k] = new[p]
      BY <2>4, <3>1, <3>2
    <3>4. Renews(new[p], x[k], t)
      BY <1>10, <3>1
    <3>5. NewEvent(new[p])
      BY <1>10, <1>12
    <3>6. QED  BY <3>3, <3>4, <3>5
  <2>6. s[m + 1].type = "Seed"
    <3>1. m + 1 \in 1..(m + 1) /\ ((m + 1) - (m + 1)) + 1 = 1
      OBVIOUS
    <3>2. s[m + 1] = new[1]
      BY <2>4, <3>1
    <3>3. QED  BY <1>12, <3>2
  <2>7. m # 0 => ~IsData(x[m])
    <3>1. m # 0 => m \in 1..m
      OBVIOUS
    <3>2. m # 0 /\ IsData(x[m]) => \E l \in (m + 1)..m : x[l].type = "SetDataSchema"
      BY <1>7, <1>8, <3>1 DEF EventsKept
    <3>3. \A l \in (m + 1)..m : FALSE
      OBVIOUS
    <3>4. QED  BY <3>2, <3>3
  <2>8. PICK W : CountsOf(W, x, m)
    BY <1>7, <1>8 DEF EventsKept
  <2>9. Len(e[m + 1].batches) = m
    BY <2>3, <2>5, <2>6, <2>7, <2>8, Rewalk
  <2>10. QED  BY <1>10, <2>3, <2>9 DEF NothingToDo
<1>16. QED  BY <1>13, <1>14, <1>15

\* Whether or not data are kept, the new chain is one of a root dataset.
LEMMA CompactedRoot ==
  ASSUME NEW c, HeadInv(c), NEW t \in Nat, RootChain(c, t), NEW keep,
         Everything(keep) \/ OnlyMetadata(keep), CompactionAccepted(c, keep, t)
  PROVE  RootChain(Compacted(c, keep, t), t)
<1>1. PICK I : c \in Seq(Blocks(Recorded, I))
  BY ChainIsSeq DEF HeadInv, Chain
<1>2. PICK N \in Nat : N = Len(c)
  BY <1>1
<1>3. \A i \in 1..Len(c) : RootEvent(c[i])
  BY DEF RootChain
<1>4. PICK f : Walks(f, Recorded, I, N) /\ gather_chain_info(c, keep) = f[N].batches
  BY <1>1, <1>2, <1>3, WalkFacts
<1>5. PICK x : x = gather_chain_info(c, keep)
  OBVIOUS
<1>6. x \in Seq(Blocks(Recorded, I)) /\ \A k \in 1..Len(x) : NewEvent(x[k])
  <2>1. N \in 0..N
    OBVIOUS
  <2>2. QED  BY <1>4, <1>5, <2>1 DEF Walks, Collected, Gathered
<1>7. PICK m, new : m = Len(x) /\ m \in Nat /\ new = Compacted(c, keep, t)
  BY <1>6
<1>8. c # <<>>
  BY DEF HeadInv, Chain
<1>9. /\ new \in Seq(Blocks(Recorded, I)) /\ Len(new) = m + 1 /\ new[1] = c[1]
      /\ \A p \in 2..(m + 1) : (m + 2) - p \in 1..m /\ Renews(new[p], x[(m + 2) - p], t)
  <2>1. new \in Seq(Blocks(Recorded, I)) /\ OnTop(new, x, c, t)
    BY <1>1, <1>5, <1>6, <1>7, <1>8, CompactedBlocks
  <2>2. QED  BY <1>7, <2>1 DEF OnTop
<1>10. OnTop(new, x, c, t)
  BY <1>1, <1>5, <1>6, <1>7, <1>8, CompactedBlocks
<1>11. NewEvents(x)
  <2>1. \A k \in 1..Len(x) : IsBlock(x[k], Recorded)
    BY <1>6, BlockOf
  <2>2. QED  BY <1>6, <1>7, <2>1 DEF NewEvents
<1>12. /\ new[1].time <= t
       /\ \A p \in 1..Len(new) : RootEvent(new[p])
       /\ \A p \in 2..Len(new) : new[p].time = t
  <2>1. FreshBlocks(new, t)
    BY <1>10, <1>11, NewBlocks
  <2>2. QED  BY <2>1 DEF FreshBlocks
<1>13. \A p \in 1..Len(new) : new[p].time <= t
  <2>1. t <= t /\ \A p \in 1..Len(new) : p = 1 \/ p \in 2..Len(new)
    BY <1>9
  <2>2. QED  BY <1>12, <2>1
<1>14. ValidChain(new)
  BY <1>7 DEF CompactionAccepted, ValidChain
<1>15. QED  BY <1>7, <1>12, <1>13, <1>14 DEF RootChain


\* Blocks that operations on the root dataset have in hand.
RootBlocks(e, t) == \A i \in 1..Len(e) : RootEvent(e[i]) /\ e[i].time <= t

RootOp(o, t) ==
  /\ o.kind \in {"commit", "append"} /\ o.ds = Root => RootChain(o.base, t) /\ RootBlocks(o.events, t)
  /\ o.kind = "rewrite" /\ o.ds = Root => RootChain(o.target, t)

RootInv == RootChain(head[Root], now) /\ \A w \in Workers : RootOp(op[w], now)

\* Nothing about them changes while time passes.
LEMMA RootLater ==
  ASSUME NEW t \in Nat, NEW later \in Nat, t <= later
  PROVE  /\ \A c : IsChain(c, Recorded) /\ RootChain(c, t) => RootChain(c, later)
         /\ \A o : OpInv(o) /\ RootOp(o, t) => RootOp(o, later)
<1>1. ASSUME NEW c, IsChain(c, Recorded), RootBlocks(c, t) PROVE RootBlocks(c, later)
  <2>1. ASSUME NEW i \in 1..Len(c) PROVE c[i].time <= later
    <3>1. c[i].time \in Nat
      BY <1>1, ChainIsSeq, BlockFields
    <3>2. c[i].time <= t
      BY <1>1 DEF RootBlocks
    <3>3. QED  BY <3>1, <3>2
  <2>2. QED  BY <1>1, <2>1 DEF RootBlocks
<1>2. ASSUME NEW c, IsChain(c, Recorded), RootChain(c, t) PROVE RootChain(c, later)
  BY <1>1, <1>2 DEF RootChain, RootBlocks
<1>3. ASSUME NEW o, OpInv(o), RootOp(o, t) PROVE RootOp(o, later)
  <2>1. ASSUME o.kind \in {"commit", "append"}, o.ds = Root
        PROVE  RootChain(o.base, later) /\ RootBlocks(o.events, later)
    <3>1. IsChain(o.base, Recorded) /\ IsChain(o.events, Recorded)
      BY <1>3, <2>1, CommittingParts DEF HeadInv, Chain
    <3>2. RootChain(o.base, t) /\ RootBlocks(o.events, t)
      BY <1>3, <2>1 DEF RootOp
    <3>3. QED  BY <1>1, <1>2, <3>1, <3>2
  <2>2. ASSUME o.kind = "rewrite", o.ds = Root PROVE RootChain(o.target, later)
    <3>1. o \notin {Idle, TransformAgain}
      BY <2>2 DEF Idle, TransformAgain
    <3>2. IsChain(o.target, Recorded)
      BY <1>3, <2>2, <3>1 DEF OpInv, OpOK, Chain
    <3>3. RootChain(o.target, t)
      BY <1>3, <2>2 DEF RootOp
    <3>4. QED  BY <1>2, <3>2, <3>3
  <2>3. QED  BY <2>1, <2>2 DEF RootOp
<1>4. QED  BY <1>2, <1>3

\* Operations that commit nothing on the root dataset, and those that do.
LEMMA RootOps ==
  ASSUME NEW t
  PROVE  /\ RootOp(Idle, t) /\ RootOp(TransformAgain, t)
         /\ \A b, e : RootOp(Commit(Derived, b, e), t)
         /\ \A d, n : RootOp([kind |-> "summary", ds |-> d, new |-> n], t)
         /\ \A d, n, then : (d = Root => RootChain(n, t)) => RootOp(Rewrite(d, n, then), t)
         /\ \A step \in {"commit", "append"} : \A d, begin, b, e :
              (d = Root => RootChain(b, t) /\ RootBlocks(e, t)) =>
                RootOp(Committing(step, d, begin, b, e), t)
<1>1. Root # Derived
  BY DatasetsAssumption
<1>2. ASSUME NEW step \in {"commit", "append"}, NEW d, NEW begin, NEW b, NEW e,
             d = Root => RootChain(b, t) /\ RootBlocks(e, t)
      PROVE  RootOp(Committing(step, d, begin, b, e), t)
  <2>1. PICK o : o = Committing(step, d, begin, b, e)
    OBVIOUS
  <2>2. o.kind = step /\ o.ds = d /\ o.base = b /\ o.events = e
    BY <2>1 DEF Committing
  <2>3. QED  BY <1>2, <2>1, <2>2 DEF RootOp
<1>3. ASSUME NEW d, NEW n, NEW then, d = Root => RootChain(n, t)
      PROVE  RootOp(Rewrite(d, n, then), t)
  <2>1. PICK o : o = Rewrite(d, n, then)
    OBVIOUS
  <2>2. o.kind = "rewrite" /\ o.ds = d /\ o.target = n
    BY <2>1 DEF Rewrite
  <2>3. QED  BY <1>3, <2>1, <2>2 DEF RootOp
<1>4. ASSUME NEW b, NEW e PROVE RootOp(Commit(Derived, b, e), t)
  BY <1>1, <1>2 DEF Commit
<1>5. ASSUME NEW d, NEW n PROVE RootOp([kind |-> "summary", ds |-> d, new |-> n], t)
  <2>1. PICK o : o = [kind |-> "summary", ds |-> d, new |-> n]
    OBVIOUS
  <2>2. o.kind = "summary"
    BY <2>1
  <2>3. QED  BY <2>1, <2>2 DEF RootOp
<1>6. RootOp(Idle, t) /\ RootOp(TransformAgain, t)
  BY DEF RootOp, Idle, TransformAgain
<1>7. QED  BY <1>2, <1>3, <1>4, <1>5, <1>6

\* A step that changes what one worker does, and perhaps a head.
LEMMA RootStep ==
  ASSUME ChainInv, RootInv, NEW w \in Workers, NEW o, NEW t \in Nat, now <= t, now' = t,
         RootOp(o, t), op' = [op EXCEPT ![w] = o],
         \/ head' = head
         \/ \E d \in Dataset : \E c : /\ head' = [head EXCEPT ![d] = c]
                                      /\ d = Root => RootChain(c, t)
  PROVE  RootInv'
<1>1. DOMAIN head = Dataset /\ DOMAIN op = Workers /\ Root \in Dataset /\ now \in Nat
  BY ByParts DEF Dataset
<1>2. ASSUME NEW v \in Workers PROVE RootOp(op'[v], t)
  <2>1. op'[v] = IF v = w THEN o ELSE op[v]
    BY <1>1
  <2>2. RootOp(op[v], t)
    <3>1. OpInv(op[v]) /\ RootOp(op[v], now)
      BY Parts DEF RootInv
    <3>2. QED  BY <1>1, <3>1, RootLater
  <2>3. QED  BY <2>1, <2>2
<1>3. RootChain(head[Root], t)
  <2>1. IsChain(head[Root], Recorded) /\ RootChain(head[Root], now)
    BY <1>1, Parts DEF RootInv, HeadInv, Chain
  <2>2. QED  BY <1>1, <2>1, RootLater
<1>4. RootChain(head'[Root], t)
  <2>1. CASE head' = head
    BY <1>3, <2>1
  <2>2. CASE \E d \in Dataset : \E c : /\ head' = [head EXCEPT ![d] = c]
                                       /\ d = Root => RootChain(c, t)
    <3>1. PICK d \in Dataset : \E c : /\ head' = [head EXCEPT ![d] = c]
                                      /\ d = Root => RootChain(c, t)
      BY <2>2
    <3>2. PICK c : head' = [head EXCEPT ![d] = c] /\ (d = Root => RootChain(c, t))
      BY <3>1
    <3>3. head'[Root] = IF Root = d THEN c ELSE head[Root]
      BY <1>1, <3>2
    <3>4. QED  BY <1>3, <3>2, <3>3
  <2>3. QED  BY <2>1, <2>2
<1>5. QED  BY <1>2, <1>4 DEF RootInv, RootOp, RootChain, RootBlocks, ValidChain


\* An ancestor of a chain of a root dataset is one.
LEMMA RootPrefix ==
  ASSUME NEW c, IsChain(c, Recorded), NEW t, RootChain(c, t), NEW n \in 0..Len(c), NEW a,
         a = SubSeq(c, 1, n)
  PROVE  RootChain(a, t)
<1>1. Len(c) \in Nat
  BY ChainIsSeq
<1>2. IsChain(a, Recorded) /\ Len(a) = n /\ \A i \in 1..n : a[i] = c[i]
  BY ChainPrefix
<1>3. \A i \in 1..n : i \in 1..Len(c)
  BY <1>1
<1>4. \A i \in 1..Len(a) : RootEvent(a[i]) /\ a[i].time <= t
  BY <1>2, <1>3 DEF RootChain
<1>5. ASSUME NEW i \in 2..Len(a) PROVE ValidBlock(SubSeq(a, 1, i - 1), a[i])
  <2>1. /\ i \in 2..Len(c) /\ i \in 1..n /\ i - 1 \in 0..Len(a) /\ i - 1 \in 0..Len(c)
        /\ \A j \in 1..(i - 1) : j \in 1..n
    BY <1>1, <1>2
  <2>2. PICK m : m = i - 1 /\ m \in 0..Len(a) /\ m \in 0..Len(c)
    BY <2>1
  <2>3. PICK x, y : x = SubSeq(a, 1, m) /\ y = SubSeq(c, 1, m)
    OBVIOUS
  <2>4. IsChain(x, Recorded) /\ Len(x) = m /\ \A j \in 1..m : x[j] = a[j]
    <3>1. IsChain(a, Recorded) /\ m \in 0..Len(a)
      BY <1>2, <2>2
    <3>2. QED  BY <2>3, <3>1, ChainPrefix
  <2>5. IsChain(y, Recorded) /\ Len(y) = m /\ \A j \in 1..m : y[j] = c[j]
    BY <2>2, <2>3, ChainPrefix
  <2>6. \A j \in 1..m : x[j] = y[j]
    BY <1>2, <2>1, <2>2, <2>4, <2>5
  <2>7. x = y
    BY <2>4, <2>5, <2>6, ChainsEqual
  <2>8. ValidBlock(y, c[i])
    BY <2>1, <2>2, <2>3 DEF RootChain, ValidChain
  <2>9. QED  BY <1>2, <2>1, <2>2, <2>3, <2>7, <2>8
<1>6. QED  BY <1>4, <1>5 DEF RootChain, ValidChain

\* One block more that append accepts.
LEMMA RootAppend ==
  ASSUME NEW c, IsChain(c, Recorded), NEW t, RootChain(c, t), NEW b, IsBlock(b, Recorded),
         RootEvent(b), b.time <= t, ValidBlock(c, b), NEW a, a = Append(c, b)
  PROVE  RootChain(a, t)
<1>1. PICK N \in Nat : N = Len(c)
  BY ChainIsSeq
<1>2. IsChain(a, Recorded) /\ Len(a) = N + 1 /\ a[N + 1] = b /\ \A i \in 1..N : a[i] = c[i]
  BY <1>1, ChainAppend
<1>3. ASSUME NEW i \in 1..Len(a) PROVE i = N + 1 \/ i \in 1..N
  BY <1>1, <1>2
<1>4. ASSUME NEW i \in 1..Len(a) PROVE RootEvent(a[i]) /\ a[i].time <= t
  <2>1. CASE i = N + 1
    BY <1>2, <2>1
  <2>2. CASE i \in 1..N
    BY <1>1, <1>2, <2>2 DEF RootChain
  <2>3. QED  BY <1>3, <2>1, <2>2
<1>5. ASSUME NEW i \in 2..Len(a) PROVE ValidBlock(SubSeq(a, 1, i - 1), a[i])
  <2>1. /\ i \in 1..Len(a) /\ i - 1 \in 0..Len(a) /\ i - 1 \in 0..Len(c)
        /\ \A j \in 1..(i - 1) : j \in 1..N
    BY <1>1, <1>2
  <2>2. PICK m : m = i - 1 /\ m \in 0..Len(a) /\ m \in 0..Len(c)
    BY <2>1
  <2>3. PICK x, y : x = SubSeq(a, 1, m) /\ y = SubSeq(c, 1, m)
    OBVIOUS
  <2>4. IsChain(x, Recorded) /\ Len(x) = m /\ \A j \in 1..m : x[j] = a[j]
    <3>1. IsChain(a, Recorded) /\ m \in 0..Len(a)
      BY <1>2, <2>2
    <3>2. QED  BY <2>3, <3>1, ChainPrefix
  <2>5. IsChain(y, Recorded) /\ Len(y) = m /\ \A j \in 1..m : y[j] = c[j]
    BY <2>2, <2>3, ChainPrefix
  <2>6. \A j \in 1..m : x[j] = y[j]
    BY <1>2, <2>1, <2>2, <2>4, <2>5
  <2>7. x = y
    BY <2>4, <2>5, <2>6, ChainsEqual
  <2>8. CASE i = N + 1
    <3>1. PICK S : c \in Seq(S)
      BY ChainIsSeq
    <3>2. SubSeq(c, 1, Len(c)) = c
      BY <3>1, SubSeqFull
    <3>3. m = Len(c)
      BY <1>1, <2>2, <2>8
    <3>4. x = c
      BY <2>3, <2>7, <3>2, <3>3
    <3>5. QED  BY <1>2, <2>2, <2>3, <2>8, <3>4
  <2>9. CASE i \in 1..N
    <3>1. i \in 2..Len(c)
      BY <1>1, <2>9
    <3>2. ValidBlock(y, c[i])
      BY <2>2, <2>3, <3>1 DEF RootChain, ValidChain
    <3>3. QED  BY <1>2, <2>2, <2>3, <2>7, <2>9, <3>2
  <2>10. QED  BY <1>3, <2>1, <2>8, <2>9
<1>6. QED  BY <1>4, <1>5 DEF RootChain, ValidChain

\* What is left of the blocks to commit.
LEMMA RootTail ==
  ASSUME NEW e, IsChain(e, Recorded), e # <<>>, NEW t, RootBlocks(e, t)
  PROVE  RootEvent(e[1]) /\ e[1].time <= t /\ RootBlocks(Tail(e), t)
<1>1. PICK R : e \in Seq(R)
  BY ChainIsSeq
<1>2. Len(e) \in Nat /\ Len(e) # 0
  BY <1>1
<1>3. PICK r : r = Tail(e)
  OBVIOUS
<1>4. Len(r) = Len(e) - 1 /\ \A i \in 1..Len(r) : r[i] = e[i + 1]
  BY <1>1, <1>3, HeadTailProperties
<1>5. ASSUME NEW i \in 1..Len(r) PROVE RootEvent(r[i]) /\ r[i].time <= t
  <2>1. i + 1 \in 1..Len(e)
    BY <1>2, <1>4
  <2>2. QED  BY <1>4, <2>1 DEF RootBlocks
<1>6. 1 \in 1..Len(e)
  BY <1>2
<1>7. RootEvent(e[1]) /\ e[1].time <= t
  BY <1>6 DEF RootBlocks
<1>8. QED  BY <1>3, <1>5, <1>7 DEF RootBlocks

\* Compaction keeps a chain of a root dataset one.
LEMMA RootCompaction ==
  ASSUME ChainInv, RootInv, NEW w \in Workers, NEW d \in Dataset, NEW keep,
         Everything(keep) \/ OnlyMetadata(keep), NEW then \in {Idle, TransformAgain},
         StartCompaction(w, d, keep, then)
  PROVE  RootInv'
<1>1. PICK t : t = now + 1
  OBVIOUS
<1>2. PICK c, n : c = head[d] /\ n = Compacted(c, keep, t)
  OBVIOUS
<1>3. PICK o : o = IF ~NothingToDo(c, keep) /\ CompactionAccepted(c, keep, t)
                   THEN Rewrite(d, n, then) ELSE Idle
  OBVIOUS
<1>4. op' = [op EXCEPT ![w] = o] /\ head' = head /\ now' = t
  BY <1>1, <1>2, <1>3 DEF StartCompaction, Tick
<1>5. t \in Nat /\ now \in Nat /\ now <= t /\ HeadInv(c)
  BY <1>1, <1>2, Parts
<1>6. ASSUME CompactionAccepted(c, keep, t), d = Root PROVE RootChain(n, t)
  <2>1. RootChain(c, t)
    <3>1. IsChain(c, Recorded) /\ RootChain(c, now)
      BY <1>2, <1>5, <1>6 DEF RootInv, HeadInv, Chain
    <3>2. QED  BY <1>5, <3>1, RootLater
  <2>2. QED  BY <1>2, <1>5, <1>6, <2>1, CompactedRoot
<1>7. RootOp(o, t)
  <2>1. CASE ~NothingToDo(c, keep) /\ CompactionAccepted(c, keep, t)
    <3>1. RootOp(Rewrite(d, n, then), t)
      BY <1>6, <2>1, RootOps
    <3>2. QED  BY <1>3, <2>1, <3>1
  <2>2. CASE ~(~NothingToDo(c, keep) /\ CompactionAccepted(c, keep, t))
    BY <1>3, <2>2, RootOps
  <2>3. QED  BY <2>1, <2>2
<1>8. QED  BY <1>4, <1>5, <1>7, RootStep

\* A transform does not write the root dataset.
LEMMA RootTransform ==
  ASSUME ChainInv, RootInv, NEW w \in Workers, NEW reset, TransformImpl(w, reset)
  PROVE  RootInv'
<1>1. PICK c, u : c = head[Derived] /\ u = head[Root]
  OBVIOUS
<1>2. CASE NextTransform(c, u) = "InvalidInterval" /\ reset
  <2>1. PICK keep : OnlyMetadata(keep) /\ StartCompaction(w, Derived, keep, TransformAgain)
    BY <1>1, <1>2 DEF TransformImpl, OnlyMetadata
  <2>2. Derived \in Dataset
    BY Parts
  <2>3. QED  BY <2>1, <2>2, RootCompaction
<1>3. CASE ~(NextTransform(c, u) = "InvalidInterval" /\ reset)
  <2>1. PICK events : events = TransformEvents(c, u, now)
    OBVIOUS
  <2>2. PICK o : o = IF NextTransform(c, u) = "Updated" THEN Commit(Derived, c, events) ELSE Idle
    OBVIOUS
  <2>3. op' = [op EXCEPT ![w] = o] /\ head' = head /\ now' = now
    BY <1>1, <1>3, <2>1, <2>2 DEF TransformImpl
  <2>4. PICK t \in Nat : t = now
    BY Parts
  <2>5. RootOp(o, t)
    BY <2>2, RootOps
  <2>6. now <= t /\ now' = t
    BY <2>3, <2>4
  <2>7. QED  BY <2>3, <2>5, <2>6, RootStep
<1>4. QED  BY <1>2, <1>3


\* The writer's events have no checkpoints, and the time of the operation.
LEMMA NextAddDataIsRoot ==
  ASSUME NEW c, IsChain(c, Recorded), \A i \in 1..Len(c) : RootEvent(c[i]), NEW t \in Nat
  PROVE  /\ NextAddData(c, t) \in Blocks(Recorded, {NoInput})
         /\ RootEvent(NextAddData(c, t)) /\ NextAddData(c, t).time = t
<1>1. PICK e : e = NextAddData(c, t)
  OBVIOUS
<1>2. e \in Blocks(Recorded, {NoInput}) /\ e.type = "AddData"
  BY <1>1, NextAddDataFacts
<1>3. PICK prev : prev = LastEvent(c, "AddData") /\ prev.newCheckpoint = 0
  BY NoCheckpoint
<1>4. PICK b \in Blocks(Recorded, {NoInput}) : b = Block("AddData", t)
  <2>1. "AddData" \in BlockTypes
    BY DEF BlockTypes
  <2>2. QED  BY <2>1, BareBlock
<1>5. b.newCheckpoint = 0 /\ b.time = t
  BY <1>4 DEF Block
<1>6. PICK x, y : x = LastOffset(prev) /\ y = prev.watermark
  OBVIOUS
<1>7. e = [b EXCEPT !.prevOffset = x, !.prevCheckpoint = 0, !.watermark = y]
  BY <1>1, <1>3, <1>4, <1>6 DEF NextAddData
<1>8. e.prevCheckpoint = 0 /\ e.newCheckpoint = 0 /\ e.time = t
  BY <1>5, <1>7 DEF Blocks
<1>9. QED  BY <1>1, <1>2, <1>8 DEF RootEvent, RootTypes

\* A new block with nothing but its type.
LEMMA BareIsRoot ==
  ASSUME NEW x \in RootTypes, NEW t
  PROVE  RootEvent(Block(x, t)) /\ Block(x, t).time = t
<1>1. PICK b : b = Block(x, t)
  OBVIOUS
<1>2. b.type = x /\ b.prevCheckpoint = 0 /\ b.newCheckpoint = 0 /\ b.time = t
  BY <1>1 DEF Block
<1>3. QED  BY <1>1, <1>2 DEF RootEvent

\* One block alone.
LEMMA RootOne ==
  ASSUME NEW b, RootEvent(b), NEW t \in Nat, b.time = t
  PROVE  RootBlocks(<<b>>, t)
<1>1. PICK s : s = <<b>>
  OBVIOUS
<1>2. Len(s) = 1 /\ s[1] = b /\ t <= t
  BY <1>1
<1>3. \A i \in 1..Len(s) : s[i] = b
  BY <1>2
<1>4. RootBlocks(s, t)
  BY <1>2, <1>3 DEF RootBlocks
<1>5. QED  BY <1>1, <1>4

\* What ingest commits.
LEMMA StagedIsRoot ==
  ASSUME NEW c, IsChain(c, Recorded), \A i \in 1..Len(c) : RootEvent(c[i]),
         NEW records \in Seq(Recorded), NEW latest \in Nat, NEW newState \in Nat, NEW t \in Nat
  PROVE  RootBlocks(stage(c, records, latest, newState, t), t)
<1>1. PICK prev : prev = LastEvent(c, "AddData")
  OBVIOUS
<1>2. PICK e0 \in Blocks(Recorded, {NoInput}) :
        e0 = NextAddData(c, t) /\ RootEvent(e0) /\ e0.time = t
  BY NextAddDataIsRoot
<1>3. PICK event \in Blocks(Recorded, {NoInput}) :
        event = [e0 EXCEPT !.sourceState = newState] /\ RootEvent(event) /\ event.time = t
  <2>1. PICK e : e = [e0 EXCEPT !.sourceState = newState]
    OBVIOUS
  <2>2. e \in Blocks(Recorded, {NoInput})
    BY <2>1 DEF Blocks
  <2>3. e.type = e0.type /\ e.prevCheckpoint = e0.prevCheckpoint
        /\ e.newCheckpoint = e0.newCheckpoint /\ e.time = e0.time
    BY <2>1 DEF Blocks
  <2>4. RootEvent(e) /\ e.time = t
    BY <1>2, <2>3 DEF RootEvent
  <2>5. QED  BY <2>1, <2>2, <2>4
<1>4. PICK w : w = IF event.watermark < latest THEN latest ELSE event.watermark
  OBVIOUS
<1>5. PICK x : x = LastOffset(prev) + 1
  OBVIOUS
<1>6. PICK data : data = [event EXCEPT !.start = x, !.data = records, !.watermark = w]
  OBVIOUS
<1>7. RootEvent(data) /\ data.time = t
  <2>1. data.type = event.type /\ data.prevCheckpoint = event.prevCheckpoint
        /\ data.newCheckpoint = event.newCheckpoint /\ data.time = event.time
    BY <1>6 DEF Blocks
  <2>2. QED  BY <1>3, <2>1 DEF RootEvent
<1>8. PICK evts : evts = CASE records # <<>> -> <<data>>
                           [] records = <<>> /\ newState # prev.sourceState -> <<event>>
                           [] OTHER -> <<>>
  OBVIOUS
<1>9. stage(c, records, latest, newState, t) = WithSchema(c, t, evts)
  BY <1>1, <1>2, <1>3, <1>4, <1>5, <1>6, <1>8 DEF stage
<1>10. evts \in {<<data>>, <<event>>, <<>>}
  BY <1>8
<1>11. PICK S : evts \in Seq(S)
  <2>1. PICK S : S = {data, event}
    OBVIOUS
  <2>2. <<data>> \in Seq(S) /\ <<event>> \in Seq(S) /\ <<>> \in Seq(S)
    BY <2>1
  <2>3. evts \in Seq(S)
    BY <1>10, <2>2
  <2>4. QED  BY <2>3
<1>12. RootBlocks(evts, t)
  <2>1. RootBlocks(<<data>>, t) /\ RootBlocks(<<event>>, t)
    BY <1>3, <1>7, RootOne
  <2>2. RootBlocks(<<>>, t)
    <3>1. Len(<<>>) = 0 /\ 1..0 = {}
      OBVIOUS
    <3>2. QED  BY <3>1 DEF RootBlocks
  <2>3. QED  BY <1>10, <2>1, <2>2
<1>13. CASE Has(c, "SetDataSchema")
  <2>1. WithSchema(c, t, evts) = <<>> \o evts
    BY <1>13 DEF WithSchema
  <2>2. <<>> \o evts = evts
    BY <1>11, ConcatEmptySeq
  <2>3. QED  BY <1>9, <1>12, <2>1, <2>2
<1>14. CASE ~Has(c, "SetDataSchema")
  <2>1. PICK b : b = Block("SetDataSchema", t)
    OBVIOUS
  <2>2. "SetDataSchema" \in RootTypes
    BY DEF RootTypes
  <2>3. RootEvent(b) /\ b.time = t /\ t <= t
    BY <2>1, <2>2, BareIsRoot
  <2>4. PICK a, T : a = <<b>> /\ T = S \cup {b}
    OBVIOUS
  <2>5. a \in Seq(T) /\ Len(a) = 1 /\ a[1] = b /\ evts \in Seq(T) /\ Len(evts) \in Nat
    BY <1>11, <2>4
  <2>6. PICK r : r = a \o evts
    OBVIOUS
  <2>7. /\ Len(r) = Len(a) + Len(evts)
        /\ \A i \in 1..(Len(a) + Len(evts)) :
             r[i] = IF i <= Len(a) THEN a[i] ELSE evts[i - Len(a)]
    BY <2>5, <2>6, ConcatProperties
  <2>8. ASSUME NEW i \in 1..Len(r) PROVE RootEvent(r[i]) /\ r[i].time <= t
    <3>1. r[i] = IF i <= 1 THEN a[i] ELSE evts[i - 1]
      BY <2>5, <2>7
    <3>2. i = 1 \/ (~(i <= 1) /\ i - 1 \in 1..Len(evts))
      BY <2>5, <2>7
    <3>3. CASE i = 1
      <4>1. r[i] = b
        BY <2>5, <3>1, <3>3
      <4>2. QED  BY <2>3, <4>1
    <3>4. CASE ~(i <= 1) /\ i - 1 \in 1..Len(evts)
      <4>1. RootEvent(evts[i - 1]) /\ evts[i - 1].time <= t
        BY <1>12, <3>4 DEF RootBlocks
      <4>2. QED  BY <3>1, <3>4, <4>1
    <3>5. QED  BY <3>2, <3>3, <3>4
  <2>9. WithSchema(c, t, evts) = r
    BY <1>14, <2>1, <2>4, <2>6 DEF WithSchema
  <2>10. RootBlocks(r, t)
    BY <2>8 DEF RootBlocks
  <2>11. QED  BY <1>9, <2>9, <2>10
<1>15. QED  BY <1>13, <1>14

\* What users may send.
LEMMA UserEventIsRoot ==
  ASSUME NEW t \in Nat, NEW e \in UserEvents(t)
  PROVE  RootEvent(e) /\ e.time = t
<1>1. CASE e \in {Block(x, t) : x \in {"Seed", "SetInfo", "AddPushSource", "SetPollingSource"}}
  <2>1. PICK x \in {"Seed", "SetInfo", "AddPushSource", "SetPollingSource"} : e = Block(x, t)
    BY <1>1
  <2>2. x \in RootTypes
    BY <2>1 DEF RootTypes
  <2>3. QED  BY <2>1, <2>2, BareIsRoot
<1>2. ASSUME NEW a \in [prevOffset : -1..0, start : 0..1, data : Objects(Root),
                        watermark : {0, t}],
             e = [Block("AddData", t) EXCEPT !.prevOffset = a.prevOffset, !.start = a.start,
                                             !.data = a.data, !.watermark = a.watermark]
      PROVE  RootEvent(e) /\ e.time = t
  <2>1. PICK b \in Blocks(Recorded, {NoInput}) : b = Block("AddData", t)
    <3>1. "AddData" \in BlockTypes
      BY DEF BlockTypes
    <3>2. QED  BY <3>1, BareBlock
  <2>2. "AddData" \in RootTypes
    BY DEF RootTypes
  <2>3. RootEvent(b) /\ b.time = t
    BY <2>1, <2>2, BareIsRoot
  <2>4. PICK p, s, x, m : e = [b EXCEPT !.prevOffset = p, !.start = s, !.data = x, !.watermark = m]
    BY <1>2, <2>1
  <2>5. e.type = b.type /\ e.prevCheckpoint = b.prevCheckpoint
        /\ e.newCheckpoint = b.newCheckpoint /\ e.time = b.time
    BY <2>4 DEF Blocks
  <2>6. QED  BY <2>3, <2>5 DEF RootEvent
<1>3. \/ e \in {Block(x, t) : x \in {"Seed", "SetInfo", "AddPushSource", "SetPollingSource"}}
      \/ \E a \in [prevOffset : -1..0, start : 0..1, data : Objects(Root), watermark : {0, t}] :
           e = [Block("AddData", t) EXCEPT !.prevOffset = a.prevOffset, !.start = a.start,
                                           !.data = a.data, !.watermark = a.watermark]
  BY DEF UserEvents
<1>4. QED  BY <1>1, <1>2, <1>3


\* The steps of a started operation.
LEMMA RootSteps ==
  ASSUME ChainInv, RootInv, NEW w \in Workers, Steps(w)
  PROVE  RootInv'
<1>1. PICK o : o = op[w]
  OBVIOUS
<1>2. PICK t \in Nat : t = now
  BY Parts
<1>3. OpInv(o) /\ RootOp(o, t) /\ now <= t
  BY <1>1, <1>2, Parts DEF RootInv
<1>4. CASE WriteSummary(w)
  <2>1. op' = [op EXCEPT ![w] = Idle] /\ head' = head /\ now' = t
    BY <1>2, <1>4 DEF WriteSummary
  <2>2. QED  BY <1>3, <2>1, RootOps, RootStep
<1>5. CASE CheckAppend(w)
  <2>1. PICK p : p = IF ValidBlock(o.base, o.events[1]) /\ head[o.ds] = o.base
                     THEN Committing("append", o.ds, o.begin, o.base, o.events) ELSE Idle
    OBVIOUS
  <2>2. o.kind = "commit" /\ op' = [op EXCEPT ![w] = p] /\ head' = head /\ now' = t
    BY <1>1, <1>2, <1>5, <2>1 DEF CheckAppend
  <2>3. o.ds = Root => RootChain(o.base, t) /\ RootBlocks(o.events, t)
    BY <1>3, <2>2 DEF RootOp
  <2>4. RootOp(p, t)
    <3>1. RootOp(Committing("append", o.ds, o.begin, o.base, o.events), t)
      BY <2>3, RootOps
    <3>2. QED  BY <2>1, <3>1, RootOps
  <2>5. QED  BY <1>3, <2>2, <2>4, RootStep
<1>6. CASE InsertBlock(w)
  <2>1. PICK c, rest : c = Append(o.base, o.events[1]) /\ rest = Tail(o.events)
    OBVIOUS
  <2>2. PICK p : p = IF Len(o.events) = 1 THEN Idle
                     ELSE Committing("commit", o.ds, o.begin, c, rest)
    OBVIOUS
  <2>3. /\ o.kind = "append" /\ op' = [op EXCEPT ![w] = p]
        /\ head' = [head EXCEPT ![o.ds] = c] /\ now' = t
    BY <1>1, <1>2, <1>6, <2>1, <2>2 DEF InsertBlock
  <2>4. PICK base, events, b : base = o.base /\ events = o.events /\ b = events[1]
    OBVIOUS
  <2>5. /\ o.ds \in Dataset /\ HeadInv(base) /\ Chain(events) /\ IsBlock(b, Recorded)
        /\ ValidBlock(base, b)
    BY <1>3, <2>3, <2>4, CommittingParts
  <2>6. IsChain(base, Recorded) /\ IsChain(events, Recorded) /\ events # <<>>
    BY <2>5 DEF HeadInv, Chain
  <2>7. ASSUME o.ds = Root PROVE RootChain(c, t) /\ RootBlocks(rest, t)
    <3>1. RootChain(base, t) /\ RootBlocks(events, t)
      BY <1>3, <2>3, <2>4, <2>7 DEF RootOp
    <3>2. RootEvent(b) /\ b.time <= t /\ RootBlocks(rest, t)
      BY <2>1, <2>4, <2>6, <3>1, RootTail
    <3>3. c = Append(base, b)
      BY <2>1, <2>4
    <3>4. QED  BY <2>5, <2>6, <3>1, <3>2, <3>3, RootAppend
  <2>8. RootOp(p, t)
    <3>1. RootOp(Committing("commit", o.ds, o.begin, c, rest), t)
      BY <2>7, RootOps
    <3>2. QED  BY <2>2, <3>1, RootOps
  <2>9. QED  BY <1>3, <2>3, <2>5, <2>7, <2>8, RootStep
<1>7. CASE SetRef(w)
  <2>1. /\ o.kind = "rewrite" /\ op' = [op EXCEPT ![w] = o.then]
        /\ head' = [head EXCEPT ![o.ds] = o.target] /\ now' = t
    BY <1>1, <1>2, <1>7 DEF SetRef
  <2>2. o.ds \in Dataset /\ o.then \in {Idle, TransformAgain}
    <3>1. o \notin {Idle, TransformAgain}
      BY <2>1 DEF Idle, TransformAgain
    <3>2. QED  BY <1>3, <2>1, <3>1 DEF OpInv, OpOK
  <2>3. o.ds = Root => RootChain(o.target, t)
    BY <1>3, <2>1 DEF RootOp
  <2>4. RootOp(o.then, t)
    BY <2>2, RootOps
  <2>5. QED  BY <1>3, <2>1, <2>2, <2>3, <2>4, RootStep
<1>8. CASE ResumeTransform(w)
  BY <1>8, RootTransform DEF ResumeTransform
<1>9. QED  BY <1>4, <1>5, <1>6, <1>7, <1>8 DEF Steps

\* Operations that start, and the stop of a process.
LEMMA RootStart ==
  ASSUME ChainInv, RootInv, NEW w \in Workers, NEW o, NEW t \in Nat, t = now + 1,
         RootOp(o, t), op' = [op EXCEPT ![w] = o], head' = head, Tick
  PROVE  RootInv'
<1>1. now' = t /\ now <= t
  BY Parts DEF Tick
<1>2. QED  BY <1>1, RootStep

\* An operation that begins to commit events on the root dataset.
LEMMA RootCommit ==
  ASSUME ChainInv, RootInv, NEW w \in Workers, NEW t \in Nat, t = now + 1,
         NEW c, c = head[Root], NEW events, RootBlocks(events, t),
         op' = [op EXCEPT ![w] = Commit(Root, c, events)], head' = head, Tick
  PROVE  RootInv'
<1>1. now \in Nat /\ now <= t
  BY Parts
<1>2. RootChain(c, t)
  <2>1. IsChain(c, Recorded) /\ RootChain(c, now)
    BY Parts DEF RootInv, HeadInv, Chain
  <2>2. QED  BY <1>1, <2>1, RootLater
<1>3. PICK o : o = Commit(Root, c, events)
  OBVIOUS
<1>4. RootOp(o, t)
  <2>1. o = Committing("commit", Root, c, c, events)
    BY <1>3 DEF Commit
  <2>2. QED  BY <1>2, <2>1, RootOps
<1>5. QED  BY <1>3, <1>4, RootStart

\* Ingest.
LEMMA RootIngest ==
  ASSUME ChainInv, RootInv, NEW w \in Workers, NEW n \in 0..1, NEW s \in {0, now + 1},
         Ingest(w, n, s)
  PROVE  RootInv'
<1>1. PICK t \in Nat : t = now + 1
  BY Parts
<1>2. PICK c : c = head[Root]
  OBVIOUS
<1>3. PICK events : events = StagedEvents(c, n, s, t)
  OBVIOUS
<1>4. op' = [op EXCEPT ![w] = Commit(Root, c, events)] /\ head' = head /\ Tick
  BY <1>1, <1>2, <1>3 DEF Ingest
<1>5. PICK records \in Seq(Recorded) : records = NewRecords(n, t)
  <2>1. \A i \in 1..n : <<t, i>> \in Recorded
    BY DEF Recorded
  <2>2. n \in Nat
    OBVIOUS
  <2>3. PICK r : r = NewRecords(n, t)
    OBVIOUS
  <2>4. r = [i \in 1..n |-> <<t, i>>]
    BY <2>3 DEF NewRecords
  <2>5. r \in Seq(Recorded)
    BY <2>1, <2>2, <2>4
  <2>6. QED  BY <2>3, <2>5
<1>6. events = stage(c, records, t, s, t)
  BY <1>3, <1>5 DEF StagedEvents
<1>7. s \in Nat
  BY <1>1
<1>8. IsChain(c, Recorded) /\ \A i \in 1..Len(c) : RootEvent(c[i])
  <2>1. HeadInv(c) /\ RootChain(c, now)
    BY <1>2, Parts DEF RootInv
  <2>2. QED  BY <2>1 DEF HeadInv, Chain, RootChain
<1>9. RootBlocks(events, t)
  BY <1>6, <1>7, <1>8, StagedIsRoot
<1>10. QED  BY <1>1, <1>2, <1>4, <1>9, RootCommit

\* A manual watermark.
LEMMA RootWatermark ==
  ASSUME ChainInv, RootInv, NEW w \in Workers, SetWatermark(w)
  PROVE  RootInv'
<1>1. PICK t \in Nat : t = now + 1
  BY Parts
<1>2. PICK c : c = head[Root]
  OBVIOUS
<1>3. IsChain(c, Recorded) /\ \A i \in 1..Len(c) : RootEvent(c[i])
  <2>1. HeadInv(c) /\ RootChain(c, now)
    BY <1>2, Parts DEF RootInv
  <2>2. QED  BY <2>1 DEF HeadInv, Chain, RootChain
<1>4. PICK e \in Blocks(Recorded, {NoInput}) :
        e = NextAddData(c, t) /\ RootEvent(e) /\ e.time = t
  BY <1>3, NextAddDataIsRoot
<1>5. PICK b, events : b = [e EXCEPT !.watermark = t] /\ events = <<b>>
  OBVIOUS
<1>6. b.type = e.type /\ b.prevCheckpoint = e.prevCheckpoint
      /\ b.newCheckpoint = e.newCheckpoint /\ b.time = e.time
  BY <1>5 DEF Blocks
<1>7. RootEvent(b) /\ b.time = t
  BY <1>4, <1>6 DEF RootEvent
<1>8. RootBlocks(events, t)
  BY <1>5, <1>7, RootOne
<1>9. op' = [op EXCEPT ![w] = Commit(Root, c, events)] /\ head' = head /\ Tick
  BY <1>1, <1>2, <1>4, <1>5 DEF SetWatermark
<1>10. QED  BY <1>1, <1>2, <1>8, <1>9, RootCommit

\* Every step keeps the invariant.
LEMMA RootNext == ChainInv /\ RootInv /\ [Next]_vars => RootInv'
<1> SUFFICES ASSUME ChainInv, RootInv, [Next]_vars PROVE RootInv'
  OBVIOUS
<1>1. CASE UNCHANGED vars
  BY <1>1 DEF vars, RootInv, RootOp, RootChain, RootBlocks, ValidChain
<1>2. PICK t \in Nat : t = now + 1
  BY Parts
<1>3. ASSUME NEW w \in Workers, Crash(w) PROVE RootInv'
  <2>1. op' = [op EXCEPT ![w] = Idle] /\ head' = head /\ Tick
    BY <1>3 DEF Crash
  <2>2. QED  BY <1>2, <2>1, RootOps, RootStart
<1>4. ASSUME NEW w \in Workers, CommitEvent(w) PROVE RootInv'
  <2>1. PICK c : c = head[Root]
    OBVIOUS
  <2>2. PICK e \in UserEvents(t) : op' = [op EXCEPT ![w] = Commit(Root, c, <<e>>)]
    BY <1>2, <1>4, <2>1 DEF CommitEvent
  <2>3. PICK events : events = <<e>>
    OBVIOUS
  <2>4. RootEvent(e) /\ e.time = t
    BY UserEventIsRoot
  <2>5. RootBlocks(events, t)
    BY <2>3, <2>4, RootOne
  <2>6. head' = head /\ Tick
    BY <1>4 DEF CommitEvent
  <2>7. QED  BY <1>2, <2>1, <2>2, <2>3, <2>5, <2>6, RootCommit
<1>5. ASSUME NEW w \in Workers, Transform(w) PROVE RootInv'
  BY <1>5, RootTransform DEF Transform
<1>6. ASSUME NEW w \in Workers, NEW d \in Dataset, GetSummary(w, d) PROVE RootInv'
  <2>1. PICK new : new = UpdatedSummary(summary[d], head[d])
    OBVIOUS
  <2>2. PICK o : o = [kind |-> "summary", ds |-> d, new |-> new]
    OBVIOUS
  <2>3. op' = [op EXCEPT ![w] = o] /\ head' = head /\ Tick
    BY <1>6, <2>1, <2>2 DEF GetSummary
  <2>4. RootOp(o, t)
    BY <2>2, RootOps
  <2>5. QED  BY <1>2, <2>3, <2>4, RootStart
<1>7. ASSUME NEW w \in Workers, NEW d \in Dataset, NEW k \in BOOLEAN, Compact(w, d, k)
      PROVE  RootInv'
  <2>1. PICK then \in {Idle, TransformAgain} : StartCompaction(w, d, k, then)
    BY <1>7 DEF Compact
  <2>2. Everything(k) \/ OnlyMetadata(k)
    BY Zenon DEF Everything, OnlyMetadata
  <2>3. QED  BY <2>1, <2>2, RootCompaction
<1>8. ASSUME NEW w \in Workers, NEW d \in Dataset, NEW i \in 1..(Len(head[d]) - 1),
             Reset(w, d, i)
      PROVE  RootInv'
  <2>1. PICK c, a : c = head[d] /\ a = SubSeq(c, 1, i)
    OBVIOUS
  <2>2. PICK o : o = Rewrite(d, a, Idle)
    OBVIOUS
  <2>3. op' = [op EXCEPT ![w] = o] /\ head' = head /\ Tick
    BY <1>8, <2>1, <2>2 DEF Reset
  <2>4. IsChain(c, Recorded) /\ Len(c) \in Nat
    <3>1. HeadInv(c)
      BY <2>1, Parts
    <3>2. QED  BY <3>1, ChainIsSeq DEF HeadInv, Chain
  <2>5. i \in 0..Len(c)
    BY <2>1, <2>4
  <2>6. ASSUME d = Root PROVE RootChain(a, t)
    <3>1. now \in Nat /\ now <= t
      BY <1>2, Parts
    <3>2. RootChain(c, now)
      BY <2>1, <2>6 DEF RootInv
    <3>3. RootChain(c, t)
      BY <2>4, <3>1, <3>2, RootLater
    <3>4. QED  BY <2>1, <2>4, <2>5, <3>3, RootPrefix
  <2>7. RootOp(o, t)
    BY <2>2, <2>6, RootOps
  <2>8. QED  BY <1>2, <2>3, <2>7, RootStart
<1>9. QED
  BY <1>1, <1>3, <1>4, <1>5, <1>6, <1>7, <1>8, RootSteps, RootIngest, RootWatermark DEF Next

\* A root dataset is created with a Seed and a polling source.
LEMMA RootInit == Init => RootInv
<1> SUFFICES ASSUME Init PROVE RootInv
  OBVIOUS
<1>1. PICK a, b, c : a = Block("Seed", 0) /\ b = Block("SetPollingSource", 0) /\ c = <<a, b>>
  OBVIOUS
<1>2. head[Root] = c /\ now = 0
  BY <1>1 DEF Init, InitialChain, Dataset
<1>3. RootEvent(a) /\ RootEvent(b) /\ a.time = 0 /\ b.time = 0
  <2>1. "Seed" \in RootTypes /\ "SetPollingSource" \in RootTypes
    BY DEF RootTypes
  <2>2. QED  BY <1>1, <2>1, BareIsRoot
<1>4. Len(c) = 2 /\ c[1] = a /\ c[2] = b
  BY <1>1
<1>5. \A i \in 1..Len(c) : i = 1 \/ i = 2
  BY <1>4
<1>6. \A i \in 1..Len(c) : RootEvent(c[i]) /\ c[i].time <= 0
  BY <1>3, <1>4, <1>5
<1>7. PICK s : s = <<a>>
  OBVIOUS
<1>8. s # <<>> /\ Len(s) = 1 /\ s[1] = a /\ a.type = "Seed" /\ b.type = "SetPollingSource"
  BY <1>1, <1>7 DEF Block
<1>9. IsChain(s, Recorded)
  <2>1. "Seed" \in BlockTypes /\ 0 \in Nat
    BY DEF BlockTypes
  <2>2. IsBlock(a, Recorded)
    BY <1>1, <2>1, BareBlock, BlockOf
  <2>3. QED  BY <1>7, <2>2, OneBlock
<1>10. ~Has(s, "AddPushSource")
  <2>1. \A i \in 1..Len(s) : s[i].type # "AddPushSource"
    <3>1. \A i \in 1..Len(s) : i = 1
      BY <1>8
    <3>2. QED  BY <1>8, <3>1
  <2>2. QED  BY <1>9, <2>1, HasFacts
<1>11. ValidBlock(s, b)
  <2>1. ~IsData(b) /\ b.type \notin {"Seed", "ExecuteTransform", "AddData", "AddPushSource"}
    BY <1>8 DEF IsData
  <2>2. SeedBlockOrder(s, b) /\ SystemTimeIsMonotonic(s, b) /\ WatermarkIsMonotonic(s, b)
    <3>1. s[Len(s)].time <= b.time
      BY <1>3, <1>8
    <3>2. QED  BY <1>8, <2>1, <3>1 DEF SeedBlockOrder, SystemTimeIsMonotonic, WatermarkIsMonotonic
  <2>3. OffsetsAreSequential(s, b) /\ OneKindOfSource(s, b) /\ SchemaBeforeData(s, b)
    BY <1>10, <2>1 DEF OffsetsAreSequential, OneKindOfSource, SchemaBeforeData
  <2>4. CheckpointsAreLinked(s, b) /\ ValidExecuteTransform(s, b)
    BY <2>1 DEF CheckpointsAreLinked, ValidExecuteTransform
  <2>5. EventIsNotEmpty(b) /\ ~NoOpEvent(s, b)
    BY <2>1 DEF EventIsNotEmpty, NoOpEvent
  <2>6. QED  BY <2>2, <2>3, <2>4, <2>5 DEF ValidBlock, ConsistentBlock
<1>12. SubSeq(c, 1, 1) = s
  <2>1. HeadInv(c)
    BY <1>2, InitInv, Parts
  <2>2. IsChain(c, Recorded)
    BY <2>1 DEF HeadInv, Chain
  <2>3. PICK r : r = SubSeq(c, 1, 1)
    OBVIOUS
  <2>4. 1 \in 0..Len(c)
    BY <1>4
  <2>5. IsChain(r, Recorded) /\ Len(r) = 1 /\ \A i \in 1..1 : r[i] = c[i]
    BY <2>2, <2>3, <2>4, ChainPrefix
  <2>6. \A i \in 1..Len(r) : i = 1
    BY <2>5
  <2>7. \A i \in 1..Len(r) : r[i] = s[i]
    BY <1>4, <1>8, <2>5, <2>6
  <2>8. r = s
    BY <1>8, <1>9, <2>5, <2>7, ChainsEqual
  <2>9. QED  BY <2>3, <2>8
<1>13. ValidChain(c)
  <2>1. \A i \in 2..Len(c) : i = 2 /\ i - 1 = 1
    BY <1>4
  <2>2. \A i \in 2..Len(c) : SubSeq(c, 1, i - 1) = s /\ c[i] = b
    BY <1>4, <1>12, <2>1
  <2>3. QED  BY <1>11, <2>2 DEF ValidChain
<1>14. \A w \in Workers : op[w] = Idle
  BY DEF Init
<1>15. QED  BY <1>2, <1>6, <1>13, <1>14, RootOps DEF RootInv, RootChain

\* Compaction of a root dataset at any moment, for any number of workers and
\* whatever they and the users did before, is accepted by append block by block,
\* keeps every record at its offset, and leaves a chain in which nothing is left
\* to compact.  It needs that each block of the chain, and of those the workers
\* have in hand, was accepted on top of the ones before it, that the clock has
\* reached it, and that a root dataset has no checkpoints.
THEOREM CompactionIsLossless == Spec => []CompactionKeepsRecords
<1>1. ASSUME ChainInv, RootInv PROVE CompactionKeepsRecords
  <2>1. PICK c : c = head[Root]
    OBVIOUS
  <2>2. PICK t \in Nat : t = now
    BY <1>1, Parts
  <2>3. HeadInv(c) /\ RootChain(c, t)
    BY <1>1, <2>1, <2>2, Parts DEF RootInv
  <2>4. PICK keep : keep = FALSE
    OBVIOUS
  <2>5. Everything(keep)
    BY <2>4 DEF Everything
  <2>6. PICK new : new = Compacted(c, keep, t)
    OBVIOUS
  <2>7. CompactionAccepted(c, keep, t) /\ Records(new) = Records(c) /\ NothingToDo(new, keep)
    BY <2>3, <2>5, <2>6, CompactionFacts
  <2>8. /\ CompactionAccepted(c, FALSE, t) /\ Records(Compacted(c, FALSE, t)) = Records(c)
        /\ NothingToDo(Compacted(c, FALSE, t), FALSE)
    BY <2>4, <2>6, <2>7, Zenon
  <2>9. QED  BY <2>1, <2>2, <2>8 DEF CompactionKeepsRecords
<1>2. QED  BY <1>1, RootInit, RootNext, DatasetsInvariant, PTL DEF Spec

=============================================================================
