---------------------------- MODULE MergeProofs ----------------------------
(***************************************************************************)
(* Proofs about StreamMerge for every number of chunks, every size of a    *)
(* stage and any number of interrupted and repeated deliveries: the type   *)
(* invariant, what the checkpoint of a plain sequential merge guarantees,  *)
(* and that a merge that starts from nothing writes exactly the chunks it  *)
(* found, in order, also by the stages of a tree.                          *)
(***************************************************************************)
EXTENDS StreamMerge, FiniteSetTheorems, SequenceTheorems, TLAPS

-----------------------------------------------------------------------------
(* The order of a set of chunks                                            *)

\* How many members of S there are up to c.
Rank(S, c) == Cardinality({d \in S : d <= c})

\* A set of chunks is finite and has at most N members.
LEMMA ChunkSetFacts ==
    ASSUME NEW S \in SUBSET Chunk
    PROVE  /\ IsFiniteSet(S)
           /\ Cardinality(S) \in 0 .. N
<1> USE MergeAssumption DEF MergeAssumption
<1>1. IsFiniteSet(Chunk) /\ Cardinality(Chunk) = N
    BY FS_Interval DEF Chunk
<1>2. IsFiniteSet(S) /\ Cardinality(S) <= N
    BY <1>1, FS_Subset
<1>3. Cardinality(S) \in Nat
    BY <1>2, FS_CardinalityType
<1>4. QED
    BY <1>2, <1>3

\* The rank of a member is a position, and a larger member has a larger one.
LEMMA RankFacts ==
    ASSUME NEW S \in SUBSET Chunk
    PROVE  /\ \A c \in S : Rank(S, c) \in 1 .. Cardinality(S)
           /\ \A c, d \in S : c < d => Rank(S, c) < Rank(S, d)
<1> DEFINE Upto(c) == {d \in S : d <= c}
<1> \A c \in S : c \in Nat
    BY MergeAssumption DEF Chunk
<1>1. Cardinality(S) \in Nat
    BY ChunkSetFacts
<1>2. ASSUME NEW c \in S
      PROVE  /\ IsFiniteSet(Upto(c))
             /\ Cardinality(Upto(c)) \in 1 .. Cardinality(S)
    <2>1. IsFiniteSet(S)
        BY ChunkSetFacts
    <2>2. Upto(c) \in SUBSET S
        OBVIOUS
    <2>3. IsFiniteSet(Upto(c)) /\ Cardinality(Upto(c)) <= Cardinality(S)
        BY <2>1, <2>2, FS_Subset
    <2>4. Cardinality(Upto(c)) \in Nat
        BY <2>3, FS_CardinalityType
    <2>5. c \in Upto(c)
        OBVIOUS
    <2>6. Cardinality(Upto(c)) # 0
        BY <2>3, <2>5, FS_EmptySet
    <2>7. QED
        BY <1>1, <2>3, <2>4, <2>6
<1>3. ASSUME NEW c \in S, NEW d \in S, c < d
      PROVE  Cardinality(Upto(c)) < Cardinality(Upto(d))
    <2>1. Upto(c) \in SUBSET Upto(d)
        BY <1>3
    <2>2. d \in Upto(d) /\ d \notin Upto(c)
        BY <1>3
    <2>3. Cardinality(Upto(c)) <= Cardinality(Upto(d)) /\ Cardinality(Upto(c)) # Cardinality(Upto(d))
        <3>1. IsFiniteSet(Upto(d))
            BY <1>2
        <3>2. Upto(c) # Upto(d)
            BY <2>2
        <3> HIDE DEF Upto
        <3>3. QED
            BY <2>1, <3>1, <3>2, FS_Subset
    <2>4. Cardinality(Upto(c)) \in Nat /\ Cardinality(Upto(d)) \in Nat
        BY <1>1, <1>2
    <2>5. QED
        BY <2>3, <2>4
<1>4. QED
    BY <1>2, <1>3 DEF Rank

\* Every position is the rank of a member: ranks are an injection into as many
\* positions as there are members.
LEMMA RankOnto ==
    ASSUME NEW S \in SUBSET Chunk, NEW i \in 1 .. Cardinality(S)
    PROVE  \E c \in S : Rank(S, c) = i
<1> DEFINE r == [c \in S |-> Rank(S, c)]
<1> \A c \in S : c \in Nat
    BY MergeAssumption DEF Chunk
<1>1. IsFiniteSet(S) /\ Cardinality(S) \in Nat
    BY ChunkSetFacts
<1>2. IsFiniteSet(1 .. Cardinality(S)) /\ Cardinality(1 .. Cardinality(S)) = Cardinality(S)
    BY <1>1, FS_Interval
<1>3. r \in [S -> 1 .. Cardinality(S)]
    BY RankFacts
<1>4. \A c, d \in S : r[c] = r[d] => c = d
    <2>1. SUFFICES ASSUME NEW c \in S, NEW d \in S, r[c] = r[d], c # d
                   PROVE  FALSE
        OBVIOUS
    <2>2. c < d \/ d < c
        BY <2>1
    <2>3. r[c] < r[d] \/ r[d] < r[c]
        BY <2>2, RankFacts
    <2>4. r[c] \in Nat /\ r[d] \in Nat
        BY <1>1, <1>3
    <2>5. QED
        BY <2>1, <2>3, <2>4
<1> HIDE DEF r
<1>5. r \in Injection(S, 1 .. Cardinality(S))
    BY <1>3, <1>4 DEF Injection, IsInjective
<1>6. r \in Surjection(S, 1 .. Cardinality(S))
    BY <1>2, <1>5, FS_Injection
<1>7. PICK c \in S : r[c] = i
    BY <1>6 DEF Surjection
<1>8. QED
    BY <1>7 DEF r

\* InOrder(S) enumerates S in increasing order.
LEMMA InOrderFacts ==
    ASSUME NEW S \in SUBSET Chunk
    PROVE  /\ DOMAIN InOrder(S) = 1 .. Cardinality(S)
           /\ \A i \in 1 .. Cardinality(S) :
                 InOrder(S)[i] \in S /\ Rank(S, InOrder(S)[i]) = i
           /\ \A c \in S : InOrder(S)[Rank(S, c)] = c
           /\ \A i, j \in 1 .. Cardinality(S) : i < j => InOrder(S)[i] < InOrder(S)[j]
<1> \A c \in S : c \in Nat
    BY MergeAssumption DEF Chunk
<1>0. Cardinality(S) \in Nat
    BY ChunkSetFacts
<1>1. ASSUME NEW i \in 1 .. Cardinality(S)
      PROVE  InOrder(S)[i] \in S /\ Rank(S, InOrder(S)[i]) = i
    BY RankOnto DEF InOrder, Rank
<1>2. \A c, d \in S : Rank(S, c) = Rank(S, d) => c = d
    <2>1. SUFFICES ASSUME NEW c \in S, NEW d \in S, Rank(S, c) = Rank(S, d), c # d
                   PROVE  FALSE
        OBVIOUS
    <2>o. c < d \/ d < c
        BY <2>1
    <2>2. Rank(S, c) < Rank(S, d) \/ Rank(S, d) < Rank(S, c)
        BY <2>o, RankFacts
    <2>3. Rank(S, c) \in Nat /\ Rank(S, d) \in Nat
        BY <1>0, RankFacts
    <2>4. QED
        BY <2>1, <2>2, <2>3
<1>3. \A c \in S : InOrder(S)[Rank(S, c)] = c
    BY <1>1, <1>2, RankFacts
<1>4. ASSUME NEW i \in 1 .. Cardinality(S), NEW j \in 1 .. Cardinality(S), i < j
      PROVE  InOrder(S)[i] < InOrder(S)[j]
    <2>1. InOrder(S)[i] \in S /\ InOrder(S)[j] \in S
        BY <1>1
    <2>2. InOrder(S)[i] < InOrder(S)[j] \/ InOrder(S)[j] < InOrder(S)[i]
          \/ InOrder(S)[i] = InOrder(S)[j]
        BY <2>1
    <2>r. Rank(S, InOrder(S)[i]) = i /\ Rank(S, InOrder(S)[j]) = j
        BY <1>1
    <2>i. i \in Nat /\ j \in Nat
        BY <1>0
    <2>3. InOrder(S)[i] # InOrder(S)[j]
        BY <1>4, <2>r, <2>i
    <2>4. ~(InOrder(S)[j] < InOrder(S)[i])
        <3>1. SUFFICES ASSUME InOrder(S)[j] < InOrder(S)[i]
                       PROVE  FALSE
            OBVIOUS
        <3>2. Rank(S, InOrder(S)[j]) < Rank(S, InOrder(S)[i])
            BY <2>1, <3>1, RankFacts
        <3>3. QED
            BY <1>4, <2>r, <2>i, <3>2
    <2>5. QED
        BY <2>2, <2>3, <2>4
<1>5. QED
    BY <1>1, <1>3, <1>4 DEF InOrder

\* The member of rank i is the i-th one.
LEMMA InOrderAt ==
    ASSUME NEW S \in SUBSET Chunk, NEW c \in S, NEW i, Rank(S, c) = i
    PROVE  InOrder(S)[i] = c
    BY InOrderFacts

\* A merge's result as a sequence of pieces.
LEMMA WholeSeqFacts ==
    ASSUME NEW S \in SUBSET Chunk
    PROVE  /\ WholeSeq(S) \in Seq(Piece)
           /\ Len(WholeSeq(S)) = Cardinality(S)
           /\ \A i \in 1 .. Cardinality(S) : WholeSeq(S)[i] = Whole(InOrder(S)[i])
           /\ WholeSeq(S) # Absent
<1>1. Cardinality(S) \in Nat
    BY ChunkSetFacts
<1>2. \A i \in 1 .. Cardinality(S) : InOrder(S)[i] \in Chunk
    BY InOrderFacts
<1>3. \A i \in 1 .. Cardinality(S) : Whole(InOrder(S)[i]) \in Piece
    BY <1>2 DEF Whole, Piece
<1>4. WholeSeq(S) \in Seq(Piece)
    BY <1>1, <1>3 DEF WholeSeq
<1>5. Len(WholeSeq(S)) = Cardinality(S)
    BY <1>1, <1>3 DEF WholeSeq
<1>6. WholeSeq(S) # Absent
    BY <1>4, MergeAssumption DEF MergeAssumption, Piece, Chunk
<1>7. QED
    BY <1>4, <1>5, <1>6 DEF WholeSeq

\* No chunk: nothing is written, and conversely.
LEMMA WholeSeqEmpty ==
    ASSUME NEW S \in SUBSET Chunk
    PROVE  WholeSeq(S) = <<>> <=> S = {}
<1>1. IsFiniteSet(S) /\ Cardinality(S) \in Nat
    BY ChunkSetFacts
<1>2. WholeSeq(S) = <<>> <=> Cardinality(S) = 0
    <2>1. WholeSeq(S) \in Seq(Piece) /\ Len(WholeSeq(S)) = Cardinality(S)
        BY WholeSeqFacts
    <2>2. QED
        BY <1>1, <2>1
<1>3. QED
    BY <1>1, <1>2, FS_EmptySet

\* One chunk: its whole contents.
LEMMA WholeSeqOne ==
    ASSUME NEW c \in Chunk
    PROVE  WholeSeq({c}) = <<Whole(c)>>
<1>1. {c} \in SUBSET Chunk
    OBVIOUS
<1>2. Cardinality({c}) = 1
    BY FS_Singleton
<1>3. WholeSeq({c}) \in Seq(Piece) /\ Len(WholeSeq({c})) = 1
    BY <1>1, <1>2, WholeSeqFacts
<1>4. InOrder({c})[1] \in {c}
    BY <1>1, <1>2, InOrderFacts
<1>5. WholeSeq({c})[1] = Whole(c)
    BY <1>1, <1>2, <1>4, WholeSeqFacts
<1>6. QED
    BY <1>3, <1>5

\* The payload's whole list is enumerated by the identity.
LEMMA InOrderAll ==
    /\ Cardinality(Chunk) = N
    /\ \A i \in Chunk : InOrder(Chunk)[i] = i
<1> USE MergeAssumption DEF MergeAssumption
<1>1. Cardinality(Chunk) = N
    BY FS_Interval DEF Chunk
<1>2. ASSUME NEW i \in Chunk
      PROVE  InOrder(Chunk)[i] = i
    <2>1. {d \in Chunk : d <= i} = 1 .. i
        BY DEF Chunk
    <2>2. Cardinality(1 .. i) = i
        BY FS_Interval DEF Chunk
    <2>3. Rank(Chunk, i) = i
        BY <2>1, <2>2 DEF Rank
    <2>4. QED
        BY <2>3, InOrderAt
<1>3. QED
    BY <1>1, <1>2

\* The chunks of S written before those of T: what a merge of both writes, when
\* the chunks of S come first.  It is what appending to the partial file and
\* joining the outputs of stages come to.
LEMMA WholeSeqConcat ==
    ASSUME NEW S \in SUBSET Chunk, NEW T \in SUBSET Chunk, \A s \in S, t \in T : s < t
    PROVE  WholeSeq(S) \o WholeSeq(T) = WholeSeq(S \cup T)
<1> \A c \in Chunk : c \in Nat
    BY MergeAssumption DEF Chunk
<1> DEFINE U == S \cup T
           a == Cardinality(S)
           b == Cardinality(T)
<1>0. U \in SUBSET Chunk
    OBVIOUS
<1>1. IsFiniteSet(S) /\ IsFiniteSet(T) /\ a \in Nat /\ b \in Nat
    BY ChunkSetFacts
<1>2. S \cap T = {}
    <2>1. SUFFICES ASSUME NEW c \in S, c \in T
                   PROVE  FALSE
        OBVIOUS
    <2>2. c < c
        BY <2>1
    <2>3. QED
        BY <2>2
<1>3. Cardinality(U) = a + b
    <2>1. Cardinality(U) = a + b - Cardinality(S \cap T)
        BY <1>1, FS_Union
    <2>2. Cardinality(S \cap T) = 0
        BY <1>2, FS_EmptySet
    <2>3. QED
        BY <1>1, <2>1, <2>2
<1>4. ASSUME NEW c \in S
      PROVE  Rank(U, c) = Rank(S, c)
    <2>1. {d \in U : d <= c} = {d \in S : d <= c}
        OBVIOUS
    <2>2. QED
        BY <2>1 DEF Rank
<1>5. ASSUME NEW c \in T
      PROVE  Rank(U, c) = a + Rank(T, c)
    <2> DEFINE Tc == {d \in T : d <= c}
    <2>1. {d \in U : d <= c} = S \cup Tc
        OBVIOUS
    <2>2. S \cap Tc = {}
        BY <1>2
    <2>3. IsFiniteSet(Tc)
        BY <1>1, FS_Subset
    <2>4. Cardinality(Tc) \in Nat
        BY <2>3, FS_CardinalityType
    <2> HIDE DEF Tc
    <2>5. Cardinality(S \cup Tc) = a + Cardinality(Tc) - Cardinality(S \cap Tc)
        BY <1>1, <2>3, FS_Union
    <2>6. Cardinality(S \cup Tc) = a + Cardinality(Tc)
        BY <1>1, <2>2, <2>4, <2>5, FS_EmptySet
    <2>7. QED
        BY <2>1, <2>6 DEF Rank, Tc
<1>6. ASSUME NEW i \in 1 .. a
      PROVE  InOrder(U)[i] = InOrder(S)[i]
    <2>1. InOrder(S)[i] \in S /\ Rank(S, InOrder(S)[i]) = i
        BY InOrderFacts
    <2>2. Rank(U, InOrder(S)[i]) = i
        BY <1>4, <2>1
    <2>3. QED
        BY <1>0, <2>1, <2>2, InOrderAt
<1>7. ASSUME NEW i \in 1 .. b
      PROVE  InOrder(U)[a + i] = InOrder(T)[i]
    <2>1. InOrder(T)[i] \in T /\ Rank(T, InOrder(T)[i]) = i
        BY InOrderFacts
    <2>2. Rank(U, InOrder(T)[i]) = a + i
        BY <1>5, <2>1
    <2>3. QED
        BY <1>0, <2>1, <2>2, InOrderAt
<1> DEFINE s == WholeSeq(S)
           t == WholeSeq(T)
           u == WholeSeq(U)
<1>8. /\ s \in Seq(Piece) /\ Len(s) = a
      /\ t \in Seq(Piece) /\ Len(t) = b
      /\ u \in Seq(Piece) /\ Len(u) = a + b
    BY <1>0, <1>3, WholeSeqFacts
<1>9. \A i \in 1 .. a : u[i] = s[i]
    <2>1. TAKE i \in 1 .. a
    <2>2. i \in 1 .. a + b
        BY <1>1
    <2>3. u[i] = Whole(InOrder(U)[i]) /\ s[i] = Whole(InOrder(S)[i])
        BY <1>0, <1>3, <2>2, WholeSeqFacts
    <2>4. QED
        BY <1>6, <2>3
<1>10. \A i \in 1 .. b : u[a + i] = t[i]
    <2>1. TAKE i \in 1 .. b
    <2>2. a + i \in 1 .. a + b
        BY <1>1
    <2>3. u[a + i] = Whole(InOrder(U)[a + i]) /\ t[i] = Whole(InOrder(T)[i])
        BY <1>0, <1>3, <2>2, WholeSeqFacts
    <2>4. QED
        BY <1>7, <2>3
<1> HIDE DEF s, t, u, a, b
<1>11. s \o t \in Seq(Piece) /\ Len(s \o t) = a + b
    BY <1>1, <1>8
<1>12. ASSUME NEW i \in 1 .. a + b
       PROVE  (s \o t)[i] = u[i]
    <2>1. CASE i <= a
        <3>1. i \in 1 .. a
            BY <1>1, <2>1
        <3>2. (s \o t)[i] = s[i]
            BY <1>1, <1>8, <3>1
        <3>3. QED
            BY <1>9, <3>1, <3>2
    <2>2. CASE ~(i <= a)
        <3>1. i - a \in 1 .. b /\ a + (i - a) = i
            BY <1>1, <2>2
        <3>2. (s \o t)[i] = t[i - a]
            BY <1>1, <1>8, <2>2
        <3>3. u[a + (i - a)] = t[i - a]
            BY <1>10, <3>1
        <3>4. QED
            BY <3>1, <3>2, <3>3
    <2>3. QED
        BY <2>1, <2>2
<1>13. s \o t = u
    BY <1>8, <1>11, <1>12, SeqEqual
<1>14. QED
    BY <1>13 DEF s, t, u

-----------------------------------------------------------------------------
(* The calls of StreamMerge                                                *)

\* What the provers need of an integer division by the size of a stage.
LEMMA DivFacts ==
    ASSUME NEW x \in Nat, NEW p \in Nat \ {0}
    PROVE  /\ x \div p \in Nat
           /\ (x \div p) * p <= x
           /\ x < (x \div p) * p + p
    OBVIOUS

\* A list of n chunks has between one and n stages, the last of which is the
\* first to reach the end of the list.
LEMMA StageCountFacts ==
    ASSUME NEW cs \in Seq(Item), Len(cs) # 0
    PROVE  /\ StageCount(cs) \in 1 .. Len(cs)
           /\ StageCount(cs) * PerPass >= Len(cs)
           /\ (StageCount(cs) - 1) * PerPass < Len(cs)
<1> DEFINE n == Len(cs)
           q == StageCount(cs)
<1>1. n \in Nat \ {0} /\ PerPass \in Nat \ {0}
    BY MergeAssumption DEF MergeAssumption
<1>2. q = (n + PerPass - 1) \div PerPass
    BY DEF StageCount
<1> HIDE DEF n, q
<1>3. n + PerPass - 1 \in Nat
    BY <1>1
<1>4. q \in Nat /\ q * PerPass <= n + PerPass - 1 /\ n + PerPass - 1 < q * PerPass + PerPass
    BY <1>1, <1>2, <1>3, DivFacts
<1>5. q # 0
    BY <1>1, <1>4
<1>6. q <= n
    <2>1. SUFFICES ASSUME q >= n + 1
                   PROVE  FALSE
        BY <1>1, <1>4
    <2>2. q * PerPass >= (n + 1) * PerPass
        BY <1>1, <1>4, <2>1
    <2>3. (n + 1) * PerPass = n * PerPass + PerPass
        BY <1>1
    <2>4. n * PerPass >= n
        BY <1>1
    <2>5. q * PerPass \in Nat /\ n * PerPass \in Nat /\ (n + 1) * PerPass \in Nat
        BY <1>1, <1>4
    <2>6. QED
        BY <1>1, <1>4, <2>2, <2>3, <2>4, <2>5
<1>7. (q - 1) * PerPass = q * PerPass - PerPass
    BY <1>1, <1>4
<1>8. q * PerPass >= n /\ (q - 1) * PerPass < n
    BY <1>1, <1>4, <1>7
<1>9. QED
    BY <1>1, <1>4, <1>5, <1>6, <1>8 DEF n, q

\* A stage takes the chunks from a first to a last position of the list.
StageFirst(k)     == (k - 1) * PerPass + 1
StageLast(cs, k)  == IF k * PerPass < Len(cs) THEN k * PerPass ELSE Len(cs)

\* Stages have positions of the list, and no more than it has.
LEMMA StageBounds ==
    ASSUME NEW cs \in Seq(Item), Len(cs) # 0, NEW k \in 1 .. StageCount(cs)
    PROVE  /\ StageFirst(k) \in 1 .. Len(cs)
           /\ StageLast(cs, k) \in 1 .. Len(cs)
           /\ StageFirst(k) <= StageLast(cs, k)
<1> DEFINE n == Len(cs)
           q == StageCount(cs)
<1>1. n \in Nat \ {0} /\ PerPass \in Nat \ {0}
    BY MergeAssumption DEF MergeAssumption
<1>2. q \in 1 .. n /\ (q - 1) * PerPass < n
    BY StageCountFacts
<1>3. k \in Nat \ {0} /\ k <= q
    BY <1>1, <1>2
<1> HIDE DEF n, q
<1>4. (k - 1) * PerPass <= (q - 1) * PerPass
    BY <1>1, <1>2, <1>3
<1>5. (k - 1) * PerPass \in Nat /\ (q - 1) * PerPass \in Nat
    BY <1>1, <1>2, <1>3
<1>6. k * PerPass = (k - 1) * PerPass + PerPass
    BY <1>1, <1>3
<1>7. StageFirst(k) = (k - 1) * PerPass + 1 /\ StageFirst(k) <= n
    BY <1>1, <1>2, <1>4, <1>5 DEF StageFirst
<1>8. StageLast(cs, k) = IF k * PerPass < n THEN k * PerPass ELSE n
    BY DEF StageLast, n
<1>9. QED
    BY <1>1, <1>5, <1>6, <1>7, <1>8 DEF n

\* planTreeMerge in these terms.
LEMMA PlanFacts ==
    ASSUME NEW cs \in Seq(Item), Len(cs) \in 1 .. N
    PROVE  /\ planTreeMerge(cs) \in Seq(Call)
           /\ Len(planTreeMerge(cs)) = StageCount(cs)
           /\ \A k \in 1 .. StageCount(cs) :
                 /\ planTreeMerge(cs)[k].dest = StageOut(k)
                 /\ planTreeMerge(cs)[k].list \in Seq(Item)
                 /\ Len(planTreeMerge(cs)[k].list) = StageLast(cs, k) - StageFirst(k) + 1
                 /\ \A i \in 1 .. StageLast(cs, k) - StageFirst(k) + 1 :
                       planTreeMerge(cs)[k].list[i] = cs[StageFirst(k) + i - 1]
<1> DEFINE L(k) == SubSeq(cs, StageFirst(k), StageLast(cs, k))
<1>0. Len(cs) # 0
    BY MergeAssumption DEF MergeAssumption
<1>1. StageCount(cs) \in 1 .. N
    BY <1>0, StageCountFacts, MergeAssumption DEF MergeAssumption
<1>2. ASSUME NEW k \in 1 .. StageCount(cs)
      PROVE  /\ planTreeMerge(cs)[k] = [dest |-> StageOut(k), list |-> L(k)]
             /\ L(k) \in Seq(Item)
             /\ Len(L(k)) = StageLast(cs, k) - StageFirst(k) + 1
             /\ \A i \in 1 .. StageLast(cs, k) - StageFirst(k) + 1 :
                   L(k)[i] = cs[StageFirst(k) + i - 1]
    <2>1. /\ StageFirst(k) \in 1 .. Len(cs)
          /\ StageLast(cs, k) \in 1 .. Len(cs)
          /\ StageFirst(k) <= StageLast(cs, k)
        BY <1>0, StageBounds
    <2>2. planTreeMerge(cs)[k] = [dest |-> StageOut(k), list |-> L(k)]
        BY DEF planTreeMerge, StageFirst, StageLast
    <2> DEFINE a == StageFirst(k)
               b == StageLast(cs, k)
    <2>3. a \in Int /\ b \in Int /\ a <= b /\ \A i \in a .. b : cs[i] \in Item
        BY <2>1
    <2> HIDE DEF a, b
    <2>4. /\ SubSeq(cs, a, b) \in Seq(Item)
          /\ Len(SubSeq(cs, a, b)) = b - a + 1
          /\ \A i \in 1 .. b - a + 1 : SubSeq(cs, a, b)[i] = cs[a + i - 1]
        BY <2>3, SubSeqProperties
    <2>5. QED
        BY <2>2, <2>4 DEF a, b
<1> HIDE DEF L
<1>3. DOMAIN planTreeMerge(cs) = 1 .. StageCount(cs)
    BY DEF planTreeMerge
<1>4. ASSUME NEW k \in 1 .. StageCount(cs)
      PROVE  planTreeMerge(cs)[k] \in Call
    <2>1. StageOut(k) \in Dest
        BY <1>1, MergeAssumption DEF MergeAssumption, StageOut, Dest
    <2>2. planTreeMerge(cs)[k] = [dest |-> StageOut(k), list |-> L(k)] /\ L(k) \in Seq(Item)
        BY <1>2
    <2>3. QED
        BY <2>1, <2>2 DEF Call
<1>5. /\ planTreeMerge(cs) \in Seq(Call)
      /\ Len(planTreeMerge(cs)) = StageCount(cs)
    <2> DEFINE m == planTreeMerge(cs)
               q == StageCount(cs)
    <2>1. q \in Nat
        BY <1>1
    <2>2. m = [k \in 1 .. q |-> m[k]]
        BY DEF planTreeMerge
    <2>3. \A k \in 1 .. q : m[k] \in Call
        BY <1>4
    <2> HIDE DEF m, q
    <2>4. m \in Seq(Call) /\ Len(m) = q
        BY <2>1, <2>2, <2>3
    <2>5. QED
        BY <2>4 DEF m, q
<1>6. QED
    BY <1>2, <1>5

\* The call that joins the outputs of n stages.
LEMMA FinalCallFacts ==
    ASSUME NEW n \in 1 .. N
    PROVE  /\ FinalCall(n) \in Call
           /\ FinalCall(n).dest = Out
           /\ Len(FinalCall(n).list) = n
           /\ \A k \in 1 .. n : FinalCall(n).list[k] = [path |-> StageOut(k), index |-> k - 1]
<1> USE MergeAssumption DEF MergeAssumption
<1> DEFINE l == [k \in 1 .. n |-> [path |-> StageOut(k), index |-> k - 1]]
<1>1. FinalCall(n) = [dest |-> Out, list |-> l]
    BY DEF FinalCall
<1>2. \A k \in 1 .. n : [path |-> StageOut(k), index |-> k - 1] \in Item
    BY DEF Item, File, Dest, StageOut
<1>3. l \in Seq(Item) /\ Len(l) = n
    BY <1>2
<1>4. \A k \in 1 .. n : l[k] = [path |-> StageOut(k), index |-> k - 1]
    OBVIOUS
<1> HIDE DEF l
<1>5. QED
    BY <1>1, <1>3, <1>4 DEF Call, Dest

\* The calls of a tree merge: the stages, and the join if there are several.
LEMMA TreeCallsFacts ==
    ASSUME NEW cs \in Seq(Item), Len(cs) \in 1 .. N
    PROVE  /\ TreeCalls(cs) \in Seq(Call)
           /\ Len(TreeCalls(cs)) = IF StageCount(cs) > 1 THEN StageCount(cs) + 1 ELSE 1
           /\ \A k \in 1 .. StageCount(cs) : TreeCalls(cs)[k] = planTreeMerge(cs)[k]
           /\ StageCount(cs) > 1 => TreeCalls(cs)[StageCount(cs) + 1] = FinalCall(StageCount(cs))
<1> DEFINE n == StageCount(cs)
           m == planTreeMerge(cs)
           z == FinalCall(n)
<1>1. Len(cs) # 0 /\ N \in Nat
    BY MergeAssumption DEF MergeAssumption
<1>2. n \in 1 .. N
    BY <1>1, StageCountFacts
<1>3. m \in Seq(Call) /\ Len(m) = n
    BY PlanFacts
<1>4. z \in Call
    BY <1>2, FinalCallFacts
<1>5. TreeCalls(cs) = m \o (IF n > 1 THEN <<z>> ELSE <<>>)
    BY DEF TreeCalls
<1> HIDE DEF n, m, z
<1>6. CASE n > 1
    <2>1. TreeCalls(cs) = m \o <<z>>
        BY <1>5, <1>6
    <2>2. QED
        BY <1>1, <1>2, <1>3, <1>4, <1>6, <2>1 DEF n, m, z
<1>7. CASE n = 1
    <2>1. TreeCalls(cs) = m \o <<>>
        BY <1>5, <1>7
    <2>2. TreeCalls(cs) = m
        BY <1>3, <2>1
    <2>3. QED
        BY <1>3, <1>7, <2>2 DEF n, m, z
<1>8. QED
    BY <1>1, <1>2, <1>6, <1>7

\* No call has more than N inputs.
LEMMA TreeCallsShort ==
    ASSUME NEW cs \in Seq(Item), Len(cs) \in 1 .. N, NEW k \in 1 .. Len(TreeCalls(cs))
    PROVE  Len(TreeCalls(cs)[k].list) <= N
<1> DEFINE n == StageCount(cs)
<1>1. Len(cs) # 0 /\ N \in Nat
    BY MergeAssumption DEF MergeAssumption
<1>2. n \in 1 .. N
    BY <1>1, StageCountFacts
<1>3. CASE k <= n
    <2>1. k \in 1 .. n
        BY <1>1, <1>2, <1>3
    <2>2. StageFirst(k) \in 1 .. Len(cs) /\ StageLast(cs, k) \in 1 .. Len(cs)
        BY <1>1, <2>1, StageBounds
    <2>3. Len(TreeCalls(cs)[k].list) = StageLast(cs, k) - StageFirst(k) + 1
        BY <2>1, PlanFacts, TreeCallsFacts
    <2>4. QED
        BY <1>1, <2>2, <2>3
<1>4. CASE k > n
    <2>0. Len(TreeCalls(cs)) = IF n > 1 THEN n + 1 ELSE 1
        BY TreeCallsFacts
    <2>1. n > 1 /\ k = n + 1
        <3> HIDE DEF n
        <3>1. QED
            BY <1>1, <1>2, <1>4, <2>0
    <2>2. Len(TreeCalls(cs)[k].list) = n
        BY <1>2, <2>1, TreeCallsFacts, FinalCallFacts
    <2>3. QED
        BY <1>1, <1>2, <2>2
<1>5. QED
    BY <1>1, <1>2, <1>3, <1>4

\* The list of the chunks to merge.
LEMMA ActiveChunksFacts ==
    /\ Active \in SUBSET Chunk
    /\ ActiveChunks \in Seq(Item)
    /\ Len(ActiveChunks) = Cardinality(Active)
    /\ Len(ActiveChunks) \in 0 .. N
    /\ \A i \in 1 .. Cardinality(Active) :
          /\ ActiveChunks[i].path = InOrder(Active)[i]
          /\ ActiveChunks[i].index = InOrder(Active)[i] - 1
<1> USE MergeAssumption DEF MergeAssumption
<1>1. Active \in SUBSET Chunk
    BY DEF Active, Present
<1>2. Cardinality(Active) \in 0 .. N
    BY <1>1, ChunkSetFacts
<1>3. \A i \in 1 .. Cardinality(Active) : InOrder(Active)[i] \in Chunk
    BY <1>1, InOrderFacts
<1>4. \A i \in 1 .. Cardinality(Active) :
         [path |-> InOrder(Active)[i], index |-> InOrder(Active)[i] - 1] \in Item
    BY <1>3 DEF Item, File, Chunk
<1>5. ActiveChunks \in Seq(Item) /\ Len(ActiveChunks) = Cardinality(Active)
    BY <1>2, <1>4 DEF ActiveChunks
<1>6. QED
    BY <1>1, <1>2, <1>5 DEF ActiveChunks

-----------------------------------------------------------------------------
(* The type invariant                                                      *)

\* Lists are no longer than the payload's, the loops do not leave them, the
\* partial file is there while it is open, and a chunk's file is gone or as it
\* was processed.
MergeInv ==
    /\ MergeTypeOK
    /\ \A k \in DOMAIN calls : Len(calls[k].list) <= N
    /\ pc \in {"idle", "finish"} => calls = <<>>
    /\ pc \in {"copy", "cleanup"} => pos <= Len(list) + 1
    /\ pc = "save" => pos <= Len(list)
    /\ pc \in {"copy", "save", "cleanup"} => partial[dest] # Absent
    /\ pc = "idle" <=> done # "running"
    /\ \A c \in Chunk : files[c] # Absent => files[c] = WholeSeq({c} \cap payload.full)

\* The current call of StreamMerge.
LEMMA CurrentCall ==
    ASSUME MergeTypeOK, pc \notin {"idle", "finish"}
    PROVE  /\ calls \in Seq(Call) /\ calls # <<>>
           /\ 1 \in DOMAIN calls
           /\ dest = calls[1].dest /\ dest \in Dest
           /\ list = calls[1].list /\ list \in Seq(Item)
           /\ \A i \in 1 .. Len(list) : list[i] \in Item /\ list[i].path \in File
           /\ DOMAIN list = 1 .. Len(list)
           /\ Len(list) \in Nat
<1>1. calls \in Seq(Call) /\ calls # <<>>
    BY DEF MergeTypeOK
<1>2. 1 \in DOMAIN calls /\ Head(calls) = calls[1] /\ calls[1] \in Call
    BY <1>1
<1>3. dest \in Dest /\ list \in Seq(Item)
    BY <1>2 DEF dest, list, Call
<1>4. ASSUME NEW i \in 1 .. Len(list)
      PROVE  list[i] \in Item /\ list[i].path \in File
    <2>1. list[i] \in Item
        BY <1>3, ElementOfSeq
    <2>2. QED
        BY <2>1 DEF Item
<1>5. QED
    BY <1>1, <1>2, <1>3, <1>4 DEF dest, list

\* The outputs are not chunks.
LEMMA FileNames ==
    /\ Out \in Dest /\ Out \in File
    /\ Dest \subseteq File /\ Chunk \subseteq File
    /\ \A o \in Dest : o \notin Chunk
    /\ \A k \in 1 .. N : StageOut(k) \in Dest /\ StageOut(k) \in File /\ StageOut(k) # Out
    /\ \A k \in 1 .. N : StageOut(k) \notin Chunk
    BY MergeAssumption DEF MergeAssumption, Out, Dest, File, Chunk, StageOut

\* A file with contents exists.
LEMMA AbsentFacts == \A s \in Seq(Piece) : s # Absent
    BY MergeAssumption DEF MergeAssumption, Piece, Chunk

\* The calls that are left after the current one.
LEMMA TailOfCalls ==
    ASSUME NEW q \in Seq(Call), q # <<>>
    PROVE  /\ Tail(q) \in Seq(Call)
           /\ Len(Tail(q)) = Len(q) - 1
           /\ Tail(q) = <<>> <=> Len(q) = 1
           /\ \A k \in DOMAIN Tail(q) : k + 1 \in DOMAIN q /\ Tail(q)[k] = q[k + 1]
<1>1. /\ Tail(q) \in Seq(Call)
      /\ Len(Tail(q)) = Len(q) - 1
      /\ Len(q) \in Nat \ {0}
      /\ \A k \in 1 .. Len(Tail(q)) : Tail(q)[k] = q[k + 1]
    BY HeadTailProperties
<1>2. Tail(q) = <<>> <=> Len(q) = 1
    BY <1>1
<1>3. QED
    BY <1>1, <1>2

\* A delivery plans its calls.
LEMMA DeliverCalls ==
    ASSUME MergeTypeOK, Deliver
    PROVE  /\ calls' \in Seq(Call) /\ calls' # <<>>
           /\ \A k \in DOMAIN calls' : Len(calls'[k].list) <= N
           /\ stages' \in 0 .. N
<1> DEFINE cs == ActiveChunks
           tree == payload.tree /\ shouldUseTreeMerge(cs)
<1> N \in Nat
    BY MergeAssumption DEF MergeAssumption
<1>1. /\ stages' = IF tree THEN StageCount(cs) ELSE 0
      /\ calls' = IF tree THEN TreeCalls(cs) ELSE <<[dest |-> Out, list |-> cs]>>
    BY DEF Deliver
<1>2. cs \in Seq(Item) /\ Len(cs) \in 0 .. N
    BY ActiveChunksFacts
<1>3. CASE tree
    <2>1. cs # <<>>
        BY <1>3 DEF shouldUseTreeMerge
    <2>2. Len(cs) \in 1 .. N /\ Len(cs) # 0
        BY <1>2, <2>1
    <2>3. calls' = TreeCalls(cs) /\ stages' = StageCount(cs)
        BY <1>1, <1>3
    <2> HIDE DEF cs, tree
    <2>4. TreeCalls(cs) \in Seq(Call) /\ Len(TreeCalls(cs)) # 0
        <3>1. StageCount(cs) \in 1 .. Len(cs)
            BY <1>2, <2>2, StageCountFacts
        <3>2. QED
            BY <1>2, <2>2, <3>1, TreeCallsFacts
    <2>5. stages' \in 0 .. N
        BY <1>2, <2>2, <2>3, StageCountFacts
    <2>6. \A k \in 1 .. Len(TreeCalls(cs)) : Len(TreeCalls(cs)[k].list) <= N
        BY <1>2, <2>2, TreeCallsShort
    <2>7. QED
        BY <2>3, <2>4, <2>5, <2>6
<1>4. CASE ~tree
    <2>1. calls' = <<[dest |-> Out, list |-> cs]>> /\ stages' = 0
        BY <1>1, <1>4
    <2> HIDE DEF cs, tree
    <2>2. [dest |-> Out, list |-> cs] \in Call
        BY <1>2 DEF Call, Dest
    <2>3. QED
        BY <1>2, <2>1, <2>2
<1>5. QED
    BY <1>3, <1>4

\* The initial state has it.
LEMMA MergeInvInit == Init => MergeInv
<1> SUFFICES ASSUME Init
             PROVE  MergeInv
    OBVIOUS
<1> USE MergeAssumption DEF MergeAssumption
<1>1. payload \in [full : SUBSET Chunk, empty : SUBSET Chunk, skipped : SUBSET Chunk,
                   partial : BOOLEAN, tree : BOOLEAN, big : BOOLEAN]
    BY DEF Init
<1>2. \A c \in Chunk : <<Whole(c)>> \in Seq(Piece)
    BY DEF Whole, Piece
<1>3. files \in [File -> Seq(Piece) \cup {Absent}]
    BY <1>1, <1>2 DEF Init
<1>a. partial \in [Dest -> Seq(Piece) \cup {Absent}] /\ ckpt \in [Dest -> 0 .. N]
    BY DEF Init
<1>b. calls \in Seq(Call) /\ expected \in Seq(Piece)
    BY DEF Init
<1>c. pos \in 1 .. N + 1 /\ stages \in 0 .. N /\ resume \in 0 .. N /\ attempts \in 0 .. MaxAttempts
    BY DEF Init
<1>4. MergeTypeOK
    BY <1>1, <1>3, <1>a, <1>b, <1>c DEF Init, MergeTypeOK
<1>5. ASSUME NEW c \in Chunk, files[c] # Absent
      PROVE  files[c] = WholeSeq({c} \cap payload.full)
    <2>1. c \in File
        BY FileNames
    <2>2. CASE c \in payload.full
        <3>1. {c} \cap payload.full = {c}
            BY <2>2
        <3>2. files[c] = <<Whole(c)>>
            BY <2>1, <2>2 DEF Init
        <3>3. QED
            BY <3>1, <3>2, WholeSeqOne
    <2>3. CASE c \notin payload.full
        <3>1. {c} \cap payload.full = {}
            BY <2>3
        <3>2. files[c] = <<>>
            BY <1>5, <2>1, <2>3 DEF Init
        <3>3. WholeSeq({}) = <<>>
            BY WholeSeqEmpty
        <3>4. QED
            BY <3>1, <3>2, <3>3
    <2>4. QED
        BY <2>2, <2>3
<1>6. QED
    BY <1>4, <1>5 DEF MergeInv, Init

\* Every step keeps it.
LEMMA MergeInvStep ==
    ASSUME MergeInv, [Next]_vars
    PROVE  MergeInv'
<1> USE DEF vars, callVars, diskVars, histVars
<1> DEFINE ChunkFiles == \A c \in Chunk : files[c] # Absent => files[c] = WholeSeq({c} \cap payload.full)
           Short == \A k \in DOMAIN calls : Len(calls[k].list) <= N
           Bounds == /\ pc \in {"idle", "finish"} => calls = <<>>
                     /\ pc \in {"copy", "cleanup"} => pos <= Len(list) + 1
                     /\ pc = "save" => pos <= Len(list)
                     /\ pc \in {"copy", "save", "cleanup"} => partial[dest] # Absent
                     /\ pc = "idle" <=> done # "running"
<1> N \in Nat \ {0} /\ MaxAttempts \in Nat
    BY MergeAssumption DEF MergeAssumption
<1>0. MergeTypeOK /\ ChunkFiles /\ Short /\ Bounds
    BY DEF MergeInv
<1> SUFFICES MergeTypeOK' /\ ChunkFiles' /\ Short' /\ Bounds'
    BY DEF MergeInv
<1> HIDE DEF ChunkFiles, Short, Bounds
<1>1. CASE Deliver
    <2>1. /\ calls' \in Seq(Call) /\ calls' # <<>>
          /\ \A k \in DOMAIN calls' : Len(calls'[k].list) <= N
          /\ stages' \in 0 .. N
        BY <1>0, <1>1, DeliverCalls
    <2>2. expected' \in Seq(Piece)
        <3>1. {c \in Active : files[c] # <<>>} \in SUBSET Chunk
            BY ActiveChunksFacts
        <3>2. expected' = WholeSeq({c \in Active : files[c] # <<>>})
            BY <1>1 DEF Deliver
        <3>3. QED
            BY <3>1, <3>2, WholeSeqFacts
    <2>3. /\ UNCHANGED <<payload, files, partial, ckpt, pos, resume, stale>>
          /\ attempts' = attempts + 1 /\ attempts < MaxAttempts
          /\ pc' = "open" /\ done' = "running" /\ fresh' \in BOOLEAN
        BY <1>1 DEF Deliver
    <2>4. MergeTypeOK'
        BY <1>0, <2>1, <2>2, <2>3 DEF MergeTypeOK
    <2>5. ChunkFiles' /\ Short' /\ Bounds'
        BY <1>0, <2>1, <2>3 DEF ChunkFiles, Short, Bounds
    <2>6. QED
        BY <2>4, <2>5
<1>2. CASE OpenPartial
    <2>1. dest \in Dest /\ list \in Seq(Item)
        BY <1>0, <1>2, CurrentCall DEF OpenPartial
    <2>2. /\ partial' \in [Dest -> Seq(Piece) \cup {Absent}]
          /\ partial'[dest] # Absent
        <3> DEFINE v == IF partial[dest] = Absent THEN <<>> ELSE partial[dest]
        <3>1. v \in Seq(Piece)
            BY <1>0, <2>1 DEF MergeTypeOK
        <3>2. partial' = [partial EXCEPT ![dest] = v]
            BY <1>2 DEF OpenPartial
        <3> HIDE DEF v
        <3>3. QED
            BY <1>0, <2>1, <3>1, <3>2, AbsentFacts DEF MergeTypeOK
    <2>3. resume' \in 0 .. N /\ stale' \in BOOLEAN
        BY <1>0, <1>2, <2>1 DEF OpenPartial, MergeTypeOK
    <2>4. MergeTypeOK'
        BY <1>0, <1>2, <2>2, <2>3 DEF OpenPartial, MergeTypeOK
    <2>5. ChunkFiles' /\ Short'
        BY <1>0, <1>2 DEF OpenPartial, ChunkFiles, Short
    <2>6. Bounds'
        <3>1. Len(list) \in Nat
            BY <2>1
        <3>2. /\ pc' = "copy" /\ pos' = 1 /\ list' = list /\ dest' = dest
              /\ done' = done /\ pc = "open"
            BY <1>2 DEF OpenPartial, list, dest
        <3>3. QED
            BY <1>0, <2>2, <3>1, <3>2 DEF Bounds
    <2>7. QED
        BY <2>4, <2>5, <2>6
<1>3. CASE SkipChunk
    <2>1. Len(list) <= N /\ Len(list) \in Nat
        BY <1>0, <1>3, CurrentCall DEF SkipChunk, Short
    <2>2. pos' \in 1 .. N + 1 /\ pos' <= Len(list) + 1
        BY <1>0, <1>3, <2>1 DEF SkipChunk, MergeTypeOK
    <2>3. MergeTypeOK'
        BY <1>0, <1>3, <2>2 DEF SkipChunk, MergeTypeOK
    <2>4. ChunkFiles' /\ Short' /\ Bounds'
        BY <1>0, <1>3, <2>2 DEF SkipChunk, ChunkFiles, Short, Bounds, list, dest
    <2>5. QED
        BY <2>3, <2>4
<1>4. CASE CopyChunk
    <2>1. /\ pc = "copy" /\ pos <= Len(list) /\ pos \in 1 .. N + 1
          /\ files[list[pos].path] # Absent
          /\ partial' = [partial EXCEPT ![dest] = @ \o files[list[pos].path]]
          /\ pc' = "save"
          /\ UNCHANGED <<payload, files, ckpt, pos, calls, stages, resume, attempts, done, fresh,
                         expected, stale>>
        BY <1>0, <1>4 DEF CopyChunk, ToCopy, MergeTypeOK
    <2>2. dest \in Dest /\ list[pos].path \in File
        BY <1>0, <2>1, CurrentCall
    <2>3. files[list[pos].path] \in Seq(Piece)
        BY <1>0, <2>1, <2>2 DEF MergeTypeOK
    <2>4. partial[dest] \in Seq(Piece)
        BY <1>0, <2>1, <2>2 DEF MergeTypeOK, Bounds
    <2>5. partial[dest] \o files[list[pos].path] \in Seq(Piece)
        BY <2>3, <2>4
    <2>6. /\ partial' \in [Dest -> Seq(Piece) \cup {Absent}]
          /\ partial'[dest] # Absent
        BY <1>0, <2>1, <2>2, <2>5, AbsentFacts DEF MergeTypeOK
    <2>7. MergeTypeOK'
        BY <1>0, <2>1, <2>6 DEF MergeTypeOK
    <2>8. ChunkFiles' /\ Short' /\ Bounds'
        BY <1>0, <2>1, <2>6 DEF ChunkFiles, Short, Bounds, list, dest
    <2>9. QED
        BY <2>7, <2>8
<1>e. ASSUME Ended, UNCHANGED <<files, ckpt>>,
             partial' \in [Dest -> Seq(Piece) \cup {Absent}]
      PROVE  MergeTypeOK' /\ ChunkFiles' /\ Short' /\ Bounds'
    <2>1. MergeTypeOK'
        BY <1>0, <1>e DEF Ended, MergeTypeOK
    <2>2. ChunkFiles' /\ Short' /\ Bounds'
        BY <1>0, <1>e DEF Ended, ChunkFiles, Short, Bounds
    <2>3. QED
        BY <2>1, <2>2
<1>5. CASE TornCopy
    <2> DEFINE s == files[list[pos].path]
    <2>1. /\ pc = "copy" /\ pos <= Len(list) /\ pos \in 1 .. N + 1
          /\ s # Absent
          /\ Ended /\ UNCHANGED <<files, ckpt>>
        BY <1>0, <1>5 DEF TornCopy, ToCopy, MergeTypeOK
    <2>2. PICK k \in 0 .. Len(s) - 1 :
             partial' = [partial EXCEPT ![dest] = @ \o SubSeq(s, 1, k) \o <<Part(s[k + 1].chunk)>>]
        BY <1>5 DEF TornCopy
    <2>3. dest \in Dest /\ list[pos].path \in File
        BY <1>0, <2>1, CurrentCall
    <2>4. s \in Seq(Piece) /\ partial[dest] \in Seq(Piece)
        BY <1>0, <2>1, <2>3 DEF MergeTypeOK, Bounds
    <2> HIDE DEF s
    <2>5. k \in Nat /\ k + 1 \in 1 .. Len(s)
        BY <2>4
    <2>6. SubSeq(s, 1, k) \in Seq(Piece)
        <3>1. \A i \in 1 .. k : s[i] \in Piece
            BY <2>4, <2>5
        <3>2. QED
            BY <2>5, <3>1, SubSeqProperties
    <2>7. Part(s[k + 1].chunk) \in Piece
        <3>1. s[k + 1] \in Piece
            BY <2>4, <2>5
        <3>2. QED
            BY <3>1 DEF Part, Piece
    <2>8. partial[dest] \o SubSeq(s, 1, k) \o <<Part(s[k + 1].chunk)>> \in Seq(Piece)
        BY <2>4, <2>6, <2>7
    <2>9. partial' \in [Dest -> Seq(Piece) \cup {Absent}]
        BY <1>0, <2>2, <2>3, <2>8 DEF MergeTypeOK
    <2>10. QED
        BY <1>e, <2>1, <2>9
<1>6. CASE SaveCheckpoint
    <2>1. pc = "save" /\ pos \in 1 .. N + 1
        BY <1>0, <1>6 DEF SaveCheckpoint, MergeTypeOK
    <2>2. pos <= Len(list) /\ Len(list) <= N /\ Len(list) \in Nat
        BY <1>0, <2>1, CurrentCall DEF Bounds, Short
    <2>3. dest \in Dest /\ list[pos] \in Item
        BY <1>0, <2>1, <2>2, CurrentCall
    <2>4. list[pos].index + 1 \in 0 .. N
        BY <2>3 DEF Item
    <2>5. ckpt' \in [Dest -> 0 .. N]
        <3>1. CASE ckpt' = [ckpt EXCEPT ![dest] = list[pos].index + 1]
            BY <1>0, <2>3, <2>4, <3>1 DEF MergeTypeOK
        <3>2. CASE UNCHANGED ckpt
            BY <1>0, <3>2 DEF MergeTypeOK
        <3>3. QED
            BY <1>6, <3>1, <3>2 DEF SaveCheckpoint
    <2>6. pos' \in 1 .. N + 1 /\ pos' <= Len(list) + 1
        BY <1>6, <2>1, <2>2 DEF SaveCheckpoint
    <2>7. MergeTypeOK'
        BY <1>0, <1>6, <2>5, <2>6 DEF SaveCheckpoint, MergeTypeOK
    <2>8. ChunkFiles' /\ Short' /\ Bounds'
        BY <1>0, <1>6, <2>6 DEF SaveCheckpoint, ChunkFiles, Short, Bounds, list, dest
    <2>9. QED
        BY <2>7, <2>8
<1>7. CASE BeginCleanup
    <2>1. Len(list) \in Nat
        BY <1>0, <1>7, CurrentCall DEF BeginCleanup
    <2>2. MergeTypeOK'
        BY <1>0, <1>7 DEF BeginCleanup, MergeTypeOK
    <2>3. ChunkFiles' /\ Short' /\ Bounds'
        BY <1>0, <1>7, <2>1 DEF BeginCleanup, ChunkFiles, Short, Bounds, list, dest
    <2>4. QED
        BY <2>2, <2>3
<1>8. CASE CleanupChunk
    <2>1. pc = "cleanup" /\ pos \in 1 .. N + 1 /\ pos <= Len(list)
        BY <1>0, <1>8 DEF CleanupChunk, MergeTypeOK
    <2>2. Len(list) <= N /\ Len(list) \in Nat /\ list[pos].path \in File
        BY <1>0, <2>1, CurrentCall DEF Short
    <2>3. /\ files' \in [File -> Seq(Piece) \cup {Absent}]
          /\ \A f \in File : files'[f] = files[f] \/ files'[f] = Absent
        <3>1. CASE files' = [files EXCEPT ![list[pos].path] = Absent]
            BY <1>0, <2>2, <3>1 DEF MergeTypeOK
        <3>2. CASE UNCHANGED files
            BY <1>0, <3>2 DEF MergeTypeOK
        <3>3. QED
            BY <1>8, <3>1, <3>2 DEF CleanupChunk
    <2>4. pos' \in 1 .. N + 1 /\ pos' <= Len(list) + 1
        BY <1>8, <2>1, <2>2 DEF CleanupChunk
    <2>5. MergeTypeOK'
        BY <1>0, <1>8, <2>3, <2>4 DEF CleanupChunk, MergeTypeOK
    <2>6. ChunkFiles'
        BY <1>0, <1>8, <2>3, FileNames DEF CleanupChunk, ChunkFiles
    <2>7. Short' /\ Bounds'
        BY <1>0, <1>8, <2>4 DEF CleanupChunk, Short, Bounds, list, dest
    <2>8. QED
        BY <2>5, <2>6, <2>7
<1>9. CASE RenameOutput
    <2>1. /\ pc = "cleanup"
          /\ files' = [files EXCEPT ![dest] = partial[dest]]
          /\ partial' = [partial EXCEPT ![dest] = Absent]
        BY <1>9 DEF RenameOutput
    <2>2. dest \in Dest /\ dest \in File /\ dest \notin Chunk
        BY <1>0, <2>1, CurrentCall, FileNames
    <2>3. /\ files' \in [File -> Seq(Piece) \cup {Absent}]
          /\ partial' \in [Dest -> Seq(Piece) \cup {Absent}]
          /\ \A c \in Chunk : files'[c] = files[c]
        BY <1>0, <2>1, <2>2, FileNames DEF MergeTypeOK
    <2>4. MergeTypeOK'
        BY <1>0, <1>9, <2>3 DEF RenameOutput, MergeTypeOK
    <2>5. ChunkFiles' /\ Short' /\ Bounds'
        BY <1>0, <1>9, <2>3 DEF RenameOutput, ChunkFiles, Short, Bounds
    <2>6. QED
        BY <2>4, <2>5
<1>10. CASE ClearCheckpoint
    <2>1. pc = "clear" /\ dest \in Dest
        BY <1>0, <1>10, CurrentCall DEF ClearCheckpoint
    <2>2. calls \in Seq(Call) /\ calls # <<>>
        BY <1>0, <2>1, CurrentCall
    <2>3. ckpt' \in [Dest -> 0 .. N]
        <3>1. CASE ckpt' = [ckpt EXCEPT ![dest] = 0]
            BY <1>0, <2>1, <3>1 DEF MergeTypeOK
        <3>2. CASE UNCHANGED ckpt
            BY <1>0, <3>2 DEF MergeTypeOK
        <3>3. QED
            BY <1>10, <3>1, <3>2 DEF ClearCheckpoint
    <2>4. /\ calls' \in Seq(Call)
          /\ Len(calls') = Len(calls) - 1
          /\ calls' = <<>> <=> Len(calls) = 1
          /\ \A k \in DOMAIN calls' : k + 1 \in DOMAIN calls /\ calls'[k] = calls[k + 1]
        <3>1. calls' = Tail(calls)
            BY <1>10 DEF ClearCheckpoint
        <3>2. QED
            BY <2>2, <3>1, TailOfCalls
    <2>5. pc' = IF Len(calls) = 1 THEN "finish" ELSE "open"
        BY <1>10 DEF ClearCheckpoint
    <2>6. MergeTypeOK'
        BY <1>0, <1>10, <2>3, <2>4, <2>5 DEF ClearCheckpoint, MergeTypeOK
    <2>7. Short'
        BY <1>0, <2>4 DEF Short
    <2>8. ChunkFiles' /\ Bounds'
        BY <1>0, <1>10, <2>1, <2>4, <2>5 DEF ClearCheckpoint, ChunkFiles, Bounds
    <2>9. QED
        BY <2>6, <2>7, <2>8
<1>11. CASE Finish
    <2> DEFINE moved == IF stages = 1 THEN [files EXCEPT ![Out] = files[StageOut(1)],
                                                         ![StageOut(1)] = Absent]
                        ELSE files
    <2>1. PICK kept \in SUBSET (1 .. stages) :
             files' = [f \in File |-> IF \E k \in (1 .. stages) \ kept : f = StageOut(k)
                                      THEN Absent ELSE moved[f]]
        BY <1>11 DEF Finish
    <2>2. /\ moved \in [File -> Seq(Piece) \cup {Absent}]
          /\ \A c \in Chunk : moved[c] = files[c]
        <3>1. StageOut(1) \in File /\ StageOut(1) \notin Chunk /\ Out \in File /\ Out \notin Chunk
            BY FileNames
        <3>2. QED
            BY <1>0, <3>1, FileNames DEF MergeTypeOK
    <2> HIDE DEF moved
    <2>3. files' \in [File -> Seq(Piece) \cup {Absent}]
        BY <2>1, <2>2
    <2>4. \A c \in Chunk : files'[c] = files[c] \/ files'[c] = Absent
        BY <2>1, <2>2, FileNames
    <2>5. MergeTypeOK'
        <3>1. /\ pc' = "idle" /\ stages' = 0 /\ resume' = 0 /\ done' = "completed"
              /\ UNCHANGED <<payload, partial, ckpt, pos, calls, attempts, fresh, expected, stale>>
            BY <1>11 DEF Finish
        <3>2. QED
            BY <1>0, <2>3, <3>1 DEF MergeTypeOK
    <2>6. ChunkFiles' /\ Short' /\ Bounds'
        BY <1>0, <1>11, <2>4 DEF Finish, ChunkFiles, Short, Bounds
    <2>7. QED
        BY <2>5, <2>6
<1>12. CASE Abort
    BY <1>0, <1>12, <1>e DEF Abort, MergeTypeOK
<1>13. CASE UNCHANGED vars
    <2>1. MergeTypeOK'
        BY <1>0, <1>13 DEF MergeTypeOK
    <2>2. ChunkFiles' /\ Short' /\ Bounds'
        BY <1>0, <1>13 DEF ChunkFiles, Short, Bounds, list, dest
    <2>3. QED
        BY <2>1, <2>2
<1>14. QED
    BY <1>1, <1>2, <1>3, <1>4, <1>5, <1>6, <1>7, <1>8, <1>9, <1>10, <1>11, <1>12, <1>13
       DEF Next

\* Types of the merge's state, the bounds of its lists and of the positions in
\* them, for any number of chunks and any size of a stage.
THEOREM MergeInvariant == Spec => []MergeInv
<1>1. Init => MergeInv
    BY MergeInvInit
<1>2. MergeInv /\ [Next]_vars => MergeInv'
    BY MergeInvStep
<1>3. QED
    BY <1>1, <1>2, PTL DEF Spec

\* Every variable of the merge keeps its type; in particular the checkpoint
\* never exceeds the number of chunks.
THEOREM MergeTypeCorrect == Spec => []MergeTypeOK
<1>1. MergeInv => MergeTypeOK
    BY DEF MergeInv
<1>2. QED
    BY <1>1, MergeInvariant, PTL

-----------------------------------------------------------------------------
(* Plain merges                                                            *)

\* Up to chunk m, every chunk of F is in s, whole and in order.
Has(F, s, m) ==
    \A c, d \in F : c <= d /\ d <= m =>
        \E p, q \in DOMAIN s : p <= q /\ s[p] = Whole(c) /\ s[q] = Whole(d)

Intact == \A c \in payload.full : files[c] # Absent

FullFile(s) == s # Absent /\ Has(payload.full, s, N)

\* The only call is the sequential merge of the payload's list.
PlainCall ==
    /\ stages = 0
    /\ calls # <<>> =>
          /\ Len(calls) = 1
          /\ dest = Out
          /\ Len(list) = N
          /\ \A i \in Chunk : list[i].path = i /\ list[i].index = i - 1

\* The partial file has the chunks that the checkpoint, resumeIndex and the
\* position in the loop say it has.
PlainProgress ==
    /\ partial[Out] # Absent => Has(payload.full, partial[Out], ckpt[Out])
    /\ pc = "open" => Intact
    /\ pc \in {"copy", "save"} =>
          /\ Intact
          /\ Has(payload.full, partial[Out], resume)
          /\ Has(payload.full, partial[Out], IF pc = "copy" THEN pos - 1 ELSE pos)
    /\ pc = "cleanup" => FullFile(partial[Out])

\* The data is in the chunks, in the partial file or in the output.
PlainSafe ==
    /\ pc \in {"clear", "finish"} \/ done = "completed" => FullFile(files[Out])
    /\ Intact \/ FullFile(partial[Out]) \/ FullFile(files[Out])

\* The inductive invariant of plain merges, while no checkpoint outlived its
\* partial file.
PlainInv == Plain /\ ~stale => PlainCall /\ PlainProgress /\ PlainSafe

\* What is appended after it does not hide a chunk.
LEMMA HasExtend ==
    ASSUME NEW F \in SUBSET Chunk, NEW s \in Seq(Piece), NEW t \in Seq(Piece),
           NEW m \in Int, Has(F, s, m)
    PROVE  Has(F, s \o t, m)
<1>1. \A p \in DOMAIN s : p \in DOMAIN (s \o t) /\ (s \o t)[p] = s[p]
    OBVIOUS
<1>2. QED
    BY <1>1 DEF Has

\* The next chunk, appended.
LEMMA HasNext ==
    ASSUME NEW F \in SUBSET Chunk, NEW s \in Seq(Piece), NEW m \in Int,
           Has(F, s, m - 1), m \in F
    PROVE  Has(F, s \o <<Whole(m)>>, m)
<1> DEFINE u == s \o <<Whole(m)>>
           z == Len(s) + 1
<1> \A c \in F : c \in Int
    BY MergeAssumption DEF Chunk
<1>1. /\ \A p \in DOMAIN s : p \in DOMAIN u /\ u[p] = s[p] /\ p <= z
      /\ z \in DOMAIN u /\ u[z] = Whole(m) /\ z <= z
    <2>1. Len(s) \in Nat /\ DOMAIN s = 1 .. Len(s)
        OBVIOUS
    <2>2. <<Whole(m)>> \in Seq(Piece)
        BY DEF Whole, Piece
    <2>3. QED
        BY <2>1, <2>2
<1> HIDE DEF u, z
<1>2. ASSUME NEW c \in F, NEW d \in F, c <= d, d <= m
      PROVE  \E p, q \in DOMAIN u : p <= q /\ u[p] = Whole(c) /\ u[q] = Whole(d)
    <2>1. CASE d <= m - 1
        <3>1. PICK p \in DOMAIN s, q \in DOMAIN s :
                 p <= q /\ s[p] = Whole(c) /\ s[q] = Whole(d)
            BY <1>2, <2>1 DEF Has
        <3>2. QED
            BY <1>1, <3>1
    <2>2. CASE d = m /\ c <= m - 1
        <3>1. PICK p \in DOMAIN s : s[p] = Whole(c)
            BY <2>2 DEF Has
        <3>2. QED
            BY <1>1, <2>2, <3>1
    <2>3. CASE d = m /\ c = m
        BY <1>1, <2>3
    <2>4. QED
        BY <1>2, <2>1, <2>2, <2>3
<1>3. QED
    BY <1>2 DEF Has, u

\* A chunk that is empty or missing is passed over.
LEMMA HasSkip ==
    ASSUME NEW F \in SUBSET Chunk, NEW s, NEW m \in Int, Has(F, s, m - 1), m \notin F
    PROVE  Has(F, s, m)
<1> \A c \in F : c \in Int
    BY MergeAssumption DEF Chunk
<1>1. ASSUME NEW c \in F, NEW d \in F, c <= d, d <= m
      PROVE  \E p, q \in DOMAIN s : p <= q /\ s[p] = Whole(c) /\ s[q] = Whole(d)
    <2>1. d <= m - 1
        BY <1>1
    <2>2. QED
        BY <1>1, <2>1 DEF Has
<1>2. QED
    BY <1>1 DEF Has

\* Fewer chunks are there too.
LEMMA HasLess ==
    ASSUME NEW F \in SUBSET Chunk, NEW s, NEW m \in Int, NEW n \in Int,
           Has(F, s, m), n <= m
    PROVE  Has(F, s, n)
<1> \A c \in F : c \in Int
    BY MergeAssumption DEF Chunk
<1>1. QED
    BY DEF Has

\* A delivery of a plain merge has one call, for the whole list.
LEMMA PlainDeliver ==
    ASSUME MergeInv, Plain, Deliver
    PROVE  PlainCall' /\ Intact
<1> N \in Nat
    BY MergeAssumption DEF MergeAssumption
<1>1. Present = Chunk /\ ~payload.tree /\ payload.skipped = {}
    BY DEF Deliver, Plain
<1>2. Active = Chunk
    BY <1>1 DEF Active
<1>3. /\ ActiveChunks \in Seq(Item) /\ Len(ActiveChunks) = N
      /\ \A i \in Chunk : ActiveChunks[i].path = i /\ ActiveChunks[i].index = i - 1
    <2>1. Cardinality(Chunk) = N
        BY InOrderAll
    <2>2. \A i \in Chunk : i \in 1 .. Cardinality(Active)
        BY <1>2, <2>1 DEF Chunk
    <2>3. QED
        BY <1>2, <2>1, <2>2, ActiveChunksFacts, InOrderAll
<1>4. calls' = <<[dest |-> Out, list |-> ActiveChunks]>> /\ stages' = 0
    BY <1>1 DEF Deliver
<1>5. dest' = Out /\ list' = ActiveChunks /\ Len(calls') = 1
    BY <1>4 DEF dest, list
<1>6. PlainCall'
    BY <1>3, <1>4, <1>5 DEF PlainCall
<1>7. Intact
    BY <1>1 DEF Intact, Present, MergeInv, MergeTypeOK
<1>8. QED
    BY <1>6, <1>7

\* The initial state of a plain merge has its data in the chunks.
LEMMA PlainInit == Init => PlainInv
<1> SUFFICES ASSUME Init
             PROVE  PlainInv
    OBVIOUS
<1>1. ASSUME NEW c \in payload.full
      PROVE  files[c] # Absent
    <2>1. c \in Chunk /\ c \in File
        BY FileNames DEF Init
    <2>2. <<Whole(c)>> \in Seq(Piece)
        BY <2>1 DEF Whole, Piece
    <2>3. QED
        BY <2>1, <2>2, AbsentFacts DEF Init
<1>2. partial[Out] = Absent
    BY FileNames DEF Init
<1>3. QED
    BY <1>1, <1>2 DEF Init, PlainInv, PlainCall, PlainProgress, PlainSafe, Intact

\* Every step of a plain merge keeps it.
LEMMA PlainStep ==
    ASSUME MergeInv, MergeInv', PlainInv, [Next]_vars
    PROVE  PlainInv'
<1> USE DEF vars, callVars, diskVars, histVars
<1> N \in Nat \ {0}
    BY MergeAssumption DEF MergeAssumption
<1>p. payload' = payload
    BY DEF Next, Deliver, OpenPartial, SkipChunk, CopyChunk, TornCopy, SaveCheckpoint,
       BeginCleanup, CleanupChunk, RenameOutput, ClearCheckpoint, Finish, Abort, Ended
<1>s. stale => stale'
    BY DEF Next, Deliver, OpenPartial, SkipChunk, CopyChunk, TornCopy, SaveCheckpoint,
       BeginCleanup, CleanupChunk, RenameOutput, ClearCheckpoint, Finish, Abort, Ended
<1> SUFFICES ASSUME Plain, ~stale'
             PROVE  PlainCall' /\ PlainProgress' /\ PlainSafe'
    BY <1>p DEF PlainInv, Plain
<1>0. PlainCall /\ PlainProgress /\ PlainSafe /\ ~stale
    BY <1>s DEF PlainInv
<1> DEFINE F == payload.full
<1>f. F \in SUBSET Chunk
    BY DEF MergeInv, MergeTypeOK
<1>t. /\ partial[Out] \in Seq(Piece) \cup {Absent} /\ ckpt[Out] \in 0 .. N
      /\ files[Out] \in Seq(Piece) \cup {Absent}
      /\ pos \in 1 .. N + 1 /\ resume \in 0 .. N
    BY FileNames DEF MergeInv, MergeTypeOK
<1>c. pc \notin {"idle", "finish"} =>
         /\ dest = Out /\ Len(list) = N /\ Len(calls) = 1
         /\ \A i \in Chunk : list[i].path = i /\ list[i].index = i - 1
    BY <1>0 DEF MergeInv, MergeTypeOK, PlainCall
<1>k. UNCHANGED <<calls, stages>> => PlainCall'
    BY <1>0 DEF PlainCall, dest, list
<1>u. ASSUME UNCHANGED <<files, partial>>, done' = "completed" => done = "completed",
             pc' \in {"clear", "finish"} => pc \in {"clear", "finish"}
      PROVE  PlainSafe'
    BY <1>0, <1>p, <1>u DEF PlainSafe, Intact, FullFile
<1>1. CASE Deliver
    <2>1. PlainCall' /\ Intact
        BY <1>1, PlainDeliver
    <2>2. UNCHANGED <<payload, files, partial, ckpt>> /\ pc' = "open" /\ done' = "running"
        BY <1>1 DEF Deliver
    <2>3. PlainProgress'
        BY <1>0, <2>1, <2>2 DEF PlainProgress, Intact
    <2>4. QED
        BY <1>u, <2>1, <2>2, <2>3
<1>2. CASE OpenPartial
    <2>1. pc = "open" /\ dest = Out
        BY <1>2, <1>c DEF OpenPartial
    <2>2. /\ resume' = ckpt[Out] /\ pos' = 1 /\ pc' = "copy"
          /\ UNCHANGED <<files, ckpt, calls, stages, done>>
          /\ ckpt[Out] # 0 => partial[Out] # Absent
        BY <1>2, <2>1 DEF OpenPartial
    <2>3. partial'[Out] = IF partial[Out] = Absent THEN <<>> ELSE partial[Out]
        BY <1>2, <2>1, FileNames DEF OpenPartial, MergeInv, MergeTypeOK
    <2>4. ASSUME NEW s
          PROVE  Has(F, s, 0)
        <3>1. \A c \in F : c \in Nat /\ c > 0
            BY <1>f DEF Chunk
        <3>2. QED
            BY <3>1 DEF Has
    <2>5. Has(F, partial'[Out], ckpt[Out])
        <3>1. CASE partial[Out] = Absent
            BY <2>2, <2>4, <3>1
        <3>2. CASE partial[Out] # Absent
            BY <1>0, <2>3, <3>2 DEF PlainProgress
        <3>3. QED
            BY <3>1, <3>2
    <2>6. PlainProgress'
        BY <1>0, <1>p, <2>1, <2>2, <2>4, <2>5 DEF PlainProgress, Intact
    <2>7. PlainSafe'
        BY <1>0, <1>p, <2>1, <2>2 DEF PlainProgress, PlainSafe, Intact, FullFile
    <2>8. QED
        BY <1>k, <2>2, <2>6, <2>7
<1>3. CASE SkipChunk
    <2>1. /\ pc = "copy" /\ pos <= Len(list) /\ ~ToCopy /\ pos' = pos + 1
          /\ UNCHANGED <<files, partial, ckpt, done, pc, calls, stages, resume>>
        BY <1>3 DEF SkipChunk
    <2>2. pos \in Chunk /\ list[pos].path = pos
        BY <1>t, <1>c, <2>1 DEF Chunk
    <2>3. Has(F, partial[Out], pos)
        <3>1. CASE pos - 1 < resume
            <4>1. pos <= resume
                BY <1>t, <3>1
            <4>2. QED
                BY <1>0, <1>f, <1>t, <2>1, <4>1, HasLess DEF PlainProgress
        <3>2. CASE files[pos] \in {Absent, <<>>}
            <4>1. pos \notin F
                <5>1. SUFFICES ASSUME pos \in F
                               PROVE  FALSE
                    OBVIOUS
                <5>2. files[pos] # Absent
                    BY <1>0, <2>1, <5>1 DEF PlainProgress, Intact
                <5>3. files[pos] = WholeSeq({pos} \cap payload.full) /\ {pos} \cap payload.full = {pos}
                    BY <2>2, <5>1, <5>2 DEF MergeInv
                <5>4. QED
                    BY <2>2, <3>2, <5>2, <5>3, WholeSeqEmpty
            <4>2. Has(F, partial[Out], pos - 1)
                BY <1>0, <2>1 DEF PlainProgress
            <4>3. QED
                BY <1>f, <1>t, <4>1, <4>2, HasSkip
        <3>3. QED
            BY <1>t, <2>1, <2>2, <3>1, <3>2 DEF ToCopy
    <2>4. pos' - 1 = pos
        BY <1>t, <2>1
    <2>5. PlainProgress'
        BY <1>0, <1>p, <2>1, <2>3, <2>4 DEF PlainProgress, Intact
    <2>6. QED
        BY <1>k, <1>u, <2>1, <2>5
<1>4. CASE CopyChunk
    <2>1. /\ pc = "copy" /\ pos <= Len(list)
          /\ files[list[pos].path] \notin {Absent, <<>>}
          /\ partial' = [partial EXCEPT ![dest] = @ \o files[list[pos].path]]
          /\ pc' = "save"
          /\ UNCHANGED <<files, ckpt, pos, calls, stages, resume, done>>
        BY <1>4 DEF CopyChunk, ToCopy
    <2>2. pos \in Chunk /\ list[pos].path = pos /\ dest = Out
        BY <1>t, <1>c, <2>1 DEF Chunk
    <2>3. partial[Out] \in Seq(Piece)
        BY <1>t, <2>1, <2>2 DEF MergeInv
    <2>4. pos \in F /\ files[pos] = <<Whole(pos)>>
        <3>1. files[pos] = WholeSeq({pos} \cap payload.full)
            BY <2>1, <2>2 DEF MergeInv
        <3>2. {pos} \cap payload.full # {}
            BY <2>1, <2>2, <3>1, WholeSeqEmpty
        <3>3. {pos} \cap payload.full = {pos}
            BY <3>2
        <3>4. QED
            BY <2>2, <3>1, <3>3, WholeSeqOne
    <2>5. partial'[Out] = partial[Out] \o <<Whole(pos)>> /\ <<Whole(pos)>> \in Seq(Piece)
        <3>1. partial'[Out] = partial[Out] \o <<Whole(pos)>>
            BY <2>1, <2>2, <2>4, FileNames DEF MergeInv, MergeTypeOK
        <3>2. QED
            BY <2>2, <3>1 DEF Whole, Piece
    <2>6. \A m \in Int : Has(F, partial[Out], m) => Has(F, partial'[Out], m)
        BY <1>f, <2>3, <2>5, HasExtend
    <2>7. Has(F, partial'[Out], pos)
        <3>1. Has(F, partial[Out], pos - 1) /\ pos \in Int
            BY <1>0, <1>t, <2>1 DEF PlainProgress
        <3>2. QED
            BY <1>f, <2>3, <2>4, <2>5, <3>1, HasNext
    <2>8. PlainProgress'
        <3>1. Has(F, partial'[Out], ckpt[Out]) /\ Has(F, partial'[Out], resume)
            BY <1>0, <1>t, <2>1, <2>3, <2>6, AbsentFacts DEF PlainProgress
        <3>2. Intact
            BY <1>0, <2>1 DEF PlainProgress
        <3>3. QED
            BY <1>p, <2>1, <2>7, <3>1, <3>2 DEF PlainProgress, Intact
    <2>9. PlainSafe'
        BY <1>0, <1>p, <2>1 DEF PlainProgress, PlainSafe, Intact, FullFile
    <2>10. QED
        BY <1>k, <2>1, <2>8, <2>9
<1>e. ASSUME Ended, UNCHANGED <<files, ckpt>>,
             partial'[Out] = Absent <=> partial[Out] = Absent,
             \A m \in Int : partial[Out] # Absent =>
                (Has(F, partial[Out], m) => Has(F, partial'[Out], m))
      PROVE  PlainCall' /\ PlainProgress' /\ PlainSafe'
    <2>1. PlainCall'
        BY <1>e DEF Ended, PlainCall
    <2>2. PlainProgress'
        BY <1>0, <1>p, <1>t, <1>e DEF Ended, PlainProgress
    <2>3. PlainSafe'
        BY <1>0, <1>p, <1>e DEF Ended, PlainSafe, Intact, FullFile
    <2>4. QED
        BY <2>1, <2>2, <2>3
<1>5. CASE TornCopy
    <2> DEFINE s == files[list[pos].path]
    <2>1. /\ pc = "copy" /\ pos <= Len(list) /\ s # Absent
          /\ Ended /\ UNCHANGED <<files, ckpt>>
        BY <1>5 DEF TornCopy, ToCopy
    <2>2. PICK k \in 0 .. Len(s) - 1 :
             partial' = [partial EXCEPT ![dest] = @ \o SubSeq(s, 1, k) \o <<Part(s[k + 1].chunk)>>]
        BY <1>5 DEF TornCopy
    <2>3. pos \in Chunk /\ list[pos].path = pos /\ dest = Out
        BY <1>t, <1>c, <2>1 DEF Chunk
    <2>4. s \in Seq(Piece) /\ partial[Out] \in Seq(Piece)
        BY <1>t, <2>1, <2>3, FileNames DEF MergeInv, MergeTypeOK
    <2>5. partial'[Out] = partial[Out] \o SubSeq(s, 1, k) \o <<Part(s[k + 1].chunk)>>
        BY <2>2, <2>3, FileNames DEF MergeInv, MergeTypeOK
    <2> HIDE DEF s
    <2>6. k \in Nat /\ k + 1 \in 1 .. Len(s)
        BY <2>4
    <2>7. SubSeq(s, 1, k) \in Seq(Piece) /\ <<Part(s[k + 1].chunk)>> \in Seq(Piece)
        <3>1. \A i \in 1 .. k : s[i] \in Piece
            BY <2>4, <2>6
        <3>2. s[k + 1] \in Piece
            BY <2>4, <2>6
        <3>3. Part(s[k + 1].chunk) \in Piece
            BY <3>2 DEF Part, Piece
        <3>4. QED
            BY <2>6, <3>1, <3>3, SubSeqProperties
    <2>8. \A m \in Int : Has(F, partial[Out], m) => Has(F, partial'[Out], m)
        <3>1. TAKE m \in Int
        <3>2. partial[Out] \o SubSeq(s, 1, k) \in Seq(Piece)
            BY <2>4, <2>7
        <3>3. Has(F, partial[Out], m) => Has(F, partial[Out] \o SubSeq(s, 1, k), m)
            BY <1>f, <2>4, <2>7, HasExtend
        <3>4. QED
            BY <1>f, <2>5, <2>7, <3>2, <3>3, HasExtend
    <2>9. partial'[Out] # Absent /\ partial[Out] # Absent
        <3>1. partial'[Out] \in Seq(Piece)
            BY <2>4, <2>5, <2>7
        <3>2. QED
            BY <2>4, <3>1, AbsentFacts
    <2>10. QED
        BY <1>e, <2>1, <2>8, <2>9
<1>6. CASE SaveCheckpoint
    <2>1. /\ pc = "save" /\ pc' = "copy" /\ pos' = pos + 1
          /\ UNCHANGED <<files, partial, calls, stages, resume, done>>
        BY <1>6 DEF SaveCheckpoint
    <2>2. pos \in Chunk /\ dest = Out /\ list[pos].index + 1 = pos
        BY <1>t, <1>c, <2>1 DEF Chunk, MergeInv
    <2>3. Has(F, partial[Out], pos) /\ pos' - 1 = pos
        BY <1>0, <1>t, <2>1 DEF PlainProgress
    <2>4. partial[Out] # Absent => Has(F, partial[Out], ckpt'[Out])
        <3>1. CASE ckpt' = [ckpt EXCEPT ![dest] = list[pos].index + 1]
            <4>1. ckpt'[Out] = pos
                BY <2>2, <3>1, FileNames DEF MergeInv, MergeTypeOK
            <4>2. QED
                BY <2>3, <4>1
        <3>2. CASE UNCHANGED ckpt
            BY <1>0, <3>2 DEF PlainProgress
        <3>3. QED
            BY <1>6, <3>1, <3>2 DEF SaveCheckpoint
    <2>5. PlainProgress'
        BY <1>0, <1>p, <2>1, <2>3, <2>4 DEF PlainProgress, Intact
    <2>6. QED
        BY <1>k, <1>u, <2>1, <2>5
<1>7. CASE BeginCleanup
    <2>1. /\ pc = "copy" /\ pos > Len(list) /\ pc' = "cleanup"
          /\ UNCHANGED <<files, partial, ckpt, calls, stages, resume, done>>
        BY <1>7 DEF BeginCleanup
    <2>2. pos - 1 = N /\ dest = Out
        BY <1>t, <1>c, <2>1
    <2>3. FullFile(partial[Out])
        BY <1>0, <2>1, <2>2 DEF PlainProgress, FullFile, MergeInv
    <2>4. PlainProgress'
        BY <1>0, <1>p, <2>1, <2>3 DEF PlainProgress, FullFile
    <2>5. QED
        BY <1>k, <1>u, <2>1, <2>4
<1>8. CASE CleanupChunk
    <2>1. /\ pc = "cleanup" /\ pos <= Len(list)
          /\ UNCHANGED <<partial, ckpt, pc, calls, stages, resume, done>>
        BY <1>8 DEF CleanupChunk
    <2>2. done = "running"
        BY <2>1 DEF MergeInv
    <2>3. PlainProgress'
        BY <1>0, <1>p, <2>1 DEF PlainProgress, FullFile
    <2>4. PlainSafe'
        BY <1>0, <1>p, <2>1, <2>2 DEF PlainProgress, PlainSafe, FullFile
    <2>5. QED
        BY <1>k, <2>1, <2>3, <2>4
<1>9. CASE RenameOutput
    <2>1. /\ pc = "cleanup" /\ pc' = "clear"
          /\ files' = [files EXCEPT ![dest] = partial[dest]]
          /\ partial' = [partial EXCEPT ![dest] = Absent]
          /\ UNCHANGED <<ckpt, calls, stages, resume, done>>
        BY <1>9 DEF RenameOutput
    <2>2. dest = Out
        BY <1>c, <2>1
    <2>3. files'[Out] = partial[Out] /\ partial'[Out] = Absent
        BY <2>1, <2>2, FileNames DEF MergeInv, MergeTypeOK
    <2>4. FullFile(partial[Out])
        BY <1>0, <2>1 DEF PlainProgress
    <2>5. PlainProgress' /\ PlainSafe'
        BY <1>0, <1>p, <2>1, <2>3, <2>4 DEF PlainProgress, PlainSafe, FullFile
    <2>6. QED
        BY <1>k, <2>1, <2>5
<1>10. CASE ClearCheckpoint
    <2>1. /\ pc = "clear" /\ calls' = Tail(calls)
          /\ UNCHANGED <<files, partial, stages, done>>
        BY <1>10 DEF ClearCheckpoint
    <2>2. dest = Out /\ Len(calls) = 1
        BY <1>c, <2>1
    <2>3. calls' = <<>> /\ pc' = "finish"
        BY <1>10, <2>1, <2>2, TailOfCalls, CurrentCall DEF ClearCheckpoint, MergeInv
    <2>4. partial[Out] # Absent => Has(F, partial[Out], ckpt'[Out])
        <3>1. CASE ckpt' = [ckpt EXCEPT ![dest] = 0]
            <4>1. ckpt'[Out] = 0
                BY <2>2, <3>1, FileNames DEF MergeInv, MergeTypeOK
            <4>2. QED
                BY <1>0, <1>f, <1>t, <4>1, HasLess DEF PlainProgress
        <3>2. CASE UNCHANGED ckpt
            BY <1>0, <3>2 DEF PlainProgress
        <3>3. QED
            BY <1>10, <3>1, <3>2 DEF ClearCheckpoint
    <2>5. PlainCall'
        BY <1>0, <2>1, <2>3 DEF PlainCall
    <2>6. PlainProgress'
        BY <1>p, <2>1, <2>3, <2>4 DEF PlainProgress
    <2>7. QED
        BY <1>u, <2>1, <2>3, <2>5, <2>6
<1>11. CASE Finish
    <2>1. /\ pc = "finish" /\ pc' = "idle" /\ stages' = 0 /\ done' = "completed"
          /\ UNCHANGED <<partial, ckpt, calls>>
        BY <1>11 DEF Finish
    <2>2. stages = 0 /\ (1 .. stages) = {}
        BY <1>0 DEF PlainCall
    <2>3. files' = [f \in File |-> files[f]]
        BY <1>11, <2>2 DEF Finish
    <2>4. files' = files
        BY <2>3 DEF MergeInv, MergeTypeOK
    <2>5. PlainProgress' /\ PlainSafe'
        BY <1>0, <1>p, <2>1, <2>4 DEF PlainProgress, PlainSafe, Intact, FullFile
    <2>6. QED
        BY <1>k, <2>1, <2>2, <2>5
<1>12. CASE Abort
    BY <1>e, <1>12 DEF Abort
<1>13. CASE UNCHANGED vars
    <2>1. PlainProgress'
        BY <1>0, <1>13 DEF PlainProgress, Intact, FullFile
    <2>2. QED
        BY <1>k, <1>u, <1>13, <2>1
<1>14. QED
    BY <1>1, <1>2, <1>3, <1>4, <1>5, <1>6, <1>7, <1>8, <1>9, <1>10, <1>11, <1>12, <1>13
       DEF Next

\* What the checkpoint, resumeIndex and the position in the loop say of the
\* partial file of a plain merge is true, whatever was interrupted before.
THEOREM PlainInvariant == Spec => []PlainInv
<1>1. Init => PlainInv
    BY PlainInit
<1>2. MergeInv /\ MergeInv' /\ PlainInv /\ [Next]_vars => PlainInv'
    BY PlainStep
<1>3. QED
    BY <1>1, <1>2, MergeInvariant, PTL DEF Spec

\* No interruption and no repetition of a plain merge destroys data: every
\* non-empty chunk has a whole copy on the disk, for any number of chunks and of
\* deliveries, unless a checkpoint outlived its partial file.
THEOREM NothingDestroyedHolds == Spec => []NothingDestroyed
<1>1. MergeInv /\ PlainInv => NothingDestroyed
    <2>1. SUFFICES ASSUME MergeInv, PlainInv, Plain, ~stale, NEW c \in payload.full
                   PROVE  \/ \E f \in File : Whole(c) \in Contents(files[f])
                          \/ \E o \in Dest : Whole(c) \in Contents(partial[o])
        BY DEF NothingDestroyed
    <2>2. c \in Chunk /\ c \in File /\ c <= c /\ c <= N
        <3>1. c \in Chunk
            BY <2>1 DEF MergeInv, MergeTypeOK
        <3>2. QED
            BY <3>1, FileNames, MergeAssumption DEF MergeAssumption, Chunk
    <2>3. ASSUME NEW s, FullFile(s)
          PROVE  Whole(c) \in Contents(s)
        <3>1. PICK p \in DOMAIN s : s[p] = Whole(c)
            BY <2>2, <2>3 DEF FullFile, Has
        <3>2. QED
            BY <2>3, <3>1 DEF FullFile, Contents
    <2>4. CASE Intact
        <3>1. files[c] # Absent /\ {c} \cap payload.full = {c}
            BY <2>4 DEF Intact
        <3>2. files[c] = <<Whole(c)>>
            BY <2>1, <2>2, <3>1, WholeSeqOne DEF MergeInv
        <3>3. Whole(c) \in Contents(files[c])
            BY <3>1, <3>2 DEF Contents
        <3>4. QED
            BY <2>2, <3>3
    <2>5. QED
        BY <2>1, <2>3, <2>4, FileNames DEF PlainInv, PlainSafe
<1>2. QED
    BY <1>1, MergeInvariant, PlainInvariant, PTL

\* A plain merge is reported complete only of an output that has every non-empty
\* chunk, in order, after any number of interrupted deliveries.
THEOREM CompletedHasAllHolds == Spec => []CompletedHasAll
<1>1. MergeInv /\ PlainInv => CompletedHasAll
    <2>1. SUFFICES ASSUME MergeInv, PlainInv, Plain, ~stale, done = "completed",
                          NEW c \in payload.full, NEW d \in payload.full, c <= d
                   PROVE  \E p, q \in DOMAIN files[Out] :
                             p <= q /\ files[Out][p] = Whole(c) /\ files[Out][q] = Whole(d)
        BY DEF CompletedHasAll
    <2>2. d <= N
        <3>1. d \in Chunk
            BY <2>1 DEF MergeInv, MergeTypeOK
        <3>2. QED
            BY <3>1, MergeAssumption DEF MergeAssumption, Chunk
    <2>3. QED
        BY <2>1, <2>2 DEF PlainInv, PlainSafe, FullFile, Has
<1>2. QED
    BY <1>1, MergeInvariant, PlainInvariant, PTL

-----------------------------------------------------------------------------
(* Fresh merges                                                            *)

\* The chunks that the first n inputs of a call stand for, when M says what
\* each file stands for.
Upto(M, l, n) == UNION {M[l[i].path] : i \in 1 .. n}

\* The inputs of a call stand for what its output is to have, in order.
Joins(M, call) ==
    /\ M[call.dest] = Upto(M, call.list, Len(call.list))
    /\ \A i, j \in 1 .. Len(call.list) : i < j =>
          \A c \in M[call.list[i].path], d \in M[call.list[j].path] : c < d

\* A sequence q of calls whose last output is t: no two write one file, no file
\* is read twice, none is written after it was read, and t is to have what the
\* output is to have.
PlanOK(M, q, t) ==
    /\ \A k \in 1 .. Len(q) : Joins(M, q[k])
    /\ \A k, l \in 1 .. Len(q) : k # l => q[k].dest # q[l].dest
    /\ \A k, l \in 1 .. Len(q) : \A i \in 1 .. Len(q[k].list), j \in 1 .. Len(q[l].list) :
          q[k].list[i].path = q[l].list[j].path => k = l /\ i = j
    /\ \A k, l \in 1 .. Len(q) : k <= l =>
          \A i \in 1 .. Len(q[k].list) : q[k].list[i].path # q[l].dest
    /\ q # <<>> => q[Len(q)].dest = t
    /\ M[t] = M[Out]

\* The file from which the output is taken at the end.
Target == IF stages = 1 THEN StageOut(1) ELSE Out

\* An input is as planned, or will be written by an earlier call, or has been
\* used.
InputsOK(M) ==
    \A k \in 1 .. Len(calls) : \A i \in 1 .. Len(calls[k].list) :
        \/ files[calls[k].list[i].path] = WholeSeq(M[calls[k].list[i].path])
        \/ \E l \in 1 .. k - 1 : calls[l].dest = calls[k].list[i].path
        \/ k = 1 /\ pc = "cleanup" /\ i < pos
        \/ k = 1 /\ pc = "clear"

\* No partial file and no checkpoint of a call that has not begun.
NotBegun ==
    \A k \in 1 .. Len(calls) : k > 1 \/ pc = "open" =>
        partial[calls[k].dest] = Absent /\ ckpt[calls[k].dest] = 0

\* What the current call has written.
Written(M) ==
    /\ pc \in {"copy", "save"} => resume = 0
    /\ pc = "copy" => partial[dest] = WholeSeq(Upto(M, list, pos - 1))
    /\ pc = "save" => partial[dest] = WholeSeq(Upto(M, list, pos))
    /\ pc = "cleanup" => partial[dest] = WholeSeq(M[dest])
    /\ pc = "clear" => files[dest] = WholeSeq(M[dest])
    /\ pc = "finish" => files[Target] = WholeSeq(M[Out])

\* A fresh merge, M being the chunks that each file is to have.
FreshParts(M) ==
    /\ expected = WholeSeq(M[Out])
    /\ PlanOK(M, calls, Target)
    /\ InputsOK(M)
    /\ NotBegun
    /\ Written(M)

\* A fresh delivery under way carries out a plan of the chunks it found, and
\* one that has completed has written them.
FreshInv ==
    /\ fresh /\ pc # "idle" => \E M \in [File -> SUBSET Chunk] : FreshParts(M)
    /\ FreshMergeExact

\* The next input of a call adds the chunks it stands for.
LEMMA UptoFacts ==
    ASSUME NEW M \in [File -> SUBSET Chunk], NEW l \in Seq(Item)
    PROVE  /\ Upto(M, l, 0) = {}
           /\ \A n \in 0 .. Len(l) : Upto(M, l, n) \in SUBSET Chunk
           /\ \A n \in 1 .. Len(l) : Upto(M, l, n) = Upto(M, l, n - 1) \cup M[l[n].path]
<1>1. Len(l) \in Nat
    OBVIOUS
<1>2. \A i \in 1 .. Len(l) : l[i].path \in File
    <2>1. TAKE i \in 1 .. Len(l)
    <2>2. l[i] \in Item
        BY ElementOfSeq
    <2>3. QED
        BY <2>2 DEF Item
<1>3. Upto(M, l, 0) = {}
    BY DEF Upto
<1>4. ASSUME NEW n \in 0 .. Len(l)
      PROVE  Upto(M, l, n) \in SUBSET Chunk
    BY <1>1, <1>2 DEF Upto
<1>5. ASSUME NEW n \in 1 .. Len(l)
      PROVE  Upto(M, l, n) = Upto(M, l, n - 1) \cup M[l[n].path]
    <2>1. 1 .. n = (1 .. n - 1) \cup {n}
        BY <1>1
    <2>2. QED
        BY <2>1 DEF Upto
<1>6. QED
    BY <1>3, <1>4, <1>5

\* The chunks of the inputs before the n-th are below those of the n-th.
LEMMA UptoBelow ==
    ASSUME NEW M \in [File -> SUBSET Chunk], NEW call \in Call, Joins(M, call),
           NEW n \in 1 .. Len(call.list)
    PROVE  \A c \in Upto(M, call.list, n - 1), d \in M[call.list[n].path] : c < d
<1>1. SUFFICES ASSUME NEW c \in Upto(M, call.list, n - 1), NEW d \in M[call.list[n].path]
               PROVE  c < d
    OBVIOUS
<1>2. PICK i \in 1 .. n - 1 : c \in M[call.list[i].path]
    BY <1>1 DEF Upto
<1>3. i \in 1 .. Len(call.list) /\ i < n
    <2>1. Len(call.list) \in Nat
        BY DEF Call
    <2>2. QED
        BY <2>1
<1>4. QED
    BY <1>2, <1>3 DEF Joins

\* Types of the calls that are left.
LEMMA CallTypes ==
    ASSUME MergeTypeOK
    PROVE  /\ calls \in Seq(Call) /\ Len(calls) \in Nat
           /\ \A k \in 1 .. Len(calls) :
                 /\ calls[k] \in Call
                 /\ calls[k].dest \in Dest /\ calls[k].dest \in File
                 /\ Len(calls[k].list) \in Nat
                 /\ \A i \in 1 .. Len(calls[k].list) : calls[k].list[i].path \in File
<1>1. calls \in Seq(Call) /\ Len(calls) \in Nat
    BY DEF MergeTypeOK
<1>2. ASSUME NEW k \in 1 .. Len(calls)
      PROVE  /\ calls[k] \in Call
             /\ calls[k].dest \in Dest /\ calls[k].dest \in File
             /\ Len(calls[k].list) \in Nat
             /\ \A i \in 1 .. Len(calls[k].list) : calls[k].list[i].path \in File
    <2>1. calls[k] \in Call
        BY <1>1, ElementOfSeq
    <2>2. calls[k].dest \in Dest /\ calls[k].list \in Seq(Item)
        BY <2>1 DEF Call
    <2>3. ASSUME NEW i \in 1 .. Len(calls[k].list)
          PROVE  calls[k].list[i].path \in File
        <3>1. calls[k].list[i] \in Item
            BY <2>2, ElementOfSeq
        <3>2. QED
            BY <3>1 DEF Item
    <2>4. QED
        BY <2>1, <2>2, <2>3, FileNames
<1>3. QED
    BY <1>1, <1>2

\* A step of a fresh merge under way keeps its plan, and its end is exact.
LEMMA FreshStep ==
    ASSUME MergeInv, MergeInv', [Next]_vars, ~Deliver, fresh, pc # "idle",
           NEW M \in [File -> SUBSET Chunk], FreshParts(M)
    PROVE  /\ pc' # "idle" => FreshParts(M)'
           /\ FreshMergeExact'
<1> USE DEF vars, callVars, diskVars, histVars
<1> N \in Nat \ {0}
    BY MergeAssumption DEF MergeAssumption
<1>0. /\ expected = WholeSeq(M[Out]) /\ PlanOK(M, calls, Target) /\ InputsOK(M)
      /\ NotBegun /\ Written(M) /\ MergeTypeOK
    BY DEF FreshParts, MergeInv
<1>d. done = "running"
    BY DEF MergeInv
<1>t. /\ calls \in Seq(Call) /\ Len(calls) \in Nat
      /\ \A k \in 1 .. Len(calls) :
            /\ calls[k] \in Call
            /\ calls[k].dest \in Dest /\ calls[k].dest \in File
            /\ Len(calls[k].list) \in Nat
            /\ \A i \in 1 .. Len(calls[k].list) : calls[k].list[i].path \in File
    BY <1>0, CallTypes
<1>v. /\ partial \in [Dest -> Seq(Piece) \cup {Absent}] /\ ckpt \in [Dest -> 0 .. N]
      /\ files \in [File -> Seq(Piece) \cup {Absent}] /\ pos \in 1 .. N + 1
    BY DEF MergeInv, MergeTypeOK
<1>c. pc \notin {"idle", "finish"} =>
         /\ 1 \in 1 .. Len(calls)
         /\ dest = calls[1].dest /\ dest \in Dest /\ dest \in File
         /\ list = calls[1].list /\ list \in Seq(Item) /\ Len(list) \in Nat
         /\ Joins(M, calls[1])
    <2>1. SUFFICES ASSUME pc \notin {"idle", "finish"}
                   PROVE  /\ 1 \in 1 .. Len(calls)
                          /\ dest = calls[1].dest /\ dest \in Dest /\ dest \in File
                          /\ list = calls[1].list /\ list \in Seq(Item) /\ Len(list) \in Nat
                          /\ Joins(M, calls[1])
        OBVIOUS
    <2>2. 1 \in 1 .. Len(calls)
        BY <1>0, <1>t, <2>1, CurrentCall
    <2>3. QED
        BY <1>0, <2>1, <2>2, CurrentCall, FileNames DEF PlanOK
<1>k. UNCHANGED <<calls, stages>> => PlanOK(M, calls, Target)' /\ dest' = dest /\ list' = list
    BY <1>0 DEF Target, dest, list
<1>w. ASSUME NEW k \in 1 .. Len(calls), k > 1, pc \notin {"idle", "finish"}
      PROVE  /\ calls[k].dest # dest
             /\ partial[calls[k].dest] = Absent /\ ckpt[calls[k].dest] = 0
    BY <1>0, <1>c, <1>w DEF PlanOK, NotBegun
<1>2. CASE OpenPartial
    <2>1. /\ pc = "open" /\ pc' = "copy" /\ pos' = 1 /\ resume' = ckpt[dest]
          /\ partial' = [partial EXCEPT ![dest] = IF @ = Absent THEN <<>> ELSE @]
          /\ UNCHANGED <<payload, files, ckpt, calls, stages, done, expected>>
        BY <1>2 DEF OpenPartial
    <2>2. partial[dest] = Absent /\ ckpt[dest] = 0
        BY <1>0, <1>c, <2>1 DEF NotBegun
    <2>3. partial'[dest] = <<>> /\ \A o \in Dest : o # dest => partial'[o] = partial[o]
        BY <1>c, <1>v, <2>1, <2>2
    <2>4. WholeSeq(Upto(M, list, 0)) = <<>>
        BY <1>c, <2>1, UptoFacts, WholeSeqEmpty
    <2>5. Written(M)'
        BY <1>k, <2>1, <2>2, <2>3, <2>4 DEF Written
    <2>6. NotBegun'
        BY <1>t, <1>w, <2>1, <2>3 DEF NotBegun
    <2>7. InputsOK(M)'
        BY <1>0, <2>1 DEF InputsOK
    <2>8. QED
        BY <1>0, <1>d, <1>k, <2>1, <2>5, <2>6, <2>7 DEF FreshParts, FreshMergeExact
\* In the loop, the input at the current position is as planned.
<1>i. ASSUME pc \in {"copy", "save"}, NEW i \in 1 .. Len(list)
      PROVE  /\ files[list[i].path] = WholeSeq(M[list[i].path])
             /\ M[list[i].path] \in SUBSET Chunk
    <2>1. i \in 1 .. Len(calls[1].list) /\ list = calls[1].list
        BY <1>c, <1>i
    <2>2. calls[1].list[i].path \in File
        BY <1>c, <1>i, <1>t, <2>1
    <2>3. files[calls[1].list[i].path] = WholeSeq(M[calls[1].list[i].path])
        BY <1>0, <1>c, <1>i, <2>1 DEF InputsOK
    <2>4. QED
        BY <2>1, <2>2, <2>3
<1>3. CASE SkipChunk
    <2>1. /\ pc = "copy" /\ pc' = "copy" /\ pos <= Len(list) /\ ~ToCopy /\ pos' = pos + 1
          /\ UNCHANGED <<payload, files, partial, ckpt, calls, stages, resume, done, expected>>
        BY <1>3 DEF SkipChunk
    <2>2. pos \in 1 .. Len(list) /\ resume = 0 /\ pos - 1 >= 0 /\ pos' - 1 = pos
        BY <1>0, <1>c, <1>v, <2>1 DEF Written
    <2>3. files[list[pos].path] \in {Absent, <<>>}
        BY <2>1, <2>2 DEF ToCopy
    <2>4. M[list[pos].path] = {}
        BY <1>i, <2>1, <2>2, <2>3, WholeSeqFacts, WholeSeqEmpty
    <2>5. Upto(M, list, pos) = Upto(M, list, pos - 1)
        <3>1. Upto(M, list, pos) = Upto(M, list, pos - 1) \cup M[list[pos].path]
            BY <1>c, <2>1, <2>2, UptoFacts
        <3>2. QED
            BY <2>4, <3>1
    <2>6. Written(M)'
        BY <1>0, <1>k, <2>1, <2>2, <2>5 DEF Written
    <2>7. NotBegun' /\ InputsOK(M)'
        BY <1>0, <2>1 DEF NotBegun, InputsOK
    <2>8. QED
        BY <1>0, <1>d, <1>k, <2>1, <2>6, <2>7 DEF FreshParts, FreshMergeExact
<1>4. CASE CopyChunk
    <2>1. /\ pc = "copy" /\ pc' = "save" /\ pos <= Len(list)
          /\ partial' = [partial EXCEPT ![dest] = @ \o files[list[pos].path]]
          /\ UNCHANGED <<payload, files, ckpt, pos, calls, stages, resume, done, expected>>
        BY <1>4 DEF CopyChunk, ToCopy
    <2>2. pos \in 1 .. Len(list) /\ pos - 1 \in 0 .. Len(list)
        BY <1>c, <1>v, <2>1
    <2>3. /\ partial'[dest] = WholeSeq(Upto(M, list, pos - 1)) \o WholeSeq(M[list[pos].path])
          /\ \A o \in Dest : o # dest => partial'[o] = partial[o]
        BY <1>0, <1>c, <1>i, <1>v, <2>1, <2>2 DEF Written
    <2>4. \A c \in Upto(M, list, pos - 1), d \in M[list[pos].path] : c < d
        BY <1>c, <1>t, <2>1, <2>2, UptoBelow
    <2>5. Upto(M, list, pos - 1) \in SUBSET Chunk /\ M[list[pos].path] \in SUBSET Chunk
        BY <1>c, <1>i, <2>1, <2>2, UptoFacts
    <2>6. Upto(M, list, pos) = Upto(M, list, pos - 1) \cup M[list[pos].path]
        BY <1>c, <2>1, <2>2, UptoFacts
    <2>7. partial'[dest] = WholeSeq(Upto(M, list, pos))
        BY <2>3, <2>4, <2>5, <2>6, WholeSeqConcat
    <2>8. Written(M)'
        BY <1>0, <1>k, <2>1, <2>7 DEF Written
    <2>9. NotBegun'
        BY <1>t, <1>w, <2>1, <2>3 DEF NotBegun
    <2>10. InputsOK(M)'
        BY <1>0, <2>1 DEF InputsOK
    <2>11. QED
        BY <1>0, <1>d, <1>k, <2>1, <2>8, <2>9, <2>10 DEF FreshParts, FreshMergeExact
<1>5. CASE TornCopy \/ Abort
    BY <1>5 DEF TornCopy, Abort, Ended, FreshMergeExact
<1>6. CASE SaveCheckpoint
    <2>1. /\ pc = "save" /\ pc' = "copy" /\ pos' = pos + 1
          /\ UNCHANGED <<payload, files, partial, calls, stages, resume, done, expected>>
        BY <1>6 DEF SaveCheckpoint
    <2>2. \A o \in Dest : o # dest => ckpt'[o] = ckpt[o]
        BY <1>c, <1>v, <1>6, <2>1 DEF SaveCheckpoint
    <2>3. pos' - 1 = pos
        BY <1>v, <2>1
    <2>4. Written(M)'
        BY <1>0, <1>k, <2>1, <2>3 DEF Written
    <2>5. NotBegun'
        BY <1>t, <1>w, <2>1, <2>2 DEF NotBegun
    <2>6. InputsOK(M)'
        BY <1>0, <2>1 DEF InputsOK
    <2>7. QED
        BY <1>0, <1>d, <1>k, <2>1, <2>4, <2>5, <2>6 DEF FreshParts, FreshMergeExact
<1>7. CASE BeginCleanup
    <2>1. /\ pc = "copy" /\ pc' = "cleanup" /\ pos > Len(list)
          /\ UNCHANGED <<payload, files, partial, ckpt, calls, stages, resume, done, expected>>
        BY <1>7 DEF BeginCleanup
    <2>2. pos - 1 = Len(list)
        BY <1>c, <1>v, <2>1 DEF MergeInv
    <2>3. M[dest] = Upto(M, list, Len(list))
        BY <1>c, <2>1 DEF Joins
    <2>4. Written(M)'
        BY <1>0, <1>k, <2>1, <2>2, <2>3 DEF Written
    <2>5. NotBegun'
        BY <1>0, <2>1 DEF NotBegun
    <2>6. InputsOK(M)'
        BY <1>0, <2>1 DEF InputsOK
    <2>7. QED
        BY <1>0, <1>d, <1>k, <2>1, <2>4, <2>5, <2>6 DEF FreshParts, FreshMergeExact
<1>8. CASE CleanupChunk
    <2>1. /\ pc = "cleanup" /\ pc' = "cleanup" /\ pos <= Len(list) /\ pos' = pos + 1
          /\ UNCHANGED <<payload, partial, ckpt, calls, stages, resume, done, expected>>
        BY <1>8 DEF CleanupChunk
    <2>2. \A f \in File : f # list[pos].path => files'[f] = files[f]
        BY <1>v, <1>8 DEF CleanupChunk
    <2>3. pos \in 1 .. Len(list) /\ pos \in Nat
        BY <1>c, <1>v, <2>1
    <2>4. ASSUME NEW k \in 1 .. Len(calls), NEW i \in 1 .. Len(calls[k].list), ~(k = 1 /\ i = pos)
          PROVE  files'[calls[k].list[i].path] = files[calls[k].list[i].path]
        <3>1. calls[k].list[i].path # list[pos].path
            BY <1>0, <1>c, <2>1, <2>3, <2>4 DEF PlanOK
        <3>2. QED
            BY <1>t, <2>2, <3>1
    <2>5. InputsOK(M)'
        <3>1. SUFFICES ASSUME NEW k \in 1 .. Len(calls), NEW i \in 1 .. Len(calls[k].list)
                       PROVE  \/ files'[calls[k].list[i].path] = WholeSeq(M[calls[k].list[i].path])
                              \/ \E l \in 1 .. k - 1 : calls[l].dest = calls[k].list[i].path
                              \/ k = 1 /\ i < pos'
            BY <2>1 DEF InputsOK
        <3>2. i \in Nat
            BY <1>t
        <3>3. CASE k = 1 /\ i <= pos
            BY <2>1, <2>3, <3>2, <3>3
        <3>4. CASE ~(k = 1 /\ i <= pos)
            <4>1. ~(k = 1 /\ i = pos) /\ ~(k = 1 /\ i < pos)
                BY <2>3, <3>2, <3>4
            <4>2. QED
                BY <1>0, <2>1, <2>4, <4>1 DEF InputsOK
        <3>5. QED
            BY <3>3, <3>4
    <2>6. Written(M)'
        BY <1>0, <1>k, <2>1 DEF Written
    <2>7. NotBegun'
        BY <1>0, <2>1 DEF NotBegun
    <2>8. QED
        BY <1>0, <1>d, <1>k, <2>1, <2>5, <2>6, <2>7 DEF FreshParts, FreshMergeExact
<1>9. CASE RenameOutput
    <2>1. /\ pc = "cleanup" /\ pc' = "clear"
          /\ files' = [files EXCEPT ![dest] = partial[dest]]
          /\ partial' = [partial EXCEPT ![dest] = Absent]
          /\ UNCHANGED <<payload, ckpt, calls, stages, resume, done, expected>>
        BY <1>9 DEF RenameOutput
    <2>2. /\ files'[dest] = WholeSeq(M[dest])
          /\ \A f \in File : f # dest => files'[f] = files[f]
          /\ \A o \in Dest : o # dest => partial'[o] = partial[o]
        BY <1>0, <1>c, <1>v, <2>1 DEF Written
    <2>3. InputsOK(M)'
        <3>1. SUFFICES ASSUME NEW k \in 1 .. Len(calls), NEW i \in 1 .. Len(calls[k].list)
                       PROVE  \/ files'[calls[k].list[i].path] = WholeSeq(M[calls[k].list[i].path])
                              \/ \E l \in 1 .. k - 1 : calls[l].dest = calls[k].list[i].path
                              \/ k = 1
            BY <2>1 DEF InputsOK
        <3>2. CASE calls[k].list[i].path = dest
            BY <2>2, <3>2
        <3>3. CASE calls[k].list[i].path # dest
            BY <1>0, <1>t, <2>2, <3>3 DEF InputsOK
        <3>4. QED
            BY <3>2, <3>3
    <2>4. Written(M)'
        BY <1>k, <2>1, <2>2 DEF Written
    <2>5. NotBegun'
        BY <1>t, <1>w, <2>1, <2>2 DEF NotBegun
    <2>6. QED
        BY <1>0, <1>d, <1>k, <2>1, <2>3, <2>4, <2>5 DEF FreshParts, FreshMergeExact
<1>10. CASE ClearCheckpoint
    <2>1. /\ pc = "clear" /\ calls' = Tail(calls)
          /\ pc' = IF Len(calls) = 1 THEN "finish" ELSE "open"
          /\ UNCHANGED <<payload, files, partial, pos, stages, resume, done, expected>>
        BY <1>10 DEF ClearCheckpoint
    <2>2. files[dest] = WholeSeq(M[dest])
        BY <1>0, <2>1 DEF Written
    <2>3. /\ Len(calls') = Len(calls) - 1
          /\ calls' = <<>> <=> Len(calls) = 1
          /\ \A k \in 1 .. Len(calls') : k + 1 \in 1 .. Len(calls) /\ calls'[k] = calls[k + 1]
        <3>1. calls # <<>>
            BY <1>c, <1>t, <2>1
        <3>2. QED
            BY <1>t, <2>1, <3>1, TailOfCalls
    <2>4. \A o \in Dest : o # dest => ckpt'[o] = ckpt[o]
        BY <1>c, <1>v, <1>10, <2>1 DEF ClearCheckpoint
    <2>5. PlanOK(M, calls', Target)
        <3>1. \A k \in 1 .. Len(calls') : Joins(M, calls'[k])
            BY <1>0, <2>3 DEF PlanOK
        <3>2. \A k, l \in 1 .. Len(calls') : k # l => calls'[k].dest # calls'[l].dest
            <4>1. TAKE k, l \in 1 .. Len(calls')
            <4>2. HAVE k # l
            <4>3. k + 1 # l + 1
                BY <4>2
            <4>4. QED
                BY <1>0, <2>3, <4>3 DEF PlanOK
        <3>3. ASSUME NEW k \in 1 .. Len(calls'), NEW l \in 1 .. Len(calls'),
                     NEW i \in 1 .. Len(calls'[k].list), NEW j \in 1 .. Len(calls'[l].list),
                     calls'[k].list[i].path = calls'[l].list[j].path
              PROVE  k = l /\ i = j
            <4>1. /\ k + 1 \in 1 .. Len(calls) /\ calls'[k] = calls[k + 1]
                  /\ l + 1 \in 1 .. Len(calls) /\ calls'[l] = calls[l + 1]
                BY <2>3
            <4>2. /\ i \in 1 .. Len(calls[k + 1].list) /\ j \in 1 .. Len(calls[l + 1].list)
                  /\ calls[k + 1].list[i].path = calls[l + 1].list[j].path
                BY <3>3, <4>1
            <4>3. k + 1 = l + 1 /\ i = j
                BY <1>0, <4>1, <4>2 DEF PlanOK
            <4>4. QED
                BY <4>3
        <3>4. ASSUME NEW k \in 1 .. Len(calls'), NEW l \in 1 .. Len(calls'), k <= l,
                     NEW i \in 1 .. Len(calls'[k].list)
              PROVE  calls'[k].list[i].path # calls'[l].dest
            <4>1. /\ k + 1 \in 1 .. Len(calls) /\ calls'[k] = calls[k + 1]
                  /\ l + 1 \in 1 .. Len(calls) /\ calls'[l] = calls[l + 1]
                  /\ k + 1 <= l + 1
                BY <2>3, <3>4
            <4>2. i \in 1 .. Len(calls[k + 1].list)
                BY <4>1
            <4>3. calls[k + 1].list[i].path # calls[l + 1].dest
                BY <1>0, <4>1, <4>2 DEF PlanOK
            <4>4. QED
                BY <4>1, <4>3
        <3>5. calls' # <<>> => calls'[Len(calls')].dest = Target
            <4>1. HAVE calls' # <<>>
            <4>2. Len(calls') \in 1 .. Len(calls') /\ Len(calls') + 1 = Len(calls)
                BY <1>c, <1>t, <2>1, <2>3, <4>1
            <4>3. calls'[Len(calls')] = calls[Len(calls)]
                BY <2>3, <4>2
            <4>4. calls # <<>>
                BY <1>c, <1>t, <2>1
            <4>5. QED
                BY <1>0, <4>3, <4>4 DEF PlanOK
        <3>6. QED
            BY <1>0, <3>1, <3>2, <3>3, <3>4, <3>5 DEF PlanOK
    <2>6. InputsOK(M)'
        <3>1. SUFFICES ASSUME NEW k \in 1 .. Len(calls'), NEW i \in 1 .. Len(calls'[k].list)
                       PROVE  \/ files[calls'[k].list[i].path] = WholeSeq(M[calls'[k].list[i].path])
                              \/ \E l \in 1 .. k - 1 : calls'[l].dest = calls'[k].list[i].path
            BY <2>1 DEF InputsOK
        <3>2. /\ k + 1 \in 1 .. Len(calls) /\ calls'[k] = calls[k + 1] /\ k + 1 # 1
              /\ i \in 1 .. Len(calls[k + 1].list)
            BY <2>3
        <3>3. \/ files[calls[k + 1].list[i].path] = WholeSeq(M[calls[k + 1].list[i].path])
              \/ \E l \in 1 .. k : calls[l].dest = calls[k + 1].list[i].path
            <4>1. k + 1 - 1 = k
                OBVIOUS
            <4>2. QED
                BY <1>0, <3>2, <4>1 DEF InputsOK
        <3>4. ASSUME NEW l \in 1 .. k, calls[l].dest = calls[k + 1].list[i].path
              PROVE  \/ files[calls'[k].list[i].path] = WholeSeq(M[calls'[k].list[i].path])
                     \/ \E m \in 1 .. k - 1 : calls'[m].dest = calls'[k].list[i].path
            <4>1. CASE l = 1
                BY <1>c, <2>1, <2>2, <3>2, <3>4, <4>1
            <4>2. CASE l # 1
                <5>1. l - 1 \in 1 .. k - 1 /\ l - 1 \in 1 .. Len(calls') /\ (l - 1) + 1 = l
                    BY <4>2, <1>t, <2>3
                <5>2. calls'[l - 1] = calls[l]
                    BY <2>3, <5>1
                <5>3. QED
                    BY <3>2, <3>4, <5>1, <5>2
            <4>3. QED
                BY <4>1, <4>2
        <3>5. QED
            BY <3>2, <3>3, <3>4
    <2>7. NotBegun'
        <3>1. SUFFICES ASSUME NEW k \in 1 .. Len(calls')
                       PROVE  partial[calls'[k].dest] = Absent /\ ckpt'[calls'[k].dest] = 0
            BY <2>1 DEF NotBegun
        <3>2. k + 1 \in 1 .. Len(calls) /\ calls'[k] = calls[k + 1] /\ k + 1 > 1
            BY <2>3
        <3>3. QED
            BY <1>t, <1>w, <2>1, <2>4, <3>2
    <2>8. Written(M)'
        <3>1. CASE Len(calls) = 1
            <4>1. pc' = "finish" /\ Target' = Target
                BY <2>1, <3>1 DEF Target
            <4>2. calls # <<>>
                BY <1>c, <1>t, <2>1
            <4>3. dest = Target /\ M[Target] = M[Out]
                BY <1>0, <1>c, <2>1, <3>1, <4>2 DEF PlanOK
            <4>4. QED
                BY <2>1, <2>2, <4>1, <4>3 DEF Written
        <3>2. CASE Len(calls) # 1
            BY <2>1, <3>2 DEF Written
        <3>3. QED
            BY <3>1, <3>2
    <2>9. PlanOK(M, calls, Target)'
        BY <2>1, <2>5 DEF Target
    <2>10. QED
        BY <1>0, <1>d, <2>1, <2>6, <2>7, <2>8, <2>9 DEF FreshParts, FreshMergeExact
<1>11. CASE Finish
    <2> DEFINE moved == IF stages = 1 THEN [files EXCEPT ![Out] = files[StageOut(1)],
                                                         ![StageOut(1)] = Absent]
                        ELSE files
    <2>1. /\ pc = "finish" /\ pc' = "idle" /\ UNCHANGED <<expected, fresh>>
          /\ stages \in 0 .. N
        BY <1>0, <1>11 DEF Finish, MergeTypeOK
    <2>2. PICK kept \in SUBSET (1 .. stages) :
             files' = [f \in File |-> IF \E k \in (1 .. stages) \ kept : f = StageOut(k)
                                      THEN Absent ELSE moved[f]]
        BY <1>11 DEF Finish
    <2>3. moved[Out] = files[Target]
        <3>1. StageOut(1) # Out /\ Out \in File /\ StageOut(1) \in File
            BY FileNames
        <3>2. CASE stages = 1
            BY <1>v, <3>1, <3>2 DEF Target
        <3>3. CASE stages # 1
            BY <3>3 DEF Target
        <3>4. QED
            BY <3>2, <3>3
    <2> HIDE DEF moved
    <2>4. \A k \in 1 .. stages : Out # StageOut(k)
        BY <2>1, FileNames
    <2>5. files'[Out] = files[Target]
        BY <2>2, <2>3, <2>4, FileNames
    <2>6. files'[Out] = expected'
        BY <1>0, <2>1, <2>5 DEF Written
    <2>7. QED
        BY <2>1, <2>6 DEF FreshMergeExact
<1>13. CASE UNCHANGED vars
    <2>1. InputsOK(M)' /\ NotBegun'
        BY <1>0, <1>13 DEF InputsOK, NotBegun
    <2>2. Written(M)'
        BY <1>0, <1>k, <1>13 DEF Written, Target
    <2>3. QED
        BY <1>0, <1>d, <1>k, <1>13, <2>1, <2>2 DEF FreshParts, FreshMergeExact
<1>14. QED
    BY <1>2, <1>3, <1>4, <1>5, <1>6, <1>7, <1>8, <1>9, <1>10, <1>11, <1>13 DEF Next

\* The members of A that stage k takes.
InStage(A, k) == {c \in A : (k - 1) * PerPass < Rank(A, c) /\ Rank(A, c) <= k * PerPass}

\* What each file stands for in a merge of the chunks A of which F have contents.
Meaning(A, F) ==
    [f \in File |-> IF f = Out THEN A \cap F
                    ELSE IF f \in Chunk THEN {f} \cap F ELSE InStage(A, f - N) \cap F]

\* cs lists the chunks A.
Lists(cs, A) ==
    /\ cs \in Seq(Item)
    /\ Len(cs) = Cardinality(A)
    /\ \A i \in 1 .. Cardinality(A) : cs[i].path = InOrder(A)[i]

\* Meaning(A, F) at the three kinds of files.
LEMMA MeaningFacts ==
    ASSUME NEW A \in SUBSET Chunk, NEW F \in SUBSET Chunk
    PROVE  /\ Meaning(A, F) \in [File -> SUBSET Chunk]
           /\ Meaning(A, F)[Out] = A \cap F
           /\ \A c \in Chunk : Meaning(A, F)[c] = {c} \cap F
           /\ \A k \in 1 .. N : Meaning(A, F)[StageOut(k)] = InStage(A, k) \cap F
<1> N \in Nat
    BY MergeAssumption DEF MergeAssumption
<1>1. \A k : InStage(A, k) \in SUBSET Chunk
    BY DEF InStage
<1>2. Meaning(A, F) \in [File -> SUBSET Chunk]
    BY <1>1 DEF Meaning
<1>3. Meaning(A, F)[Out] = A \cap F
    BY FileNames DEF Meaning
<1>4. \A c \in Chunk : Meaning(A, F)[c] = {c} \cap F
    BY FileNames DEF Meaning
<1>5. \A k \in 1 .. N : StageOut(k) - N = k
    BY DEF StageOut
<1>6. \A k \in 1 .. N : Meaning(A, F)[StageOut(k)] = InStage(A, k) \cap F
    BY <1>5, FileNames DEF Meaning
<1>7. QED
    BY <1>2, <1>3, <1>4, <1>6

\* A call whose inputs are consecutive chunks of A joins them: the sequential
\* merge and each stage of a tree merge.
LEMMA JoinsRun ==
    ASSUME NEW A \in SUBSET Chunk, NEW F \in SUBSET Chunk, NEW call \in Call,
           NEW a \in Nat, NEW m \in Nat, a + m <= Cardinality(A),
           Len(call.list) = m,
           \A i \in 1 .. m : call.list[i].path = InOrder(A)[a + i],
           Meaning(A, F)[call.dest] = {c \in A : a < Rank(A, c) /\ Rank(A, c) <= a + m} \cap F
    PROVE  Joins(Meaning(A, F), call)
<1> DEFINE M == Meaning(A, F)
<1>0. Cardinality(A) \in Nat
    BY ChunkSetFacts
<1>1. ASSUME NEW i \in 1 .. m
      PROVE  /\ a + i \in 1 .. Cardinality(A)
             /\ InOrder(A)[a + i] \in A
             /\ InOrder(A)[a + i] \in Chunk
             /\ Rank(A, InOrder(A)[a + i]) = a + i
             /\ M[call.list[i].path] = {InOrder(A)[a + i]} \cap F
    <2>1. a + i \in 1 .. Cardinality(A)
        BY <1>0
    <2>2. InOrder(A)[a + i] \in A /\ Rank(A, InOrder(A)[a + i]) = a + i
        BY <2>1, InOrderFacts
    <2>3. InOrder(A)[a + i] \in Chunk
        BY <2>2
    <2>4. call.list[i].path = InOrder(A)[a + i]
        OBVIOUS
    <2>5. M[InOrder(A)[a + i]] = {InOrder(A)[a + i]} \cap F
        <3> DEFINE e == InOrder(A)[a + i]
        <3>1. e \in Chunk
            BY <2>3
        <3> HIDE DEF e
        <3>2. \A c \in Chunk : Meaning(A, F)[c] = {c} \cap F
            BY MeaningFacts
        <3>3. M[e] = {e} \cap F
            BY <3>1, <3>2
        <3>4. QED
            BY <3>3 DEF e
    <2>6. QED
        BY <2>1, <2>2, <2>3, <2>4, <2>5
<1>2. ASSUME NEW i \in 1 .. m, NEW j \in 1 .. m, i < j,
             NEW c \in M[call.list[i].path], NEW d \in M[call.list[j].path]
      PROVE  c < d
    <2>0. /\ M[call.list[i].path] = {InOrder(A)[a + i]} \cap F
          /\ M[call.list[j].path] = {InOrder(A)[a + j]} \cap F
        BY <1>1
    <2>1. c = InOrder(A)[a + i] /\ d = InOrder(A)[a + j] /\ a + i < a + j
        <3>1. c \in {InOrder(A)[a + i]} \cap F /\ d \in {InOrder(A)[a + j]} \cap F
            BY <2>0
        <3>2. a + i < a + j
            BY <1>2
        <3>3. QED
            BY <3>1, <3>2
    <2>2. QED
        BY <1>1, <2>1, InOrderFacts
<1>3. Upto(M, call.list, m) = M[call.dest]
    <2>1. ASSUME NEW c \in Upto(M, call.list, m)
          PROVE  c \in M[call.dest]
        <3>1. PICK i \in 1 .. m : c \in M[call.list[i].path]
            BY <2>1 DEF Upto
        <3>2. c = InOrder(A)[a + i] /\ c \in F
            BY <1>1, <3>1
        <3>3. c \in A /\ Rank(A, c) = a + i
            BY <1>1, <3>2
        <3>4. a < a + i /\ a + i <= a + m
            OBVIOUS
        <3>5. QED
            BY <3>2, <3>3, <3>4
    <2>2. ASSUME NEW c \in M[call.dest]
          PROVE  c \in Upto(M, call.list, m)
        <3>1. c \in A /\ c \in F /\ a < Rank(A, c) /\ Rank(A, c) <= a + m
            BY <2>2
        <3>2. Rank(A, c) \in Nat
            BY <1>0, <3>1, RankFacts
        <3> DEFINE i == Rank(A, c) - a
        <3>3. i \in 1 .. m /\ a + i = Rank(A, c)
            BY <3>1, <3>2
        <3> HIDE DEF i
        <3>4. InOrder(A)[a + i] = c
            BY <3>1, <3>3, InOrderFacts
        <3>5. c \in M[call.list[i].path]
            BY <1>1, <3>1, <3>3, <3>4
        <3>6. QED
            BY <3>3, <3>5 DEF Upto
    <2>3. QED
        BY <2>1, <2>2
<1>4. QED
    BY <1>2, <1>3 DEF Joins

\* The plan of a sequential merge.
LEMMA SequentialPlan ==
    ASSUME NEW A \in SUBSET Chunk, NEW F \in SUBSET Chunk, NEW cs, Lists(cs, A)
    PROVE  PlanOK(Meaning(A, F), <<[dest |-> Out, list |-> cs]>>, Out)
<1> DEFINE M == Meaning(A, F)
           call == [dest |-> Out, list |-> cs]
           q == <<call>>
<1>0. Cardinality(A) \in Nat
    BY ChunkSetFacts
<1>1. call \in Call /\ call.dest = Out /\ call.list = cs
    BY FileNames DEF Lists, Call
<1>2. \A i \in 1 .. Len(cs) : cs[i].path = InOrder(A)[i] /\ InOrder(A)[i] \in Chunk
    BY InOrderFacts DEF Lists
<1>3. M[Out] = {c \in A : 0 < Rank(A, c) /\ Rank(A, c) <= 0 + Cardinality(A)} \cap F
    <2>1. \A c \in A : 0 < Rank(A, c) /\ Rank(A, c) <= 0 + Cardinality(A)
        BY <1>0, RankFacts
    <2>2. A = {c \in A : 0 < Rank(A, c) /\ Rank(A, c) <= 0 + Cardinality(A)}
        BY <2>1
    <2>3. M[Out] = A \cap F
        BY MeaningFacts
    <2>4. QED
        BY <2>2, <2>3
<1>4. Len(q) = 1 /\ q[1] = call /\ q # <<>>
    OBVIOUS
<1>5. Len(cs) = Cardinality(A)
    BY DEF Lists
<1> HIDE DEF M, call, q
<1>6. Joins(M, call)
    <2>1. \A i \in 1 .. Cardinality(A) : call.list[i].path = InOrder(A)[0 + i]
        BY <1>0, <1>1, <1>2, <1>5
    <2>2. 0 + Cardinality(A) <= Cardinality(A)
        BY <1>0
    <2>3. QED
        BY <1>0, <1>1, <1>3, <1>5, <2>1, <2>2, JoinsRun DEF M
<1>7. \A i, j \in 1 .. Len(cs) : cs[i].path = cs[j].path => i = j
    BY <1>2, <1>5, InOrderFacts
<1>8. \A i \in 1 .. Len(cs) : cs[i].path # Out
    BY <1>2, FileNames
<1>9. PlanOK(M, q, Out)
    BY <1>1, <1>4, <1>6, <1>7, <1>8 DEF PlanOK
<1>10. QED
    BY <1>9 DEF M, q, call

\* A position of the list is in one stage, and in no other.
LEMMA StageOfPosition ==
    ASSUME NEW cs \in Seq(Item), Len(cs) # 0, NEW r \in 1 .. Len(cs)
    PROVE  /\ \E k \in 1 .. StageCount(cs) : (k - 1) * PerPass < r /\ r <= k * PerPass
           /\ \A k, l \in Nat :
                 /\ (k - 1) * PerPass < r /\ r <= k * PerPass
                 /\ (l - 1) * PerPass < r /\ r <= l * PerPass
                 => k = l
<1> DEFINE n == StageCount(cs)
           h == (r - 1) \div PerPass
<1>0. PerPass \in Nat \ {0} /\ Len(cs) \in Nat /\ r \in Nat \ {0} /\ r <= Len(cs)
    BY MergeAssumption DEF MergeAssumption
<1>1. n \in Nat /\ n * PerPass >= Len(cs)
    BY <1>0, StageCountFacts
<1>2. r - 1 \in Nat
    BY <1>0
<1>3. h \in Nat /\ h * PerPass <= r - 1 /\ r - 1 < h * PerPass + PerPass
    BY <1>0, <1>2, DivFacts
<1> HIDE DEF h, n
<1>4. (h + 1) * PerPass = h * PerPass + PerPass /\ (h + 1) - 1 = h /\ h * PerPass \in Nat
    BY <1>0, <1>3
<1>5. h * PerPass < r /\ r <= (h + 1) * PerPass
    BY <1>0, <1>3, <1>4
<1>6. h < n
    <2>1. SUFFICES ASSUME n <= h
                   PROVE  FALSE
        BY <1>1, <1>3
    <2>2. n * PerPass <= h * PerPass
        BY <1>0, <1>1, <1>3, <2>1
    <2>3. n * PerPass \in Nat
        BY <1>0, <1>1
    <2>4. QED
        BY <1>0, <1>1, <1>4, <1>5, <2>2, <2>3
<1>7. h + 1 \in 1 .. n
    BY <1>1, <1>3, <1>6
<1>8. ASSUME NEW k \in Nat, NEW l \in Nat, r <= k * PerPass, (l - 1) * PerPass < r, k < l
      PROVE  FALSE
    <2>1. k * PerPass <= (l - 1) * PerPass
        BY <1>0, <1>8
    <2>2. k * PerPass \in Int /\ (l - 1) * PerPass \in Int
        BY <1>0
    <2>3. QED
        BY <1>0, <1>8, <2>1, <2>2
<1>9. ASSUME NEW k \in Nat, NEW l \in Nat,
             (k - 1) * PerPass < r /\ r <= k * PerPass,
             (l - 1) * PerPass < r /\ r <= l * PerPass
      PROVE  k = l
    <2>1. ~(k < l) /\ ~(l < k)
        BY <1>8, <1>9
    <2>2. QED
        BY <2>1
<1>10. \E k \in 1 .. n : (k - 1) * PerPass < r /\ r <= k * PerPass
    BY <1>4, <1>5, <1>7
<1>11. QED
    BY <1>9, <1>10 DEF n

\* How many chunks the stages before stage k take, and how many stage k takes.
Before(k)    == (k - 1) * PerPass
Taken(cs, k) == StageLast(cs, k) - Before(k)

\* The inputs of stage k of a tree merge.
LEMMA StageInputs ==
    ASSUME NEW A \in SUBSET Chunk, NEW cs, Lists(cs, A), Len(cs) \in 1 .. N,
           NEW k \in 1 .. StageCount(cs)
    PROVE  /\ planTreeMerge(cs)[k] \in Call
           /\ planTreeMerge(cs)[k].dest = StageOut(k)
           /\ Before(k) \in Nat /\ Taken(cs, k) \in Nat
           /\ Before(k) + Taken(cs, k) = StageLast(cs, k)
           /\ Before(k) + Taken(cs, k) <= Cardinality(A)
           /\ Before(k) + Taken(cs, k) <= k * PerPass
           /\ Len(planTreeMerge(cs)[k].list) = Taken(cs, k)
           /\ \A i \in 1 .. Taken(cs, k) :
                 planTreeMerge(cs)[k].list[i].path = InOrder(A)[Before(k) + i]
<1> DEFINE call == planTreeMerge(cs)[k]
           a    == Before(k)
           z    == StageLast(cs, k)
           m    == Taken(cs, k)
           b    == k * PerPass
           n    == StageCount(cs)
<1>0. /\ PerPass \in Nat \ {0} /\ Len(cs) \in Nat /\ Len(cs) # 0 /\ N \in Nat
      /\ cs \in Seq(Item) /\ Len(cs) = Cardinality(A)
    BY MergeAssumption DEF MergeAssumption, Lists
<1>1. n \in 1 .. Len(cs)
    BY <1>0, StageCountFacts
<1>2. k \in Nat \ {0}
    BY <1>0, <1>1
<1>3. a \in Nat /\ b \in Nat
    BY <1>0, <1>2 DEF Before
<1>4. /\ StageFirst(k) = a + 1 /\ z = IF b < Len(cs) THEN b ELSE Len(cs)
      /\ m = z - a
    BY DEF StageFirst, StageLast, Before, Taken
<1>5. StageFirst(k) \in 1 .. Len(cs) /\ z \in 1 .. Len(cs) /\ StageFirst(k) <= z
    BY <1>0, StageBounds
<1>6. /\ call.dest = StageOut(k)
      /\ Len(call.list) = z - StageFirst(k) + 1
      /\ \A i \in 1 .. z - StageFirst(k) + 1 : call.list[i] = cs[StageFirst(k) + i - 1]
    BY PlanFacts, <1>0
<1>7. call \in Call
    <2>1. planTreeMerge(cs) \in Seq(Call) /\ Len(planTreeMerge(cs)) = n
        BY <1>0, PlanFacts
    <2>2. QED
        BY <2>1, ElementOfSeq
<1> HIDE DEF call, a, b, z, n, m
<1>8. z - StageFirst(k) + 1 = m
    BY <1>3, <1>4, <1>5, <1>0
<1>9. m \in Nat /\ a + m = z /\ a + m <= Cardinality(A) /\ a + m <= b
    BY <1>0, <1>3, <1>4, <1>5
<1>10. ASSUME NEW i \in 1 .. m
       PROVE  call.list[i].path = InOrder(A)[a + i]
    <2>1. StageFirst(k) + i - 1 = a + i /\ a + i \in 1 .. Cardinality(A)
        BY <1>0, <1>3, <1>4, <1>9
    <2>2. call.list[i] = cs[a + i]
        BY <1>6, <1>8, <2>1
    <2>3. QED
        BY <2>1, <2>2 DEF Lists
<1>11. /\ call \in Call
       /\ call.dest = StageOut(k)
       /\ a \in Nat /\ m \in Nat
       /\ a + m = z /\ a + m <= Cardinality(A) /\ a + m <= b
       /\ Len(call.list) = m
       /\ \A i \in 1 .. m : call.list[i].path = InOrder(A)[a + i]
    BY <1>3, <1>6, <1>7, <1>8, <1>9, <1>10
<1>12. QED
    BY <1>11 DEF call, a, b, z, m

\* A stage joins the chunks it takes.
LEMMA StageJoins ==
    ASSUME NEW A \in SUBSET Chunk, NEW F \in SUBSET Chunk, NEW cs, Lists(cs, A),
           Len(cs) \in 1 .. N, NEW k \in 1 .. StageCount(cs)
    PROVE  Joins(Meaning(A, F), planTreeMerge(cs)[k])
<1> DEFINE call == planTreeMerge(cs)[k]
           a    == Before(k)
           m    == Taken(cs, k)
           b    == k * PerPass
<1>0. /\ Len(cs) \in Nat /\ Len(cs) # 0 /\ N \in Nat /\ PerPass \in Nat
      /\ cs \in Seq(Item) /\ Len(cs) = Cardinality(A)
    BY MergeAssumption DEF MergeAssumption, Lists
<1>1. /\ call \in Call
      /\ call.dest = StageOut(k)
      /\ a \in Nat /\ m \in Nat
      /\ a + m = StageLast(cs, k) /\ a + m <= Cardinality(A) /\ a + m <= b
      /\ Len(call.list) = m
      /\ \A i \in 1 .. m : call.list[i].path = InOrder(A)[a + i]
    <2>1. /\ planTreeMerge(cs)[k] \in Call
          /\ planTreeMerge(cs)[k].dest = StageOut(k)
        BY StageInputs
    <2>2. Len(planTreeMerge(cs)[k].list) = Taken(cs, k)
        BY StageInputs
    <2>3. \A i \in 1 .. Taken(cs, k) :
             planTreeMerge(cs)[k].list[i].path = InOrder(A)[Before(k) + i]
        BY StageInputs
    <2>4. /\ Before(k) \in Nat /\ Taken(cs, k) \in Nat
          /\ Before(k) + Taken(cs, k) = StageLast(cs, k)
          /\ Before(k) + Taken(cs, k) <= Cardinality(A)
        BY StageInputs
    <2>5. Before(k) + Taken(cs, k) <= k * PerPass
        BY StageInputs
    <2>6. QED
        BY <2>1, <2>2, <2>3, <2>4, <2>5
<1>2. StageCount(cs) \in 1 .. Len(cs)
    BY <1>0, StageCountFacts
<1>3. k \in 1 .. N
    BY <1>0, <1>2
<1>4. StageLast(cs, k) = IF b < Len(cs) THEN b ELSE Len(cs)
    BY DEF StageLast
<1>5. b \in Nat
    BY <1>0, <1>3
<1> HIDE DEF call, a, m, b
<1>6. \A c \in A : Rank(A, c) <= b <=> Rank(A, c) <= a + m
    <2>1. TAKE c \in A
    <2>2. Rank(A, c) \in Nat /\ Rank(A, c) <= Len(cs)
        BY <1>0, RankFacts
    <2>3. QED
        BY <1>0, <1>1, <1>4, <1>5, <2>2
<1>7. InStage(A, k) = {c \in A : a < Rank(A, c) /\ Rank(A, c) <= a + m}
    BY <1>6 DEF InStage, Before, a, b
<1>8. Meaning(A, F)[call.dest] = {c \in A : a < Rank(A, c) /\ Rank(A, c) <= a + m} \cap F
    <2>1. Meaning(A, F)[StageOut(k)] = InStage(A, k) \cap F
        BY <1>3, MeaningFacts
    <2>2. QED
        BY <1>1, <1>7, <2>1
<1>9. Joins(Meaning(A, F), call)
    BY <1>1, <1>8, JoinsRun
<1>10. QED
    BY <1>9 DEF call

\* The last call joins the stages: every chunk is in one, and the chunks of an
\* earlier stage come first.
LEMMA FinalJoins ==
    ASSUME NEW A \in SUBSET Chunk, NEW F \in SUBSET Chunk, NEW cs, Lists(cs, A),
           Len(cs) \in 1 .. N
    PROVE  /\ Joins(Meaning(A, F), FinalCall(StageCount(cs)))
           /\ StageCount(cs) = 1 => Meaning(A, F)[StageOut(1)] = Meaning(A, F)[Out]
<1> DEFINE M == Meaning(A, F)
           n == StageCount(cs)
           call == FinalCall(n)
<1>0. /\ Len(cs) \in Nat /\ Len(cs) # 0 /\ N \in Nat /\ PerPass \in Nat \ {0}
      /\ cs \in Seq(Item) /\ Len(cs) = Cardinality(A)
    BY MergeAssumption DEF MergeAssumption, Lists
<1>1. n \in 1 .. Len(cs)
    BY <1>0, StageCountFacts
<1>2. n \in 1 .. N /\ n \in Nat
    BY <1>0, <1>1
<1>3. /\ call.dest = Out /\ Len(call.list) = n
      /\ \A k \in 1 .. n : call.list[k] = [path |-> StageOut(k), index |-> k - 1]
    BY <1>2, FinalCallFacts
<1>4. ASSUME NEW k \in 1 .. n
      PROVE  /\ k \in Nat
             /\ M[StageOut(k)] = InStage(A, k) \cap F
             /\ M[call.list[k].path] = InStage(A, k) \cap F
    <2>1. k \in 1 .. N /\ k \in Nat
        BY <1>0, <1>2
    <2>2. M[StageOut(k)] = InStage(A, k) \cap F
        BY <2>1, MeaningFacts
    <2>3. call.list[k].path = StageOut(k)
        <3>1. call.list[k] = [path |-> StageOut(k), index |-> k - 1]
            BY <1>3
        <3>2. [path |-> StageOut(k), index |-> k - 1].path = StageOut(k)
            OBVIOUS
        <3>3. QED
            BY <3>1, <3>2, Zenon
    <2>4. QED
        BY <2>1, <2>2, <2>3
<1>5. M[Out] = A \cap F
    BY MeaningFacts
<1>6. ASSUME NEW c \in A
      PROVE  /\ Rank(A, c) \in 1 .. Len(cs) /\ Rank(A, c) \in Nat
             /\ \E k \in 1 .. n : c \in InStage(A, k)
    <2>1. Rank(A, c) \in 1 .. Len(cs)
        BY <1>0, RankFacts
    <2>2. PICK k \in 1 .. n : (k - 1) * PerPass < Rank(A, c) /\ Rank(A, c) <= k * PerPass
        BY <1>0, <2>1, StageOfPosition
    <2>3. c \in InStage(A, k)
        BY <2>2 DEF InStage
    <2>4. QED
        BY <1>0, <2>1, <2>3
<1>7. \A k \in 1 .. n : InStage(A, k) \subseteq A
    BY DEF InStage
<1>8. ASSUME NEW i \in 1 .. n, NEW j \in 1 .. n, i < j,
             NEW c \in M[call.list[i].path], NEW d \in M[call.list[j].path]
      PROVE  c < d
    <2>1. c \in InStage(A, i) /\ d \in InStage(A, j)
        BY <1>4
    <2>2. c \in A /\ Rank(A, c) <= i * PerPass /\ d \in A /\ (j - 1) * PerPass < Rank(A, d)
        BY <2>1 DEF InStage
    <2>3. i \in Nat /\ j \in Nat
        BY <1>4
    <2>4. i * PerPass <= (j - 1) * PerPass
        BY <1>0, <1>8, <2>3
    <2>5. i * PerPass \in Int /\ (j - 1) * PerPass \in Int
        BY <1>0, <2>3
    <2>6. Rank(A, c) < Rank(A, d)
        BY <1>6, <2>2, <2>4, <2>5
    <2>7. c \in Nat /\ d \in Nat
        BY <2>2, MergeAssumption DEF Chunk
    <2>8. ~(d < c) /\ c # d
        <3>1. Rank(A, c) \in Nat /\ Rank(A, d) \in Nat
            BY <1>6, <2>2
        <3>2. d < c => Rank(A, d) < Rank(A, c)
            BY <2>2, RankFacts
        <3>3. QED
            BY <2>6, <3>1, <3>2
    <2>9. QED
        BY <2>7, <2>8
<1>9. Upto(M, call.list, n) = A \cap F
    <2>1. ASSUME NEW c \in Upto(M, call.list, n)
          PROVE  c \in A \cap F
        <3>1. PICK k \in 1 .. n : c \in M[call.list[k].path]
            BY <2>1 DEF Upto
        <3>2. c \in InStage(A, k) \cap F
            BY <1>4, <3>1
        <3>3. QED
            BY <1>7, <3>2
    <2>2. ASSUME NEW c \in A \cap F
          PROVE  c \in Upto(M, call.list, n)
        <3>1. PICK k \in 1 .. n : c \in InStage(A, k)
            BY <1>6
        <3>2. c \in M[call.list[k].path]
            BY <1>4, <3>1
        <3>3. QED
            BY <3>2 DEF Upto
    <2>3. QED
        BY <2>1, <2>2
<1>10. n = 1 => M[StageOut(1)] = M[Out]
    <2>1. HAVE n = 1
    <2>2. M[StageOut(1)] = InStage(A, 1) \cap F
        BY <1>4, <2>1
    <2>3. A \subseteq InStage(A, 1)
        <3>1. ASSUME NEW c \in A
              PROVE  c \in InStage(A, 1)
            <4>1. PICK k \in 1 .. n : c \in InStage(A, k)
                BY <1>6
            <4>2. k = 1
                BY <2>1
            <4>3. QED
                BY <4>1, <4>2
        <3>2. QED
            BY <3>1
    <2>4. InStage(A, 1) \subseteq A
        BY <1>7, <2>1
    <2>5. QED
        BY <1>5, <2>2, <2>3, <2>4
<1>11. Joins(M, call)
    <2> HIDE DEF M, call, n
    <2>1. QED
        BY <1>3, <1>5, <1>8, <1>9 DEF Joins
<1>12. QED
    BY <1>10, <1>11

\* The plan of a tree merge.
LEMMA TreePlan ==
    ASSUME NEW A \in SUBSET Chunk, NEW F \in SUBSET Chunk, NEW cs, Lists(cs, A),
           Len(cs) \in 1 .. N
    PROVE  PlanOK(Meaning(A, F), TreeCalls(cs),
                  IF StageCount(cs) = 1 THEN StageOut(1) ELSE Out)
<1> DEFINE M == Meaning(A, F)
           n == StageCount(cs)
           q == TreeCalls(cs)
           t == IF n = 1 THEN StageOut(1) ELSE Out
<1>0. /\ Len(cs) \in Nat /\ Len(cs) # 0 /\ N \in Nat /\ PerPass \in Nat \ {0}
      /\ cs \in Seq(Item) /\ Len(cs) = Cardinality(A)
    BY MergeAssumption DEF MergeAssumption, Lists
<1>1. n \in 1 .. N /\ n \in Nat
    <2>1. n \in 1 .. Len(cs)
        BY <1>0, StageCountFacts
    <2>2. QED
        BY <1>0, <2>1
<1>2. /\ Len(q) = IF n > 1 THEN n + 1 ELSE 1
      /\ \A k \in 1 .. n : q[k] = planTreeMerge(cs)[k]
      /\ n > 1 => q[n + 1] = FinalCall(n)
      /\ q \in Seq(Call)
    BY <1>0, TreeCallsFacts
<1>3. ASSUME NEW k \in 1 .. n
      PROVE  /\ k \in Nat /\ q[k].dest = StageOut(k)
             /\ StageOut(k) # Out /\ StageOut(k) \notin Chunk
             /\ Joins(M, q[k])
             /\ \A i \in 1 .. Len(q[k].list) :
                   /\ i \in Nat
                   /\ q[k].list[i].path = InOrder(A)[Before(k) + i]
                   /\ q[k].list[i].path \in Chunk
                   /\ Before(k) + i \in 1 .. Len(cs)
                   /\ (k - 1) * PerPass < Before(k) + i /\ Before(k) + i <= k * PerPass
    <2>1. k \in 1 .. N /\ k \in Nat
        BY <1>0, <1>1
    <2>2. q[k] = planTreeMerge(cs)[k]
        BY <1>2
    <2>3. planTreeMerge(cs)[k].dest = StageOut(k)
        BY StageInputs
    <2>4. Joins(M, planTreeMerge(cs)[k])
        BY StageJoins
    <2>5. StageOut(k) # Out /\ StageOut(k) \notin Chunk
        BY <2>1, FileNames
    <2>6. ASSUME NEW i \in 1 .. Len(q[k].list)
          PROVE  /\ i \in Nat
                 /\ q[k].list[i].path = InOrder(A)[Before(k) + i]
                 /\ q[k].list[i].path \in Chunk
                 /\ Before(k) + i \in 1 .. Len(cs)
                 /\ (k - 1) * PerPass < Before(k) + i /\ Before(k) + i <= k * PerPass
        <3> DEFINE a == Before(k)
                   m == Taken(cs, k)
                   z == k * PerPass
        <3>1. Len(planTreeMerge(cs)[k].list) = m
            BY StageInputs
        <3>2. a \in Nat /\ m \in Nat /\ a + m <= Cardinality(A)
            BY StageInputs
        <3>3. a + m <= z
            BY StageInputs
        <3>4. \A j \in 1 .. m : planTreeMerge(cs)[k].list[j].path = InOrder(A)[a + j]
            BY StageInputs
        <3>5. i \in 1 .. m
            BY <2>2, <3>1
        <3>6. z \in Nat
            BY <1>0, <2>1
        <3> HIDE DEF a, m, z
        <3>7. i \in Nat /\ a + i \in 1 .. Len(cs) /\ a < a + i /\ a + i <= z
            BY <1>0, <3>2, <3>3, <3>5, <3>6
        <3>8. q[k].list[i].path = InOrder(A)[a + i]
            BY <2>2, <3>4, <3>5
        <3>9. InOrder(A)[a + i] \in A
            BY <1>0, <3>7, InOrderFacts
        <3>10. QED
            BY <3>7, <3>8, <3>9 DEF a, z, Before
    <2>7. QED
        BY <2>1, <2>2, <2>3, <2>4, <2>5, <2>6
<1>4. n > 1 =>
         /\ q[n + 1].dest = Out /\ Len(q[n + 1].list) = n
         /\ Joins(M, q[n + 1])
         /\ \A i \in 1 .. n : q[n + 1].list[i].path = StageOut(i)
    <2>1. HAVE n > 1
    <2>2. q[n + 1] = FinalCall(n)
        BY <1>2, <2>1
    <2>3. Joins(M, FinalCall(n))
        BY FinalJoins
    <2>4. FinalCall(n).dest = Out /\ Len(FinalCall(n).list) = n
        BY <1>1, FinalCallFacts
    <2>5. \A i \in 1 .. n : FinalCall(n).list[i] = [path |-> StageOut(i), index |-> i - 1]
        BY <1>1, FinalCallFacts
    <2>6. ASSUME NEW i \in 1 .. n
          PROVE  FinalCall(n).list[i].path = StageOut(i)
        <3>1. FinalCall(n).list[i] = [path |-> StageOut(i), index |-> i - 1]
            BY <2>5
        <3>2. [path |-> StageOut(i), index |-> i - 1].path = StageOut(i)
            OBVIOUS
        <3>3. QED
            BY <3>1, <3>2, Zenon
    <2> HIDE DEF M, n, q
    <2>7. QED
        BY <2>2, <2>3, <2>4, <2>6
<1>5. M[t] = M[Out]
    BY FinalJoins
<1>6. \A i, j \in 1 .. n : StageOut(i) = StageOut(j) => i = j
    BY <1>0, <1>1 DEF StageOut
<1>7. \A i, j \in 1 .. Len(cs) : InOrder(A)[i] = InOrder(A)[j] => i = j
    BY <1>0, InOrderFacts
<1> HIDE DEF M, n, q, t
<1>8. \A k \in 1 .. Len(q) : k \in 1 .. n \/ (n > 1 /\ k = n + 1)
    BY <1>1, <1>2
<1>9. \A k \in 1 .. Len(q) : Joins(M, q[k])
    BY <1>3, <1>4, <1>8
<1>10. ASSUME NEW k \in 1 .. Len(q), NEW l \in 1 .. Len(q), k # l
       PROVE  q[k].dest # q[l].dest
    BY <1>3, <1>4, <1>6, <1>8, <1>10
<1>11. ASSUME NEW k \in 1 .. Len(q), NEW l \in 1 .. Len(q),
              NEW i \in 1 .. Len(q[k].list), NEW j \in 1 .. Len(q[l].list),
              q[k].list[i].path = q[l].list[j].path
       PROVE  k = l /\ i = j
    <2>1. CASE k \in 1 .. n /\ l \in 1 .. n
        <3>1. Before(k) + i = Before(l) + j
            <4>1. q[k].list[i].path = InOrder(A)[Before(k) + i] /\ Before(k) + i \in 1 .. Len(cs)
                BY <1>3, <2>1
            <4>2. q[l].list[j].path = InOrder(A)[Before(l) + j] /\ Before(l) + j \in 1 .. Len(cs)
                BY <1>3, <2>1
            <4>3. InOrder(A)[Before(k) + i] = InOrder(A)[Before(l) + j]
                BY <1>11, <4>1, <4>2
            <4>4. QED
                BY <1>7, <4>1, <4>2, <4>3
        <3>2. /\ Before(k) + i \in 1 .. Len(cs)
              /\ (k - 1) * PerPass < Before(k) + i /\ Before(k) + i <= k * PerPass
              /\ (l - 1) * PerPass < Before(k) + i /\ Before(k) + i <= l * PerPass
              /\ k \in Nat /\ l \in Nat
            BY <1>3, <2>1, <3>1
        <3>3. k = l
            BY <1>0, <3>2, StageOfPosition
        <3>4. Before(k) \in Int /\ i \in Int /\ j \in Int
            BY <1>0, <1>3, <2>1, <3>2 DEF Before
        <3>5. QED
            BY <3>1, <3>3, <3>4
    <2>2. CASE n > 1 /\ k = n + 1 /\ l = n + 1
        <3>1. i \in 1 .. n /\ j \in 1 .. n /\ StageOut(i) = StageOut(j)
            BY <1>4, <1>11, <2>2
        <3>2. QED
            BY <1>6, <2>2, <3>1
    <2>3. CASE k \in 1 .. n /\ n > 1 /\ l = n + 1
        <3>1. q[k].list[i].path \in Chunk /\ j \in 1 .. n /\ q[l].list[j].path = StageOut(j)
            BY <1>3, <1>4, <2>3
        <3>2. QED
            BY <1>3, <1>11, <3>1
    <2>4. CASE l \in 1 .. n /\ n > 1 /\ k = n + 1
        <3>1. q[l].list[j].path \in Chunk /\ i \in 1 .. n /\ q[k].list[i].path = StageOut(i)
            BY <1>3, <1>4, <2>4
        <3>2. QED
            BY <1>3, <1>11, <3>1
    <2>5. QED
        BY <1>8, <2>1, <2>2, <2>3, <2>4
<1>12. ASSUME NEW k \in 1 .. Len(q), NEW l \in 1 .. Len(q), k <= l,
              NEW i \in 1 .. Len(q[k].list)
       PROVE  q[k].list[i].path # q[l].dest
    <2>1. CASE k \in 1 .. n
        <3>1. q[k].list[i].path \in Chunk
            BY <1>3, <2>1
        <3>2. q[l].dest \notin Chunk
            BY <1>3, <1>4, <1>8, FileNames
        <3>3. QED
            BY <3>1, <3>2
    <2>2. CASE n > 1 /\ k = n + 1
        <3>1. l = n + 1
            BY <1>1, <1>2, <1>12, <2>2
        <3>2. i \in 1 .. n /\ q[k].list[i].path = StageOut(i) /\ q[l].dest = Out
            BY <1>4, <2>2, <3>1
        <3>3. QED
            BY <1>3, <3>2
    <2>3. QED
        BY <1>8, <2>1, <2>2
<1>13. q[Len(q)].dest = t
    <2>1. CASE n = 1
        <3>1. Len(q) = 1 /\ 1 \in 1 .. n
            BY <1>2, <2>1
        <3>2. QED
            BY <1>3, <2>1, <3>1 DEF t
    <2>2. CASE n > 1
        BY <1>2, <1>4, <2>2 DEF t
    <2>3. QED
        BY <1>1, <2>1, <2>2
<1>14. PlanOK(M, q, t)
    BY <1>5, <1>9, <1>10, <1>11, <1>12, <1>13 DEF PlanOK
<1>15. QED
    BY <1>14 DEF M, q, t, n

\* What a delivery plans when it finds no partial file and no checkpoint: A are
\* the chunks it found, F those with contents, M what each file stands for.
LEMMA FreshPlanned ==
    ASSUME MergeInv, MergeInv', Deliver, fresh',
           CONSTANT A, CONSTANT F, CONSTANT M, CONSTANT cs,
           A = Active, F = payload.full, M = Meaning(A, F), cs = ActiveChunks
    PROVE  FreshParts(M)'
<1> DEFINE tree == payload.tree /\ shouldUseTreeMerge(cs)
<1>0. N \in Nat /\ PerPass \in Nat \ {0}
    BY MergeAssumption DEF MergeAssumption
<1>1. A \in SUBSET Chunk /\ F \in SUBSET Chunk
    BY ActiveChunksFacts DEF MergeInv, MergeTypeOK
<1>2. Lists(cs, A) /\ Len(cs) \in 0 .. N /\ cs \in Seq(Item)
    BY ActiveChunksFacts DEF Lists
<1>3. /\ stages' = IF tree THEN StageCount(cs) ELSE 0
      /\ calls' = IF tree THEN TreeCalls(cs) ELSE <<[dest |-> Out, list |-> cs]>>
      /\ pc' = "open"
      /\ expected' = WholeSeq({c \in A : files[c] # <<>>})
      /\ UNCHANGED <<files, partial, ckpt>>
    BY DEF Deliver, diskVars
<1>4. \A o \in Dest : partial[o] = Absent /\ ckpt[o] = 0
    <2>1. fresh' = \A o \in Dest : partial[o] = Absent /\ ckpt[o] = 0
        BY DEF Deliver
    <2>2. QED
        BY <2>1
<1>5. /\ M \in [File -> SUBSET Chunk] /\ M[Out] = A \cap F
      /\ \A c \in Chunk : M[c] = {c} \cap F
    <2>1. M \in [File -> SUBSET Chunk]
        BY <1>1, MeaningFacts
    <2>2. M[Out] = A \cap F
        BY <1>1, MeaningFacts
    <2>3. \A c \in Chunk : Meaning(A, F)[c] = {c} \cap F
        BY <1>1, MeaningFacts
    <2>4. QED
        BY <2>1, <2>2, <2>3
<1>6. ASSUME NEW c \in A
      PROVE  files[c] = WholeSeq(M[c]) /\ (files[c] # <<>> <=> c \in F)
    <2>1. c \in Chunk /\ files[c] # Absent
        BY DEF Active, Present
    <2>2. files[c] = WholeSeq({c} \cap F)
        BY <2>1 DEF MergeInv
    <2>3. M[c] = {c} \cap F
        BY <1>5, <2>1
    <2>4. WholeSeq({c} \cap F) = <<>> <=> {c} \cap F = {}
        BY <1>1, <2>1, WholeSeqEmpty
    <2>5. QED
        BY <2>2, <2>3, <2>4
<1> HIDE DEF tree
<1>7. expected' = WholeSeq(M[Out])
    <2>1. {c \in A : files[c] # <<>>} = A \cap F
        BY <1>6
    <2>2. QED
        BY <1>3, <1>5, <2>1
<1>8. ASSUME NEW i \in 1 .. Cardinality(A)
      PROVE  InOrder(A)[i] \in A /\ files[InOrder(A)[i]] = WholeSeq(M[InOrder(A)[i]])
    BY <1>1, <1>6, InOrderFacts
<1>9. NotBegun'
    <2>1. \A k \in 1 .. Len(calls') : calls'[k].dest \in Dest
        <3>1. calls' \in Seq(Call)
            BY DEF MergeInv, MergeTypeOK
        <3>2. TAKE k \in 1 .. Len(calls')
        <3>3. calls'[k] \in Call
            BY <3>1, ElementOfSeq
        <3>4. QED
            BY <3>3 DEF Call
    <2>2. QED
        BY <1>3, <1>4, <2>1 DEF NotBegun
<1>10. Written(M)'
    BY <1>3 DEF Written
<1>11. CASE ~tree
    <2>1. calls' = <<[dest |-> Out, list |-> cs]>> /\ stages' = 0
        BY <1>3, <1>11
    <2>2. Target' = Out
        BY <2>1 DEF Target
    <2>3. PlanOK(M, calls, Target)'
        <3>1. PlanOK(M, <<[dest |-> Out, list |-> cs]>>, Out)
            BY <1>1, <1>2, SequentialPlan
        <3>2. QED
            BY <2>1, <2>2, <3>1
    <2>4. InputsOK(M)'
        <3>1. Len(calls') = 1 /\ calls'[1].list = cs
            BY <2>1
        <3>2. \A i \in 1 .. Len(cs) : files[cs[i].path] = WholeSeq(M[cs[i].path])
            BY <1>2, <1>8 DEF Lists
        <3>3. \A k \in 1 .. Len(calls') : k = 1
            BY <3>1
        <3>4. QED
            BY <1>3, <3>1, <3>2, <3>3 DEF InputsOK
    <2>5. QED
        BY <1>7, <1>9, <1>10, <2>3, <2>4 DEF FreshParts
<1>12. CASE tree
    <2> DEFINE n == StageCount(cs)
    <2>1. calls' = TreeCalls(cs) /\ stages' = n
        BY <1>3, <1>12
    <2>2. Len(cs) \in 1 .. N /\ Len(cs) # 0
        <3>1. cs # <<>>
            BY <1>12 DEF tree, shouldUseTreeMerge
        <3>2. QED
            BY <1>0, <1>2, <3>1
    <2>3. Target' = IF StageCount(cs) = 1 THEN StageOut(1) ELSE Out
        BY <2>1 DEF Target
    <2>4. PlanOK(M, calls, Target)'
        <3>1. PlanOK(M, TreeCalls(cs), IF StageCount(cs) = 1 THEN StageOut(1) ELSE Out)
            BY <1>1, <1>2, <2>2, TreePlan
        <3>2. QED
            BY <2>1, <2>3, <3>1
    <2>5. n \in 1 .. Len(cs) /\ n \in Nat
        BY <1>0, <1>2, <2>2, StageCountFacts
    <2>6. /\ Len(calls') = IF n > 1 THEN n + 1 ELSE 1
          /\ \A k \in 1 .. n : calls'[k] = planTreeMerge(cs)[k]
          /\ n > 1 => calls'[n + 1] = FinalCall(n)
        BY <1>2, <2>1, <2>2, TreeCallsFacts
    <2>7. ASSUME NEW k \in 1 .. n, NEW i \in 1 .. Len(calls'[k].list)
          PROVE  files[calls'[k].list[i].path] = WholeSeq(M[calls'[k].list[i].path])
        <3>1. calls'[k] = planTreeMerge(cs)[k]
            BY <2>6
        <3>2. Len(planTreeMerge(cs)[k].list) = Taken(cs, k)
            BY <1>1, <1>2, <2>2, StageInputs
        <3>3. /\ Before(k) \in Nat /\ Taken(cs, k) \in Nat
              /\ Before(k) + Taken(cs, k) <= Cardinality(A)
            BY <1>1, <1>2, <2>2, StageInputs
        <3>4. \A j \in 1 .. Taken(cs, k) :
                 planTreeMerge(cs)[k].list[j].path = InOrder(A)[Before(k) + j]
            BY <1>1, <1>2, <2>2, StageInputs
        <3>5. i \in 1 .. Taken(cs, k)
            BY <3>1, <3>2
        <3>6. Cardinality(A) \in Nat
            BY <1>1, ChunkSetFacts
        <3>7. Before(k) + i \in 1 .. Cardinality(A)
            BY <3>3, <3>5, <3>6
        <3>8. calls'[k].list[i].path = InOrder(A)[Before(k) + i]
            BY <3>1, <3>4, <3>5
        <3>9. QED
            BY <1>8, <3>7, <3>8
    <2>8. ASSUME n > 1, NEW i \in 1 .. Len(calls'[n + 1].list)
          PROVE  \E l \in 1 .. (n + 1) - 1 : calls'[l].dest = calls'[n + 1].list[i].path
        <3>1. n \in 1 .. N /\ (n + 1) - 1 = n
            BY <1>0, <1>2, <2>2, <2>5
        <3>2. i \in 1 .. n
            BY <2>6, <2>8, <3>1, FinalCallFacts
        <3>3. FinalCall(n).list[i] = [path |-> StageOut(i), index |-> i - 1]
            BY <3>1, <3>2, FinalCallFacts
        <3>4. calls'[n + 1].list[i].path = StageOut(i)
            BY <2>6, <2>8, <3>3
        <3>5. planTreeMerge(cs)[i].dest = StageOut(i)
            BY <1>1, <1>2, <2>2, <3>2, StageInputs
        <3>6. calls'[i].dest = StageOut(i)
            BY <2>6, <3>2, <3>5
        <3>7. QED
            BY <3>1, <3>2, <3>4, <3>6
    <2> HIDE DEF n
    <2>9. \A k \in 1 .. Len(calls') : k \in 1 .. n \/ (n > 1 /\ k = n + 1)
        BY <2>5, <2>6
    <2>10. InputsOK(M)'
        <3>1. SUFFICES ASSUME NEW k \in 1 .. Len(calls'), NEW i \in 1 .. Len(calls'[k].list)
                       PROVE  \/ files[calls'[k].list[i].path] = WholeSeq(M[calls'[k].list[i].path])
                              \/ \E l \in 1 .. k - 1 : calls'[l].dest = calls'[k].list[i].path
            BY <1>3 DEF InputsOK
        <3>2. CASE k \in 1 .. n
            BY <2>7, <3>2
        <3>3. CASE n > 1 /\ k = n + 1
            BY <2>8, <3>3
        <3>4. QED
            BY <2>9, <3>2, <3>3
    <2>11. QED
        BY <1>7, <1>9, <1>10, <2>4, <2>10 DEF FreshParts
<1>13. QED
    BY <1>11, <1>12

\* A delivery that finds no partial file and no checkpoint starts a fresh merge
\* of the chunks it found.
LEMMA FreshDeliver ==
    ASSUME MergeInv, MergeInv', Deliver, fresh'
    PROVE  \E M \in [File -> SUBSET Chunk] : FreshParts(M)'
<1>1. Active \in SUBSET Chunk /\ payload.full \in SUBSET Chunk
    BY ActiveChunksFacts DEF MergeInv, MergeTypeOK
<1>2. PICK A \in SUBSET Chunk : A = Active
    BY <1>1
<1>3. PICK F \in SUBSET Chunk : F = payload.full
    BY <1>1
<1>4. PICK M : M = Meaning(A, F)
    OBVIOUS
<1>5. PICK cs : cs = ActiveChunks
    OBVIOUS
<1>6. M \in [File -> SUBSET Chunk]
    BY <1>4, MeaningFacts
<1>7. FreshParts(M)'
    BY <1>2, <1>3, <1>4, <1>5, FreshPlanned
<1>8. QED
    BY <1>6, <1>7

\* Every step keeps the plan of a fresh merge.
LEMMA FreshInvStep ==
    ASSUME MergeInv, MergeInv', FreshInv, [Next]_vars
    PROVE  FreshInv'
<1> USE DEF vars, callVars, diskVars, histVars
<1>1. CASE Deliver
    <2>1. done' = "running"
        BY <1>1 DEF Deliver
    <2>2. FreshMergeExact'
        BY <2>1 DEF FreshMergeExact
    <2>3. fresh' => \E M \in [File -> SUBSET Chunk] : FreshParts(M)'
        BY <1>1, FreshDeliver
    <2>4. QED
        BY <2>2, <2>3 DEF FreshInv
<1>2. CASE ~Deliver
    <2>1. fresh' = fresh
        BY <1>2 DEF Next, OpenPartial, SkipChunk, CopyChunk, TornCopy, SaveCheckpoint,
           BeginCleanup, CleanupChunk, RenameOutput, ClearCheckpoint, Finish, Abort, Ended
    <2>2. CASE ~fresh
        BY <2>1, <2>2 DEF FreshInv, FreshMergeExact
    <2>3. CASE fresh /\ pc # "idle"
        <3>1. PICK M \in [File -> SUBSET Chunk] : FreshParts(M)
            BY <2>3 DEF FreshInv
        <3>2. /\ pc' # "idle" => FreshParts(M)'
              /\ FreshMergeExact'
            BY <1>2, <2>3, <3>1, FreshStep
        <3>3. QED
            BY <3>1, <3>2 DEF FreshInv
    <2>4. CASE pc = "idle"
        <3>1. UNCHANGED vars
            <4>1. ~Next
                BY <1>2, <2>4 DEF Next, OpenPartial, SkipChunk, CopyChunk, ToCopy, TornCopy,
                   SaveCheckpoint, BeginCleanup, CleanupChunk, RenameOutput, ClearCheckpoint,
                   Finish, Abort
            <4>2. QED
                BY <4>1
        <3>2. QED
            BY <2>4, <3>1 DEF FreshInv, FreshMergeExact
    <2>5. QED
        BY <2>2, <2>3, <2>4
<1>3. QED
    BY <1>1, <1>2

\* The plan of a fresh merge, sequential or by stages, is carried out as it was
\* made.
THEOREM FreshInvariant == Spec => []FreshInv
<1>1. Init => FreshInv
    BY DEF Init, FreshInv, FreshMergeExact
<1>2. MergeInv /\ MergeInv' /\ FreshInv /\ [Next]_vars => FreshInv'
    BY FreshInvStep
<1>3. QED
    BY <1>1, <1>2, MergeInvariant, PTL DEF Spec

\* A delivery that starts from nothing and completes has written exactly the
\* chunks it found, in order, whatever the number of chunks, the size of a stage
\* and the threshold: a tree merge writes what a sequential one does.
THEOREM FreshMergeExactHolds == Spec => []FreshMergeExact
<1>1. FreshInv => FreshMergeExact
    BY DEF FreshInv
<1>2. QED
    BY <1>1, FreshInvariant, PTL
=============================================================================
