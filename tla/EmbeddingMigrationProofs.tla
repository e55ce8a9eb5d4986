----------------------- MODULE EmbeddingMigrationProofs -----------------------
(***************************************************************************)
(* Proofs about EmbeddingMigration, for any chunks, batch sizes and        *)
(* numbers of batches at a time: the summary accounts for every chunk, the *)
(* batches are bounded, what is marked is indexed, and an abort stops new  *)
(* work.                                                                   *)
(***************************************************************************)
EXTENDS EmbeddingMigration, FiniteSetTheorems, WellFoundedInduction, TLAPS

-----------------------------------------------------------------------------
(* Splitting a finite set P of numbers into batches of s by rank.          *)

Rank(P, c) == Cardinality({d \in P : d < c})

Number(P, s, c) == Rank(P, c) \div s + 1

Numbers(P, s) == {Number(P, s, c) : c \in P}

\* A set of natural numbers has a least one.
LEMMA Least ==
    ASSUME NEW S \in SUBSET Nat, S # {}
    PROVE  \E m \in S : \A k \in S : m <= k
<1> DEFINE R == OpToRel(<, Nat)
<1>1. R = {p \in Nat \X Nat : p[1] < p[2]}
    BY DEF OpToRel
<1>2. IsWellFoundedOn(R, Nat)
    BY NatLessThanWellFounded
<1> HIDE DEF R
<1>3. PICK m \in S : \A y \in S : ~(<<y, m>> \in R)
    BY <1>2, WFMin
<1>4. ASSUME NEW k \in S PROVE m <= k
    <2>1. m \in Nat /\ k \in Nat
        OBVIOUS
    <2>2. ~(k < m)
        <3>1. ~(<<k, m>> \in R)
            BY <1>3
        <3> QED BY <1>1, <2>1, <3>1
    <2> QED BY <2>1, <2>2
<1> QED BY <1>4

\* A finite set of natural numbers that has no gap from 1 on is an interval.
LEMMA NoGapIsInterval ==
    ASSUME NEW N \in SUBSET (Nat \ {0}), NEW bound \in Nat, \A m \in N : m <= bound,
           \A m \in N : \A n \in 1..m : n \in N
    PROVE  \E B \in Nat : N = 1..B
<1> DEFINE U == {n \in Nat : \A m \in N : m <= n}
<1>1. PICK B \in U : \A n \in U : B <= n
    <2>1. U \in SUBSET Nat /\ bound \in U
        OBVIOUS
    <2> HIDE DEF U
    <2> QED BY <2>1, Least
<1>2. B \in Nat /\ \A m \in N : m \in Nat \ {0} /\ m <= B
    BY <1>1
<1>3. \A n \in 1..B : n \in N
    <2>1. CASE B = 0
        BY <2>1
    <2>2. CASE B # 0
        <3>1. B - 1 \in Nat /\ ~(B <= B - 1)
            BY <1>2, <2>2
        <3>2. PICK m \in N : ~(m <= B - 1)
            BY <1>1, <3>1
        <3>3. m = B
            BY <1>2, <3>1, <3>2
        <3> QED BY <3>3
    <2> QED BY <2>1, <2>2
<1>4. N = 1..B
    <2>1. \A m \in N : m \in 1..B
        BY <1>2
    <2> QED BY <1>3, <2>1
<1> QED BY <1>2, <1>4

\* Ranks grow with the chunks, one by one.
LEMMA Ranks ==
    ASSUME NEW P \in SUBSET Nat, IsFiniteSet(P)
    PROVE  /\ \A c \in Nat : Rank(P, c) \in Nat /\ Rank(P, c) <= Cardinality(P)
           /\ \A c, d \in P : c < d => Rank(P, c) < Rank(P, d)
           /\ \A d \in P : Rank(P, d) = 0
                           \/ \E c \in P : c < d /\ Rank(P, d) = Rank(P, c) + 1
<1> DEFINE Below(c) == {d \in P : d < c}
<1>0. \A c \in P : c \in Nat
    OBVIOUS
<1>1. \A c \in Nat : /\ IsFiniteSet(Below(c))
                     /\ Rank(P, c) \in Nat /\ Rank(P, c) <= Cardinality(P)
    <2> SUFFICES ASSUME NEW c \in Nat
                 PROVE  /\ IsFiniteSet(Below(c))
                        /\ Rank(P, c) \in Nat /\ Rank(P, c) <= Cardinality(P)
        OBVIOUS
    <2>1. Below(c) \in SUBSET P /\ Rank(P, c) = Cardinality(Below(c))
        BY DEF Rank
    <2> HIDE DEF Below
    <2> QED BY <2>1, FS_Subset, FS_CardinalityType
<1>2. ASSUME NEW c \in P, NEW d \in P, c < d PROVE Rank(P, c) < Rank(P, d)
    <2>1. c \notin Below(c) /\ Below(c) \cup {c} \subseteq Below(d)
        <3>1. \A e \in P : e < c => e < d
            BY <1>0, <1>2
        <3>2. ~(c < c)
            BY <1>0
        <3> QED BY <1>2, <3>1, <3>2
    <2>2. /\ IsFiniteSet(Below(c) \cup {c}) /\ IsFiniteSet(Below(d))
          /\ Cardinality(Below(c) \cup {c}) = Cardinality(Below(c)) + 1
        BY <1>0, <1>1, <2>1, FS_AddElement
    <2>3. Cardinality(Below(c) \cup {c}) <= Cardinality(Below(d))
        BY <2>1, <2>2, FS_Subset
    <2>4. Rank(P, c) = Cardinality(Below(c)) /\ Rank(P, d) = Cardinality(Below(d))
        BY DEF Rank
    <2>5. Rank(P, c) \in Nat /\ Rank(P, d) \in Nat
        BY <1>0, <1>1
    <2> QED BY <2>2, <2>3, <2>4, <2>5
<1>3. ASSUME NEW d \in P, Rank(P, d) # 0
      PROVE  \E c \in P : c < d /\ Rank(P, d) = Rank(P, c) + 1
    <2>1. Below(d) # {}
        BY <1>3, FS_EmptySet DEF Rank
    <2> DEFINE U == {n \in Nat : \A e \in Below(d) : e < n}
    <2>2. PICK n \in U : \A k \in U : n <= k
        <3>1. U \in SUBSET Nat /\ d \in U
            OBVIOUS
        <3> HIDE DEF U
        <3> QED BY <3>1, Least
    <2>3. n # 0
        <3>1. PICK e \in Below(d) : e \in Nat /\ e < n
            BY <1>0, <2>1, <2>2
        <3> QED BY <3>1
    <2>4. n - 1 \in Nat /\ ~(n <= n - 1)
        BY <2>2, <2>3
    <2>5. PICK c \in Below(d) : ~(c < n - 1)
        BY <2>2, <2>4
    <2>6. c \in P /\ c < d /\ c = n - 1
        <3>1. c \in P /\ c < d /\ c \in Nat /\ c < n
            BY <1>0, <2>2, <2>5
        <3> QED BY <2>2, <2>5, <3>1
    <2>7. Below(d) = Below(c) \cup {c}
        <3>1. \A e \in P : e < d <=> e < c \/ e = c
            <4>1. ASSUME NEW e \in P PROVE e < d <=> e < c \/ e = c
                <5>1. e \in Nat /\ c \in Nat /\ d \in Nat
                    BY <1>0, <2>6
                <5>2. e < d => e < n
                    BY <2>2
                <5> QED BY <2>2, <2>6, <5>1, <5>2
            <4> QED BY <4>1
        <3> QED BY <2>6, <3>1
    <2>8. c \notin Below(c) /\ IsFiniteSet(Below(c))
        BY <1>0, <1>1, <2>6
    <2>9. Cardinality(Below(d)) = Cardinality(Below(c)) + 1
        BY <2>7, <2>8, FS_AddElement
    <2> QED BY <2>6, <2>9 DEF Rank
<1> QED BY <1>1, <1>2, <1>3

\* Dividing goes up with what is divided, and by one at most from one number to the next.
LEMMA Division ==
    ASSUME NEW s \in Nat \ {0}, NEW x \in Nat
    PROVE  /\ x \div s \in Nat
           /\ (x \div s) * s <= x /\ x < (x \div s) * s + s
           /\ (x + 1) \div s <= x \div s + 1
           /\ 0 \div s = 0
           /\ \A y \in Nat : x <= y => x \div s <= y \div s
           /\ x \div s <= x
<1>1. /\ x \div s \in Nat
      /\ (x \div s) * s <= x /\ x < (x \div s) * s + s
    OBVIOUS
<1>2. (x + 1) \div s <= x \div s + 1 /\ 0 \div s = 0
    OBVIOUS
<1>3. ASSUME NEW y \in Nat, x <= y PROVE x \div s <= y \div s
    BY <1>3
<1>4. x \div s <= x
    OBVIOUS
<1> QED BY <1>1, <1>2, <1>3, <1>4

\* The batches are numbered from 1 on,
LEMMA NumbersAreInterval ==
    ASSUME NEW P \in SUBSET Nat, IsFiniteSet(P), NEW s \in Nat \ {0}
    PROVE  /\ \A c \in P : Number(P, s, c) \in Nat \ {0}
           /\ \E B \in Nat : Numbers(P, s) = 1..B
<1>1. /\ \A c \in P : /\ Rank(P, c) \in Nat /\ Rank(P, c) <= Cardinality(P)
                      /\ Rank(P, c) \div s \in Nat /\ Rank(P, c) \div s <= Rank(P, c)
      /\ Cardinality(P) \in Nat
    BY Ranks, Division, FS_CardinalityType
<1>2. \A c \in P : Number(P, s, c) \in Nat \ {0} /\ Number(P, s, c) <= Cardinality(P) + 1
    BY <1>1 DEF Number
<1>3. ASSUME NEW m \in Numbers(P, s), NEW n \in 1..m PROVE n \in Numbers(P, s)
    <2> SUFFICES ASSUME n \notin Numbers(P, s) PROVE FALSE
        OBVIOUS
    <2> DEFINE Above == {c \in P : n < Number(P, s, c)}
    <2>1. m \in Nat /\ n \in Nat \ {0} /\ n < m
        BY <1>2 DEF Numbers
    <2>2. PICK d \in Above : \A c \in Above : d <= c
        <3>1. Above \in SUBSET Nat /\ Above # {}
            BY <2>1 DEF Numbers
        <3> HIDE DEF Above
        <3> QED BY <3>1, Least
    <2>3. Number(P, s, d) > 1
        BY <1>2, <2>1
    <2>4. Rank(P, d) # 0
        BY <1>1, <2>3, Division DEF Number
    <2>5. PICK c \in P : c < d /\ Rank(P, d) = Rank(P, c) + 1
        BY <2>4, Ranks
    <2>6. c \in Nat /\ d \in Nat /\ ~(d <= c)
        BY <2>5
    <2>7. Number(P, s, c) <= n
        BY <1>2, <2>1, <2>2, <2>6
    <2>8. Number(P, s, c) # n
        BY DEF Numbers
    <2>9. Number(P, s, d) <= Number(P, s, c) + 1
        BY <1>1, <2>5, Division DEF Number
    <2> QED BY <1>2, <2>1, <2>2, <2>7, <2>8, <2>9
<1>4. Numbers(P, s) \in SUBSET (Nat \ {0}) /\ \A m \in Numbers(P, s) : m <= Cardinality(P) + 1
    BY <1>2 DEF Numbers
<1>5. Cardinality(P) + 1 \in Nat
    BY <1>1
<1> HIDE DEF Numbers
<1>6. \E B \in Nat : Numbers(P, s) = 1..B
    BY <1>3, <1>4, <1>5, NoGapIsInterval
<1> QED BY <1>2, <1>6

\* and none has more than s chunks.
LEMMA BatchesAreSmall ==
    ASSUME NEW P \in SUBSET Nat, IsFiniteSet(P), NEW s \in Nat \ {0}, NEW b \in Nat \ {0}
    PROVE  Cardinality({c \in P : Number(P, s, c) = b}) <= s
<1> DEFINE M == {c \in P : Number(P, s, c) = b}
           T == (b - 1) * s..(b - 1) * s + s - 1
           f == [c \in M |-> Rank(P, c)]
<1>1. (b - 1) * s \in Nat
    OBVIOUS
<1>2. \A c \in M : f[c] \in T
    <2> SUFFICES ASSUME NEW c \in M PROVE Rank(P, c) \in T
        OBVIOUS
    <2>1. Rank(P, c) \in Nat /\ Rank(P, c) \div s = b - 1
        <3>1. c \in P /\ Rank(P, c) \in Nat /\ Rank(P, c) \div s + 1 = b
            BY Ranks DEF Number
        <3> QED BY <3>1, Division
    <2>2. (Rank(P, c) \div s) * s <= Rank(P, c) /\ Rank(P, c) < (Rank(P, c) \div s) * s + s
        BY <2>1, Division
    <2> QED BY <1>1, <2>1, <2>2
<1>3. \A c, d \in M : f[c] = f[d] => c = d
    <2> SUFFICES ASSUME NEW c \in M, NEW d \in M, Rank(P, c) = Rank(P, d) PROVE c = d
        OBVIOUS
    <2>1. c \in P /\ d \in P /\ c \in Nat /\ d \in Nat /\ Rank(P, c) \in Nat
        BY Ranks
    <2>2. ~(c < d) /\ ~(d < c)
        BY <2>1, Ranks
    <2> QED BY <2>1, <2>2
<1>4. f \in Injection(M, T)
    BY <1>2, <1>3 DEF Injection, IsInjective
<1>5. IsFiniteSet(T) /\ Cardinality(T) = s
    BY <1>1, FS_Interval
<1> HIDE DEF M, T, f
<1>6. Cardinality(M) <= Cardinality(T)
    BY <1>4, <1>5, FS_Injection
<1> QED BY <1>5, <1>6 DEF M

-----------------------------------------------------------------------------
(* The inductive invariant.                                                *)

Done == In({"done"})

DoneMarked == {c \in Chunks : at[c] = "done" /\ claimed[c] # None /\ marked[c] >= claimed[c]}

\* While a call goes on, what it has counted are the chunks it is done with.
CountedAreDone == /\ Counted = Cardinality(Done)
                  /\ summary.completed <= Cardinality(DoneMarked)
                  /\ \A c \in Chunks : claimed[c] # None <=> at[c] # "away"

\* The index never runs ahead of the source, nor the marks ahead of the index; nor does
\* what is about to be marked.
Indexed == /\ MarkedWasWritten
           /\ \A c \in Chunks : shadow[c] <= revision[c]
           /\ \A c \in Chunks : at[c] = "marking" => shadow[c] >= claimed[c]

\* The batches are numbered from 1 on and small, whether they are being worked on or not.
BatchesSplit == /\ \E B \in Nat : Batches = 1..B /\ taken <= B
                /\ \A b \in Batches : Cardinality(Members(b)) <= setup.batchSize

\* Where the chunks of each phase can be; the batches that were taken are in progress,
\* done or lost, and a batch is embedded as a whole.
InPlace ==
    /\ phase = "idle" => \A c \in Chunks : at[c] \in {"away", "done"}
    /\ phase = "filter" => /\ taken = 0
                           /\ \A c \in Chunks : /\ batch[c] = 0
                                                /\ at[c] \notin Busy
    /\ phase \in {"batches", "raised"} => \A c \in Chunks :
           /\ at[c] \in {"away", "pending", "done", "lost"} \cup Busy
           /\ batch[c] > taken <=> at[c] = "pending"
           /\ at[c] \in Busy => batch[c] # 0
    /\ \A c \in Chunks : at[c] = "lost" => phase = "raised"
    /\ \A c, d \in Chunks : batch[c] = batch[d] /\ at[c] = "embedding" => at[d] = "embedding"

Inv == /\ TypeOK
       /\ CountedAreDone
       /\ Indexed
       /\ BatchesSplit
       /\ InPlace
       /\ Cardinality(InProgress) <= MaxBatches

\* The chunks, and so the batches, are finite.
LEMMA Finite ==
    /\ IsFiniteSet(Chunks) /\ \A C \in SUBSET Chunks : IsFiniteSet(C) /\ Cardinality(C) \in Nat
    /\ \A c \in Chunks : c \in Nat
BY MigrationAssumption, FS_Subset, FS_CardinalityType

\* Any set of batches is finite.
LEMMA BatchesFinite ==
    ASSUME BatchesSplit
    PROVE  \A S \in SUBSET Batches : IsFiniteSet(S) /\ Cardinality(S) \in Nat
<1>1. IsFiniteSet(Batches)
    BY FS_Interval DEF BatchesSplit
<1> QED BY <1>1, FS_Subset, FS_CardinalityType

\* The invariant implies the two that TLC checks.
LEMMA InvImplies == Inv => ReturnedAccountsForAll /\ MarkedIsIndexed
<1> SUFFICES ASSUME Inv PROVE ReturnedAccountsForAll /\ MarkedIsIndexed
    OBVIOUS
<1>1. EveryChunkCounted
    <2> SUFFICES ASSUME phase = "idle"
                 PROVE  Counted = Cardinality({c \in Chunks : claimed[c] # None})
        BY DEF EveryChunkCounted
    <2>1. \A c \in Chunks : at[c] = "done" <=> claimed[c] # None
        BY DEF Inv, InPlace, CountedAreDone
    <2>2. Done = {c \in Chunks : claimed[c] # None}
        BY <2>1 DEF Done, In
    <2> QED BY <2>2 DEF Inv, CountedAreDone
<1>2. CompletedIsMarked
    <2> DEFINE M == {c \in Chunks : claimed[c] # None /\ marked[c] >= claimed[c]}
    <2>1. DoneMarked \in SUBSET M /\ M \in SUBSET Chunks
        BY DEF DoneMarked
    <2>2. summary.completed \in Nat /\ summary.completed <= Cardinality(DoneMarked)
        BY DEF Inv, TypeOK, CountedAreDone, Empty
    <2>3. CompletedIsMarked <=> summary.completed <= Cardinality(M)
        BY DEF CompletedIsMarked
    <2> HIDE DEF M
    <2>4. /\ Cardinality(DoneMarked) \in Nat /\ Cardinality(M) \in Nat
          /\ Cardinality(DoneMarked) <= Cardinality(M)
        BY <2>1, Finite, FS_Subset
    <2> QED BY <2>2, <2>3, <2>4
<1> QED BY <1>1, <1>2 DEF Inv, ReturnedAccountsForAll, BatchesBounded, BatchesSplit, MarkedIsIndexed,
                          Indexed

\* Nothing is claimed at first.
LEMMA InitInv == Init => Inv
<1> SUFFICES ASSUME Init PROVE Inv
    OBVIOUS
<1> USE DEF Init
<1>1. TypeOK
    <2>1. /\ revision \in [Chunks -> Nat]
          /\ shadow \in [Chunks -> {None} \cup Nat]
          /\ marked \in [Chunks -> {None} \cup Nat]
          /\ claimed \in [Chunks -> {None} \cup Nat]
        OBVIOUS
    <2>2. at \in [Chunks -> Places] /\ batch \in [Chunks -> Nat]
        BY DEF Places
    <2>3. summary \in [DOMAIN Empty -> Nat]
        BY DEF Empty
    <2> QED BY <2>1, <2>2, <2>3 DEF TypeOK
<1>2. Done = {} /\ DoneMarked = {} /\ Counted = 0 /\ summary.completed = 0
    BY DEF Done, DoneMarked, In, Counted, Empty
<1>3. CountedAreDone
    BY <1>2, FS_EmptySet DEF CountedAreDone
<1>4. Indexed
    BY DEF Indexed, MarkedWasWritten, None
<1>5. Batches = {} /\ InProgress = {}
    BY DEF Batches, InProgress
<1>6. BatchesSplit
    <2>1. Batches = 1..0 /\ 0 \in Nat /\ taken <= 0
        BY <1>5
    <2> QED BY <1>5, <2>1 DEF BatchesSplit
<1>7. InPlace
    BY DEF InPlace
<1>8. Cardinality(InProgress) <= MaxBatches
    BY <1>5, FS_EmptySet, MigrationAssumption
<1> QED BY <1>1, <1>3, <1>4, <1>6, <1>7, <1>8 DEF Inv

-----------------------------------------------------------------------------
(* What the steps have in common.                                          *)

Kinds == {"completed", "skipped", "stale", "failed"}

\* The chunks C are counted as one kind, and done with.
LEMMA CountKeeps ==
    ASSUME Inv, NEW C \in SUBSET Chunks, NEW kind \in Kinds,
           \A c \in C : at[c] # "done",
           summary' = [summary EXCEPT ![kind] = @ + Cardinality(C)],
           \A c \in Chunks : /\ at'[c] = "done" <=> at[c] = "done" \/ c \in C
                             /\ at'[c] = "away" <=> at[c] = "away"
                             /\ marked'[c] # marked[c] => at[c] # "done",
           claimed' = claimed,
           kind = "completed" => \A c \in C : claimed[c] # None /\ marked'[c] >= claimed[c]
    PROVE  CountedAreDone' /\ summary' \in [DOMAIN Empty -> Nat]
<1>1. /\ summary \in [DOMAIN Empty -> Nat] /\ CountedAreDone
      /\ Cardinality(C) \in Nat /\ IsFiniteSet(C)
    BY Finite DEF Inv, TypeOK
<1>2. DOMAIN Empty = Kinds
    BY DEF Empty, Kinds
<1>3. /\ summary' \in [DOMAIN Empty -> Nat]
      /\ \A k \in Kinds : summary'[k] = IF k = kind THEN summary[k] + Cardinality(C) ELSE summary[k]
    BY <1>1, <1>2
<1>4. /\ IsFiniteSet(Done) /\ Cardinality(Done) \in Nat
      /\ Done' = Done \cup C /\ Done \cap C = {}
      /\ Cardinality(Done') = Cardinality(Done) + Cardinality(C)
    <2>1. Done \in SUBSET Chunks /\ Done \cap C = {} /\ Done' = Done \cup C
        BY DEF Done, In
    <2>2. /\ IsFiniteSet(Done) /\ Cardinality(Done) \in Nat
          /\ Cardinality(Done \cup C) = Cardinality(Done) + Cardinality(C) - Cardinality({})
          /\ Cardinality({}) = 0
        BY <1>1, <2>1, Finite, FS_Union, FS_EmptySet
    <2> QED BY <1>1, <2>1, <2>2
<1>5. Counted' = Counted + Cardinality(C) /\ Counted \in Nat
    <2>1. \A k \in Kinds : summary[k] \in Nat /\ summary'[k] \in Nat
        BY <1>1, <1>2, <1>3
    <2> QED BY <1>1, <1>3, <2>1 DEF Kinds, Counted
<1>6. DoneMarked \subseteq DoneMarked'
    BY DEF DoneMarked
<1>7. /\ IsFiniteSet(DoneMarked) /\ IsFiniteSet(DoneMarked')
      /\ Cardinality(DoneMarked) \in Nat /\ Cardinality(DoneMarked') \in Nat
      /\ Cardinality(DoneMarked) <= Cardinality(DoneMarked')
    <2>1. DoneMarked \in SUBSET Chunks /\ DoneMarked' \in SUBSET Chunks
        BY DEF DoneMarked
    <2> QED BY <1>6, <2>1, Finite, FS_Subset
<1>8. summary'.completed <= Cardinality(DoneMarked')
    <2>1. summary.completed \in Nat /\ summary.completed <= Cardinality(DoneMarked)
        BY <1>1, <1>2 DEF Kinds, CountedAreDone
    <2>2. CASE kind # "completed"
        <3>1. summary'.completed = summary.completed
            BY <1>3, <2>2 DEF Kinds
        <3> QED BY <1>7, <2>1, <3>1
    <2>3. CASE kind = "completed"
        <3>1. summary'.completed = summary.completed + Cardinality(C)
            BY <1>3, <2>3 DEF Kinds
        <3>2. DoneMarked \cap C = {} /\ DoneMarked \cup C \subseteq DoneMarked'
            BY <1>6, <2>3 DEF DoneMarked
        <3>3. /\ IsFiniteSet(DoneMarked \cup C)
              /\ Cardinality(DoneMarked \cup C) = Cardinality(DoneMarked) + Cardinality(C)
            <4>1. /\ IsFiniteSet(DoneMarked \cup C)
                  /\ Cardinality(DoneMarked \cup C)
                         = Cardinality(DoneMarked) + Cardinality(C) - Cardinality({})
                  /\ Cardinality({}) = 0
                BY <1>1, <1>7, <3>2, FS_Union, FS_EmptySet
            <4> QED BY <1>1, <1>7, <4>1
        <3>4. Cardinality(DoneMarked \cup C) <= Cardinality(DoneMarked')
            BY <1>7, <3>2, FS_Subset
        <3> QED BY <1>1, <1>7, <2>1, <3>1, <3>3, <3>4
    <2> QED BY <2>2, <2>3
<1>9. \A c \in Chunks : claimed'[c] # None <=> at'[c] # "away"
    BY <1>1 DEF CountedAreDone
<1>10. Counted' = Cardinality(Done')
    BY <1>1, <1>4, <1>5 DEF CountedAreDone
<1> QED BY <1>3, <1>8, <1>9, <1>10 DEF CountedAreDone

\* No chunk is counted.
LEMMA CountStays ==
    ASSUME Inv, UNCHANGED <<summary, claimed, marked>>,
           \A c \in Chunks : /\ at'[c] = "done" <=> at[c] = "done"
                             /\ at'[c] = "away" <=> at[c] = "away"
    PROVE  CountedAreDone'
<1>1. Done' = Done /\ DoneMarked' = DoneMarked /\ Counted' = Counted
    BY DEF Done, In, DoneMarked, Counted
<1> QED BY <1>1 DEF Inv, CountedAreDone

\* The index and the marks are left alone.
LEMMA IndexedStays ==
    ASSUME Inv, UNCHANGED <<external, claimed>>,
           \A c \in Chunks : at'[c] = "marking" => at[c] = "marking"
    PROVE  Indexed'
BY DEF Inv, Indexed, MarkedWasWritten, external

\* The batches are left alone.
LEMMA SplitStays ==
    ASSUME Inv, UNCHANGED <<batch, taken, setup>>
    PROVE  BatchesSplit' /\ Batches' = Batches /\ \A b : Members(b)' = Members(b)
BY DEF Inv, BatchesSplit, Batches, Members

\* While the chunks are filtered nothing is in progress.
LEMMA FilterKeeps ==
    ASSUME Inv, phase = "filter", UNCHANGED <<phase, batch, taken, setup>>,
           \A c \in Chunks : at'[c] \notin Busy \cup {"lost"}
    PROVE  InPlace' /\ BatchesSplit' /\ Cardinality(InProgress)' <= MaxBatches
<1>1. InPlace'
    BY DEF Inv, InPlace, Busy
<1>2. InProgress' = {}
    BY DEF InProgress, Members
<1>3. Cardinality(InProgress)' <= MaxBatches
    BY <1>2, FS_EmptySet, MigrationAssumption
<1> QED BY <1>1, <1>3, SplitStays

\* Chunks in progress get on or end, those that are embedded with the rest of their batch.
LEMMA ProgressKeeps ==
    ASSUME Inv, UNCHANGED <<batch, taken, setup>>,
           phase' = phase \/ (phase \in {"batches", "raised"} /\ phase' = "raised"),
           \A c \in Chunks : \/ at'[c] = at[c]
                             \/ /\ at[c] \in Busy
                                /\ at'[c] \in {"writing", "marking", "done", "lost"},
           \A c \in Chunks : at'[c] = "lost" => at[c] = "lost" \/ phase' = "raised",
           \A c, d \in Chunks : /\ batch[c] = batch[d]
                                /\ at[c] = "embedding" /\ at'[c] # "embedding"
                                => at'[d] # "embedding"
    PROVE  InPlace' /\ BatchesSplit' /\ Cardinality(InProgress)' <= MaxBatches
<1>1. InPlace /\ BatchesSplit /\ Cardinality(InProgress) <= MaxBatches
    BY DEF Inv
<1>2. /\ \A c \in Chunks : at'[c] \in Busy => at[c] \in Busy
      /\ \A c \in Chunks : at'[c] = "embedding" => at[c] = "embedding"
    BY DEF Busy
<1>3. InPlace'
    <2>1. phase' = "idle" => \A c \in Chunks : at'[c] \in {"away", "done"}
        BY <1>1 DEF InPlace, Busy
    <2>2. phase' = "filter" => /\ taken' = 0
                               /\ \A c \in Chunks : batch'[c] = 0 /\ at'[c] \notin Busy
        BY <1>1 DEF InPlace, Busy
    <2>3. phase' \in {"batches", "raised"} => \A c \in Chunks :
              /\ at'[c] \in {"away", "pending", "done", "lost"} \cup Busy
              /\ batch'[c] > taken' <=> at'[c] = "pending"
              /\ at'[c] \in Busy => batch'[c] # 0
        BY <1>1 DEF InPlace, Busy
    <2>4. \A c, d \in Chunks :
              batch'[c] = batch'[d] /\ at'[c] = "embedding" => at'[d] = "embedding"
        BY <1>1, <1>2 DEF InPlace
    <2>5. \A c \in Chunks : at'[c] = "lost" => phase' = "raised"
        BY <1>1 DEF InPlace
    <2> QED BY <2>1, <2>2, <2>3, <2>4, <2>5 DEF InPlace
<1>4. InProgress' \in SUBSET InProgress
    BY <1>2, SplitStays DEF InProgress, Members
<1>5. InProgress \in SUBSET Batches
    BY DEF InProgress
<1>6. Cardinality(InProgress') <= Cardinality(InProgress)
    BY <1>1, <1>4, <1>5, BatchesFinite, FS_Subset
<1>7. Cardinality(InProgress') \in Nat /\ Cardinality(InProgress) \in Nat /\ MaxBatches \in Nat
    BY <1>1, <1>4, <1>5, BatchesFinite, MigrationAssumption
<1> QED BY <1>1, <1>3, <1>6, <1>7, SplitStays

-----------------------------------------------------------------------------
(* Claiming and filtering.                                                 *)

\* A call begins with nothing counted and no batches.
LEMMA ClaimKeeps == ASSUME Inv, NEW C \in SUBSET Chunks, Claim(C) PROVE Inv'
<1>1. /\ TypeOK /\ Indexed
      /\ phase' = "filter" /\ calls' = calls + 1 /\ signal' = FALSE
      /\ claimed' = [c \in Chunks |-> IF c \in C THEN revision[c] ELSE None]
      /\ at' = [c \in Chunks |-> IF c \in C THEN "claimed" ELSE "away"]
      /\ batch' = [c \in Chunks |-> 0]
      /\ taken' = 0 /\ summary' = Empty
      /\ UNCHANGED <<external, setup>>
    BY DEF Inv, Claim
<1>2. TypeOK'
    <2>1. claimed' \in [Chunks -> {None} \cup Nat]
        BY <1>1 DEF TypeOK
    <2>2. at' \in [Chunks -> Places] /\ batch' \in [Chunks -> Nat]
        BY <1>1 DEF Places
    <2>3. summary' \in [DOMAIN Empty -> Nat]
        BY <1>1 DEF Empty
    <2>4. calls' \in Nat
        BY <1>1 DEF TypeOK
    <2> QED BY <1>1, <2>1, <2>2, <2>3, <2>4 DEF TypeOK, external
<1>3. CountedAreDone'
    <2>1. Done' = {} /\ DoneMarked' = {} /\ Counted' = 0 /\ summary'.completed = 0
        BY <1>1 DEF Done, In, DoneMarked, Counted, Empty
    <2>2. \A c \in Chunks : claimed'[c] # None <=> at'[c] # "away"
        BY <1>1 DEF TypeOK, None
    <2> QED BY <2>1, <2>2, FS_EmptySet DEF CountedAreDone
<1>4. Indexed'
    BY <1>1 DEF Indexed, MarkedWasWritten, external
<1>5. Batches' = {} /\ InProgress' = {}
    BY <1>1 DEF Batches, InProgress
<1>6. BatchesSplit'
    <2>1. Batches' = 1..0 /\ 0 \in Nat /\ taken' <= 0
        BY <1>1, <1>5
    <2> QED BY <1>5, <2>1 DEF BatchesSplit
<1>7. InPlace'
    BY <1>1 DEF InPlace, Busy
<1>8. Cardinality(InProgress)' <= MaxBatches
    BY <1>5, FS_EmptySet, MigrationAssumption
<1> QED BY <1>2, <1>3, <1>4, <1>6, <1>7, <1>8 DEF Inv

\* Where a chunk that is moved gets to.
LEMMA Moved ==
    ASSUME TypeOK, NEW C \in SUBSET Chunks, NEW place \in Places, Move(C, place)
    PROVE  /\ at' \in [Chunks -> Places]
           /\ \A c \in Chunks : at'[c] = IF c \in C THEN place ELSE at[c]
BY DEF Move, TypeOK

\* The same of one chunk.
LEMMA MovedOne ==
    ASSUME TypeOK, NEW c \in Chunks, NEW place \in Places, Move({c}, place)
    PROVE  /\ at' \in [Chunks -> Places]
           /\ \A d \in Chunks : at'[d] = IF d = c THEN place ELSE at[d]
<1>1. {c} \in SUBSET Chunks
    OBVIOUS
<1>2. /\ at' \in [Chunks -> Places]
      /\ \A d \in Chunks : at'[d] = IF d \in {c} THEN place ELSE at[d]
    BY <1>1, Moved
<1> QED BY <1>2

\* A chunk of the call that is counted is one more that it is done with.
LEMMA CountOneKeeps ==
    ASSUME Inv, NEW c \in Chunks, at[c] \notin {"away", "done"},
           NEW kind \in Kinds, Count({c}, kind),
           claimed' = claimed,
           \A d \in Chunks : marked'[d] # marked[d] => at[d] # "done",
           kind = "completed" => claimed[c] # None /\ marked'[c] >= claimed[c]
    PROVE  /\ CountedAreDone' /\ summary' \in [DOMAIN Empty -> Nat]
           /\ at' \in [Chunks -> Places]
           /\ \A d \in Chunks : at'[d] = IF d = c THEN "done" ELSE at[d]
<1>1. "done" \in Places /\ TypeOK
    BY DEF Places, Inv
<1>2. /\ at' \in [Chunks -> Places]
      /\ \A d \in Chunks : at'[d] = IF d = c THEN "done" ELSE at[d]
    BY <1>1, MovedOne DEF Count
<1>3. {c} \in SUBSET Chunks /\ \A d \in {c} : d = c
    OBVIOUS
<1>4. \A d \in Chunks : /\ at'[d] = "done" <=> at[d] = "done" \/ d \in {c}
                        /\ at'[d] = "away" <=> at[d] = "away"
                        /\ marked'[d] # marked[d] => at[d] # "done"
    BY <1>2
<1>5. summary' = [summary EXCEPT ![kind] = @ + Cardinality({c})]
    BY DEF Count
<1>6. \A d \in {c} : at[d] # "done"
    OBVIOUS
<1>7. kind = "completed" => \A d \in {c} : claimed[d] # None /\ marked'[d] >= claimed[d]
    OBVIOUS
<1>8. CountedAreDone' /\ summary' \in [DOMAIN Empty -> Nat]
    BY <1>3, <1>4, <1>5, <1>6, <1>7, CountKeeps
<1> QED BY <1>2, <1>8

\* alreadyCurrent() is not asked, or asked, or answers: the chunk is counted or pending.
LEMMA FilterStepKeeps == ASSUME Inv, FilterStep PROVE Inv'
<1>1. PICK c \in Chunks : FilterAborted(c) \/ Ask(c) \/ Answer(c)
    BY DEF FilterStep
<1>2. TypeOK /\ InPlace
    BY DEF Inv
<1>3. /\ phase = "filter" /\ at[c] \in {"claimed", "asking"}
      /\ UNCHANGED <<external, phase, calls, signal, claimed, batch, taken, setup>>
    <2>1. /\ (phase = "filter" /\ at[c] = "claimed") \/ at[c] = "asking"
          /\ UNCHANGED <<external, phase, calls, signal, claimed, batch, taken, setup>>
        BY <1>1 DEF FilterAborted, Ask, Answer, AtChunk
    <2>2. phase \in {"idle", "filter", "batches", "raised"}
        BY <1>2 DEF TypeOK
    <2>3. at[c] = "asking" => phase = "filter"
        BY <1>2, <2>2 DEF InPlace, Busy
    <2> QED BY <2>1, <2>3
<1>4. \/ \E kind \in {"skipped", "failed"} : Count({c}, kind)
      \/ \E place \in {"asking", "pending"} : Move({c}, place) /\ UNCHANGED summary
    BY <1>1 DEF FilterAborted, Ask, Answer
<1>5. Indexed' /\ InPlace' /\ BatchesSplit' /\ Cardinality(InProgress)' <= MaxBatches
      /\ at' \in [Chunks -> Places]
    <2>1. PICK place \in {"asking", "pending", "done"} : Move({c}, place)
        BY <1>4 DEF Count
    <2>2. /\ at' \in [Chunks -> Places]
          /\ \A d \in Chunks : at'[d] = IF d = c THEN place ELSE at[d]
        BY <1>2, <2>1, MovedOne DEF Places
    <2>3. \A d \in Chunks : at'[d] \notin Busy \cup {"lost"}
        BY <1>2, <1>3, <2>2 DEF InPlace, Busy
    <2>4. \A d \in Chunks : at'[d] = "marking" => at[d] = "marking"
        BY <2>3 DEF Busy
    <2> QED BY <1>3, <2>2, <2>3, <2>4, IndexedStays, FilterKeeps
<1>6. CountedAreDone' /\ summary' \in [DOMAIN Empty -> Nat]
    <2>1. CASE \E kind \in {"skipped", "failed"} : Count({c}, kind)
        <3>1. PICK kind \in {"skipped", "failed"} : Count({c}, kind)
            BY <2>1
        <3>2. kind \in Kinds /\ kind # "completed"
            BY DEF Kinds
        <3>3. marked' = marked /\ at[c] \notin {"away", "done"}
            BY <1>3 DEF external
        <3> QED BY <1>3, <3>1, <3>2, <3>3, CountOneKeeps
    <2>2. CASE \E place \in {"asking", "pending"} : Move({c}, place) /\ UNCHANGED summary
        <3>1. PICK place \in {"asking", "pending"} : Move({c}, place)
            BY <2>2
        <3>2. \A d \in Chunks : at'[d] = IF d = c THEN place ELSE at[d]
            BY <1>2, <3>1, MovedOne DEF Places
        <3>3. CountedAreDone'
            BY <1>3, <2>2, <3>2, CountStays DEF external
        <3> QED BY <1>2, <2>2, <3>3 DEF TypeOK
    <2> QED BY <1>4, <2>1, <2>2
<1>7. TypeOK'
    BY <1>2, <1>3, <1>5, <1>6 DEF TypeOK, external
<1> QED BY <1>5, <1>6, <1>7 DEF Inv

\* The pending chunks are split by their ranks.
LEMMA SplitKeeps == ASSUME Inv, Split PROVE Inv'
<1> DEFINE P == In({"pending"})
           s == setup.batchSize
<1>1. /\ TypeOK /\ InPlace /\ phase = "filter" /\ phase' = "batches"
      /\ In({"claimed", "asking"}) = {}
      /\ UNCHANGED <<external, calls, signal, claimed, at, taken, summary, setup>>
    BY DEF Inv, Split
<1>2. P \in SUBSET Nat /\ IsFiniteSet(P) /\ s \in Nat \ {0} /\ P \in SUBSET Chunks
    <2>1. P \in SUBSET Chunks
        BY DEF In
    <2>2. s \in BatchSizes
        BY <1>1 DEF TypeOK
    <2> QED BY <2>1, <2>2, Finite, MigrationAssumption
<1>3. /\ \A c \in P : Number(P, s, c) \in Nat \ {0}
      /\ \E B \in Nat : Numbers(P, s) = 1..B
    BY <1>2, NumbersAreInterval
<1>4. batch' = [c \in Chunks |-> IF at[c] # "pending" THEN 0 ELSE Number(P, s, c)]
    BY DEF Split, Number, Rank
<1>5. \A c \in Chunks : c \in P <=> at[c] = "pending"
    BY DEF In
<1> HIDE DEF P, s
<1>6. /\ batch' \in [Chunks -> Nat]
      /\ \A c \in Chunks : batch'[c] = IF c \in P THEN Number(P, s, c) ELSE 0
    <2>1. \A c \in Chunks : (IF at[c] # "pending" THEN 0 ELSE Number(P, s, c)) \in Nat
        BY <1>3, <1>5
    <2> QED BY <1>4, <1>5, <2>1
<1>7. TypeOK'
    BY <1>1, <1>6 DEF TypeOK, external
<1>8. Batches' = Numbers(P, s)
    <2>1. Batches' = {batch'[c] : c \in Chunks} \ {0}
        BY DEF Batches
    <2>2. ASSUME NEW b \in Batches' PROVE b \in Numbers(P, s)
        BY <1>6, <2>1 DEF Numbers
    <2>3. ASSUME NEW b \in Numbers(P, s) PROVE b \in Batches'
        <3>1. PICK c \in P : b = Number(P, s, c)
            BY DEF Numbers
        <3> QED BY <1>2, <1>3, <1>6, <2>1, <3>1
    <2> QED BY <2>2, <2>3
<1>9. BatchesSplit'
    <2>1. PICK B \in Nat : Batches' = 1..B
        BY <1>3, <1>8
    <2>2. taken' = 0 /\ taken' <= B
        BY <1>1, <2>1 DEF InPlace
    <2>3. ASSUME NEW b \in Batches' PROVE Cardinality(Members(b)') <= setup'.batchSize
        <3>1. b \in Nat \ {0}
            BY <2>1
        <3>2. Members(b)' = {c \in P : Number(P, s, c) = b}
            BY <1>2, <1>6, <3>1 DEF Members
        <3>3. Cardinality(Members(b)') <= s
            BY <1>2, <3>1, <3>2, BatchesAreSmall
        <3> QED BY <1>1, <3>3 DEF s
    <2> QED BY <2>1, <2>2, <2>3 DEF BatchesSplit
<1>10. CountedAreDone' /\ Indexed'
    BY <1>1, CountStays, IndexedStays DEF external
<1>11. \A c \in Chunks : at[c] \in {"away", "pending", "done"}
    BY <1>1 DEF InPlace, In, TypeOK, Places
<1>12. InPlace'
    <2>1. taken' = 0
        BY <1>1 DEF InPlace
    <2>2. \A c \in Chunks : batch'[c] > taken' <=> at'[c] = "pending"
        BY <1>1, <1>3, <1>5, <1>6, <2>1
    <2> QED BY <1>1, <1>11, <2>2 DEF InPlace, Busy
<1>13. Cardinality(InProgress)' <= MaxBatches
    <2>1. InProgress' = {}
        BY <1>1, <1>11 DEF InProgress, Members, Busy
    <2> QED BY <2>1, FS_EmptySet, MigrationAssumption
<1> QED BY <1>7, <1>9, <1>10, <1>12, <1>13 DEF Inv

-----------------------------------------------------------------------------
(* Batches.                                                                *)

\* The next n batches are the numbers from taken + 1 on, as far as there are some.
LEMMA FollowingIs ==
    ASSUME Inv, NEW n \in Nat \ {0}
    PROVE  /\ Following(n) \in SUBSET Batches
           /\ Cardinality(Following(n)) \in 0..n
           /\ Following(n) = taken + 1..taken + Cardinality(Following(n))
           /\ Following(n) = {} => \A b \in Batches : b <= taken
           /\ \E B \in Nat : Batches = 1..B /\ taken + Cardinality(Following(n)) <= B
<1>1. PICK B \in Nat : Batches = 1..B /\ taken <= B
    BY DEF Inv, BatchesSplit
<1>2. taken \in Nat
    BY DEF Inv, TypeOK
<1> DEFINE k == IF taken + n <= B THEN n ELSE B - taken
<1>3. k \in 0..n /\ taken + k <= B /\ (k = 0 => taken = B)
    BY <1>1, <1>2
<1>4. Following(n) = taken + 1..taken + k
    <2>1. \A b \in 1..B : taken < b /\ b <= taken + n <=> b \in taken + 1..taken + k
        BY <1>1, <1>2
    <2>2. taken + 1..taken + k \subseteq 1..B
        BY <1>1, <1>2
    <2> QED BY <1>1, <2>1, <2>2 DEF Following
<1> HIDE DEF k
<1>5. Cardinality(Following(n)) = k
    BY <1>2, <1>3, <1>4, FS_Interval
<1>6. Following(n) \in SUBSET Batches
    BY DEF Following
<1>7. Following(n) = {} => \A b \in Batches : b <= taken
    <2>1. Following(n) = {} => k = 0
        BY <1>2, <1>3, <1>4
    <2> QED BY <1>1, <1>2, <1>3, <2>1
<1> QED BY <1>1, <1>3, <1>4, <1>5, <1>6, <1>7

\* The batches that are started are the next ones, as many as there is room for.
LEMMA StartableIs ==
    ASSUME Inv, phase \in {"batches", "raised"}
    PROVE  /\ Startable \in SUBSET Batches
           /\ Startable = taken + 1..taken + Cardinality(Startable)
           /\ Cardinality(Startable) \in Nat
           /\ \E B \in Nat : Batches = 1..B /\ taken + Cardinality(Startable) <= B
           /\ Cardinality(InProgress \cup Startable) <= MaxBatches
<1>1. /\ MaxBatches \in Nat \ {0} /\ 1 \in Nat \ {0}
      /\ InProgress \in SUBSET Batches /\ IsFiniteSet(InProgress) /\ Cardinality(InProgress) \in Nat
      /\ Cardinality(InProgress) <= MaxBatches
      /\ taken \in Nat
    BY MigrationAssumption, BatchesFinite DEF Inv, InProgress, TypeOK
<1>2. taken = 0 => InProgress = {}
    <2> SUFFICES ASSUME taken = 0, NEW b \in InProgress PROVE FALSE
        OBVIOUS
    <2>1. PICK c \in Chunks : batch[c] = b /\ at[c] \in Busy
        BY DEF InProgress, Members
    <2>2. batch[c] \in Nat /\ batch[c] # 0 /\ ~(batch[c] > taken)
        BY <2>1 DEF Inv, InPlace, TypeOK, Busy
    <2> QED BY <2>2
<1>3. CASE Startable = {}
    <2>1. Cardinality(Startable) = 0 /\ InProgress \cup Startable = InProgress
        BY <1>3, FS_EmptySet
    <2>2. PICK B \in Nat : Batches = 1..B /\ taken <= B
        BY DEF Inv, BatchesSplit
    <2>3. taken + 1..taken + 0 = {} /\ taken + 0 = taken
        BY <1>1
    <2> QED BY <1>1, <1>3, <2>1, <2>2, <2>3
<1>4. CASE Startable = Following(MaxBatches) /\ InProgress = {}
    <2>1. InProgress \cup Startable = Startable
        BY <1>4
    <2> QED BY <1>1, <1>4, <2>1, FollowingIs
<1>5. CASE Startable = Following(1) /\ Cardinality(InProgress) < MaxBatches
    <2>1. /\ Startable \in SUBSET Batches /\ Cardinality(Startable) \in 0..1
          /\ Startable = taken + 1..taken + Cardinality(Startable)
          /\ \E B \in Nat : Batches = 1..B /\ taken + Cardinality(Startable) <= B
        BY <1>1, <1>5, FollowingIs
    <2>2. IsFiniteSet(Startable)
        BY <2>1, BatchesFinite DEF Inv
    <2>3. /\ Cardinality(InProgress \cup Startable)
                 = Cardinality(InProgress) + Cardinality(Startable)
                       - Cardinality(InProgress \cap Startable)
          /\ Cardinality(InProgress \cap Startable) \in Nat
        BY <1>1, <2>2, FS_Union, FS_Intersection, FS_CardinalityType
    <2>4. Cardinality(InProgress \cup Startable) <= MaxBatches
        BY <1>1, <1>5, <2>1, <2>3
    <2> QED BY <2>1, <2>4
<1>6. Cardinality(InProgress \cup Raised) < MaxBatches => Cardinality(InProgress) < MaxBatches
    <2>1. InProgress \cup Raised \in SUBSET Batches /\ InProgress \subseteq InProgress \cup Raised
        BY DEF InProgress, Raised
    <2>2. IsFiniteSet(InProgress \cup Raised) /\ Cardinality(InProgress \cup Raised) \in Nat
        BY <2>1, BatchesFinite DEF Inv
    <2>3. Cardinality(InProgress) <= Cardinality(InProgress \cup Raised)
        BY <2>1, <2>2, FS_Subset
    <2> QED BY <1>1, <2>2, <2>3
<1> QED BY <1>2, <1>3, <1>4, <1>5, <1>6 DEF Startable, PoolStarts, GroupStarts

\* The chunks of the batches that are started are the pending ones up to the new taken.
LEMMA StartKeeps == ASSUME Inv, Start PROVE Inv'
<1> DEFINE C == UNION {Members(b) : b \in Startable}
<1>1. /\ TypeOK /\ InPlace /\ BatchesSplit /\ phase \in {"batches", "raised"}
      /\ taken' = taken + Cardinality(Startable)
      /\ UNCHANGED <<external, phase, calls, signal, claimed, batch, setup>>
      /\ \/ Count(C, "skipped")
         \/ Move(C, "embedding") /\ UNCHANGED summary
    BY DEF Inv, Start
<1>2. /\ Startable \in SUBSET Batches
      /\ Startable = taken + 1..taken'
      /\ taken' \in Nat
      /\ \E B \in Nat : Batches = 1..B /\ taken' <= B
      /\ Cardinality(InProgress \cup Startable) <= MaxBatches
      /\ taken \in Nat /\ taken <= taken'
    BY <1>1, StartableIs DEF TypeOK
<1>3. C \in SUBSET Chunks
    BY DEF Members
<1>4. \A c \in Chunks : /\ batch[c] \in Nat
                        /\ c \in C <=> taken < batch[c] /\ batch[c] <= taken'
    <2> SUFFICES ASSUME NEW c \in Chunks
                 PROVE  batch[c] \in Nat /\ (c \in C <=> taken < batch[c] /\ batch[c] <= taken')
        OBVIOUS
    <2>1. batch[c] \in Nat
        BY <1>1 DEF TypeOK
    <2>2. c \in C <=> batch[c] \in Startable
        BY DEF Members
    <2> QED BY <1>2, <2>1, <2>2
<1>5. \A c \in C : at[c] = "pending"
    BY <1>1, <1>2, <1>3, <1>4 DEF InPlace
<1> HIDE DEF C
<1>6. PICK place \in {"done", "embedding"} : Move(C, place)
    BY <1>1 DEF Count
<1>7. /\ at' \in [Chunks -> Places]
      /\ \A c \in Chunks : at'[c] = IF c \in C THEN place ELSE at[c]
    <2>1. place \in Places
        BY DEF Places, Busy
    <2> QED BY <1>1, <1>3, <1>6, <2>1, Moved
<1>8. CountedAreDone' /\ summary' \in [DOMAIN Empty -> Nat]
    <2>1. CASE Count(C, "skipped")
        <3>1. \A c \in Chunks : at'[c] = IF c \in C THEN "done" ELSE at[c]
            BY <1>1, <1>3, <2>1, Moved DEF Count, Places
        <3>2. \A c \in Chunks : /\ at'[c] = "done" <=> at[c] = "done" \/ c \in C
                                /\ at'[c] = "away" <=> at[c] = "away"
                                /\ marked'[c] = marked[c]
            BY <1>1, <1>5, <3>1 DEF external
        <3>3. "skipped" \in Kinds /\ "skipped" # "completed"
            BY DEF Kinds
        <3>4. summary' = [summary EXCEPT !["skipped"] = @ + Cardinality(C)]
            BY <2>1 DEF Count
        <3> QED BY <1>1, <1>3, <1>5, <3>2, <3>3, <3>4, CountKeeps
    <2>2. CASE Move(C, "embedding") /\ UNCHANGED summary
        <3>1. \A c \in Chunks : at'[c] = IF c \in C THEN "embedding" ELSE at[c]
            BY <1>1, <1>3, <2>2, Moved DEF Places, Busy
        <3>2. CountedAreDone'
            BY <1>1, <1>5, <2>2, <3>1, CountStays DEF external
        <3> QED BY <1>1, <2>2, <3>2 DEF TypeOK
    <2> QED BY <1>1, <2>1, <2>2
<1>9. TypeOK'
    BY <1>1, <1>2, <1>7, <1>8 DEF TypeOK, external
<1>10. Indexed'
    BY <1>1, <1>7, IndexedStays
<1>11. Batches' = Batches /\ \A b : Members(b)' = Members(b)
    BY <1>1 DEF Batches, Members
<1>12. BatchesSplit'
    BY <1>1, <1>2, <1>11 DEF BatchesSplit
<1>13. InPlace'
    <2>1. \A c \in Chunks : at'[c] \in {"away", "pending", "done", "lost"} \cup Busy
        BY <1>1, <1>7 DEF InPlace, Busy
    <2>2. \A c \in Chunks : batch'[c] > taken' <=> at'[c] = "pending"
        <3> SUFFICES ASSUME NEW c \in Chunks PROVE batch[c] > taken' <=> at'[c] = "pending"
            BY <1>1
        <3>1. batch[c] \in Nat /\ (batch[c] > taken <=> at[c] = "pending")
            BY <1>1, <1>4 DEF InPlace
        <3>2. CASE c \in C
            <4>1. ~(batch[c] > taken')
                BY <1>2, <1>4, <3>2
            <4> QED BY <1>7, <3>2, <4>1
        <3>3. CASE c \notin C
            <4>1. batch[c] > taken' <=> batch[c] > taken
                BY <1>2, <1>4, <3>3
            <4> QED BY <1>7, <3>1, <3>3, <4>1
        <3> QED BY <3>2, <3>3
    <2>3. \A c \in Chunks : at'[c] \in Busy => batch'[c] # 0
        BY <1>1, <1>2, <1>4, <1>7 DEF InPlace
    <2>4. \A c, d \in Chunks :
              batch'[c] = batch'[d] /\ at'[c] = "embedding" => at'[d] = "embedding"
        <3> SUFFICES ASSUME NEW c \in Chunks, NEW d \in Chunks, batch[c] = batch[d],
                            at'[c] = "embedding"
                     PROVE  at'[d] = "embedding"
            BY <1>1
        <3>1. c \in C <=> d \in C
            BY <1>4
        <3> QED BY <1>1, <1>7, <3>1 DEF InPlace
    <2>5. \A c \in Chunks : at'[c] = "lost" => phase' = "raised"
        BY <1>1, <1>7 DEF InPlace
    <2> QED BY <1>1, <2>1, <2>2, <2>3, <2>4, <2>5 DEF InPlace
<1>14. Cardinality(InProgress)' <= MaxBatches
    <2>1. InProgress' \in SUBSET (InProgress \cup Startable)
        <3> SUFFICES ASSUME NEW b \in InProgress', b \notin Startable PROVE b \in InProgress
            OBVIOUS
        <3>1. PICK c \in Chunks : batch[c] = b /\ at'[c] \in Busy
            BY <1>1 DEF InProgress, Members
        <3>2. b \in Batches
            BY <1>11 DEF InProgress
        <3>3. c \notin C
            BY <1>2, <1>4, <3>1
        <3> QED BY <1>7, <3>1, <3>2, <3>3 DEF InProgress, Members
    <2>2. InProgress \cup Startable \in SUBSET Batches
        BY <1>2 DEF InProgress
    <2>3. /\ IsFiniteSet(InProgress \cup Startable)
          /\ Cardinality(InProgress \cup Startable) \in Nat /\ Cardinality(InProgress') \in Nat
        BY <1>1, <2>1, <2>2, BatchesFinite
    <2>4. Cardinality(InProgress') <= Cardinality(InProgress \cup Startable)
        BY <2>1, <2>3, FS_Subset
    <2>5. MaxBatches \in Nat
        BY MigrationAssumption
    <2> QED BY <1>2, <2>3, <2>4, <2>5
<1> QED BY <1>8, <1>9, <1>10, <1>12, <1>13, <1>14 DEF Inv

\* A batch that is being embedded is so as a whole, and no other chunk is of it.
LEMMA EmbeddedWhole ==
    ASSUME Inv, NEW b \in Batches, Embedding(b)
    PROVE  /\ Members(b) \in SUBSET Chunks
           /\ \A c \in Members(b) : at[c] = "embedding"
           /\ \A c, d \in Chunks : batch[c] = batch[d] => (c \in Members(b) <=> d \in Members(b))
BY DEF Inv, InPlace, Embedding, Members, In

\* embed() ends without vectors to write: the whole batch is counted.
LEMMA BatchEndsKeeps ==
    ASSUME Inv, NEW b \in Batches, Embedding(b), NEW kind \in {"skipped", "failed"},
           Count(Members(b), kind),
           UNCHANGED <<external, phase, calls, signal, claimed, batch, taken, setup>>
    PROVE  Inv'
<1>1. /\ Members(b) \in SUBSET Chunks /\ \A c \in Members(b) : at[c] = "embedding"
      /\ \A c, d \in Chunks : batch[c] = batch[d] => (c \in Members(b) <=> d \in Members(b))
    BY EmbeddedWhole
<1>2. TypeOK /\ "done" \in Places /\ kind \in Kinds /\ kind # "completed"
    BY DEF Inv, Places, Kinds
<1>3. /\ at' \in [Chunks -> Places]
      /\ \A c \in Chunks : at'[c] = IF c \in Members(b) THEN "done" ELSE at[c]
    BY <1>1, <1>2, Moved DEF Count
<1>4. CountedAreDone' /\ summary' \in [DOMAIN Empty -> Nat]
    <2>1. \A c \in Chunks : /\ at'[c] = "done" <=> at[c] = "done" \/ c \in Members(b)
                            /\ at'[c] = "away" <=> at[c] = "away"
                            /\ marked'[c] = marked[c]
        BY <1>1, <1>3 DEF external
    <2>2. summary' = [summary EXCEPT ![kind] = @ + Cardinality(Members(b))]
        BY DEF Count
    <2> QED BY <1>1, <1>2, <2>1, <2>2, CountKeeps
<1>5. TypeOK'
    BY <1>2, <1>3, <1>4 DEF TypeOK, external
<1>6. Indexed'
    BY <1>3, IndexedStays
<1>7. InPlace' /\ BatchesSplit' /\ Cardinality(InProgress)' <= MaxBatches
    <2>1. \A c \in Chunks : at'[c] = at[c] \/ (at[c] \in Busy /\ at'[c] \in {"writing", "marking", "done"})
        BY <1>1, <1>3 DEF Busy
    <2>2. \A c, d \in Chunks : /\ batch[c] = batch[d]
                               /\ at[c] = "embedding" /\ at'[c] # "embedding"
                               => at'[d] # "embedding"
        BY <1>1, <1>3
    <2> QED BY <2>1, <2>2, ProgressKeeps
<1> QED BY <1>4, <1>5, <1>6, <1>7 DEF Inv

\* A batch is embedded after the chunks were split.
LEMMA EmbeddingPhase ==
    ASSUME Inv, NEW b \in Batches, Embedding(b)
    PROVE  phase \in {"batches", "raised"}
<1>1. PICK c \in Chunks : at[c] = "embedding"
    BY DEF Embedding, Members, In
<1>2. phase \in {"idle", "filter", "batches", "raised"}
    BY DEF Inv, TypeOK
<1> QED BY <1>1, <1>2 DEF Inv, InPlace, Busy

\* embed() returns null: the batch is lost, and none of it counted.
LEMMA EmbedNullKeeps == ASSUME Inv, NEW b \in Batches, EmbedNull(b) PROVE Inv'
<1>1. /\ Members(b) \in SUBSET Chunks /\ \A c \in Members(b) : at[c] = "embedding"
      /\ \A c, d \in Chunks : batch[c] = batch[d] => (c \in Members(b) <=> d \in Members(b))
      /\ phase \in {"batches", "raised"}
    BY EmbeddedWhole, EmbeddingPhase DEF EmbedNull
<1>2. /\ TypeOK /\ Move(Members(b), "lost") /\ phase' = "raised"
      /\ UNCHANGED <<external, calls, signal, claimed, batch, taken, summary, setup>>
    BY DEF Inv, EmbedNull
<1>3. /\ at' \in [Chunks -> Places]
      /\ \A c \in Chunks : at'[c] = IF c \in Members(b) THEN "lost" ELSE at[c]
    BY <1>1, <1>2, Moved DEF Places
<1>4. CountedAreDone'
    <2>1. \A c \in Chunks : /\ at'[c] = "done" <=> at[c] = "done"
                            /\ at'[c] = "away" <=> at[c] = "away"
        BY <1>1, <1>3
    <2> QED BY <1>2, <2>1, CountStays DEF external
<1>5. TypeOK'
    BY <1>2, <1>3 DEF TypeOK, external
<1>6. Indexed'
    BY <1>2, <1>3, IndexedStays
<1>7. InPlace' /\ BatchesSplit' /\ Cardinality(InProgress)' <= MaxBatches
    <2>1. \A c \in Chunks : \/ at'[c] = at[c]
                            \/ at[c] \in Busy /\ at'[c] \in {"writing", "marking", "done", "lost"}
        BY <1>1, <1>3 DEF Busy
    <2>2. \A c, d \in Chunks : /\ batch[c] = batch[d]
                               /\ at[c] = "embedding" /\ at'[c] # "embedding"
                               => at'[d] # "embedding"
        BY <1>1, <1>3
    <2> QED BY <1>1, <1>2, <2>1, <2>2, ProgressKeeps
<1> QED BY <1>4, <1>5, <1>6, <1>7 DEF Inv

\* embed() returns: the malformed vectors are counted or lost, the others written.
LEMMA EmbedKeeps ==
    ASSUME Inv, NEW b \in Batches, NEW Bad \in SUBSET Members(b), NEW Null \in SUBSET Members(b),
           Embed(b, Bad, Null)
    PROVE  Inv'
<1>1. /\ Members(b) \in SUBSET Chunks /\ \A c \in Members(b) : at[c] = "embedding"
      /\ \A c, d \in Chunks : batch[c] = batch[d] => (c \in Members(b) <=> d \in Members(b))
      /\ phase \in {"batches", "raised"}
    BY EmbeddedWhole, EmbeddingPhase DEF Embed
<1>2. /\ TypeOK
      /\ summary' = [summary EXCEPT !["failed"] = @ + Cardinality(Bad)]
      /\ at' = [c \in Chunks |-> IF c \in Null THEN "lost"
                                 ELSE IF c \in Bad THEN "done"
                                 ELSE IF c \in Members(b) THEN "writing" ELSE at[c]]
      /\ Bad \cap Null = {} /\ phase' = IF Null = {} THEN phase ELSE "raised"
      /\ UNCHANGED <<external, calls, signal, claimed, batch, taken, setup>>
    BY DEF Inv, Embed
<1>3. at' \in [Chunks -> Places]
    BY <1>2 DEF TypeOK, Places, Busy
<1>4. CountedAreDone' /\ summary' \in [DOMAIN Empty -> Nat]
    <2>1. Bad \in SUBSET Chunks /\ \A c \in Bad : at[c] # "done"
        BY <1>1
    <2>2. \A c \in Chunks : /\ at'[c] = "done" <=> at[c] = "done" \/ c \in Bad
                            /\ at'[c] = "away" <=> at[c] = "away"
                            /\ marked'[c] = marked[c]
        BY <1>1, <1>2 DEF external
    <2>3. "failed" \in Kinds /\ "failed" # "completed"
        BY DEF Kinds
    <2> QED BY <1>2, <2>1, <2>2, <2>3, CountKeeps
<1>5. TypeOK'
    BY <1>2, <1>3, <1>4 DEF TypeOK, external
<1>6. Indexed'
    BY <1>2, IndexedStays
<1>7. InPlace' /\ BatchesSplit' /\ Cardinality(InProgress)' <= MaxBatches
    <2>1. \A c \in Chunks : \/ at'[c] = at[c]
                            \/ at[c] \in Busy /\ at'[c] \in {"writing", "marking", "done", "lost"}
        BY <1>1, <1>2 DEF Busy
    <2>2. \A c, d \in Chunks : /\ batch[c] = batch[d]
                               /\ at[c] = "embedding" /\ at'[c] # "embedding"
                               => at'[d] # "embedding"
        BY <1>1, <1>2
    <2>3. \A c \in Chunks : at'[c] = "lost" => at[c] = "lost" \/ phase' = "raised"
        BY <1>2
    <2> QED BY <1>1, <1>2, <2>1, <2>2, <2>3, ProgressKeeps
<1> QED BY <1>4, <1>5, <1>6, <1>7 DEF Inv

\* embed() fails, miscounts, is too late or returns.
LEMMA BatchStepKeeps == ASSUME Inv, NEW b \in Batches, BatchStep(b) PROVE Inv'
<1>1. CASE EmbedFails(b)
    <2>1. /\ Embedding(b) /\ \E kind \in {"skipped", "failed"} : Count(Members(b), kind)
          /\ UNCHANGED <<external, phase, calls, signal, claimed, batch, taken, setup>>
        BY <1>1 DEF EmbedFails
    <2> QED BY <2>1, BatchEndsKeeps
<1>2. CASE EmbedMiscounts(b)
    BY <1>2, BatchEndsKeeps DEF EmbedMiscounts
<1>3. CASE EmbedAborted(b)
    BY <1>3, BatchEndsKeeps DEF EmbedAborted
<1> QED BY <1>1, <1>2, <1>3, EmbedNullKeeps, EmbedKeeps DEF BatchStep

-----------------------------------------------------------------------------
(* Writing and marking.                                                    *)

\* A chunk that is written or marked, or that an error of either ends.
LEMMA ChunkKeeps ==
    ASSUME Inv, NEW c \in Chunks, at[c] \in {"writing", "marking"},
           NEW place \in {"marking", "done"},
           at' \in [Chunks -> Places],
           \A d \in Chunks : at'[d] = IF d = c THEN place ELSE at[d],
           UNCHANGED <<phase, batch, taken, setup>>
    PROVE  InPlace' /\ BatchesSplit' /\ Cardinality(InProgress)' <= MaxBatches
<1>1. \A d \in Chunks : at'[d] = at[d] \/ (at[d] \in Busy /\ at'[d] \in {"writing", "marking", "done"})
    BY DEF Busy
<1>2. \A d, e \in Chunks : /\ batch[d] = batch[e]
                           /\ at[d] = "embedding" /\ at'[d] # "embedding"
                           => at'[e] # "embedding"
    OBVIOUS
<1> QED BY <1>1, <1>2, ProgressKeeps

\* writeShadow() took the vector of the revision that was claimed, whatever it answers.
LEMMA WrittenIndexed ==
    ASSUME Inv, NEW c \in Chunks, at[c] = "writing", ~Refused(c),
           shadow' = [shadow EXCEPT ![c] = claimed[c]],
           UNCHANGED <<revision, marked, claimed>>,
           \A d \in Chunks : d # c => at'[d] = at[d]
    PROVE  Indexed' /\ shadow' \in [Chunks -> {None} \cup Nat]
<1>1. TypeOK /\ Indexed
    BY DEF Inv
<1>2. /\ shadow' \in [Chunks -> {None} \cup Nat]
      /\ \A d \in Chunks : shadow'[d] = IF d = c THEN claimed[d] ELSE shadow[d]
    BY <1>1 DEF TypeOK
<1>3. claimed[c] = revision[c] /\ revision[c] \in Nat /\ shadow[c] \in Nat \cup {-1}
      /\ marked[c] \in Nat \cup {-1}
    BY <1>1 DEF Refused, TypeOK, None
<1>4. \A d \in Chunks : marked'[d] # None => shadow'[d] >= marked'[d]
    BY <1>1, <1>2, <1>3 DEF Indexed, MarkedWasWritten
<1>5. \A d \in Chunks : shadow'[d] <= revision'[d]
    BY <1>1, <1>2, <1>3 DEF Indexed
<1>6. \A d \in Chunks : at'[d] = "marking" => shadow'[d] >= claimed'[d]
    BY <1>1, <1>2, <1>3 DEF Indexed
<1> QED BY <1>2, <1>4, <1>5, <1>6 DEF Indexed, MarkedWasWritten

\* writeShadow()
LEMMA WriteKeeps == ASSUME Inv, NEW c \in Chunks, Write(c) PROVE Inv'
<1>1. /\ TypeOK /\ at[c] = "writing" /\ ~Refused(c)
      /\ shadow' = [shadow EXCEPT ![c] = claimed[c]]
      /\ Move({c}, "marking")
      /\ UNCHANGED <<revision, marked, phase, calls, signal, claimed, batch, taken, summary, setup>>
    BY DEF Inv, Write
<1>2. /\ at' \in [Chunks -> Places]
      /\ \A d \in Chunks : at'[d] = IF d = c THEN "marking" ELSE at[d]
    BY <1>1, MovedOne DEF Places, Busy
<1>3. Indexed' /\ shadow' \in [Chunks -> {None} \cup Nat]
    BY <1>1, <1>2, WrittenIndexed
<1>4. CountedAreDone'
    BY <1>1, <1>2, CountStays
<1>5. InPlace' /\ BatchesSplit' /\ Cardinality(InProgress)' <= MaxBatches
    BY <1>1, <1>2, ChunkKeeps
<1>6. TypeOK'
    BY <1>1, <1>2, <1>3 DEF TypeOK
<1> QED BY <1>3, <1>4, <1>5, <1>6 DEF Inv

\* "stale", or an error of writeShadow()
LEMMA WriteEndsKeeps == ASSUME Inv, NEW c \in Chunks, WriteStale(c) \/ WriteFails(c) PROVE Inv'
<1>1. /\ TypeOK /\ at[c] = "writing"
      /\ shadow' = shadow \/ (~Refused(c) /\ shadow' = [shadow EXCEPT ![c] = claimed[c]])
      /\ \E kind \in {"stale", "skipped", "failed"} : Count({c}, kind)
      /\ UNCHANGED <<revision, marked, phase, calls, signal, claimed, batch, taken, setup>>
    BY DEF Inv, WriteStale, WriteFails, CountError, external
<1>2. PICK kind \in {"stale", "skipped", "failed"} : Count({c}, kind)
    BY <1>1
<1>3. kind \in Kinds /\ kind # "completed"
    BY DEF Kinds
<1>4. /\ CountedAreDone' /\ summary' \in [DOMAIN Empty -> Nat]
      /\ at' \in [Chunks -> Places]
      /\ \A d \in Chunks : at'[d] = IF d = c THEN "done" ELSE at[d]
    BY <1>1, <1>2, <1>3, CountOneKeeps
<1>5. Indexed' /\ shadow' \in [Chunks -> {None} \cup Nat]
    <2>1. CASE shadow' = shadow
        <3>1. UNCHANGED <<external, claimed>> /\ \A d \in Chunks : at'[d] = "marking" => at[d] = "marking"
            BY <1>1, <1>4, <2>1 DEF external
        <3> QED BY <1>1, <2>1, <3>1, IndexedStays DEF TypeOK
    <2>2. CASE ~Refused(c) /\ shadow' = [shadow EXCEPT ![c] = claimed[c]]
        BY <1>1, <1>4, <2>2, WrittenIndexed
    <2> QED BY <1>1, <2>1, <2>2
<1>6. InPlace' /\ BatchesSplit' /\ Cardinality(InProgress)' <= MaxBatches
    BY <1>1, <1>4, ChunkKeeps
<1>7. TypeOK'
    BY <1>1, <1>4, <1>5 DEF TypeOK
<1> QED BY <1>4, <1>5, <1>6, <1>7 DEF Inv

\* markComplete() acknowledges or fails: what it marks is in the index.
LEMMA MarkKeeps == ASSUME Inv, NEW c \in Chunks, Mark(c) \/ MarkFails(c) PROVE Inv'
<1>1. /\ TypeOK /\ Indexed /\ CountedAreDone /\ at[c] = "marking"
      /\ marked' = marked \/ marked' = [marked EXCEPT ![c] = claimed[c]]
      /\ UNCHANGED <<revision, shadow, phase, calls, signal, claimed, batch, taken, setup>>
    BY DEF Inv, Mark, MarkFails
<1>2. /\ marked' \in [Chunks -> {None} \cup Nat]
      /\ \A d \in Chunks : marked'[d] = marked[d] \/ (d = c /\ marked'[d] = claimed[d])
    BY <1>1 DEF TypeOK
<1>3. PICK kind \in Kinds :
          /\ Count({c}, kind)
          /\ kind = "completed" => marked' = [marked EXCEPT ![c] = claimed[c]]
    <2>1. CASE Mark(c)
        BY <2>1 DEF Mark, Kinds
    <2>2. CASE MarkFails(c)
        <3>1. \E kind \in {"skipped", "failed"} : Count({c}, kind)
            BY <2>2 DEF MarkFails, CountError
        <3> QED BY <3>1 DEF Kinds
    <2> QED BY <2>1, <2>2
<1>4. /\ CountedAreDone' /\ summary' \in [DOMAIN Empty -> Nat]
      /\ at' \in [Chunks -> Places]
      /\ \A d \in Chunks : at'[d] = IF d = c THEN "done" ELSE at[d]
    <2>1. claimed[c] # None /\ claimed[c] \in Nat
        BY <1>1 DEF CountedAreDone, TypeOK
    <2>2. kind = "completed" => marked'[c] >= claimed[c]
        BY <1>1, <1>3, <2>1 DEF TypeOK
    <2>3. \A d \in Chunks : marked'[d] # marked[d] => at[d] # "done"
        BY <1>1, <1>2
    <2> QED BY <1>1, <1>3, <2>1, <2>2, <2>3, CountOneKeeps
<1>5. Indexed'
    <2>1. \A d \in Chunks : marked'[d] # None => shadow'[d] >= marked'[d]
        BY <1>1, <1>2 DEF Indexed, MarkedWasWritten
    <2>2. \A d \in Chunks : at'[d] = "marking" => shadow'[d] >= claimed'[d]
        BY <1>1, <1>4 DEF Indexed
    <2> QED BY <1>1, <2>1, <2>2 DEF Indexed, MarkedWasWritten
<1>6. InPlace' /\ BatchesSplit' /\ Cardinality(InProgress)' <= MaxBatches
    BY <1>1, <1>4, ChunkKeeps
<1>7. TypeOK'
    BY <1>1, <1>2, <1>4 DEF TypeOK
<1> QED BY <1>4, <1>5, <1>6, <1>7 DEF Inv

-----------------------------------------------------------------------------
(* The end of a call, an abort and an edit.                                *)

\* When no batch is left and none is in progress, the call is done with every chunk.
LEMMA ReturnKeeps == ASSUME Inv, Return PROVE Inv'
<1>1. /\ TypeOK /\ InPlace
      /\ phase = "batches" /\ Following(1) = {} /\ InProgress = {} /\ phase' = "idle"
      /\ UNCHANGED <<external, calls, signal, claimed, at, batch, taken, summary, setup>>
    BY DEF Inv, Return
<1>2. \A b \in Batches : b <= taken
    BY <1>1, FollowingIs
<1>3. ASSUME NEW c \in Chunks PROVE at[c] \in {"away", "done"}
    <2>1. batch[c] \in Nat /\ taken \in Nat
        BY <1>1 DEF TypeOK
    <2>2. batch[c] # 0 => batch[c] \in Batches /\ c \in Members(batch[c])
        BY DEF Batches, Members
    <2>3. at[c] # "pending"
        <3>1. ~(batch[c] > taken)
            BY <1>2, <2>1, <2>2
        <3> QED BY <1>1, <3>1 DEF InPlace
    <2>4. at[c] \notin Busy
        BY <1>1, <2>2 DEF InPlace, InProgress
    <2> QED BY <1>1, <2>3, <2>4 DEF InPlace
<1>4. InPlace'
    BY <1>1, <1>3 DEF InPlace
<1>5. CountedAreDone' /\ Indexed' /\ BatchesSplit'
    BY <1>1, CountStays, IndexedStays, SplitStays DEF external
<1>6. TypeOK'
    BY <1>1 DEF TypeOK, external
<1>7. Cardinality(InProgress)' <= MaxBatches
    <2>1. InProgress' = InProgress
        BY <1>1 DEF InProgress, Batches, Members
    <2> QED BY <2>1 DEF Inv
<1> QED BY <1>4, <1>5, <1>6, <1>7 DEF Inv

\* What neither the signal, nor a claim that fails, nor the sources say anything about.
LEMMA CallStays ==
    ASSUME Inv, UNCHANGED <<phase, claimed, marked, at, batch, taken, summary, setup>>
    PROVE  /\ CountedAreDone' /\ BatchesSplit' /\ InPlace'
           /\ Cardinality(InProgress)' <= MaxBatches
<1>1. CountedAreDone' /\ BatchesSplit'
    BY CountStays, SplitStays
<1>2. InPlace'
    BY DEF Inv, InPlace
<1>3. InProgress' = InProgress
    BY DEF InProgress, Batches, Members
<1> QED BY <1>1, <1>2, <1>3 DEF Inv

\* The signal fires.
LEMMA AbortKeeps == ASSUME Inv, Abort PROVE Inv'
<1>1. /\ TypeOK /\ signal' = TRUE
      /\ UNCHANGED <<external, phase, calls, claimed, at, batch, taken, summary, setup>>
    BY DEF Inv, Abort
<1>2. TypeOK'
    BY <1>1 DEF TypeOK, external
<1>3. Indexed'
    BY <1>1, IndexedStays
<1> QED BY <1>1, <1>2, <1>3, CallStays DEF Inv, external

\* claim() fails.
LEMMA ClaimFailsKeeps == ASSUME Inv, ClaimFails PROVE Inv'
<1>1. /\ TypeOK /\ calls' = calls + 1
      /\ UNCHANGED <<external, phase, signal, claimed, at, batch, taken, summary, setup>>
    BY DEF Inv, ClaimFails
<1>2. TypeOK'
    BY <1>1 DEF TypeOK, external
<1>3. Indexed'
    BY <1>1, IndexedStays
<1> QED BY <1>1, <1>2, <1>3, CallStays DEF Inv, external

\* A source only gets newer.
LEMMA EditKeeps == ASSUME Inv, NEW c \in Chunks, Edit(c) PROVE Inv'
<1>1. /\ TypeOK /\ Indexed
      /\ revision' = [revision EXCEPT ![c] = @ + 1]
      /\ UNCHANGED <<shadow, marked, phase, calls, signal, claimed, at, batch, taken, summary, setup>>
    BY DEF Inv, Edit
<1>2. /\ revision' \in [Chunks -> Nat]
      /\ \A d \in Chunks : revision'[d] = revision[d] \/ revision'[d] = revision[d] + 1
    BY <1>1 DEF TypeOK
<1>3. TypeOK'
    BY <1>1, <1>2 DEF TypeOK
<1>4. Indexed'
    <2>1. \A d \in Chunks : shadow'[d] <= revision'[d]
        <3> SUFFICES ASSUME NEW d \in Chunks PROVE shadow[d] <= revision'[d]
            BY <1>1
        <3>1. /\ shadow[d] \in Nat \cup {-1} /\ revision[d] \in Nat
              /\ shadow[d] <= revision[d]
            BY <1>1 DEF TypeOK, None, Indexed
        <3> QED BY <1>2, <3>1
    <2> QED BY <1>1, <2>1 DEF Indexed, MarkedWasWritten
<1> QED BY <1>1, <1>3, <1>4, CallStays DEF Inv

\* Every step keeps the invariant.
LEMMA NextInv == Inv /\ [Next]_vars => Inv'
<1> SUFFICES ASSUME Inv, [Next]_vars PROVE Inv'
    OBVIOUS
<1>1. CASE \E C \in SUBSET Chunks : Claim(C)
    BY <1>1, ClaimKeeps
<1>2. CASE FilterStep
    BY <1>2, FilterStepKeeps
<1>3. CASE Split
    BY <1>3, SplitKeeps
<1>4. CASE Start
    BY <1>4, StartKeeps
<1>5. CASE \E b \in Batches : BatchStep(b)
    BY <1>5, BatchStepKeeps
<1>6. CASE \E c \in Chunks : ChunkStep(c)
    BY <1>6, WriteKeeps, WriteEndsKeeps, MarkKeeps DEF ChunkStep
<1>7. CASE \E c \in Chunks : Edit(c)
    BY <1>7, EditKeeps
<1>8. CASE Return
    BY <1>8, ReturnKeeps
<1>9. CASE Abort
    BY <1>9, AbortKeeps
<1>10. CASE UNCHANGED vars
    <2>1. UNCHANGED <<external, phase, calls, signal, claimed, at, batch, taken, summary, setup>>
        BY <1>10 DEF vars
    <2>2. TypeOK'
        BY <2>1 DEF Inv, TypeOK, external
    <2>3. Indexed'
        BY <2>1, IndexedStays
    <2> QED BY <2>1, <2>2, <2>3, CallStays DEF Inv, external
<1> QED BY <1>1, <1>2, <1>3, <1>4, <1>5, <1>6, <1>7, <1>8, <1>9, <1>10, ClaimFailsKeeps
        DEF Next, Over

\* The invariant holds, for any chunks, sizes and bounds.
THEOREM Invariance == Spec => []Inv
<1>1. Init => Inv
    BY InitInv
<1>2. Inv /\ [Next]_vars => Inv'
    BY NextInv
<1> QED BY <1>1, <1>2, PTL DEF Spec

\* However a call goes, through failures, edits, aborts and malformed vectors, the summary
\* it returns, unless it raises, accounts for every chunk claimed exactly once, and the
\* batches in progress, and the chunks in each, are never more than were asked for.
THEOREM AccountsForAll == Spec => []ReturnedAccountsForAll
<1>1. Inv => ReturnedAccountsForAll
    BY InvImplies
<1> QED BY <1>1, Invariance, PTL

\* What is marked complete is in the shadow index at that revision or a newer one, and what
\* is reported completed is marked.
THEOREM MarksAreIndexed == Spec => []MarkedIsIndexed
<1>1. Inv => MarkedIsIndexed
    BY InvImplies
<1> QED BY <1>1, Invariance, PTL

-----------------------------------------------------------------------------
(* Cancellation.                                                           *)

\* No chunk c gets to be asked for, embedded or written.
NothingNew == \A c \in Chunks : at'[c] \in {"asking", "embedding", "writing"} => at[c] = at'[c]

\* Chunks that are moved on.
LEMMA MovedOn ==
    ASSUME NEW C, NEW place, place \notin {"asking", "embedding", "writing"}, Move(C, place)
    PROVE  NothingNew
BY DEF Move, NothingNew

\* Chunks that are counted.
LEMMA CountedNothingNew == ASSUME NEW C, NEW kind, Count(C, kind) PROVE NothingNew
<1>1. Move(C, "done")
    BY DEF Count
<1> QED BY <1>1, MovedOn

\* "Cancellation stops new work": no step of a call whose signal has fired asks whether a
\* chunk is current, embeds it or writes it, but those that were already at it.
THEOREM AbortStopsWork == Spec => NoNewWorkAfterAbort
<1>1. ASSUME [Next]_vars, signal, signal' PROVE NothingNew
    <2>1. CASE \E C \in SUBSET Chunks : Claim(C)
        BY <1>1, <2>1 DEF Claim
    <2>2. CASE FilterStep
        <3>1. PICK c \in Chunks : FilterAborted(c) \/ Ask(c) \/ Answer(c)
            BY <2>2 DEF FilterStep
        <3>2. (\E kind : Count({c}, kind)) \/ Move({c}, "pending")
            BY <1>1, <3>1 DEF FilterAborted, Ask, Answer
        <3> QED BY <3>2, CountedNothingNew, MovedOn
    <2>3. CASE Start
        <3>1. Count(UNION {Members(b) : b \in Startable}, "skipped")
            BY <1>1, <2>3 DEF Start
        <3> QED BY <3>1, CountedNothingNew
    <2>4. CASE \E b \in Batches : BatchStep(b)
        <3>1. PICK b \in Batches : BatchStep(b)
            BY <2>4
        <3>2. (\E kind : Count(Members(b), kind)) \/ Move(Members(b), "lost")
            BY <1>1, <3>1
            DEF BatchStep, EmbedFails, EmbedMiscounts, EmbedAborted, EmbedNull, Embed
        <3> QED BY <3>2, CountedNothingNew, MovedOn
    <2>5. CASE \E c \in Chunks : ChunkStep(c)
        <3>1. PICK c \in Chunks : ChunkStep(c)
            BY <2>5
        <3>2. (\E kind : Count({c}, kind)) \/ Move({c}, "marking")
            BY <3>1 DEF ChunkStep, Write, WriteStale, WriteFails, Mark, MarkFails, CountError
        <3> QED BY <3>2, CountedNothingNew, MovedOn
    <2>6. CASE at' = at
        BY <2>6 DEF NothingNew
    <2> QED BY <1>1, <2>1, <2>2, <2>3, <2>4, <2>5, <2>6
            DEF Next, ClaimFails, Split, Edit, Return, Abort, Over, vars
<1>2. [Next]_vars => [signal /\ signal' => NothingNew]_vars
    BY <1>1
<1> QED BY <1>2, PTL DEF Spec, NoNewWorkAfterAbort, NothingNew

===============================================================================
