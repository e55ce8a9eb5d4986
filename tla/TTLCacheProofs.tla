---------------------------- MODULE TTLCacheProofs ----------------------------
(***************************************************************************)
(* Proofs about TTLCache, for any keys, threads, lifetimes and capacity:   *)
(* its entries are in the order of last use and served no longer than they *)
(* may be, only the least recently used one is evicted, and check and load *)
(* are one.                                                                *)
(***************************************************************************)
EXTENDS TTLCache, SequenceTheorems, FiniteSetTheorems, TLAPS

-----------------------------------------------------------------------------
(* What popping and adding do to the members of a sequence and their order. *)

\* t is s without its position p.
Gap(s, p, t) ==
    /\ t \in Seq(Keys)
    /\ Len(t) = Len(s) - 1
    /\ \A i \in 1..Len(s) - 1 : t[i] = IF i < p THEN s[i] ELSE s[i + 1]

\* The members of a sequence are what stands at its positions.
LEMMA Members ==
    ASSUME NEW s \in Seq(Keys)
    PROVE  /\ Len(s) \in Nat
           /\ \A i \in 1..Len(s) : s[i] \in Keys
           /\ \A x : x \in ToSet(s) <=> \E i \in 1..Len(s) : s[i] = x
           /\ ToSet(s) \subseteq Keys
           /\ \A x, y : Before(s, x, y) => x \in ToSet(s) /\ y \in ToSet(s)
<1>1. Len(s) \in Nat /\ DOMAIN s = 1..Len(s) /\ \A i \in 1..Len(s) : s[i] \in Keys
    OBVIOUS
<1> QED BY <1>1 DEF ToSet, Before

\* Without one position all members but the one there are left, in the same order.
LEMMA GapLeaves ==
    ASSUME NEW s \in Seq(Keys), Once(s), NEW p \in 1..Len(s), NEW t, Gap(s, p, t)
    PROVE  /\ Once(t)
           /\ ToSet(t) = ToSet(s) \ {s[p]}
           /\ \A x, y : Before(t, x, y) <=> Before(s, x, y) /\ x # s[p] /\ y # s[p]
<1> DEFINE Back(i) == IF i < p THEN i ELSE i + 1
           Forth(i) == IF i < p THEN i ELSE i - 1
<1>1. /\ Len(s) \in Nat /\ Len(t) \in Nat /\ Len(t) = Len(s) - 1 /\ t \in Seq(Keys)
      /\ \A i, j \in 1..Len(s) : s[i] = s[j] => i = j
    BY Members DEF Gap, Once
<1>2. \A i \in 1..Len(t) : Back(i) \in 1..Len(s) /\ Back(i) # p /\ t[i] = s[Back(i)]
    BY <1>1 DEF Gap
<1>3. \A i \in 1..Len(s) : i # p => Forth(i) \in 1..Len(t) /\ t[Forth(i)] = s[i]
    <2> SUFFICES ASSUME NEW i \in 1..Len(s), i # p
                 PROVE  Forth(i) \in 1..Len(t) /\ t[Forth(i)] = s[i]
        OBVIOUS
    <2>1. Forth(i) \in 1..Len(t) /\ Back(Forth(i)) = i
        BY <1>1
    <2> QED BY <1>2, <2>1
<1>4. \A i, j \in 1..Len(t) : /\ i < j => Back(i) < Back(j)
                              /\ Back(i) = Back(j) => i = j
    BY <1>1
<1>5. \A i, j \in 1..Len(s) : i < j /\ i # p /\ j # p => Forth(i) < Forth(j)
    BY <1>1
<1> HIDE DEF Back, Forth
<1>6. Once(t)
    BY <1>1, <1>2, <1>4 DEF Once
<1>7. ToSet(t) = ToSet(s) \ {s[p]}
    <2>1. \A x : x \in ToSet(t) <=> \E i \in 1..Len(t) : t[i] = x
        BY <1>1, Members
    <2>2. \A x : x \in ToSet(s) <=> \E i \in 1..Len(s) : s[i] = x
        BY Members
    <2>3. \A i \in 1..Len(s) : s[i] = s[p] <=> i = p
        BY <1>1
    <2>4. ASSUME NEW x \in ToSet(t) PROVE x \in ToSet(s) /\ x # s[p]
        <3>1. PICK i \in 1..Len(t) : t[i] = x
            BY <2>1, <2>4
        <3> QED BY <1>2, <2>2, <2>3, <3>1
    <2>5. ASSUME NEW x \in ToSet(s), x # s[p] PROVE x \in ToSet(t)
        <3>1. PICK i \in 1..Len(s) : s[i] = x
            BY <2>2, <2>5
        <3> QED BY <1>3, <2>1, <2>5, <3>1
    <2>6. s[p] \notin ToSet(t)
        BY <2>4
    <2> QED BY <2>4, <2>5, <2>6
<1>8. ASSUME NEW x, NEW y PROVE Before(t, x, y) <=> Before(s, x, y) /\ x # s[p] /\ y # s[p]
    <2>1. ASSUME Before(t, x, y) PROVE Before(s, x, y) /\ x # s[p] /\ y # s[p]
        <3>1. PICK i \in 1..Len(t), j \in 1..Len(t) : i < j /\ t[i] = x /\ t[j] = y
            BY <2>1 DEF Before
        <3>2. /\ Back(i) \in 1..Len(s) /\ Back(i) # p /\ s[Back(i)] = x
              /\ Back(j) \in 1..Len(s) /\ Back(j) # p /\ s[Back(j)] = y
              /\ Back(i) < Back(j)
            BY <1>2, <1>4, <3>1
        <3> QED BY <1>1, <3>2 DEF Before
    <2>2. ASSUME Before(s, x, y), x # s[p], y # s[p] PROVE Before(t, x, y)
        BY <1>1, <1>3, <1>5, <2>2 DEF Before
    <2> QED BY <2>1, <2>2
<1> QED BY <1>6, <1>7, <1>8

\* Tail leaves such a gap,
LEMMA TailGaps ==
    ASSUME NEW s \in Seq(Keys), s # << >>
    PROVE  1 \in 1..Len(s) /\ Gap(s, 1, Tail(s))
<1>1. /\ Tail(s) \in Seq(Keys) /\ Len(s) \in Nat \ {0} /\ Len(Tail(s)) = Len(s) - 1
      /\ \A i \in 1..Len(s) - 1 : Tail(s)[i] = s[i + 1]
    OBVIOUS
<1>2. \A i \in 1..Len(s) - 1 : ~(i < 1)
    BY <1>1
<1> QED BY <1>1, <1>2 DEF Gap

\* and so does RemoveAt.
LEMMA RemoveAtGaps ==
    ASSUME NEW s \in Seq(Keys), NEW p \in 1..Len(s)
    PROVE  Gap(s, p, RemoveAt(s, p))
<1> DEFINE a == SubSeq(s, 1, p - 1)
           b == SubSeq(s, p + 1, Len(s))
<1>1. Len(s) \in Nat /\ \A i \in 1..Len(s) : s[i] \in Keys
    OBVIOUS
<1>2. a \in Seq(Keys) /\ Len(a) = p - 1 /\ \A i \in 1..p - 1 : a[i] = s[i]
    BY <1>1
<1>3. b \in Seq(Keys) /\ Len(b) = Len(s) - p /\ \A i \in 1..Len(s) - p : b[i] = s[p + i]
    BY <1>1
<1> HIDE DEF a, b
<1>4. /\ a \o b \in Seq(Keys) /\ Len(a \o b) = Len(s) - 1
      /\ \A i \in 1..Len(s) - 1 : (a \o b)[i] = IF i <= p - 1 THEN a[i] ELSE b[i - (p - 1)]
    <2>1. /\ a \o b \in Seq(Keys) /\ Len(a \o b) = Len(a) + Len(b)
          /\ \A i \in 1..Len(a) + Len(b) :
                (a \o b)[i] = IF i <= Len(a) THEN a[i] ELSE b[i - Len(a)]
        BY <1>2, <1>3, ConcatProperties
    <2>2. Len(a) + Len(b) = Len(s) - 1
        BY <1>1, <1>2, <1>3
    <2> QED BY <1>2, <2>1, <2>2
<1>5. ASSUME NEW i \in 1..Len(s) - 1
      PROVE  (a \o b)[i] = IF i < p THEN s[i] ELSE s[i + 1]
    <2>1. CASE i < p
        BY <1>1, <1>2, <1>4, <2>1
    <2>2. CASE ~(i < p)
        <3>1. i - (p - 1) \in 1..Len(s) - p /\ p + (i - (p - 1)) = i + 1 /\ ~(i <= p - 1)
            BY <1>1, <2>2
        <3> QED BY <1>3, <1>4, <2>2, <3>1
    <2> QED BY <2>1, <2>2
<1>6. RemoveAt(s, p) = a \o b
    BY DEF RemoveAt, a, b
<1> QED BY <1>4, <1>5, <1>6 DEF Gap

\* Popping a key leaves the other members in their order.
LEMMA Popped ==
    ASSUME NEW s \in Seq(Keys), Once(s), NEW k
    PROVE  /\ RemoveFirst(s, k) \in Seq(Keys)
           /\ Once(RemoveFirst(s, k))
           /\ Len(RemoveFirst(s, k)) = IF k \in ToSet(s) THEN Len(s) - 1 ELSE Len(s)
           /\ ToSet(RemoveFirst(s, k)) = ToSet(s) \ {k}
           /\ \A x, y : Before(RemoveFirst(s, k), x, y) <=> Before(s, x, y) /\ x # k /\ y # k
           /\ k \notin ToSet(s) => RemoveFirst(s, k) = s
<1>1. CASE k \notin ToSet(s)
    <2>1. RemoveFirst(s, k) = s
        BY <1>1, Members DEF RemoveFirst
    <2> QED BY <1>1, <2>1, Members
<1>2. CASE k \in ToSet(s)
    <2>1. PICK p \in 1..Len(s) : s[p] = k
        BY <1>2, Members
    <2>2. \A i \in 1..Len(s) : s[i] = k <=> i = p
        BY <2>1 DEF Once
    <2>3. SelectInSeq(s, LAMBDA v : v = k) = p
        <3>1. {i \in 1..Len(s) : s[i] = k} = {p}
            BY <2>1, <2>2
        <3>2. p <= p
            BY <2>1
        <3> QED BY <3>1, <3>2 DEF SelectInSeq, Min
    <2>4. RemoveFirst(s, k) = RemoveAt(s, p)
        BY <2>1, <2>3 DEF RemoveFirst
    <2>5. Gap(s, p, RemoveFirst(s, k))
        BY <2>4, RemoveAtGaps
    <2> QED BY <1>2, <2>1, <2>5, GapLeaves DEF Gap
<1> QED BY <1>1, <1>2

\* A key that is added comes after all the others.
LEMMA Added ==
    ASSUME NEW s \in Seq(Keys), Once(s), NEW k \in Keys, k \notin ToSet(s)
    PROVE  /\ Append(s, k) \in Seq(Keys)
           /\ Once(Append(s, k))
           /\ Len(Append(s, k)) = Len(s) + 1
           /\ ToSet(Append(s, k)) = ToSet(s) \cup {k}
           /\ \A x, y : Before(Append(s, k), x, y)
                            <=> Before(s, x, y) \/ (x \in ToSet(s) /\ y = k)
<1> DEFINE t == Append(s, k)
<1>1. /\ t \in Seq(Keys) /\ Len(s) \in Nat /\ Len(t) = Len(s) + 1
      /\ \A i \in 1..Len(s) : t[i] = s[i]
      /\ t[Len(s) + 1] = k
    OBVIOUS
<1> HIDE DEF t
<1>2. \A i \in 1..Len(t) : i \in 1..Len(s) \/ i = Len(s) + 1
    BY <1>1
<1>3. 1..Len(s) \subseteq 1..Len(t) /\ Len(s) + 1 \in 1..Len(t)
    BY <1>1
<1>4. /\ \A x : x \in ToSet(t) <=> \E i \in 1..Len(t) : t[i] = x
      /\ \A x : x \in ToSet(s) <=> \E i \in 1..Len(s) : s[i] = x
    BY <1>1, Members
<1>5. Once(t)
    BY <1>1, <1>2, <1>4 DEF Once
<1>6. ToSet(t) = ToSet(s) \cup {k}
    BY <1>1, <1>2, <1>3, <1>4
<1>7. ASSUME NEW x, NEW y
      PROVE  Before(t, x, y) <=> Before(s, x, y) \/ (x \in ToSet(s) /\ y = k)
    <2>1. ASSUME Before(t, x, y) PROVE Before(s, x, y) \/ (x \in ToSet(s) /\ y = k)
        <3>1. PICK i \in 1..Len(t), j \in 1..Len(t) : i < j /\ t[i] = x /\ t[j] = y
            BY <2>1 DEF Before
        <3>2. i \in 1..Len(s)
            BY <1>1, <3>1
        <3>3. CASE j \in 1..Len(s)
            BY <1>1, <3>1, <3>2, <3>3 DEF Before
        <3>4. CASE j = Len(s) + 1
            BY <1>1, <1>4, <3>1, <3>2, <3>4
        <3> QED BY <1>2, <3>3, <3>4
    <2>2. ASSUME Before(s, x, y) PROVE Before(t, x, y)
        BY <1>1, <1>3, <2>2 DEF Before
    <2>3. ASSUME x \in ToSet(s), y = k PROVE Before(t, x, y)
        BY <1>1, <1>3, <1>4, <2>3 DEF Before
    <2> QED BY <2>1, <2>2, <2>3
<1> QED BY <1>1, <1>5, <1>6, <1>7 DEF t

\* A key that is moved to the end comes after all the others.
LEMMA MovedToEnd ==
    ASSUME NEW s \in Seq(Keys), Once(s), NEW k \in Keys
    PROVE  /\ ToEnd(s, k) \in Seq(Keys)
           /\ Once(ToEnd(s, k))
           /\ Len(ToEnd(s, k)) = IF k \in ToSet(s) THEN Len(s) ELSE Len(s) + 1
           /\ ToSet(ToEnd(s, k)) = ToSet(s) \cup {k}
           /\ \A x, y : Before(ToEnd(s, k), x, y)
                            <=> \/ Before(s, x, y) /\ x # k /\ y # k
                                \/ x \in ToSet(s) \ {k} /\ y = k
<1>1. Len(s) \in Nat
    OBVIOUS
<1>2. k \notin ToSet(RemoveFirst(s, k))
    BY Popped
<1> QED BY <1>1, <1>2, Popped, Added DEF ToEnd

-----------------------------------------------------------------------------
(* What the helpers do to the order of the dict c and the recency r.       *)

Ordered(c, r) ==
    /\ c \in Seq(Keys) /\ Once(c) /\ Len(c) <= Capacity
    /\ r \in Seq(Keys) /\ Once(r)
    /\ ToSet(c) \subseteq ToSet(r)
    /\ \A x, y \in ToSet(c) : Before(c, x, y) => Before(r, x, y)

\* Popping an entry keeps the order.
LEMMA PopOrders ==
    ASSUME NEW c, NEW r, Ordered(c, r), NEW k
    PROVE  Ordered(RemoveFirst(c, k), r)
<1>1. Len(c) \in Nat /\ Capacity \in Nat
    BY CacheAssumption DEF Ordered
<1>2. Len(RemoveFirst(c, k)) <= Capacity
    BY <1>1, Popped DEF Ordered
<1> QED BY <1>2, Popped DEF Ordered

\* Using an entry keeps the order,
LEMMA UseOrders ==
    ASSUME NEW c, NEW r, Ordered(c, r), NEW k \in ToSet(c)
    PROVE  /\ Ordered(ToEnd(c, k), ToEnd(r, k))
           /\ ToSet(ToEnd(c, k)) = ToSet(c)
<1>1. k \in Keys /\ k \in ToSet(r)
    BY Members DEF Ordered
<1>2. Len(ToEnd(c, k)) <= Capacity
    BY <1>1, MovedToEnd DEF Ordered
<1>3. ToSet(ToEnd(c, k)) = ToSet(c) /\ ToSet(ToEnd(r, k)) = ToSet(r)
    <2>1. ToSet(ToEnd(c, k)) = ToSet(c) \cup {k} /\ ToSet(ToEnd(r, k)) = ToSet(r) \cup {k}
        BY <1>1, MovedToEnd DEF Ordered
    <2> QED BY <1>1, <2>1
<1>4. ASSUME NEW x \in ToSet(c), NEW y \in ToSet(c), Before(ToEnd(c, k), x, y)
      PROVE  Before(ToEnd(r, k), x, y)
    <2>1. \/ Before(c, x, y) /\ x # k /\ y # k
          \/ x \in ToSet(c) \ {k} /\ y = k
        BY <1>1, <1>4, MovedToEnd DEF Ordered
    <2>2. \/ Before(r, x, y) /\ x # k /\ y # k
          \/ x \in ToSet(r) \ {k} /\ y = k
        BY <2>1 DEF Ordered
    <2> QED BY <1>1, <2>2, MovedToEnd DEF Ordered
<1> QED BY <1>1, <1>2, <1>3, <1>4, MovedToEnd DEF Ordered

\* The first entry comes before all the others.
LEMMA FirstIsBefore ==
    ASSUME NEW c \in Seq(Keys), c # << >>
    PROVE  \A y \in ToSet(c) \ {c[1]} : Before(c, c[1], y)
<1>1. Len(c) \in Nat \ {0}
    OBVIOUS
<1>2. ASSUME NEW y \in ToSet(c), y # c[1] PROVE Before(c, c[1], y)
    <2>1. PICK j \in 1..Len(c) : c[j] = y
        BY Members
    <2>2. 1 \in 1..Len(c) /\ 1 < j
        BY <1>1, <1>2, <2>1
    <2> QED BY <2>1, <2>2 DEF Before
<1> QED BY <1>2

\* and storing one does; if it costs an entry, that is the first of a full cache.
LEMMA StoreOrders ==
    ASSUME NEW c, NEW r, Ordered(c, r), NEW k \in Keys, NEW room,
           room = IF Len(RemoveFirst(c, k)) >= Capacity
                  THEN Tail(RemoveFirst(c, k)) ELSE RemoveFirst(c, k)
    PROVE  /\ Ordered(Append(room, k), ToEnd(r, k))
           /\ ToSet(Append(room, k)) \subseteq ToSet(c) \cup {k}
           /\ k \in ToSet(Append(room, k))
           /\ \A x \in ToSet(c) \ ToSet(Append(room, k)) :
                 /\ k \notin ToSet(c)
                 /\ Len(c) = Capacity
                 /\ \A y \in ToSet(c) \ {x} : Before(c, x, y)
<1> DEFINE others == RemoveFirst(c, k)
<1>1. /\ c \in Seq(Keys) /\ Once(c) /\ Len(c) \in Nat /\ Len(c) <= Capacity
      /\ Capacity \in Nat \ {0}
    BY CacheAssumption DEF Ordered
<1>2. /\ others \in Seq(Keys) /\ Once(others) /\ Len(others) \in Nat
      /\ Len(others) = IF k \in ToSet(c) THEN Len(c) - 1 ELSE Len(c)
      /\ ToSet(others) = ToSet(c) \ {k}
      /\ \A x, y : Before(others, x, y) => Before(c, x, y)
      /\ k \notin ToSet(c) => others = c
    BY <1>1, Popped, Members
<1> HIDE DEF others
<1>3. /\ room \in Seq(Keys) /\ Once(room) /\ Len(room) \in Nat /\ Len(room) + 1 <= Capacity
      /\ ToSet(room) \subseteq ToSet(others)
      /\ \A x, y : Before(room, x, y) => Before(others, x, y)
      /\ \A x \in ToSet(others) \ ToSet(room) :
            Len(others) >= Capacity /\ others # << >> /\ x = others[1]
    <2>1. CASE Len(others) >= Capacity
        <3>1. room = Tail(others) /\ others # << >>
            BY <1>1, <1>2, <2>1 DEF others
        <3>2. 1 \in 1..Len(others) /\ Gap(others, 1, room)
            BY <1>2, <3>1, TailGaps
        <3>3. /\ Once(room) /\ ToSet(room) = ToSet(others) \ {others[1]}
              /\ \A x, y : Before(room, x, y) => Before(others, x, y)
            BY <1>2, <3>2, GapLeaves
        <3>4. room \in Seq(Keys) /\ Len(room) = Len(others) - 1
            BY <3>2 DEF Gap
        <3>5. Len(room) \in Nat /\ Len(room) + 1 <= Capacity
            BY <1>1, <1>2, <2>1, <3>4
        <3> QED BY <2>1, <3>1, <3>3, <3>4, <3>5
    <2>2. CASE ~(Len(others) >= Capacity)
        <3>1. room = others
            BY <2>2 DEF others
        <3>2. Len(others) + 1 <= Capacity
            BY <1>1, <1>2, <2>2
        <3> QED BY <1>2, <3>1, <3>2
    <2> QED BY <2>1, <2>2
<1>4. k \notin ToSet(room)
    BY <1>2, <1>3
<1>5. /\ Append(room, k) \in Seq(Keys) /\ Once(Append(room, k))
      /\ Len(Append(room, k)) <= Capacity
      /\ ToSet(Append(room, k)) = ToSet(room) \cup {k}
      /\ \A x, y : Before(Append(room, k), x, y)
                       => Before(room, x, y) \/ (x \in ToSet(room) /\ y = k)
    <2>1. Len(Append(room, k)) = Len(room) + 1
        BY <1>3, <1>4, Added
    <2>2. Len(Append(room, k)) <= Capacity
        BY <1>3, <2>1
    <2>3. /\ Append(room, k) \in Seq(Keys) /\ Once(Append(room, k))
          /\ ToSet(Append(room, k)) = ToSet(room) \cup {k}
          /\ \A x, y : Before(Append(room, k), x, y)
                           => Before(room, x, y) \/ (x \in ToSet(room) /\ y = k)
        <3>1. room \in Seq(Keys) /\ Once(room) /\ k \notin ToSet(room)
            BY <1>3, <1>4
        <3> QED BY <3>1, Added, ZenonT(60)
    <2> QED BY <2>2, <2>3
<1>6. /\ ToEnd(r, k) \in Seq(Keys) /\ Once(ToEnd(r, k))
      /\ ToSet(ToEnd(r, k)) = ToSet(r) \cup {k}
      /\ \A x, y : \/ Before(r, x, y) /\ x # k /\ y # k
                   \/ x \in ToSet(r) \ {k} /\ y = k
                   => Before(ToEnd(r, k), x, y)
    BY MovedToEnd DEF Ordered
<1>7. ToSet(room) \subseteq ToSet(c) /\ ToSet(c) \subseteq ToSet(r)
    BY <1>2, <1>3 DEF Ordered
<1>8. ASSUME NEW x, NEW y, Before(Append(room, k), x, y) PROVE Before(ToEnd(r, k), x, y)
    <2>1. CASE Before(room, x, y)
        <3>1. x \in ToSet(room) /\ y \in ToSet(room) /\ Before(c, x, y)
            BY <1>2, <1>3, <2>1, Members
        <3>2. Before(r, x, y) /\ x # k /\ y # k
            BY <1>4, <1>7, <3>1 DEF Ordered
        <3> QED BY <1>6, <3>2
    <2>2. CASE x \in ToSet(room) /\ y = k
        BY <1>4, <1>6, <1>7, <2>2
    <2> QED BY <1>5, <1>8, <2>1, <2>2
<1>9. Ordered(Append(room, k), ToEnd(r, k))
    BY <1>5, <1>6, <1>7, <1>8 DEF Ordered
<1>10. ASSUME NEW x \in ToSet(c), x \notin ToSet(Append(room, k))
       PROVE  /\ k \notin ToSet(c) /\ Len(c) = Capacity
              /\ \A y \in ToSet(c) \ {x} : Before(c, x, y)
    <2>1. x \in ToSet(others) /\ x \notin ToSet(room)
        BY <1>2, <1>5, <1>10
    <2>2. Len(others) >= Capacity /\ others # << >> /\ x = others[1]
        BY <1>3, <2>1
    <2>3. k \notin ToSet(c) /\ Len(c) = Capacity
        BY <1>1, <1>2, <2>2
    <2> QED BY <1>1, <1>2, <2>2, <2>3, FirstIsBefore
<1> QED BY <1>5, <1>7, <1>9, <1>10

-----------------------------------------------------------------------------
(* The inductive invariant: the parts of the two invariants say it all.    *)

Inv == EntriesExact /\ LoadIsAtomic

StateTypes == /\ left \in [Keys -> Nat \cup {Expired}]
              /\ lock \in Threads \cup {NoThread}
              /\ loading \in [Threads -> SUBSET Keys]
              /\ age \in [Keys -> Nat]

\* Its parts, as the steps see them.
LEMMA InvIs ==
    Inv <=> Ordered(cache, recency) /\ StateTypes /\ ServedWithinTtl /\ LoadIsAtomic
BY DEF Inv, EntriesExact, OrderIsRecency, TypeOK, Ordered, StateTypes, Cached

\* And so they put it together again.
LEMMA InvIsNext ==
    ASSUME Ordered(cache, recency)', StateTypes', ServedWithinTtl', LoadIsAtomic'
    PROVE  Inv'
BY DEF Inv, EntriesExact, OrderIsRecency, TypeOK, Ordered, StateTypes, Cached

\* The cache is empty at first.
LEMMA InitInv == Init => Inv
<1> SUFFICES ASSUME Init PROVE Inv
    OBVIOUS
<1> USE DEF Init
<1>1. ToSet(<< >>) = {} /\ Len(<< >>) = 0 /\ << >> \in Seq(Keys) /\ Capacity \in Nat
    BY CacheAssumption DEF ToSet
<1>2. Ordered(cache, recency)
    BY <1>1 DEF Ordered, Once
<1>3. StateTypes
    <2>1. left \in [Keys -> Nat \cup {Expired}]
        OBVIOUS
    <2>2. loading \in [Threads -> SUBSET Keys] /\ age \in [Keys -> Nat] /\ lock = NoThread
        OBVIOUS
    <2> QED BY <2>1, <2>2 DEF StateTypes
<1>4. ServedWithinTtl
    BY <1>1 DEF ServedWithinTtl, Fresh, Cached
<1>5. LoadIsAtomic
    BY CacheAssumption DEF LoadIsAtomic
<1> QED BY <1>2, <1>3, <1>4, <1>5, InvIs

\* A lifetime that runs with an age that runs makes no entry older than it may be: an
\* entry stored now has its lifetime before it, and none becomes fresh otherwise.
LEMMA StoreServes ==
    ASSUME StateTypes, ServedWithinTtl, NEW k \in Keys, NEW ttl \in Ttls,
           left' = [left EXCEPT ![k] = ttl], age' = [age EXCEPT ![k] = 0],
           Cached' \subseteq Cached \cup {k}
    PROVE  ServedWithinTtl' /\ left' \in [Keys -> Nat \cup {Expired}] /\ age' \in [Keys -> Nat]
<1>1. ttl \in Nat /\ ttl + 0 = ttl
    BY CacheAssumption
<1>2. left' \in [Keys -> Nat \cup {Expired}] /\ age' \in [Keys -> Nat]
    BY <1>1 DEF StateTypes
<1>3. ASSUME NEW j \in Keys, Fresh(j)' PROVE (left[j] + age[j])' \in Ttls
    <2>1. CASE j = k
        BY <1>1, <2>1 DEF StateTypes
    <2>2. CASE j # k
        <3>1. left'[j] = left[j] /\ age'[j] = age[j]
            BY <2>2 DEF StateTypes
        <3>2. Fresh(j)
            BY <1>3, <2>2, <3>1 DEF Fresh
        <3> QED BY <3>1, <3>2 DEF ServedWithinTtl
    <2> QED BY <2>1, <2>2
<1> QED BY <1>2, <1>3 DEF ServedWithinTtl

\* With the lock in hand nobody but its owner loads, and with it free nobody does.
LEMMA LockedOut ==
    ASSUME StateTypes, LoadIsAtomic
    PROVE  /\ Unlocked => \A t \in Threads : loading[t] = {}
           /\ \A t \in Threads : loading[t] # {} =>
                 \A u \in Threads \ {t} : loading[u] = {}
BY CacheAssumption DEF LoadIsAtomic, Unlocked, StateTypes

-----------------------------------------------------------------------------
(* Every step keeps the invariant.                                         *)

\* _set() stores k and costs at most the first entry of a full cache.
LEMMA StoreKeeps ==
    ASSUME Inv, NEW k \in Keys, NEW ttl \in Ttls, Store(k, ttl)
    PROVE  /\ Ordered(cache, recency)'
           /\ ServedWithinTtl'
           /\ left' \in [Keys -> Nat \cup {Expired}] /\ age' \in [Keys -> Nat]
           /\ k \in Cached' /\ Cached' \subseteq Cached \cup {k}
           /\ \A x \in Cached \ Cached' :
                 /\ k \notin Cached
                 /\ Len(cache) = Capacity
                 /\ \A y \in Cached \ {x} : Before(recency, x, y)
<1>1. Ordered(cache, recency) /\ StateTypes /\ ServedWithinTtl
    BY InvIs
<1>2. PICK room : /\ room = IF Len(RemoveFirst(cache, k)) >= Capacity
                            THEN Tail(RemoveFirst(cache, k)) ELSE RemoveFirst(cache, k)
                  /\ cache' = Append(room, k)
    BY DEF Store
<1>3. /\ recency' = ToEnd(recency, k)
      /\ left' = [left EXCEPT ![k] = ttl] /\ age' = [age EXCEPT ![k] = 0]
    BY DEF Store, Used
<1>4. Ordered(cache', recency')
    BY <1>1, <1>2, <1>3, StoreOrders
<1>5. Cached' \subseteq Cached \cup {k} /\ k \in Cached'
    BY <1>1, <1>2, StoreOrders, ZenonT(60) DEF Cached
<1>6. ASSUME NEW x \in Cached, x \notin Cached'
      PROVE  /\ k \notin Cached /\ Len(cache) = Capacity
             /\ \A y \in Cached \ {x} : Before(recency, x, y)
    <2>1. /\ k \notin Cached /\ Len(cache) = Capacity
          /\ \A y \in Cached \ {x} : Before(cache, x, y)
        BY <1>1, <1>2, <1>6, StoreOrders, ZenonT(60) DEF Cached
    <2> QED BY <1>1, <2>1 DEF Ordered, Cached
<1>7. ServedWithinTtl' /\ left' \in [Keys -> Nat \cup {Expired}] /\ age' \in [Keys -> Nat]
    BY <1>1, <1>3, <1>5, StoreServes
<1> QED BY <1>4, <1>5, <1>6, <1>7

\* set()
LEMMA SetKeeps == ASSUME Inv, NEW k \in Keys, NEW ttl \in Ttls, Set(k, ttl) PROVE Inv'
<1>1. StateTypes /\ LoadIsAtomic /\ Unlocked /\ Store(k, ttl) /\ UNCHANGED <<lock, loading>>
    BY InvIs DEF Set
<1>2. /\ Ordered(cache, recency)' /\ ServedWithinTtl'
      /\ left' \in [Keys -> Nat \cup {Expired}] /\ age' \in [Keys -> Nat]
    BY <1>1, StoreKeeps
<1>3. StateTypes'
    BY <1>1, <1>2 DEF StateTypes
<1>4. LoadIsAtomic'
    <2>1. \A t \in Threads : loading[t] = {}
        BY <1>1, LockedOut
    <2> QED BY <1>1, <2>1 DEF LoadIsAtomic
<1> QED BY <1>2, <1>3, <1>4, InvIsNext

\* _get() of a key that is fresh, and of one that is not.
LEMMA HitKeeps ==
    ASSUME Inv, NEW k \in Keys, Hit(k)
    PROVE  Ordered(cache, recency)' /\ ServedWithinTtl' /\ Cached' = Cached
<1>1. /\ Ordered(cache, recency) /\ ServedWithinTtl /\ k \in ToSet(cache)
      /\ cache' = ToEnd(cache, k) /\ recency' = ToEnd(recency, k) /\ UNCHANGED <<left, age>>
    BY InvIs DEF Hit, Fresh, Used, Cached
<1>2. Ordered(cache', recency') /\ ToSet(cache') = ToSet(cache)
    BY <1>1, UseOrders
<1> QED BY <1>1, <1>2 DEF ServedWithinTtl, Fresh, Cached

\* A miss removes the entry if it has expired.
LEMMA MissKeeps ==
    ASSUME Inv, NEW k \in Keys, cache' = RemoveFirst(cache, k), UNCHANGED <<left, recency, age>>
    PROVE  Ordered(cache, recency)' /\ ServedWithinTtl' /\ Cached' = Cached \ {k}
<1>1. Ordered(cache, recency) /\ ServedWithinTtl
    BY InvIs
<1>2. Ordered(cache', recency')
    BY <1>1, PopOrders
<1>3. ToSet(cache') = ToSet(cache) \ {k}
    BY <1>1, Popped DEF Ordered
<1> QED BY <1>1, <1>2, <1>3 DEF ServedWithinTtl, Fresh, Cached

\* With the lock free nobody loads, so any key may come and go.
LEMMA UnlockedKeeps ==
    ASSUME Inv, Unlocked, UNCHANGED <<lock, loading>>
    PROVE  LoadIsAtomic'
<1>1. LoadIsAtomic /\ \A t \in Threads : loading[t] = {}
    BY InvIs, LockedOut
<1> QED BY <1>1 DEF LoadIsAtomic

\* get() and delete()
LEMMA GetKeeps == ASSUME Inv, NEW k \in Keys, Get(k) PROVE Inv'
<1>1. StateTypes /\ LoadIsAtomic'
    BY InvIs, UnlockedKeeps DEF Get
<1>2. Ordered(cache, recency)' /\ ServedWithinTtl'
    BY HitKeeps, MissKeeps DEF Get, Miss
<1>3. StateTypes'
    BY <1>1 DEF StateTypes, Get, Hit, Miss
<1> QED BY <1>1, <1>2, <1>3, InvIsNext

\* delete()
LEMMA DeleteKeeps == ASSUME Inv, NEW k \in Keys, Delete(k) PROVE Inv'
<1>1. StateTypes /\ LoadIsAtomic'
    BY InvIs, UnlockedKeeps DEF Delete
<1>2. Ordered(cache, recency)' /\ ServedWithinTtl'
    BY MissKeeps DEF Delete
<1>3. StateTypes'
    BY <1>1 DEF StateTypes, Delete
<1> QED BY <1>1, <1>2, <1>3, InvIsNext

\* get_or_set() begins a load of a key that it found missing,
LEMMA LoadKeeps == ASSUME Inv, NEW t \in Threads, NEW k \in Keys, Load(t, k) PROVE Inv'
<1>1. /\ StateTypes /\ LoadIsAtomic /\ Miss(k) /\ lock' = t
      /\ loading' = [loading EXCEPT ![t] = {k}]
      /\ \A u \in Threads : loading[u] = {}
    BY InvIs, LockedOut DEF Load
<1>2. Ordered(cache, recency)' /\ ServedWithinTtl' /\ Cached' = Cached \ {k}
    BY <1>1, MissKeeps DEF Miss
<1>3. StateTypes'
    BY <1>1 DEF StateTypes, Miss
<1>4. \A u \in Threads : loading'[u] = IF u = t THEN {k} ELSE {}
    BY <1>1 DEF StateTypes
<1>5. LoadIsAtomic'
    BY <1>1, <1>2, <1>4 DEF LoadIsAtomic
<1> QED BY <1>2, <1>3, <1>5, InvIsNext

\* and ends it: then nobody loads any more.
LEMMA LoadEnds ==
    ASSUME Inv, NEW t \in Threads, loading[t] # {},
           loading' = [loading EXCEPT ![t] = {}], lock' = NoThread
    PROVE  LoadIsAtomic' /\ loading' \in [Threads -> SUBSET Keys]
<1>1. StateTypes /\ \A u \in Threads \ {t} : loading[u] = {}
    BY InvIs, LockedOut
<1>2. \A u \in Threads : loading'[u] = {}
    BY <1>1 DEF StateTypes
<1>3. lock' \notin Threads
    BY CacheAssumption
<1> QED BY <1>1, <1>2, <1>3 DEF LoadIsAtomic, StateTypes

\* The factory returns: its value is stored, and the lock released.
LEMMA LoadReturnsKeeps ==
    ASSUME Inv, NEW t \in Threads, NEW ttl \in Ttls, LoadReturns(t, ttl) PROVE Inv'
<1>1. StateTypes
    BY InvIs
<1>2. PICK k \in loading[t] : Store(k, ttl)
    BY DEF LoadReturns
<1>3. k \in Keys
    BY <1>1 DEF StateTypes
<1>4. /\ Ordered(cache, recency)' /\ ServedWithinTtl'
      /\ left' \in [Keys -> Nat \cup {Expired}] /\ age' \in [Keys -> Nat]
    BY <1>2, <1>3, StoreKeeps
<1>5. LoadIsAtomic' /\ loading' \in [Threads -> SUBSET Keys] /\ lock' = NoThread
    BY <1>2, LoadEnds DEF LoadReturns
<1>6. StateTypes'
    BY <1>4, <1>5 DEF StateTypes
<1> QED BY <1>4, <1>5, <1>6, InvIsNext

\* The factory raises: only the lock is released.
LEMMA LoadRaisesKeeps == ASSUME Inv, NEW t \in Threads, LoadRaises(t) PROVE Inv'
<1>1. Ordered(cache, recency) /\ StateTypes /\ ServedWithinTtl
    BY InvIs
<1>2. Ordered(cache, recency)' /\ ServedWithinTtl'
    BY <1>1 DEF LoadRaises, ServedWithinTtl, Fresh, Cached
<1>3. LoadIsAtomic' /\ loading' \in [Threads -> SUBSET Keys] /\ lock' = NoThread
    BY LoadEnds DEF LoadRaises
<1>4. StateTypes'
    BY <1>1, <1>3 DEF StateTypes, LoadRaises
<1> QED BY <1>2, <1>3, <1>4, InvIsNext

\* While the clock runs what is left of a lifetime and the age add up to the same.
LEMMA TickKeeps == ASSUME Inv, Tick PROVE Inv'
<1>1. /\ Ordered(cache, recency) /\ StateTypes /\ ServedWithinTtl /\ LoadIsAtomic
      /\ UNCHANGED <<cache, lock, loading, recency>>
    BY InvIs DEF Tick
<1>2. Expired \notin Nat
    BY DEF Expired
<1>3. \A k \in Keys : left[k] \in Nat \cup {Expired} /\ age[k] \in Nat
    BY <1>1 DEF StateTypes
<1>4. /\ left' \in [Keys -> Nat \cup {Expired}] /\ age' \in [Keys -> Nat]
      /\ \A k \in Keys :
            left'[k] # Expired => /\ left[k] # Expired
                                  /\ left'[k] + age'[k] = left[k] + age[k]
    BY <1>3 DEF Tick, Expired
<1>5. StateTypes'
    BY <1>1, <1>4 DEF StateTypes
<1>6. ServedWithinTtl'
    BY <1>1, <1>4 DEF ServedWithinTtl, Fresh, Cached
<1>7. Ordered(cache, recency)' /\ LoadIsAtomic'
    BY <1>1 DEF LoadIsAtomic, Cached
<1> QED BY <1>5, <1>6, <1>7, InvIsNext

\* Every step keeps the invariant.
LEMMA NextInv == Inv /\ [Next]_vars => Inv'
<1> SUFFICES ASSUME Inv, [Next]_vars PROVE Inv'
    OBVIOUS
<1>1. CASE UNCHANGED vars
    BY <1>1 DEF vars, Inv, EntriesExact, OrderIsRecency, TypeOK, ServedWithinTtl, LoadIsAtomic,
                Fresh, Cached
<1>2. CASE Next
    BY <1>2, SetKeeps, GetKeeps, DeleteKeeps, LoadKeeps, LoadReturnsKeeps, LoadRaisesKeeps,
       TickKeeps DEF Next
<1> QED BY <1>1, <1>2

\* The invariant holds in every reachable state.
THEOREM Invariance == Spec => []Inv
BY InitInv, NextInv, PTL DEF Spec

-----------------------------------------------------------------------------
(* The theorems.                                                           *)

\* The order of the dict is the order of last use and nothing is served longer than a
\* lifetime it was stored with, after any sequence of the operations; and from the look-up
\* of get_or_set() that missed to the end of its factory nobody else stores the key or
\* loads it.
THEOREM CacheStaysExact == Spec => []CacheExact
<1>1. Inv => CacheExact
    BY DEF Inv, CacheExact
<1> QED BY <1>1, Invariance, PTL

\* Nothing but its expiry, delete() and, for the least recently used one, a new key in
\* a full cache costs an entry.
THEOREM EvictsLeastRecent == Spec => OnlyLeastRecentEvicted
<1> DEFINE Lost(k) ==
               \/ left[k] = Expired
               \/ Delete(k)
               \/ /\ Len(cache) = Capacity
                  /\ \E n \in ToSet(cache') : n \notin Cached
                  /\ \A x \in Cached \ {k} : Before(recency, k, x)
           NoneLost == \A k \in Cached : k \notin ToSet(cache') => Lost(k)
<1>1. Inv /\ [Next]_vars => [NoneLost]_vars
    <2> SUFFICES ASSUME Inv, Next, NEW k \in Cached, k \notin ToSet(cache') PROVE Lost(k)
        OBVIOUS
    <2>1. \A x \in ToSet(cache') : x \in Cached'
        BY DEF Cached
    <2>2. ASSUME NEW n \in Keys, NEW ttl \in Ttls, Store(n, ttl) PROVE Lost(k)
        <3>1. k \notin Cached'
            BY DEF Cached
        <3>2. /\ n \in ToSet(cache') /\ n \notin Cached /\ Len(cache) = Capacity
              /\ \A y \in Cached \ {k} : Before(recency, k, y)
            BY <2>2, <3>1, StoreKeeps DEF Cached
        <3> QED BY <3>2
    <2>3. ASSUME NEW n \in Keys, Hit(n) \/ Miss(n) PROVE Lost(k)
        <3>1. CASE Hit(n)
            BY <3>1, HitKeeps DEF Cached
        <3>2. CASE Miss(n)
            <4>1. Cached' = Cached \ {n}
                BY <3>2, MissKeeps DEF Miss
            <4>2. k = n
                BY <4>1 DEF Cached
            <4> QED BY <3>2, <4>2 DEF Miss, Fresh
        <3> QED BY <2>3, <3>1, <3>2
    <2>4. ASSUME NEW n \in Keys, Delete(n) PROVE Lost(k)
        <3>1. Cached' = Cached \ {n}
            BY <2>4, MissKeeps DEF Delete
        <3>2. k = n
            BY <3>1 DEF Cached
        <3> QED BY <2>4, <3>2
    <2>5. ASSUME NEW t \in Threads, NEW ttl \in Ttls, LoadReturns(t, ttl) PROVE Lost(k)
        <3>1. PICK n \in loading[t] : Store(n, ttl)
            BY <2>5 DEF LoadReturns
        <3>2. n \in Keys
            BY InvIs DEF StateTypes
        <3> QED BY <2>2, <3>1, <3>2
    <2>6. ASSUME cache' = cache PROVE Lost(k)
        BY <2>6 DEF Cached
    <2> QED BY <2>2, <2>3, <2>4, <2>5, <2>6 DEF Next, Set, Get, Load, LoadRaises, Tick
<1> QED BY <1>1, Invariance, PTL DEF Spec, OnlyLeastRecentEvicted

-----------------------------------------------------------------------------
(* The refinement.                                                         *)

\* The live entries of the map are the fresh ones of the cache.
LEMMA LiveIsFresh ==
    /\ Map!Live = {k \in Keys : Fresh(k)}
    /\ Map!Live \subseteq Cached
    /\ \A k \in Keys : Life[k] = IF Fresh(k) THEN left[k] ELSE Map!Gone
BY DEF Map!Live, Map!Gone, Life, Expired, Fresh

LEMMA LiveIsFreshNext ==
    /\ Map!Live' = {k \in Keys : Fresh(k)'}
    /\ Map!Live' \subseteq Cached'
    /\ \A k \in Keys : Life'[k] = IF Fresh(k)' THEN left'[k] ELSE Map!Gone
BY DEF Map!Live, Map!Gone, Life, Expired, Fresh

\* A use is the same for both.
LEMMA UsedTouches == \A k : Used(k) <=> Map!Touch(k)
<1>1. \A k : RemoveFirst(recency, k) = Map!RemoveFirst(recency, k)
    BY DEF RemoveFirst, Map!RemoveFirst, RemoveAt, Map!RemoveAt, SelectInSeq, Map!SelectInSeq,
           Min, Map!Min
<1> QED BY <1>1 DEF Used, ToEnd, Map!Touch

\* A dict has no more members than positions.
LEMMA FewMembers ==
    ASSUME NEW c, NEW r, Ordered(c, r), NEW S, S \subseteq ToSet(c)
    PROVE  Cardinality(S) <= Capacity
<1>1. c \in Seq(Keys) /\ Len(c) \in Nat /\ Len(c) <= Capacity /\ Capacity \in Nat
    BY CacheAssumption DEF Ordered
<1>2. c \in Surjection(1..Len(c), ToSet(c))
    <2>1. \A x \in ToSet(c) : \E i \in 1..Len(c) : c[i] = x
        BY <1>1, Members
    <2>2. \A i \in 1..Len(c) : c[i] \in ToSet(c)
        BY <1>1, Members
    <2>3. c \in [1..Len(c) -> ToSet(c)]
        BY <1>1, <2>2
    <2> QED BY <2>1, <2>3 DEF Surjection
<1>3. IsFiniteSet(1..Len(c)) /\ Cardinality(1..Len(c)) = Len(c)
    <2>1. 1 \in Int /\ Len(c) \in Int
        BY <1>1
    <2>2. /\ IsFiniteSet(1..Len(c))
          /\ Cardinality(1..Len(c)) = IF 1 > Len(c) THEN 0 ELSE Len(c) - 1 + 1
        BY <2>1, FS_Interval
    <2> QED BY <1>1, <2>2
<1>4. IsFiniteSet(ToSet(c)) /\ Cardinality(ToSet(c)) <= Len(c)
    BY <1>2, <1>3, FS_Surjection
<1>5. /\ IsFiniteSet(S) /\ Cardinality(S) <= Cardinality(ToSet(c))
      /\ Cardinality(S) \in Nat /\ Cardinality(ToSet(c)) \in Nat
    BY <1>4, FS_Subset, FS_CardinalityType
<1> QED BY <1>1, <1>4, <1>5

\* Of two members of a sequence only one can come before the other.
LEMMA BeforeOneWay ==
    ASSUME NEW s \in Seq(Keys), Once(s), NEW x, NEW y, Before(s, x, y), Before(s, y, x)
    PROVE  FALSE
<1>1. Len(s) \in Nat
    OBVIOUS
<1>2. PICK i \in 1..Len(s), j \in 1..Len(s) : i < j /\ s[i] = x /\ s[j] = y
    BY DEF Before
<1>3. PICK m \in 1..Len(s), n \in 1..Len(s) : m < n /\ s[m] = y /\ s[n] = x
    BY DEF Before
<1>4. i = n /\ j = m
    BY <1>2, <1>3 DEF Once
<1> QED BY <1>1, <1>2, <1>3, <1>4

\* _set() fills the map: the entry that goes is stale, or the least recently used.
LEMMA StoreFills ==
    ASSUME Inv, NEW k \in Keys, NEW ttl \in Ttls, Store(k, ttl)
    PROVE  Map!Fill(k, ttl)
<1>1. /\ Ordered(cache, recency) /\ StateTypes
      /\ recency \in Seq(Keys) /\ Once(recency)
    BY InvIs DEF Ordered
<1>2. /\ Ordered(cache, recency)'
      /\ k \in Cached' /\ Cached' \subseteq Cached \cup {k}
      /\ \A x \in Cached \ Cached' : /\ k \notin Cached
                                     /\ \A y \in Cached \ {x} : Before(recency, x, y)
    BY StoreKeeps
<1>3. ttl # Map!Gone /\ ttl # Expired
    BY CacheAssumption DEF Map!Gone, Expired
<1>4. \A j \in Keys : left'[j] = IF j = k THEN ttl ELSE left[j]
    BY <1>1 DEF Store, StateTypes
<1>5. /\ Life'[k] = ttl
      /\ \A j \in Keys \ {k} :
            Life'[j] = IF j \in Cached \ Cached' THEN Map!Gone ELSE Life[j]
    <2>1. Fresh(k)'
        BY <1>2, <1>3, <1>4 DEF Fresh
    <2>2. ASSUME NEW j \in Keys \ {k}
          PROVE  Fresh(j)' <=> Fresh(j) /\ j \in Cached'
        BY <1>2, <1>4 DEF Fresh
    <2>3. \A j \in Keys : Fresh(j) => j \in Cached
        BY DEF Fresh
    <2> QED BY <1>4, <2>1, <2>2, <2>3, LiveIsFresh, LiveIsFreshNext
<1>6. /\ Life \in [Keys -> {Life[j] : j \in Keys}]
      /\ Life' = [j \in Keys |-> Life'[j]]
    BY DEF Life
<1>7. \/ Life' = [Life EXCEPT ![k] = ttl]
      \/ /\ k \notin Map!Live
         /\ \E x \in Map!Live : /\ \A y \in Map!Live \ {x} : Map!EarlierUsed(x, y)
                                /\ Life' = [Life EXCEPT ![k] = ttl, ![x] = Map!Gone]
    <2>1. CASE \A x \in Map!Live \ {k} : x \in Cached'
        <3>1. \A j \in Keys \ {k} : Life'[j] = Life[j]
            BY <1>5, <2>1, LiveIsFresh
        <3>2. Life' = [Life EXCEPT ![k] = ttl]
            BY <1>5, <1>6, <3>1
        <3> QED BY <3>2
    <2>2. ASSUME NEW x \in Map!Live \ {k}, x \notin Cached'
          PROVE  /\ k \notin Map!Live
                 /\ \A y \in Map!Live \ {x} : Map!EarlierUsed(x, y)
                 /\ Life' = [Life EXCEPT ![k] = ttl, ![x] = Map!Gone]
        <3>1. /\ x \in Keys /\ x \in Cached \ Cached' /\ k \notin Cached
              /\ \A y \in Cached \ {x} : Before(recency, x, y)
            BY <1>2, <2>2, LiveIsFresh
        <3>2. \A y \in Cached \ {x} : y \in Cached'
            <4> SUFFICES ASSUME NEW y \in Cached \ {x}, y \notin Cached' PROVE FALSE
                OBVIOUS
            <4>1. Before(recency, x, y) /\ Before(recency, y, x)
                BY <1>2, <3>1
            <4> QED BY <1>1, <4>1, BeforeOneWay
        <3>3. \A j \in Keys \ {k} : Life'[j] = IF j = x THEN Map!Gone ELSE Life[j]
            BY <1>5, <3>1, <3>2
        <3>4. Life' = [Life EXCEPT ![k] = ttl, ![x] = Map!Gone]
            BY <1>5, <1>6, <2>2, <3>1, <3>3
        <3>5. k \notin Map!Live /\ \A y \in Map!Live \ {x} : Before(recency, x, y)
            BY <3>1, LiveIsFresh
        <3> QED BY <3>4, <3>5 DEF Before, Map!EarlierUsed
    <2> QED BY <2>1, <2>2
<1>8. Cardinality(Map!Live') <= Capacity
    BY <1>2, FewMembers, LiveIsFreshNext DEF Cached
<1>9. Map!Touch(k)
    BY UsedTouches DEF Store
<1>10. Map!Cardinality(Map!Live') <= Capacity
    BY <1>8 DEF Cardinality, Map!Cardinality
<1> QED BY <1>7, <1>9, <1>10 DEF Map!Fill

\* A step that changes neither lifetimes nor which entries are fresh changes no life.
LEMMA LifeStays ==
    ASSUME left' = left, \A k \in Keys : Fresh(k) <=> Fresh(k)'
    PROVE  Life' = Life
BY DEF Life

\* A miss, which pops an entry that has expired, is none of the map's business.
LEMMA MissIsNothing ==
    ASSUME Inv, NEW k \in Keys, Miss(k)
    PROVE  Life' = Life /\ recency' = recency
<1>1. Cached' = Cached \ {k}
    BY MissKeeps DEF Miss
<1>2. \A j \in Keys : Fresh(j) <=> Fresh(j)'
    BY <1>1 DEF Miss, Fresh
<1>3. Life' = Life
    BY <1>2, LifeStays DEF Miss
<1> QED BY <1>3 DEF Miss

\* The methods that hold the lock from start to end.
LEMMA MethodsMap ==
    ASSUME Inv, NEW k \in Keys, (\E ttl \in Ttls : Set(k, ttl)) \/ Get(k) \/ Delete(k)
    PROVE  [Map!MapNext]_Map!mapVars
<1>1. ASSUME NEW ttl \in Ttls, Set(k, ttl) PROVE Map!Put(k, ttl)
    BY <1>1, StoreFills DEF Set, Unlocked, Map!Put, Map!Free
<1>2. ASSUME Get(k) PROVE Map!Read(k) \/ UNCHANGED Map!mapVars
    <2>1. CASE Hit(k)
        <3>1. \A j \in Keys : Fresh(j) <=> Fresh(j)'
            BY <2>1, HitKeeps DEF Hit, Fresh
        <3>2. Life' = Life
            BY <2>1, <3>1, LifeStays DEF Hit
        <3>3. k \in Map!Live
            BY <2>1, LiveIsFresh DEF Hit
        <3>4. Map!Touch(k)
            BY <2>1, UsedTouches DEF Hit
        <3> QED BY <1>2, <3>2, <3>3, <3>4 DEF Get, Unlocked, Map!Read, Map!Free
    <2>2. CASE Miss(k)
        BY <1>2, <2>2, MissIsNothing DEF Get, Map!mapVars
    <2> QED BY <1>2, <2>1, <2>2 DEF Get
<1>3. ASSUME Delete(k) PROVE Map!Drop(k)
    <2>1. Cached' = Cached \ {k} /\ left' = left
        BY <1>3, MissKeeps DEF Delete
    <2>2. Life' = [Life EXCEPT ![k] = Map!Gone]
        BY <2>1 DEF Life, Fresh, Map!Gone, Expired
    <2> QED BY <1>3, <2>2 DEF Delete, Unlocked, Map!Drop, Map!Free
<1> QED BY <1>1, <1>2, <1>3 DEF Map!MapNext

\* The two halves of a load.
LEMMA LoadsMap ==
    ASSUME Inv, NEW t \in Threads,
           \/ \E k \in Keys : Load(t, k)
           \/ \E ttl \in Ttls : LoadReturns(t, ttl)
           \/ LoadRaises(t)
    PROVE  Map!MapNext
<1>0. StateTypes /\ LoadIsAtomic
    BY InvIs
<1>1. ASSUME NEW k \in Keys, Load(t, k) PROVE Map!BeginLoad(t, k)
    <2>1. Life' = Life /\ recency' = recency
        BY <1>1, MissIsNothing DEF Load
    <2>2. k \notin Map!Live
        BY <1>1, LiveIsFresh DEF Load, Miss
    <2> QED BY <1>1, <2>1, <2>2 DEF Load, Unlocked, Map!BeginLoad, Map!Free
<1>2. ASSUME NEW ttl \in Ttls, LoadReturns(t, ttl) PROVE Map!EndLoad(t)
    <2>1. PICK k \in loading[t] : Store(k, ttl)
        BY <1>2 DEF LoadReturns
    <2>2. k \in Keys /\ k \notin Cached /\ lock = t
        BY <1>0, <2>1 DEF StateTypes, LoadIsAtomic
    <2>3. k \notin Map!Live /\ Map!Fill(k, ttl)
        BY <2>1, <2>2, StoreFills, LiveIsFresh
    <2> QED BY <1>2, <2>1, <2>2, <2>3 DEF LoadReturns, Map!EndLoad
<1>3. ASSUME LoadRaises(t) PROVE Map!EndLoad(t)
    <2>1. lock = t
        BY <1>0, <1>3 DEF LoadRaises, LoadIsAtomic
    <2>2. Life' = Life
        BY <1>3 DEF LoadRaises, Life, Fresh, Cached
    <2> QED BY <1>3, <2>1, <2>2 DEF LoadRaises, Map!EndLoad
<1> QED BY <1>1, <1>2, <1>3 DEF Map!MapNext

\* The clock: an entry whose time is over is gone, although the dict still has it.
LEMMA TickMaps == ASSUME Inv, Tick PROVE Map!Elapse
<1>1. StateTypes /\ UNCHANGED <<cache, lock, loading, recency>>
    BY InvIs DEF Tick
<1>2. \A k \in Keys : /\ left[k] \in Nat \cup {Expired}
                      /\ left'[k] = IF left[k] = Expired THEN Expired ELSE left[k] - 1
    BY <1>1 DEF Tick, StateTypes
<1>3. ASSUME NEW k \in Keys
      PROVE  Life'[k] = IF k \in Map!Live THEN Life[k] - 1 ELSE Map!Gone
    <2>1. Cached' = Cached
        BY <1>1 DEF Cached
    <2>2. Fresh(k) <=> k \in Cached /\ left[k] # -1
        BY DEF Fresh, Expired
    <2>3. Fresh(k)' <=> k \in Cached /\ left'[k] # -1
        BY <2>1 DEF Fresh, Expired
    <2>4. /\ k \in Map!Live <=> Fresh(k)
          /\ Life[k] = IF Fresh(k) THEN left[k] ELSE -1
          /\ Life'[k] = IF Fresh(k)' THEN left'[k] ELSE -1
        BY LiveIsFresh, LiveIsFreshNext DEF Map!Gone
    <2> QED BY <1>2, <2>2, <2>3, <2>4 DEF Map!Gone, Expired
<1>4. Life' = [k \in Keys |-> IF k \in Map!Live THEN Life[k] - 1 ELSE Map!Gone]
    <2>1. Life' = [k \in Keys |-> Life'[k]]
        BY DEF Life
    <2> QED BY <1>3, <2>1
<1> QED BY <1>1, <1>4 DEF Map!Elapse

\* The cache implements the map, for any keys, threads, lifetimes and capacity: that
\* expired entries stay in the dict, where they take up room, shows in no answer.
THEOREM RefinesLruMap == Spec => ImplementsLruMap
<1>1. Init => Map!MapInit
    <2>1. Init => Life = [k \in Keys |-> Map!Gone]
        BY DEF Init, Life, Fresh, Expired, Map!Gone
    <2> QED BY <2>1 DEF Init, Map!MapInit
<1>2. Inv /\ [Next]_vars => [Map!MapNext]_Map!mapVars
    <2> SUFFICES ASSUME Inv, [Next]_vars PROVE [Map!MapNext]_Map!mapVars
        OBVIOUS
    <2>1. CASE UNCHANGED vars
        BY <2>1 DEF vars, Map!mapVars, Life, Fresh, Cached
    <2>2. CASE Tick
        BY <2>2, TickMaps DEF Map!MapNext
    <2> QED BY <2>1, <2>2, MethodsMap, LoadsMap DEF Next
<1> QED BY <1>1, <1>2, Invariance, PTL DEF Spec, ImplementsLruMap, Map!MapSpec

===============================================================================
