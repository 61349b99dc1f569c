-------------------------- MODULE CacheShardProofs --------------------------
(***************************************************************************)
(* One shard of the cache for every set of masks, classes and weights and  *)
(* every width of the fields of a word: the layout of its slab, and that   *)
(* it implements Histogram.                                                *)
(***************************************************************************)
EXTENDS SlabPeak, SequenceTheorems, FiniteSetTheorems, FunctionTheorems, WellFoundedInduction, TLAPS

-----------------------------------------------------------------------------
(* Powers of two.  That a power doubles is read off the subsets of 1 .. n. *)
LEMMA Numbers == \A n \in Nat : /\ IsFiniteSet(1 .. n) /\ Cardinality(1 .. n) = n
                                /\ IsFiniteSet(0 .. (n - 1)) /\ Cardinality(0 .. (n - 1)) = n
<1> SUFFICES ASSUME NEW n \in Nat
             PROVE  /\ IsFiniteSet(1 .. n) /\ Cardinality(1 .. n) = n
                    /\ IsFiniteSet(0 .. (n - 1)) /\ Cardinality(0 .. (n - 1)) = n
    OBVIOUS
<1>1. 0 \in Int /\ 1 \in Int /\ n \in Int /\ n - 1 \in Int
    OBVIOUS
<1>2. /\ IsFiniteSet(1 .. n) /\ Cardinality(1 .. n) = IF 1 > n THEN 0 ELSE n - 1 + 1
      /\ IsFiniteSet(0 .. (n - 1)) /\ Cardinality(0 .. (n - 1)) = IF 0 > n - 1 THEN 0 ELSE n - 1 - 0 + 1
    BY <1>1, FS_Interval
<1> QED
    BY <1>2

LEMMA Subsets == \A n \in Nat : IsFiniteSet(SUBSET (1 .. n)) /\ Cardinality(SUBSET (1 .. n)) = 2^n
BY Numbers, FS_SUBSET

LEMMA PowerNat == \A n \in Nat : 2^n \in Nat \ {0}
<1> SUFFICES ASSUME NEW n \in Nat
             PROVE  2^n \in Nat \ {0}
    OBVIOUS
<1>1. 2^n \in Nat
    BY Subsets, FS_CardinalityType
<1>2. {} \in SUBSET (1 .. n)
    OBVIOUS
<1>3. Cardinality(SUBSET (1 .. n)) # 0
    BY <1>2, Subsets, FS_EmptySet
<1> QED
    BY <1>1, <1>3, Subsets

LEMMA PowerGrows == \A i, j \in Nat : i <= j => 2^i <= 2^j
<1> SUFFICES ASSUME NEW i \in Nat, NEW j \in Nat, i <= j
             PROVE  2^i <= 2^j
    OBVIOUS
<1>1. SUBSET (1 .. i) \in SUBSET (SUBSET (1 .. j))
    OBVIOUS
<1>2. /\ IsFiniteSet(SUBSET (1 .. j)) /\ Cardinality(SUBSET (1 .. j)) = 2^j
      /\ Cardinality(SUBSET (1 .. i)) = 2^i
    BY Subsets
<1>3. Cardinality(SUBSET (1 .. i)) <= Cardinality(SUBSET (1 .. j))
    BY <1>1, <1>2, FS_Subset
<1> QED
    BY <1>2, <1>3

LEMMA PowerDoubles == \A n \in Nat : 2^(n + 1) = 2 * 2^n
<1> SUFFICES ASSUME NEW n \in Nat
             PROVE  2^(n + 1) = 2 * 2^n
    OBVIOUS
<1> DEFINE A == SUBSET (1 .. n)
           B == {T \cup {n + 1} : T \in A}
           f == [T \in A |-> T \cup {n + 1}]
<1>1. IsFiniteSet(A) /\ Cardinality(A) = 2^n /\ Cardinality(SUBSET (1 .. n + 1)) = 2^(n + 1)
    <2>1. n + 1 \in Nat
        OBVIOUS
    <2> QED
        BY <2>1, Subsets
<1>2. \A T \in A : n + 1 \notin T
    OBVIOUS
<1>3. f \in Bijection(A, B)
    <2>1. f \in [A -> B]
        OBVIOUS
    <2>2. \A S, T \in A : f[S] = f[T] => S = T
        <3>1. \A T \in A : (T \cup {n + 1}) \ {n + 1} = T
            BY <1>2
        <3> QED
            BY <3>1
    <2>3. \A U \in B : \E T \in A : f[T] = U
        OBVIOUS
    <2> QED
        BY <2>1, <2>2, <2>3, Fun_IsBij
<1>4. IsFiniteSet(B) /\ Cardinality(B) = Cardinality(A)
    BY <1>1, <1>3, FS_Bijection DEF ExistsBijection
<1>5. SUBSET (1 .. n + 1) = A \cup B
    <2>1. ASSUME NEW U \in SUBSET (1 .. n + 1)
          PROVE  U \in A \cup B
        <3>1. CASE n + 1 \in U
            <4>1. U \ {n + 1} \in A /\ U = (U \ {n + 1}) \cup {n + 1}
                BY <3>1
            <4> QED
                BY <4>1
        <3>2. CASE n + 1 \notin U
            BY <3>2
        <3> QED
            BY <3>1, <3>2
    <2>2. ASSUME NEW U \in A \cup B
          PROVE  U \in SUBSET (1 .. n + 1)
        OBVIOUS
    <2> QED
        BY <2>1, <2>2
<1>6. A \cap B = {}
    BY <1>2
<1>7. Cardinality(A \cap B) = 0
    BY <1>6, FS_EmptySet
<1>8. Cardinality(A \cup B) = Cardinality(A) + Cardinality(B) - Cardinality(A \cap B)
    BY <1>1, <1>4, FS_Union
<1>9. Cardinality(A \cup B) = 2^n + 2^n - 0
    BY <1>1, <1>4, <1>7, <1>8
<1>10. 2^n \in Nat
    BY PowerNat
<1>11. 2^(n + 1) = Cardinality(A \cup B)
    BY <1>1, <1>5
<1>12. 2^(n + 1) = 2^n + 2^n - 0
    BY <1>9, <1>11
<1> HIDE DEF A, B
<1> QED
    BY <1>10, <1>12

(* Capacities: the next power of two.                                      *)
LEMMA Least ==
    ASSUME NEW T \in SUBSET Nat, T # {}
    PROVE  \E x \in T : \A y \in T : x <= y
<1> DEFINE R == {p \in Nat \X Nat : p[1] < p[2]}
<1>1. IsWellFoundedOn(R, Nat)
    BY NatLessThanWellFounded DEF OpToRel
<1>2. PICK x \in T : \A y \in T : ~ (<<y, x>> \in R)
    BY <1>1, WFMin
<1>3. ASSUME NEW y \in T
      PROVE  x <= y
    <2>1. x \in Nat /\ y \in Nat /\ <<y, x>> \in Nat \X Nat
        OBVIOUS
    <2>2. ~ (y < x)
        BY <1>2, <2>1
    <2> QED
        BY <2>1, <2>2
<1> QED
    BY <1>3

Powers == Capacities \cup {1}

LEMMA PowersAre == /\ \A c \in Powers : \E i \in 0 .. MaxLog : c = 2^i
                   /\ \A i \in 0 .. MaxLog : 2^i \in Powers
                   /\ Powers \subseteq Nat \ {0} /\ Capacities = Powers \ {1} /\ 2 \in Capacities
<1>0. MaxLog \in Nat \ {0} /\ 2^0 = 1 /\ 2^1 = 2
    BY ShardAssumption
<1>1. \A c \in Powers : \E i \in 0 .. MaxLog : c = 2^i
    <2>1. 0 \in 0 .. MaxLog /\ \A i \in 1 .. MaxLog : i \in 0 .. MaxLog
        BY <1>0
    <2>2. \A c \in Capacities : \E i \in 1 .. MaxLog : c = 2^i
        BY DEF Capacities
    <2> QED
        BY <1>0, <2>1, <2>2 DEF Powers
<1>2. \A i \in 0 .. MaxLog : 2^i \in Powers
    <2>1. ASSUME NEW i \in 0 .. MaxLog
          PROVE  2^i \in Powers
        <3>1. i = 0 \/ i \in 1 .. MaxLog
            BY <1>0
        <3> QED
            BY <1>0, <3>1 DEF Powers, Capacities
    <2> QED
        BY <2>1
<1>3. Powers \subseteq Nat \ {0}
    BY <1>0, <1>1, PowerNat
<1>4. 1 \notin Capacities
    <2>1. ASSUME NEW i \in 1 .. MaxLog
          PROVE  2^i # 1
        <3>1. 1 \in Nat /\ i \in Nat /\ 1 <= i
            BY <1>0, <2>1
        <3>2. 2^1 <= 2^i
            BY <3>1, PowerGrows
        <3> QED
            BY <1>0, <3>1, <3>2, PowerNat
    <2> QED
        BY <2>1 DEF Capacities
<1>5. 2 \in Capacities
    <2>1. 1 \in 1 .. MaxLog
        BY <1>0
    <2> QED
        BY <1>0, <2>1 DEF Capacities
<1> QED
    BY <1>1, <1>2, <1>3, <1>4, <1>5 DEF Powers

(* Two different ones are a factor of two apart.                           *)
LEMMA PowersApart == \A c, d \in Powers : c < d => 2 * c <= d
<1> SUFFICES ASSUME NEW c \in Powers, NEW d \in Powers, c < d
             PROVE  2 * c <= d
    OBVIOUS
<1>1. PICK i \in 0 .. MaxLog : c = 2^i
    BY PowersAre
<1>2. PICK j \in 0 .. MaxLog : d = 2^j
    BY PowersAre
<1>3. i \in Nat /\ j \in Nat
    BY ShardAssumption
<1>4. ~ (j <= i)
    BY <1>1, <1>2, <1>3, PowerGrows, PowerNat
<1>5. 2^(i + 1) <= 2^j
    BY <1>3, <1>4, PowerGrows
<1> QED
    BY <1>1, <1>2, <1>3, <1>5, PowerDoubles

MaxClasses == 2^MaxLog

LEMMA CapacityIs ==
    ASSUME NEW k \in 1 .. MaxClasses
    PROVE  /\ capacityFor(k) \in Powers /\ k <= capacityFor(k) /\ capacityFor(k) < 2 * k
           /\ capacityFor(k) <= MaxClasses
           /\ k >= 2 => capacityFor(k) \in Capacities
           /\ \A c \in Powers : k <= c /\ c < 2 * k => c = capacityFor(k)
<1>0. MaxLog \in Nat \ {0} /\ MaxClasses \in Nat /\ k \in Nat \ {0} /\ 2^0 = 1
    BY ShardAssumption, PowerNat DEF MaxClasses
<1> DEFINE T == {i \in 0 .. MaxLog : k <= 2^i}
<1>1. T \in SUBSET Nat /\ T # {}
    BY <1>0 DEF MaxClasses
<1>2. PICK i \in T : \A j \in T : i <= j
    BY <1>1, Least
<1>3. 2^i < 2 * k
    <2>1. CASE i = 0
        BY <1>0, <2>1
    <2>2. CASE i # 0
        <3>1. i - 1 \in Nat /\ i - 1 \in 0 .. MaxLog /\ i - 1 \notin T
            BY <1>0, <1>2, <2>2
        <3>2. 2^(i - 1) \in Nat /\ ~ (k <= 2^(i - 1))
            BY <3>1, PowerNat
        <3>3. 2^(i - 1 + 1) = 2 * 2^(i - 1) /\ i - 1 + 1 = i
            BY <1>2, <3>1, PowerDoubles
        <3> QED
            BY <1>0, <3>2, <3>3
    <2> QED
        BY <2>1, <2>2
<1>4. \E c \in Powers : k <= c /\ c < 2 * k
    BY <1>2, <1>3, PowersAre
<1>5. capacityFor(k) \in Powers /\ k <= capacityFor(k) /\ capacityFor(k) < 2 * k
    BY <1>4 DEF capacityFor, Powers
<1>6. \A c \in Powers : k <= c /\ c < 2 * k => c = capacityFor(k)
    <2>1. ASSUME NEW c \in Powers, NEW d \in Powers, k <= c, c < 2 * k, k <= d, d < 2 * k
          PROVE  c = d
        <3>1. c \in Nat /\ d \in Nat
            BY PowersAre
        <3>2. ~ (c < d) /\ ~ (d < c)
            BY <1>0, <2>1, <3>1, PowersApart
        <3> QED
            BY <3>1, <3>2
    <2> QED
        BY <1>5, <2>1
<1>7. k >= 2 => capacityFor(k) \in Capacities
    BY <1>0, <1>5, PowersAre
<1>8. capacityFor(k) <= MaxClasses
    <2>1. PICK j \in 0 .. MaxLog : capacityFor(k) = 2^j
        BY <1>5, PowersAre
    <2> QED
        BY <1>0, <2>1, PowerGrows DEF MaxClasses
<1> QED
    BY <1>5, <1>6, <1>7, <1>8

(* A block is left when it is full, for one at least twice as big.         *)
LEMMA CapacityGrows ==
    ASSUME NEW k \in 1 .. MaxClasses, k + 1 <= MaxClasses
    PROVE  /\ HasReserve(k) => k + 1 <= capacityFor(k)
           /\ ~HasReserve(k) => 2 * capacityFor(k) <= capacityFor(k + 1)
<1>0. MaxClasses \in Nat /\ k \in Nat \ {0} /\ k + 1 \in 1 .. MaxClasses
    BY ShardAssumption, PowerNat DEF MaxClasses
<1>1. /\ capacityFor(k) \in Powers /\ k <= capacityFor(k) /\ capacityFor(k) < 2 * k
      /\ \A c \in Powers : k <= c /\ c < 2 * k => c = capacityFor(k)
    BY CapacityIs
<1>2. /\ capacityFor(k + 1) \in Powers /\ k + 1 <= capacityFor(k + 1)
    BY <1>0, CapacityIs
<1>3. capacityFor(k) \in Nat /\ capacityFor(k + 1) \in Nat
    BY <1>1, <1>2, PowersAre
<1>4. capacityFor(k) # capacityFor(k + 1) => capacityFor(k) < capacityFor(k + 1)
    <2>1. SUFFICES ASSUME capacityFor(k + 1) < capacityFor(k)
                   PROVE  FALSE
        BY <1>3
    <2>2. capacityFor(k + 1) = capacityFor(k)
        BY <1>0, <1>1, <1>2, <1>3, <2>1
    <2> QED
        BY <1>3, <2>1, <2>2
<1> QED
    BY <1>1, <1>2, <1>3, <1>4, PowersApart DEF HasReserve
-----------------------------------------------------------------------------
(* The word format: a packed pair stays below the tag and both kinds of    *)
(* word give back their fields.                                            *)
Pairs == {pack(rep, w) : rep \in Rep, w \in 1 .. MaxWeight}

LEMMA PairWord ==
    ASSUME NEW rep \in Rep, NEW w \in 1 .. MaxWeight
    PROVE  /\ pack(rep, w) \in 1 .. (Tag - 1) /\ ~IsRef(pack(rep, w))
           /\ unpack(pack(rep, w)) = [rep |-> rep, w |-> w]
<1>0. /\ WBase \in Nat \ {0} /\ RepLimit \in Nat \ {0} /\ rep \in 0 .. (RepLimit - 1)
      /\ w \in Nat \ {0} /\ w <= WBase - 1
    BY ShardAssumption
<1>1. rep * WBase \in Nat /\ (rep + 1) * WBase = rep * WBase + WBase
    BY <1>0
<1>2. (rep + 1) * WBase <= RepLimit * WBase
    BY <1>0
<1>3. Tag \in Nat /\ pack(rep, w) \in 1 .. (Tag - 1)
    BY <1>0, <1>1, <1>2 DEF Tag, pack
<1>4. pack(rep, w) \div WBase = rep /\ pack(rep, w) % WBase = w
    BY <1>0 DEF pack
<1> QED
    BY <1>3, <1>4 DEF IsRef, unpack

LEMMA PairIs ==
    ASSUME NEW p \in Pairs
    PROVE  /\ p \in 1 .. (Tag - 1) /\ ~IsRef(p)
           /\ unpack(p).rep \in Rep /\ unpack(p).w \in 1 .. MaxWeight
           /\ unpack(p) = [rep |-> unpack(p).rep, w |-> unpack(p).w]
           /\ p = pack(unpack(p).rep, unpack(p).w)
<1>1. PICK rep \in Rep, w \in 1 .. MaxWeight : p = pack(rep, w)
    BY DEF Pairs
<1>2. p \in 1 .. (Tag - 1) /\ ~IsRef(p) /\ unpack(p) = [rep |-> rep, w |-> w]
    BY <1>1, PairWord
<1> QED
    BY <1>1, <1>2

LEMMA RefWord ==
    ASSUME NEW k \in Nat, NEW idx \in 0 .. (WBase - 1)
    PROVE  /\ makeRef(k, idx) \in Nat \ {0} /\ IsRef(makeRef(k, idx))
           /\ RefCount(makeRef(k, idx)) = k /\ RefStart(makeRef(k, idx)) = idx
<1>0. WBase \in Nat \ {0} /\ RepLimit \in Nat \ {0} /\ idx \in Nat
    BY ShardAssumption
<1>1. Tag \in Nat \ {0} /\ k * WBase \in Nat
    BY <1>0 DEF Tag
<1>2. makeRef(k, idx) - Tag = k * WBase + idx
    BY <1>0, <1>1 DEF makeRef
<1>3. (k * WBase + idx) \div WBase = k /\ (k * WBase + idx) % WBase = idx
    BY <1>0
<1> QED
    BY <1>0, <1>1, <1>2, <1>3 DEF RefCount, RefStart, IsRef, makeRef

LEMMA MaxClassesBounds == /\ MaxClasses \in Nat /\ MaxClasses >= 2
                          /\ IsFiniteSet(Rep) /\ Cardinality(Rep) \in Nat /\ Cardinality(Rep) <= MaxClasses
<1>1. MaxLog \in Nat \ {0} /\ 1 \in Nat /\ 1 <= MaxLog /\ 2^1 = 2
    BY ShardAssumption
<1>2. MaxClasses \in Nat /\ MaxClasses >= 2
    BY <1>1, PowerGrows, PowerNat DEF MaxClasses
<1>3. IsFiniteSet(0 .. (RepLimit - 1))
    <2>1. 0 \in Int /\ RepLimit - 1 \in Int
        BY ShardAssumption
    <2> QED
        BY <2>1, FS_Interval
<1>4. IsFiniteSet(Rep)
    BY <1>3, ShardAssumption, FS_Subset
<1>5. Cardinality(Rep) \in Nat
    BY <1>4, FS_CardinalityType
<1> QED
    BY <1>2, <1>4, <1>5, ShardAssumption DEF MaxClasses
-----------------------------------------------------------------------------
(* The inductive invariant.                                                *)
Start(K) == RefStart(data[K])
Count(K) == RefCount(data[K])
Cap(K) == capacityFor(Count(K))

(* A stored word is a pair or a reference to two classes or more.          *)
Words == \A K \in DOMAIN data :
            \/ data[K] \in Pairs
            \/ \E k \in 2 .. MaxClasses, idx \in 0 .. (WBase - 1) : data[K] = makeRef(k, idx)

(* The live slots of a block hold pairs of different classes.              *)
Distinct == \A K \in Refs :
                /\ Start(K) + Cap(K) <= Len(slab)
                /\ \A i \in 1 .. Count(K) : slab[Start(K) + i] \in Pairs
                /\ \A i, j \in 1 .. Count(K) :
                      unpack(slab[Start(K) + i]).rep = unpack(slab[Start(K) + j]).rep => i = j

(* FreeOwners on any baskets.                                              *)
OwnersIn(baskets, p) ==
    {b \in UNION {{c} \X DOMAIN baskets[c] : c \in Capacities} : p \in Block(baskets[b[1]][b[2]], b[1])}

OneOwner(live, idle) ==
    \/ \E K : live = {K} /\ idle = {}
    \/ \E b : live = {} /\ idle = {b}

Tiled == \A p \in 0 .. (Len(slab) - 1) : OneOwner(LiveOwners(p), OwnersIn(free, p))

(* A mask extends the slab at most once per capacity, and capacities only  *)
(* grow, so the slab fits into the addresses a reference has: position i   *)
(* of the block of capacity c that K had made is h's <<K, c - 1 + i>>.     *)
Places == 2^(MaxLog + 1) - 2
Addressed ==
    \E h \in Injection(0 .. (Len(slab) - 1), Mask \X (1 .. Places)) :
        \A p \in 0 .. (Len(slab) - 1) :
            h[p][1] \in Refs /\ h[p][2] <= 2 * Cap(h[p][1]) - 2

IInv == TypeOK /\ Words /\ Distinct /\ Tiled /\ Addressed

(* What a reference leads to.                                              *)
RefFacts == \A K \in Refs : /\ K \in Mask /\ data[K] = makeRef(Count(K), Start(K))
                            /\ Count(K) \in 2 .. MaxClasses /\ Start(K) \in 0 .. (WBase - 1)
                            /\ Cap(K) \in Capacities /\ Cap(K) \in Nat /\ Count(K) <= Cap(K)
                            /\ Start(K) + Cap(K) <= Len(slab)

LEMMA References == IInv => RefFacts
<1> SUFFICES ASSUME IInv, NEW K \in Refs
             PROVE  /\ K \in Mask /\ data[K] = makeRef(Count(K), Start(K))
                    /\ Count(K) \in 2 .. MaxClasses /\ Start(K) \in 0 .. (WBase - 1)
                    /\ Cap(K) \in Capacities /\ Cap(K) \in Nat /\ Count(K) <= Cap(K)
                    /\ Start(K) + Cap(K) <= Len(slab)
    BY DEF RefFacts
<1>1. K \in DOMAIN data /\ K \in Mask /\ IsRef(data[K])
    BY DEF Refs, IInv, TypeOK
<1>2. data[K] \notin Pairs
    BY <1>1, PairIs
<1>3. PICK k \in 2 .. MaxClasses, idx \in 0 .. (WBase - 1) : data[K] = makeRef(k, idx)
    BY <1>1, <1>2 DEF IInv, Words
<1>4. k \in Nat /\ k \in 1 .. MaxClasses /\ k >= 2
    BY MaxClassesBounds
<1>5. Count(K) = k /\ Start(K) = idx
    BY <1>3, <1>4, RefWord DEF Count, Start
<1>6. Cap(K) \in Capacities /\ k <= Cap(K)
    BY <1>4, <1>5, CapacityIs DEF Cap
<1>7. Cap(K) \in Nat
    BY <1>6, PowersAre
<1> QED
    BY <1>1, <1>3, <1>5, <1>6, <1>7 DEF IInv, Distinct
-----------------------------------------------------------------------------
(* What the readers make of a record.                                      *)
RecordFacts ==
    \A K \in DOMAIN data :
        /\ Word(K) = data[K] /\ data[K] \in Nat \ {0}
        /\ K \in Refs =>
              /\ Slots(slab, Start(K), Count(K)) = [i \in 1 .. Count(K) |-> slab[Start(K) + i]]
              /\ yieldRecord(K) = [i \in 1 .. Count(K) |-> unpack(slab[Start(K) + i])]
        /\ K \notin Refs =>
              /\ ~IsRef(data[K]) /\ data[K] \in Pairs
              /\ yieldRecord(K) = << unpack(data[K]) >>

LEMMA Records == IInv => RecordFacts
<1> SUFFICES ASSUME IInv, NEW K \in DOMAIN data
             PROVE  /\ Word(K) = data[K] /\ data[K] \in Nat \ {0}
                    /\ K \in Refs =>
                          /\ Slots(slab, Start(K), Count(K)) = [i \in 1 .. Count(K) |-> slab[Start(K) + i]]
                          /\ yieldRecord(K) = [i \in 1 .. Count(K) |-> unpack(slab[Start(K) + i])]
                    /\ K \notin Refs =>
                          /\ ~IsRef(data[K]) /\ data[K] \in Pairs
                          /\ yieldRecord(K) = << unpack(data[K]) >>
    BY DEF RecordFacts
<1>1. Word(K) = data[K] /\ data[K] \in Nat \ {0}
    BY DEF Word, IInv, TypeOK
<1>2. ASSUME K \in Refs
      PROVE  /\ Slots(slab, Start(K), Count(K)) = [i \in 1 .. Count(K) |-> slab[Start(K) + i]]
             /\ yieldRecord(K) = [i \in 1 .. Count(K) |-> unpack(slab[Start(K) + i])]
    <2> DEFINE n == Count(K)
               a == Start(K)
               live == Slots(slab, a, n)
    <2>1. n \in Nat /\ a \in Nat /\ n >= 2 /\ a + n <= Len(slab) /\ IsRef(data[K])
        <3>1. /\ Count(K) \in 2 .. MaxClasses /\ Start(K) \in 0 .. (WBase - 1)
              /\ Cap(K) \in Nat /\ Count(K) <= Cap(K) /\ Start(K) + Cap(K) <= Len(slab)
            BY <1>2, References DEF RefFacts
        <3>2. Len(slab) \in Nat /\ WBase \in Nat /\ MaxClasses \in Nat
            BY ShardAssumption, MaxClassesBounds DEF IInv, TypeOK
        <3> QED
            BY <1>2, <3>1, <3>2 DEF Refs
    <2>2. slab \in Seq(0 .. (Tag - 1))
        BY DEF IInv, TypeOK
    <2> HIDE DEF n, a
    <2>3. live = [i \in 1 .. n |-> slab[a + i]]
        BY <2>1, <2>2 DEF Slots
    <2>4. yieldRecord(K) = [i \in DOMAIN live |-> unpack(live[i])]
        BY <1>1, <2>1 DEF yieldRecord, n, a, Start, Count
    <2>5. DOMAIN live = 1 .. n /\ \A i \in 1 .. n : live[i] = slab[a + i]
        BY <2>3
    <2>6. yieldRecord(K) = [i \in 1 .. n |-> unpack(slab[a + i])]
        BY <2>4, <2>5
    <2> QED
        BY <2>3, <2>6 DEF n, a
<1>3. ASSUME K \notin Refs
      PROVE  /\ ~IsRef(data[K]) /\ data[K] \in Pairs
             /\ yieldRecord(K) = << unpack(data[K]) >>
    <2>1. ~IsRef(data[K])
        BY <1>3 DEF Refs
    <2>2. ASSUME NEW k \in 2 .. MaxClasses, NEW idx \in 0 .. (WBase - 1), data[K] = makeRef(k, idx)
          PROVE  FALSE
        BY <2>1, <2>2, MaxClassesBounds, RefWord
    <2>3. data[K] \in Pairs
        BY <2>2 DEF IInv, Words
    <2> QED
        BY <1>1, <2>1, <2>3 DEF yieldRecord
<1> QED
    BY <1>1, <1>2, <1>3

(* The blocks of different masks are apart, and apart from the free ones.  *)
LEMMA LiveBlock ==
    ASSUME IInv, NEW K \in Refs, NEW p \in Block(Start(K), Cap(K))
    PROVE  p \in 0 .. (Len(slab) - 1) /\ LiveOwners(p) = {K} /\ OwnersIn(free, p) = {}
<1>1. /\ Start(K) \in 0 .. (WBase - 1) /\ Cap(K) \in Nat /\ Start(K) + Cap(K) <= Len(slab)
    BY References DEF RefFacts
<1>2. Len(slab) \in Nat /\ WBase \in Nat
    BY ShardAssumption DEF IInv, TypeOK
<1>3. p \in 0 .. (Len(slab) - 1)
    BY <1>1, <1>2 DEF Block
<1>4. K \in LiveOwners(p)
    BY DEF LiveOwners, Start, Cap, Count
<1>5. OneOwner(LiveOwners(p), OwnersIn(free, p))
    BY <1>3 DEF IInv, Tiled
<1> QED
    BY <1>3, <1>4, <1>5 DEF OneOwner

LEMMA SlotsInBlock ==
    ASSUME IInv, NEW K \in Refs, NEW i \in 1 .. Count(K)
    PROVE  /\ Start(K) + i \in 1 .. Len(slab) /\ Start(K) + i - 1 \in Block(Start(K), Cap(K))
           /\ Start(K) \in Nat /\ Count(K) \in Nat
<1>1. /\ Count(K) \in 2 .. MaxClasses /\ Start(K) \in 0 .. (WBase - 1)
      /\ Cap(K) \in Nat /\ Count(K) <= Cap(K) /\ Start(K) + Cap(K) <= Len(slab)
    BY References DEF RefFacts
<1>2. Len(slab) \in Nat /\ WBase \in Nat /\ MaxClasses \in Nat
    BY ShardAssumption, MaxClassesBounds DEF IInv, TypeOK
<1> QED
    BY <1>1, <1>2 DEF Block

(* A class a mask does not have yet leaves room for one more.              *)
LEMMA NewClassFits ==
    ASSUME IInv, NEW K \in Refs, NEW rep \in Rep,
           \A i \in 1 .. Count(K) : unpack(slab[Start(K) + i]).rep # rep
    PROVE  Count(K) + 1 <= MaxClasses
<1> DEFINE n == Count(K)
           g == [i \in 1 .. (n + 1) |-> IF i = n + 1 THEN rep ELSE unpack(slab[Start(K) + i]).rep]
<1>1. n \in Nat
    <2>1. Count(K) \in 2 .. MaxClasses
        BY References DEF RefFacts
    <2> QED
        BY <2>1, MaxClassesBounds
<1>2. \A i \in 1 .. n : unpack(slab[Start(K) + i]).rep \in Rep
    BY PairIs DEF IInv, Distinct
<1>3. \A i, j \in 1 .. n :
        unpack(slab[Start(K) + i]).rep = unpack(slab[Start(K) + j]).rep => i = j
    BY DEF IInv, Distinct
<1> HIDE DEF n
<1>4. g \in [1 .. (n + 1) -> Rep]
    <2>1. \A i \in 1 .. (n + 1) : i = n + 1 \/ i \in 1 .. n
        BY <1>1
    <2> QED
        BY <1>2, <2>1
<1>5. \A i, j \in 1 .. (n + 1) : g[i] = g[j] => i = j
    <2>1. \A i \in 1 .. (n + 1) : i = n + 1 \/ (i \in 1 .. n /\ i # n + 1)
        BY <1>1
    <2>2. \A i \in 1 .. n : unpack(slab[Start(K) + i]).rep # rep
        BY DEF n
    <2>3. ASSUME NEW i \in 1 .. (n + 1), NEW j \in 1 .. (n + 1), g[i] = g[j]
          PROVE  i = j
        <3>1. CASE i = n + 1 /\ j = n + 1
            BY <3>1
        <3>2. CASE i = n + 1 /\ j \in 1 .. n /\ j # n + 1
            BY <2>2, <2>3, <3>2
        <3>3. CASE j = n + 1 /\ i \in 1 .. n /\ i # n + 1
            BY <2>2, <2>3, <3>3
        <3>4. CASE i \in 1 .. n /\ j \in 1 .. n /\ i # n + 1 /\ j # n + 1
            BY <1>3, <2>3, <3>4
        <3> QED
            BY <2>1, <3>1, <3>2, <3>3, <3>4
    <2> QED
        BY <2>3
<1>6. g \in Injection(1 .. (n + 1), Rep)
    BY <1>4, <1>5, Fun_IsInj
<1>7. Cardinality(1 .. (n + 1)) <= Cardinality(Rep)
    BY <1>6, MaxClassesBounds, FS_Injection DEF ExistsInjection
<1>8. Cardinality(1 .. (n + 1)) = n + 1
    <2>1. n + 1 \in Nat
        BY <1>1
    <2> QED
        BY <2>1, Numbers
<1> QED
    BY <1>1, <1>7, <1>8, MaxClassesBounds DEF n
-----------------------------------------------------------------------------
(* Every block starts at an address a reference can hold.                  *)
LEMMA SlabFits == IInv => Len(slab) \in Nat /\ Len(slab) < WBase
<1> SUFFICES ASSUME IInv
             PROVE  Len(slab) \in Nat /\ Len(slab) < WBase
    OBVIOUS
<1>1. Len(slab) \in Nat
    BY DEF IInv, TypeOK
<1>2. Places \in Nat
    <2>1. MaxLog + 1 \in Nat /\ 1 \in Nat /\ 1 <= MaxLog + 1 /\ 2^1 = 2
        BY ShardAssumption
    <2>2. 2^(MaxLog + 1) \in Nat /\ 2 <= 2^(MaxLog + 1)
        BY <2>1, PowerNat, PowerGrows
    <2> QED
        BY <2>2 DEF Places
<1>3. IsFiniteSet(Mask) /\ Cardinality(Mask) \in Nat
    BY ShardAssumption, FS_CardinalityType
<1>4. IsFiniteSet(1 .. Places) /\ Cardinality(1 .. Places) = Places
    BY <1>2, Numbers
<1>5. /\ IsFiniteSet(Mask \X (1 .. Places))
      /\ Cardinality(Mask \X (1 .. Places)) = Cardinality(Mask) * Places
    BY <1>3, <1>4, FS_Product
<1>6. PICK h : h \in Injection(0 .. (Len(slab) - 1), Mask \X (1 .. Places))
    BY DEF IInv, Addressed
<1>7. Cardinality(0 .. (Len(slab) - 1)) <= Cardinality(Mask) * Places
    BY <1>5, <1>6, FS_Injection
<1>8. Cardinality(0 .. (Len(slab) - 1)) = Len(slab)
    BY <1>1, Numbers
<1>9. Cardinality(Mask) * Places < WBase
    BY ShardAssumption DEF Places
<1>10. Cardinality(Mask) * Places \in Nat /\ WBase \in Nat
    BY <1>2, <1>3, ShardAssumption
<1> QED
    BY <1>1, <1>7, <1>8, <1>9, <1>10

LEMMA OwnersAre ==
    ASSUME NEW baskets, NEW p, NEW b
    PROVE  b \in OwnersIn(baskets, p) <=>
              \E c \in Capacities : \E j \in DOMAIN baskets[c] : b = <<c, j>> /\ p \in Block(baskets[c][j], c)
<1>1. b \in UNION {{c} \X DOMAIN baskets[c] : c \in Capacities}
         <=> \E c \in Capacities : \E j \in DOMAIN baskets[c] : b = <<c, j>>
    OBVIOUS
<1> QED
    BY <1>1 DEF OwnersIn

LEMMA CapacityNat == \A c \in Capacities : c \in Nat /\ c >= 2
BY PowersAre

(* Sequences.                                                              *)
LEMMA Items ==
    ASSUME NEW S, NEW s \in Seq(S)
    PROVE  Len(s) \in Nat /\ DOMAIN s = 1 .. Len(s) /\ \A j \in 1 .. Len(s) : s[j] \in S
OBVIOUS

LEMMA ItemsIn ==
    ASSUME NEW S, NEW n \in Nat, NEW s \in [1 .. n -> S]
    PROVE  s \in Seq(S) /\ Len(s) = n
OBVIOUS

LEMMA WiderSeq ==
    ASSUME NEW S, NEW T, S \subseteq T, NEW s \in Seq(S)
    PROVE  s \in Seq(T)
<1>1. Len(s) \in Nat /\ s \in [1 .. Len(s) -> T]
    OBVIOUS
<1> QED
    BY <1>1, ItemsIn

LEMMA LastAndFront ==
    ASSUME NEW S, NEW s \in Seq(S), s # << >>
    PROVE  /\ Len(s) \in Nat /\ Len(s) >= 1 /\ Last(s) = s[Len(s)] /\ Last(s) \in S
           /\ Front(s) \in Seq(S) /\ DOMAIN Front(s) = 1 .. (Len(s) - 1)
           /\ \A j \in 1 .. (Len(s) - 1) : Front(s)[j] = s[j]
<1>1. Len(s) \in Nat /\ Len(s) >= 1 /\ \A j \in 1 .. Len(s) : s[j] \in S
    OBVIOUS
<1>2. Last(s) = s[Len(s)] /\ Last(s) \in S
    BY <1>1 DEF Last
<1>3. Front(s) = SubSeq(s, 1, Len(s) - 1)
    BY DEF Front
<1> DEFINE n == Len(s) - 1
<1>4. n \in Nat /\ \A j \in 1 .. n : s[j] \in S
    BY <1>1
<1>5. SubSeq(s, 1, n) = [j \in 1 .. n |-> s[j]]
    BY <1>1
<1>6. [j \in 1 .. n |-> s[j]] \in [1 .. n -> S]
    BY <1>4
<1> HIDE DEF n
<1>7. Front(s) \in Seq(S) /\ DOMAIN Front(s) = 1 .. n /\ \A j \in 1 .. n : Front(s)[j] = s[j]
    BY <1>3, <1>4, <1>5, <1>6, ItemsIn DEF n
<1> QED
    BY <1>1, <1>2, <1>7 DEF n

(* What allocBlock returns: addressable, inside the slab, owned by nobody. *)
AllocFacts(b, c) ==
    /\ b.idx \in 0 .. Len(slab) /\ b.idx + c <= Len(b.slab)
    /\ b.slab \in Seq(0 .. (Tag - 1)) /\ Len(slab) <= Len(b.slab)
    /\ \A p \in 0 .. (Len(slab) - 1) : b.slab[p + 1] = slab[p + 1]
    /\ \A p \in 0 .. (Len(b.slab) - 1) : p \in 0 .. (Len(slab) - 1) \/ p \in Block(b.idx, c)
    /\ DOMAIN b.free = Capacities
    /\ \A d \in Capacities : b.free[d] \in Seq(0 .. (Len(b.slab) - d))
    /\ \A p \in Block(b.idx, c) : LiveOwners(p) = {} /\ OwnersIn(b.free, p) = {}
    /\ \A p \in 0 .. (Len(b.slab) - 1) : p \notin Block(b.idx, c) => OwnersIn(b.free, p) = OwnersIn(free, p)
    /\ \/ Len(b.slab) = Len(slab)
       \/ b.idx = Len(slab) /\ Len(b.slab) = Len(slab) + c /\ free[c] = << >>

LEMMA Reused ==
    ASSUME IInv, NEW c \in Capacities, free[c] # << >>
    PROVE  AllocFacts([idx |-> Last(free[c]), slab |-> slab, free |-> [free EXCEPT ![c] = Front(@)]], c)
<1> DEFINE n == Len(free[c])
           rest == [free EXCEPT ![c] = Front(@)]
           a == Last(free[c])
<1>0. /\ DOMAIN free = Capacities /\ \A d \in Capacities : free[d] \in Seq(0 .. (Len(slab) - d))
      /\ slab \in Seq(0 .. (Tag - 1)) /\ Len(slab) \in Nat
      /\ c \in Nat /\ c >= 2
    BY CapacityNat DEF IInv, TypeOK
<1>1. free[c] \in Seq(0 .. (Len(slab) - c))
    BY <1>0
<1>2. /\ n \in Nat /\ n >= 1 /\ DOMAIN free[c] = 1 .. n
      /\ a = free[c][n] /\ n \in DOMAIN free[c] /\ a \in 0 .. (Len(slab) - c)
    <2>1. n \in Nat /\ n >= 1 /\ a = free[c][n] /\ a \in 0 .. (Len(slab) - c)
        BY <1>1, LastAndFront
    <2>2. DOMAIN free[c] = 1 .. n
        BY <1>1, Items
    <2> QED
        BY <2>1, <2>2
<1>3. /\ rest[c] \in Seq(0 .. (Len(slab) - c)) /\ DOMAIN rest[c] = 1 .. (n - 1)
      /\ \A j \in 1 .. (n - 1) : rest[c][j] = free[c][j]
    <2>1. rest[c] = Front(free[c])
        BY <1>0
    <2> QED
        BY <1>1, <2>1, LastAndFront
<1>4. DOMAIN rest = Capacities /\ \A d \in Capacities \ {c} : rest[d] = free[d]
    BY <1>0
<1> HIDE DEF rest, n, a
<1>5. ASSUME NEW p
      PROVE  OwnersIn(rest, p) = OwnersIn(free, p) \ {<<c, n>>}
    <2>1. ASSUME NEW b \in OwnersIn(rest, p)
          PROVE  b \in OwnersIn(free, p) /\ b # <<c, n>>
        <3>1. PICK d \in Capacities : \E j \in DOMAIN rest[d] : b = <<d, j>> /\ p \in Block(rest[d][j], d)
            BY <2>1, OwnersAre
        <3>1a. PICK j \in DOMAIN rest[d] : b = <<d, j>> /\ p \in Block(rest[d][j], d)
            BY <3>1
        <3>2. j \in DOMAIN free[d] /\ rest[d][j] = free[d][j] /\ ~ (d = c /\ j = n)
            BY <1>2, <1>3, <1>4, <3>1a
        <3> QED
            BY <3>1a, <3>2, OwnersAre
    <2>2. ASSUME NEW b \in OwnersIn(free, p), b # <<c, n>>
          PROVE  b \in OwnersIn(rest, p)
        <3>1. PICK d \in Capacities : \E j \in DOMAIN free[d] : b = <<d, j>> /\ p \in Block(free[d][j], d)
            BY <2>2, OwnersAre
        <3>1a. PICK j \in DOMAIN free[d] : b = <<d, j>> /\ p \in Block(free[d][j], d)
            BY <3>1
        <3>2. j \in DOMAIN rest[d] /\ rest[d][j] = free[d][j]
            <4>1. CASE d = c
                <5>1. j # n
                    BY <2>2, <3>1a, <4>1
                <5>2. j \in 1 .. (n - 1)
                    BY <1>2, <4>1, <5>1
                <5> QED
                    BY <1>3, <4>1, <5>2
            <4>2. CASE d # c
                BY <1>4, <4>2
            <4> QED
                BY <4>1, <4>2
        <3> QED
            BY <3>1a, <3>2, OwnersAre
    <2> QED
        BY <2>1, <2>2
<1>6. ASSUME NEW p \in 0 .. (Len(slab) - 1)
      PROVE  <<c, n>> \in OwnersIn(free, p) <=> p \in Block(a, c)
    BY <1>2, OwnersAre
<1>7. ASSUME NEW p \in Block(a, c)
      PROVE  LiveOwners(p) = {} /\ OwnersIn(rest, p) = {}
    <2>1. p \in 0 .. (Len(slab) - 1)
        BY <1>0, <1>2 DEF Block
    <2>2. <<c, n>> \in OwnersIn(free, p)
        BY <1>6, <2>1
    <2>3. OneOwner(LiveOwners(p), OwnersIn(free, p))
        BY <2>1 DEF IInv, Tiled
    <2>4. LiveOwners(p) = {} /\ OwnersIn(free, p) = {<<c, n>>}
        BY <2>2, <2>3 DEF OneOwner
    <2> QED
        BY <1>5, <2>4
<1>8. ASSUME NEW p \in 0 .. (Len(slab) - 1), p \notin Block(a, c)
      PROVE  OwnersIn(rest, p) = OwnersIn(free, p)
    BY <1>5, <1>6, <1>8
<1>9. \A d \in Capacities : rest[d] \in Seq(0 .. (Len(slab) - d))
    BY <1>0, <1>3, <1>4
<1>10. a \in 0 .. Len(slab) /\ a + c <= Len(slab)
    BY <1>0, <1>2
<1> DEFINE b == [idx |-> a, slab |-> slab, free |-> rest]
<1>11. b.idx = a /\ b.slab = slab /\ b.free = rest
    OBVIOUS
<1> HIDE DEF b
<1>12. AllocFacts(b, c)
    BY <1>0, <1>4, <1>7, <1>8, <1>9, <1>10, <1>11 DEF AllocFacts
<1> QED
    BY <1>12 DEF b, rest, a

LEMMA Fresh ==
    ASSUME IInv, NEW c \in Capacities, free[c] = << >>
    PROVE  AllocFacts(FreshBlock(c), c)
<1> DEFINE n == Len(slab)
           s == slab \o [i \in 1 .. c |-> 0]
<1>0. /\ DOMAIN free = Capacities /\ \A d \in Capacities : free[d] \in Seq(0 .. (n - d))
      /\ slab \in Seq(0 .. (Tag - 1)) /\ n \in Nat
      /\ c \in Nat /\ c >= 2 /\ Tag \in Nat \ {0}
    BY CapacityNat, ShardAssumption DEF IInv, TypeOK, Tag
<1>1. s \in Seq(0 .. (Tag - 1)) /\ Len(s) = n + c /\ \A i \in 1 .. n : s[i] = slab[i]
    <2>1. [i \in 1 .. c |-> 0] \in Seq(0 .. (Tag - 1)) /\ Len([i \in 1 .. c |-> 0]) = c
        BY <1>0
    <2> QED
        BY <1>0, <2>1
<1> HIDE DEF n, s
<1>2. ASSUME NEW p \in Block(n, c)
      PROVE  LiveOwners(p) = {} /\ OwnersIn(free, p) = {}
    <2>1. p \in Nat /\ p >= n
        BY <1>0 DEF Block
    <2>2. ASSUME NEW K \in LiveOwners(p)
          PROVE  FALSE
        <3>1. K \in Refs /\ p \in Block(Start(K), Cap(K))
            BY <2>2 DEF LiveOwners, Start, Cap, Count
        <3>2. p \in 0 .. (n - 1)
            BY <3>1, LiveBlock DEF n
        <3> QED
            BY <1>0, <2>1, <3>2
    <2>3. ASSUME NEW b \in OwnersIn(free, p)
          PROVE  FALSE
        <3>1. PICK d \in Capacities : \E j \in DOMAIN free[d] : p \in Block(free[d][j], d)
            BY <2>3, OwnersAre
        <3>1a. PICK j \in DOMAIN free[d] : p \in Block(free[d][j], d)
            BY <3>1
        <3>2. free[d] \in Seq(0 .. (n - d))
            BY <1>0
        <3>3. free[d][j] \in 0 .. (n - d) /\ d \in Nat
            BY <3>2, <3>1a, Items, CapacityNat
        <3> QED
            BY <1>0, <2>1, <3>1a, <3>3 DEF Block
    <2> QED
        BY <2>2, <2>3
<1>3. ASSUME NEW d \in Capacities
      PROVE  free[d] \in Seq(0 .. (Len(s) - d))
    <2>1. 0 .. (n - d) \subseteq 0 .. (Len(s) - d)
        BY <1>0, <1>1, CapacityNat
    <2>2. free[d] \in Seq(0 .. (n - d))
        BY <1>0
    <2> QED
        BY <2>1, <2>2, WiderSeq
<1>4. \A p \in 0 .. (Len(s) - 1) : p \in 0 .. (n - 1) \/ p \in Block(n, c)
    BY <1>0, <1>1 DEF Block
<1>5. \A p \in 0 .. (n - 1) : p + 1 \in 1 .. n
    BY <1>0
<1>6. n \in 0 .. n /\ n + c <= Len(s) /\ n <= Len(s)
    BY <1>0, <1>1
<1>7. FreshBlock(c) = [idx |-> n, slab |-> s, free |-> free]
    BY DEF FreshBlock, n, s
<1>8. AllocFacts([idx |-> n, slab |-> s, free |-> free], c)
    BY <1>0, <1>1, <1>2, <1>3, <1>4, <1>5, <1>6 DEF AllocFacts, n
<1> QED
    BY <1>7, <1>8

LEMMA Alloc == IInv => \A c \in Capacities : AllocFacts(allocBlock(c), c)
BY Reused, Fresh DEF allocBlock
-----------------------------------------------------------------------------
(* A mask moves into an allocated block, leaving the old one behind.       *)
AppendTo(baskets, c, x) == [baskets EXCEPT ![c] = Append(@, x)]

LEMMA OwnersAppended ==
    ASSUME NEW baskets, DOMAIN baskets = Capacities, NEW c \in Capacities,
           NEW S, baskets[c] \in Seq(S), NEW x, NEW p
    PROVE  OwnersIn(AppendTo(baskets, c, x), p)
              = OwnersIn(baskets, p) \cup (IF p \in Block(x, c) THEN {<<c, Len(baskets[c]) + 1>>} ELSE {})
<1> DEFINE more == AppendTo(baskets, c, x)
           n == Len(baskets[c])
<1>1. DOMAIN more = Capacities /\ \A d \in Capacities \ {c} : more[d] = baskets[d]
    BY DEF AppendTo
<1>2. n \in Nat /\ DOMAIN baskets[c] = 1 .. n
    BY Items
<1>3. /\ DOMAIN more[c] = 1 .. (n + 1) /\ more[c][n + 1] = x
      /\ \A j \in 1 .. n : more[c][j] = baskets[c][j]
    <2>1. more[c] = Append(baskets[c], x)
        BY DEF AppendTo
    <2>2. baskets[c] \in Seq(S \cup {x})
        BY WiderSeq
    <2>3. /\ more[c] \in Seq(S \cup {x}) /\ Len(more[c]) = n + 1 /\ more[c][n + 1] = x
          /\ \A j \in 1 .. n : more[c][j] = baskets[c][j]
        BY <2>1, <2>2, AppendProperties
    <2>4. DOMAIN more[c] = 1 .. (n + 1)
        BY <2>3, Items
    <2> QED
        BY <2>3, <2>4
<1> HIDE DEF more, n
<1>4. ASSUME NEW b \in OwnersIn(more, p)
      PROVE  b \in OwnersIn(baskets, p) \/ (b = <<c, n + 1>> /\ p \in Block(x, c))
    <2>1. PICK d \in Capacities : \E j \in DOMAIN more[d] : b = <<d, j>> /\ p \in Block(more[d][j], d)
        BY <1>4, OwnersAre
    <2>2. PICK j \in DOMAIN more[d] : b = <<d, j>> /\ p \in Block(more[d][j], d)
        BY <2>1
    <2>3. CASE d = c /\ j = n + 1
        BY <1>3, <2>2, <2>3
    <2>4. CASE ~ (d = c /\ j = n + 1)
        <3>1. j \in DOMAIN baskets[d] /\ more[d][j] = baskets[d][j]
            BY <1>1, <1>2, <1>3, <2>2, <2>4
        <3> QED
            BY <2>2, <3>1, OwnersAre
    <2> QED
        BY <2>3, <2>4
<1>5. ASSUME NEW b \in OwnersIn(baskets, p)
      PROVE  b \in OwnersIn(more, p)
    <2>1. PICK d \in Capacities : \E j \in DOMAIN baskets[d] : b = <<d, j>> /\ p \in Block(baskets[d][j], d)
        BY <1>5, OwnersAre
    <2>2. PICK j \in DOMAIN baskets[d] : b = <<d, j>> /\ p \in Block(baskets[d][j], d)
        BY <2>1
    <2>3. j \in DOMAIN more[d] /\ more[d][j] = baskets[d][j]
        BY <1>1, <1>2, <1>3, <2>2
    <2> QED
        BY <2>2, <2>3, OwnersAre
<1>6. p \in Block(x, c) => <<c, n + 1>> \in OwnersIn(more, p)
    <2>1. n + 1 \in DOMAIN more[c]
        BY <1>2, <1>3
    <2> QED
        BY <1>3, <2>1, OwnersAre
<1> QED
    BY <1>4, <1>5, <1>6 DEF more, n

(* The step, with the words left open: b is what allocBlock returned.      *)
MovesTo(K, k, b) ==
    /\ Store(K, makeRef(k, b.idx))
    /\ slab' \in Seq(0 .. (Tag - 1)) /\ Len(slab') = Len(b.slab)
    /\ \A p \in 0 .. (Len(slab) - 1) : p \notin Block(b.idx, capacityFor(k)) => slab'[p + 1] = slab[p + 1]
    /\ \A i \in 1 .. k : slab'[b.idx + i] \in Pairs
    /\ \A i, j \in 1 .. k : unpack(slab'[b.idx + i]).rep = unpack(slab'[b.idx + j]).rep => i = j
    /\ \/ K \notin Refs /\ free' = b.free
       \/ K \in Refs /\ 2 * Cap(K) <= capacityFor(k) /\ free' = AppendTo(b.free, Cap(K), Start(K))

LEMMA MovedWords ==
    ASSUME IInv, NEW K \in Mask, NEW k \in 2 .. MaxClasses, NEW b,
           AllocFacts(b, capacityFor(k)), MovesTo(K, k, b)
    PROVE  /\ capacityFor(k) \in Capacities /\ k <= capacityFor(k) /\ k \in Nat /\ b.idx \in 0 .. (WBase - 1)
           /\ Start(K)' = b.idx /\ Count(K)' = k /\ Cap(K)' = capacityFor(k)
           /\ DOMAIN data' = DOMAIN data \cup {K} /\ Refs' = Refs \cup {K}
           /\ data'[K] = makeRef(k, b.idx)
           /\ \A L \in DOMAIN data \ {K} : data'[L] = data[L]
           /\ \A L \in Refs \ {K} : /\ Start(L)' = Start(L) /\ Count(L)' = Count(L) /\ Cap(L)' = Cap(L)
                                    /\ \A i \in 1 .. Count(L) : slab'[Start(L) + i] = slab[Start(L) + i]
<1>1. k \in Nat /\ k \in 1 .. MaxClasses /\ k >= 2
    BY MaxClassesBounds
<1>2. capacityFor(k) \in Capacities /\ k <= capacityFor(k)
    BY <1>1, CapacityIs
<1>3. b.idx \in 0 .. (WBase - 1)
    <2>1. b.idx \in 0 .. Len(slab) /\ WBase \in Nat
        BY ShardAssumption DEF AllocFacts
    <2> QED
        BY <2>1, SlabFits
<1>4. data' = [L \in DOMAIN data \cup {K} |-> IF L = K THEN makeRef(k, b.idx) ELSE data[L]]
    BY DEF MovesTo, Store
<1>5. DOMAIN data' = DOMAIN data \cup {K} /\ data'[K] = makeRef(k, b.idx)
    BY <1>4
<1>6. \A L \in DOMAIN data \ {K} : data'[L] = data[L]
    BY <1>4
<1>7. IsRef(data'[K]) /\ Start(K)' = b.idx /\ Count(K)' = k
    BY <1>1, <1>3, <1>5, RefWord DEF Start, Count
<1>8. Cap(K)' = capacityFor(k)
    BY <1>7 DEF Cap
<1>9. Refs' = Refs \cup {K}
    BY <1>5, <1>6, <1>7 DEF Refs
<1>10. ASSUME NEW L \in Refs \ {K}
       PROVE  /\ Start(L)' = Start(L) /\ Count(L)' = Count(L) /\ Cap(L)' = Cap(L)
              /\ \A i \in 1 .. Count(L) : slab'[Start(L) + i] = slab[Start(L) + i]
    <2>1. data'[L] = data[L]
        BY <1>6 DEF Refs
    <2>2. Start(L)' = Start(L) /\ Count(L)' = Count(L) /\ Cap(L)' = Cap(L)
        BY <2>1 DEF Start, Count, Cap
    <2>3. ASSUME NEW i \in 1 .. Count(L)
          PROVE  slab'[Start(L) + i] = slab[Start(L) + i]
        <3> DEFINE p == Start(L) + i - 1
        <3>1. p \in Block(Start(L), Cap(L)) /\ Start(L) \in Nat /\ Count(L) \in Nat
            BY SlotsInBlock
        <3>2. p \in 0 .. (Len(slab) - 1) /\ LiveOwners(p) = {L}
            BY <3>1, LiveBlock
        <3>3. p \notin Block(b.idx, capacityFor(k))
            BY <3>2 DEF AllocFacts
        <3>4. slab'[p + 1] = slab[p + 1]
            BY <3>2, <3>3 DEF MovesTo
        <3>5. p + 1 = Start(L) + i
            BY <3>1
        <3> QED
            BY <3>4, <3>5
    <2> QED
        BY <2>2, <2>3
<1> QED
    BY <1>1, <1>2, <1>3, <1>5, <1>6, <1>7, <1>8, <1>9, <1>10

LEMMA MovedTiled ==
    ASSUME IInv, NEW K \in Mask, NEW k \in 2 .. MaxClasses, NEW b,
           AllocFacts(b, capacityFor(k)), MovesTo(K, k, b)
    PROVE  Tiled'
<1> DEFINE c == capacityFor(k)
<1>1. /\ Start(K)' = b.idx /\ Cap(K)' = c /\ Refs' = Refs \cup {K}
      /\ \A L \in Refs \ {K} : Start(L)' = Start(L) /\ Cap(L)' = Cap(L)
    BY MovedWords
<1>2. ASSUME NEW p
      PROVE  LiveOwners(p)' = (LiveOwners(p) \ {K}) \cup (IF p \in Block(b.idx, c) THEN {K} ELSE {})
    <2>1. LiveOwners(p) = {L \in Refs : p \in Block(Start(L), Cap(L))}
        BY DEF LiveOwners, Start, Cap, Count
    <2>2. LiveOwners(p)' = {L \in Refs' : p \in Block(Start(L)', Cap(L)')}
        BY DEF LiveOwners, Start, Cap, Count
    <2>3. \A L \in Refs' : \/ L = K /\ Start(L)' = b.idx /\ Cap(L)' = c
                           \/ L \in Refs \ {K} /\ Start(L)' = Start(L) /\ Cap(L)' = Cap(L)
        BY <1>1
    <2> QED
        BY <1>1, <2>1, <2>2, <2>3
<1>3. ASSUME NEW p
      PROVE  \/ K \notin LiveOwners(p) /\ OwnersIn(free', p) = OwnersIn(b.free, p)
             \/ K \in LiveOwners(p) /\ \E x : OwnersIn(free', p) = OwnersIn(b.free, p) \cup {x}
    <2>1. CASE K \notin Refs /\ free' = b.free
        BY <2>1 DEF LiveOwners
    <2>2. CASE K \in Refs /\ free' = AppendTo(b.free, Cap(K), Start(K))
        <3>1. Cap(K) \in Capacities
            BY <2>2, References DEF RefFacts
        <3>2. DOMAIN b.free = Capacities /\ b.free[Cap(K)] \in Seq(0 .. (Len(b.slab) - Cap(K)))
            BY <3>1 DEF AllocFacts
        <3>3. OwnersIn(free', p)
                 = OwnersIn(b.free, p)
                     \cup (IF p \in Block(Start(K), Cap(K)) THEN {<<Cap(K), Len(b.free[Cap(K)]) + 1>>} ELSE {})
            BY <2>2, <3>1, <3>2, OwnersAppended
        <3>4. p \in Block(Start(K), Cap(K)) <=> K \in LiveOwners(p)
            BY <2>2 DEF LiveOwners, Start, Cap, Count
        <3> QED
            BY <3>3, <3>4
    <2> QED
        BY <2>1, <2>2 DEF MovesTo
<1>4. ASSUME NEW p \in 0 .. (Len(b.slab) - 1)
      PROVE  OneOwner(LiveOwners(p)', OwnersIn(free', p))
    <2>1. CASE p \in Block(b.idx, c)
        <3>1. LiveOwners(p) = {} /\ OwnersIn(b.free, p) = {}
            BY <2>1 DEF AllocFacts
        <3>2. LiveOwners(p)' = {K} /\ OwnersIn(free', p) = {}
            BY <1>2, <1>3, <2>1, <3>1
        <3> QED
            BY <3>2 DEF OneOwner
    <2>2. CASE p \notin Block(b.idx, c)
        <3>1. p \in 0 .. (Len(slab) - 1) /\ OwnersIn(b.free, p) = OwnersIn(free, p)
            BY <2>2 DEF AllocFacts
        <3>2. OneOwner(LiveOwners(p), OwnersIn(free, p))
            BY <3>1 DEF IInv, Tiled
        <3>3. LiveOwners(p)' = LiveOwners(p) \ {K}
            BY <1>2, <2>2
        <3>4. CASE K \notin LiveOwners(p)
            <4>1. LiveOwners(p)' = LiveOwners(p) /\ OwnersIn(free', p) = OwnersIn(free, p)
                BY <1>3, <3>1, <3>3, <3>4
            <4> QED
                BY <3>2, <4>1
        <3>5. CASE K \in LiveOwners(p)
            <4>1. LiveOwners(p) = {K} /\ OwnersIn(free, p) = {}
                BY <3>2, <3>5 DEF OneOwner
            <4>2. PICK x : OwnersIn(free', p) = OwnersIn(b.free, p) \cup {x}
                BY <1>3, <3>5
            <4>3. LiveOwners(p)' = {} /\ OwnersIn(free', p) = {x}
                BY <3>1, <3>3, <4>1, <4>2
            <4> QED
                BY <4>3 DEF OneOwner
        <3> QED
            BY <3>4, <3>5
    <2> QED
        BY <2>1, <2>2
<1>5. Len(slab') = Len(b.slab)
    BY DEF MovesTo
<1> QED
    BY <1>4, <1>5 DEF Tiled

LEMMA MovedTyped ==
    ASSUME IInv, NEW K \in Mask, NEW k \in 2 .. MaxClasses, NEW b,
           AllocFacts(b, capacityFor(k)), MovesTo(K, k, b)
    PROVE  TypeOK' /\ Words' /\ Distinct'
<1> DEFINE c == capacityFor(k)
<1>0. /\ c \in Capacities /\ k <= c /\ k \in Nat /\ b.idx \in 0 .. (WBase - 1)
      /\ Start(K)' = b.idx /\ Count(K)' = k /\ Cap(K)' = c
      /\ DOMAIN data' = DOMAIN data \cup {K} /\ Refs' = Refs \cup {K}
      /\ data'[K] = makeRef(k, b.idx)
      /\ \A L \in DOMAIN data \ {K} : data'[L] = data[L]
      /\ \A L \in Refs \ {K} : /\ Start(L)' = Start(L) /\ Count(L)' = Count(L) /\ Cap(L)' = Cap(L)
                               /\ \A i \in 1 .. Count(L) : slab'[Start(L) + i] = slab[Start(L) + i]
    BY MovedWords
<1>1. DOMAIN data' \subseteq Mask /\ \A L \in DOMAIN data' : data'[L] \in Nat \ {0}
    <2>1. data'[K] \in Nat \ {0}
        BY <1>0, RefWord
    <2> QED
        BY <1>0, <2>1 DEF IInv, TypeOK
<1>2. /\ slab' \in Seq(0 .. (Tag - 1)) /\ Len(slab') = Len(b.slab) /\ Len(slab) <= Len(b.slab)
      /\ Len(b.slab) \in Nat /\ Len(slab) \in Nat /\ b.idx + c <= Len(b.slab)
    BY DEF MovesTo, AllocFacts, IInv, TypeOK
<1>3. DOMAIN free' = Capacities /\ \A d \in Capacities : free'[d] \in Seq(0 .. (Len(slab') - d))
    <2>1. DOMAIN b.free = Capacities /\ \A d \in Capacities : b.free[d] \in Seq(0 .. (Len(slab') - d))
        BY <1>2 DEF AllocFacts
    <2>2. CASE free' = b.free
        BY <2>1, <2>2
    <2>3. CASE K \in Refs /\ free' = AppendTo(b.free, Cap(K), Start(K))
        <3>1. /\ Cap(K) \in Capacities /\ Start(K) \in 0 .. (WBase - 1) /\ Cap(K) \in Nat
              /\ Start(K) + Cap(K) <= Len(slab)
            BY <2>3, References DEF RefFacts
        <3>2. Start(K) \in 0 .. (Len(slab') - Cap(K))
            BY <1>2, <3>1, ShardAssumption
        <3>3. free'[Cap(K)] = Append(b.free[Cap(K)], Start(K))
            BY <2>1, <2>3, <3>1 DEF AppendTo
        <3>4. free'[Cap(K)] \in Seq(0 .. (Len(slab') - Cap(K)))
            BY <2>1, <3>1, <3>2, <3>3, AppendProperties
        <3>5. DOMAIN free' = Capacities /\ \A d \in Capacities \ {Cap(K)} : free'[d] = b.free[d]
            BY <2>1, <2>3 DEF AppendTo
        <3> QED
            BY <2>1, <3>4, <3>5
    <2> QED
        BY <2>2, <2>3 DEF MovesTo
<1>4. TypeOK'
    BY <1>1, <1>2, <1>3 DEF TypeOK
<1>5. Words'
    <2>1. ASSUME NEW L \in DOMAIN data'
          PROVE  \/ data'[L] \in Pairs
                 \/ \E n \in 2 .. MaxClasses, idx \in 0 .. (WBase - 1) : data'[L] = makeRef(n, idx)
        BY <1>0 DEF IInv, Words
    <2> QED
        BY <2>1 DEF Words
<1>6. Distinct'
    <2>1. ASSUME NEW L \in Refs'
          PROVE  /\ Start(L)' + Cap(L)' <= Len(slab')
                 /\ \A i \in 1 .. Count(L)' : slab'[Start(L)' + i] \in Pairs
                 /\ \A i, j \in 1 .. Count(L)' :
                       unpack(slab'[Start(L)' + i]).rep = unpack(slab'[Start(L)' + j]).rep => i = j
        <3>1. CASE L = K
            BY <1>0, <1>2, <3>1 DEF MovesTo
        <3>2. CASE L \in Refs \ {K}
            <4>1. /\ Start(L) + Cap(L) <= Len(slab)
                  /\ \A i \in 1 .. Count(L) : slab[Start(L) + i] \in Pairs
                  /\ \A i, j \in 1 .. Count(L) :
                        unpack(slab[Start(L) + i]).rep = unpack(slab[Start(L) + j]).rep => i = j
                BY <3>2 DEF IInv, Distinct
            <4>2. /\ Start(L)' = Start(L) /\ Count(L)' = Count(L) /\ Cap(L)' = Cap(L)
                  /\ \A i \in 1 .. Count(L) : slab'[Start(L) + i] = slab[Start(L) + i]
                BY <1>0, <3>2
            <4>3. Start(L) \in Nat /\ Cap(L) \in Nat
                <5>1. Start(L) \in 0 .. (WBase - 1) /\ Cap(L) \in Nat
                    BY <3>2, References DEF RefFacts
                <5> QED
                    BY <5>1, ShardAssumption
            <4>4. Start(L)' + Cap(L)' <= Len(slab')
                BY <1>2, <4>1, <4>2, <4>3
            <4> QED
                BY <4>1, <4>2, <4>4
        <3> QED
            BY <1>0, <3>1, <3>2
    <2> QED
        BY <2>1 DEF Distinct
<1> QED
    BY <1>4, <1>5, <1>6

LEMMA MovedAddressed ==
    ASSUME IInv, NEW K \in Mask, NEW k \in 2 .. MaxClasses, NEW b,
           AllocFacts(b, capacityFor(k)), MovesTo(K, k, b)
    PROVE  Addressed'
<1> DEFINE c == capacityFor(k)
           n == Len(slab)
<1>0. /\ c \in Capacities /\ Cap(K)' = c /\ Refs' = Refs \cup {K}
      /\ \A L \in Refs \ {K} : Cap(L)' = Cap(L)
    BY MovedWords
<1>1. c \in Nat /\ c >= 2 /\ n \in Nat /\ 2 * c - 2 <= Places /\ Places \in Nat
    <2>1. c \in Nat /\ c >= 2 /\ n \in Nat
        BY <1>0, CapacityNat DEF IInv, TypeOK
    <2>2. c <= MaxClasses /\ MaxClasses \in Nat
        <3>1. k \in 1 .. MaxClasses
            BY MaxClassesBounds
        <3> QED
            BY <3>1, CapacityIs, MaxClassesBounds
    <2>3. 2^(MaxLog + 1) = 2 * MaxClasses
        BY PowerDoubles, ShardAssumption DEF MaxClasses
    <2> QED
        BY <2>1, <2>2, <2>3 DEF Places
<1>2. PICK h \in Injection(0 .. (n - 1), Mask \X (1 .. Places)) :
         \A p \in 0 .. (n - 1) : h[p][1] \in Refs /\ h[p][2] <= 2 * Cap(h[p][1]) - 2
    BY DEF IInv, Addressed
<1>2a. \A p, q \in 0 .. (n - 1) : h[p] = h[q] => p = q
    BY DEF Injection, IsInjective
<1>3. K \in Refs => 2 * Cap(K) <= c /\ Cap(K) \in Nat
    BY References DEF MovesTo, RefFacts
<1>4. ASSUME NEW p \in 0 .. (n - 1)
      PROVE  /\ h[p] \in Mask \X (1 .. Places) /\ h[p] = <<h[p][1], h[p][2]>> /\ h[p][2] \in Nat
             /\ h[p][1] \in Refs' /\ h[p][2] <= 2 * Cap(h[p][1])' - 2
             /\ h[p][1] = K => h[p][2] <= c - 2
    <2>1. /\ h[p] \in Mask \X (1 .. Places)
          /\ h[p][1] \in Refs /\ h[p][2] <= 2 * Cap(h[p][1]) - 2
        BY <1>2 DEF Injection
    <2>2. PICK L \in Mask, m \in 1 .. Places : h[p] = <<L, m>>
        BY <2>1
    <2>3. m \in Nat /\ L \in Refs /\ m <= 2 * Cap(L) - 2
        BY <1>1, <2>1, <2>2
    <2>4. L \in Refs' /\ m <= 2 * Cap(L)' - 2 /\ (L = K => m <= c - 2)
        <3>1. CASE L = K
            BY <1>0, <1>1, <1>3, <2>3, <3>1
        <3>2. CASE L # K
            BY <1>0, <2>3, <3>2
        <3> QED
            BY <3>1, <3>2
    <2> QED
        BY <2>1, <2>2, <2>3, <2>4
<1>5. Len(slab') = Len(b.slab)
    BY DEF MovesTo
<1>6. CASE Len(b.slab) = n
    BY <1>2, <1>4, <1>5, <1>6 DEF Addressed
<1>7. CASE b.idx = n /\ Len(b.slab) = n + c
    <2>0. PICK g : g = [p \in 0 .. (n + c - 1) |-> IF p < n THEN h[p] ELSE <<K, c - 1 + (p - n)>>]
        OBVIOUS
    <2>1. ASSUME NEW p \in 0 .. (n + c - 1), ~ (p < n)
          PROVE  g[p] = <<K, c - 1 + (p - n)>> /\ c - 1 + (p - n) \in 1 .. (2 * c - 2) /\ p \in Nat
        BY <1>1, <2>0, <2>1
    <2>2. ASSUME NEW p \in 0 .. (n + c - 1), p < n
          PROVE  g[p] = h[p] /\ p \in 0 .. (n - 1)
        BY <1>1, <2>0, <2>2
    <2>3. ASSUME NEW p \in 0 .. (n + c - 1)
          PROVE  g[p] \in Mask \X (1 .. Places) /\ g[p][1] \in Refs' /\ g[p][2] <= 2 * Cap(g[p][1])' - 2
        <3>1. CASE p < n
            BY <1>4, <2>2, <3>1
        <3>2. CASE ~ (p < n)
            <4> DEFINE m == c - 1 + (p - n)
            <4>1. g[p] = <<K, m>> /\ m \in 1 .. (2 * c - 2)
                BY <2>1, <3>2
            <4>2. m \in 1 .. Places /\ m <= 2 * c - 2
                BY <1>1, <4>1
            <4> HIDE DEF m
            <4>3. g[p][1] = K /\ g[p][2] = m
                BY <4>1
            <4>4. Cap(g[p][1])' = c
                BY <1>0, <4>3
            <4> QED
                BY <1>0, <4>1, <4>2, <4>3, <4>4
        <3> QED
            BY <3>1, <3>2
    <2>4. ASSUME NEW p \in 0 .. (n + c - 1), NEW q \in 0 .. (n + c - 1), g[p] = g[q]
          PROVE  p = q
        <3>1. CASE p < n /\ q < n
            <4>1. h[p] = h[q] /\ p \in 0 .. (n - 1) /\ q \in 0 .. (n - 1)
                BY <2>2, <2>4, <3>1
            <4> QED
                BY <4>1, <1>2a
        <3>2. CASE p < n /\ ~ (q < n)
            <4>1. h[p] = <<K, c - 1 + (q - n)>> /\ p \in 0 .. (n - 1) /\ q \in Nat
                BY <2>1, <2>2, <2>4, <3>2
            <4>2. h[p][1] = K /\ h[p][2] = c - 1 + (q - n)
                BY <4>1
            <4>3. h[p][2] <= c - 2
                BY <1>4, <4>1, <4>2
            <4> QED
                BY <1>1, <3>2, <4>1, <4>2, <4>3
        <3>3. CASE ~ (p < n) /\ q < n
            <4>1. h[q] = <<K, c - 1 + (p - n)>> /\ q \in 0 .. (n - 1) /\ p \in Nat
                BY <2>1, <2>2, <2>4, <3>3
            <4>2. h[q][1] = K /\ h[q][2] = c - 1 + (p - n)
                BY <4>1
            <4>3. h[q][2] <= c - 2
                BY <1>4, <4>1, <4>2
            <4> QED
                BY <1>1, <3>3, <4>1, <4>2, <4>3
        <3>4. CASE ~ (p < n) /\ ~ (q < n)
            <4>1. <<K, c - 1 + (p - n)>> = <<K, c - 1 + (q - n)>> /\ p \in Nat /\ q \in Nat
                BY <2>1, <2>4, <3>4
            <4>2. c - 1 + (p - n) = c - 1 + (q - n)
                BY <4>1
            <4> QED
                BY <1>1, <4>1, <4>2
        <3> QED
            BY <3>1, <3>2, <3>3, <3>4
    <2>5. g \in [0 .. (n + c - 1) -> Mask \X (1 .. Places)]
        <3>1. DOMAIN g = 0 .. (n + c - 1) /\ g = [p \in 0 .. (n + c - 1) |-> g[p]]
            BY <2>0
        <3> QED
            BY <2>3, <3>1
    <2>6. g \in Injection(0 .. (n + c - 1), Mask \X (1 .. Places))
        BY <2>4, <2>5, Fun_IsInj
    <2>7. Len(slab') = n + c
        BY <1>5, <1>7
    <2>8. \A p \in 0 .. (Len(slab') - 1) : g[p][1] \in Refs' /\ g[p][2] <= 2 * Cap(g[p][1])' - 2
        BY <1>1, <2>3, <2>7
    <2>9. g \in Injection(0 .. (Len(slab') - 1), Mask \X (1 .. Places))
        BY <1>1, <2>6, <2>7
    <2> QED
        BY <2>8, <2>9 DEF Addressed
<1> QED
    BY <1>6, <1>7 DEF AllocFacts

LEMMA Moved ==
    ASSUME IInv, NEW K \in Mask, NEW k \in 2 .. MaxClasses, NEW b,
           AllocFacts(b, capacityFor(k)), MovesTo(K, k, b)
    PROVE  IInv'
BY MovedTyped, MovedTiled, MovedAddressed DEF IInv
-----------------------------------------------------------------------------
(* Steps that leave the blocks where they are.                             *)
LEMMA SameLayout ==
    ASSUME IInv, Refs' = Refs, \A L \in Refs : Start(L)' = Start(L) /\ Cap(L)' = Cap(L),
           Len(slab') = Len(slab), free' = free
    PROVE  Tiled' /\ Addressed'
<1>1. ASSUME NEW p
      PROVE  LiveOwners(p)' = LiveOwners(p)
    <2>1. LiveOwners(p) = {L \in Refs : p \in Block(Start(L), Cap(L))}
        BY DEF LiveOwners, Start, Cap, Count
    <2>2. LiveOwners(p)' = {L \in Refs' : p \in Block(Start(L)', Cap(L)')}
        BY DEF LiveOwners, Start, Cap, Count
    <2> QED
        BY <2>1, <2>2
<1>2. Tiled'
    <2>1. \A p \in 0 .. (Len(slab) - 1) : OneOwner(LiveOwners(p)', OwnersIn(free', p))
        BY <1>1 DEF IInv, Tiled
    <2> QED
        BY <2>1 DEF Tiled
<1>3. PICK h \in Injection(0 .. (Len(slab) - 1), Mask \X (1 .. Places)) :
         \A p \in 0 .. (Len(slab) - 1) : h[p][1] \in Refs /\ h[p][2] <= 2 * Cap(h[p][1]) - 2
    BY DEF IInv, Addressed
<1>4. ASSUME NEW p \in 0 .. (Len(slab) - 1)
      PROVE  h[p][1] \in Refs' /\ h[p][2] <= 2 * Cap(h[p][1])' - 2
    BY <1>3
<1>5. Addressed'
    BY <1>3, <1>4 DEF Addressed
<1> QED
    BY <1>2, <1>5

(* One pair in the word.                                                   *)
LEMMA InWord ==
    ASSUME IInv, NEW K \in Mask, K \notin Refs, NEW word \in Pairs,
           Store(K, word), UNCHANGED <<slab, free>>
    PROVE  /\ IInv' /\ Refs' = Refs /\ data'[K] = word /\ DOMAIN data' = DOMAIN data \cup {K}
           /\ \A L \in DOMAIN data \ {K} : data'[L] = data[L]
<1>1. /\ DOMAIN data' = DOMAIN data \cup {K} /\ data'[K] = word
      /\ \A L \in DOMAIN data \ {K} : data'[L] = data[L]
    BY DEF Store
<1>2. ~IsRef(word) /\ word \in Nat \ {0}
    <2>1. word \in 1 .. (Tag - 1) /\ ~IsRef(word)
        BY PairIs
    <2> QED
        BY <2>1
<1>3. Refs' = Refs
    BY <1>1, <1>2 DEF Refs
<1>4. ASSUME NEW L \in Refs
      PROVE  data'[L] = data[L] /\ Start(L)' = Start(L) /\ Count(L)' = Count(L) /\ Cap(L)' = Cap(L)
    <2>1. data'[L] = data[L]
        BY <1>1 DEF Refs
    <2> QED
        BY <2>1 DEF Start, Count, Cap
<1>5. TypeOK'
    BY <1>1, <1>2 DEF IInv, TypeOK
<1>6. Words'
    BY <1>1 DEF IInv, Words
<1>7. Distinct'
    <2>1. ASSUME NEW L \in Refs'
          PROVE  /\ Start(L)' + Cap(L)' <= Len(slab')
                 /\ \A i \in 1 .. Count(L)' : slab'[Start(L)' + i] \in Pairs
                 /\ \A i, j \in 1 .. Count(L)' :
                       unpack(slab'[Start(L)' + i]).rep = unpack(slab'[Start(L)' + j]).rep => i = j
        BY <1>3, <1>4 DEF IInv, Distinct
    <2> QED
        BY <2>1 DEF Distinct
<1>8. Tiled' /\ Addressed'
    BY <1>3, <1>4, SameLayout
<1> QED
    BY <1>1, <1>3, <1>5, <1>6, <1>7, <1>8 DEF IInv

(* One slot of the mask's block.                                           *)
WritesSlot(K, k, i, word) ==
    /\ k \in 2 .. MaxClasses /\ i \in 1 .. k /\ word \in Pairs
    /\ Count(K) <= k /\ k <= Count(K) + 1 /\ (k = Count(K) + 1 => i = k) /\ capacityFor(k) = Cap(K)
    /\ DOMAIN data' = DOMAIN data /\ data'[K] = makeRef(k, Start(K))
    /\ \A L \in DOMAIN data \ {K} : data'[L] = data[L]
    /\ slab' = [slab EXCEPT ![Start(K) + i] = word] /\ free' = free
    /\ \A j \in (1 .. Count(K)) \ {i} : unpack(slab[Start(K) + j]).rep # unpack(word).rep

LEMMA InBlock ==
    ASSUME IInv, NEW K \in Refs, NEW k, NEW i, NEW word, WritesSlot(K, k, i, word)
    PROVE  /\ IInv' /\ Refs' = Refs /\ Start(K)' = Start(K) /\ Count(K)' = k
           /\ slab'[Start(K) + i] = word
           /\ \A j \in (1 .. k) \ {i} : j \in 1 .. Count(K) /\ slab'[Start(K) + j] = slab[Start(K) + j]
           /\ \A L \in Refs \ {K} :
                 /\ Start(L)' = Start(L) /\ Count(L)' = Count(L)
                 /\ \A j \in 1 .. Count(L) : slab'[Start(L) + j] = slab[Start(L) + j]
<1> USE DEF WritesSlot
<1>0. /\ K \in Mask /\ K \in DOMAIN data /\ Count(K) \in Nat /\ Start(K) \in 0 .. (WBase - 1)
      /\ Start(K) \in Nat /\ Cap(K) \in Nat /\ Start(K) + Cap(K) <= Len(slab)
      /\ k \in Nat /\ k >= 2 /\ i \in Nat /\ i >= 1 /\ i <= k /\ k <= Cap(K)
      /\ slab \in Seq(0 .. (Tag - 1)) /\ Len(slab) \in Nat /\ DOMAIN slab = 1 .. Len(slab)
    <2>1. /\ K \in Mask /\ Count(K) \in 2 .. MaxClasses /\ Start(K) \in 0 .. (WBase - 1)
          /\ Cap(K) \in Nat /\ Start(K) + Cap(K) <= Len(slab)
        BY References DEF RefFacts
    <2>2. MaxClasses \in Nat /\ k \in Nat /\ k \in 1 .. MaxClasses
        BY MaxClassesBounds
    <2>3. k <= Cap(K)
        BY <2>2, CapacityIs
    <2>4. slab \in Seq(0 .. (Tag - 1)) /\ Len(slab) \in Nat /\ DOMAIN slab = 1 .. Len(slab)
        BY DEF IInv, TypeOK
    <2>5. Start(K) \in Nat /\ Count(K) \in Nat
        BY <2>1, <2>2, ShardAssumption
    <2> QED
        BY <2>1, <2>2, <2>3, <2>4, <2>5 DEF Refs
<1>1. IsRef(data'[K]) /\ Start(K)' = Start(K) /\ Count(K)' = k /\ Cap(K)' = Cap(K) /\ data'[K] \in Nat \ {0}
    <2>1. IsRef(data'[K]) /\ RefStart(data'[K]) = Start(K) /\ RefCount(data'[K]) = k /\ data'[K] \in Nat \ {0}
        BY <1>0, RefWord
    <2> QED
        BY <2>1 DEF Start, Count, Cap
<1>2. Refs' = Refs
    BY <1>1 DEF Refs
<1>3. Start(K) + i \in 1 .. Len(slab) /\ Start(K) + i - 1 \in Block(Start(K), Cap(K))
    BY <1>0 DEF Block
<1>4. /\ slab'[Start(K) + i] = word /\ Len(slab') = Len(slab)
      /\ \A q \in 1 .. Len(slab) : q # Start(K) + i => slab'[q] = slab[q]
    BY <1>0, <1>3
<1>5. slab' \in Seq(0 .. (Tag - 1))
    <2>1. word \in 0 .. (Tag - 1)
        <3>1. word \in 1 .. (Tag - 1)
            BY PairIs
        <3> QED
            BY <3>1
    <2> QED
        BY <1>0, <1>3, <2>1
<1>6. ASSUME NEW j \in (1 .. k) \ {i}
      PROVE  j \in 1 .. Count(K) /\ slab'[Start(K) + j] = slab[Start(K) + j]
    <2>1. j \in 1 .. Count(K) /\ Start(K) + j \in 1 .. Len(slab) /\ Start(K) + j # Start(K) + i
        BY <1>0
    <2> QED
        BY <1>4, <2>1
<1>7. ASSUME NEW L \in Refs \ {K}
      PROVE  /\ Start(L)' = Start(L) /\ Count(L)' = Count(L) /\ Cap(L)' = Cap(L)
             /\ \A j \in 1 .. Count(L) : slab'[Start(L) + j] = slab[Start(L) + j]
    <2>1. data'[L] = data[L]
        BY DEF Refs
    <2>2. Start(L)' = Start(L) /\ Count(L)' = Count(L) /\ Cap(L)' = Cap(L)
        BY <2>1 DEF Start, Count, Cap
    <2>3. ASSUME NEW j \in 1 .. Count(L)
          PROVE  slab'[Start(L) + j] = slab[Start(L) + j]
        <3>1. /\ Start(L) + j \in 1 .. Len(slab) /\ Start(L) + j - 1 \in Block(Start(L), Cap(L))
              /\ Start(L) \in Nat /\ Count(L) \in Nat
            BY SlotsInBlock
        <3>2. LiveOwners(Start(L) + j - 1) = {L}
            BY <3>1, LiveBlock
        <3>3. LiveOwners(Start(K) + i - 1) = {K}
            BY <1>3, LiveBlock
        <3>4. ASSUME Start(L) + j = Start(K) + i
              PROVE  FALSE
            <4>0. Start(L) \in Int /\ j \in Int /\ Start(K) \in Int /\ i \in Int
                BY <1>0, <3>1
            <4>1. Start(L) + j - 1 = Start(K) + i - 1
                <5>1. \A x, y, u, v \in Int : x + y = u + v => x + y - 1 = u + v - 1
                    OBVIOUS
                <5> QED
                    BY <3>4, <4>0, <5>1
            <4>2. {L} = {K}
                BY <3>2, <3>3, <4>1
            <4> QED
                BY <4>2
        <3> QED
            BY <1>4, <3>1, <3>4
    <2> QED
        BY <2>2, <2>3
<1>8. TypeOK'
    BY <1>1, <1>4, <1>5 DEF IInv, TypeOK
<1>9. Words'
    <2>1. data'[K] = makeRef(k, Start(K)) /\ Start(K) \in 0 .. (WBase - 1)
        BY <1>0
    <2>2. ASSUME NEW L \in DOMAIN data
          PROVE  \/ data'[L] \in Pairs
                 \/ \E n \in 2 .. MaxClasses, idx \in 0 .. (WBase - 1) : data'[L] = makeRef(n, idx)
        <3>1. CASE L = K
            BY <2>1, <3>1
        <3>2. CASE L # K
            BY <3>2 DEF IInv, Words
        <3> QED
            BY <3>1, <3>2
    <2> QED
        BY <2>2 DEF Words
<1>10. ASSUME NEW L \in Refs
       PROVE  /\ Start(L)' + Cap(L)' <= Len(slab')
              /\ \A j \in 1 .. Count(L)' : slab'[Start(L)' + j] \in Pairs
              /\ \A j, m \in 1 .. Count(L)' :
                    unpack(slab'[Start(L)' + j]).rep = unpack(slab'[Start(L)' + m]).rep => j = m
    <2>0. /\ Start(L) + Cap(L) <= Len(slab)
          /\ \A j \in 1 .. Count(L) : slab[Start(L) + j] \in Pairs
          /\ \A j, m \in 1 .. Count(L) :
                unpack(slab[Start(L) + j]).rep = unpack(slab[Start(L) + m]).rep => j = m
        BY DEF IInv, Distinct
    <2>1. CASE L = K
        <3>1. Start(K)' + Cap(K)' <= Len(slab')
            BY <1>1, <1>4, <2>0, <2>1
        <3>2. \A j \in 1 .. k : slab'[Start(K) + j] \in Pairs
            BY <1>4, <1>6, <2>0, <2>1
        <3>3. ASSUME NEW j \in 1 .. k, NEW m \in 1 .. k,
                     unpack(slab'[Start(K) + j]).rep = unpack(slab'[Start(K) + m]).rep
              PROVE  j = m
            <4>1. CASE j = i /\ m = i
                BY <4>1
            <4>2. CASE j = i /\ m # i
                <5>1. m \in (1 .. Count(K)) \ {i} /\ slab'[Start(K) + m] = slab[Start(K) + m]
                    BY <1>6, <4>2
                <5> QED
                    BY <1>4, <3>3, <4>2, <5>1
            <4>3. CASE j # i /\ m = i
                <5>1. j \in (1 .. Count(K)) \ {i} /\ slab'[Start(K) + j] = slab[Start(K) + j]
                    BY <1>6, <4>3
                <5> QED
                    BY <1>4, <3>3, <4>3, <5>1
            <4>4. CASE j # i /\ m # i
                <5>1. j \in 1 .. Count(K) /\ slab'[Start(K) + j] = slab[Start(K) + j]
                    BY <1>6, <4>4
                <5>2. m \in 1 .. Count(K) /\ slab'[Start(K) + m] = slab[Start(K) + m]
                    BY <1>6, <4>4
                <5> QED
                    BY <2>0, <2>1, <3>3, <5>1, <5>2
            <4> QED
                BY <4>1, <4>2, <4>3, <4>4
        <3> QED
            BY <1>1, <2>1, <3>1, <3>2, <3>3
    <2>2. CASE L # K
        BY <1>4, <1>7, <2>0, <2>2
    <2> QED
        BY <2>1, <2>2
<1>11. Distinct'
    BY <1>2, <1>10 DEF Distinct
<1>12. Tiled' /\ Addressed'
    <2>1. \A L \in Refs : Start(L)' = Start(L) /\ Cap(L)' = Cap(L)
        BY <1>1, <1>7
    <2> QED
        BY <1>2, <1>4, <2>1, SameLayout
<1> QED
    BY <1>1, <1>2, <1>4, <1>6, <1>7, <1>8, <1>9, <1>11, <1>12 DEF IInv
-----------------------------------------------------------------------------
(* The steps, and what each makes of the histogram of its mask.            *)
Histo(K) == IF K \in DOMAIN data THEN yieldRecord(K) ELSE << >>

(* What a step makes of the blocks: they stay, or K takes one of capacity c *)
(* and, when it had one, leaves that to its basket.                        *)
KeepsBlocks == Refs' = Refs /\ free' = free /\ \A L \in Refs : Cap(L)' = Cap(L)

TakesBlock(K, c) ==
    /\ Refs' = Refs \cup {K} /\ Cap(K)' = c /\ \A L \in Refs \ {K} : Cap(L)' = Cap(L)
    /\ \/ K \notin Refs /\ free' = allocBlock(c).free
       \/ K \in Refs /\ Cap(K) # c /\ free' = AppendTo(allocBlock(c).free, Cap(K), Start(K))

Layout(K) == KeepsBlocks \/ \E c \in Capacities : TakesBlock(K, c)

Adds(K, rep, weight) ==
    /\ IInv' /\ K \in DOMAIN data' /\ Layout(K)
    /\ Histo(K)' = H!Added(Histo(K), rep, weight)
    /\ \A L \in Mask \ {K} : Histo(L)' = Histo(L)

Classes == [rep : Rep, w : 1 .. MaxWeight]

LEMMA PairClass == \A p \in Pairs : unpack(p) \in Classes
BY PairIs DEF Classes

LastAdded(n, h, rep, w, g) ==
    /\ n \in Nat /\ h \in [1 .. n -> Classes] /\ g \in [1 .. (n + 1) -> Classes]
    /\ \A i \in 1 .. n : h[i].rep # rep /\ g[i] = h[i]
    /\ g[n + 1] = [rep |-> rep, w |-> w]

LEMMA Appended ==
    ASSUME NEW n, NEW h, NEW rep, NEW w, NEW g, LastAdded(n, h, rep, w, g)
    PROVE  g = H!Added(h, rep, w)
<1>0. /\ n \in Nat /\ h \in [1 .. n -> Classes] /\ g \in [1 .. (n + 1) -> Classes]
      /\ \A i \in 1 .. n : h[i].rep # rep /\ g[i] = h[i]
      /\ g[n + 1] = [rep |-> rep, w |-> w]
    BY DEF LastAdded
<1> DEFINE x == [rep |-> rep, w |-> w]
<1>1. H!Added(h, rep, w) = Append(h, x)
    BY <1>0 DEF H!Added
<1>2. h \in Seq(Classes) /\ Len(h) = n /\ x \in Classes
    <2>1. n + 1 \in 1 .. (n + 1)
        BY <1>0
    <2> QED
        BY <1>0, <2>1, ItemsIn
<1> HIDE DEF x
<1>3. /\ Append(h, x) \in Seq(Classes) /\ Len(Append(h, x)) = n + 1 /\ Append(h, x)[n + 1] = x
      /\ \A i \in 1 .. n : Append(h, x)[i] = h[i]
    BY <1>0, <1>2, AppendProperties
<1>4. Append(h, x) \in [1 .. (n + 1) -> Classes]
    <2>1. ASSUME NEW s \in Seq(Classes)
          PROVE  s \in [1 .. Len(s) -> Classes]
        OBVIOUS
    <2> QED
        BY <1>3, <2>1
<1>5. \A i \in 1 .. (n + 1) : Append(h, x)[i] = g[i]
    <2>1. \A i \in 1 .. (n + 1) : i = n + 1 \/ i \in 1 .. n
        BY <1>0
    <2> QED
        BY <1>0, <1>3, <2>1 DEF x
<1>6. Append(h, x) = g
    BY <1>0, <1>4, <1>5
<1> QED
    BY <1>1, <1>6

OneGrown(n, h, i, rep, w, g) ==
    /\ n \in Nat /\ h \in [1 .. n -> Classes] /\ g \in [1 .. n -> Classes] /\ i \in 1 .. n
    /\ h[i].rep = rep /\ g[i] = [rep |-> rep, w |-> h[i].w + w]
    /\ \A j \in (1 .. n) \ {i} : h[j].rep # rep /\ g[j] = h[j]

LEMMA Summed ==
    ASSUME NEW n, NEW h, NEW i, NEW rep, NEW w, NEW g, OneGrown(n, h, i, rep, w, g)
    PROVE  g = H!Added(h, rep, w)
<1>0. /\ n \in Nat /\ h \in [1 .. n -> Classes] /\ g \in [1 .. n -> Classes] /\ i \in 1 .. n
      /\ h[i].rep = rep /\ g[i] = [rep |-> rep, w |-> h[i].w + w]
      /\ \A j \in (1 .. n) \ {i} : h[j].rep # rep /\ g[j] = h[j]
    BY DEF OneGrown
<1>1. [h[i] EXCEPT !.w = @ + w] = [rep |-> rep, w |-> h[i].w + w]
    BY <1>0 DEF Classes
<1>2. H!Added(h, rep, w)
         = [j \in 1 .. n |-> IF h[j].rep = rep THEN [h[j] EXCEPT !.w = @ + w] ELSE h[j]]
    BY <1>0 DEF H!Added
<1>3. \A j \in 1 .. n : (IF h[j].rep = rep THEN [h[j] EXCEPT !.w = @ + w] ELSE h[j]) = g[j]
    BY <1>0, <1>1
<1> QED
    BY <1>0, <1>2, <1>3

LEMMA SummedFirst ==
    ASSUME NEW x \in Classes, NEW w
    PROVE  << [rep |-> x.rep, w |-> x.w + w] >> = H!Added(<< x >>, x.rep, w)
<1>1. [x EXCEPT !.w = @ + w] = [rep |-> x.rep, w |-> x.w + w]
    BY DEF Classes
<1>2. DOMAIN << x >> = {1} /\ << x >>[1] = x
    OBVIOUS
<1>3. H!Added(<< x >>, x.rep, w) = [j \in {1} |-> [x EXCEPT !.w = @ + w]]
    BY <1>2 DEF H!Added
<1> QED
    BY <1>1, <1>3

LEMMA RecordsNext == ASSUME IInv' PROVE RecordFacts'
<1>1. (IInv => RecordFacts)'
    BY Records, PTL
<1> QED
    BY <1>1

LEMMA OthersKeep ==
    ASSUME IInv, IInv', NEW K, Refs' \ {K} = Refs \ {K}, DOMAIN data' = DOMAIN data \cup {K},
           \A L \in DOMAIN data \ {K} : data'[L] = data[L],
           \A L \in Refs \ {K} : /\ Start(L)' = Start(L) /\ Count(L)' = Count(L)
                                 /\ \A i \in 1 .. Count(L) : slab'[Start(L) + i] = slab[Start(L) + i],
           NEW L \in Mask \ {K}
    PROVE  Histo(L)' = Histo(L)
<1>1. CASE L \notin DOMAIN data
    BY <1>1 DEF Histo
<1>2. CASE L \in DOMAIN data /\ L \notin Refs
    <2>1. yieldRecord(L) = << unpack(data[L]) >>
        BY <1>2, Records DEF RecordFacts
    <2>2. yieldRecord(L)' = << unpack(data'[L]) >>
        BY <1>2, RecordsNext DEF RecordFacts
    <2> QED
        BY <1>2, <2>1, <2>2 DEF Histo
<1>3. CASE L \in DOMAIN data /\ L \in Refs
    <2>1. yieldRecord(L) = [i \in 1 .. Count(L) |-> unpack(slab[Start(L) + i])]
        BY <1>3, Records DEF RecordFacts
    <2>2. yieldRecord(L)' = [i \in 1 .. Count(L)' |-> unpack(slab'[Start(L)' + i])]
        BY <1>3, RecordsNext DEF RecordFacts
    <2>3. /\ Start(L)' = Start(L) /\ Count(L)' = Count(L)
          /\ \A i \in 1 .. Count(L) : slab'[Start(L) + i] = slab[Start(L) + i]
        BY <1>3
    <2>4. yieldRecord(L)' = yieldRecord(L)
        BY <2>1, <2>2, <2>3
    <2> QED
        BY <1>3, <2>4 DEF Histo
<1> QED
    BY <1>1, <1>2, <1>3

(* The weights a Set may add.                                              *)
LEMMA WeightsAre == \A weight \in Weight : ~Ignored(weight) => weight \in 1 .. MaxWeight
<1>1. MaxWeight \in Nat /\ Weight \subseteq 0 .. MaxWeight
    BY ShardAssumption
<1> QED
    BY <1>1 DEF Ignored

LEMMA OpensInline ==
    ASSUME IInv, NEW K \in Mask, NEW rep \in Rep, NEW weight \in 1 .. MaxWeight, OpenInline(K, rep, weight)
    PROVE  Adds(K, rep, weight)
<1>1. K \notin DOMAIN data /\ K \notin Refs
    BY Records DEF OpenInline, RecordFacts, Refs
<1>2. pack(rep, weight) \in Pairs /\ unpack(pack(rep, weight)) = [rep |-> rep, w |-> weight]
    BY PairWord DEF Pairs
<1>3. /\ IInv' /\ Refs' = Refs /\ data'[K] = pack(rep, weight) /\ DOMAIN data' = DOMAIN data \cup {K}
      /\ \A L \in DOMAIN data \ {K} : data'[L] = data[L]
    BY <1>1, <1>2, InWord DEF OpenInline
<1>4. yieldRecord(K)' = << unpack(data'[K]) >>
    BY <1>1, <1>3, RecordsNext DEF RecordFacts
<1>5. Histo(K)' = << [rep |-> rep, w |-> weight] >> /\ Histo(K) = << >>
    BY <1>1, <1>2, <1>3, <1>4 DEF Histo
<1>6. << [rep |-> rep, w |-> weight] >> = H!Added(<< >>, rep, weight)
    BY DEF H!Added
<1>7. \A L \in Refs \ {K} : /\ Start(L)' = Start(L) /\ Count(L)' = Count(L)
                            /\ \A i \in 1 .. Count(L) : slab'[Start(L) + i] = slab[Start(L) + i]
    BY <1>3 DEF Refs, Start, Count, OpenInline
<1>8. \A L \in Mask \ {K} : Histo(L)' = Histo(L)
    BY <1>3, <1>7, OthersKeep
<1>9. Layout(K)
    BY <1>1, <1>3, <1>7 DEF OpenInline, Layout, KeepsBlocks, Cap
<1> QED
    BY <1>3, <1>5, <1>6, <1>8, <1>9 DEF Adds

LEMMA SumsInline ==
    ASSUME IInv, NEW K \in Mask, NEW rep \in Rep, NEW weight \in 1 .. MaxWeight,
           \A w \in WeightOf(K, rep) : w + weight <= MaxWeight, SumInline(K, rep, weight)
    PROVE  Adds(K, rep, weight)
<1> DEFINE old == unpack(data[K])
           v == old.w
<1>1. /\ K \in DOMAIN data /\ K \notin Refs /\ Word(K) = data[K] /\ data[K] \in Pairs
      /\ Word(K) # 0 /\ ~IsRef(data[K]) /\ old.rep = rep /\ yieldRecord(K) = << old >>
    <2>1. K \in DOMAIN data
        BY DEF SumInline, Word
    <2> QED
        BY <2>1, Records DEF RecordFacts, SumInline, Refs
<1>2. v \in 1 .. MaxWeight /\ old = [rep |-> rep, w |-> v]
    BY <1>1, PairIs
<1>3. v + weight <= MaxWeight
    <2>1. v \in WeightOf(K, rep)
        BY <1>1 DEF WeightOf
    <2> QED
        BY <2>1
<1>4. MaxWeight \in Nat /\ v + weight \in 1 .. MaxWeight
    <2>1. MaxWeight \in Nat
        BY ShardAssumption
    <2> QED
        BY <1>2, <1>3, <2>1
<1>5. pack(rep, v + weight) \in Pairs /\ unpack(pack(rep, v + weight)) = [rep |-> rep, w |-> v + weight]
    BY <1>4, PairWord DEF Pairs
<1>6. Store(K, pack(rep, v + weight)) /\ UNCHANGED <<slab, free>>
    BY <1>1 DEF SumInline, Sum
<1>7. /\ IInv' /\ Refs' = Refs /\ data'[K] = pack(rep, v + weight) /\ DOMAIN data' = DOMAIN data \cup {K}
      /\ \A L \in DOMAIN data \ {K} : data'[L] = data[L]
    BY <1>1, <1>5, <1>6, InWord
<1>8. yieldRecord(K)' = << unpack(data'[K]) >>
    BY <1>1, <1>7, RecordsNext DEF RecordFacts
<1>9. Histo(K)' = << [rep |-> rep, w |-> v + weight] >> /\ Histo(K) = << old >>
    BY <1>1, <1>5, <1>7, <1>8 DEF Histo
<1>10. << [rep |-> rep, w |-> v + weight] >> = H!Added(<< old >>, rep, weight)
    <2>1. old \in Classes
        BY <1>1, PairClass
    <2> QED
        BY <1>1, <2>1, SummedFirst
<1>11. \A L \in Refs \ {K} : /\ Start(L)' = Start(L) /\ Count(L)' = Count(L)
                             /\ \A i \in 1 .. Count(L) : slab'[Start(L) + i] = slab[Start(L) + i]
    BY <1>6, <1>7 DEF Refs, Start, Count
<1>12. \A L \in Mask \ {K} : Histo(L)' = Histo(L)
    BY <1>7, <1>11, OthersKeep
<1>13. Layout(K)
    BY <1>1, <1>6, <1>7, <1>11 DEF Layout, KeepsBlocks, Cap
<1> QED
    BY <1>7, <1>9, <1>10, <1>12, <1>13 DEF Adds

(* A record in the slab, as a function of its live positions.              *)
LEMMA SlabRecord ==
    ASSUME IInv, NEW K \in Refs
    PROVE  /\ Histo(K) \in [1 .. Count(K) -> Classes] /\ Count(K) \in Nat
           /\ \A i \in 1 .. Count(K) : Histo(K)[i] = unpack(slab[Start(K) + i])
<1>1. K \in DOMAIN data
    BY DEF Refs
<1>2. yieldRecord(K) = [i \in 1 .. Count(K) |-> unpack(slab[Start(K) + i])]
    BY <1>1, Records DEF RecordFacts
<1>3. \A i \in 1 .. Count(K) : unpack(slab[Start(K) + i]) \in Classes
    BY PairClass DEF IInv, Distinct
<1>4. Count(K) \in Nat
    <2>1. Count(K) \in 2 .. MaxClasses
        BY References DEF RefFacts
    <2> QED
        BY <2>1, MaxClassesBounds
<1> QED
    BY <1>1, <1>2, <1>3, <1>4 DEF Histo

SlabRecordFacts ==
    \A K \in Refs : /\ Histo(K) \in [1 .. Count(K) -> Classes] /\ Count(K) \in Nat
                    /\ \A i \in 1 .. Count(K) : Histo(K)[i] = unpack(slab[Start(K) + i])

LEMMA SlabRecords == IInv => SlabRecordFacts
BY SlabRecord DEF SlabRecordFacts

LEMMA SlabRecordsNext == ASSUME IInv' PROVE SlabRecordFacts'
<1>1. (IInv => SlabRecordFacts)'
    BY SlabRecords, PTL
<1> QED
    BY <1>1

(* Which slots of a mask hold a class.                                     *)
LEMMA SlotsOf ==
    ASSUME IInv, NEW K \in Refs, NEW rep
    PROVE  /\ SlotOf(Slots(slab, Start(K), Count(K)), rep)
                 = {i \in 1 .. Count(K) : unpack(slab[Start(K) + i]).rep = rep}
           /\ WeightOf(K, rep) = {unpack(slab[Start(K) + i]).w : i \in
                                     {j \in 1 .. Count(K) : unpack(slab[Start(K) + j]).rep = rep}}
<1> DEFINE live == Slots(slab, Start(K), Count(K))
<1>1. K \in DOMAIN data /\ IsRef(data[K])
    BY DEF Refs
<1>2. Word(K) = data[K] /\ data[K] # 0 /\ live = [i \in 1 .. Count(K) |-> slab[Start(K) + i]]
    BY <1>1, Records DEF RecordFacts
<1>3. SlotOf(live, rep) = {i \in 1 .. Count(K) : unpack(slab[Start(K) + i]).rep = rep}
    BY <1>2 DEF SlotOf
<1>4. WeightOf(K, rep) = {unpack(live[i]).w : i \in SlotOf(live, rep)}
    BY <1>1, <1>2 DEF WeightOf, Start, Count
<1>5. \A i \in SlotOf(live, rep) : live[i] = slab[Start(K) + i]
    BY <1>2, <1>3
<1> QED
    BY <1>3, <1>4, <1>5

LEMMA StoreKeeps ==
    ASSUME NEW K \in DOMAIN data, NEW word, Store(K, word)
    PROVE  /\ DOMAIN data' = DOMAIN data /\ data'[K] = word
           /\ \A L \in DOMAIN data \ {K} : data'[L] = data[L]
BY DEF Store

LEMMA SumsInSlot ==
    ASSUME IInv, NEW K \in Mask, NEW rep \in Rep, NEW weight \in 1 .. MaxWeight,
           \A w \in WeightOf(K, rep) : w + weight <= MaxWeight, SumInSlot(K, rep, weight)
    PROVE  Adds(K, rep, weight)
<1>1. K \in Refs /\ K \in DOMAIN data /\ Word(K) = data[K]
    <2>1. Tag \in Nat \ {0}
        BY ShardAssumption DEF Tag
    <2>2. K \in DOMAIN data
        BY <2>1 DEF SumInSlot, Word, IsRef
    <2> QED
        BY <2>2 DEF SumInSlot, Word, Refs
<1>2. PICK i \in SlotOf(Slots(slab, Start(K), Count(K)), rep) :
         slab' = WriteSlot(slab, Start(K) + i - 1, pack(rep, Sum(unpack(slab[Start(K) + i]).w, weight)))
    BY <1>1 DEF SumInSlot, Start, Count
<1>3. i \in 1 .. Count(K) /\ unpack(slab[Start(K) + i]).rep = rep
    BY <1>1, SlotsOf
<1>4. PICK v : v = unpack(slab[Start(K) + i]).w
    OBVIOUS
<1>5. /\ slab[Start(K) + i] \in Pairs /\ v \in 1 .. MaxWeight /\ v + weight <= MaxWeight
      /\ \A j \in (1 .. Count(K)) \ {i} : unpack(slab[Start(K) + j]).rep # rep
    <2>1. /\ slab[Start(K) + i] \in Pairs
          /\ \A j \in (1 .. Count(K)) \ {i} : unpack(slab[Start(K) + j]).rep # rep
        BY <1>1, <1>3 DEF IInv, Distinct
    <2>2. v \in WeightOf(K, rep)
        BY <1>1, <1>3, <1>4, SlotsOf
    <2> QED
        BY <1>4, <2>1, <2>2, PairIs
<1>6. v + weight \in 1 .. MaxWeight
    <2>1. MaxWeight \in Nat
        BY ShardAssumption
    <2> QED
        BY <1>5, <2>1
<1>7. PICK word : word = pack(rep, v + weight)
    OBVIOUS
<1>8. word \in Pairs /\ unpack(word) = [rep |-> rep, w |-> v + weight]
    BY <1>6, <1>7, PairWord DEF Pairs
<1>9. /\ data[K] = makeRef(Count(K), Start(K)) /\ Count(K) \in 2 .. MaxClasses /\ Count(K) \in Nat
      /\ Start(K) \in Nat /\ i \in Nat
    <2>1. /\ data[K] = makeRef(Count(K), Start(K)) /\ Count(K) \in 2 .. MaxClasses
          /\ Start(K) \in 0 .. (WBase - 1)
        BY <1>1, References DEF RefFacts
    <2>2. MaxClasses \in Nat /\ WBase \in Nat
        BY ShardAssumption, MaxClassesBounds
    <2> QED
        BY <1>3, <2>1, <2>2
<1>10. slab' = [slab EXCEPT ![Start(K) + i] = word]
    <2>1. Start(K) + i - 1 + 1 = Start(K) + i
        BY <1>9
    <2> QED
        BY <1>2, <1>4, <1>7, <2>1 DEF WriteSlot, Sum
<1>11. data' = data /\ free' = free
    BY DEF SumInSlot
<1>12. /\ IInv' /\ Refs' = Refs /\ Start(K)' = Start(K) /\ Count(K)' = Count(K)
       /\ slab'[Start(K) + i] = word
       /\ \A j \in (1 .. Count(K)) \ {i} : slab'[Start(K) + j] = slab[Start(K) + j]
       /\ \A L \in Refs \ {K} :
             /\ Start(L)' = Start(L) /\ Count(L)' = Count(L)
             /\ \A j \in 1 .. Count(L) : slab'[Start(L) + j] = slab[Start(L) + j]
    <2>1. PICK k : k = Count(K)
        OBVIOUS
    <2>2. /\ k \in 2 .. MaxClasses /\ i \in 1 .. k /\ Count(K) <= k /\ k <= Count(K) + 1
          /\ k = Count(K) + 1 => i = k
          /\ capacityFor(k) = Cap(K)
        BY <1>3, <1>9, <2>1 DEF Cap
    <2>3. /\ DOMAIN data' = DOMAIN data /\ data'[K] = makeRef(k, Start(K))
          /\ \A L \in DOMAIN data \ {K} : data'[L] = data[L]
        BY <1>9, <1>11, <2>1
    <2>4. \A j \in (1 .. Count(K)) \ {i} : unpack(slab[Start(K) + j]).rep # unpack(word).rep
        BY <1>5, <1>8
    <2>4a. WritesSlot(K, k, i, word)
        BY <1>8, <1>10, <1>11, <2>2, <2>3, <2>4 DEF WritesSlot
    <2>5. /\ IInv' /\ Refs' = Refs /\ Start(K)' = Start(K) /\ Count(K)' = k
          /\ slab'[Start(K) + i] = word
          /\ \A j \in (1 .. k) \ {i} : slab'[Start(K) + j] = slab[Start(K) + j]
          /\ \A L \in Refs \ {K} :
                /\ Start(L)' = Start(L) /\ Count(L)' = Count(L)
                /\ \A j \in 1 .. Count(L) : slab'[Start(L) + j] = slab[Start(L) + j]
        BY <1>1, <2>4a, InBlock
    <2> QED
        BY <2>1, <2>5
<1>13. Histo(K)' = H!Added(Histo(K), rep, weight)
    <2>1. PICK g : g = Histo(K)'
        OBVIOUS
    <2>2. PICK h : h = Histo(K)
        OBVIOUS
    <2>3. PICK n : n = Count(K)
        OBVIOUS
    <2>4. /\ h \in [1 .. n -> Classes] /\ n \in Nat /\ i \in 1 .. n
          /\ \A j \in 1 .. n : h[j] = unpack(slab[Start(K) + j])
        BY <1>1, <1>3, <2>2, <2>3, SlabRecord
    <2>5. /\ g \in [1 .. n -> Classes]
          /\ \A j \in 1 .. n : g[j] = unpack(slab'[Start(K) + j])
        BY <1>1, <1>12, <2>1, <2>3, SlabRecordsNext DEF SlabRecordFacts
    <2>6. h[i].rep = rep /\ g[i] = [rep |-> rep, w |-> h[i].w + weight]
        BY <1>3, <1>4, <1>8, <1>12, <2>4, <2>5
    <2>7. \A j \in (1 .. n) \ {i} : h[j].rep # rep /\ g[j] = h[j]
        BY <1>5, <1>12, <2>3, <2>4, <2>5
    <2>8. OneGrown(n, h, i, rep, weight, g)
        BY <2>4, <2>5, <2>6, <2>7 DEF OneGrown
    <2>9. g = H!Added(h, rep, weight)
        BY <2>8, Summed
    <2> QED
        BY <2>1, <2>2, <2>9
<1>14. \A L \in Mask \ {K} : Histo(L)' = Histo(L)
    BY <1>1, <1>11, <1>12, OthersKeep
<1>15. Layout(K)
    BY <1>11, <1>12 DEF Layout, KeepsBlocks, Cap
<1> QED
    BY <1>1, <1>11, <1>12, <1>13, <1>14, <1>15 DEF Adds

LEMMA NewClass ==
    ASSUME IInv, NEW K \in Mask, NEW rep \in Rep, IsNewClass(K, rep)
    PROVE  /\ K \in Refs /\ K \in DOMAIN data /\ Word(K) = data[K]
           /\ Count(K) \in Nat /\ Count(K) \in 1 .. MaxClasses /\ Count(K) + 1 \in 2 .. MaxClasses
           /\ Start(K) \in Nat /\ Start(K) + Cap(K) <= Len(slab) /\ Cap(K) \in Nat /\ Count(K) <= Cap(K)
           /\ \A i \in 1 .. Count(K) : unpack(slab[Start(K) + i]).rep # rep
           /\ \A i \in 1 .. Count(K) : slab[Start(K) + i] \in Pairs
<1>1. K \in Refs /\ K \in DOMAIN data /\ Word(K) = data[K]
    <2>1. Tag \in Nat \ {0}
        BY ShardAssumption DEF Tag
    <2>2. K \in DOMAIN data
        BY <2>1 DEF IsNewClass, Word, IsRef
    <2> QED
        BY <2>2 DEF IsNewClass, Word, Refs
<1>2. \A i \in 1 .. Count(K) : unpack(slab[Start(K) + i]).rep # rep
    <2>1. SlotOf(Slots(slab, Start(K), Count(K)), rep) = {}
        BY <1>1 DEF IsNewClass, Start, Count
    <2>2. {i \in 1 .. Count(K) : unpack(slab[Start(K) + i]).rep = rep} = {}
        BY <1>1, <2>1, SlotsOf
    <2> QED
        BY <2>2
<1>3. Count(K) + 1 <= MaxClasses
    BY <1>1, <1>2, NewClassFits
<1>4. /\ Count(K) \in 2 .. MaxClasses /\ Start(K) \in 0 .. (WBase - 1) /\ Cap(K) \in Nat
      /\ Start(K) + Cap(K) <= Len(slab) /\ Count(K) <= Cap(K)
    BY <1>1, References DEF RefFacts
<1>5. MaxClasses \in Nat /\ WBase \in Nat
    BY ShardAssumption, MaxClassesBounds
<1>6. Count(K) \in Nat /\ Count(K) \in 1 .. MaxClasses /\ Count(K) + 1 \in 2 .. MaxClasses /\ Start(K) \in Nat
    BY <1>3, <1>4, <1>5
<1> QED
    BY <1>1, <1>2, <1>4, <1>6 DEF IInv, Distinct

LEMMA ExtendsInReserve ==
    ASSUME IInv, NEW K \in Mask, NEW rep \in Rep, NEW weight \in 1 .. MaxWeight, ExtendInReserve(K, rep, weight)
    PROVE  Adds(K, rep, weight)
<1>1. /\ K \in Refs /\ K \in DOMAIN data /\ Word(K) = data[K] /\ Count(K) \in Nat
      /\ Count(K) + 1 \in 2 .. MaxClasses /\ Start(K) \in Nat
      /\ \A i \in 1 .. Count(K) : unpack(slab[Start(K) + i]).rep # rep
    BY NewClass DEF ExtendInReserve
<1>2. PICK n : n = Count(K)
    OBVIOUS
<1>3. PICK k : k = n + 1
    OBVIOUS
<1>4. PICK word : word = pack(rep, weight)
    OBVIOUS
<1>5. word \in Pairs /\ unpack(word) = [rep |-> rep, w |-> weight]
    BY <1>4, PairWord DEF Pairs
<1>6. /\ slab' = WriteSlot(slab, Start(K) + n, word) /\ Store(K, makeRef(k, Start(K)))
      /\ capacityFor(k) = capacityFor(n) /\ free' = free
    BY <1>1, <1>2, <1>3, <1>4 DEF ExtendInReserve, HasReserve, Start, Count
<1>7. slab' = [slab EXCEPT ![Start(K) + k] = word]
    <2>1. Start(K) + n + 1 = Start(K) + k
        BY <1>1, <1>2, <1>3
    <2> QED
        BY <1>6, <2>1 DEF WriteSlot
<1>8. /\ DOMAIN data' = DOMAIN data /\ data'[K] = makeRef(k, Start(K))
      /\ \A L \in DOMAIN data \ {K} : data'[L] = data[L]
    BY <1>1, <1>6, StoreKeeps
<1>9. WritesSlot(K, k, k, word)
    <2>1. k \in 2 .. MaxClasses /\ k \in 1 .. k /\ Count(K) <= k /\ k <= Count(K) + 1
        BY <1>1, <1>2, <1>3
    <2>2. capacityFor(k) = Cap(K)
        BY <1>2, <1>6 DEF Cap
    <2>3. \A j \in (1 .. Count(K)) \ {k} : unpack(slab[Start(K) + j]).rep # unpack(word).rep
        BY <1>1, <1>5
    <2> QED
        BY <1>5, <1>6, <1>7, <1>8, <2>1, <2>2, <2>3 DEF WritesSlot
<1>10. /\ IInv' /\ Refs' = Refs /\ Start(K)' = Start(K) /\ Count(K)' = k
       /\ slab'[Start(K) + k] = word
       /\ \A j \in (1 .. k) \ {k} : slab'[Start(K) + j] = slab[Start(K) + j]
       /\ \A L \in Refs \ {K} :
             /\ Start(L)' = Start(L) /\ Count(L)' = Count(L)
             /\ \A j \in 1 .. Count(L) : slab'[Start(L) + j] = slab[Start(L) + j]
    BY <1>1, <1>9, InBlock
<1>11. Histo(K)' = H!Added(Histo(K), rep, weight)
    <2>1. PICK g : g = Histo(K)'
        OBVIOUS
    <2>2. PICK h : h = Histo(K)
        OBVIOUS
    <2>3. /\ h \in [1 .. n -> Classes] /\ n \in Nat
          /\ \A j \in 1 .. n : h[j] = unpack(slab[Start(K) + j])
        BY <1>1, <1>2, <2>2, SlabRecord
    <2>4. g \in [1 .. k -> Classes] /\ \A j \in 1 .. k : g[j] = unpack(slab'[Start(K) + j])
        BY <1>1, <1>10, <2>1, SlabRecordsNext DEF SlabRecordFacts
    <2>5. k \in 1 .. k /\ \A j \in 1 .. n : j \in (1 .. k) \ {k}
        BY <1>3, <2>3
    <2>6. g[n + 1] = [rep |-> rep, w |-> weight]
        BY <1>3, <1>5, <1>10, <2>4, <2>5
    <2>7. \A j \in 1 .. n : h[j].rep # rep /\ g[j] = h[j]
        BY <1>1, <1>2, <1>10, <2>3, <2>4, <2>5
    <2>8. LastAdded(n, h, rep, weight, g)
        BY <1>3, <2>3, <2>4, <2>6, <2>7 DEF LastAdded
    <2>9. g = H!Added(h, rep, weight)
        BY <2>8, Appended
    <2> QED
        BY <2>1, <2>2, <2>9
<1>12. \A L \in Mask \ {K} : Histo(L)' = Histo(L)
    BY <1>1, <1>8, <1>10, OthersKeep
<1>13. Layout(K)
    BY <1>2, <1>6, <1>10 DEF Layout, KeepsBlocks, Cap
<1> QED
    BY <1>1, <1>8, <1>10, <1>11, <1>12, <1>13 DEF Adds

(* The two steps that move a mask: its pairs come along, the new one last. *)
LEMMA MoveAdds ==
    ASSUME IInv, NEW K \in Mask, NEW n \in Nat, n + 1 \in 2 .. MaxClasses,
           NEW b, b = allocBlock(capacityFor(n + 1)),
           AllocFacts(b, capacityFor(n + 1)), MovesTo(K, n + 1, b), NEW rep, NEW weight,
           Histo(K) \in [1 .. n -> Classes],
           \A i \in 1 .. n : Histo(K)[i].rep # rep /\ unpack(slab'[b.idx + i]) = Histo(K)[i],
           unpack(slab'[b.idx + (n + 1)]) = [rep |-> rep, w |-> weight]
    PROVE  Adds(K, rep, weight)
<1>0. PICK k : k = n + 1
    OBVIOUS
<1>1. IInv'
    BY Moved
<1>2. /\ Start(K)' = b.idx /\ Count(K)' = k /\ DOMAIN data' = DOMAIN data \cup {K} /\ Refs' = Refs \cup {K}
      /\ \A L \in DOMAIN data \ {K} : data'[L] = data[L]
      /\ \A L \in Refs \ {K} : /\ Start(L)' = Start(L) /\ Count(L)' = Count(L)
                               /\ \A i \in 1 .. Count(L) : slab'[Start(L) + i] = slab[Start(L) + i]
    BY <1>0, MovedWords
<1>3. Histo(K)' = H!Added(Histo(K), rep, weight)
    <2>1. PICK g : g = Histo(K)'
        OBVIOUS
    <2>2. PICK h : h = Histo(K)
        OBVIOUS
    <2>3. g \in [1 .. k -> Classes] /\ \A j \in 1 .. k : g[j] = unpack(slab'[b.idx + j])
        BY <1>1, <1>2, <2>1, SlabRecordsNext DEF SlabRecordFacts
    <2>4. k \in 1 .. k /\ \A j \in 1 .. n : j \in 1 .. k
        BY <1>0
    <2>5. LastAdded(n, h, rep, weight, g)
        BY <1>0, <2>2, <2>3, <2>4 DEF LastAdded
    <2>6. g = H!Added(h, rep, weight)
        BY <2>5, Appended
    <2> QED
        BY <2>1, <2>2, <2>6
<1>4. \A L \in Mask \ {K} : Histo(L)' = Histo(L)
    <2>1. Refs' \ {K} = Refs \ {K}
        BY <1>2
    <2> QED
        BY <1>1, <1>2, <2>1, OthersKeep
<1>5. Layout(K)
    <2>1. PICK c : c = capacityFor(n + 1)
        OBVIOUS
    <2>2. /\ c \in Capacities /\ Cap(K)' = c /\ Refs' = Refs \cup {K}
          /\ \A L \in Refs \ {K} : Cap(L)' = Cap(L)
        BY <2>1, MovedWords
    <2>3. K \in Refs /\ 2 * Cap(K) <= c => Cap(K) # c
        <3>1. c \in Nat /\ c >= 2
            BY <2>2, CapacityNat
        <3> QED
            BY <3>1
    <2>4. \/ K \notin Refs /\ free' = b.free
          \/ K \in Refs /\ Cap(K) # c /\ free' = AppendTo(b.free, Cap(K), Start(K))
        BY <2>1, <2>3 DEF MovesTo
    <2>5. TakesBlock(K, c)
        BY <2>1, <2>2, <2>4 DEF TakesBlock
    <2> QED
        BY <2>2, <2>5 DEF Layout
<1> QED
    BY <1>1, <1>2, <1>3, <1>4, <1>5 DEF Adds

LEMMA Relocates ==
    ASSUME IInv, NEW K \in Mask, NEW rep \in Rep, NEW weight \in 1 .. MaxWeight, relocate(K, rep, weight)
    PROVE  Adds(K, rep, weight)
<1>1. /\ K \in Refs /\ K \in DOMAIN data /\ Word(K) = data[K] /\ Count(K) \in Nat
      /\ Count(K) \in 1 .. MaxClasses /\ Count(K) + 1 \in 2 .. MaxClasses
      /\ Start(K) \in Nat /\ Start(K) + Cap(K) <= Len(slab) /\ Cap(K) \in Nat /\ Count(K) <= Cap(K)
      /\ \A i \in 1 .. Count(K) : unpack(slab[Start(K) + i]).rep # rep
      /\ \A i \in 1 .. Count(K) : slab[Start(K) + i] \in Pairs
    BY NewClass DEF relocate
<1>2. PICK n : n = Count(K)
    OBVIOUS
<1>3. PICK a : a = Start(K)
    OBVIOUS
<1>4. PICK b : b = allocBlock(capacityFor(n + 1))
    OBVIOUS
<1>5. PICK word : word = pack(rep, weight)
    OBVIOUS
<1>6. word \in Pairs /\ unpack(word) = [rep |-> rep, w |-> weight] /\ word \in 0 .. (Tag - 1)
    <2>1. word \in Pairs /\ unpack(word) = [rep |-> rep, w |-> weight]
        BY <1>5, PairWord DEF Pairs
    <2>2. word \in 1 .. (Tag - 1)
        BY <2>1, PairIs
    <2> QED
        BY <2>1, <2>2
<1>7. /\ slab' = [i \in DOMAIN b.slab |-> IF i \in b.idx + 1 .. b.idx + n THEN slab[a + i - b.idx]
                                           ELSE IF i = b.idx + n + 1 THEN word ELSE b.slab[i]]
      /\ free' = AppendTo(b.free, Cap(K), a) /\ Store(K, makeRef(n + 1, b.idx))
      /\ ~HasReserve(n)
    BY <1>1, <1>2, <1>3, <1>4, <1>5 DEF relocate, freeBlock, OldCap, AppendTo, Cap, Count, Start
<1>8. PICK c : c = capacityFor(n + 1)
    OBVIOUS
<1>9. /\ n \in Nat /\ a \in Nat /\ c \in Nat /\ n + 1 <= c /\ 2 * Cap(K) <= c
      /\ AllocFacts(b, c)
    <2>1. n + 1 \in 1 .. MaxClasses /\ n + 1 >= 2 /\ n \in Nat /\ a \in Nat
        BY <1>1, <1>2, <1>3, MaxClassesBounds
    <2>2. c \in Capacities /\ n + 1 <= c /\ c \in Nat
        BY <1>8, <2>1, CapacityIs, CapacityNat
    <2>3. n + 1 <= MaxClasses
        BY <2>1, MaxClassesBounds
    <2>4. 2 * Cap(K) <= c
        BY <1>1, <1>2, <1>7, <1>8, <2>3, CapacityGrows DEF Cap
    <2> QED
        BY <1>4, <1>8, <2>1, <2>2, <2>4, Alloc
<1>10. /\ b.idx \in Nat /\ b.idx + c <= Len(b.slab) /\ Len(b.slab) \in Nat /\ DOMAIN b.slab = 1 .. Len(b.slab)
       /\ Len(slab) \in Nat /\ Len(slab) <= Len(b.slab)
       /\ \A i \in 1 .. Len(b.slab) : b.slab[i] \in 0 .. (Tag - 1)
       /\ \A p \in 0 .. (Len(slab) - 1) : b.slab[p + 1] = slab[p + 1]
    <2>1. b.idx \in 0 .. Len(slab) /\ Len(slab) \in Nat
        BY <1>9 DEF AllocFacts, IInv, TypeOK
    <2>2. b.slab \in Seq(0 .. (Tag - 1))
        BY <1>9 DEF AllocFacts
    <2>3. DOMAIN b.slab = 1 .. Len(b.slab) /\ \A i \in 1 .. Len(b.slab) : b.slab[i] \in 0 .. (Tag - 1)
        BY <2>2, Items
    <2> QED
        BY <1>9, <2>1, <2>2, <2>3 DEF AllocFacts
<1>11. \A i \in 1 .. n : slab'[b.idx + i] = slab[a + i]
    <2>1. ASSUME NEW i \in 1 .. n
          PROVE  slab'[b.idx + i] = slab[a + i]
        <3>1. b.idx + i \in 1 .. Len(b.slab) /\ b.idx + i \in b.idx + 1 .. b.idx + n
            BY <1>9, <1>10
        <3>2. slab'[b.idx + i] = slab[a + (b.idx + i) - b.idx]
            BY <1>7, <1>10, <3>1
        <3>3. a + (b.idx + i) - b.idx = a + i
            BY <1>9, <1>10
        <3> QED
            BY <3>2, <3>3
    <2> QED
        BY <2>1
<1>12. slab'[b.idx + (n + 1)] = word
    <2>1. /\ b.idx + (n + 1) \in 1 .. Len(b.slab) /\ b.idx + (n + 1) \notin b.idx + 1 .. b.idx + n
          /\ b.idx + (n + 1) = b.idx + n + 1
        <3>1. b.idx \in Nat /\ n \in Nat /\ c \in Nat /\ Len(b.slab) \in Nat
            BY <1>9, <1>10
        <3>2. n + 1 <= c /\ b.idx + c <= Len(b.slab)
            BY <1>9, <1>10
        <3> QED
            BY <3>1, <3>2
    <2> QED
        BY <1>7, <1>10, <2>1
<1>13. /\ slab' \in Seq(0 .. (Tag - 1)) /\ Len(slab') = Len(b.slab)
       /\ \A p \in 0 .. (Len(slab) - 1) : p \notin Block(b.idx, c) => slab'[p + 1] = slab[p + 1]
    <2>1. ASSUME NEW i \in 1 .. Len(b.slab)
          PROVE  slab'[i] \in 0 .. (Tag - 1)
        <3>1. CASE i \in b.idx + 1 .. b.idx + n
            <4>1. slab'[i] = slab[a + i - b.idx]
                BY <1>7, <1>10, <3>1
            <4>2. i - b.idx \in 1 .. n /\ a + (i - b.idx) = a + i - b.idx
                BY <1>9, <1>10, <3>1
            <4>3. slab[a + (i - b.idx)] \in Pairs
                BY <1>1, <1>2, <1>3, <4>2
            <4>4. slab'[i] \in 1 .. (Tag - 1)
                BY <4>1, <4>2, <4>3, PairIs
            <4> QED
                BY <4>4
        <3>2. CASE i \notin b.idx + 1 .. b.idx + n
            BY <1>6, <1>7, <1>10, <3>2
        <3> QED
            BY <3>1, <3>2
    <2>2. slab' \in [1 .. Len(b.slab) -> 0 .. (Tag - 1)]
        <3>1. DOMAIN slab' = 1 .. Len(b.slab) /\ slab' = [i \in 1 .. Len(b.slab) |-> slab'[i]]
            BY <1>7, <1>10
        <3> QED
            BY <2>1, <3>1
    <2>3. slab' \in Seq(0 .. (Tag - 1)) /\ Len(slab') = Len(b.slab)
        BY <1>10, <2>2, ItemsIn
    <2>4. ASSUME NEW p \in 0 .. (Len(slab) - 1), p \notin Block(b.idx, c)
          PROVE  slab'[p + 1] = slab[p + 1]
        <3>1. p + 1 \in 1 .. Len(b.slab)
            BY <1>10
        <3>2. p + 1 \notin b.idx + 1 .. b.idx + n /\ p + 1 # b.idx + n + 1
            <4>1. p \in Nat /\ b.idx \in Nat /\ n \in Nat /\ c \in Nat /\ n + 1 <= c
                BY <1>9, <1>10
            <4>2. ~ (p \in b.idx .. (b.idx + c - 1))
                BY <2>4 DEF Block
            <4>3. p < b.idx \/ p > b.idx + c - 1
                BY <4>1, <4>2
            <4> QED
                BY <4>1, <4>3
        <3>3. slab'[p + 1] = b.slab[p + 1]
            BY <1>7, <1>10, <3>1, <3>2
        <3> QED
            BY <1>10, <3>3
    <2> QED
        BY <2>3, <2>4
<1>14. \A i \in 1 .. (n + 1) : i = n + 1 \/ (i \in 1 .. n /\ i # n + 1)
    BY <1>9
<1>15. \A i \in 1 .. (n + 1) : slab'[b.idx + i] \in Pairs
    BY <1>1, <1>2, <1>3, <1>6, <1>11, <1>12, <1>14
<1>16. \A i, j \in 1 .. (n + 1) : unpack(slab'[b.idx + i]).rep = unpack(slab'[b.idx + j]).rep => i = j
    <2>1. \A i \in 1 .. n : unpack(slab'[b.idx + i]).rep # rep
        BY <1>1, <1>2, <1>3, <1>11
    <2>2. unpack(slab'[b.idx + (n + 1)]).rep = rep
        BY <1>6, <1>12
    <2>3. \A i, j \in 1 .. n : unpack(slab'[b.idx + i]).rep = unpack(slab'[b.idx + j]).rep => i = j
        <3>1. \A i, j \in 1 .. Count(K) :
                 unpack(slab[Start(K) + i]).rep = unpack(slab[Start(K) + j]).rep => i = j
            BY <1>1 DEF IInv, Distinct
        <3>2. \A i, j \in 1 .. n : unpack(slab[a + i]).rep = unpack(slab[a + j]).rep => i = j
            BY <1>2, <1>3, <3>1
        <3> QED
            BY <1>11, <3>2
    <2>4. ASSUME NEW i \in 1 .. (n + 1), NEW j \in 1 .. (n + 1),
                 unpack(slab'[b.idx + i]).rep = unpack(slab'[b.idx + j]).rep
          PROVE  i = j
        <3>1. CASE i = n + 1
            <4>1. ~ (j \in 1 .. n)
                BY <2>1, <2>2, <2>4, <3>1
            <4> QED
                BY <1>14, <3>1, <4>1
        <3>2. CASE i \in 1 .. n
            <4>1. j # n + 1
                BY <2>1, <2>2, <2>4, <3>2
            <4>2. j \in 1 .. n
                BY <1>14, <4>1
            <4> QED
                BY <2>3, <2>4, <3>2, <4>2
        <3> QED
            BY <1>14, <3>1, <3>2
    <2> QED
        BY <2>4
<1>17. MovesTo(K, n + 1, b)
    BY <1>1, <1>3, <1>7, <1>8, <1>9, <1>13, <1>15, <1>16 DEF MovesTo
<1>18. /\ Histo(K) \in [1 .. n -> Classes]
       /\ \A i \in 1 .. n : Histo(K)[i] = unpack(slab[a + i])
    BY <1>1, <1>2, <1>3, SlabRecord
<1>19. \A i \in 1 .. n : Histo(K)[i].rep # rep /\ unpack(slab'[b.idx + i]) = Histo(K)[i]
    BY <1>1, <1>2, <1>3, <1>11, <1>18
<1>20. n + 1 \in 2 .. MaxClasses /\ AllocFacts(b, capacityFor(n + 1))
    BY <1>1, <1>2, <1>8, <1>9
<1>21. unpack(slab'[b.idx + (n + 1)]) = [rep |-> rep, w |-> weight]
    BY <1>6, <1>12
<1> QED
    BY <1>4, <1>9, <1>17, <1>18, <1>19, <1>20, <1>21, MoveAdds

LEMMA Promotes ==
    ASSUME IInv, NEW K \in Mask, NEW rep \in Rep, NEW weight \in 1 .. MaxWeight, Promote(K, rep, weight)
    PROVE  Adds(K, rep, weight)
<1>1. /\ K \in DOMAIN data /\ K \notin Refs /\ Word(K) = data[K] /\ data[K] \in Pairs
      /\ unpack(data[K]).rep # rep /\ yieldRecord(K) = << unpack(data[K]) >>
    <2>1. K \in DOMAIN data
        BY DEF Promote, Word
    <2> QED
        BY <2>1, Records DEF RecordFacts, Promote, Refs
<1>2. PICK old : old = data[K]
    OBVIOUS
<1>3. PICK b : b = allocBlock(capacityFor(2))
    OBVIOUS
<1>4. PICK word : word = pack(rep, weight)
    OBVIOUS
<1>5. word \in Pairs /\ unpack(word) = [rep |-> rep, w |-> weight]
    BY <1>4, PairWord DEF Pairs
<1>6. /\ slab' = WriteSlot(WriteSlot(b.slab, b.idx, old), b.idx + 1, word)
      /\ free' = b.free /\ Store(K, makeRef(2, b.idx))
    BY <1>1, <1>2, <1>3, <1>4 DEF Promote
<1>7. PICK c : c = capacityFor(2)
    OBVIOUS
<1>8. c \in Nat /\ 2 <= c /\ AllocFacts(b, c) /\ 2 \in 2 .. MaxClasses
    <2>1. 2 \in 1 .. MaxClasses /\ 2 \in 2 .. MaxClasses
        BY MaxClassesBounds
    <2>2. c \in Capacities /\ 2 <= c /\ c \in Nat
        BY <1>7, <2>1, CapacityIs, CapacityNat
    <2> QED
        BY <1>3, <1>7, <2>1, <2>2, Alloc
<1>9. /\ b.idx \in Nat /\ b.idx + c <= Len(b.slab) /\ Len(b.slab) \in Nat /\ DOMAIN b.slab = 1 .. Len(b.slab)
      /\ b.slab \in Seq(0 .. (Tag - 1)) /\ Len(slab) \in Nat /\ Len(slab) <= Len(b.slab)
      /\ \A p \in 0 .. (Len(slab) - 1) : b.slab[p + 1] = slab[p + 1]
    <2>1. b.idx \in 0 .. Len(slab) /\ Len(slab) \in Nat
        BY <1>8 DEF AllocFacts, IInv, TypeOK
    <2>2. b.slab \in Seq(0 .. (Tag - 1))
        BY <1>8 DEF AllocFacts
    <2> QED
        BY <1>8, <2>1, <2>2, Items DEF AllocFacts
<1>10. PICK s : s = b.slab
    OBVIOUS
<1>11. slab' = [[s EXCEPT ![b.idx + 1] = old] EXCEPT ![b.idx + 1 + 1] = word]
    BY <1>6, <1>10 DEF WriteSlot
<1>12. /\ b.idx + 1 \in 1 .. Len(s) /\ b.idx + 1 + 1 \in 1 .. Len(s) /\ b.idx + 1 + 1 = b.idx + 2
       /\ b.idx + 1 # b.idx + 1 + 1 /\ s \in Seq(0 .. (Tag - 1)) /\ DOMAIN s = 1 .. Len(s)
    BY <1>8, <1>9, <1>10
<1>13. old \in 0 .. (Tag - 1) /\ word \in 0 .. (Tag - 1)
    <2>1. old \in 1 .. (Tag - 1) /\ word \in 1 .. (Tag - 1)
        BY <1>1, <1>2, <1>5, PairIs
    <2> QED
        BY <2>1
<1>14. /\ slab'[b.idx + 1] = old /\ slab'[b.idx + 2] = word
       /\ \A i \in (1 .. Len(s)) \ {b.idx + 1, b.idx + 2} : slab'[i] = s[i]
    BY <1>11, <1>12
<1>15. slab' \in Seq(0 .. (Tag - 1)) /\ Len(slab') = Len(s)
    BY <1>11, <1>12, <1>13
<1>16. ASSUME NEW p \in 0 .. (Len(slab) - 1), p \notin Block(b.idx, c)
       PROVE  slab'[p + 1] = slab[p + 1]
    <2>1. p + 1 \in 1 .. Len(s) /\ p + 1 # b.idx + 1 /\ p + 1 # b.idx + 2
        BY <1>8, <1>9, <1>10, <1>16 DEF Block
    <2> QED
        BY <1>9, <1>10, <1>14, <2>1
<1>17. \A i \in 1 .. 2 : (i = 1 /\ slab'[b.idx + i] = old) \/ (i = 2 /\ slab'[b.idx + i] = word)
    BY <1>14
<1>18. /\ \A i \in 1 .. 2 : slab'[b.idx + i] \in Pairs
       /\ \A i, j \in 1 .. 2 : unpack(slab'[b.idx + i]).rep = unpack(slab'[b.idx + j]).rep => i = j
    <2>1. old \in Pairs /\ word \in Pairs /\ unpack(word).rep = rep /\ unpack(old).rep # rep
        BY <1>1, <1>2, <1>5
    <2> QED
        BY <1>17, <2>1
<1>19. MovesTo(K, 2, b)
    BY <1>1, <1>6, <1>7, <1>10, <1>15, <1>16, <1>18 DEF MovesTo
<1>20. PICK n : n = 1
    OBVIOUS
<1>21. Histo(K) \in [1 .. n -> Classes] /\ Histo(K)[1] = unpack(old)
    <2>1. Histo(K) = << unpack(old) >> /\ unpack(old) \in Classes
        BY <1>1, <1>2, PairClass DEF Histo
    <2> QED
        BY <1>20, <2>1
<1>22. \A i \in 1 .. n : Histo(K)[i].rep # rep /\ unpack(slab'[b.idx + i]) = Histo(K)[i]
    BY <1>1, <1>2, <1>14, <1>20, <1>21
<1>23. n \in Nat /\ n + 1 = 2
    BY <1>20
<1>24. /\ b = allocBlock(capacityFor(n + 1))
       /\ n + 1 \in 2 .. MaxClasses /\ AllocFacts(b, capacityFor(n + 1)) /\ MovesTo(K, n + 1, b)
       /\ unpack(slab'[b.idx + (n + 1)]) = [rep |-> rep, w |-> weight]
    BY <1>3, <1>5, <1>7, <1>8, <1>14, <1>19, <1>23
<1> HIDE <1>20
<1> QED
    BY <1>21, <1>22, <1>23, <1>24, MoveAdds
-----------------------------------------------------------------------------
(* The invariant holds.                                                    *)
LEMMA SetAdds ==
    ASSUME IInv, NEW K \in Mask, NEW rep \in Rep, NEW weight \in Weight, Set(K, rep, weight)
    PROVE  Adds(K, rep, weight)
<1>1. weight \in 1 .. MaxWeight
    BY WeightsAre DEF Set
<1>2. \A w \in WeightOf(K, rep) : w + weight <= MaxWeight
    BY DEF Set
<1>3. CASE OpenInline(K, rep, weight)
    BY <1>1, <1>3, OpensInline
<1>4. CASE SumInline(K, rep, weight)
    BY <1>1, <1>2, <1>4, SumsInline
<1>5. CASE Promote(K, rep, weight)
    BY <1>1, <1>5, Promotes
<1>6. CASE SumInSlot(K, rep, weight)
    BY <1>1, <1>2, <1>6, SumsInSlot
<1>7. CASE ExtendInReserve(K, rep, weight)
    BY <1>1, <1>7, ExtendsInReserve
<1>8. CASE relocate(K, rep, weight)
    BY <1>1, <1>8, Relocates
<1> QED
    BY <1>3, <1>4, <1>5, <1>6, <1>7, <1>8 DEF Set, add

LEMMA InitInv == Init => IInv
<1> SUFFICES ASSUME Init
             PROVE  IInv
    OBVIOUS
<1>1. DOMAIN data = {} /\ Refs = {} /\ slab = << >> /\ Len(slab) = 0
    BY DEF Init, Refs
<1>2. DOMAIN free = Capacities /\ \A c \in Capacities : free[c] = << >>
    BY DEF Init
<1>3. TypeOK
    <2>1. \A c \in Capacities : free[c] \in Seq(0 .. Len(slab) - c)
        <3>1. \A S : << >> \in Seq(S)
            OBVIOUS
        <3> QED
            BY <1>2, <3>1
    <2>2. slab \in Seq(0 .. (Tag - 1))
        BY <1>1
    <2> QED
        BY <1>1, <1>2, <2>1, <2>2 DEF TypeOK
<1>4. Words /\ Distinct
    BY <1>1 DEF Words, Distinct
<1>5. 0 .. (Len(slab) - 1) = {}
    BY <1>1
<1>6. Tiled
    BY <1>5 DEF Tiled
<1>7. Addressed
    <2>1. PICK h : h \in [{} -> Mask \X (1 .. Places)]
        <3>1. [p \in {} |-> p] \in [{} -> Mask \X (1 .. Places)]
            OBVIOUS
        <3> QED
            BY <3>1
    <2>2. h \in Injection({}, Mask \X (1 .. Places))
        BY <2>1, Fun_IsInj
    <2> QED
        BY <1>5, <2>2 DEF Addressed
<1> QED
    BY <1>3, <1>4, <1>6, <1>7 DEF IInv

LEMMA Unchanged == ASSUME IInv, UNCHANGED vars PROVE IInv'
<1>1. data' = data /\ slab' = slab /\ free' = free
    BY DEF vars
<1>2. Refs' = Refs /\ \A K : Start(K)' = Start(K) /\ Count(K)' = Count(K) /\ Cap(K)' = Cap(K)
    BY <1>1 DEF Refs, Start, Count, Cap
<1>3. Tiled' /\ Addressed'
    BY <1>1, <1>2, SameLayout
<1>4. TypeOK' /\ Words'
    BY <1>1 DEF IInv, TypeOK, Words
<1>5. Distinct'
    BY <1>1, <1>2 DEF IInv, Distinct
<1> QED
    BY <1>3, <1>4, <1>5 DEF IInv

LEMMA Inductive == Spec => []IInv
<1>1. IInv /\ [Next]_vars => IInv'
    BY SetAdds, Unchanged DEF Next, Adds
<1> QED
    BY InitInv, <1>1, PTL DEF Spec

(* Whatever is contributed, every word of the map and the slab keeps its   *)
(* format and every basket keeps to blocks inside the slab                 *)
(* (cache.go:52-62, 243-256).                                              *)
THEOREM TypeCorrect == Spec => []TypeOK
<1>1. IInv => TypeOK
    BY DEF IInv
<1> QED
    BY Inductive, <1>1, PTL

(* The live and the vacated blocks tile the slab: allocBlock, relocate and *)
(* freeBlock neither share nor lose a block (cache.go:207-256).            *)
THEOREM SlabTiled == Spec => []BlocksTileSlab
<1>1. ASSUME IInv
      PROVE  BlocksTileSlab
    <2>1. ASSUME NEW p \in 0 .. (Len(slab) - 1)
          PROVE  Cardinality(LiveOwners(p)) + Cardinality(FreeOwners(p)) = 1
        <3>1. OneOwner(LiveOwners(p), FreeOwners(p))
            BY <1>1 DEF IInv, Tiled, OwnersIn, FreeOwners
        <3>2. Cardinality({}) = 0
            BY FS_EmptySet
        <3>3. \A x : Cardinality({x}) = 1
            BY FS_Singleton
        <3>4. \/ Cardinality(LiveOwners(p)) = 1 /\ Cardinality(FreeOwners(p)) = 0
              \/ Cardinality(LiveOwners(p)) = 0 /\ Cardinality(FreeOwners(p)) = 1
            <4>1. CASE \E K : LiveOwners(p) = {K} /\ FreeOwners(p) = {}
                BY <3>2, <3>3, <4>1
            <4>2. CASE \E b : LiveOwners(p) = {} /\ FreeOwners(p) = {b}
                BY <3>2, <3>3, <4>2
            <4> QED
                BY <3>1, <4>1, <4>2 DEF OneOwner
        <3> QED
            BY <3>4
    <2>2. \A K \in Refs : RefStart(data[K]) + capacityFor(RefCount(data[K])) <= Len(slab)
        BY <1>1 DEF IInv, Distinct, Start, Cap, Count
    <2> QED
        BY <2>1, <2>2 DEF BlocksTileSlab
<1> QED
    BY Inductive, <1>1, PTL

(* View.Get with Value.Weight and View.All read the same histograms, and   *)
(* View.Len counts them (cache.go:284-296, 440-453).                       *)
THEOREM ReadersAgreed == Spec => []ReadersAgree
<1>1. ASSUME IInv
      PROVE  ReadersAgree
    <2>1. ASSUME NEW K \in DOMAIN data, NEW rep \in Rep
          PROVE  WeightOf(K, rep)
                    = {yieldRecord(K)[i].w : i \in {j \in DOMAIN yieldRecord(K) : yieldRecord(K)[j].rep = rep}}
        <3>1. CASE K \in Refs
            <4>1. WeightOf(K, rep) = {unpack(slab[Start(K) + i]).w : i \in
                                         {j \in 1 .. Count(K) : unpack(slab[Start(K) + j]).rep = rep}}
                BY <1>1, <3>1, SlotsOf
            <4>2. yieldRecord(K) = [i \in 1 .. Count(K) |-> unpack(slab[Start(K) + i])]
                BY <1>1, <3>1, Records DEF RecordFacts
            <4>3. /\ DOMAIN yieldRecord(K) = 1 .. Count(K)
                  /\ \A i \in 1 .. Count(K) : yieldRecord(K)[i] = unpack(slab[Start(K) + i])
                BY <4>2
            <4> QED
                BY <4>1, <4>3
        <3>2. CASE K \notin Refs
            <4>1. /\ Word(K) = data[K] /\ data[K] # 0 /\ ~IsRef(data[K])
                  /\ yieldRecord(K) = << unpack(data[K]) >>
                BY <1>1, <3>2, Records DEF RecordFacts
            <4>2. WeightOf(K, rep) = IF unpack(data[K]).rep = rep THEN {unpack(data[K]).w} ELSE {}
                BY <4>1 DEF WeightOf
            <4>3. DOMAIN yieldRecord(K) = {1} /\ yieldRecord(K)[1] = unpack(data[K])
                BY <4>1
            <4> QED
                BY <4>2, <4>3
        <3> QED
            BY <3>1, <3>2
    <2>2. ASSUME NEW K \in Mask
          PROVE  K \in DOMAIN data <=> \E rep \in Rep : WeightOf(K, rep) # {}
        <3>1. CASE K \notin DOMAIN data
            BY <3>1 DEF Word, WeightOf
        <3>2. CASE K \in Refs
            <4>1. 1 \in 1 .. Count(K) /\ unpack(slab[Start(K) + 1]).rep \in Rep /\ K \in DOMAIN data
                <5>1. Count(K) \in 2 .. MaxClasses
                    BY <1>1, <3>2, References DEF RefFacts
                <5>2. 1 \in 1 .. Count(K)
                    BY <5>1, MaxClassesBounds
                <5>3. slab[Start(K) + 1] \in Pairs
                    BY <1>1, <3>2, <5>2 DEF IInv, Distinct
                <5> QED
                    BY <3>2, <5>2, <5>3, PairIs DEF Refs
            <4>2. unpack(slab[Start(K) + 1]).w \in WeightOf(K, unpack(slab[Start(K) + 1]).rep)
                BY <1>1, <3>2, <4>1, SlotsOf
            <4> QED
                BY <4>1, <4>2
        <3>3. CASE K \in DOMAIN data /\ K \notin Refs
            <4>1. Word(K) = data[K] /\ data[K] # 0 /\ ~IsRef(data[K]) /\ data[K] \in Pairs
                BY <1>1, <3>3, Records DEF RecordFacts
            <4>2. unpack(data[K]).rep \in Rep /\ unpack(data[K]).w \in WeightOf(K, unpack(data[K]).rep)
                BY <4>1, PairIs DEF WeightOf
            <4> QED
                BY <3>3, <4>2
        <3> QED
            BY <3>1, <3>2, <3>3
    <2>3. DOMAIN data = {K \in Mask : \E rep \in Rep : WeightOf(K, rep) # {}}
        <3>1. DOMAIN data \subseteq Mask
            BY <1>1 DEF IInv, TypeOK
        <3> QED
            BY <2>2, <3>1
    <2> QED
        BY <2>1, <2>3 DEF ReadersAgree, RecordCount
<1> QED
    BY Inductive, <1>1, PTL

(* No capacity ever has more blocks than masks have occupied at one time.  *)
LEMMA LiveIs ==
    ASSUME NEW c
    PROVE  LiveIn(c) = {K \in Refs : Cap(K) = c}
BY DEF LiveIn, Cap, Count

LiveFacts(c) == IsFiniteSet(LiveIn(c)) /\ LiveBlocks(c) \in Nat

AllLive == \A c \in Capacities : LiveFacts(c)

LEMMA LiveFinite == IInv => AllLive
<1> SUFFICES ASSUME IInv, NEW c \in Capacities
             PROVE  LiveFacts(c)
    BY DEF AllLive
<1>1. LiveIn(c) \subseteq Mask
    BY LiveIs, References DEF RefFacts
<1>2. IsFiniteSet(LiveIn(c))
    BY <1>1, ShardAssumption, FS_Subset
<1> QED
    BY <1>2, FS_CardinalityType DEF LiveFacts, LiveBlocks

LEMMA LiveFiniteNext == ASSUME IInv' PROVE AllLive'
<1>1. (IInv => AllLive)'
    BY LiveFinite, PTL
<1> QED
    BY <1>1

LEMMA BasketTyped ==
    ASSUME IInv, NEW c \in Capacities
    PROVE  /\ DOMAIN free = Capacities /\ free[c] \in Seq(0 .. (Len(slab) - c)) /\ Len(free[c]) \in Nat
<1>1. DOMAIN free = Capacities /\ free[c] \in Seq(0 .. (Len(slab) - c))
    BY DEF IInv, TypeOK
<1>2. Len(free[c]) \in Nat
    BY <1>1, Items
<1> QED
    BY <1>1, <1>2

(* A step that adds to the blocks of a capacity, occupied and vacated,     *)
(* leaves its basket empty: a fresh block is taken from an empty basket,   *)
(* and the block left behind has another capacity.                         *)
LEMMA BlocksNext ==
    ASSUME IInv, IInv', NEW K \in Mask, Layout(K), NEW c \in Capacities
    PROVE  \/ LiveBlocks(c)' + Len(free'[c]) = LiveBlocks(c) + Len(free[c])
           \/ free'[c] = << >>
<1>1. /\ LiveIn(c) = {L \in Refs : Cap(L) = c} /\ IsFiniteSet(LiveIn(c))
      /\ LiveIn(c)' = {L \in Refs' : Cap(L)' = c}
      /\ LiveBlocks(c) = Cardinality(LiveIn(c)) /\ LiveBlocks(c)' = Cardinality(LiveIn(c)')
      /\ LiveBlocks(c) \in Nat
    <2>1. LiveIn(c) = {L \in Refs : Cap(L) = c} /\ LiveFacts(c)
        BY LiveIs, LiveFinite DEF AllLive
    <2>2. LiveIn(c)' = {L \in Refs' : Cap(L)' = c}
        BY DEF LiveIn, Cap, Count
    <2> QED
        BY <2>1, <2>2 DEF LiveFacts, LiveBlocks
<1>2. /\ DOMAIN free = Capacities /\ free[c] \in Seq(0 .. (Len(slab) - c))
      /\ Len(free[c]) \in Nat
    BY BasketTyped
<1>3. CASE KeepsBlocks
    <2>1. LiveIn(c)' = LiveIn(c)
        BY <1>1, <1>3 DEF KeepsBlocks
    <2> QED
        BY <1>1, <1>3, <2>1 DEF KeepsBlocks
<1>4. ASSUME NEW d \in Capacities, TakesBlock(K, d)
      PROVE  \/ LiveBlocks(c)' + Len(free'[c]) = LiveBlocks(c) + Len(free[c])
             \/ free'[c] = << >>
    <2>1. /\ Refs' = Refs \cup {K} /\ Cap(K)' = d /\ \A L \in Refs \ {K} : Cap(L)' = Cap(L)
          /\ K \in Refs => Cap(K) # d
        BY <1>4 DEF TakesBlock
    <2>2. PICK rest : rest = allocBlock(d).free
        OBVIOUS
    <2>3. \/ K \notin Refs /\ free' = rest
          \/ K \in Refs /\ free' = AppendTo(rest, Cap(K), Start(K))
        BY <1>4, <2>2 DEF TakesBlock
    <2>4. /\ DOMAIN rest = Capacities /\ \A e \in Capacities \ {d} : rest[e] = free[e]
          /\ free[d] # << >> => rest[d] = Front(free[d])
          /\ free[d] = << >> => rest[d] = << >>
        BY <1>2, <2>2 DEF allocBlock, FreshBlock
    <2>5. CASE c = d
        <3>1. free'[c] = rest[c]
            <4>1. CASE K \in Refs
                <5>1. free' = [rest EXCEPT ![Cap(K)] = Append(@, Start(K))] /\ Cap(K) # c
                    BY <2>1, <2>3, <2>5, <4>1 DEF AppendTo
                <5> QED
                    BY <2>4, <5>1
            <4>2. CASE K \notin Refs
                BY <2>3, <4>2
            <4> QED
                BY <4>1, <4>2
        <3>2. CASE free[c] = << >>
            BY <2>4, <2>5, <3>1, <3>2
        <3>3. CASE free[c] # << >>
            <4>1. LiveIn(c)' = LiveIn(c) \cup {K} /\ K \notin LiveIn(c)
                BY <1>1, <2>1, <2>5
            <4>2. LiveBlocks(c)' = LiveBlocks(c) + 1
                BY <1>1, <4>1, FS_AddElement
            <4>3. free'[c] = Front(free[c])
                BY <2>4, <2>5, <3>1, <3>3
            <4>4. /\ Len(free[c]) >= 1 /\ Front(free[c]) \in Seq(0 .. (Len(slab) - c))
                  /\ DOMAIN Front(free[c]) = 1 .. (Len(free[c]) - 1)
                BY <1>2, <3>3, LastAndFront
            <4>5. PICK n \in Nat : n = Len(free[c]) - 1
                BY <1>2, <4>4
            <4>6. Len(free'[c]) = n
                <5>1. Len(Front(free[c])) \in Nat /\ 1 .. Len(Front(free[c])) = 1 .. n
                    BY <4>4, <4>5, Items
                <5>2. Cardinality(1 .. Len(Front(free[c]))) = Len(Front(free[c])) /\ Cardinality(1 .. n) = n
                    BY <5>1, Numbers
                <5> QED
                    BY <4>3, <5>1, <5>2
            <4> QED
                BY <1>1, <1>2, <4>2, <4>5, <4>6
        <3> QED
            BY <3>2, <3>3
    <2>6. CASE c # d /\ K \in Refs /\ Cap(K) = c
        <3>1. LiveIn(c)' = LiveIn(c) \ {K} /\ K \in LiveIn(c)
            BY <1>1, <2>1, <2>6
        <3>2. LiveBlocks(c)' = LiveBlocks(c) - 1
            BY <1>1, <3>1, FS_RemoveElement
        <3>3. free'[c] = Append(free[c], Start(K))
            <4>1. free' = [rest EXCEPT ![c] = Append(@, Start(K))]
                BY <2>3, <2>6 DEF AppendTo
            <4> QED
                BY <2>4, <2>6, <4>1
        <3>4. Len(free'[c]) = Len(free[c]) + 1
            BY <1>2, <3>3
        <3> QED
            BY <1>1, <1>2, <3>2, <3>4
    <2>7. CASE c # d /\ ~ (K \in Refs /\ Cap(K) = c)
        <3>1. LiveIn(c)' = LiveIn(c)
            BY <1>1, <2>1, <2>7
        <3>2. free'[c] = free[c]
            <4>1. CASE K \in Refs
                <5>1. free' = [rest EXCEPT ![Cap(K)] = Append(@, Start(K))] /\ Cap(K) # c
                    BY <2>3, <2>7, <4>1 DEF AppendTo
                <5> QED
                    BY <2>4, <2>7, <5>1
            <4>2. CASE K \notin Refs
                BY <2>3, <2>4, <2>7, <4>2
            <4> QED
                BY <4>1, <4>2
        <3> QED
            BY <1>1, <3>1, <3>2
    <2> QED
        BY <2>5, <2>6, <2>7
<1> QED
    BY <1>3, <1>4 DEF Layout

PeakInv == peak \in [Capacities -> Nat] /\ BlocksAtPeak

(* Whatever the order in which masks outgrow their blocks, the slab holds  *)
(* no more blocks of a capacity than masks have occupied at one time: the  *)
(* baskets are used up before it grows (cache.go:234-256).                 *)
THEOREM NeverAbovePeak == PeakSpec => []BlocksAtPeak
<1>1. PeakSpec => []IInv
    <2>1. PeakInit => Init
        BY DEF PeakInit
    <2>2. [PeakNext]_peakVars => [Next]_vars
        BY DEF PeakNext, peakVars, vars
    <2>3. PeakSpec => Spec
        BY <2>1, <2>2, PTL DEF PeakSpec, Spec
    <2> QED
        BY <2>3, Inductive, PTL
<1>2. PeakInit => PeakInv
    <2> SUFFICES ASSUME PeakInit
                 PROVE  PeakInv
        OBVIOUS
    <2>1. /\ peak \in [Capacities -> Nat] /\ Refs = {}
          /\ \A c \in Capacities : free[c] = << >> /\ peak[c] = 0
        BY DEF PeakInit, Init, Refs
    <2>2. \A c \in Capacities : LiveIn(c) = {} /\ Cardinality(LiveIn(c)) = 0
        BY <2>1, FS_EmptySet DEF LiveIn
    <2> QED
        BY <2>1, <2>2 DEF PeakInv, BlocksAtPeak, LiveBlocks
<1>3. ASSUME IInv, IInv', PeakInv, [PeakNext]_peakVars
      PROVE  PeakInv'
    <2>1. CASE UNCHANGED peakVars
        BY <1>3, <2>1 DEF peakVars, PeakInv, BlocksAtPeak, LiveBlocks, LiveIn, Refs
    <2>2. CASE PeakNext
        <3>1. PICK K \in Mask, rep \in Rep, weight \in Weight : Set(K, rep, weight)
            BY <2>2 DEF PeakNext, Next
        <3>2. Layout(K)
            BY <1>3, <3>1, SetAdds DEF Adds
        <3>3. peak' = [c \in Capacities |-> Higher(peak[c], LiveBlocks(c)')]
            BY <2>2 DEF PeakNext
        <3>4. ASSUME NEW c \in Capacities
              PROVE  peak'[c] \in Nat /\ LiveBlocks(c)' + Len(free'[c]) <= peak'[c]
            <4>1. /\ peak[c] \in Nat /\ LiveBlocks(c) + Len(free[c]) <= peak[c]
                  /\ LiveBlocks(c)' \in Nat
                BY <1>3, LiveFiniteNext DEF PeakInv, BlocksAtPeak, AllLive, LiveFacts
            <4>2. peak'[c] \in Nat /\ peak[c] <= peak'[c] /\ LiveBlocks(c)' <= peak'[c]
                BY <3>3, <4>1 DEF Higher
            <4>3. CASE LiveBlocks(c)' + Len(free'[c]) = LiveBlocks(c) + Len(free[c])
                <5>1. LiveBlocks(c) \in Nat /\ Len(free[c]) \in Nat
                    BY <1>3, LiveFinite, BasketTyped DEF AllLive, LiveFacts
                <5> QED
                    BY <4>1, <4>2, <4>3, <5>1
            <4>4. CASE free'[c] = << >>
                <5>1. Len(free'[c]) = 0
                    BY <4>4
                <5> QED
                    BY <4>1, <4>2, <5>1
            <4> QED
                BY <1>3, <3>2, <4>2, <4>3, <4>4, BlocksNext
        <3>5. peak' \in [Capacities -> Nat]
            BY <3>3, <3>4
        <3> QED
            BY <3>4, <3>5 DEF PeakInv, BlocksAtPeak
    <2> QED
        BY <1>3, <2>1, <2>2
<1>4. PeakInv => BlocksAtPeak
    BY DEF PeakInv
<1> QED
    BY <1>1, <1>2, <1>3, <1>4, PTL DEF PeakSpec

(* The shard is the histogram table: a Set adds the weight to its class of *)
(* its mask and to nothing else, whatever becomes of words and blocks.     *)
THEOREM ShardImplementsHistogram == Spec => ImplementsHistogram
<1> DEFINE hist == [K \in Mask |-> IF K \in DOMAIN data THEN yieldRecord(K) ELSE << >>]
<1>1. Init => H!Init
    BY DEF Init, H!Init
<1>2. ASSUME IInv, [Next]_vars
      PROVE  [H!Next]_hist
    <2>1. CASE UNCHANGED vars
        <3>1. data' = data /\ slab' = slab
            BY <2>1 DEF vars
        <3>2. \A K : (K \in DOMAIN data)' = (K \in DOMAIN data) /\ yieldRecord(K)' = yieldRecord(K)
            BY <3>1 DEF yieldRecord, Word
        <3> QED
            BY <3>1, <3>2
    <2>2. ASSUME NEW K \in Mask, NEW rep \in Rep, NEW weight \in Weight, Set(K, rep, weight)
          PROVE  H!Next
        <3>1. /\ Histo(K)' = H!Added(Histo(K), rep, weight)
              /\ \A L \in Mask \ {K} : Histo(L)' = Histo(L)
            BY <1>2, <2>2, SetAdds DEF Adds
        <3>2. weight \in Weight \ {0}
            BY <2>2 DEF Set, Ignored
        <3>3. hist = [L \in Mask |-> Histo(L)] /\ hist' = [L \in Mask |-> Histo(L)']
            BY DEF Histo
        <3>4. /\ hist[K] = Histo(K) /\ hist'[K] = Histo(K)'
              /\ hist' = [hist EXCEPT ![K] = hist'[K]]
            <4>1. PICK f : f = hist
                OBVIOUS
            <4>2. PICK g : g = hist'
                OBVIOUS
            <4>3. f[K] = Histo(K) /\ g[K] = Histo(K)' /\ DOMAIN f = Mask /\ f = [L \in Mask |-> f[L]]
                BY <3>3, <4>1, <4>2
            <4>4. g = [L \in Mask |-> g[L]] /\ \A L \in Mask \ {K} : g[L] = f[L]
                BY <3>1, <3>3, <4>1, <4>2
            <4>5. g = [f EXCEPT ![K] = g[K]]
                BY <4>3, <4>4
            <4> QED
                BY <4>1, <4>2, <4>3, <4>5
        <3>5. hist'[K] = H!Added(hist[K], rep, weight)
            BY <3>1, <3>4
        <3>6. H!Contribute(K)
            BY <3>2, <3>4, <3>5 DEF H!Contribute
        <3> QED
            BY <3>6 DEF H!Next
    <2> QED
        BY <1>2, <2>1, <2>2 DEF Next
<1> QED
    BY Inductive, <1>1, <1>2, PTL DEF Spec, ImplementsHistogram, H!Spec
=============================================================================
