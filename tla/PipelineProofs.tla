--------------------------- MODULE PipelineProofs ---------------------------
(***************************************************************************)
(* That the total of a run is the number of open tours, on every board and *)
(* for every split depth.                                                  *)
(*                                                                         *)
(* A value of placements is carried by a descent when the classes it       *)
(* writes have, by weight, the value of the placement it set out from. The *)
(* number of tours below a placement is such a value, and the number of    *)
(* ways to reach a given class is another one. So what is left to do and   *)
(* what is in the table keep their worth from phase to phase; the table is *)
(* complete, entry by entry; and a path over the rest of the board is,     *)
(* reversed, a path the table has counted.                                 *)
(*                                                                         *)
(* That the table holds whole orbits: the cuts, the write gate and the     *)
(* colour rule treat a placement and its images alike, so the descents     *)
(* come to every placement of a class equally often.                       *)
(***************************************************************************)
EXTENDS Pipeline, SuffixesProofs

(* What the checks of parseArgs give the pipeline behind them.             *)
(* The table of defaults (counter.go) and the bound on the depth (main.go) *)
(* are kept in two places: every default is a depth the command line       *)
(* accepts, so a run without -precompute-depth never ends in an error      *)
(* about it.                                                               *)
LEMMA DefaultsInRange ==
    \A size \in 5 .. 8 : DefaultPrecomputeDepth(size) \in 1 .. (size * size) \div 2
<1> SUFFICES ASSUME NEW size \in 5 .. 8
             PROVE  DefaultPrecomputeDepth(size) \in 1 .. (size * size) \div 2
    OBVIOUS
<1>1. size = 5 \/ size = 6 \/ size = 7 \/ size = 8
    OBVIOUS
<1>2. DefaultPrecomputeDepth(size) = <<6, 14, 22, 14>>[size - 4]
    BY DEF DefaultPrecomputeDepth, defaultPrecomputeDepths
<1>3. CASE size = 5
    <2>1. DefaultPrecomputeDepth(size) = 6  BY <1>2, <1>3
    <2>2. (size * size) \div 2 = 12  BY <1>3
    <2> QED  BY <2>1, <2>2
<1>4. CASE size = 6
    <2>1. DefaultPrecomputeDepth(size) = 14  BY <1>2, <1>4
    <2>2. (size * size) \div 2 = 18  BY <1>4
    <2> QED  BY <2>1, <2>2
<1>5. CASE size = 7
    <2>1. DefaultPrecomputeDepth(size) = 22  BY <1>2, <1>5
    <2>2. (size * size) \div 2 = 24  BY <1>5
    <2> QED  BY <2>1, <2>2
<1>6. CASE size = 8
    <2>1. DefaultPrecomputeDepth(size) = 14  BY <1>2, <1>6
    <2>2. (size * size) \div 2 = 32  BY <1>6
    <2> QED  BY <2>1, <2>2
<1> QED  BY <1>1, <1>3, <1>4, <1>5, <1>6

(* With no depth on the command line a run is refused only for its board,  *)
(* its workers or its GC percent (parseArgs, "default: per board size").   *)
THEOREM DefaultAccepted ==
    ASSUME NEW flags, Flags(flags), "precompute-depth" \notin DOMAIN flags,
           SizeOf(flags) \in 5 .. 8,
           Value(flags, "workers", NumCPU) >= 1,
           Value(flags, "gc-percent", DefaultGCPercentReversal) >= 0
    PROVE  Accepted(flags)
<1>1. Value(flags, "precompute-depth", DefaultPrecomputeDepth(SizeOf(flags)))
          = DefaultPrecomputeDepth(SizeOf(flags))
    BY DEF Value
<1> QED
    BY <1>1, DefaultsInRange DEF Accepted, appArgs

(* "meet-in-the-middle: deeper cuts are the reversed tour's dual"          *)
(* (main.go:46): the rest of the board of every accepted run is at least   *)
(* as large as the masks of its table, so counting stops early and reads   *)
(* the table instead of descending to the full board, and the split is a   *)
(* real one (the test of CountPathsWithCacheReversal, searcher.go:85-88).  *)
THEOREM AcceptedReadsTable ==
    ASSUME NEW flags, Flags(flags), Accepted(flags)
    PROVE  LET args == appArgs(flags)
           IN  /\ args.precomputeDepth >= 1
               /\ 2 * args.precomputeDepth <= args.size * args.size
               /\ args.precomputeDepth < args.size * args.size
<1> DEFINE args == appArgs(flags)
           cells == args.size * args.size
<1>1. args.size \in 5 .. 8 /\ args.precomputeDepth \in 1 .. cells \div 2
    BY DEF Accepted
<1>2. cells \in Nat /\ cells >= 1
    <2>1. args.size = 5 \/ args.size = 6 \/ args.size = 7 \/ args.size = 8
        BY <1>1
    <2> QED  BY <2>1
<1> HIDE DEF cells, args
<1>3. 2 * (cells \div 2) <= cells
    BY <1>2
<1>4. args.precomputeDepth >= 1 /\ 2 * args.precomputeDepth <= cells
    BY <1>1, <1>2, <1>3
<1>5. args.precomputeDepth < cells
    BY <1>1, <1>2, <1>4
<1> QED
    BY <1>4, <1>5 DEF args, cells

-----------------------------------------------------------------------------
(* Inductions, over a set instead of a formula.                            *)
LEMMA SetInduction ==
    ASSUME NEW S, IsFiniteSet(S), NEW P,
           {} \in P,
           \A s \in SUBSET S : \A x \in S \ s : s \in P => s \cup {x} \in P
    PROVE  S \in P
<1> DEFINE A == {s \in SUBSET S : s \notin P}
<1>1. ASSUME A # {} PROVE FALSE
  <2>1. \A s \in A : IsFiniteSet(s)
    BY FS_Subset
  <2>2. PICK s \in A : \A r \in A : Cardinality(s) <= Cardinality(r)
    <3> HIDE DEF A
    <3> QED BY <2>1, <1>1, Smallest
  <2>3. s \in SUBSET S /\ s \notin P /\ IsFiniteSet(s)
    BY <2>1
  <2>4. PICK x \in s : TRUE
    BY <2>3
  <2>5. Cardinality(s \ {x}) = Cardinality(s) - 1 /\ Cardinality(s) \in Nat
    BY <2>3, FS_RemoveElement, FS_CardinalityType
  <2>6. s \ {x} \in P
    BY <2>2, <2>3, <2>5
  <2>7. s = (s \ {x}) \cup {x} /\ x \in S \ (s \ {x}) /\ s \ {x} \in SUBSET S
    BY <2>3
  <2> QED
    BY <2>3, <2>6, <2>7
<1> QED
    BY <1>1

LEMMA RankInduction ==
    ASSUME NEW D, NEW r \in [D -> Nat], NEW P,
           \A x \in D : (\A y \in D : r[y] < r[x] => y \in P) => x \in P
    PROVE  \A x \in D : x \in P
<1> DEFINE T == {r[x] : x \in D \ P}
<1>1. ASSUME D \ P # {} PROVE FALSE
  <2>1. T \in SUBSET Nat /\ T # {}
    BY <1>1
  <2>2. PICK n \in T : \A m \in T : n <= m
    <3> HIDE DEF T
    <3> QED BY <2>1, Least
  <2>3. PICK x \in D \ P : n = r[x]
    BY <2>2
  <2>4. ASSUME NEW y \in D, r[y] < r[x] PROVE y \in P
    <3>1. ASSUME y \notin P PROVE FALSE
      <4>1. r[y] \in T
        BY <3>1
      <4>2. n <= r[y] /\ r[y] \in Nat /\ n \in Nat
        BY <4>1, <2>2, <2>1
      <4> QED
        BY <4>2, <2>3, <2>4
    <3> QED
        BY <3>1
  <2> QED
    BY <2>3, <2>4
<1> QED
    BY <1>1

LEMMA CountUp ==
    ASSUME NEW P, 0 \in P, \A n \in Nat : n \in P => n + 1 \in P
    PROVE  \A n \in Nat : n \in P
<1> DEFINE r == [n \in Nat |-> n]
<1>1. ASSUME NEW x \in Nat, \A y \in Nat : r[y] < r[x] => y \in P
      PROVE  x \in P
  <2>1. CASE x = 0
    BY <2>1
  <2>2. CASE x # 0
    <3>1. x - 1 \in Nat /\ x - 1 < x /\ x = (x - 1) + 1
        BY <2>2
    <3>2. x - 1 \in P
        BY <1>1, <3>1
    <3> QED
        BY <3>1, <3>2
  <2> QED
    BY <2>1, <2>2
<1>2. r \in [Nat -> Nat]
    OBVIOUS
<1> HIDE DEF r
<1> QED
    BY <1>1, <1>2, RankInduction

(* A function that calls itself only where a rank is lower exists.         *)
Recurses(D, V, r, N, G) ==
    /\ V # {} /\ N \in Nat
    /\ r \in [D -> Nat] /\ \A x \in D : r[x] <= N
    /\ G \in [D \X [D -> V] -> V]
    /\ \A x \in D : \A f, g \in [D -> V] :
            (\A y \in D : r[y] < r[x] => f[y] = g[y]) => G[<<x, f>>] = G[<<x, g>>]

LEMMA Recursion ==
    ASSUME NEW D, NEW V, NEW r, NEW N, NEW G, Recurses(D, V, r, N, G)
    PROVE  \E h \in [D -> V] : \A x \in D : h[x] = G[<<x, h>>]
<1>0. /\ V # {} /\ N \in Nat
      /\ r \in [D -> Nat] /\ \A x \in D : r[x] <= N
      /\ G \in [D \X [D -> V] -> V]
      /\ \A x \in D : \A f, g \in [D -> V] :
            (\A y \in D : r[y] < r[x] => f[y] = g[y]) => G[<<x, f>>] = G[<<x, g>>]
    BY DEF Recurses
<1> DEFINE Solved(n) == \E h \in [D -> V] : \A x \in D : r[x] < n => h[x] = G[<<x, h>>]
           P == {n \in Nat : Solved(n)}
<1>1. 0 \in P
  <2>1. PICK v \in V : TRUE
    BY <1>0
  <2>2. [x \in D |-> v] \in [D -> V] /\ \A x \in D : ~ (r[x] < 0)
    BY <1>0
  <2>3. Solved(0)
    BY <2>2
  <2> QED
    BY <2>3
<1>2. ASSUME NEW n \in Nat, n \in P PROVE n + 1 \in P
  <2>1. PICK h \in [D -> V] : \A x \in D : r[x] < n => h[x] = G[<<x, h>>]
    BY <1>2
  <2> DEFINE k == [x \in D |-> IF r[x] = n THEN G[<<x, h>>] ELSE h[x]]
  <2>2. k \in [D -> V]
    BY <1>0
  <2>3. ASSUME NEW x \in D, r[x] < n + 1 PROVE k[x] = G[<<x, k>>]
    <3>1. \A y \in D : r[y] < r[x] => h[y] = k[y]
        BY <1>0, <2>3
    <3>2. G[<<x, h>>] = G[<<x, k>>]
      <4> HIDE DEF k
      <4> QED BY <1>0, <3>1, <2>2
    <3>3. CASE r[x] = n
        BY <3>2, <3>3
    <3>4. CASE r[x] # n
      <4>1. r[x] < n
        BY <1>0, <3>4, <2>3
      <4> QED
        BY <4>1, <3>4, <3>2, <2>1
    <3> QED
        BY <3>3, <3>4
  <2>4. Solved(n + 1)
    <3> HIDE DEF k
    <3> QED BY <2>2, <2>3
  <2> QED
    BY <2>4
<1>3. N + 1 \in P
  <2> HIDE DEF P
  <2> QED BY <1>0, <1>1, <1>2, CountUp
<1>4. PICK h \in [D -> V] : \A x \in D : r[x] < N + 1 => h[x] = G[<<x, h>>]
    BY <1>3
<1>5. \A x \in D : r[x] < N + 1
    BY <1>0
<1> QED
    BY <1>4, <1>5

-----------------------------------------------------------------------------
(* Sums. SumFunctionOnSet(f, S) is the number of pairs of a member of S    *)
(* and a number up to its value.                                           *)
Blocks(S, f) == {q \in S \X Nat : q[2] \in 1 .. f[q[1]]}

LEMMA BlocksOne ==
    ASSUME NEW x, NEW n \in Nat
    PROVE  IsFiniteSet({x} \X (1 .. n)) /\ Cardinality({x} \X (1 .. n)) = n
<1>1. IsFiniteSet(1 .. n) /\ Cardinality(1 .. n) = IF 1 > n THEN 0 ELSE n - 1 + 1
    BY FS_Interval
<1>2. IsFiniteSet({x}) /\ Cardinality({x}) = 1
    BY FS_Singleton
<1>3. Cardinality(1 .. n) = n
    BY <1>1
<1>4. IsFiniteSet({x} \X (1 .. n)) /\ Cardinality({x} \X (1 .. n)) = Cardinality({x}) * Cardinality(1 .. n)
    BY <1>1, <1>2, FS_Product
<1> QED
    BY <1>2, <1>3, <1>4

LEMMA BlocksFinite ==
    ASSUME NEW S, IsFiniteSet(S), NEW f, \A x \in S : f[x] \in Nat
    PROVE  IsFiniteSet(Blocks(S, f)) /\ Cardinality(Blocks(S, f)) \in Nat
<1> DEFINE F == {{x} \X (1 .. f[x]) : x \in S}
           m == [x \in S |-> {x} \X (1 .. f[x])]
<1>1. IsFiniteSet(F)
  <2>1. m \in [S -> F] /\ \A T \in F : \E x \in S : m[x] = T
    OBVIOUS
  <2> HIDE DEF m, F
  <2>2. m \in Surjection(S, F)
    BY <2>1, Fun_IsSurj
  <2> QED
    BY <2>2, FS_Surjection
<1>2. ASSUME NEW T \in F PROVE IsFiniteSet(T)
  <2>1. PICK x \in S : T = {x} \X (1 .. f[x])
    OBVIOUS
  <2> QED
    BY <2>1, BlocksOne
<1>3. IsFiniteSet(UNION F)
  <2> HIDE DEF F
  <2> QED BY <1>1, <1>2, FS_UNION
<1>4. Blocks(S, f) \subseteq UNION F
  <2>1. ASSUME NEW q \in Blocks(S, f) PROVE q \in UNION F
    <3>1. q[1] \in S /\ q[2] \in 1 .. f[q[1]] /\ q = <<q[1], q[2]>>
        BY DEF Blocks
    <3>2. q \in {q[1]} \X (1 .. f[q[1]])
        BY <3>1
    <3> QED
        BY <3>1, <3>2
  <2> QED
    BY <2>1
<1> QED
    BY <1>3, <1>4, FS_Subset, FS_CardinalityType

LEMMA BlocksSplit ==
    ASSUME NEW S, IsFiniteSet(S), NEW f, \A x \in S : f[x] \in Nat, NEW x \in S
    PROVE  Cardinality(Blocks(S, f)) = f[x] + Cardinality(Blocks(S \ {x}, f))
<1> DEFINE R == S \ {x}
           B == {x} \X (1 .. f[x])
<1>1. IsFiniteSet(R) /\ R \subseteq S
    BY FS_Subset
<1>2. IsFiniteSet(Blocks(R, f)) /\ Cardinality(Blocks(R, f)) \in Nat
    BY <1>1, BlocksFinite
<1>3. IsFiniteSet(B) /\ Cardinality(B) = f[x]
    BY BlocksOne
<1>4. Blocks(S, f) = B \cup Blocks(R, f)
  <2>1. Blocks(S, f) \subseteq B \cup Blocks(R, f)
    BY DEF Blocks
  <2>2. B \subseteq Blocks(S, f)
    BY DEF Blocks
  <2>3. Blocks(R, f) \subseteq Blocks(S, f)
    BY DEF Blocks
  <2> QED
    BY <2>1, <2>2, <2>3
<1>5. B \cap Blocks(R, f) = {}
    BY DEF Blocks
<1> HIDE DEF R, B
<1>6. Cardinality(B \cup Blocks(R, f)) = Cardinality(B) + Cardinality(Blocks(R, f)) - Cardinality({})
    BY <1>2, <1>3, <1>5, FS_Union
<1> QED
    BY <1>2, <1>3, <1>4, <1>6, FS_EmptySet DEF R

Picked(s) == CHOOSE x \in s : TRUE

LEMMA SumCounts ==
    ASSUME NEW S, IsFiniteSet(S), NEW f, \A x \in S : f[x] \in Nat
    PROVE  SumFunctionOnSet(f, S) = Cardinality(Blocks(S, f))
<1> DEFINE Adds(g) == g = [s \in SUBSET S |-> IF s = {} THEN 0 ELSE f[Picked(s)] + g[s \ {Picked(s)}]]
           g == CHOOSE h : Adds(h)
           h == [s \in SUBSET S |-> Cardinality(Blocks(s, f))]
<1>0. \A s \in SUBSET S : IsFiniteSet(s) /\ (\A x \in s : f[x] \in Nat)
    BY FS_Subset
<1>1. ASSUME NEW s \in SUBSET S, s # {}
      PROVE  /\ Picked(s) \in s /\ s \ {Picked(s)} \in SUBSET S
             /\ Cardinality(Blocks(s, f)) = f[Picked(s)] + Cardinality(Blocks(s \ {Picked(s)}, f))
  <2>1. Picked(s) \in s
    BY <1>1 DEF Picked
  <2> QED
    BY <2>1, <1>0, BlocksSplit
<1>2. Cardinality(Blocks({}, f)) = 0
  <2>1. Blocks({}, f) = {}
    BY DEF Blocks
  <2> QED
    BY <2>1, FS_EmptySet
<1>3. Adds(h)
  <2>1. ASSUME NEW s \in SUBSET S
        PROVE  (IF s = {} THEN 0 ELSE f[Picked(s)] + h[s \ {Picked(s)}]) = Cardinality(Blocks(s, f))
    <3>1. CASE s = {}
        BY <3>1, <1>2
    <3>2. CASE s # {}
        BY <3>2, <1>1
    <3> QED
        BY <3>1, <3>2
  <2>2. [s \in SUBSET S |-> IF s = {} THEN 0 ELSE f[Picked(s)] + h[s \ {Picked(s)}]]
            = [s \in SUBSET S |-> Cardinality(Blocks(s, f))]
    <3> HIDE DEF h
    <3> QED BY <2>1
  <2> QED
    BY <2>2
<1>4. Adds(g)
  <2> HIDE DEF Adds, h
  <2> QED BY <1>3
<1>5. \A s \in SUBSET S : g[s] = IF s = {} THEN 0 ELSE f[Picked(s)] + g[s \ {Picked(s)}]
  <2>1. g = [s \in SUBSET S |-> IF s = {} THEN 0 ELSE f[Picked(s)] + g[s \ {Picked(s)}]]
    BY <1>4
  <2> HIDE DEF g
  <2> QED BY <2>1
<1>6. SumFunctionOnSet(f, S) = g[S]
    BY DEF SumFunctionOnSet, FoldFunctionOnSet, MapThenFoldSet, Picked
<1> HIDE DEF g
<1> DEFINE B == {s \in SUBSET S : g[s] # Cardinality(Blocks(s, f))}
<1>7. B = {}
  <2> SUFFICES ASSUME B # {} PROVE FALSE
    OBVIOUS
  <2>1. \A s \in B : IsFiniteSet(s)
    BY <1>0
  <2>2. PICK s \in B : \A r \in B : Cardinality(s) <= Cardinality(r)
    <3> HIDE DEF B
    <3> QED BY <2>1, Smallest
  <2>3. s \in SUBSET S /\ g[s] # Cardinality(Blocks(s, f)) /\ IsFiniteSet(s)
    BY <2>1, <2>2
  <2>4. s # {}
    BY <2>3, <1>2, <1>5
  <2> DEFINE r == s \ {Picked(s)}
  <2>5. Picked(s) \in s /\ r \in SUBSET S /\ Cardinality(Blocks(s, f)) = f[Picked(s)] + Cardinality(Blocks(r, f))
    BY <1>1, <2>3, <2>4
  <2>6. g[s] = f[Picked(s)] + g[r]
    BY <1>5, <2>3, <2>4
  <2>7. r \in B
    BY <2>3, <2>5, <2>6
  <2>8. Cardinality(r) < Cardinality(s) /\ Cardinality(r) \in Nat /\ Cardinality(s) \in Nat
    BY <2>3, <2>5, FS_Subset, FS_CardinalityType
  <2> QED
    BY <2>2, <2>7, <2>8
<1> QED
    BY <1>6, <1>7

-----------------------------------------------------------------------------
SumOf(f, S) == SumFunctionOnSet(f, S)
Counts(f, S) == IsFiniteSet(S) /\ \A x \in S : f[x] \in Nat

LEMMA SumUnfolds == ASSUME NEW S, NEW f, DOMAIN f = S PROVE SumFunction(f) = SumOf(f, S)
BY DEF SumFunction, SumOf

LEMMA SumNat ==
    ASSUME NEW S, NEW f, Counts(f, S)
    PROVE  SumOf(f, S) \in Nat
BY SumCounts, BlocksFinite DEF SumOf, Counts

LEMMA SumEmpty == \A f : SumOf(f, {}) = 0
<1> SUFFICES ASSUME NEW f PROVE SumOf(f, {}) = 0
    OBVIOUS
<1>1. Blocks({}, f) = {}
    BY DEF Blocks
<1> QED
    BY <1>1, SumCounts, FS_EmptySet DEF SumOf

LEMMA SumSplit ==
    ASSUME NEW S, NEW f, Counts(f, S), NEW x \in S
    PROVE  /\ Counts(f, S \ {x})
           /\ SumOf(f, S) = f[x] + SumOf(f, S \ {x})
<1>1. IsFiniteSet(S) /\ (\A y \in S : f[y] \in Nat) /\ IsFiniteSet(S \ {x}) /\ S \ {x} \subseteq S
    BY FS_Subset DEF Counts
<1>2. SumFunctionOnSet(f, S) = Cardinality(Blocks(S, f))
    BY <1>1, SumCounts
<1>3. SumFunctionOnSet(f, S \ {x}) = Cardinality(Blocks(S \ {x}, f))
    BY <1>1, SumCounts
<1> QED
    BY <1>1, <1>2, <1>3, BlocksSplit DEF Counts, SumOf

LEMMA SumInsert ==
    ASSUME NEW S, NEW f, Counts(f, S), NEW x, x \notin S, f[x] \in Nat
    PROVE  /\ Counts(f, S \cup {x})
           /\ SumOf(f, S \cup {x}) = f[x] + SumOf(f, S)
<1>1. Counts(f, S \cup {x}) /\ (S \cup {x}) \ {x} = S
    BY FS_AddElement DEF Counts
<1> QED
    BY <1>1, SumSplit

LEMMA CountsPart ==
    ASSUME NEW S, NEW f, Counts(f, S), NEW T \in SUBSET S
    PROVE  Counts(f, T) /\ IsFiniteSet(T)
BY FS_Subset DEF Counts

(* The sum of pointwise sums; scaling; comparing.                          *)
LEMMA SumPlus ==
    ASSUME NEW S, NEW f, Counts(f, S), NEW g, Counts(g, S),
           NEW h, \A x \in S : h[x] = f[x] + g[x]
    PROVE  Counts(h, S) /\ SumOf(h, S) = SumOf(f, S) + SumOf(g, S)
<1>0. Counts(h, S)
    BY DEF Counts
<1> DEFINE P == {s \in SUBSET S : SumOf(h, s) = SumOf(f, s) + SumOf(g, s)}
<1>1. {} \in P
    BY SumEmpty
<1>2. ASSUME NEW s \in SUBSET S, NEW x \in S \ s, s \in P PROVE s \cup {x} \in P
  <2>1. Counts(f, s) /\ Counts(g, s) /\ Counts(h, s)
    BY <1>0, CountsPart
  <2>2. f[x] \in Nat /\ g[x] \in Nat /\ h[x] \in Nat /\ h[x] = f[x] + g[x]
    BY <1>0 DEF Counts
  <2>3. /\ SumOf(f, s \cup {x}) = f[x] + SumOf(f, s)
        /\ SumOf(g, s \cup {x}) = g[x] + SumOf(g, s)
        /\ SumOf(h, s \cup {x}) = h[x] + SumOf(h, s)
    BY <2>1, <2>2, SumInsert
  <2>4. SumOf(f, s) \in Nat /\ SumOf(g, s) \in Nat
    BY <2>1, SumNat
  <2> QED
    BY <1>2, <2>2, <2>3, <2>4
<1>3. IsFiniteSet(S)
    BY DEF Counts
<1>4. S \in P
  <2> HIDE DEF P
  <2> QED BY <1>1, <1>2, <1>3, SetInduction
<1> QED
    BY <1>0, <1>4

LEMMA Distributes == \A w, a, b \in Nat : w * (a + b) = w * a + w * b /\ w * a \in Nat
OBVIOUS

LEMMA SumScale ==
    ASSUME NEW S, NEW f, Counts(f, S), NEW w \in Nat,
           NEW h, \A x \in S : h[x] = w * f[x]
    PROVE  Counts(h, S) /\ SumOf(h, S) = w * SumOf(f, S)
<1>0. Counts(h, S)
    BY Distributes DEF Counts
<1> DEFINE P == {s \in SUBSET S : SumOf(h, s) = w * SumOf(f, s)}
<1>1. {} \in P
    BY SumEmpty
<1>2. ASSUME NEW s \in SUBSET S, NEW x \in S \ s, s \in P PROVE s \cup {x} \in P
  <2>1. Counts(f, s) /\ Counts(h, s)
    BY <1>0, CountsPart
  <2>2. f[x] \in Nat /\ h[x] \in Nat /\ h[x] = w * f[x]
    BY <1>0 DEF Counts
  <2>3. /\ SumOf(f, s \cup {x}) = f[x] + SumOf(f, s)
        /\ SumOf(h, s \cup {x}) = h[x] + SumOf(h, s)
    BY <2>1, <2>2, SumInsert
  <2>4. SumOf(f, s) \in Nat
    BY <2>1, SumNat
  <2>5. w * (f[x] + SumOf(f, s)) = w * f[x] + w * SumOf(f, s)
    BY <2>2, <2>4, Distributes
  <2> QED
    BY <1>2, <2>2, <2>3, <2>5
<1>3. IsFiniteSet(S)
    BY DEF Counts
<1>4. S \in P
  <2> HIDE DEF P
  <2> QED BY <1>1, <1>2, <1>3, SetInduction
<1> QED
    BY <1>0, <1>4

LEMMA SumLeq ==
    ASSUME NEW S, NEW f, Counts(f, S), NEW g, Counts(g, S), \A x \in S : f[x] <= g[x]
    PROVE  SumOf(f, S) <= SumOf(g, S)
<1> DEFINE d == [x \in S |-> g[x] - f[x]]
<1>1. Counts(d, S) /\ \A x \in S : g[x] = d[x] + f[x]
    BY DEF Counts
<1> HIDE DEF d
<1>2. SumOf(g, S) = SumOf(d, S) + SumOf(f, S)
    BY <1>1, SumPlus
<1>3. SumOf(d, S) \in Nat /\ SumOf(f, S) \in Nat
    BY <1>1, SumNat
<1> QED
    BY <1>2, <1>3

LEMMA SumSame ==
    ASSUME NEW S, NEW f, Counts(f, S), NEW g, \A x \in S : g[x] = f[x]
    PROVE  Counts(g, S) /\ SumOf(g, S) = SumOf(f, S)
<1>1. Counts(g, S)
    BY DEF Counts
<1>2. SumOf(f, S) <= SumOf(g, S) /\ SumOf(g, S) <= SumOf(f, S)
  <2>1. \A x \in S : f[x] <= g[x] /\ g[x] <= f[x]
    BY DEF Counts
  <2> QED
    BY <1>1, <2>1, SumLeq
<1>3. SumOf(f, S) \in Nat /\ SumOf(g, S) \in Nat
    BY <1>1, SumNat
<1> QED
    BY <1>1, <1>2, <1>3

LEMMA SumZero ==
    ASSUME NEW S, NEW f, IsFiniteSet(S), \A x \in S : f[x] = 0
    PROVE  Counts(f, S) /\ SumOf(f, S) = 0
<1>1. Counts(f, S) /\ \A x \in S : f[x] = 0 * f[x]
    BY DEF Counts
<1>2. SumOf(f, S) \in Nat /\ SumOf(f, S) = 0 * SumOf(f, S)
    BY <1>1, SumScale, SumNat
<1> QED
    BY <1>1, <1>2

LEMMA SumOne ==
    ASSUME NEW x, NEW f, f[x] \in Nat
    PROVE  Counts(f, {x}) /\ SumOf(f, {x}) = f[x]
<1>1. Counts(f, {}) /\ {} \cup {x} = {x} /\ x \notin {}
    BY FS_EmptySet DEF Counts
<1>2. Counts(f, {} \cup {x}) /\ SumOf(f, {} \cup {x}) = f[x] + SumOf(f, {})
    BY <1>1, SumInsert
<1> QED
    BY <1>1, <1>2, SumEmpty

LEMMA SumPositive ==
    ASSUME NEW S, NEW f, Counts(f, S)
    PROVE  /\ \A x \in S : f[x] <= SumOf(f, S)
           /\ SumOf(f, S) > 0 => \E x \in S : f[x] > 0
<1>1. ASSUME NEW x \in S PROVE f[x] <= SumOf(f, S)
  <2>1. SumOf(f, S) = f[x] + SumOf(f, S \ {x}) /\ SumOf(f, S \ {x}) \in Nat /\ f[x] \in Nat
    BY SumSplit, SumNat DEF Counts
  <2> QED
    BY <2>1
<1>2. ASSUME \A x \in S : ~ (f[x] > 0) PROVE ~ (SumOf(f, S) > 0)
  <2>1. \A x \in S : f[x] = 0
    BY <1>2 DEF Counts
  <2>2. SumOf(f, S) = 0
    BY <2>1, SumZero DEF Counts
  <2> QED
    BY <2>2
<1> QED
    BY <1>1, <1>2

(* A part of the domain outside of which the function is 0.                *)
LEMMA SumPart ==
    ASSUME NEW S, NEW f, Counts(f, S), NEW T \in SUBSET S, \A x \in S \ T : f[x] = 0
    PROVE  Counts(f, T) /\ SumOf(f, T) = SumOf(f, S)
<1> DEFINE P == {s \in SUBSET (S \ T) : SumOf(f, T \cup s) = SumOf(f, T)}
<1>0. \A s \in SUBSET S : Counts(f, s) /\ IsFiniteSet(s)
    BY CountsPart
<1>1. {} \in P
  <2>1. ASSUME NEW s, s = {} PROVE s \in P
    <3>1. T \cup s = T /\ s \in SUBSET (S \ T)
        BY <2>1
    <3> HIDE <2>1
    <3> QED
        BY <3>1
  <2> QED
    BY <2>1
<1>2. ASSUME NEW s \in SUBSET (S \ T), NEW x \in (S \ T) \ s, s \in P PROVE s \cup {x} \in P
  <2>1. Counts(f, T \cup s) /\ x \notin T \cup s /\ f[x] = 0 /\ T \cup (s \cup {x}) = (T \cup s) \cup {x}
    BY <1>0
  <2>2. SumOf(f, (T \cup s) \cup {x}) = f[x] + SumOf(f, T \cup s)
    <3> DEFINE U == T \cup s
    <3>1. Counts(f, U) /\ x \notin U /\ f[x] \in Nat
        BY <2>1
    <3> HIDE DEF U
    <3>2. SumOf(f, U \cup {x}) = f[x] + SumOf(f, U)
        BY <3>1, SumInsert
    <3> QED
        BY <3>2 DEF U
  <2>3. SumOf(f, T \cup s) \in Nat
    BY <2>1, SumNat
  <2> QED
    BY <1>2, <2>1, <2>2, <2>3
<1>3. S \ T \in P
  <2> HIDE DEF P
  <2>1. IsFiniteSet(S \ T)
    BY <1>0
  <2> QED BY <1>1, <1>2, <2>1, SetInduction
<1>4. T \cup (S \ T) = S
    OBVIOUS
<1> QED
    BY <1>0, <1>3, <1>4

(* A constant.                                                             *)
LEMMA SumConstant ==
    ASSUME NEW S, IsFiniteSet(S), NEW f, NEW k \in Nat, \A x \in S : f[x] = k
    PROVE  Counts(f, S) /\ SumOf(f, S) = Cardinality(S) * k
<1>0. Counts(f, S)
    BY DEF Counts
<1> DEFINE P == {s \in SUBSET S : SumOf(f, s) = Cardinality(s) * k}
<1>1. {} \in P
    BY SumEmpty, FS_EmptySet
<1>2. ASSUME NEW s \in SUBSET S, NEW x \in S \ s, s \in P PROVE s \cup {x} \in P
  <2>1. Counts(f, s) /\ IsFiniteSet(s) /\ Cardinality(s) \in Nat
    BY <1>0, CountsPart, FS_CardinalityType
  <2>2. Cardinality(s \cup {x}) = Cardinality(s) + 1
    BY <2>1, FS_AddElement
  <2>3. SumOf(f, s \cup {x}) = k + SumOf(f, s)
    BY <2>1, SumInsert
  <2>4. (Cardinality(s) + 1) * k = Cardinality(s) * k + k
    BY <2>1
  <2>5. Cardinality(s) * k \in Nat
    BY <2>1, Distributes
  <2>6. SumOf(f, s \cup {x}) = Cardinality(s \cup {x}) * k
    BY <1>2, <2>2, <2>3, <2>4, <2>5
  <2> QED
    BY <2>6
<1>3. S \in P
  <2> HIDE DEF P
  <2> QED BY <1>1, <1>2, SetInduction
<1> QED
    BY <1>0, <1>3

-----------------------------------------------------------------------------
LEMMA SumJoin ==
    ASSUME NEW S, NEW T, S \cap T = {}, NEW f, Counts(f, S), Counts(f, T)
    PROVE  Counts(f, S \cup T) /\ SumOf(f, S \cup T) = SumOf(f, S) + SumOf(f, T)
<1> DEFINE U == S \cup T
           a == [x \in U |-> IF x \in S THEN f[x] ELSE 0]
           b == [x \in U |-> IF x \in T THEN f[x] ELSE 0]
<1>1. IsFiniteSet(U)
    BY FS_Union DEF Counts
<1>2. Counts(a, U) /\ Counts(b, U) /\ (\A x \in U : f[x] = a[x] + b[x])
    BY <1>1 DEF Counts
<1>3. /\ \A x \in U \ S : a[x] = 0
      /\ \A x \in U \ T : b[x] = 0
      /\ \A x \in S : a[x] = f[x]
      /\ \A x \in T : b[x] = f[x]
      /\ S \in SUBSET U /\ T \in SUBSET U
    OBVIOUS
<1> HIDE DEF U, a, b
<1>4. Counts(f, U) /\ SumOf(f, U) = SumOf(a, U) + SumOf(b, U)
    BY <1>2, SumPlus
<1>5. SumOf(a, U) = SumOf(a, S) /\ SumOf(b, U) = SumOf(b, T)
    BY <1>2, <1>3, SumPart
<1>6. SumOf(a, S) = SumOf(f, S) /\ SumOf(b, T) = SumOf(f, T)
    BY <1>3, SumSame
<1> QED
    BY <1>4, <1>5, <1>6 DEF U

(* Summing over the fibres of a map first.                                 *)
Fibre(m, S, t) == {x \in S : m[x] = t}

LEMMA SumFibres ==
    ASSUME NEW S, NEW f, Counts(f, S), NEW T, IsFiniteSet(T), NEW m, \A x \in S : m[x] \in T,
           NEW g, \A t \in T : g[t] = SumOf(f, Fibre(m, S, t))
    PROVE  Counts(g, T) /\ SumOf(f, S) = SumOf(g, T)
<1> DEFINE Over(s) == {x \in S : m[x] \in s}
           P == {s \in SUBSET T : SumOf(f, Over(s)) = SumOf(g, s)}
<1>0. Counts(g, T)
  <2>1. ASSUME NEW t \in T PROVE g[t] \in Nat
    <3>1. Fibre(m, S, t) \in SUBSET S
        BY DEF Fibre
    <3>2. Counts(f, Fibre(m, S, t)) /\ g[t] = SumOf(f, Fibre(m, S, t))
        BY <3>1, CountsPart
    <3> QED
        BY <3>2, SumNat
  <2> QED
    BY <2>1 DEF Counts
<1>1. {} \in P
  <2>1. Over({}) = {}
    OBVIOUS
  <2> QED
    BY <2>1, SumEmpty
<1>2. ASSUME NEW s \in SUBSET T, NEW t \in T \ s, s \in P PROVE s \cup {t} \in P
  <2>1. /\ Over(s \cup {t}) = Over(s) \cup Fibre(m, S, t) /\ Over(s) \cap Fibre(m, S, t) = {}
        /\ Over(s) \in SUBSET S /\ Fibre(m, S, t) \in SUBSET S
    BY <1>2 DEF Fibre
  <2>2. SumOf(f, Over(s)) = SumOf(g, s) /\ g[t] = SumOf(f, Fibre(m, S, t)) /\ g[t] \in Nat
    BY <1>2, <1>0 DEF Counts
  <2> HIDE DEF Over
  <2>3. Counts(f, Over(s)) /\ Counts(f, Fibre(m, S, t)) /\ Counts(g, s)
    BY <1>0, <2>1, CountsPart
  <2>4. SumOf(f, Over(s) \cup Fibre(m, S, t)) = SumOf(f, Over(s)) + SumOf(f, Fibre(m, S, t))
    BY <2>1, <2>3, SumJoin
  <2>5. SumOf(g, s \cup {t}) = g[t] + SumOf(g, s)
    BY <1>2, <2>2, <2>3, SumInsert
  <2>6. SumOf(g, s) \in Nat
    BY <2>3, SumNat
  <2>7. SumOf(f, Over(s \cup {t})) = SumOf(g, s \cup {t})
    <3>1. Over(s \cup {t}) = Over(s) \cup Fibre(m, S, t)
        BY <2>1
    <3>2. SumOf(f, Over(s \cup {t})) = SumOf(f, Over(s)) + SumOf(f, Fibre(m, S, t))
        BY <2>4, <3>1, Zenon
    <3> QED
        BY <3>2, <2>2, <2>5, <2>6
  <2> QED
    BY <2>7 DEF Over
<1>3. T \in P
  <2> HIDE DEF P
  <2> QED BY <1>1, <1>2, SetInduction
<1>4. Over(T) = S
    OBVIOUS
<1> QED
    BY <1>0, <1>3, <1>4

LEMMA SumReindex ==
    ASSUME NEW S, NEW f, Counts(f, S), NEW T, IsFiniteSet(T), NEW m, \A x \in S : m[x] \in T,
           \A x, y \in S : m[x] = m[y] => x = y,
           \A t \in T : \E x \in S : m[x] = t,
           NEW g, \A x \in S : g[m[x]] = f[x]
    PROVE  Counts(g, T) /\ SumOf(f, S) = SumOf(g, T)
<1>1. ASSUME NEW t \in T PROVE g[t] = SumOf(f, Fibre(m, S, t))
  <2>1. PICK x \in S : m[x] = t
    OBVIOUS
  <2>2. Fibre(m, S, t) = {x} /\ f[x] \in Nat /\ g[t] = f[x]
    BY <2>1 DEF Counts, Fibre
  <2> QED
    BY <2>2, SumOne
<1> QED
    BY <1>1, SumFibres

(* Double sums: for each x of S, over the members of Y[x].                 *)
Pairs(S, Y) == {q \in S \X UNION {Y[x] : x \in S} : q[2] \in Y[q[1]]}

LEMMA FinitePairs ==
    ASSUME NEW S, IsFiniteSet(S), NEW Y, \A x \in S : IsFiniteSet(Y[x])
    PROVE  /\ IsFiniteSet(Pairs(S, Y))
           /\ \A x \in S : \A y \in Y[x] : <<x, y>> \in Pairs(S, Y)
           /\ \A q \in Pairs(S, Y) : q[1] \in S /\ q[2] \in Y[q[1]] /\ q = <<q[1], q[2]>>
<1> DEFINE F == {Y[x] : x \in S}
           e == [x \in S |-> Y[x]]
<1>1. IsFiniteSet(F)
  <2>1. e \in [S -> F] /\ \A T \in F : \E x \in S : e[x] = T
    OBVIOUS
  <2> HIDE DEF e, F
  <2>2. e \in Surjection(S, F)
    BY <2>1, Fun_IsSurj
  <2> QED
    BY <2>2, FS_Surjection
<1>2. \A T \in F : IsFiniteSet(T)
    OBVIOUS
<1>3. IsFiniteSet(UNION F)
  <2> HIDE DEF F
  <2> QED BY <1>1, <1>2, FS_UNION
<1>4. IsFiniteSet(S \X UNION F)
  <2> HIDE DEF F
  <2> QED BY <1>3, FS_Product
<1>5. IsFiniteSet(Pairs(S, Y))
  <2>1. Pairs(S, Y) \subseteq S \X UNION F
    BY DEF Pairs
  <2> HIDE DEF F
  <2> QED BY <1>4, <2>1, FS_Subset
<1> QED
    BY <1>5 DEF Pairs

LEMMA SumPairs ==
    ASSUME NEW S, IsFiniteSet(S), NEW Y, \A x \in S : IsFiniteSet(Y[x]),
           NEW b, \A x \in S : \A y \in Y[x] : b[x][y] \in Nat,
           NEW f, \A x \in S : \A y \in Y[x] : f[<<x, y>>] = b[x][y],
           NEW a, \A x \in S : a[x] = SumOf(b[x], Y[x])
    PROVE  Counts(f, Pairs(S, Y)) /\ Counts(a, S) /\ SumOf(a, S) = SumOf(f, Pairs(S, Y))
<1> DEFINE R == Pairs(S, Y)
           m == [q \in R |-> q[1]]
<1>1. Counts(f, R)
  <2>1. ASSUME NEW q \in R PROVE f[q] \in Nat
    BY FinitePairs
  <2> QED
    BY <2>1, FinitePairs DEF Counts
<1>2. ASSUME NEW x \in S PROVE a[x] = SumOf(f, Fibre(m, R, x))
  <2> DEFINE Fx == Fibre(m, R, x)
             i == [y \in Y[x] |-> <<x, y>>]
  <2>1. Fx = {<<x, y>> : y \in Y[x]} /\ Fx \in SUBSET R
    BY FinitePairs DEF Fibre
  <2>2. IsFiniteSet(Fx)
    BY <1>1, <2>1, CountsPart
  <2>3. Counts(b[x], Y[x])
    BY DEF Counts
  <2>4. /\ \A y \in Y[x] : i[y] \in Fx
        /\ \A y, w \in Y[x] : i[y] = i[w] => y = w
        /\ \A t \in Fx : \E y \in Y[x] : i[y] = t
        /\ \A y \in Y[x] : f[i[y]] = b[x][y]
    BY <2>1
  <2> HIDE DEF i, Fx
  <2>5. SumOf(b[x], Y[x]) = SumOf(f, Fx)
    BY <2>2, <2>3, <2>4, SumReindex
  <2> QED
    BY <2>5 DEF Fx
<1>3. \A q \in R : m[q] \in S
    BY FinitePairs
<1>4. Counts(a, S) /\ SumOf(f, R) = SumOf(a, S)
  <2> HIDE DEF R, m
  <2> QED BY <1>1, <1>2, <1>3, SumFibres
<1> QED
    BY <1>1, <1>4

-----------------------------------------------------------------------------
(* Placements, and the number of paths that lead to one.                   *)
Partial == {z \in Placement : z[2] \in z[1]}
Level(z) == Cardinality(z[1])
Before(z) == z[1] \ {z[2]}
Back(z) == Neighbors[z[2]] \cap Before(z)

LEMMA Cells == /\ IsFiniteSet(Cell) /\ Cardinality(Cell) = totalCells
               /\ totalCells \in Nat /\ totalCells >= 1 /\ Cell # {}
<1>1. totalCells \in Nat /\ totalCells >= 1
  <2>1. Size \in 1 .. 8
    BY BoardAssumption
  <2> QED
    BY <2>1 DEF totalCells
<1>2. Cardinality(0 .. (totalCells - 1)) = IF 0 > totalCells - 1 THEN 0 ELSE (totalCells - 1) - 0 + 1
    BY <1>1, FS_Interval
<1>3. Cell # {}
    BY <1>1 DEF Cell
<1> QED
    BY <1>1, <1>2, <1>3, Boards DEF Cell

LEMMA Finite == IsFiniteSet(State) /\ IsFiniteSet(Placement) /\ IsFiniteSet(Partial)
<1>1. IsFiniteSet(State)
    BY Cells, FS_SUBSET DEF State
<1>2. IsFiniteSet(Placement)
    BY <1>1, Cells, FS_Product DEF Placement
<1>3. Partial \subseteq Placement
    BY DEF Partial
<1> QED
    BY <1>1, <1>2, <1>3, FS_Subset

LEMMA Spots ==
    ASSUME NEW z \in Placement
    PROVE  /\ z = <<z[1], z[2]>> /\ z[1] \in SUBSET Cell /\ z[2] \in Cell /\ z[1] \in State
           /\ IsFiniteSet(z[1]) /\ IsFiniteSet(Before(z)) /\ IsFiniteSet(Rest(z))
           /\ IsFiniteSet(Onward(z)) /\ IsFiniteSet(Back(z))
           /\ Onward(z) \in SUBSET Rest(z) /\ Rest(z) \in State /\ Rest(z) = Cell \ z[1]
           /\ Back(z) \in SUBSET Before(z) /\ Before(z) \in State
           /\ Onward(z) \in SUBSET Cell /\ Back(z) \in SUBSET Cell
<1>1. z = <<z[1], z[2]>> /\ z[1] \in SUBSET Cell /\ z[2] \in Cell
    BY DEF Placement, State
<1>2. /\ Onward(z) \in SUBSET Rest(z) /\ Rest(z) \in SUBSET Cell
      /\ Back(z) \in SUBSET Before(z) /\ Before(z) \in SUBSET Cell
      /\ Rest(z) = Cell \ z[1]
    BY <1>1 DEF Onward, Rest, Back, Before, Invert
<1>3. \A S \in SUBSET Cell : IsFiniteSet(S)
    BY Cells, FS_Subset
<1>4. Onward(z) \in SUBSET Cell /\ Back(z) \in SUBSET Cell
    BY <1>2
<1> QED
    BY <1>1, <1>2, <1>3, <1>4 DEF State

LEMMA Removed ==
    ASSUME NEW S, IsFiniteSet(S), NEW x \in S
    PROVE  Cardinality(S \ {x}) = Cardinality(S) - 1 /\ Cardinality(S) \in Nat /\ Cardinality(S) >= 1
<1>1. Cardinality(S \ {x}) = Cardinality(S) - 1 /\ IsFiniteSet(S \ {x})
    BY FS_RemoveElement
<1> QED
    BY <1>1, FS_CardinalityType

LEMMA Levels ==
    ASSUME NEW z \in Placement
    PROVE  /\ Level(z) \in 0 .. totalCells
           /\ Cardinality(Rest(z)) = totalCells - Level(z)
           /\ Cardinality(Rest(z)) \in Nat
           /\ Level(z) = totalCells => z[1] = Cell
           /\ z[1] = Cell <=> Rest(z) = {}
           /\ Cardinality(Before(z)) \in Nat
           /\ z \in Partial => Cardinality(Before(z)) = Level(z) - 1 /\ Level(z) >= 1
<1>1. IsFiniteSet(z[1]) /\ z[1] \in SUBSET Cell /\ Rest(z) = Cell \ z[1] /\ IsFiniteSet(Rest(z)) /\ IsFiniteSet(Before(z))
    BY Spots
<1>2. Level(z) \in Nat /\ Level(z) <= totalCells
    BY <1>1, Cells, FS_Subset, FS_CardinalityType DEF Level
<1>3. Cardinality(Cell \ z[1]) = Cardinality(Cell) - Cardinality(Cell \cap z[1])
    BY <1>1, Cells, FS_Difference
<1>4. Cell \cap z[1] = z[1]
    BY <1>1
<1>5. Cardinality(Rest(z)) = totalCells - Level(z)
    BY <1>1, <1>3, <1>4, Cells DEF Level
<1>6. Level(z) = totalCells => z[1] = Cell
  <2>1. ASSUME Level(z) = totalCells PROVE z[1] = Cell
    <3>1. Cardinality(Rest(z)) = 0
        BY <1>5, <2>1, Cells
    <3>2. Rest(z) = {}
        BY <1>1, <3>1, FS_EmptySet
    <3> QED
        BY <1>1, <3>2
  <2> QED
    BY <2>1
<1>7. z[1] = Cell <=> Rest(z) = {}
    BY <1>1
<1>8. ASSUME z \in Partial PROVE Cardinality(Before(z)) = Level(z) - 1 /\ Level(z) >= 1
  <2>1. z[2] \in z[1]
    BY <1>8 DEF Partial
  <2> QED
    BY <1>1, <2>1, Removed, Zenon DEF Before, Level
<1>9. Cardinality(Rest(z)) \in Nat /\ Cardinality(Before(z)) \in Nat
    BY <1>1, FS_CardinalityType
<1>10. Level(z) \in 0 .. totalCells
    BY <1>2, Cells
<1> QED
    BY <1>5, <1>6, <1>7, <1>8, <1>9, <1>10

(* A step from a placement, and the step it came by.                       *)
LEMMA Visits ==
    ASSUME NEW z \in Placement, NEW n \in Onward(z)
    PROVE  /\ Visit(z, n) \in Partial /\ Visit(z, n) \in Placement
           /\ Visit(z, n)[1] = z[1] \cup {n} /\ Visit(z, n)[2] = n
           /\ Level(Visit(z, n)) = Level(z) + 1
           /\ Rest(Visit(z, n)) = Rest(z) \ {n}
           /\ n \in Cell \ z[1] /\ n \in Rest(z) /\ n \in Neighbors[z[2]]
           /\ Cardinality(Rest(Visit(z, n))) < Cardinality(Rest(z))
           /\ Before(Visit(z, n)) = z[1]
           /\ z \in Partial => z[2] \in Back(Visit(z, n))
<1>1. z[1] \in SUBSET Cell /\ z[2] \in Cell /\ n \in Cell \ z[1] /\ n \in Rest(z) /\ n \in Neighbors[z[2]]
    BY Spots DEF Onward
<1>2. Visit(z, n)[1] = z[1] \cup {n} /\ Visit(z, n)[2] = n /\ Visit(z, n) = <<z[1] \cup {n}, n>>
    BY DEF Visit
<1>3. Visit(z, n) \in Placement /\ Visit(z, n) \in Partial
    BY <1>1, <1>2 DEF Partial, Placement, State
<1>4. Level(Visit(z, n)) = Level(z) + 1
  <2>1. Cardinality(z[1] \cup {n}) = Cardinality(z[1]) + 1
    BY <1>1, Spots, FS_AddElement
  <2> QED
    BY <1>2, <2>1 DEF Level
<1>5. Rest(Visit(z, n)) = Rest(z) \ {n}
    BY <1>2 DEF Rest, Invert
<1>6. Cardinality(Rest(Visit(z, n))) < Cardinality(Rest(z))
  <2>1. /\ Cardinality(Rest(Visit(z, n))) = totalCells - Level(Visit(z, n))
        /\ Cardinality(Rest(z)) = totalCells - Level(z)
        /\ totalCells \in Nat /\ Level(z) \in Nat
    BY <1>3, Levels, Cells
  <2> QED
    BY <1>4, <2>1
<1>7. Before(Visit(z, n)) = z[1]
    BY <1>1, <1>2 DEF Before
<1>8. z \in Partial => z[2] \in Back(Visit(z, n))
    BY <1>1, <1>2, <1>7, Symmetric DEF Partial, Back
<1> QED
    BY <1>1, <1>2, <1>3, <1>4, <1>5, <1>6, <1>7, <1>8

LEMMA Unvisits ==
    ASSUME NEW z \in Partial, NEW c \in Back(z)
    PROVE  /\ <<Before(z), c>> \in Partial
           /\ z[2] \in Onward(<<Before(z), c>>) /\ Visit(<<Before(z), c>>, z[2]) = z
           /\ Level(<<Before(z), c>>) = Level(z) - 1
<1>1. z \in Placement /\ z[2] \in z[1]
    BY DEF Partial
<1>2. c \in Before(z) /\ c \in Neighbors[z[2]] /\ Before(z) \in State /\ c \in Cell /\ z[2] \in Cell
    BY <1>1, Spots DEF Back
<1>3. <<Before(z), c>> \in Partial
    BY <1>2 DEF Partial, Placement
<1>4. z[2] \in Onward(<<Before(z), c>>)
  <2>1. z[2] \in Neighbors[c]
    BY <1>2, Symmetric
  <2>2. z[2] \notin Before(z)
    BY DEF Before
  <2> QED
    BY <1>2, <2>1, <2>2 DEF Onward, Rest, Invert
<1>5. z = <<z[1], z[2]>> /\ Before(z) \cup {z[2]} = z[1]
  <2>1. z = <<z[1], z[2]>>
    BY <1>1, Spots, Zenon
  <2> QED
    BY <1>1, <2>1 DEF Before
<1>6. Visit(<<Before(z), c>>, z[2]) = z
    BY <1>5 DEF Visit
<1>7. Level(<<Before(z), c>>) = Level(z) - 1
  <2>1. Cardinality(Before(z)) = Level(z) - 1
    BY <1>1, Levels
  <2> QED
    BY <2>1 DEF Level
<1> QED
    BY <1>3, <1>4, <1>6, <1>7

-----------------------------------------------------------------------------
PathsBy(g, z) ==
    IF z[1] = {z[2]} THEN 1 ELSE SumOf([c \in Back(z) |-> g[<<Before(z), c>>]], Back(z))

LEMMA PathsSum ==
    ASSUME NEW g, NEW z \in Placement
    PROVE  (IF z[1] = {z[2]} THEN 1
            ELSE SumFunction([c \in Neighbors[z[2]] \cap (z[1] \ {z[2]}) |-> g[<<z[1] \ {z[2]}, c>>]]))
               = PathsBy(g, z)
BY SumUnfolds DEF PathsBy, Back, Before

LEMMA PathsByLower ==
    ASSUME NEW z \in Placement, NEW g, NEW h,
           \A c \in Back(z) : g[<<Before(z), c>>] = h[<<Before(z), c>>] /\ h[<<Before(z), c>>] \in Nat
    PROVE  PathsBy(g, z) = PathsBy(h, z) /\ PathsBy(h, z) \in Nat
<1> DEFINE a == [c \in Back(z) |-> g[<<Before(z), c>>]]
           b == [c \in Back(z) |-> h[<<Before(z), c>>]]
<1>1. Counts(b, Back(z)) /\ \A c \in Back(z) : a[c] = b[c]
    BY Spots DEF Counts
<1> HIDE DEF a, b
<1>2. SumOf(a, Back(z)) = SumOf(b, Back(z)) /\ SumOf(b, Back(z)) \in Nat
    BY <1>1, SumSame, SumNat
<1> QED
    BY <1>2 DEF a, b, PathsBy

LEMMA BackLower ==
    ASSUME NEW z \in Placement, NEW c \in Back(z)
    PROVE  /\ <<Before(z), c>> \in Placement
           /\ Cardinality(Before(<<Before(z), c>>)) < Cardinality(Before(z))
<1>1. c \in Before(z) /\ Before(z) \in State /\ IsFiniteSet(Before(z)) /\ c \in Cell
    BY Spots
<1>2. Before(<<Before(z), c>>) = Before(z) \ {c}
    BY DEF Before
<1>3. Cardinality(Before(z) \ {c}) = Cardinality(Before(z)) - 1 /\ Cardinality(Before(z)) \in Nat
    BY <1>1, Removed
<1> QED
    BY <1>1, <1>2, <1>3 DEF Placement

LEMMA PathsFunction ==
    \E h \in [Placement -> Nat] :
        /\ \A z \in Placement : h[z] = PathsBy(h, z)
        /\ \A z \in Placement : Paths(z) = h[z]
<1> DEFINE r == [z \in Placement |-> Cardinality(Before(z))]
           G == [q \in Placement \X [Placement -> Nat] |-> PathsBy(q[2], q[1])]
<1>1. r \in [Placement -> Nat] /\ (\A z \in Placement : r[z] <= totalCells) /\ totalCells \in Nat
  <2>1. ASSUME NEW z \in Placement PROVE Cardinality(Before(z)) \in Nat /\ Cardinality(Before(z)) <= totalCells
    <3>1. Before(z) \in SUBSET Cell /\ IsFiniteSet(Cell) /\ Cardinality(Cell) = totalCells
        BY Spots, Cells DEF State
    <3>2. Cardinality(Before(z)) <= Cardinality(Cell)
        BY <3>1, FS_Subset
    <3> QED
        BY <3>1, <3>2, Levels
  <2> QED
    BY <2>1, Cells
<1>2. ASSUME NEW z \in Placement, NEW g \in [Placement -> Nat] PROVE PathsBy(g, z) \in Nat
  <2>1. \A c \in Back(z) : g[<<Before(z), c>>] = g[<<Before(z), c>>] /\ g[<<Before(z), c>>] \in Nat
    BY BackLower
  <2> QED
    BY <2>1, PathsByLower
<1>3. G \in [Placement \X [Placement -> Nat] -> Nat] /\ \A z \in Placement : \A g \in [Placement -> Nat] : G[<<z, g>>] = PathsBy(g, z)
  <2>1. \A z \in Placement : \A g \in [Placement -> Nat] : <<z, g>> \in Placement \X [Placement -> Nat] /\ <<z, g>>[1] = z /\ <<z, g>>[2] = g
    OBVIOUS
  <2>2. \A q \in Placement \X [Placement -> Nat] : PathsBy(q[2], q[1]) \in Nat
    BY <1>2
  <2> QED
    BY <2>1, <2>2
<1>4. ASSUME NEW z \in Placement, NEW f \in [Placement -> Nat], NEW g \in [Placement -> Nat],
             \A y \in Placement : r[y] < r[z] => f[y] = g[y]
      PROVE  G[<<z, f>>] = G[<<z, g>>]
  <2>1. \A c \in Back(z) : f[<<Before(z), c>>] = g[<<Before(z), c>>] /\ g[<<Before(z), c>>] \in Nat
    BY <1>4, BackLower
  <2>2. PathsBy(f, z) = PathsBy(g, z)
    BY <2>1, PathsByLower
  <2> QED
    BY <1>3, <2>2
<1>5. PICK h \in [Placement -> Nat] : \A z \in Placement : h[z] = G[<<z, h>>]
  <2>1. G \in [Placement \X [Placement -> Nat] -> Nat]
    BY <1>3
  <2>2. Nat # {} /\ totalCells \in Nat
    BY Cells
  <2>3. \A z \in Placement : \A f, g \in [Placement -> Nat] :
            (\A y \in Placement : r[y] < r[z] => f[y] = g[y]) => G[<<z, f>>] = G[<<z, g>>]
    BY <1>4
  <2>4. r \in [Placement -> Nat] /\ \A z \in Placement : r[z] <= totalCells
    BY <1>1
  <2> HIDE DEF r, G
  <2>5. Recurses(Placement, Nat, r, totalCells, G)
    BY <2>1, <2>2, <2>3, <2>4 DEF Recurses
  <2> QED
    BY <2>5, Recursion
<1>6. \A z \in Placement : h[z] = PathsBy(h, z)
    BY <1>3, <1>5
<1> HIDE DEF r, G
<1> DEFINE Solves(g) == g = [p \in Placement |->
                IF p[1] = {p[2]} THEN 1
                ELSE SumFunction([c \in Neighbors[p[2]] \cap (p[1] \ {p[2]}) |-> g[<<p[1] \ {p[2]}, c>>]])]
           k == CHOOSE g : Solves(g)
<1>7. Solves(h)
  <2> DEFINE rhs == [p \in Placement |->
                IF p[1] = {p[2]} THEN 1
                ELSE SumFunction([c \in Neighbors[p[2]] \cap (p[1] \ {p[2]}) |-> h[<<p[1] \ {p[2]}, c>>]])]
  <2>1. ASSUME NEW z \in Placement PROVE rhs[z] = h[z]
    <3>1. rhs[z] = PathsBy(h, z)
        BY PathsSum
    <3> QED
        BY <1>6, <3>1
  <2>2. h = rhs
    <3> HIDE DEF rhs
    <3>1. DOMAIN rhs = Placement /\ rhs = [z \in Placement |-> rhs[z]]
        BY DEF rhs
    <3> QED
        BY <2>1, <3>1
  <2> QED
    BY <2>2
<1>8. Solves(k)
  <2> HIDE DEF Solves
  <2> QED BY <1>7
<1>9. \A z \in Placement : k[z] = PathsBy(k, z)
  <2>1. ASSUME NEW z \in Placement PROVE k[z] = PathsBy(k, z)
    <3>1. k[z] = IF z[1] = {z[2]} THEN 1
                ELSE SumFunction([c \in Neighbors[z[2]] \cap (z[1] \ {z[2]}) |-> k[<<z[1] \ {z[2]}, c>>]])
      <4>1. k = [p \in Placement |->
                IF p[1] = {p[2]} THEN 1
                ELSE SumFunction([c \in Neighbors[p[2]] \cap (p[1] \ {p[2]}) |-> k[<<p[1] \ {p[2]}, c>>]])]
        BY <1>8
      <4> HIDE DEF k
      <4> QED BY <4>1
    <3> HIDE DEF k
    <3> QED
        BY <3>1, PathsSum
  <2> QED
    BY <2>1
<1>10. \A z \in Placement : Paths(z) = k[z]
    BY DEF Paths
<1> HIDE DEF k, Solves
<1> DEFINE P == {z \in Placement : k[z] = h[z]}
<1>11. ASSUME NEW z \in Placement, \A y \in Placement : r[y] < r[z] => y \in P PROVE z \in P
  <2>1. \A c \in Back(z) : k[<<Before(z), c>>] = h[<<Before(z), c>>] /\ h[<<Before(z), c>>] \in Nat
    BY <1>11, BackLower DEF r
  <2> QED
    BY <2>1, <1>6, <1>9, PathsByLower
<1>12. \A z \in Placement : z \in P
  <2> HIDE DEF P
  <2> QED BY <1>1, <1>11, RankInduction
<1> QED
    BY <1>6, <1>10, <1>12

(* Paths is the sum over the placements a path may have come from.         *)
LEMMA PathsUnfold ==
    ASSUME NEW z \in Placement
    PROVE  /\ Paths(z) \in Nat
           /\ z[1] = {z[2]} => Paths(z) = 1
           /\ z[1] # {z[2]} => /\ Counts([c \in Back(z) |-> Paths(<<Before(z), c>>)], Back(z))
                               /\ Paths(z) = SumOf([c \in Back(z) |-> Paths(<<Before(z), c>>)], Back(z))
<1>1. PICK h \in [Placement -> Nat] :
            /\ \A y \in Placement : h[y] = PathsBy(h, y)
            /\ \A y \in Placement : Paths(y) = h[y]
    BY PathsFunction
<1> DEFINE a == [c \in Back(z) |-> h[<<Before(z), c>>]]
           b == [c \in Back(z) |-> Paths(<<Before(z), c>>)]
<1>2. Counts(a, Back(z)) /\ \A c \in Back(z) : b[c] = a[c]
    BY <1>1, BackLower, Spots DEF Counts
<1>3. Counts(b, Back(z)) /\ SumOf(b, Back(z)) = SumOf(a, Back(z))
  <2> HIDE DEF a, b
  <2> QED BY <1>2, SumSame
<1>4. Paths(z) \in Nat /\ Paths(z) = PathsBy(h, z)
    BY <1>1
<1> QED
    BY <1>3, <1>4 DEF PathsBy

-----------------------------------------------------------------------------
(* The number of ways to complete a placement.                             *)
Ext(z) ==
    IF Rest(z) = {} THEN 1 ELSE SumOf([u \in Onward(z) |-> Paths(<<Rest(z), u>>)], Onward(z))

LEMMA ExtNat ==
    ASSUME NEW z \in Placement
    PROVE  /\ Ext(z) \in Nat
           /\ \A u \in Onward(z) : <<Rest(z), u>> \in Partial /\ <<Rest(z), u>> \in Placement
           /\ Counts([u \in Onward(z) |-> Paths(<<Rest(z), u>>)], Onward(z))
<1> DEFINE a == [u \in Onward(z) |-> Paths(<<Rest(z), u>>)]
<1>1. \A u \in Onward(z) : <<Rest(z), u>> \in Placement /\ <<Rest(z), u>> \in Partial
  <2>1. \A u \in Onward(z) : u \in Rest(z) /\ u \in Cell /\ Rest(z) \in State
    BY Spots
  <2> QED
    BY <2>1 DEF Placement, Partial
<1>2. Counts(a, Onward(z))
  <2>1. \A u \in Onward(z) : a[u] \in Nat
    BY <1>1, PathsUnfold
  <2> QED
    BY <2>1, Spots DEF Counts
<1>3. SumOf(a, Onward(z)) \in Nat
  <2> HIDE DEF a
  <2> QED BY <1>2, SumNat
<1> QED
    BY <1>1, <1>2, <1>3 DEF Ext

(* A completion, taken from its other end, is a path over the rest.        *)
LEMMA ExtVisit ==
    ASSUME NEW z \in Placement, NEW n \in Onward(z)
    PROVE  Ext(Visit(z, n)) = Paths(<<Rest(z), n>>)
<1> DEFINE y == <<Rest(z), n>>
           x == Visit(z, n)
<1>1. y \in Placement /\ x \in Placement /\ y[1] = Rest(z) /\ y[2] = n /\ n \in Rest(z)
    BY ExtNat, Visits
<1>2. Before(y) = Rest(x)
    BY Visits DEF Before
<1>3. Back(y) = Onward(x)
    BY <1>2, Visits DEF Back, Onward
<1>4. y[1] = {y[2]} <=> Rest(x) = {}
    BY <1>1, <1>2 DEF Before
<1> HIDE DEF x, y
<1>5. CASE Rest(x) = {}
  <2>1. Paths(y) = 1
    BY <1>1, <1>4, <1>5, PathsUnfold
  <2> QED
    BY <2>1, <1>5 DEF Ext, x, y
<1>6. CASE Rest(x) # {}
  <2>1. Paths(y) = SumOf([c \in Back(y) |-> Paths(<<Before(y), c>>)], Back(y))
    BY <1>1, <1>4, <1>6, PathsUnfold
  <2>2. Paths(y) = SumOf([c \in Onward(x) |-> Paths(<<Rest(x), c>>)], Onward(x))
    BY <2>1, <1>2, <1>3
  <2>3. Paths(y) = Ext(x)
    BY <2>2, <1>6 DEF Ext
  <2> QED
    BY <2>3 DEF x, y
<1> QED
    BY <1>5, <1>6

LEMMA ExtSum ==
    ASSUME NEW z \in Placement, Rest(z) # {}
    PROVE  /\ Counts([n \in Onward(z) |-> Ext(Visit(z, n))], Onward(z))
           /\ Ext(z) = SumOf([n \in Onward(z) |-> Ext(Visit(z, n))], Onward(z))
<1> DEFINE a == [u \in Onward(z) |-> Paths(<<Rest(z), u>>)]
           b == [n \in Onward(z) |-> Ext(Visit(z, n))]
<1>1. Counts(a, Onward(z))
    BY ExtNat
<1>2. \A n \in Onward(z) : b[n] = a[n]
    BY ExtVisit
<1>3. Counts(b, Onward(z)) /\ SumOf(b, Onward(z)) = SumOf(a, Onward(z))
  <2> HIDE DEF a, b
  <2> QED BY <1>1, <1>2, SumSame
<1> QED
    BY <1>3 DEF Ext

LEMMA PathsGrow ==
    ASSUME NEW z \in Partial, Paths(z) > 0, NEW n \in Onward(z)
    PROVE  Visit(z, n) \in Partial /\ Paths(Visit(z, n)) > 0
<1> DEFINE x == Visit(z, n)
           a == [c \in Back(x) |-> Paths(<<Before(x), c>>)]
<1>1. z \in Placement /\ z[2] \in z[1]
    BY DEF Partial
<1>2. x \in Placement /\ x \in Partial /\ x[1] = z[1] \cup {n} /\ x[2] = n /\ Before(x) = z[1] /\ z[2] \in Back(x)
    BY <1>1, Visits
<1>3. x[1] # {x[2]}
    BY <1>1, <1>2, Visits
<1>4. a[z[2]] = Paths(z)
  <2>1. <<z[1], z[2]>> = z
    BY <1>1, Spots
  <2> QED
    BY <1>2, <2>1
<1>5. Counts(a, Back(x)) /\ Paths(x) = SumOf(a, Back(x)) /\ Paths(x) \in Nat /\ Paths(z) \in Nat
    BY <1>1, <1>2, <1>3, PathsUnfold
<1> HIDE DEF a, x
<1>6. a[z[2]] <= SumOf(a, Back(x))
    BY <1>2, <1>5, SumPositive
<1> QED
    BY <1>2, <1>4, <1>5, <1>6 DEF x

(* What can be completed is not cut, on the way or at the end.             *)
LEMMA Completable ==
    ASSUME NEW z \in Partial, Ext(z) > 0
    PROVE  /\ Placed(z[2], Rest(z))
           /\ \E P, end : Threads(z[2], Rest(z), P, end)
           /\ Rest(z) # {} => \E first, end : Trail(z[2], Rest(z), first, end)
<1> DEFINE Threadable(x) == \E P, end : Threads(x[2], Rest(x), P, end)
           Trailable(x) == \E first, end : Trail(x[2], Rest(x), first, end)
           Q == {x \in Partial : Ext(x) > 0 => Threadable(x) /\ (Rest(x) # {} => Trailable(x))}
           r == [x \in Partial |-> Cardinality(Rest(x))]
<1>1. \A x \in Partial : x \in Placement /\ Placed(x[2], Rest(x))
  <2>1. ASSUME NEW x \in Partial PROVE x \in Placement /\ Placed(x[2], Rest(x))
    <3>1. x \in Placement /\ x[2] \in x[1]
        BY DEF Partial
    <3>2. Rest(x) = Cell \ x[1] /\ x[2] \in Cell /\ Rest(x) \in State
        BY <3>1, Spots
    <3> QED
        BY <3>1, <3>2 DEF Placed, State
  <2> QED
    BY <2>1
<1>2. r \in [Partial -> Nat]
    BY <1>1, Levels
<1>3. ASSUME NEW x \in Partial, \A y \in Partial : r[y] < r[x] => y \in Q PROVE x \in Q
  <2> SUFFICES ASSUME Ext(x) > 0 PROVE Threadable(x) /\ (Rest(x) # {} => Trailable(x))
    OBVIOUS
  <2>1. CASE Rest(x) = {}
    <3>1. Threads(x[2], {}, {}, x[2])
        BY ThreadStarts
    <3> QED
        BY <2>1, <3>1
  <2>2. CASE Rest(x) # {}
    <3> DEFINE a == [n \in Onward(x) |-> Ext(Visit(x, n))]
    <3>1. Counts(a, Onward(x)) /\ SumOf(a, Onward(x)) > 0
        BY <1>1, <2>2, ExtSum
    <3>2. PICK n \in Onward(x) : a[n] > 0
      <4> HIDE DEF a
      <4> QED BY <3>1, SumPositive
    <3>3. PICK v : v = Visit(x, n)
        OBVIOUS
    <3>4. Ext(v) > 0 /\ v \in Partial /\ v[2] = n /\ r[v] < r[x] /\ Rest(v) \cup {n} = Rest(x)
          /\ n \in Neighbors[x[2]] /\ x[2] \notin Rest(x) /\ x[2] \in Cell /\ n \in Cell
      <4>1. x \in Placement /\ Placed(x[2], Rest(x))
        BY <1>1
      <4>2. Ext(v) > 0
        BY <3>2, <3>3
      <4>3. v \in Partial /\ v[2] = n /\ Rest(v) = Rest(x) \ {n} /\ n \in Rest(x) /\ n \in Neighbors[x[2]] /\ n \in Cell
            /\ Cardinality(Rest(v)) < Cardinality(Rest(x))
        BY <3>3, <4>1, Visits
      <4> QED
        BY <4>1, <4>2, <4>3 DEF Placed
    <3>5. v \in Q
        BY <1>3, <3>4
    <3>6. Placed(n, Rest(v)) /\ x[2] \in Neighbors[n] \ Rest(v)
        BY <1>1, <3>4, Symmetric
    <3>7. Threadable(x)
      <4>1. PICK P, end : Threads(n, Rest(v), P, end)
        BY <3>4, <3>5
      <4>2. \E R : Threads(x[2], Rest(v) \cup {n}, R, end)
        BY <3>6, <4>1, ThreadGrows
      <4> QED
        BY <3>4, <4>2
    <3>8. Trailable(x)
      <4>1. CASE Rest(v) = {}
        <5>1. Placed(n, {}) /\ x[2] \in Neighbors[n]
            BY <3>6, <4>1
        <5>2. Trail(x[2], {n}, n, n)
            BY <5>1, TrailStarts
        <5>3. Rest(x) = {n}
            BY <3>4, <4>1
        <5> QED
            BY <5>2, <5>3
      <4>2. CASE Rest(v) # {}
        <5>1. PICK first, end : Trail(n, Rest(v), first, end)
            BY <3>4, <3>5, <4>2
        <5>2. Trail(x[2], Rest(v) \cup {n}, n, end)
            BY <3>6, <5>1, TrailGrows
        <5> QED
            BY <3>4, <5>2
      <4> QED
        BY <4>1, <4>2
    <3> QED
        BY <3>7, <3>8
  <2> QED
    BY <2>1, <2>2
<1>4. \A x \in Partial : x \in Q
  <2> HIDE DEF Q, r
  <2> QED BY <1>2, <1>3, RankInduction
<1> QED
    BY <1>1, <1>4

LEMMA StepsKeep ==
    ASSUME NEW z \in Placement
    PROVE  /\ Steps(z) \in SUBSET Onward(z)
           /\ \A n \in Onward(z) \ Steps(z) : Ext(Visit(z, n)) = 0
<1>1. Steps(z) \in SUBSET Onward(z)
    BY DEF Steps
<1>2. ASSUME NEW n \in Onward(z), Ext(Visit(z, n)) # 0 PROVE n \in Steps(z)
  <2>1. PICK v : v = Visit(z, n)
    OBVIOUS
  <2>2. v \in Partial /\ v \in Placement /\ v[2] = n /\ Rest(v) = Rest(z) \ {n}
    BY <2>1, Visits
  <2>3. Ext(v) > 0
    <3>1. Ext(v) \in Nat
        BY <2>2, ExtNat
    <3> QED
        BY <1>2, <2>1, <3>1
  <2>4. Placed(n, Rest(v)) /\ (Rest(v) # {} => \E first, end : Trail(n, Rest(v), first, end))
    BY <2>2, <2>3, Completable
  <2>5. ~ ShouldPruneAfterVisit(n, Rest(v))
    BY <2>4, VisitPasses
  <2> QED
    BY <2>2, <2>5 DEF Steps
<1> QED
    BY <1>1, <1>2

LEMMA GateKeeps ==
    ASSUME NEW z \in Partial, ShouldPruneState(z[2], Rest(z))
    PROVE  Ext(z) = 0
<1>1. ASSUME Ext(z) # 0 PROVE FALSE
  <2>1. Ext(z) > 0
    <3>1. Ext(z) \in Nat
        BY ExtNat DEF Partial
    <3> QED
        BY <1>1, <3>1
  <2>2. PICK P, end : Threads(z[2], Rest(z), P, end)
    BY <2>1, Completable
  <2> QED
    BY <2>1, <2>2, Completable, GatePasses
<1> QED
    BY <1>1

-----------------------------------------------------------------------------
(* Symmetry: images of a placement have as many paths and completions.     *)
LEMMA Jumps ==
    ASSUME NEW a \in Int, NEW b \in Int, <<a, b>> \in KnightMoves
    PROVE  /\ <<b, a>> \in KnightMoves /\ <<0 - a, b>> \in KnightMoves /\ <<a, 0 - b>> \in KnightMoves
           /\ <<0 - a, 0 - b>> \in KnightMoves /\ <<0 - b, a>> \in KnightMoves
           /\ <<b, 0 - a>> \in KnightMoves /\ <<0 - b, 0 - a>> \in KnightMoves
<1>1. a \in -2 .. 2 /\ b \in -2 .. 2 /\ a * a + b * b = 5
    BY DEF KnightMoves
<1>2. (0 - a) * (0 - a) = a * a /\ (0 - b) * (0 - b) = b * b /\ 0 - a \in -2 .. 2 /\ 0 - b \in -2 .. 2
  <2>1. \A x \in -2 .. 2 : (0 - x) * (0 - x) = x * x /\ 0 - x \in -2 .. 2
    OBVIOUS
  <2> QED
    BY <1>1, <2>1
<1>3. a * a \in Int /\ b * b \in Int
    BY <1>1
<1>4. PICK p, q, e, f : p = 0 - a /\ q = 0 - b /\ e = a * a /\ f = b * b
    OBVIOUS
<1>5. /\ a * a = e /\ b * b = f /\ p * p = e /\ q * q = f /\ e + f = 5 /\ f + e = 5
      /\ a \in -2 .. 2 /\ b \in -2 .. 2 /\ p \in -2 .. 2 /\ q \in -2 .. 2
    BY <1>1, <1>2, <1>3, <1>4
<1>6. /\ <<b, a>> \in KnightMoves /\ <<p, b>> \in KnightMoves /\ <<a, q>> \in KnightMoves
      /\ <<p, q>> \in KnightMoves /\ <<q, a>> \in KnightMoves
      /\ <<b, p>> \in KnightMoves /\ <<q, p>> \in KnightMoves
    BY <1>5 DEF KnightMoves
<1> QED
    BY <1>4, <1>6

LEMMA MovesJump ==
    ASSUME NEW t \in Transforms, NEW x \in Int, NEW y \in Int, NEW v \in Int, NEW w \in Int,
           <<v - x, w - y>> \in KnightMoves
    PROVE  <<Moved(t, v, w)[1] - Moved(t, x, y)[1], Moved(t, v, w)[2] - Moved(t, x, y)[2]>> \in KnightMoves
<1> DEFINE m == Size - 1
<1>1. m \in Int
    BY Boards
<1>2. PICK a \in Int, b \in Int : a = v - x /\ b = w - y
    OBVIOUS
<1>3. /\ <<a, b>> \in KnightMoves
      /\ <<b, a>> \in KnightMoves /\ <<0 - a, b>> \in KnightMoves /\ <<a, 0 - b>> \in KnightMoves
      /\ <<0 - a, 0 - b>> \in KnightMoves /\ <<0 - b, a>> \in KnightMoves
      /\ <<b, 0 - a>> \in KnightMoves /\ <<0 - b, 0 - a>> \in KnightMoves
    BY <1>2, Jumps
<1> HIDE DEF m
<1>4. \A p, q \in Int : (m - p) - (m - q) = 0 - (p - q)
    BY <1>1
<1>5. (m - v) - (m - x) = 0 - a /\ (m - w) - (m - y) = 0 - b
    BY <1>2, <1>4
<1>6. t = 0 \/ t = 1 \/ t = 2 \/ t = 3 \/ t = 4 \/ t = 5 \/ t = 6 \/ t = 7
    BY DEF Transforms
<1>7. CASE t = 0
  <2>1. Moved(t, v, w) = <<v, w>> /\ Moved(t, x, y) = <<x, y>>
    BY <1>7, Moves DEF m
  <2>2. v - x = a /\ w - y = b
    BY <1>2, <1>5
  <2>3. /\ Moved(t, v, w)[1] = v /\ Moved(t, v, w)[2] = w
        /\ Moved(t, x, y)[1] = x /\ Moved(t, x, y)[2] = y
    BY <2>1
  <2>4. /\ Moved(t, v, w)[1] - Moved(t, x, y)[1] = a
        /\ Moved(t, v, w)[2] - Moved(t, x, y)[2] = b
    BY <2>2, <2>3
  <2> QED
    BY <1>3, <2>4
<1>8. CASE t = 1
  <2>1. Moved(t, v, w) = <<w, m - v>> /\ Moved(t, x, y) = <<y, m - x>>
    BY <1>8, Moves DEF m
  <2>2. w - y = b /\ (m - v) - (m - x) = 0 - a
    BY <1>2, <1>5
  <2>3. /\ Moved(t, v, w)[1] = w /\ Moved(t, v, w)[2] = m - v
        /\ Moved(t, x, y)[1] = y /\ Moved(t, x, y)[2] = m - x
    BY <2>1
  <2>4. /\ Moved(t, v, w)[1] - Moved(t, x, y)[1] = b
        /\ Moved(t, v, w)[2] - Moved(t, x, y)[2] = 0 - a
    BY <2>2, <2>3
  <2> QED
    BY <1>3, <2>4
<1>9. CASE t = 2
  <2>1. Moved(t, v, w) = <<m - v, m - w>> /\ Moved(t, x, y) = <<m - x, m - y>>
    BY <1>9, Moves DEF m
  <2>2. (m - v) - (m - x) = 0 - a /\ (m - w) - (m - y) = 0 - b
    BY <1>2, <1>5
  <2>3. /\ Moved(t, v, w)[1] = m - v /\ Moved(t, v, w)[2] = m - w
        /\ Moved(t, x, y)[1] = m - x /\ Moved(t, x, y)[2] = m - y
    BY <2>1
  <2>4. /\ Moved(t, v, w)[1] - Moved(t, x, y)[1] = 0 - a
        /\ Moved(t, v, w)[2] - Moved(t, x, y)[2] = 0 - b
    BY <2>2, <2>3
  <2> QED
    BY <1>3, <2>4
<1>10. CASE t = 3
  <2>1. Moved(t, v, w) = <<m - w, v>> /\ Moved(t, x, y) = <<m - y, x>>
    BY <1>10, Moves DEF m
  <2>2. (m - w) - (m - y) = 0 - b /\ v - x = a
    BY <1>2, <1>5
  <2>3. /\ Moved(t, v, w)[1] = m - w /\ Moved(t, v, w)[2] = v
        /\ Moved(t, x, y)[1] = m - y /\ Moved(t, x, y)[2] = x
    BY <2>1
  <2>4. /\ Moved(t, v, w)[1] - Moved(t, x, y)[1] = 0 - b
        /\ Moved(t, v, w)[2] - Moved(t, x, y)[2] = a
    BY <2>2, <2>3
  <2> QED
    BY <1>3, <2>4
<1>11. CASE t = 4
  <2>1. Moved(t, v, w) = <<v, m - w>> /\ Moved(t, x, y) = <<x, m - y>>
    BY <1>11, Moves DEF m
  <2>2. v - x = a /\ (m - w) - (m - y) = 0 - b
    BY <1>2, <1>5
  <2>3. /\ Moved(t, v, w)[1] = v /\ Moved(t, v, w)[2] = m - w
        /\ Moved(t, x, y)[1] = x /\ Moved(t, x, y)[2] = m - y
    BY <2>1
  <2>4. /\ Moved(t, v, w)[1] - Moved(t, x, y)[1] = a
        /\ Moved(t, v, w)[2] - Moved(t, x, y)[2] = 0 - b
    BY <2>2, <2>3
  <2> QED
    BY <1>3, <2>4
<1>12. CASE t = 5
  <2>1. Moved(t, v, w) = <<m - v, w>> /\ Moved(t, x, y) = <<m - x, y>>
    BY <1>12, Moves DEF m
  <2>2. (m - v) - (m - x) = 0 - a /\ w - y = b
    BY <1>2, <1>5
  <2>3. /\ Moved(t, v, w)[1] = m - v /\ Moved(t, v, w)[2] = w
        /\ Moved(t, x, y)[1] = m - x /\ Moved(t, x, y)[2] = y
    BY <2>1
  <2>4. /\ Moved(t, v, w)[1] - Moved(t, x, y)[1] = 0 - a
        /\ Moved(t, v, w)[2] - Moved(t, x, y)[2] = b
    BY <2>2, <2>3
  <2> QED
    BY <1>3, <2>4
<1>13. CASE t = 6
  <2>1. Moved(t, v, w) = <<w, v>> /\ Moved(t, x, y) = <<y, x>>
    BY <1>13, Moves DEF m
  <2>2. w - y = b /\ v - x = a
    BY <1>2, <1>5
  <2>3. /\ Moved(t, v, w)[1] = w /\ Moved(t, v, w)[2] = v
        /\ Moved(t, x, y)[1] = y /\ Moved(t, x, y)[2] = x
    BY <2>1
  <2>4. /\ Moved(t, v, w)[1] - Moved(t, x, y)[1] = b
        /\ Moved(t, v, w)[2] - Moved(t, x, y)[2] = a
    BY <2>2, <2>3
  <2> QED
    BY <1>3, <2>4
<1>14. CASE t = 7
  <2>1. Moved(t, v, w) = <<m - w, m - v>> /\ Moved(t, x, y) = <<m - y, m - x>>
    BY <1>14, Moves DEF m
  <2>2. (m - w) - (m - y) = 0 - b /\ (m - v) - (m - x) = 0 - a
    BY <1>2, <1>5
  <2>3. /\ Moved(t, v, w)[1] = m - w /\ Moved(t, v, w)[2] = m - v
        /\ Moved(t, x, y)[1] = m - y /\ Moved(t, x, y)[2] = m - x
    BY <2>1
  <2>4. /\ Moved(t, v, w)[1] - Moved(t, x, y)[1] = 0 - b
        /\ Moved(t, v, w)[2] - Moved(t, x, y)[2] = 0 - a
    BY <2>2, <2>3
  <2> QED
    BY <1>3, <2>4
<1> QED
    BY <1>6, <1>7, <1>8, <1>9, <1>10, <1>11, <1>12, <1>13, <1>14

LEMMA NeighborsMove ==
    ASSUME NEW t \in Transforms, NEW c \in Cell, NEW d \in Cell
    PROVE  d \in Neighbors[c] <=> perms[t][d] \in Neighbors[perms[t][c]]
<1>1. ASSUME NEW u \in Transforms, NEW a \in Cell, NEW b \in Neighbors[a]
      PROVE  perms[u][b] \in Neighbors[perms[u][a]]
  <2>1. b \in Cell /\ <<RowOf(b) - RowOf(a), ColumnOf(b) - ColumnOf(a)>> \in KnightMoves
    BY DEF Neighbors
  <2>2. RowOf(a) \in Int /\ ColumnOf(a) \in Int /\ RowOf(b) \in Int /\ ColumnOf(b) \in Int
    BY <2>1, Coordinates
  <2>3. /\ perms[u][a] \in Cell /\ perms[u][b] \in Cell
        /\ Moved(u, RowOf(a), ColumnOf(a)) = <<RowOf(perms[u][a]), ColumnOf(perms[u][a])>>
        /\ Moved(u, RowOf(b), ColumnOf(b)) = <<RowOf(perms[u][b]), ColumnOf(perms[u][b])>>
    BY <2>1, PermsMove
  <2>4. <<Moved(u, RowOf(b), ColumnOf(b))[1] - Moved(u, RowOf(a), ColumnOf(a))[1],
          Moved(u, RowOf(b), ColumnOf(b))[2] - Moved(u, RowOf(a), ColumnOf(a))[2]>> \in KnightMoves
    BY <2>1, <2>2, MovesJump
  <2>5. <<RowOf(perms[u][b]) - RowOf(perms[u][a]), ColumnOf(perms[u][b]) - ColumnOf(perms[u][a])>> \in KnightMoves
    BY <2>3, <2>4
  <2> QED
    BY <2>3, <2>5 DEF Neighbors
<1>2. ASSUME perms[t][d] \in Neighbors[perms[t][c]] PROVE d \in Neighbors[c]
  <2>1. Undo(t) \in Transforms /\ perms[Undo(t)][perms[t][c]] = c /\ perms[Undo(t)][perms[t][d]] = d
    BY PermsUndo
  <2>2. perms[t][c] \in Cell
    BY PermsMove
  <2>3. perms[Undo(t)][perms[t][d]] \in Neighbors[perms[Undo(t)][perms[t][c]]]
    BY <1>1, <1>2, <2>1, <2>2
  <2> QED
    BY <2>1, <2>3
<1> QED
    BY <1>1, <1>2

(* The parts of an image are the images of the parts.                      *)
LEMMA Images1 ==
    ASSUME NEW t \in Transforms, NEW z \in Placement
    PROVE  /\ Move(t, z) \in Placement /\ Move(t, z)[1] = transformState(t, z[1]) /\ Move(t, z)[2] = perms[t][z[2]]
           /\ Rest(Move(t, z)) = transformState(t, Rest(z))
           /\ Before(Move(t, z)) = transformState(t, Before(z))
           /\ Onward(Move(t, z)) = transformState(t, Onward(z))
           /\ Back(Move(t, z)) = transformState(t, Back(z))
           /\ z \in Partial => Move(t, z) \in Partial
<1>1. /\ z[1] \in SUBSET Cell /\ z[2] \in Cell /\ Rest(z) = Cell \ z[1]
      /\ Onward(z) \in SUBSET Cell /\ Back(z) \in SUBSET Cell
      /\ Rest(z) \in SUBSET Cell /\ Before(z) \in SUBSET Cell
    BY Spots DEF State
<1>2. Move(t, z) \in Placement /\ Move(t, z)[1] = transformState(t, z[1]) /\ Move(t, z)[2] = perms[t][z[2]]
    BY Acts DEF Move
<1>3. /\ \A c \in Cell : perms[t][c] \in Cell
      /\ \A c, d \in Cell : perms[t][c] = perms[t][d] => c = d
      /\ \A d \in Cell : \E c \in Cell : perms[t][c] = d
  <2>1. \A c \in Cell : perms[t][c] \in Cell
    BY PermsMove
  <2>2. \A c \in Cell : Undo(t) \in Transforms /\ perms[Undo(t)][perms[t][c]] = c /\ perms[t][perms[Undo(t)][c]] = c
    BY PermsUndo
  <2>3. \A c \in Cell : perms[Undo(t)][c] \in Cell
    BY <2>2, PermsMove
  <2> QED
    BY <2>1, <2>2, <2>3
<1>4. \A S \in SUBSET Cell : \A c \in Cell : c \in S <=> perms[t][c] \in transformState(t, S)
    BY <1>3 DEF transformState
<1>5. \A S \in SUBSET Cell : transformState(t, S) \in SUBSET Cell
    BY <1>3 DEF transformState
<1>6. ASSUME NEW S \in SUBSET Cell, NEW T \in SUBSET Cell, \A c \in Cell : perms[t][c] \in T <=> c \in S
      PROVE  T = transformState(t, S)
  <2>1. ASSUME NEW d \in Cell PROVE d \in T <=> d \in transformState(t, S)
    <3>1. PICK c \in Cell : perms[t][c] = d
        BY <1>3
    <3> QED
        BY <3>1, <1>4, <1>6
  <2>2. transformState(t, S) \in SUBSET Cell
    BY <1>5
  <2> QED
    BY <2>1, <2>2
<1>7. Rest(Move(t, z)) = transformState(t, Rest(z))
  <2>1. Rest(Move(t, z)) = Cell \ transformState(t, z[1])
    BY <1>2 DEF Rest, Invert
  <2>2. \A c \in Cell : perms[t][c] \in Cell \ transformState(t, z[1]) <=> c \in Rest(z)
    BY <1>1, <1>3, <1>4
  <2> QED
    BY <1>1, <1>6, <2>1, <2>2
<1>8. Before(Move(t, z)) = transformState(t, Before(z))
  <2> DEFINE T == transformState(t, z[1]) \ {perms[t][z[2]]}
  <2>1. Before(Move(t, z)) = T
    BY <1>2 DEF Before
  <2>2. \A c \in Cell : perms[t][c] \in T <=> c \in Before(z)
    BY <1>1, <1>3, <1>4 DEF Before
  <2>3. T \in SUBSET Cell
    BY <1>1, <1>5
  <2>4. Before(z) \in SUBSET Cell
    BY <1>1
  <2> HIDE DEF T
  <2>5. T = transformState(t, Before(z))
    BY <1>6, <2>2, <2>3, <2>4
  <2> QED
    BY <2>1, <2>5
<1>9. \A c \in Cell : perms[t][c] \in Neighbors[perms[t][z[2]]] <=> c \in Neighbors[z[2]]
    BY <1>1, NeighborsMove
<1>10. Onward(Move(t, z)) = transformState(t, Onward(z))
  <2> DEFINE T == Neighbors[perms[t][z[2]]] \cap transformState(t, Rest(z))
  <2>1. Onward(Move(t, z)) = T
    BY <1>2, <1>7 DEF Onward
  <2>2. \A c \in Cell : perms[t][c] \in T <=> c \in Onward(z)
    BY <1>1, <1>4, <1>9 DEF Onward
  <2>3. T \in SUBSET Cell
    BY <1>1, <1>5
  <2>4. Onward(z) \in SUBSET Cell
    BY <1>1
  <2> HIDE DEF T
  <2>5. T = transformState(t, Onward(z))
    BY <1>6, <2>2, <2>3, <2>4
  <2> QED
    BY <2>1, <2>5
<1>11. Back(Move(t, z)) = transformState(t, Back(z))
  <2> DEFINE T == Neighbors[perms[t][z[2]]] \cap transformState(t, Before(z))
  <2>1. Back(Move(t, z)) = T
    BY <1>2, <1>8 DEF Back
  <2>2. \A c \in Cell : perms[t][c] \in T <=> c \in Back(z)
    BY <1>1, <1>4, <1>9 DEF Back
  <2>3. T \in SUBSET Cell
    BY <1>1, <1>5
  <2>4. Back(z) \in SUBSET Cell
    BY <1>1
  <2> HIDE DEF T
  <2>5. T = transformState(t, Back(z))
    BY <1>6, <2>2, <2>3, <2>4
  <2> QED
    BY <2>1, <2>5
<1>12. z \in Partial => Move(t, z) \in Partial
    BY <1>1, <1>2, <1>4 DEF Partial
<1> QED
    BY <1>2, <1>7, <1>8, <1>10, <1>11, <1>12

-----------------------------------------------------------------------------
(* Sums over an image.                                                     *)
LEMMA SumMove ==
    ASSUME NEW t \in Transforms, NEW S \in SUBSET Cell, NEW f, Counts(f, S),
           NEW g, \A c \in S : g[perms[t][c]] = f[c]
    PROVE  Counts(g, transformState(t, S)) /\ SumOf(g, transformState(t, S)) = SumOf(f, S)
<1> DEFINE m == [c \in S |-> perms[t][c]]
           T == transformState(t, S)
<1>1. IsFiniteSet(T)
  <2>1. T \in SUBSET Cell
    BY PermsMove DEF transformState
  <2> QED
    BY <2>1, Cells, FS_Subset
<1>2. \A c \in Cell : perms[Undo(t)][perms[t][c]] = c
    BY PermsUndo
<1>3. /\ \A c \in S : m[c] \in T /\ g[m[c]] = f[c]
      /\ \A c, d \in S : m[c] = m[d] => c = d
      /\ \A d \in T : \E c \in S : m[c] = d
  <2>1. \A c, d \in S : m[c] = m[d] => c = d
    BY <1>2
  <2>2. \A c \in S : m[c] \in T /\ g[m[c]] = f[c]
    BY DEF transformState
  <2>3. \A d \in T : \E c \in S : m[c] = d
    BY DEF transformState
  <2> QED
    BY <2>1, <2>2, <2>3
<1> HIDE DEF m, T
<1>4. Counts(g, T) /\ SumOf(f, S) = SumOf(g, T)
    BY <1>1, <1>3, SumReindex
<1> QED
    BY <1>4 DEF T

LEMMA PathsMove ==
    ASSUME NEW t \in Transforms, NEW z \in Placement
    PROVE  Paths(Move(t, z)) = Paths(z)
<1> DEFINE Q == {x \in Placement : Paths(Move(t, x)) = Paths(x)}
           r == [x \in Placement |-> Cardinality(Before(x))]
<1>1. ASSUME NEW x \in Placement, \A y \in Placement : r[y] < r[x] => y \in Q PROVE x \in Q
  <2> DEFINE y == Move(t, x)
             a == [c \in Back(x) |-> Paths(<<Before(x), c>>)]
             b == [c \in Back(y) |-> Paths(<<Before(y), c>>)]
  <2>1. /\ y \in Placement /\ y[1] = transformState(t, x[1]) /\ y[2] = perms[t][x[2]]
        /\ Before(y) = transformState(t, Before(x)) /\ Back(y) = transformState(t, Back(x))
    BY Images1
  <2>2. x[1] \in SUBSET Cell /\ x[2] \in Cell /\ Back(x) \in SUBSET Cell
    BY Spots
  <2>3. x[1] = {x[2]} <=> y[1] = {y[2]}
    <3>1. \A c \in Cell : perms[Undo(t)][perms[t][c]] = c
        BY PermsUndo
    <3>2. x[1] = {x[2]} => y[1] = {y[2]}
        BY <2>1 DEF transformState
    <3>3. ASSUME y[1] = {y[2]} PROVE x[1] = {x[2]}
      <4>1. \A c \in x[1] : perms[t][c] = perms[t][x[2]]
        BY <2>1, <3>3 DEF transformState
      <4>2. \A c \in x[1] : c = x[2]
        BY <2>2, <3>1, <4>1
      <4>3. x[1] # {}
        BY <2>1, <3>3 DEF transformState
      <4> QED
        BY <4>2, <4>3
    <3> QED
        BY <3>2, <3>3
  <2>4. CASE x[1] = {x[2]}
    <3>1. Paths(x) = 1 /\ Paths(y) = 1
        BY <2>1, <2>3, <2>4, PathsUnfold
    <3> QED
        BY <3>1
  <2>5. CASE x[1] # {x[2]}
    <3>1. ASSUME NEW c \in Back(x) PROVE b[perms[t][c]] = a[c]
      <4> DEFINE w == <<Before(x), c>>
      <4>1. w \in Placement /\ r[w] < r[x]
        BY BackLower
      <4>2. Paths(Move(t, w)) = Paths(w)
        BY <1>1, <4>1
      <4>3. Move(t, w) = <<Before(y), perms[t][c]>>
        BY <2>1 DEF Move
      <4>4. perms[t][c] \in Back(y)
        BY <2>1 DEF transformState
      <4> QED
        BY <4>2, <4>3, <4>4
    <3>2. Counts(a, Back(x)) /\ Paths(x) = SumOf(a, Back(x))
        BY <2>5, PathsUnfold
    <3>3. Paths(y) = SumOf(b, Back(y))
        BY <2>1, <2>3, <2>5, PathsUnfold
    <3> HIDE DEF a, b
    <3>4. SumOf(b, transformState(t, Back(x))) = SumOf(a, Back(x))
        BY <2>2, <3>1, <3>2, SumMove
    <3>5. Paths(y) = Paths(x)
        BY <2>1, <3>2, <3>3, <3>4
    <3> QED
        BY <3>5
  <2> QED
    BY <2>4, <2>5
<1>2. r \in [Placement -> Nat]
    BY Levels
<1>3. \A x \in Placement : x \in Q
  <2> HIDE DEF Q, r
  <2> QED BY <1>1, <1>2, RankInduction
<1> QED
    BY <1>3

LEMMA ExtMove ==
    ASSUME NEW t \in Transforms, NEW z \in Placement
    PROVE  Ext(Move(t, z)) = Ext(z)
<1> DEFINE y == Move(t, z)
           a == [u \in Onward(z) |-> Paths(<<Rest(z), u>>)]
           b == [u \in Onward(y) |-> Paths(<<Rest(y), u>>)]
<1>1. y \in Placement /\ Rest(y) = transformState(t, Rest(z)) /\ Onward(y) = transformState(t, Onward(z))
    BY Images1
<1>2. Rest(y) = {} <=> Rest(z) = {}
  <2>1. \A S : transformState(t, S) = {} <=> S = {}
    BY DEF transformState
  <2> QED
    BY <1>1, <2>1, Zenon
<1>3. ASSUME NEW u \in Onward(z) PROVE b[perms[t][u]] = a[u]
  <2> DEFINE w == <<Rest(z), u>>
  <2>1. Paths(Move(t, w)) = Paths(w)
    BY ExtNat, PathsMove
  <2>2. Move(t, w) = <<Rest(y), perms[t][u]>>
    BY <1>1 DEF Move
  <2>3. perms[t][u] \in Onward(y)
    BY <1>1 DEF transformState
  <2> QED
    BY <2>1, <2>2, <2>3
<1>4. Counts(a, Onward(z)) /\ Onward(z) \in SUBSET Cell
    BY ExtNat, Spots
<1>5. SumOf(b, Onward(y)) = SumOf(a, Onward(z))
  <2> HIDE DEF a, b
  <2>1. SumOf(b, transformState(t, Onward(z))) = SumOf(a, Onward(z))
    BY <1>3, <1>4, SumMove
  <2> QED
    BY <1>1, <2>1
<1> QED
    BY <1>2, <1>5 DEF Ext

LEMMA VisitsMove ==
    ASSUME NEW t \in Transforms, NEW z \in Placement, NEW n \in Onward(z)
    PROVE  perms[t][n] \in Onward(Move(t, z)) /\ Visit(Move(t, z), perms[t][n]) = Move(t, Visit(z, n))
<1>1. perms[t][n] \in Onward(Move(t, z))
    BY Images1 DEF transformState
<1>2. transformState(t, z[1] \cup {n}) = transformState(t, z[1]) \cup {perms[t][n]}
    BY DEF transformState
<1> QED
    BY <1>1, <1>2, Images1, Visits DEF Visit, Move

LEMMA LevelsMove ==
    ASSUME NEW t \in Transforms, NEW z \in Placement
    PROVE  Level(Move(t, z)) = Level(z)
<1> DEFINE f == [c \in z[1] |-> 1]
           y == Move(t, z)
<1>1. z[1] \in SUBSET Cell /\ IsFiniteSet(z[1]) /\ y[1] = transformState(t, z[1])
    BY Spots, Images1
<1>2. y \in Placement /\ IsFiniteSet(y[1])
    BY Images1, Spots
<1>3. PICK g : g = [c \in Cell |-> 1]
    OBVIOUS
<1>4. \A c \in z[1] : g[c] = 1 /\ g[perms[t][c]] = g[c]
    BY <1>1, <1>3, PermsMove
<1>5. \A c \in y[1] : g[c] = 1
    BY <1>1, <1>3, PermsMove DEF transformState
<1>6. Counts(g, z[1]) /\ SumOf(g, z[1]) = Cardinality(z[1]) * 1
    BY <1>1, <1>4, SumConstant
<1>7. SumOf(g, y[1]) = Cardinality(y[1]) * 1
    BY <1>2, <1>5, SumConstant
<1>8. SumOf(g, y[1]) = SumOf(g, z[1])
    BY <1>1, <1>4, <1>6, SumMove
<1>9. Cardinality(y[1]) \in Nat /\ Cardinality(z[1]) \in Nat
    BY <1>1, <1>2, FS_CardinalityType
<1> QED
    BY <1>6, <1>7, <1>8, <1>9 DEF Level

-----------------------------------------------------------------------------
(* Colours. On an odd board no tour starts at a cell that ShouldSkip skips. *)
LEMMA ColoursFlip ==
    ASSUME Size % 2 # 0, NEW c \in Cell, NEW d \in Neighbors[c]
    PROVE  (c % 2 = 0 /\ d % 2 = 1) \/ (c % 2 = 1 /\ d % 2 = 0)
<1>1. d \in Cell /\ <<RowOf(d) - RowOf(c), ColumnOf(d) - ColumnOf(c)>> \in KnightMoves
    BY DEF Neighbors
<1>2. /\ RowOf(c) \in 0 .. (Size - 1) /\ ColumnOf(c) \in 0 .. (Size - 1) /\ c = RowOf(c) * Size + ColumnOf(c)
      /\ RowOf(d) \in 0 .. (Size - 1) /\ ColumnOf(d) \in 0 .. (Size - 1) /\ d = RowOf(d) * Size + ColumnOf(d)
    BY <1>1, Points
<1>3. PICK p, q, v, w : p = RowOf(c) /\ q = ColumnOf(c) /\ v = RowOf(d) /\ w = ColumnOf(d)
    OBVIOUS
<1>4. /\ p \in Int /\ q \in Int /\ v \in Int /\ w \in Int /\ c = p * Size + q /\ d = v * Size + w
      /\ <<v - p, w - q>> \in KnightMoves
    BY <1>1, <1>2, <1>3, Boards
<1>5. PICK a \in Int, b \in Int : a = v - p /\ b = w - q
    BY <1>4
<1>6. a \in -2 .. 2 /\ b \in -2 .. 2 /\ a * a + b * b = 5
    BY <1>4, <1>5 DEF KnightMoves
<1>7. (a + b) % 2 = 1
  <2>1. (a = -2 \/ a = -1 \/ a = 0 \/ a = 1 \/ a = 2) /\ (b = -2 \/ b = -1 \/ b = 0 \/ b = 1 \/ b = 2)
    BY <1>6
  <2>2. CASE a = -2 \/ a = 2
    <3>1. b * b = 1
        BY <1>6, <2>2
    <3>2. b = -1 \/ b = 1
        BY <2>1, <3>1
    <3> QED
        BY <2>2, <3>2
  <2>3. CASE a = -1 \/ a = 1
    <3>1. b * b = 4
        BY <1>6, <2>3
    <3>2. b = -2 \/ b = 2
        BY <2>1, <3>1
    <3> QED
        BY <2>3, <3>2
  <2>4. CASE a = 0
    <3>1. b * b = 5
        BY <1>6, <2>4
    <3> QED
        BY <2>1, <3>1
  <2> QED
    BY <2>1, <2>2, <2>3, <2>4
<1>8. v = p + a /\ w = q + b
    BY <1>4, <1>5
<1>9. Size = 1 \/ Size = 3 \/ Size = 5 \/ Size = 7
    BY BoardAssumption
<1>10. c % 2 = (p + q) % 2 /\ d % 2 = (v + w) % 2
  <2>1. CASE Size = 1
    BY <1>4, <2>1
  <2>2. CASE Size = 3
    <3>1. c = p * 3 + q /\ d = v * 3 + w
        BY <1>4, <2>2
    <3> QED
        BY <1>4, <3>1
  <2>3. CASE Size = 5
    <3>1. c = p * 5 + q /\ d = v * 5 + w
        BY <1>4, <2>3
    <3> QED
        BY <1>4, <3>1
  <2>4. CASE Size = 7
    <3>1. c = p * 7 + q /\ d = v * 7 + w
        BY <1>4, <2>4
    <3> QED
        BY <1>4, <3>1
  <2> QED
    BY <1>9, <2>1, <2>2, <2>3, <2>4
<1>11. v + w = (p + q) + (a + b)
    BY <1>4, <1>8
<1> QED
    BY <1>4, <1>7, <1>10, <1>11

evens == [c \in Nat |-> IF c % 2 = 0 THEN 1 ELSE 0]
odds == [c \in Nat |-> IF c % 2 = 1 THEN 1 ELSE 0]

LEMMA Colours ==
    ASSUME NEW S \in SUBSET Cell
    PROVE  /\ Counts(evens, S) /\ Counts(odds, S)
           /\ SumOf(evens, S) \in Nat /\ SumOf(odds, S) \in Nat
           /\ \A x \in Cell \ S : /\ SumOf(evens, S \cup {x}) = SumOf(evens, S) + evens[x]
                                  /\ SumOf(odds, S \cup {x}) = SumOf(odds, S) + odds[x]
<1>1. IsFiniteSet(S) /\ S \subseteq Nat
    BY Cells, Boards, FS_Subset
<1>2. Counts(evens, S) /\ Counts(odds, S)
    BY <1>1 DEF Counts, evens, odds
<1>3. SumOf(evens, S) \in Nat /\ SumOf(odds, S) \in Nat
    BY <1>2, SumNat
<1>4. ASSUME NEW x \in Cell \ S
      PROVE  /\ SumOf(evens, S \cup {x}) = SumOf(evens, S) + evens[x]
             /\ SumOf(odds, S \cup {x}) = SumOf(odds, S) + odds[x]
  <2>1. evens[x] \in Nat /\ odds[x] \in Nat
    BY Boards DEF evens, odds
  <2>2. SumOf(evens, S \cup {x}) = evens[x] + SumOf(evens, S)
    BY <1>2, <2>1, SumInsert
  <2>3. SumOf(odds, S \cup {x}) = odds[x] + SumOf(odds, S)
    BY <1>2, <2>1, SumInsert
  <2> QED
    BY <1>3, <2>1, <2>2, <2>3
<1> QED
    BY <1>2, <1>3, <1>4

LEMMA Alternates ==
    ASSUME Size % 2 # 0, NEW z \in Partial, Ext(z) > 0
    PROVE  LET e == SumOf(evens, Rest(z))
               o == SumOf(odds, Rest(z))
           IN  IF z[2] % 2 = 0 THEN o = e \/ o = e + 1 ELSE e = o \/ e = o + 1
<1> DEFINE Fair(x) == IF x[2] % 2 = 0
                      THEN \/ SumOf(odds, Rest(x)) = SumOf(evens, Rest(x))
                           \/ SumOf(odds, Rest(x)) = SumOf(evens, Rest(x)) + 1
                      ELSE \/ SumOf(evens, Rest(x)) = SumOf(odds, Rest(x))
                           \/ SumOf(evens, Rest(x)) = SumOf(odds, Rest(x)) + 1
           Q == {x \in Partial : Ext(x) > 0 => Fair(x)}
           r == [x \in Partial |-> Cardinality(Rest(x))]
<1>1. r \in [Partial -> Nat]
    BY Levels DEF Partial
<1>2. ASSUME NEW x \in Partial, \A y \in Partial : r[y] < r[x] => y \in Q PROVE x \in Q
  <2> SUFFICES ASSUME Ext(x) > 0 PROVE Fair(x)
    OBVIOUS
  <2>0. x \in Placement
    BY DEF Partial
  <2>1. CASE Rest(x) = {}
    BY <2>1, SumEmpty
  <2>2. CASE Rest(x) # {}
    <3> DEFINE a == [n \in Onward(x) |-> Ext(Visit(x, n))]
    <3>1. Counts(a, Onward(x)) /\ SumOf(a, Onward(x)) > 0
        BY <2>0, <2>2, ExtSum
    <3>2. PICK n \in Onward(x) : a[n] > 0
      <4> HIDE DEF a
      <4> QED BY <3>1, SumPositive
    <3>3. PICK y, S : y = Visit(x, n) /\ S = Rest(y)
        OBVIOUS
    <3>4. Ext(y) > 0 /\ y \in Partial /\ r[y] < r[x]
        BY <2>0, <3>2, <3>3, Visits
    <3>5. y[2] = n /\ n \in Cell \ S /\ Rest(x) = S \cup {n} /\ S \in SUBSET Cell /\ n \in Neighbors[x[2]] /\ x[2] \in Cell
      <4>1. y[2] = n /\ S = Rest(x) \ {n} /\ n \in Rest(x) /\ n \in Neighbors[x[2]] /\ n \in Cell
        BY <2>0, <3>3, Visits
      <4>2. Rest(x) \in SUBSET Cell /\ x[2] \in Cell
        BY <2>0, Spots DEF State
      <4> QED
        BY <4>1, <4>2
    <3>6. Fair(y)
        BY <1>2, <3>4
    <3>7. /\ SumOf(evens, S) \in Nat /\ SumOf(odds, S) \in Nat
          /\ SumOf(evens, Rest(x)) = SumOf(evens, S) + evens[n]
          /\ SumOf(odds, Rest(x)) = SumOf(odds, S) + odds[n]
        BY <3>5, Colours
    <3>8. (x[2] % 2 = 0 /\ n % 2 = 1) \/ (x[2] % 2 = 1 /\ n % 2 = 0)
        BY <3>5, ColoursFlip
    <3>9. n \in Nat
        BY <3>5, Boards
    <3>10. CASE x[2] % 2 = 0 /\ n % 2 = 1
      <4>1. evens[n] = 0 /\ odds[n] = 1
        BY <3>9, <3>10 DEF evens, odds
      <4>2. SumOf(evens, S) = SumOf(odds, S) \/ SumOf(evens, S) = SumOf(odds, S) + 1
        BY <3>3, <3>5, <3>6, <3>10
      <4>3. SumOf(odds, Rest(x)) = SumOf(evens, Rest(x)) \/ SumOf(odds, Rest(x)) = SumOf(evens, Rest(x)) + 1
        BY <3>7, <4>1, <4>2
      <4> QED
        BY <3>10, <4>3
    <3>11. CASE x[2] % 2 = 1 /\ n % 2 = 0
      <4>1. evens[n] = 1 /\ odds[n] = 0
        BY <3>9, <3>11 DEF evens, odds
      <4>2. SumOf(odds, S) = SumOf(evens, S) \/ SumOf(odds, S) = SumOf(evens, S) + 1
        BY <3>3, <3>5, <3>6, <3>11
      <4>3. SumOf(evens, Rest(x)) = SumOf(odds, Rest(x)) \/ SumOf(evens, Rest(x)) = SumOf(odds, Rest(x)) + 1
        BY <3>7, <4>1, <4>2
      <4> QED
        BY <3>11, <4>3
    <3> QED
        BY <3>8, <3>10, <3>11
  <2> QED
    BY <2>1, <2>2
<1>3. \A x \in Partial : x \in Q
  <2> HIDE DEF Q, r
  <2> QED BY <1>1, <1>2, RankInduction
<1> QED
    BY <1>3

LEMMA OddCells ==
    ASSUME Size % 2 # 0
    PROVE  SumOf(evens, Cell) = SumOf(odds, Cell) + 1
<1> DEFINE Upper(k) == 0 .. 2 * k
           P == {k \in Nat : SumOf(evens, Upper(k)) = SumOf(odds, Upper(k)) + 1}
<1>1. \A k \in Nat : Counts(evens, Upper(k)) /\ Counts(odds, Upper(k)) /\ SumOf(odds, Upper(k)) \in Nat
  <2> SUFFICES ASSUME NEW k \in Nat
               PROVE Counts(evens, Upper(k)) /\ Counts(odds, Upper(k)) /\ SumOf(odds, Upper(k)) \in Nat
    OBVIOUS
  <2>1. IsFiniteSet(Upper(k)) /\ Upper(k) \subseteq Nat
    BY FS_Interval
  <2>2. Counts(evens, Upper(k)) /\ Counts(odds, Upper(k))
    BY <2>1 DEF Counts, evens, odds
  <2> HIDE DEF Upper
  <2> QED
    BY <2>2, SumNat
<1>2. 0 \in P
  <2>0. PICK x : x = 0
    OBVIOUS
  <2>1. Upper(0) = {x} /\ evens[x] = 1 /\ odds[x] = 0
    BY <2>0 DEF evens, odds
  <2>2. SumOf(evens, {x}) = evens[x] /\ SumOf(odds, {x}) = odds[x]
    <3>1. evens[x] \in Nat /\ odds[x] \in Nat
      BY <2>1
    <3>2. SumOf(evens, {x}) = evens[x]
      BY <3>1, SumOne
    <3>3. SumOf(odds, {x}) = odds[x]
      BY <3>1, SumOne
    <3> QED
      BY <3>2, <3>3
  <2>3. SumOf(evens, Upper(0)) = 1 /\ SumOf(odds, Upper(0)) = 0
    BY <2>1, <2>2
  <2> HIDE DEF Upper
  <2>4. SumOf(evens, Upper(0)) = SumOf(odds, Upper(0)) + 1
    BY <2>3
  <2> QED
    BY <2>4
<1>3. ASSUME NEW k \in Nat, k \in P PROVE k + 1 \in P
  <2> DEFINE S == Upper(k)
             a == 2 * k + 1
             b == 2 * k + 2
  <2>1. /\ a \in Nat /\ b \in Nat /\ a \notin S /\ b \notin S \cup {a}
        /\ Upper(k + 1) = (S \cup {a}) \cup {b}
        /\ evens[a] = 0 /\ odds[a] = 1 /\ evens[b] = 1 /\ odds[b] = 0
    <3>1. a \in Nat /\ b \in Nat /\ a \notin S /\ b \notin S \cup {a}
        OBVIOUS
    <3>2. 2 * (k + 1) = b
        OBVIOUS
    <3>3. 0 .. b = (S \cup {a}) \cup {b}
        OBVIOUS
    <3>4. a % 2 = 1 /\ b % 2 = 0
        OBVIOUS
    <3>5. evens[a] = 0 /\ odds[a] = 1 /\ evens[b] = 1 /\ odds[b] = 0
        BY <3>1, <3>4 DEF evens, odds
    <3>6. Upper(k + 1) = 0 .. b
        BY <3>2
    <3> QED
        BY <3>1, <3>3, <3>5, <3>6
  <2>2. SumOf(evens, S) = SumOf(odds, S) + 1 /\ SumOf(odds, S) \in Nat /\ Counts(evens, S) /\ Counts(odds, S)
    BY <1>1, <1>3
  <2> HIDE DEF S, a, b
  <2>3. /\ Counts(evens, S \cup {a}) /\ SumOf(evens, S \cup {a}) = 0 + SumOf(evens, S)
        /\ Counts(odds, S \cup {a}) /\ SumOf(odds, S \cup {a}) = 1 + SumOf(odds, S)
    BY <2>1, <2>2, SumInsert
  <2>4. /\ SumOf(evens, (S \cup {a}) \cup {b}) = 1 + SumOf(evens, S \cup {a})
        /\ SumOf(odds, (S \cup {a}) \cup {b}) = 0 + SumOf(odds, S \cup {a})
    <3> DEFINE T == S \cup {a}
    <3>1. Counts(evens, T) /\ Counts(odds, T) /\ b \notin T
        BY <2>1, <2>3
    <3> HIDE DEF T
    <3>2. SumOf(evens, T \cup {b}) = 1 + SumOf(evens, T) /\ SumOf(odds, T \cup {b}) = 0 + SumOf(odds, T)
        BY <2>1, <3>1, SumInsert
    <3> QED
        BY <3>2 DEF T
  <2>5. SumOf(evens, Upper(k + 1)) = SumOf(odds, Upper(k + 1)) + 1
    <3> HIDE DEF Upper
    <3>1. /\ SumOf(evens, Upper(k + 1)) = 1 + SumOf(evens, S \cup {a})
          /\ SumOf(odds, Upper(k + 1)) = 0 + SumOf(odds, S \cup {a})
        BY <2>1, <2>4, Zenon
    <3> QED
        BY <2>2, <2>3, <3>1
  <2> QED
    BY <2>5
<1>4. PICK k \in Nat : totalCells = 2 * k + 1
  <2>1. Size = 1 \/ Size = 3 \/ Size = 5 \/ Size = 7
    BY BoardAssumption
  <2>2. totalCells = 1 \/ totalCells = 9 \/ totalCells = 25 \/ totalCells = 49
    BY <2>1 DEF totalCells
  <2>3. totalCells = 2 * 0 + 1 \/ totalCells = 2 * 4 + 1 \/ totalCells = 2 * 12 + 1 \/ totalCells = 2 * 24 + 1
    BY <2>2
  <2> QED
    BY <2>3
<1>5. Cell = Upper(k)
    BY <1>4 DEF Cell
<1>6. k \in P
  <2> HIDE DEF P
  <2> QED BY <1>2, <1>3, CountUp
<1> QED
    BY <1>5, <1>6

LEMMA Skipped ==
    ASSUME NEW c \in Cell, ShouldSkip(c)
    PROVE  Ext(<<{c}, c>>) = 0
<1> DEFINE z == <<{c}, c>>
<1>1. Size % 2 # 0 /\ c % 2 # 0 /\ c \in Nat
    BY Boards DEF ShouldSkip
<1>2. z \in Partial /\ z \in Placement /\ z[2] = c /\ Rest(z) = Cell \ {c}
    BY DEF Partial, Placement, State, Rest, Invert
<1>3. SumOf(evens, Cell) = SumOf(odds, Cell) + 1
    BY <1>1, OddCells
<1>4. PICK S : S = Cell \ {c}
    OBVIOUS
<1>5. S \in SUBSET Cell /\ c \in Cell \ S /\ S \cup {c} = Cell
    BY <1>4
<1>6. evens[c] = 0 /\ odds[c] = 1
    BY <1>1 DEF evens, odds
<1>7. /\ SumOf(evens, S \cup {c}) = SumOf(evens, S) + evens[c] /\ SumOf(odds, S \cup {c}) = SumOf(odds, S) + odds[c]
      /\ SumOf(evens, S) \in Nat /\ SumOf(odds, S) \in Nat
    BY <1>5, Colours
<1>8. SumOf(evens, S) = SumOf(odds, S) + 2
    BY <1>3, <1>5, <1>6, <1>7
<1>9. ASSUME Ext(z) > 0 PROVE FALSE
  <2>1. ~ (z[2] % 2 = 0)
    BY <1>1, <1>2
  <2>2. SumOf(evens, S) = SumOf(odds, S) \/ SumOf(evens, S) = SumOf(odds, S) + 1
    BY <1>1, <1>2, <1>4, <1>9, <2>1, Alternates
  <2> QED
    BY <1>7, <1>8, <2>2
<1>10. Ext(z) \in Nat
    BY <1>2, ExtNat
<1> QED
    BY <1>9, <1>10

-----------------------------------------------------------------------------
(* Tables: functions from placements to numbers. The worth of a table      *)
(* under a value of placements is the sum of the values, by weight.        *)
Tables == UNION {[s -> Nat] : s \in SUBSET Placement}
Values == [Placement -> Nat]
Weight(B, p) == IF p \in DOMAIN B THEN B[p] ELSE 0
Worth(v, B) == SumOf([p \in Placement |-> Weight(B, p) * v[p]], Placement)

LEMMA InTables ==
    \A B : B \in Tables <=> /\ DOMAIN B \in SUBSET Placement /\ B = [p \in DOMAIN B |-> B[p]]
                            /\ \A p \in DOMAIN B : B[p] \in Nat
<1> SUFFICES ASSUME NEW B
             PROVE  B \in Tables <=> /\ DOMAIN B \in SUBSET Placement /\ B = [p \in DOMAIN B |-> B[p]]
                                     /\ \A p \in DOMAIN B : B[p] \in Nat
    OBVIOUS
<1>1. ASSUME B \in Tables
      PROVE  /\ DOMAIN B \in SUBSET Placement /\ B = [p \in DOMAIN B |-> B[p]]
             /\ \A p \in DOMAIN B : B[p] \in Nat
  <2>1. PICK s \in SUBSET Placement : B \in [s -> Nat]
    BY <1>1 DEF Tables
  <2> QED
    BY <2>1
<1>2. ASSUME DOMAIN B \in SUBSET Placement, B = [p \in DOMAIN B |-> B[p]], \A p \in DOMAIN B : B[p] \in Nat
      PROVE  B \in Tables
  <2>1. B \in [DOMAIN B -> Nat]
    BY <1>2
  <2> QED
    BY <1>2, <2>1 DEF Tables
<1> QED
    BY <1>1, <1>2

LEMMA WorthNat ==
    ASSUME NEW v \in Values, NEW B \in Tables
    PROVE  /\ Counts([p \in Placement |-> Weight(B, p) * v[p]], Placement)
           /\ Worth(v, B) \in Nat
           /\ \A p : Weight(B, p) \in Nat
<1> DEFINE a == [p \in Placement |-> Weight(B, p) * v[p]]
<1>1. \A p : Weight(B, p) \in Nat
    BY InTables DEF Weight
<1>2. \A p \in Placement : a[p] \in Nat
  <2>1. \A p \in Placement : v[p] \in Nat
    BY DEF Values
  <2> QED
    BY <1>1, <2>1, Distributes
<1>3. Counts(a, Placement)
    BY <1>2, Finite DEF Counts
<1>4. SumOf(a, Placement) \in Nat
  <2> HIDE DEF a
  <2> QED BY <1>3, SumNat
<1> QED
    BY <1>1, <1>3, <1>4 DEF Worth

LEMMA WorthEmpty == EmptyBag \in Tables /\ DOMAIN EmptyBag = {} /\ \A v \in Values : Worth(v, EmptyBag) = 0
<1>1. EmptyBag \in Tables /\ DOMAIN EmptyBag = {}
  <2>1. EmptyBag = [e \in {} |-> 1]
    BY DEF EmptyBag, SetToBag
  <2>2. DOMAIN EmptyBag = {} /\ EmptyBag = [p \in DOMAIN EmptyBag |-> EmptyBag[p]]
    BY <2>1
  <2> QED
    BY <2>2, InTables
<1>2. ASSUME NEW v \in Values PROVE Worth(v, EmptyBag) = 0
  <2> DEFINE a == [p \in Placement |-> Weight(EmptyBag, p) * v[p]]
  <2>1. \A p \in Placement : a[p] = 0
    BY <1>1 DEF Weight, Values
  <2> HIDE DEF a
  <2>2. SumOf(a, Placement) = 0
    BY <2>1, Finite, SumZero
  <2> QED
    BY <2>2 DEF Worth, a
<1> QED
    BY <1>1, <1>2

LEMMA WorthJoin ==
    ASSUME NEW A \in Tables, NEW B \in Tables
    PROVE  /\ A (+) B \in Tables /\ DOMAIN (A (+) B) = DOMAIN A \cup DOMAIN B
           /\ \A p : Weight(A (+) B, p) = Weight(A, p) + Weight(B, p)
           /\ \A v \in Values : Worth(v, A (+) B) = Worth(v, A) + Worth(v, B)
<1> DEFINE C == A (+) B
<1>1. C = [e \in (DOMAIN A) \cup (DOMAIN B) |-> Weight(A, e) + Weight(B, e)]
    BY DEF (+), Weight
<1> HIDE DEF C
<1>2. \A p : Weight(A, p) \in Nat /\ Weight(B, p) \in Nat
    BY InTables DEF Weight
<1>3. DOMAIN C = DOMAIN A \cup DOMAIN B /\ \A p \in DOMAIN C : C[p] \in Nat
    BY <1>1, <1>2
<1>4. C \in Tables
  <2>1. DOMAIN A \in SUBSET Placement /\ DOMAIN B \in SUBSET Placement
    BY InTables
  <2>2. C = [p \in DOMAIN C |-> C[p]] /\ DOMAIN C \in SUBSET Placement
    BY <1>1, <1>3, <2>1
  <2> QED
    BY <1>3, <2>2, InTables
<1>5. ASSUME NEW p PROVE Weight(C, p) = Weight(A, p) + Weight(B, p)
  <2>1. CASE p \in DOMAIN C
    <3>1. C[p] = Weight(A, p) + Weight(B, p)
        BY <1>1, <1>3, <2>1
    <3>2. Weight(C, p) = C[p]
        BY <2>1 DEF Weight
    <3> QED
        BY <3>1, <3>2
  <2>2. CASE p \notin DOMAIN C
    <3>1. Weight(A, p) = 0 /\ Weight(B, p) = 0 /\ Weight(C, p) = 0
        BY <1>3, <2>2 DEF Weight
    <3> QED
        BY <3>1
  <2> QED
    BY <2>1, <2>2
<1>6. ASSUME NEW v \in Values PROVE Worth(v, C) = Worth(v, A) + Worth(v, B)
  <2> DEFINE a == [p \in Placement |-> Weight(A, p) * v[p]]
             b == [p \in Placement |-> Weight(B, p) * v[p]]
             c == [p \in Placement |-> Weight(C, p) * v[p]]
  <2>1. Counts(a, Placement) /\ Counts(b, Placement)
    BY WorthNat
  <2>2. \A p \in Placement : c[p] = a[p] + b[p]
    <3>1. ASSUME NEW p \in Placement PROVE c[p] = a[p] + b[p]
      <4>1. PICK x \in Nat, y \in Nat, k \in Nat : x = Weight(A, p) /\ y = Weight(B, p) /\ k = v[p]
        BY <1>2 DEF Values
      <4>2. (x + y) * k = x * k + y * k
        BY <4>1
      <4> QED
        BY <1>5, <4>1, <4>2
    <3> QED
        BY <3>1
  <2> HIDE DEF a, b, c
  <2>3. SumOf(c, Placement) = SumOf(a, Placement) + SumOf(b, Placement)
    BY <2>1, <2>2, SumPlus
  <2> QED
    BY <2>3 DEF a, b, c, Worth
<1> QED
    BY <1>3, <1>4, <1>5, <1>6 DEF C

LEMMA WorthEntry ==
    ASSUME NEW q \in Placement, NEW w \in Nat
    PROVE  /\ Entry(q, w) \in Tables /\ DOMAIN Entry(q, w) = {q} /\ Entry(q, w)[q] = w
           /\ \A v \in Values : Worth(v, Entry(q, w)) = w * v[q]
<1> DEFINE B == Entry(q, w)
<1>1. DOMAIN B = {q} /\ B = [p \in DOMAIN B |-> B[p]] /\ (\A p \in DOMAIN B : B[p] = w) /\ DOMAIN B \in SUBSET Placement
    BY DEF Entry
<1>2. B \in Tables
    BY <1>1, InTables
<1> HIDE DEF B
<1>3. ASSUME NEW v \in Values PROVE Worth(v, B) = w * v[q]
  <2> DEFINE a == [p \in Placement |-> Weight(B, p) * v[p]]
  <2>1. Counts(a, Placement)
    BY <1>2, WorthNat
  <2>2. \A p \in Placement \ {q} : a[p] = 0
    BY <1>1 DEF Weight, Values
  <2>3. a[q] = w * v[q] /\ a[q] \in Nat
    BY <1>1, <2>1 DEF Weight, Counts
  <2> HIDE DEF a
  <2>4. SumOf(a, {q}) = SumOf(a, Placement)
    BY <2>1, <2>2, SumPart
  <2>5. SumOf(a, {q}) = a[q]
    BY <2>3, SumOne
  <2>6. SumOf(a, Placement) = w * v[q]
    BY <2>3, <2>4, <2>5
  <2> QED
    BY <2>6 DEF a, Worth
<1> QED
    BY <1>1, <1>2, <1>3 DEF B

LEMMA WorthTake ==
    ASSUME NEW B \in Tables, NEW q \in DOMAIN B, NEW C, C = [p \in DOMAIN B \ {q} |-> B[p]]
    PROVE  /\ C \in Tables /\ DOMAIN C = DOMAIN B \ {q} /\ \A p \in DOMAIN C : C[p] = B[p]
           /\ B[q] \in Nat /\ q \in Placement
           /\ \A v \in Values : Worth(v, B) = B[q] * v[q] + Worth(v, C)
<1>1. DOMAIN B \in SUBSET Placement /\ \A p \in DOMAIN B : B[p] \in Nat
    BY InTables
<1>2. DOMAIN C = DOMAIN B \ {q} /\ C = [p \in DOMAIN C |-> C[p]] /\ (\A p \in DOMAIN C : C[p] = B[p])
    OBVIOUS
<1>3. C \in Tables
  <2>1. DOMAIN C \in SUBSET Placement /\ \A p \in DOMAIN C : C[p] \in Nat
    BY <1>1, <1>2
  <2> QED
    BY <1>2, <2>1, InTables
<1>4. ASSUME NEW v \in Values PROVE Worth(v, B) = B[q] * v[q] + Worth(v, C)
  <2> DEFINE E == Entry(q, B[q])
             a == [p \in Placement |-> Weight(B, p) * v[p]]
             c == [p \in Placement |-> Weight(C, p) * v[p]]
             e == [p \in Placement |-> Weight(E, p) * v[p]]
  <2>1. q \in Placement /\ B[q] \in Nat /\ DOMAIN E = {q} /\ E[q] = B[q] /\ E \in Tables /\ Worth(v, E) = B[q] * v[q]
    BY <1>1, WorthEntry
  <2>2. Counts(e, Placement) /\ Counts(c, Placement)
    BY <1>3, <2>1, WorthNat
  <2>3. \A p \in Placement : a[p] = e[p] + c[p]
    <3>1. ASSUME NEW p \in Placement PROVE a[p] = e[p] + c[p]
      <4>1. CASE p = q
        <5>1. Weight(C, p) = 0 /\ Weight(E, p) = B[q] /\ Weight(B, p) = B[q]
            BY <1>2, <2>1, <4>1 DEF Weight
        <5>2. v[p] \in Nat /\ B[q] * v[p] \in Nat
            BY <2>1, Distributes DEF Values
        <5> QED
            BY <5>1, <5>2
      <4>2. CASE p # q
        <5>1. Weight(E, p) = 0 /\ Weight(C, p) = Weight(B, p) /\ Weight(B, p) \in Nat
            BY <1>1, <1>2, <2>1, <4>2 DEF Weight
        <5>2. v[p] \in Nat /\ Weight(B, p) * v[p] \in Nat
            BY <5>1, Distributes DEF Values
        <5> QED
            BY <5>1, <5>2
      <4> QED
        BY <4>1, <4>2
    <3> QED
        BY <3>1
  <2> HIDE DEF a, c, e, E
  <2>4. SumOf(a, Placement) = SumOf(e, Placement) + SumOf(c, Placement)
    BY <2>2, <2>3, SumPlus
  <2>5. Worth(v, B) = SumOf(a, Placement) /\ Worth(v, C) = SumOf(c, Placement) /\ Worth(v, E) = SumOf(e, Placement)
    BY DEF Worth, a, c, e
  <2> QED
    BY <2>1, <2>4, <2>5
<1> QED
    BY <1>1, <1>2, <1>3, <1>4

-----------------------------------------------------------------------------
(* The union of a family of tables.                                        *)
LEMMA WorthUnion ==
    ASSUME NEW S, IsFiniteSet(S), NEW f, DOMAIN f = S, \A x \in S : f[x] \in Tables
    PROVE  /\ Union(f) \in Tables
           /\ \A p : p \in DOMAIN Union(f) <=> \E x \in S : p \in DOMAIN f[x]
           /\ \A v \in Values : Worth(v, Union(f)) = SumOf([x \in S |-> Worth(v, f[x])], S)
<1> DEFINE D == SUBSET S
           r == [s \in D |-> Cardinality(s)]
           Joined(g, s) == IF s = {} THEN EmptyBag ELSE f[Picked(s)] (+) g[s \ {Picked(s)}]
           G == [q \in D \X [D -> Tables] |-> Joined(q[2], q[1])]
           Solves(g) == g = [s \in D |-> Joined(g, s)]
           g == CHOOSE h : Solves(h)
<1>1. /\ r \in [D -> Nat] /\ Cardinality(S) \in Nat
      /\ \A s \in D : IsFiniteSet(s) /\ r[s] <= Cardinality(S)
  <2>1. \A s \in D : IsFiniteSet(s) /\ Cardinality(s) <= Cardinality(S) /\ Cardinality(s) \in Nat
    BY FS_Subset, FS_CardinalityType
  <2> QED
    BY <2>1, FS_CardinalityType
<1>2. ASSUME NEW s \in D, s # {}
      PROVE  /\ Picked(s) \in s /\ s \ {Picked(s)} \in D /\ r[s \ {Picked(s)}] < r[s] /\ f[Picked(s)] \in Tables
  <2>1. Picked(s) \in s
    BY <1>2 DEF Picked
  <2>2. Cardinality(s \ {Picked(s)}) = Cardinality(s) - 1 /\ Cardinality(s) \in Nat
    BY <1>1, <2>1, Removed
  <2> QED
    BY <2>1, <2>2
<1>3. \A s \in D : \A h \in [D -> Tables] : Joined(h, s) \in Tables
  <2> SUFFICES ASSUME NEW s \in D, NEW h \in [D -> Tables] PROVE Joined(h, s) \in Tables
    OBVIOUS
  <2>1. CASE s = {}
    BY <2>1, WorthEmpty
  <2>2. CASE s # {}
    <3>1. f[Picked(s)] \in Tables /\ h[s \ {Picked(s)}] \in Tables
        BY <1>2, <2>2
    <3>2. f[Picked(s)] (+) h[s \ {Picked(s)}] \in Tables
        BY <3>1, WorthJoin
    <3> QED
        BY <2>2, <3>2
  <2> QED
    BY <2>1, <2>2
<1>4. G \in [D \X [D -> Tables] -> Tables] /\ \A s \in D : \A h \in [D -> Tables] : G[<<s, h>>] = Joined(h, s)
  <2> HIDE DEF Joined
  <2>1. \A s \in D : \A h \in [D -> Tables] : <<s, h>> \in D \X [D -> Tables] /\ <<s, h>>[1] = s /\ <<s, h>>[2] = h
    OBVIOUS
  <2>2. \A q \in D \X [D -> Tables] : Joined(q[2], q[1]) \in Tables
    BY <1>3
  <2> QED
    BY <2>1, <2>2
<1>5. ASSUME NEW s \in D, NEW h \in [D -> Tables], NEW k \in [D -> Tables],
             \A y \in D : r[y] < r[s] => h[y] = k[y]
      PROVE  G[<<s, h>>] = G[<<s, k>>]
  <2>1. CASE s = {}
    <3>1. Joined(h, s) = Joined(k, s)
        BY <2>1
    <3> QED
        BY <1>4, <3>1
  <2>2. CASE s # {}
    <3>1. h[s \ {Picked(s)}] = k[s \ {Picked(s)}]
        BY <1>2, <1>5, <2>2
    <3>2. Joined(h, s) = Joined(k, s)
        BY <3>1
    <3> QED
        BY <1>4, <3>2
  <2> QED
    BY <2>1, <2>2
<1>6. Recurses(D, Tables, r, Cardinality(S), G)
  <2>1. Tables # {} /\ Cardinality(S) \in Nat
    BY <1>1, WorthEmpty
  <2>2. G \in [D \X [D -> Tables] -> Tables]
    BY <1>4
  <2>3. r \in [D -> Nat] /\ \A s \in D : r[s] <= Cardinality(S)
    BY <1>1
  <2>4. \A s \in D : \A h, k \in [D -> Tables] :
            (\A y \in D : r[y] < r[s] => h[y] = k[y]) => G[<<s, h>>] = G[<<s, k>>]
    <3> HIDE DEF D, r, G
    <3> QED BY <1>5
  <2> HIDE DEF D, r, G
  <2> QED
    BY <2>1, <2>2, <2>3, <2>4 DEF Recurses
<1>7. PICK h \in [D -> Tables] : \A s \in D : h[s] = Joined(h, s)
  <2>1. PICK h \in [D -> Tables] : \A s \in D : h[s] = G[<<s, h>>]
    <3> HIDE DEF D, r, G
    <3> QED BY <1>6, Recursion
  <2>2. \A s \in D : h[s] = Joined(h, s)
    <3> HIDE DEF D, r, G, Joined
    <3> QED BY <1>4, <2>1
  <2> QED
    BY <2>2
<1>8. Solves(h)
  <2> HIDE DEF Joined
  <2> QED BY <1>7
<1>9. Solves(g)
  <2> HIDE DEF Solves
  <2> QED BY <1>8
<1>10. \A s \in D : g[s] = Joined(g, s)
  <2>1. g = [s \in D |-> Joined(g, s)]
    BY <1>9
  <2> HIDE DEF g, Joined
  <2> QED BY <2>1
<1>11. Union(f) = g[S]
  <2>1. FoldFunctionOnSet((+), EmptyBag, f, S) = g[S]
    BY DEF FoldFunctionOnSet, MapThenFoldSet, Picked
  <2> QED
    BY <2>1 DEF Union, FoldFunction
<1> HIDE DEF g, Solves, G
<1> DEFINE Worths(v) == [x \in S |-> Worth(v, f[x])]
           P == {s \in D : /\ g[s] \in Tables
                           /\ \A p : p \in DOMAIN g[s] <=> \E x \in s : p \in DOMAIN f[x]
                           /\ \A v \in Values : Worth(v, g[s]) = SumOf(Worths(v), s)}
<1>12. ASSUME NEW s \in D, \A y \in D : r[y] < r[s] => y \in P PROVE s \in P
  <2>1. CASE s = {}
    <3>1. g[s] = EmptyBag
        BY <1>10, <2>1
    <3>2. \A v \in Values : Worth(v, g[s]) = SumOf(Worths(v), s)
        BY <2>1, <3>1, WorthEmpty, SumEmpty
    <3> HIDE DEF Worths
    <3> QED
        BY <2>1, <3>1, <3>2, WorthEmpty
  <2>2. CASE s # {}
    <3>1. PICK x, y : x = Picked(s) /\ y = s \ {x}
        OBVIOUS
    <3>2. x \in s /\ y \in D /\ r[y] < r[s] /\ f[x] \in Tables /\ x \in S /\ s = y \cup {x} /\ x \notin y
        BY <1>2, <2>2, <3>1
    <3>3. y \in P /\ g[s] = f[x] (+) g[y]
        BY <1>10, <1>12, <2>2, <3>1, <3>2
    <3>4. g[s] \in Tables /\ DOMAIN g[s] = DOMAIN f[x] \cup DOMAIN g[y]
          /\ \A v \in Values : Worth(v, g[s]) = Worth(v, f[x]) + Worth(v, g[y])
      <4>1. PICK A, B : A = f[x] /\ B = g[y]
        OBVIOUS
      <4>2. A \in Tables /\ B \in Tables /\ g[s] = A (+) B
        BY <3>2, <3>3, <4>1
      <4>3. /\ A (+) B \in Tables /\ DOMAIN (A (+) B) = DOMAIN A \cup DOMAIN B
            /\ \A v \in Values : Worth(v, A (+) B) = Worth(v, A) + Worth(v, B)
        BY <4>2, WorthJoin
      <4> QED
        BY <4>1, <4>2, <4>3
    <3>5. \A p : p \in DOMAIN g[s] <=> \E e \in s : p \in DOMAIN f[e]
        BY <3>2, <3>3, <3>4
    <3>6. ASSUME NEW v \in Values PROVE Worth(v, g[s]) = SumOf(Worths(v), s)
      <4>1. Counts(Worths(v), S)
        <5>1. \A e \in S : Worths(v)[e] \in Nat
            BY WorthNat
        <5> QED
            BY <5>1 DEF Counts
      <4>2. Worths(v)[x] = Worth(v, f[x])
        BY <3>2
      <4>3. Worth(v, g[s]) = Worth(v, f[x]) + SumOf(Worths(v), y)
        BY <3>3, <3>4
      <4> HIDE DEF Worths
      <4>4. Counts(Worths(v), y) /\ Worths(v)[x] \in Nat
        BY <3>2, <4>1, CountsPart DEF Counts
      <4>5. SumOf(Worths(v), y \cup {x}) = Worths(v)[x] + SumOf(Worths(v), y)
        BY <3>2, <4>4, SumInsert
      <4> QED
        BY <3>2, <4>2, <4>3, <4>5
    <3> HIDE DEF Worths
    <3> QED
        BY <3>4, <3>5, <3>6
  <2> QED
    BY <2>1, <2>2
<1>13. \A s \in D : s \in P
  <2> HIDE DEF D, r, P
  <2> QED BY <1>1, <1>12, RankInduction
<1> HIDE DEF Worths
<1>14. S \in P
  <2> HIDE DEF P
  <2> QED BY <1>13
<1>15. g[S] \in Tables /\ (\A p : p \in DOMAIN g[S] <=> \E x \in S : p \in DOMAIN f[x])
       /\ \A v \in Values : Worth(v, g[S]) = SumOf(Worths(v), S)
    BY <1>14
<1> QED
    BY <1>11, <1>15 DEF Worths

-----------------------------------------------------------------------------
(* A class is named by one of its placements, the same for all of them.    *)
LEMMA ClassImage ==
    ASSUME NEW z \in Placement
    PROVE  /\ ClassOf(z) \in Images(z)
           /\ \A u \in Transforms : ClassOf(Move(u, z)) = ClassOf(z)
<1>1. z = <<z[1], z[2]>> /\ z[1] \in State /\ z[2] \in Cell
    BY Spots
<1>2. PICK K : /\ CanonicalClass(z[1], z[2]) = [K |-> K, rep |-> Min(Beside(K, <<z[1], z[2]>>)),
                                                orbitSize |-> Cardinality(Images(<<z[1], z[2]>>))]
               /\ <<K, Min(Beside(K, <<z[1], z[2]>>))>> \in Images(<<z[1], z[2]>>)
    BY <1>1, ClassOfOrbit
<1>3. ClassOf(z) = <<K, Min(Beside(K, <<z[1], z[2]>>))>>
    BY <1>2 DEF ClassOf
<1>4. ClassOf(z) \in Images(z)
    BY <1>1, <1>2, <1>3
<1>5. ASSUME NEW u \in Transforms PROVE ClassOf(Move(u, z)) = ClassOf(z)
  <2>1. CanonicalClass(transformState(u, z[1]), perms[u][z[2]]) = CanonicalClass(z[1], z[2])
    BY <1>1, SameClass
  <2>2. Move(u, z)[1] = transformState(u, z[1]) /\ Move(u, z)[2] = perms[u][z[2]]
    BY Images1
  <2> QED
    BY <2>1, <2>2 DEF ClassOf
<1> QED
    BY <1>4, <1>5

Gated(z) == ShouldPruneState(z[2], Rest(z))
Passing(z) == \E t \in Transforms : ~ Gated(Move(t, z))
LeftOut(z) == Level(z) = 1 /\ ShouldSkip(z[2])

(* The colour that is skipped.                                             *)
LEMMA Colour ==
    ASSUME Size % 2 # 0, NEW c \in Cell
    PROVE  c % 2 = (RowOf(c) + ColumnOf(c)) % 2
<1>1. PICK p, q : p = RowOf(c) /\ q = ColumnOf(c)
    OBVIOUS
<1>2. p \in Int /\ q \in Int /\ c = p * Size + q /\ c \in Int
    BY <1>1, Points, Boards
<1>3. Size = 1 \/ Size = 3 \/ Size = 5 \/ Size = 7
    BY BoardAssumption
<1>8. p \in Int /\ q \in Int /\ c \in Int
    BY <1>2
<1>4. CASE Size = 1
    BY <1>1, <1>2, <1>4
<1>5. CASE Size = 3
  <2>1. c = p * 3 + q
    BY <1>2, <1>5
  <2>2. c % 2 = (p + q) % 2
    BY <1>8, <2>1
  <2> QED
    BY <1>1, <2>2
<1>6. CASE Size = 5
  <2>1. c = p * 5 + q
    BY <1>2, <1>6
  <2>2. c % 2 = (p + q) % 2
    BY <1>8, <2>1
  <2> QED
    BY <1>1, <2>2
<1>7. CASE Size = 7
  <2>1. c = p * 7 + q
    BY <1>2, <1>7
  <2>2. c % 2 = (p + q) % 2
    BY <1>8, <2>1
  <2> QED
    BY <1>1, <2>2
<1> QED
    BY <1>3, <1>4, <1>5, <1>6, <1>7

LEMMA SkipMoves ==
    ASSUME NEW t \in Transforms, NEW c \in Cell
    PROVE  ShouldSkip(perms[t][c]) <=> ShouldSkip(c)
<1>1. CASE Size % 2 = 0
    BY <1>1 DEF ShouldSkip
<1>2. CASE Size % 2 # 0
  <2>1. PICK d, x, y, p, q : d = perms[t][c] /\ x = RowOf(c) /\ y = ColumnOf(c) /\ p = RowOf(d) /\ q = ColumnOf(d)
    OBVIOUS
  <2>2. d \in Cell /\ x \in Int /\ y \in Int /\ p \in Int /\ q \in Int /\ Moved(t, x, y) = <<p, q>>
    <3>1. d \in Cell
        BY <2>1, PermsMove
    <3>2. Moved(t, x, y) = <<p, q>>
        BY <2>1, PermsMove
    <3>3. x \in Int /\ y \in Int
        BY <2>1, Coordinates
    <3>4. p \in Int /\ q \in Int
        BY <2>1, <3>1, Coordinates
    <3> QED
        BY <3>1, <3>2, <3>3, <3>4
  <2>3. PICK m \in Int : m = Size - 1
    BY BoardAssumption
  <2>4. m % 2 = 0
    BY <1>2, <2>3, BoardAssumption
  <2>5. (p + q) % 2 = (x + y) % 2
    <3>1. t = 0 => p = x /\ q = y
        BY <2>2, <2>3, Moves
    <3>2. t = 1 => p = y /\ q = m - x
        BY <2>2, <2>3, Moves
    <3>3. t = 2 => p = m - x /\ q = m - y
        BY <2>2, <2>3, Moves
    <3>4. t = 3 => p = m - y /\ q = x
        BY <2>2, <2>3, Moves
    <3>5. t = 4 => p = x /\ q = m - y
        BY <2>2, <2>3, Moves
    <3>6. t = 5 => p = m - x /\ q = y
        BY <2>2, <2>3, Moves
    <3>7. t = 6 => p = y /\ q = x
        BY <2>2, <2>3, Moves
    <3>8. t = 7 => p = m - y /\ q = m - x
        BY <2>2, <2>3, Moves
    <3>9. t = 0 \/ t = 1 \/ t = 2 \/ t = 3 \/ t = 4 \/ t = 5 \/ t = 6 \/ t = 7
        BY DEF Transforms
    <3> HIDE DEF Moved
    <3> QED
        BY <2>2, <2>3, <2>4, <3>1, <3>2, <3>3, <3>4, <3>5, <3>6, <3>7, <3>8, <3>9
  <2>6. d % 2 = (p + q) % 2 /\ c % 2 = (x + y) % 2
    BY <1>2, <2>1, <2>2, Colour
  <2> QED
    BY <2>1, <2>5, <2>6 DEF ShouldSkip
<1> QED
    BY <1>1, <1>2

LEMMA LeftOutMoves ==
    ASSUME NEW t \in Transforms, NEW z \in Placement
    PROVE  LeftOut(Move(t, z)) <=> LeftOut(z)
<1>1. z[2] \in Cell /\ Move(t, z)[2] = perms[t][z[2]] /\ Level(Move(t, z)) = Level(z)
    BY Spots, Images1, LevelsMove
<1>2. ShouldSkip(perms[t][z[2]]) <=> ShouldSkip(z[2])
    BY <1>1, SkipMoves
<1> QED
    BY <1>1, <1>2 DEF LeftOut

LEMMA ClassStays ==
    ASSUME NEW z \in Placement
    PROVE  /\ ClassOf(z) \in Placement /\ ClassOf(ClassOf(z)) = ClassOf(z)
           /\ z \in Partial => ClassOf(z) \in Partial
           /\ Level(ClassOf(z)) = Level(z) /\ Paths(ClassOf(z)) = Paths(z) /\ Ext(ClassOf(z)) = Ext(z)
           /\ ~ Gated(z) => Passing(ClassOf(z))
           /\ Images(ClassOf(z)) = Images(z)
           /\ LeftOut(ClassOf(z)) <=> LeftOut(z)
<1>1. PICK t \in Transforms : ClassOf(z) = Move(t, z)
    BY ClassImage DEF Images
<1>2. ClassOf(z) \in Placement /\ ClassOf(ClassOf(z)) = ClassOf(z)
    BY <1>1, ClassImage, Acts
<1>3. z \in Partial => ClassOf(z) \in Partial
    BY <1>1, Images1
<1>4. Level(ClassOf(z)) = Level(z) /\ Paths(ClassOf(z)) = Paths(z) /\ Ext(ClassOf(z)) = Ext(z)
    BY <1>1, LevelsMove, PathsMove, ExtMove
<1>5. ~ Gated(z) => Passing(ClassOf(z))
  <2>1. Undo(t) \in Transforms /\ Move(Undo(t), ClassOf(z)) = z
    BY <1>1, Acts
  <2> QED
    BY <2>1 DEF Passing
<1>6. Images(ClassOf(z)) = Images(z)
    BY <1>1, ImagesSame
<1>7. LeftOut(ClassOf(z)) <=> LeftOut(z)
    BY <1>1, LeftOutMoves
<1> QED
    BY <1>2, <1>3, <1>4, <1>5, <1>6, <1>7

-----------------------------------------------------------------------------
(* What dfsTask writes.                                                    *)
WrittenBy(g, z, d, w) ==
    IF Level(z) < d THEN Union([n \in Steps(z) |-> g[Visit(z, n)]])
    ELSE IF Gated(z) THEN EmptyBag ELSE Entry(ClassOf(z), w)

LEMMA StepsFinite ==
    ASSUME NEW z \in Placement
    PROVE  /\ IsFiniteSet(Steps(z))
           /\ \A n \in Steps(z) : /\ n \in Onward(z) /\ Visit(z, n) \in Placement /\ Visit(z, n) \in Partial
                                  /\ Cardinality(Rest(Visit(z, n))) < Cardinality(Rest(z))
                                  /\ Level(Visit(z, n)) = Level(z) + 1
<1>1. Steps(z) \in SUBSET Onward(z) /\ IsFiniteSet(Onward(z))
    BY Spots, StepsKeep
<1> QED
    BY <1>1, Visits, FS_Subset

LEMMA WrittenIn ==
    ASSUME NEW z \in Placement, NEW d \in Nat, NEW w \in Nat, NEW g, \A n \in Steps(z) : g[Visit(z, n)] \in Tables
    PROVE  WrittenBy(g, z, d, w) \in Tables
<1>1. CASE Level(z) < d
  <2> DEFINE f == [n \in Steps(z) |-> g[Visit(z, n)]]
  <2>1. IsFiniteSet(Steps(z)) /\ DOMAIN f = Steps(z) /\ \A n \in Steps(z) : f[n] \in Tables
    BY StepsFinite
  <2> HIDE DEF f
  <2>2. Union(f) \in Tables
    BY <2>1, WorthUnion
  <2> QED
    BY <1>1, <2>2 DEF WrittenBy, f
<1>2. CASE ~ (Level(z) < d)
  <2>1. EmptyBag \in Tables /\ Entry(ClassOf(z), w) \in Tables
    BY WorthEmpty, WorthEntry, ClassStays
  <2> QED
    BY <1>2, <2>1 DEF WrittenBy
<1> QED
    BY <1>1, <1>2

LEMMA WrittenSolved ==
    ASSUME NEW d \in Nat, NEW w \in Nat
    PROVE  \E h \in [Placement -> Tables] : \A z \in Placement : h[z] = WrittenBy(h, z, d, w)
<1> DEFINE D == Placement
           r == [z \in D |-> Cardinality(Rest(z))]
           G == [q \in D \X [D -> Tables] |-> WrittenBy(q[2], q[1], d, w)]
<1>1. r \in [D -> Nat] /\ (\A z \in D : r[z] <= totalCells) /\ totalCells \in Nat
  <2>1. \A z \in D : Cardinality(Rest(z)) \in Nat /\ Cardinality(Rest(z)) <= totalCells
    BY Levels, Cells
  <2> QED
    BY <2>1, Cells
<1>2. ASSUME NEW z \in D, NEW g \in [D -> Tables] PROVE WrittenBy(g, z, d, w) \in Tables
    BY StepsFinite, WrittenIn
<1>3. G \in [D \X [D -> Tables] -> Tables] /\ \A z \in D : \A g \in [D -> Tables] : G[<<z, g>>] = WrittenBy(g, z, d, w)
  <2>1. \A z \in D : \A g \in [D -> Tables] : <<z, g>> \in D \X [D -> Tables] /\ <<z, g>>[1] = z /\ <<z, g>>[2] = g
    OBVIOUS
  <2>2. \A q \in D \X [D -> Tables] : WrittenBy(q[2], q[1], d, w) \in Tables
    BY <1>2
  <2> QED
    BY <2>1, <2>2
<1>4. ASSUME NEW z \in D, NEW f \in [D -> Tables], NEW g \in [D -> Tables], \A y \in D : r[y] < r[z] => f[y] = g[y]
      PROVE  G[<<z, f>>] = G[<<z, g>>]
  <2>1. \A n \in Steps(z) : f[Visit(z, n)] = g[Visit(z, n)]
    BY <1>4, StepsFinite
  <2>2. [n \in Steps(z) |-> f[Visit(z, n)]] = [n \in Steps(z) |-> g[Visit(z, n)]]
    BY <2>1
  <2>3. WrittenBy(f, z, d, w) = WrittenBy(g, z, d, w)
    BY <2>2 DEF WrittenBy
  <2> QED
    BY <1>3, <2>3
<1>5. PICK h \in [D -> Tables] : \A z \in D : h[z] = G[<<z, h>>]
  <2>1. G \in [D \X [D -> Tables] -> Tables]
    BY <1>3
  <2>2. Tables # {} /\ totalCells \in Nat
    BY Cells, WorthEmpty
  <2>3. \A z \in D : \A f, g \in [D -> Tables] : (\A y \in D : r[y] < r[z] => f[y] = g[y]) => G[<<z, f>>] = G[<<z, g>>]
    BY <1>4
  <2>4. r \in [D -> Nat] /\ \A z \in D : r[z] <= totalCells
    BY <1>1
  <2> HIDE DEF r, G, D
  <2>5. Recurses(D, Tables, r, totalCells, G)
    BY <2>1, <2>2, <2>3, <2>4 DEF Recurses
  <2> QED
    BY <2>5, Recursion
<1> QED
    BY <1>3, <1>5

LEMMA Written ==
    ASSUME NEW d \in Nat, NEW w \in Nat
    PROVE  \E k : \A z \in Placement : k[z] = WrittenBy(k, z, d, w) /\ dfsTask(z, d, w) = k[z]
<1> DEFINE Solves(g) == g = [p \in Placement |->
                IF Cardinality(p[1]) < d THEN Union([n \in Steps(p) |-> g[Visit(p, n)]])
                ELSE IF ShouldPruneState(p[2], Rest(p)) THEN EmptyBag ELSE Entry(ClassOf(p), w)]
           k == CHOOSE g : Solves(g)
<1>1. PICK h \in [Placement -> Tables] : \A z \in Placement : h[z] = WrittenBy(h, z, d, w)
    BY WrittenSolved
<1>2. Solves(h)
  <2> DEFINE rhs == [p \in Placement |->
                IF Cardinality(p[1]) < d THEN Union([n \in Steps(p) |-> h[Visit(p, n)]])
                ELSE IF ShouldPruneState(p[2], Rest(p)) THEN EmptyBag ELSE Entry(ClassOf(p), w)]
  <2>1. ASSUME NEW z \in Placement PROVE rhs[z] = h[z]
    <3>1. rhs[z] = WrittenBy(h, z, d, w)
        BY DEF WrittenBy, Level, Gated
    <3> QED
        BY <1>1, <3>1
  <2>2. h = rhs
    <3> HIDE DEF rhs
    <3>1. DOMAIN rhs = Placement /\ rhs = [z \in Placement |-> rhs[z]]
        BY DEF rhs
    <3> QED
        BY <2>1, <3>1
  <2> QED
    BY <2>2
<1>3. Solves(k)
  <2> HIDE DEF Solves
  <2> QED BY <1>2
<1>4. ASSUME NEW z \in Placement PROVE k[z] = WrittenBy(k, z, d, w)
  <2>1. k = [p \in Placement |->
                IF Cardinality(p[1]) < d THEN Union([n \in Steps(p) |-> k[Visit(p, n)]])
                ELSE IF ShouldPruneState(p[2], Rest(p)) THEN EmptyBag ELSE Entry(ClassOf(p), w)]
    BY <1>3
  <2> HIDE DEF k, Solves
  <2> QED
    BY <2>1 DEF WrittenBy, Level, Gated
<1>5. \A z \in Placement : dfsTask(z, d, w) = k[z]
    BY DEF dfsTask
<1> HIDE DEF k, Solves
<1> QED
    BY <1>4, <1>5

-----------------------------------------------------------------------------
(* A value that the descents to depth d carry: the same for all placements *)
(* of a class, handed on over the steps that are taken, and nothing where  *)
(* a descent is cut.                                                       *)
Carried(v, d) ==
    /\ v \in Values
    /\ \A t \in Transforms : \A z \in Placement : v[Move(t, z)] = v[z]
    /\ \A z \in Partial : Level(z) < d /\ ~ LeftOut(z) => v[z] = SumOf([n \in Steps(z) |-> v[Visit(z, n)]], Steps(z))
    /\ \A z \in Partial : LeftOut(z) \/ (Level(z) = d /\ Gated(z)) => v[z] = 0

(* Placements that a table of depth d may hold.                            *)
Reached(d) == {p \in Partial : Level(p) = d /\ Paths(p) > 0 /\ ClassOf(p) = p /\ Passing(p) /\ ~ LeftOut(p)}

(* What a descent from z writes has the weight's worth of z.               *)
Carries(T, z, d, w) ==
    /\ T \in Tables
    /\ DOMAIN T \subseteq Reached(d)
    /\ \A v : Carried(v, d) => Worth(v, T) = w * v[z]

LEMMA CarriesLast ==
    ASSUME NEW d \in Nat, NEW w \in Nat, NEW z \in Partial, Level(z) = d, Paths(z) > 0, ~ LeftOut(z), NEW k
    PROVE  Carries(WrittenBy(k, z, d, w), z, d, w)
<1> DEFINE T == WrittenBy(k, z, d, w)
<1>1. z \in Placement /\ ~ (Level(z) < d)
    BY DEF Partial
<1>2. CASE Gated(z)
  <2>1. T = EmptyBag
    BY <1>1, <1>2 DEF WrittenBy
  <2>2. T \in Tables /\ DOMAIN T = {} /\ \A v \in Values : Worth(v, T) = 0
    BY <2>1, WorthEmpty
  <2>3. ASSUME NEW v, Carried(v, d) PROVE Worth(v, T) = w * v[z]
    <3>1. v \in Values /\ v[z] = 0
        BY <1>2, <2>3 DEF Carried
    <3>2. w * v[z] = 0
        BY <3>1
    <3> QED
        BY <2>2, <3>1, <3>2
  <2> QED
    BY <2>2, <2>3 DEF Carries
<1>3. CASE ~ Gated(z)
  <2>1. T = Entry(ClassOf(z), w)
    BY <1>1, <1>3 DEF WrittenBy
  <2>2. ClassOf(z) \in Placement /\ ClassOf(z) \in Reached(d)
    BY <1>1, <1>3, ClassStays DEF Reached
  <2>3. T \in Tables /\ DOMAIN T = {ClassOf(z)} /\ \A v \in Values : Worth(v, T) = w * v[ClassOf(z)]
    BY <2>1, <2>2, WorthEntry
  <2>4. ASSUME NEW v, Carried(v, d) PROVE Worth(v, T) = w * v[z]
    <3>1. PICK t \in Transforms : ClassOf(z) = Move(t, z)
        BY <1>1, ClassImage DEF Images
    <3>2. v \in Values /\ v[ClassOf(z)] = v[z]
        BY <1>1, <2>4, <3>1 DEF Carried
    <3> QED
        BY <2>3, <3>2
  <2> QED
    BY <2>2, <2>3, <2>4 DEF Carries
<1> QED
    BY <1>2, <1>3

LEMMA CarriesOn ==
    ASSUME NEW d \in Nat, NEW w \in Nat, NEW z \in Partial, Level(z) < d, ~ LeftOut(z), NEW k,
           \A n \in Steps(z) : Carries(k[Visit(z, n)], Visit(z, n), d, w)
    PROVE  Carries(WrittenBy(k, z, d, w), z, d, w)
<1> DEFINE f == [n \in Steps(z) |-> k[Visit(z, n)]]
           S == Steps(z)
<1>1. z \in Placement /\ IsFiniteSet(S)
    BY StepsFinite DEF Partial
<1>2. DOMAIN f = S /\ \A n \in S : f[n] \in Tables /\ Carries(f[n], Visit(z, n), d, w)
    BY DEF Carries
<1>3. WrittenBy(k, z, d, w) = Union(f)
    BY DEF WrittenBy
<1> HIDE DEF f, S
<1>4. /\ Union(f) \in Tables
      /\ \A p : p \in DOMAIN Union(f) <=> \E n \in S : p \in DOMAIN f[n]
      /\ \A v \in Values : Worth(v, Union(f)) = SumOf([n \in S |-> Worth(v, f[n])], S)
    BY <1>1, <1>2, WorthUnion
<1>5. DOMAIN Union(f) \subseteq Reached(d)
    BY <1>2, <1>4 DEF Carries
<1>6. ASSUME NEW v, Carried(v, d) PROVE Worth(v, Union(f)) = w * v[z]
  <2> DEFINE a == [n \in S |-> v[Visit(z, n)]]
             b == [n \in S |-> Worth(v, f[n])]
  <2>1. v \in Values /\ v[z] = SumOf(a, S)
    BY <1>6 DEF Carried, S
  <2>2. Counts(a, S)
    <3>1. \A n \in S : Visit(z, n) \in Placement
        BY <1>1, StepsFinite DEF S
    <3>2. \A n \in S : a[n] \in Nat
        BY <2>1, <3>1 DEF Values
    <3> QED
        BY <1>1, <3>2 DEF Counts
  <2>3. \A n \in S : b[n] = w * a[n]
    BY <1>2, <1>6 DEF Carries
  <2>4. SumOf(b, S) = w * SumOf(a, S)
    <3> HIDE DEF a, b
    <3> QED BY <2>2, <2>3, SumScale
  <2>5. Worth(v, Union(f)) = SumOf(b, S)
    BY <1>4, <2>1
  <2> HIDE DEF a, b
  <2> QED
    BY <2>1, <2>4, <2>5
<1> QED
    BY <1>3, <1>4, <1>5, <1>6 DEF Carries

LEMMA Transfer ==
    ASSUME NEW d \in Nat, NEW w \in Nat, NEW z \in Partial, Level(z) <= d, Paths(z) > 0, ~ LeftOut(z)
    PROVE  Carries(dfsTask(z, d, w), z, d, w)
<1>1. PICK k : \A y \in Placement : k[y] = WrittenBy(k, y, d, w) /\ dfsTask(y, d, w) = k[y]
    BY Written
<1> DEFINE r == [y \in Partial |-> Cardinality(Rest(y))]
           P == {y \in Partial : Level(y) <= d /\ Paths(y) > 0 /\ ~ LeftOut(y) => Carries(k[y], y, d, w)}
<1>2. \A y \in Partial : y \in Placement /\ Level(y) \in Nat /\ Level(y) >= 1 /\ Cardinality(Rest(y)) \in Nat
    BY Levels DEF Partial
<1>3. r \in [Partial -> Nat]
    BY <1>2
<1>4. ASSUME NEW y \in Partial, \A x \in Partial : r[x] < r[y] => x \in P PROVE y \in P
  <2> SUFFICES ASSUME Level(y) <= d, Paths(y) > 0, ~ LeftOut(y) PROVE Carries(k[y], y, d, w)
    OBVIOUS
  <2>1. k[y] = WrittenBy(k, y, d, w)
    BY <1>1, <1>2
  <2>2. CASE Level(y) = d
    BY <2>1, <2>2, CarriesLast
  <2>3. CASE Level(y) < d
    <3>1. ASSUME NEW n \in Steps(y) PROVE Carries(k[Visit(y, n)], Visit(y, n), d, w)
      <4>1. PICK x : x = Visit(y, n)
        OBVIOUS
      <4>2. n \in Onward(y) /\ x \in Partial /\ r[x] < r[y] /\ Level(x) = Level(y) + 1
        BY <1>2, <4>1, StepsFinite
      <4>3. Paths(x) > 0
        BY <4>1, <4>2, PathsGrow
      <4>4. Level(x) <= d /\ ~ LeftOut(x)
        BY <1>2, <2>3, <4>2 DEF LeftOut
      <4>5. x \in P
        BY <1>4, <4>2
      <4> QED
        BY <4>1, <4>3, <4>4, <4>5
    <3> QED
        BY <2>1, <2>3, <3>1, CarriesOn
  <2> QED
    BY <1>2, <2>2, <2>3
<1>5. \A y \in Partial : y \in P
  <2> HIDE DEF P, r
  <2> QED BY <1>3, <1>4, RankInduction
<1>6. z \in Placement
    BY <1>2
<1> QED
    BY <1>1, <1>5, <1>6

-----------------------------------------------------------------------------
(* A value that splits over all ways on, and is positive only where there  *)
(* is a way to the full board, is carried by the descents.                 *)
Harmonic(v, d) ==
    /\ v \in Values
    /\ \A t \in Transforms : \A z \in Placement : v[Move(t, z)] = v[z]
    /\ \A z \in Partial : Level(z) < d => v[z] = SumOf([n \in Onward(z) |-> v[Visit(z, n)]], Onward(z))
    /\ \A z \in Partial : v[z] > 0 => Ext(z) > 0

LEMMA Start1 ==
    ASSUME NEW c \in Cell
    PROVE  /\ <<{c}, c>> \in Partial /\ <<{c}, c>> \in Placement /\ Level(<<{c}, c>>) = 1 /\ Paths(<<{c}, c>>) = 1
           /\ <<{c}, c>>[1] = {c} /\ <<{c}, c>>[2] = c
<1>1. <<{c}, c>> \in Placement /\ <<{c}, c>>[1] = {c} /\ <<{c}, c>>[2] = c
    BY DEF Placement, State
<1>2. Cardinality({c}) = 1
    BY FS_Singleton
<1>3. Paths(<<{c}, c>>) = 1
    BY <1>1, PathsUnfold
<1> QED
    BY <1>1, <1>2, <1>3 DEF Partial, Level

LEMMA OnlyCell ==
    ASSUME NEW z \in Partial, Level(z) = 1
    PROVE  z[2] \in Cell /\ z = <<{z[2]}, z[2]>>
<1>1. z \in Placement /\ z[2] \in z[1]
    BY DEF Partial
<1>2. z = <<z[1], z[2]>> /\ z[2] \in Cell /\ IsFiniteSet(z[1])
    BY <1>1, Spots
<1>3. Cardinality(z[1] \ {z[2]}) = 0 /\ IsFiniteSet(z[1] \ {z[2]})
  <2>1. Cardinality(z[1] \ {z[2]}) = Cardinality(z[1]) - 1
    BY <1>1, <1>2, Removed
  <2>2. IsFiniteSet(z[1] \ {z[2]})
    BY <1>2, FS_Subset
  <2> QED
    BY <2>1, <2>2 DEF Level
<1>4. z[1] \ {z[2]} = {}
    BY <1>3, FS_EmptySet
<1>5. z[1] = {z[2]}
    BY <1>1, <1>4
<1> QED
    BY <1>2, <1>5

LEMMA HarmonicCarried ==
    ASSUME NEW d \in 1 .. totalCells, NEW v, Harmonic(v, d)
    PROVE  Carried(v, d)
<1>1. v \in Values /\ \A z \in Placement : v[z] \in Nat
    BY DEF Harmonic, Values
<1>2. ASSUME NEW z \in Partial, Ext(z) = 0 PROVE v[z] = 0
    BY <1>1, <1>2 DEF Harmonic, Partial
<1>3. ASSUME NEW z \in Partial, Level(z) < d
      PROVE  v[z] = SumOf([n \in Steps(z) |-> v[Visit(z, n)]], Steps(z))
  <2> DEFINE a == [n \in Onward(z) |-> v[Visit(z, n)]]
             b == [n \in Steps(z) |-> v[Visit(z, n)]]
  <2>1. z \in Placement /\ Steps(z) \in SUBSET Onward(z) /\ IsFiniteSet(Onward(z))
    BY Spots, StepsKeep DEF Partial
  <2>2. \A n \in Onward(z) : a[n] = v[Visit(z, n)] /\ Visit(z, n) \in Partial /\ Visit(z, n) \in Placement
    BY <2>1, Visits
  <2>3. Counts(a, Onward(z))
    BY <1>1, <2>1, <2>2 DEF Counts
  <2>4. \A n \in Onward(z) \ Steps(z) : a[n] = 0
    BY <1>2, <2>1, <2>2, StepsKeep
  <2>5. v[z] = SumOf(a, Onward(z))
    BY <1>3 DEF Harmonic
  <2>6. \A n \in Steps(z) : b[n] = a[n]
    BY <2>1
  <2> HIDE DEF a, b
  <2>7. Counts(a, Steps(z)) /\ SumOf(a, Steps(z)) = SumOf(a, Onward(z))
    BY <2>1, <2>3, <2>4, SumPart
  <2>8. SumOf(b, Steps(z)) = SumOf(a, Steps(z))
    BY <2>6, <2>7, SumSame
  <2> QED
    BY <2>5, <2>7, <2>8 DEF b
<1>4. ASSUME NEW z \in Partial, LeftOut(z) PROVE v[z] = 0
  <2>1. z[2] \in Cell /\ z = <<{z[2]}, z[2]>> /\ ShouldSkip(z[2])
    BY <1>4, OnlyCell DEF LeftOut
  <2>2. Ext(z) = 0
    BY <2>1, Skipped
  <2> QED
    BY <1>2, <2>2
<1>5. ASSUME NEW z \in Partial, Gated(z) PROVE v[z] = 0
    BY <1>2, <1>5, GateKeeps DEF Gated
<1> QED
    BY <1>1, <1>3, <1>4, <1>5 DEF Carried, Harmonic

-----------------------------------------------------------------------------
(* The starts: one cell of each group stands for all of its group.         *)
Starts == {<<{c}, c>> : c \in GetCanonicalGroups}
StartWorth(v) == SumOf([c \in Cell |-> v[<<{c}, c>>]], Cell)

LEMMA GroupSums ==
    ASSUME NEW v \in Values, \A t \in Transforms : \A z \in Placement : v[Move(t, z)] = v[z]
    PROVE  /\ IsFiniteSet(GetCanonicalGroups) /\ GetCanonicalGroups \in SUBSET Cell
           /\ \A g \in GetCanonicalGroups : GetOrbitSize(g) \in Nat
           /\ Counts([g \in GetCanonicalGroups |-> GetOrbitSize(g) * v[<<{g}, g>>]], GetCanonicalGroups)
           /\ SumOf([g \in GetCanonicalGroups |-> GetOrbitSize(g) * v[<<{g}, g>>]], GetCanonicalGroups) = StartWorth(v)
<1> DEFINE T == GetCanonicalGroups
           a == [c \in Cell |-> v[<<{c}, c>>]]
           b == [g \in T |-> GetOrbitSize(g) * v[<<{g}, g>>]]
           m == [c \in Cell |-> GetCanonicalPosition(c)]
<1>1. T \in SUBSET Cell /\ IsFiniteSet(T) /\ IsFiniteSet(Cell)
  <2>1. T \in SUBSET Cell
    BY DEF GetCanonicalGroups
  <2> QED
    BY <2>1, Cells, FS_Subset
<1>2. Counts(a, Cell)
  <2>1. \A c \in Cell : a[c] \in Nat
    BY Start1 DEF Values
  <2> QED
    BY <1>1, <2>1 DEF Counts
<1>3. \A c \in Cell : m[c] \in T /\ c \in Orbit(m[c])
    BY StartGroups
<1>4. \A g, h \in T : g # h => Orbit(g) \cap Orbit(h) = {}
    BY StartGroups
<1>5. ASSUME NEW g \in T PROVE /\ Orbit(g) \in SUBSET Cell /\ Fibre(m, Cell, g) = Orbit(g)
                               /\ IsFiniteSet(Orbit(g)) /\ GetOrbitSize(g) \in Nat
  <2>1. Orbit(g) \in SUBSET Cell
    BY <1>1, PermsMove DEF Orbit
  <2>2. ASSUME NEW c \in Orbit(g) PROVE m[c] = g
    <3>1. c \in Cell /\ m[c] \in T /\ c \in Orbit(m[c])
        BY <1>3, <2>1
    <3> HIDE DEF m
    <3> QED
        BY <1>4, <3>1
  <2>3. Fibre(m, Cell, g) = Orbit(g)
    <3> HIDE DEF m
    <3> QED BY <1>3, <2>1, <2>2 DEF Fibre
  <2>4. IsFiniteSet(Orbit(g))
    BY <1>1, <2>1, FS_Subset
  <2>5. GetOrbitSize(g) \in Nat
    BY <2>4, FS_CardinalityType DEF GetOrbitSize
  <2> QED
    BY <2>1, <2>3, <2>4, <2>5
<1>6. ASSUME NEW g \in T PROVE b[g] = SumOf(a, Fibre(m, Cell, g))
  <2>1. g \in Cell /\ v[<<{g}, g>>] \in Nat
    BY <1>1, Start1 DEF Values
  <2>2. ASSUME NEW c \in Orbit(g) PROVE a[c] = v[<<{g}, g>>]
    <3>1. PICK t \in Transforms : c = perms[t][g]
        BY DEF Orbit
    <3>2. <<{c}, c>> = Move(t, <<{g}, g>>)
        BY <3>1 DEF Move, transformState
    <3>3. c \in Cell /\ <<{g}, g>> \in Placement
        BY <1>5, <2>1, Start1
    <3> QED
        BY <3>2, <3>3
  <2>3. SumOf(a, Orbit(g)) = Cardinality(Orbit(g)) * v[<<{g}, g>>]
    <3> HIDE DEF a
    <3>1. PICK k \in Nat : k = v[<<{g}, g>>]
        BY <2>1
    <3>2. SumOf(a, Orbit(g)) = Cardinality(Orbit(g)) * k
        BY <1>5, <2>2, <3>1, SumConstant
    <3> QED
        BY <3>1, <3>2
  <2>4. b[g] = Cardinality(Orbit(g)) * v[<<{g}, g>>]
    BY DEF GetOrbitSize
  <2>5. Fibre(m, Cell, g) = Orbit(g)
    BY <1>5
  <2> HIDE DEF a, b, m
  <2>6. SumOf(a, Fibre(m, Cell, g)) = SumOf(a, Orbit(g))
    BY <2>5, Zenon
  <2> QED
    BY <2>3, <2>4, <2>6
<1>7. \A c \in Cell : m[c] \in T
    BY <1>3
<1>8. Counts(b, T) /\ SumOf(a, Cell) = SumOf(b, T)
  <2> HIDE DEF a, b, m, T
  <2> QED BY <1>1, <1>2, <1>6, <1>7, SumFibres
<1> QED
    BY <1>1, <1>5, <1>8 DEF StartWorth

LEMMA StartsWorth ==
    ASSUME NEW B, B = [p \in {<<{c}, c>> : c \in GetCanonicalGroups} |-> GetOrbitSize(p[2])]
    PROVE  /\ B \in Tables /\ DOMAIN B = Starts
           /\ \A p \in Starts : p \in Partial /\ Level(p) = 1 /\ Paths(p) = 1 /\ p[2] \in Cell /\ p = <<{p[2]}, p[2]>>
           /\ \A v \in Values : (\A t \in Transforms : \A z \in Placement : v[Move(t, z)] = v[z])
                    => Worth(v, B) = StartWorth(v)
<1> DEFINE T == GetCanonicalGroups
<1>1. T \in SUBSET Cell
    BY DEF GetCanonicalGroups
<1>2. \A p \in Starts : p[2] \in T /\ p[2] \in Cell /\ p = <<{p[2]}, p[2]>>
    BY <1>1 DEF Starts
<1>3. \A p \in Starts : p \in Partial /\ p \in Placement /\ Level(p) = 1 /\ Paths(p) = 1
    BY <1>2, Start1
<1>4. DOMAIN B = Starts /\ \A p \in Starts : B[p] = GetOrbitSize(p[2])
    BY DEF Starts
<1>5. IsFiniteSet(T) /\ \A g \in T : GetOrbitSize(g) \in Nat
  <2>1. IsFiniteSet(T)
    BY <1>1, Cells, FS_Subset
  <2>2. ASSUME NEW g \in T PROVE GetOrbitSize(g) \in Nat
    <3>1. Orbit(g) \in SUBSET Cell
        BY <1>1, PermsMove DEF Orbit
    <3>2. IsFiniteSet(Orbit(g))
        BY <3>1, Cells, FS_Subset
    <3> QED
        BY <3>2, FS_CardinalityType DEF GetOrbitSize
  <2> QED
    BY <2>1, <2>2
<1>6. B \in Tables
  <2>1. DOMAIN B \in SUBSET Placement
    BY <1>3, <1>4
  <2>2. B = [p \in DOMAIN B |-> B[p]]
    OBVIOUS
  <2>3. \A p \in DOMAIN B : B[p] \in Nat
    BY <1>2, <1>4, <1>5
  <2> QED
    BY <2>1, <2>2, <2>3, InTables
<1>7. ASSUME NEW v \in Values, \A t \in Transforms : \A z \in Placement : v[Move(t, z)] = v[z]
      PROVE  Worth(v, B) = StartWorth(v)
  <2> DEFINE a == [p \in Placement |-> Weight(B, p) * v[p]]
             b == [g \in T |-> GetOrbitSize(g) * v[<<{g}, g>>]]
             m == [p \in Starts |-> p[2]]
  <2>1. Counts(a, Placement) /\ Worth(v, B) = SumOf(a, Placement)
    BY <1>6, WorthNat DEF Worth
  <2>2. Starts \in SUBSET Placement /\ \A p \in Placement \ Starts : a[p] = 0
    BY <1>3, <1>4 DEF Weight, Values
  <2>3. Counts(a, Starts) /\ SumOf(a, Starts) = SumOf(a, Placement)
    <3> HIDE DEF a
    <3> QED BY <2>1, <2>2, SumPart
  <2>4. \A p \in Starts : m[p] \in T /\ b[m[p]] = a[p]
    BY <1>2, <1>3, <1>4 DEF Weight
  <2>5. \A p, q \in Starts : m[p] = m[q] => p = q
    BY <1>2
  <2>6. ASSUME NEW g \in T PROVE \E p \in Starts : m[p] = g
    <3>1. PICK p : p = <<{g}, g>>
        OBVIOUS
    <3>2. p \in Starts /\ p[2] = g
        BY <3>1 DEF Starts
    <3> QED
        BY <3>2
  <2> HIDE DEF a, b, m, T
  <2>7. SumOf(a, Starts) = SumOf(b, T)
    BY <1>5, <2>3, <2>4, <2>5, <2>6, SumReindex
  <2>8. SumOf(b, T) = StartWorth(v)
    BY <1>7, GroupSums DEF b, T
  <2> QED
    BY <2>1, <2>3, <2>7, <2>8
<1> QED
    BY <1>2, <1>3, <1>4, <1>6, <1>7

-----------------------------------------------------------------------------
(* What flows through a level: every path with the value of where it ends. *)
(* A harmonic value flows through all levels alike.                        *)
AtLevel(j) == {z \in Partial : Level(z) = j}
Flow(v, j) == SumOf([z \in Partial |-> Paths(z) * v[z]], AtLevel(j))

LEMMA Commutes == \A a, b \in Nat : a * b = b * a
OBVIOUS

LEMMA FlowNat ==
    ASSUME NEW v \in Values, NEW j
    PROVE  /\ IsFiniteSet(AtLevel(j)) /\ AtLevel(j) \in SUBSET Partial
           /\ \A z \in Partial : z \in Placement /\ v[z] \in Nat /\ Paths(z) \in Nat /\ Paths(z) * v[z] \in Nat
           /\ Counts([z \in Partial |-> Paths(z) * v[z]], AtLevel(j))
<1>1. IsFiniteSet(AtLevel(j)) /\ AtLevel(j) \in SUBSET Partial
  <2>1. AtLevel(j) \in SUBSET Partial
    BY DEF AtLevel
  <2> QED
    BY <2>1, Finite, FS_Subset
<1>2. \A z \in Partial : z \in Placement /\ v[z] \in Nat /\ Paths(z) \in Nat
    BY PathsUnfold DEF Partial, Values
<1>3. \A z \in Partial : Paths(z) * v[z] \in Nat
    BY <1>2, Distributes
<1> QED
    BY <1>1, <1>2, <1>3 DEF Counts

LEMMA FlowOut ==
    ASSUME NEW v \in Values, NEW z \in Partial,
           v[z] = SumOf([n \in Onward(z) |-> v[Visit(z, n)]], Onward(z))
    PROVE  /\ IsFiniteSet(Onward(z))
           /\ \A n \in Onward(z) : Paths(z) * v[Visit(z, n)] \in Nat
           /\ Paths(z) * v[z] = SumOf([n \in Onward(z) |-> Paths(z) * v[Visit(z, n)]], Onward(z))
<1> DEFINE a == [n \in Onward(z) |-> v[Visit(z, n)]]
           b == [n \in Onward(z) |-> Paths(z) * v[Visit(z, n)]]
<1>1. z \in Placement /\ Paths(z) \in Nat /\ IsFiniteSet(Onward(z))
    BY PathsUnfold, Spots DEF Partial
<1>2. \A n \in Onward(z) : a[n] \in Nat
    BY <1>1, Visits DEF Values
<1>3. \A n \in Onward(z) : b[n] = Paths(z) * a[n] /\ b[n] \in Nat
    BY <1>1, <1>2, Distributes
<1>4. Counts(a, Onward(z))
    BY <1>1, <1>2 DEF Counts
<1>5. SumOf(b, Onward(z)) = Paths(z) * SumOf(a, Onward(z))
  <2> HIDE DEF a, b
  <2>1. PICK w \in Nat : w = Paths(z)
    BY <1>1
  <2> QED
    BY <1>3, <1>4, <2>1, SumScale
<1> QED
    BY <1>1, <1>3, <1>5

LEMMA FlowIn ==
    ASSUME NEW v \in Values, NEW z \in Partial, Level(z) >= 2
    PROVE  /\ IsFiniteSet(Back(z))
           /\ \A c \in Back(z) : v[z] * Paths(<<Before(z), c>>) \in Nat
           /\ Paths(z) * v[z] = SumOf([c \in Back(z) |-> v[z] * Paths(<<Before(z), c>>)], Back(z))
<1> DEFINE a == [c \in Back(z) |-> Paths(<<Before(z), c>>)]
           b == [c \in Back(z) |-> v[z] * Paths(<<Before(z), c>>)]
<1>1. z \in Placement /\ Paths(z) \in Nat /\ IsFiniteSet(Back(z)) /\ v[z] \in Nat
    BY PathsUnfold, Spots DEF Partial, Values
<1>2. z[1] # {z[2]}
  <2>1. ASSUME z[1] = {z[2]} PROVE FALSE
    <3>1. Level(z) = 1
        BY <2>1, FS_Singleton DEF Level
    <3> QED
        BY <3>1
  <2> QED
    BY <2>1
<1>3. Counts(a, Back(z)) /\ Paths(z) = SumOf(a, Back(z))
    BY <1>1, <1>2, PathsUnfold
<1>4. \A c \in Back(z) : b[c] = v[z] * a[c] /\ a[c] \in Nat /\ b[c] \in Nat
    BY <1>1, <1>3, Distributes DEF Counts
<1>5. SumOf(b, Back(z)) = v[z] * SumOf(a, Back(z))
  <2> HIDE DEF a, b
  <2>1. PICK w \in Nat : w = v[z]
    BY <1>1
  <2> QED
    BY <1>3, <1>4, <2>1, SumScale
<1>6. Paths(z) * v[z] = v[z] * Paths(z)
    BY <1>1, Commutes
<1> HIDE DEF a
<1>7. Paths(z) * v[z] = SumOf(b, Back(z))
    BY <1>3, <1>5, <1>6
<1> QED
    BY <1>1, <1>4, <1>7

LEMMA FlowStep ==
    ASSUME NEW v \in Values, NEW j \in Nat, j >= 1,
           \A z \in AtLevel(j) : v[z] = SumOf([n \in Onward(z) |-> v[Visit(z, n)]], Onward(z))
    PROVE  Flow(v, j + 1) = Flow(v, j)
<1> DEFINE S == AtLevel(j)
           T == AtLevel(j + 1)
           Y == [z \in S |-> Onward(z)]
           X == [z \in T |-> Back(z)]
           b == [z \in S |-> [n \in Onward(z) |-> Paths(z) * v[Visit(z, n)]]]
           e == [z \in T |-> [c \in Back(z) |-> v[z] * Paths(<<Before(z), c>>)]]
           f == [q \in Pairs(S, Y) |-> Paths(q[1]) * v[Visit(q[1], q[2])]]
           k == [q \in Pairs(T, X) |-> v[q[1]] * Paths(<<Before(q[1]), q[2]>>)]
           a == [z \in Partial |-> Paths(z) * v[z]]
           m == [q \in Pairs(S, Y) |-> <<Visit(q[1], q[2]), q[1][2]>>]
<1>1. IsFiniteSet(S) /\ IsFiniteSet(T)
    BY FlowNat
<1>2. ASSUME NEW z \in S PROVE /\ z \in Partial /\ z \in Placement /\ Level(z) = j /\ Y[z] = Onward(z)
                               /\ IsFiniteSet(Y[z]) /\ \A n \in Y[z] : b[z][n] \in Nat
                               /\ a[z] = SumOf(b[z], Y[z])
  <2>1. z \in Partial /\ z \in Placement /\ Level(z) = j
    BY DEF AtLevel, Partial
  <2>2. v[z] = SumOf([n \in Onward(z) |-> v[Visit(z, n)]], Onward(z))
    OBVIOUS
  <2>3. /\ IsFiniteSet(Onward(z))
        /\ \A n \in Onward(z) : Paths(z) * v[Visit(z, n)] \in Nat
        /\ Paths(z) * v[z] = SumOf([n \in Onward(z) |-> Paths(z) * v[Visit(z, n)]], Onward(z))
    BY <2>1, <2>2, FlowOut
  <2> QED
    BY <2>1, <2>3
<1>3. ASSUME NEW z \in T PROVE /\ z \in Partial /\ z \in Placement /\ Level(z) = j + 1 /\ X[z] = Back(z)
                               /\ IsFiniteSet(X[z]) /\ \A c \in X[z] : e[z][c] \in Nat
                               /\ a[z] = SumOf(e[z], X[z])
  <2>1. z \in Partial /\ z \in Placement /\ Level(z) = j + 1 /\ Level(z) >= 2
    BY DEF AtLevel, Partial
  <2>2. /\ IsFiniteSet(Back(z))
        /\ \A c \in Back(z) : v[z] * Paths(<<Before(z), c>>) \in Nat
        /\ Paths(z) * v[z] = SumOf([c \in Back(z) |-> v[z] * Paths(<<Before(z), c>>)], Back(z))
    BY <2>1, FlowIn
  <2> QED
    BY <2>1, <2>2
<1>4. \A z \in S : \A n \in Y[z] : f[<<z, n>>] = b[z][n]
  <2>1. \A z \in S : \A n \in Y[z] : <<z, n>> \in Pairs(S, Y) /\ <<z, n>>[1] = z /\ <<z, n>>[2] = n
    <3> HIDE DEF Y, S
    <3> QED BY <1>1, <1>2, FinitePairs
  <2>2. ASSUME NEW z \in S, NEW n \in Y[z] PROVE f[<<z, n>>] = b[z][n]
    <3>1. PICK q : q = <<z, n>>
        OBVIOUS
    <3>2. q \in Pairs(S, Y) /\ q[1] = z /\ q[2] = n
        BY <2>1, <3>1
    <3>3. f[q] = Paths(z) * v[Visit(z, n)]
        BY <3>2
    <3>4. b[z][n] = Paths(z) * v[Visit(z, n)]
        OBVIOUS
    <3> QED
        BY <3>1, <3>3, <3>4
  <2> QED
    BY <2>2
<1>5. \A z \in T : \A c \in X[z] : k[<<z, c>>] = e[z][c]
  <2>1. \A z \in T : \A c \in X[z] : <<z, c>> \in Pairs(T, X) /\ <<z, c>>[1] = z /\ <<z, c>>[2] = c
    <3> HIDE DEF X, T
    <3> QED BY <1>1, <1>3, FinitePairs
  <2>2. ASSUME NEW z \in T, NEW c \in X[z] PROVE k[<<z, c>>] = e[z][c]
    <3>1. PICK q : q = <<z, c>>
        OBVIOUS
    <3>2. q \in Pairs(T, X) /\ q[1] = z /\ q[2] = c
        BY <2>1, <3>1
    <3>3. k[q] = v[z] * Paths(<<Before(z), c>>)
        BY <3>2
    <3>4. e[z][c] = v[z] * Paths(<<Before(z), c>>)
        OBVIOUS
    <3> QED
        BY <3>1, <3>3, <3>4
  <2> QED
    BY <2>2
<1>6. Counts(f, Pairs(S, Y)) /\ SumOf(a, S) = SumOf(f, Pairs(S, Y))
  <2>1. (\A z \in S : IsFiniteSet(Y[z])) /\ (\A z \in S : \A n \in Y[z] : b[z][n] \in Nat) /\ \A z \in S : a[z] = SumOf(b[z], Y[z])
    BY <1>2
  <2> HIDE DEF S, Y, b, f, a
  <2> QED
    BY <1>1, <1>4, <2>1, SumPairs
<1>7. SumOf(a, T) = SumOf(k, Pairs(T, X))
  <2>1. (\A z \in T : IsFiniteSet(X[z])) /\ (\A z \in T : \A n \in X[z] : e[z][n] \in Nat) /\ \A z \in T : a[z] = SumOf(e[z], X[z])
    BY <1>3
  <2> HIDE DEF T, X, e, k, a
  <2> QED
    BY <1>1, <1>5, <2>1, SumPairs
<1>8. /\ \A q \in Pairs(S, Y) : q[1] \in S /\ q[2] \in Onward(q[1]) /\ q = <<q[1], q[2]>>
      /\ \A q \in Pairs(T, X) : q[1] \in T /\ q[2] \in Back(q[1]) /\ q = <<q[1], q[2]>>
      /\ \A z \in S : \A n \in Onward(z) : <<z, n>> \in Pairs(S, Y)
      /\ \A z \in T : \A c \in Back(z) : <<z, c>> \in Pairs(T, X)
      /\ IsFiniteSet(Pairs(T, X))
  <2>1. (\A z \in S : IsFiniteSet(Y[z])) /\ (\A z \in T : IsFiniteSet(X[z]))
    BY <1>2, <1>3
  <2>2. /\ \A z \in S : \A n \in Y[z] : <<z, n>> \in Pairs(S, Y)
        /\ \A q \in Pairs(S, Y) : q[1] \in S /\ q[2] \in Y[q[1]] /\ q = <<q[1], q[2]>>
    <3> HIDE DEF S, Y
    <3> QED BY <1>1, <2>1, FinitePairs
  <2>3. /\ \A z \in T : \A n \in X[z] : <<z, n>> \in Pairs(T, X)
        /\ \A q \in Pairs(T, X) : q[1] \in T /\ q[2] \in X[q[1]] /\ q = <<q[1], q[2]>>
        /\ IsFiniteSet(Pairs(T, X))
    <3> HIDE DEF T, X
    <3> QED BY <1>1, <2>1, FinitePairs
  <2> QED
    BY <1>2, <1>3, <2>2, <2>3
<1>9. ASSUME NEW q \in Pairs(S, Y)
      PROVE  /\ m[q] \in Pairs(T, X) /\ k[m[q]] = f[q]
             /\ m[q] = <<Visit(q[1], q[2]), q[1][2]>>
             /\ q[2] = Visit(q[1], q[2])[2] /\ q[1] = <<Before(Visit(q[1], q[2])), q[1][2]>>
  <2>1. PICK z, n : z = q[1] /\ n = q[2]
    OBVIOUS
  <2>2. z \in S /\ n \in Onward(z) /\ z \in Partial /\ z \in Placement /\ Level(z) = j
    BY <1>2, <1>8, <2>1
  <2>3. PICK x : x = Visit(z, n)
    OBVIOUS
  <2>4. x \in Partial /\ Level(x) = j + 1 /\ Before(x) = z[1] /\ z[2] \in Back(x) /\ x[2] = n
    BY <2>2, <2>3, Visits
  <2>5. x \in T
    BY <2>4 DEF AtLevel
  <2>6. PICK p : p = <<x, z[2]>>
    OBVIOUS
  <2>7. p \in Pairs(T, X) /\ p[1] = x /\ p[2] = z[2]
    BY <1>8, <2>4, <2>5, <2>6
  <2>8. m[q] = p
    BY <2>1, <2>3, <2>6
  <2>9. <<Before(x), z[2]>> = z
    <3>1. z = <<z[1], z[2]>>
        BY <2>2, Spots, Zenon
    <3> QED
        BY <2>4, <3>1
  <2>10. k[p] = v[x] * Paths(<<Before(x), z[2]>>)
    BY <2>7
  <2>11. k[p] = v[x] * Paths(z)
    BY <2>9, <2>10
  <2>12. f[q] = Paths(z) * v[x]
    BY <2>1, <2>3
  <2>13. v[x] * Paths(z) = Paths(z) * v[x]
    BY <2>2, <2>4, FlowNat, Commutes
  <2> HIDE DEF m, k, f
  <2> QED
    BY <2>1, <2>3, <2>4, <2>6, <2>7, <2>8, <2>9, <2>11, <2>12, <2>13
<1>10. ASSUME NEW p \in Pairs(S, Y), NEW q \in Pairs(S, Y), m[p] = m[q] PROVE p = q
  <2>1. <<Visit(p[1], p[2]), p[1][2]>> = <<Visit(q[1], q[2]), q[1][2]>>
    BY <1>9, <1>10
  <2>2. Visit(p[1], p[2]) = Visit(q[1], q[2]) /\ p[1][2] = q[1][2]
    BY <2>1
  <2>3. PICK x, c : x = Visit(p[1], p[2]) /\ c = p[1][2]
    OBVIOUS
  <2>4. p[2] = x[2] /\ p[1] = <<Before(x), c>>
    BY <1>9, <2>3
  <2>5. q[2] = x[2] /\ q[1] = <<Before(x), c>>
    <3>1. x = Visit(q[1], q[2]) /\ c = q[1][2]
        BY <2>2, <2>3
    <3>2. q[2] = Visit(q[1], q[2])[2] /\ q[1] = <<Before(Visit(q[1], q[2])), q[1][2]>>
        BY <1>9
    <3> QED
        BY <3>1, <3>2, Zenon
  <2>6. p = <<p[1], p[2]>> /\ q = <<q[1], q[2]>>
    BY <1>8
  <2> QED
    BY <2>4, <2>5, <2>6
<1>11. ASSUME NEW p \in Pairs(T, X) PROVE \E q \in Pairs(S, Y) : m[q] = p
  <2>1. PICK z, c : z = p[1] /\ c = p[2]
    OBVIOUS
  <2>2. z \in T /\ c \in Back(z) /\ p = <<z, c>> /\ z \in Partial /\ Level(z) = j + 1
    BY <1>3, <1>8, <2>1
  <2>3. PICK y : y = <<Before(z), c>>
    OBVIOUS
  <2>4. y \in Partial /\ z[2] \in Onward(y) /\ Visit(y, z[2]) = z /\ Level(y) = j /\ y[2] = c
    BY <2>2, <2>3, Unvisits
  <2>5. y \in S
    BY <2>4 DEF AtLevel
  <2>6. PICK q : q = <<y, z[2]>>
    OBVIOUS
  <2>7. q \in Pairs(S, Y) /\ q[1] = y /\ q[2] = z[2]
    BY <1>8, <2>4, <2>5, <2>6
  <2>8. m[q] = <<z, c>>
    BY <1>9, <2>4, <2>7
  <2> QED
    BY <2>2, <2>7, <2>8
<1> HIDE DEF f, k, m, a
<1>12. SumOf(f, Pairs(S, Y)) = SumOf(k, Pairs(T, X))
  <2> HIDE DEF S, T, X, Y
  <2> QED BY <1>6, <1>8, <1>9, <1>10, <1>11, SumReindex
<1> QED
    BY <1>6, <1>7, <1>12 DEF Flow, a

LEMMA FlowEven ==
    ASSUME NEW v \in Values, NEW d \in Nat, d >= 1,
           \A z \in Partial : Level(z) < d => v[z] = SumOf([n \in Onward(z) |-> v[Visit(z, n)]], Onward(z))
    PROVE  Flow(v, d) = Flow(v, 1)
<1> DEFINE P == {n \in Nat : n + 1 <= d => Flow(v, n + 1) = Flow(v, 1)}
<1>1. 0 \in P
    OBVIOUS
<1>2. ASSUME NEW n \in Nat, n \in P PROVE n + 1 \in P
  <2>1. ASSUME (n + 1) + 1 <= d PROVE Flow(v, (n + 1) + 1) = Flow(v, 1)
    <3>1. PICK j \in Nat : j = n + 1
        OBVIOUS
    <3>2. Flow(v, j) = Flow(v, 1) /\ j >= 1 /\ j < d
        BY <1>2, <2>1, <3>1
    <3>3. \A z \in AtLevel(j) : v[z] = SumOf([m \in Onward(z) |-> v[Visit(z, m)]], Onward(z))
        BY <3>2 DEF AtLevel
    <3>4. Flow(v, j + 1) = Flow(v, j)
        BY <3>2, <3>3, FlowStep
    <3> QED
        BY <3>1, <3>2, <3>4
  <2> QED
    BY <2>1
<1>3. \A n \in Nat : n \in P
  <2> HIDE DEF P
  <2> QED BY <1>1, <1>2, CountUp
<1>4. d - 1 \in Nat /\ (d - 1) + 1 = d
    OBVIOUS
<1>5. d - 1 \in P
    BY <1>3, <1>4
<1> QED
    BY <1>4, <1>5

LEMMA FlowStarts ==
    ASSUME NEW v \in Values
    PROVE  Flow(v, 1) = StartWorth(v)
<1> DEFINE a == [z \in Partial |-> Paths(z) * v[z]]
           b == [c \in Cell |-> v[<<{c}, c>>]]
           m == [z \in AtLevel(1) |-> z[2]]
<1>1. Counts(a, AtLevel(1))
    BY FlowNat
<1>2. ASSUME NEW z \in AtLevel(1) PROVE m[z] \in Cell /\ z = <<{m[z]}, m[z]>> /\ b[m[z]] = a[z]
  <2>1. PICK c : c = z[2]
    OBVIOUS
  <2>2. z \in Partial /\ c \in Cell /\ z = <<{c}, c>>
    BY <2>1, OnlyCell DEF AtLevel
  <2>3. Paths(z) = 1 /\ v[z] \in Nat
    BY <2>2, Start1 DEF Values
  <2>4. a[z] = v[z] /\ m[z] = c
    BY <2>1, <2>2, <2>3
  <2> QED
    BY <2>2, <2>4
<1>3. ASSUME NEW c \in Cell PROVE \E z \in AtLevel(1) : m[z] = c
  <2>1. PICK z : z = <<{c}, c>>
    OBVIOUS
  <2>2. z \in AtLevel(1) /\ z[2] = c
    BY <2>1, Start1 DEF AtLevel
  <2> QED
    BY <2>2
<1>4. \A x, y \in AtLevel(1) : m[x] = m[y] => x = y
    BY <1>2
<1>5. (\A z \in AtLevel(1) : m[z] \in Cell) /\ \A z \in AtLevel(1) : b[m[z]] = a[z]
    BY <1>2
<1> HIDE DEF a, b, m
<1>6. SumOf(a, AtLevel(1)) = SumOf(b, Cell)
    BY <1>1, <1>3, <1>4, <1>5, Cells, SumReindex
<1> QED
    BY <1>6 DEF Flow, StartWorth, a, b

-----------------------------------------------------------------------------
(* The value handed back from a level: e there, and below the sum over     *)
(* the ways on that N allows.                                              *)
SpreadBy(g, z, N, e, d) ==
    IF Level(z) < d THEN SumOf([n \in N[z] |-> g[Visit(z, n)]], N[z]) ELSE e[z]

LEMMA SpreadNat ==
    ASSUME NEW N, NEW z \in Placement, N[z] \in SUBSET Onward(z), NEW g \in Values
    PROVE  /\ IsFiniteSet(N[z]) /\ Counts([n \in N[z] |-> g[Visit(z, n)]], N[z])
           /\ SumOf([n \in N[z] |-> g[Visit(z, n)]], N[z]) \in Nat
<1> DEFINE a == [n \in N[z] |-> g[Visit(z, n)]]
<1>1. IsFiniteSet(N[z])
    BY Spots, FS_Subset
<1>2. \A n \in N[z] : a[n] \in Nat
    BY Visits DEF Values
<1>3. Counts(a, N[z])
    BY <1>1, <1>2 DEF Counts
<1>4. SumOf(a, N[z]) \in Nat
  <2> HIDE DEF a
  <2> QED BY <1>3, SumNat
<1> QED
    BY <1>1, <1>3, <1>4

LEMMA Spread ==
    ASSUME NEW N, \A z \in Placement : N[z] \in SUBSET Onward(z), NEW e \in Values, NEW d \in Nat
    PROVE  \E v \in Values : \A z \in Placement : v[z] = SpreadBy(v, z, N, e, d)
<1> DEFINE D == Placement
           r == [z \in D |-> Cardinality(Rest(z))]
           G == [q \in D \X [D -> Nat] |-> SpreadBy(q[2], q[1], N, e, d)]
<1>1. r \in [D -> Nat] /\ (\A z \in D : r[z] <= totalCells) /\ totalCells \in Nat
  <2>1. \A z \in D : Cardinality(Rest(z)) \in Nat /\ Cardinality(Rest(z)) <= totalCells
    BY Levels, Cells
  <2> QED
    BY <2>1, Cells
<1>2. ASSUME NEW z \in D, NEW g \in [D -> Nat] PROVE SpreadBy(g, z, N, e, d) \in Nat
  <2>1. SumOf([n \in N[z] |-> g[Visit(z, n)]], N[z]) \in Nat
    BY SpreadNat DEF Values
  <2> QED
    BY <2>1 DEF SpreadBy, Values
<1>3. G \in [D \X [D -> Nat] -> Nat] /\ \A z \in D : \A g \in [D -> Nat] : G[<<z, g>>] = SpreadBy(g, z, N, e, d)
  <2>1. \A z \in D : \A g \in [D -> Nat] : <<z, g>> \in D \X [D -> Nat] /\ <<z, g>>[1] = z /\ <<z, g>>[2] = g
    OBVIOUS
  <2>2. \A q \in D \X [D -> Nat] : SpreadBy(q[2], q[1], N, e, d) \in Nat
    BY <1>2
  <2> QED
    BY <2>1, <2>2
<1>4. ASSUME NEW z \in D, NEW f \in [D -> Nat], NEW g \in [D -> Nat], \A y \in D : r[y] < r[z] => f[y] = g[y]
      PROVE  G[<<z, f>>] = G[<<z, g>>]
  <2>1. \A n \in N[z] : f[Visit(z, n)] = g[Visit(z, n)]
    <3>1. \A n \in N[z] : Visit(z, n) \in D /\ r[Visit(z, n)] < r[z]
        BY Visits
    <3> QED
        BY <1>4, <3>1
  <2>2. [n \in N[z] |-> f[Visit(z, n)]] = [n \in N[z] |-> g[Visit(z, n)]]
    BY <2>1
  <2>3. SpreadBy(f, z, N, e, d) = SpreadBy(g, z, N, e, d)
    BY <2>2 DEF SpreadBy
  <2> QED
    BY <1>3, <2>3
<1>5. PICK h \in [D -> Nat] : \A z \in D : h[z] = G[<<z, h>>]
  <2>1. G \in [D \X [D -> Nat] -> Nat]
    BY <1>3
  <2>2. Nat # {} /\ totalCells \in Nat
    BY Cells
  <2>3. \A z \in D : \A f, g \in [D -> Nat] : (\A y \in D : r[y] < r[z] => f[y] = g[y]) => G[<<z, f>>] = G[<<z, g>>]
    BY <1>4
  <2>4. r \in [D -> Nat] /\ \A z \in D : r[z] <= totalCells
    BY <1>1
  <2> HIDE DEF r, G, D
  <2>5. Recurses(D, Nat, r, totalCells, G)
    BY <2>1, <2>2, <2>3, <2>4 DEF Recurses
  <2> QED
    BY <2>5, Recursion
<1> QED
    BY <1>3, <1>5 DEF Values

(* Symmetric ways on and symmetric ends give a symmetric value.            *)
LEMMA SpreadMoves ==
    ASSUME NEW N, \A z \in Placement : N[z] \in SUBSET Onward(z), NEW d \in Nat, NEW t \in Transforms,
           NEW e \in Values, NEW v \in Values, \A z \in Placement : v[z] = SpreadBy(v, z, N, e, d),
           NEW f \in Values, NEW u \in Values, \A z \in Placement : u[z] = SpreadBy(u, z, N, f, d),
           \A z \in Placement : Level(z) < d => N[Move(t, z)] = transformState(t, N[z]),
           \A z \in Placement : Level(z) >= d => f[Move(t, z)] = e[z]
    PROVE  \A z \in Placement : u[Move(t, z)] = v[z]
<1> DEFINE r == [z \in Placement |-> Cardinality(Rest(z))]
           P == {z \in Placement : u[Move(t, z)] = v[z]}
<1>1. r \in [Placement -> Nat]
    BY Levels
<1>2. ASSUME NEW z \in Placement, \A y \in Placement : r[y] < r[z] => y \in P PROVE z \in P
  <2>1. Move(t, z) \in Placement /\ Level(Move(t, z)) = Level(z) /\ Level(z) \in Nat
    BY Images1, LevelsMove, Levels
  <2>2. CASE ~ (Level(z) < d)
    <3>1. f[Move(t, z)] = e[z]
        BY <2>1, <2>2
    <3>2. v[z] = e[z] /\ u[Move(t, z)] = f[Move(t, z)]
        BY <2>1, <2>2 DEF SpreadBy
    <3> QED
        BY <3>1, <3>2
  <2>3. CASE Level(z) < d
    <3> DEFINE y == Move(t, z)
               a == [n \in N[z] |-> v[Visit(z, n)]]
               b == [n \in N[y] |-> u[Visit(y, n)]]
    <3>1. v[z] = SumOf(a, N[z]) /\ u[y] = SumOf(b, N[y])
        BY <2>1, <2>3 DEF SpreadBy
    <3>2. N[y] = transformState(t, N[z]) /\ N[z] \in SUBSET Onward(z) /\ N[z] \in SUBSET Cell
        BY <2>3, Spots
    <3>3. Counts(a, N[z])
        BY SpreadNat
    <3>4. ASSUME NEW n \in N[z] PROVE b[perms[t][n]] = a[n]
      <4>1. perms[t][n] \in N[y]
        BY <3>2 DEF transformState
      <4>2. Visit(y, perms[t][n]) = Move(t, Visit(z, n))
        BY <3>2, VisitsMove
      <4>3. Visit(z, n) \in Placement /\ r[Visit(z, n)] < r[z]
        BY <3>2, Visits
      <4>4. u[Move(t, Visit(z, n))] = v[Visit(z, n)]
        BY <1>2, <4>3
      <4> QED
        BY <4>1, <4>2, <4>4
    <3> HIDE DEF a, b, y
    <3>5. SumOf(b, transformState(t, N[z])) = SumOf(a, N[z])
        BY <3>2, <3>3, <3>4, SumMove
    <3>6. SumOf(b, N[y]) = SumOf(b, transformState(t, N[z]))
        BY <3>2, Zenon
    <3>7. u[y] = v[z]
        BY <3>1, <3>5, <3>6
    <3> QED
        BY <3>7 DEF y
  <2> QED
    BY <2>2, <2>3
<1>3. \A z \in Placement : z \in P
  <2> HIDE DEF P, r
  <2> QED BY <1>1, <1>2, RankInduction
<1> QED
    BY <1>3

-----------------------------------------------------------------------------
(* The tours of the board: the paths over all cells, by their ends.        *)
Tours == SumFunction([c \in Cell |-> Paths(<<Cell, c>>)])

Exts == [z \in Placement |-> Ext(z)]

LEMMA Ending ==
    ASSUME NEW v \in Values, \A c \in Cell : v[<<Cell, c>>] = 1
    PROVE  Flow(v, totalCells) = Tours /\ Tours \in Nat
<1> DEFINE a == [z \in Partial |-> Paths(z) * v[z]]
           b == [c \in Cell |-> Paths(<<Cell, c>>)]
           m == [c \in Cell |-> <<Cell, c>>]
           S == AtLevel(totalCells)
<1>1. Counts(a, S) /\ IsFiniteSet(S)
    BY FlowNat
<1>2. ASSUME NEW c \in Cell PROVE <<Cell, c>> \in S /\ a[<<Cell, c>>] = b[c] /\ b[c] \in Nat
  <2>1. PICK z : z = <<Cell, c>>
    OBVIOUS
  <2>2. z \in Partial /\ z \in Placement /\ Level(z) = totalCells
    BY <2>1, Cells DEF Partial, Placement, State, Level
  <2>3. Paths(z) \in Nat /\ v[z] = 1
    BY <2>1, <2>2, PathsUnfold
  <2>4. a[z] = Paths(z) /\ b[c] = Paths(z)
    BY <2>1, <2>2, <2>3
  <2> QED
    BY <2>1, <2>2, <2>3, <2>4 DEF AtLevel
<1>3. ASSUME NEW z \in S PROVE \E c \in Cell : m[c] = z
  <2>1. z \in Placement /\ Level(z) = totalCells
    BY DEF AtLevel, Partial
  <2>2. z[1] = Cell /\ z = <<z[1], z[2]>> /\ z[2] \in Cell
    BY <2>1, Levels, Spots
  <2>3. PICK c \in Cell : c = z[2]
    BY <2>2
  <2>4. z = <<Cell, c>>
    BY <2>2, <2>3
  <2> QED
    BY <2>3, <2>4
<1>4. \A c, d \in Cell : m[c] = m[d] => c = d
    OBVIOUS
<1>5. \A c \in Cell : m[c] \in S /\ a[m[c]] = b[c]
    BY <1>2
<1>6. Counts(b, Cell)
    BY <1>2, Cells DEF Counts
<1>7. SumFunction(b) = SumOf(b, Cell)
    BY SumUnfolds
<1>8. Tours = SumOf(b, Cell)
    BY <1>7 DEF Tours
<1> HIDE DEF a, b, m, S
<1>9. SumOf(b, Cell) = SumOf(a, S) /\ SumOf(b, Cell) \in Nat
    BY <1>1, <1>3, <1>4, <1>5, <1>6, SumReindex, SumNat
<1> QED
    BY <1>8, <1>9 DEF Flow, a, S

LEMMA ExtsHarmonic == Harmonic(Exts, totalCells) /\ StartWorth(Exts) = Tours /\ Tours \in Nat
<1>1. Exts \in Values
    BY ExtNat DEF Exts, Values
<1>2. \A t \in Transforms : \A z \in Placement : Exts[Move(t, z)] = Exts[z]
    BY ExtMove, Images1 DEF Exts
<1>3. ASSUME NEW z \in Partial, Level(z) < totalCells
      PROVE  Exts[z] = SumOf([n \in Onward(z) |-> Exts[Visit(z, n)]], Onward(z))
  <2> DEFINE a == [n \in Onward(z) |-> Ext(Visit(z, n))]
             b == [n \in Onward(z) |-> Exts[Visit(z, n)]]
  <2>1. z \in Placement
    BY DEF Partial
  <2>2. Rest(z) # {}
    <3>1. ASSUME Rest(z) = {} PROVE FALSE
      <4>1. z[1] = Cell
        BY <2>1, <3>1, Levels
      <4> QED
        BY <1>3, <4>1, Cells DEF Level
    <3> QED
        BY <3>1
  <2>3. Ext(z) = SumOf(a, Onward(z)) /\ Exts[z] = Ext(z)
    BY <2>1, <2>2, ExtSum DEF Exts
  <2>4. \A n \in Onward(z) : a[n] = b[n]
    BY <2>1, Visits DEF Exts
  <2>5. a = b
    BY <2>4
  <2> QED
    BY <2>3, <2>5
<1>4. \A z \in Partial : Exts[z] > 0 => Ext(z) > 0
    BY DEF Exts, Partial
<1>5. \A c \in Cell : Exts[<<Cell, c>>] = 1
  <2>1. ASSUME NEW c \in Cell PROVE Exts[<<Cell, c>>] = 1
    <3>1. PICK z : z = <<Cell, c>>
        OBVIOUS
    <3>2. z \in Placement /\ Rest(z) = {}
        BY <3>1 DEF Placement, State, Rest, Invert
    <3>3. Ext(z) = 1
        BY <3>2 DEF Ext
    <3> QED
        BY <3>1, <3>2, <3>3 DEF Exts
  <2> QED
    BY <2>1
<1>6. totalCells \in Nat /\ totalCells >= 1
    BY Cells
<1>7. Flow(Exts, totalCells) = Flow(Exts, 1)
    BY <1>1, <1>3, <1>6, FlowEven
<1>8. Flow(Exts, 1) = StartWorth(Exts)
    BY <1>1, FlowStarts
<1>9. Flow(Exts, totalCells) = Tours /\ Tours \in Nat
    BY <1>1, <1>5, Ending
<1> QED
    BY <1>1, <1>2, <1>3, <1>4, <1>7, <1>8, <1>9 DEF Harmonic

-----------------------------------------------------------------------------
(* How often a class is come to: a value of 1 on its placements.           *)
Leads(v, q, d) ==
    /\ v \in Values
    /\ \A z \in Placement : Level(z) >= d => v[z] = IF z \in Images(q) THEN 1 ELSE 0
    /\ \A z \in Placement : Level(z) < d => v[z] = SumOf([n \in Onward(z) |-> v[Visit(z, n)]], Onward(z))

LEMMA LeadsExist ==
    ASSUME NEW q, NEW d \in Nat
    PROVE  \E v : Leads(v, q, d)
<1> DEFINE N == [z \in Placement |-> Onward(z)]
           e == [z \in Placement |-> IF z \in Images(q) THEN 1 ELSE 0]
<1>1. (\A z \in Placement : N[z] \in SUBSET Onward(z)) /\ e \in Values
    BY DEF Values
<1>2. PICK v \in Values : \A z \in Placement : v[z] = SpreadBy(v, z, N, e, d)
  <2> HIDE DEF N, e
  <2> QED BY <1>1, Spread
<1>3. \A z \in Placement : Level(z) \in Nat
    BY Levels
<1>4. ASSUME NEW z \in Placement, Level(z) < d
      PROVE  v[z] = SumOf([n \in Onward(z) |-> v[Visit(z, n)]], Onward(z))
  <2>1. v[z] = SumOf([n \in N[z] |-> v[Visit(z, n)]], N[z])
    <3> HIDE DEF N
    <3> QED BY <1>2, <1>4 DEF SpreadBy
  <2>2. N[z] = Onward(z)
    OBVIOUS
  <2> HIDE DEF N
  <2> QED
    BY <2>1, <2>2
<1>5. ASSUME NEW z \in Placement, Level(z) >= d PROVE v[z] = IF z \in Images(q) THEN 1 ELSE 0
  <2>1. ~ (Level(z) < d)
    BY <1>3, <1>5
  <2>2. v[z] = e[z]
    BY <1>2, <2>1 DEF SpreadBy
  <2> QED
    BY <2>2
<1> QED
    BY <1>2, <1>4, <1>5 DEF Leads

LEMMA LeadsMove ==
    ASSUME NEW q \in Placement, NEW d \in Nat, NEW v, Leads(v, q, d)
    PROVE  \A t \in Transforms : \A z \in Placement : v[Move(t, z)] = v[z]
<1> DEFINE N == [z \in Placement |-> Onward(z)]
           e == [z \in Placement |-> IF z \in Images(q) THEN 1 ELSE 0]
<1>1. (\A z \in Placement : N[z] \in SUBSET Onward(z)) /\ e \in Values /\ v \in Values
    BY DEF Values, Leads
<1>2. ASSUME NEW z \in Placement PROVE v[z] = SpreadBy(v, z, N, e, d)
  <2>1. Level(z) \in Nat /\ N[z] = Onward(z)
    BY Levels
  <2>2. CASE Level(z) < d
    <3>1. v[z] = SumOf([n \in Onward(z) |-> v[Visit(z, n)]], Onward(z))
        BY <2>2 DEF Leads
    <3> HIDE DEF N, e
    <3> QED
        BY <2>1, <2>2, <3>1 DEF SpreadBy
  <2>3. CASE ~ (Level(z) < d)
    <3>1. v[z] = e[z]
        BY <2>1, <2>3 DEF Leads
    <3> HIDE DEF N, e
    <3> QED
        BY <2>3, <3>1 DEF SpreadBy
  <2> QED
    BY <2>2, <2>3
<1>3. ASSUME NEW t \in Transforms, NEW z \in Placement
      PROVE  N[Move(t, z)] = transformState(t, N[z]) /\ e[Move(t, z)] = e[z]
  <2>1. Move(t, z) \in Placement /\ Onward(Move(t, z)) = transformState(t, Onward(z))
    BY Images1
  <2>2. z \in Images(q) <=> Move(t, z) \in Images(q)
    <3>1. ASSUME NEW y \in Placement, y \in Images(q), NEW s \in Transforms PROVE Move(s, y) \in Images(q)
      <4>1. Images(y) = Images(q)
        <5>1. PICK u \in Transforms : y = Move(u, q)
          BY <3>1 DEF Images
        <5>2. Images(Move(u, q)) = Images(q)
          BY ImagesSame
        <5> QED
          BY <5>1, <5>2
      <4> QED
        BY <4>1 DEF Images
    <3>2. Move(Undo(t), Move(t, z)) = z /\ Undo(t) \in Transforms
        BY Acts
    <3> QED
        BY <2>1, <3>1, <3>2
  <2> QED
    BY <2>1, <2>2
<1> HIDE DEF N, e
<1>4. ASSUME NEW t \in Transforms PROVE \A z \in Placement : v[Move(t, z)] = v[z]
    BY <1>1, <1>2, <1>3, SpreadMoves
<1> QED
    BY <1>4

(* It is nothing where the class is not completable.                       *)
LEMMA LeadsHarmonic ==
    ASSUME NEW q \in Partial, NEW d \in 1 .. totalCells, Level(q) = d, Ext(q) > 0, NEW v, Leads(v, q, d)
    PROVE  Harmonic(v, d)
<1>1. q \in Placement /\ d \in Nat
    BY Cells DEF Partial
<1>2. \A t \in Transforms : \A z \in Placement : v[Move(t, z)] = v[z]
    BY <1>1, LeadsMove
<1> DEFINE r == [z \in Placement |-> Cardinality(Rest(z))]
           P == {z \in Placement : v[z] > 0 => Ext(z) > 0}
<1>3. r \in [Placement -> Nat]
    BY Levels
<1>4. ASSUME NEW z \in Placement, \A y \in Placement : r[y] < r[z] => y \in P PROVE z \in P
  <2> SUFFICES ASSUME v[z] > 0 PROVE Ext(z) > 0
    OBVIOUS
  <2>1. Level(z) \in Nat
    BY Levels
  <2>2. CASE ~ (Level(z) < d)
    <3>1. v[z] = IF z \in Images(q) THEN 1 ELSE 0
        BY <1>1, <2>1, <2>2 DEF Leads
    <3>2. z \in Images(q)
        BY <3>1
    <3>3. PICK t \in Transforms : z = Move(t, q)
        BY <3>2 DEF Images
    <3> QED
        BY <1>1, <3>3, ExtMove
  <2>3. CASE Level(z) < d
    <3> DEFINE a == [n \in Onward(z) |-> v[Visit(z, n)]]
               b == [n \in Onward(z) |-> Ext(Visit(z, n))]
               N == [y \in Placement |-> Onward(y)]
    <3>1. v[z] = SumOf(a, Onward(z)) /\ v \in Values
        BY <2>3 DEF Leads
    <3>2. Counts(a, Onward(z))
      <4>1. \A n \in Onward(z) : a[n] \in Nat
        BY <3>1, Visits DEF Values
      <4> QED
        BY <4>1, Spots DEF Counts
    <3>3. PICK n \in Onward(z) : a[n] > 0
      <4> HIDE DEF a
      <4> QED BY <3>1, <3>2, SumPositive
    <3>4. Visit(z, n) \in Placement /\ r[Visit(z, n)] < r[z] /\ n \in Rest(z)
        BY Visits
    <3>5. b[n] > 0
        BY <1>4, <3>3, <3>4
    <3>6. Counts(b, Onward(z)) /\ Ext(z) = SumOf(b, Onward(z))
        BY <3>4, ExtSum
    <3>7. b[n] <= SumOf(b, Onward(z)) /\ b[n] \in Nat /\ Ext(z) \in Nat
      <4>1. b[n] \in Nat
        BY <3>6 DEF Counts
      <4> HIDE DEF b
      <4> QED BY <3>6, <4>1, SumPositive, ExtNat
    <3> HIDE DEF b
    <3> QED
        BY <3>5, <3>6, <3>7
  <2> QED
    BY <2>2, <2>3
<1>5. \A z \in Placement : z \in P
  <2> HIDE DEF P, r
  <2> QED BY <1>3, <1>4, RankInduction
<1>6. \A z \in Partial : z \in Placement
    BY DEF Partial
<1> QED
    BY <1>2, <1>5, <1>6 DEF Harmonic, Leads

LEMMA LeadsWorth ==
    ASSUME NEW q \in Partial, NEW d \in 1 .. totalCells, Level(q) = d, NEW v, Leads(v, q, d)
    PROVE  StartWorth(v) = Cardinality(Images(q)) * Paths(q)
<1> DEFINE a == [z \in Partial |-> Paths(z) * v[z]]
           S == AtLevel(d)
           I == Images(q)
<1>1. q \in Placement /\ d \in Nat /\ d >= 1 /\ v \in Values
    BY Cells DEF Partial, Leads
<1>2. \A z \in Partial : z \in Placement
    BY DEF Partial
<1>3. Flow(v, d) = Flow(v, 1)
  <2>1. \A z \in Partial : Level(z) < d => v[z] = SumOf([n \in Onward(z) |-> v[Visit(z, n)]], Onward(z))
    BY <1>2 DEF Leads
  <2> QED
    BY <1>1, <2>1, FlowEven
<1>4. Flow(v, 1) = StartWorth(v)
    BY <1>1, FlowStarts
<1>5. I \in SUBSET S /\ \A z \in I : Paths(z) = Paths(q)
  <2>1. ASSUME NEW z \in I PROVE z \in S /\ Paths(z) = Paths(q)
    <3>1. PICK t \in Transforms : z = Move(t, q)
        BY DEF Images
    <3>2. z \in Partial /\ Level(z) = d /\ Paths(z) = Paths(q)
        BY <1>1, <3>1, Images1, LevelsMove, PathsMove
    <3> QED
        BY <3>2 DEF AtLevel
  <2> QED
    BY <2>1
<1>6. Counts(a, S) /\ IsFiniteSet(S)
    BY <1>1, FlowNat
<1>7. ASSUME NEW z \in S PROVE z \in Placement /\ Paths(z) \in Nat /\ a[z] = Paths(z) * v[z] /\ v[z] = IF z \in I THEN 1 ELSE 0
  <2>1. z \in Placement /\ Level(z) = d /\ z \in Partial
    BY DEF AtLevel, Partial
  <2>2. Level(z) >= d
    BY <1>1, <2>1
  <2> QED
    BY <2>1, <2>2, PathsUnfold DEF Leads
<1>8. (\A z \in S \ I : a[z] = 0) /\ \A z \in I : a[z] = Paths(q)
  <2> HIDE DEF a, S, I
  <2>1. ASSUME NEW z \in S \ I PROVE a[z] = 0
    <3>1. a[z] = Paths(z) * v[z] /\ v[z] = 0 /\ Paths(z) \in Nat
        BY <1>7, <2>1
    <3> QED
        BY <3>1
  <2>2. ASSUME NEW z \in I PROVE a[z] = Paths(q)
    <3>1. z \in S /\ Paths(z) = Paths(q)
        BY <1>5
    <3>2. a[z] = Paths(z) * v[z] /\ v[z] = 1 /\ Paths(z) \in Nat
        BY <1>7, <3>1
    <3> QED
        BY <3>1, <3>2
  <2> QED
    BY <2>1, <2>2
<1>9. Paths(q) \in Nat /\ IsFiniteSet(I)
    BY <1>1, <1>5, <1>6, PathsUnfold, FS_Subset
<1> HIDE DEF a, S, I
<1>10. SumOf(a, I) = SumOf(a, S)
    BY <1>5, <1>6, <1>8, SumPart
<1>11. PICK k \in Nat : k = Paths(q)
    BY <1>9
<1>12. SumOf(a, I) = Cardinality(I) * k
    BY <1>8, <1>9, <1>11, SumConstant
<1>13. Flow(v, d) = SumOf(a, S)
    BY DEF Flow, a, S
<1> QED
    BY <1>3, <1>4, <1>10, <1>11, <1>12, <1>13 DEF I

-----------------------------------------------------------------------------
(* A table of depth d that counts as the descents should: first to depth b *)
(* and from there to d.                                                    *)
Linked(u, v, b, d) ==
    /\ Carried(u, b) /\ Carried(v, d)
    /\ \A z \in Partial : Level(z) = b /\ Passing(z) => u[z] = v[z]

Faithful(B, b, d) ==
    /\ B \in Tables
    /\ DOMAIN B \subseteq Reached(d)
    /\ \A u, v : Linked(u, v, b, d) => Worth(v, B) = StartWorth(u)

LEMMA HarmonicLinked ==
    ASSUME NEW d \in 1 .. totalCells, NEW b \in 1 .. d, NEW v, Harmonic(v, d)
    PROVE  Linked(v, v, b, d)
<1>1. b \in 1 .. totalCells /\ totalCells \in Nat
    BY Cells
<1>2. Harmonic(v, b)
  <2>1. \A z \in Partial : Level(z) \in Nat
    BY Levels DEF Partial
  <2>2. \A z \in Partial : Level(z) < b => Level(z) < d
    BY <2>1
  <2> QED
    BY <2>2 DEF Harmonic
<1>3. Carried(v, b) /\ Carried(v, d)
    BY <1>1, <1>2, HarmonicCarried
<1> QED
    BY <1>3 DEF Linked

(* A value of 1 on the placements of a class tells its weight.             *)
LEMMA ClassWorth ==
    ASSUME NEW d \in Nat, NEW B \in Tables, DOMAIN B \subseteq Reached(d),
           NEW q \in Partial, Level(q) = d, ClassOf(q) = q, NEW v \in Values,
           \A z \in Placement : Level(z) >= d => v[z] = IF z \in Images(q) THEN 1 ELSE 0
    PROVE  Worth(v, B) = Weight(B, q)
<1>1. q \in Placement /\ q \in Images(q)
  <2>1. q \in Placement
    BY DEF Partial
  <2>2. ClassOf(q) \in Images(q)
    BY <2>1, ClassImage
  <2> QED
    BY <2>1, <2>2
<1> DEFINE a == [p \in Placement |-> Weight(B, p) * v[p]]
<1>2. Counts(a, Placement) /\ Weight(B, q) \in Nat
    BY WorthNat
<1>3. v[q] = 1
    BY <1>1
<1>4. a[q] = Weight(B, q)
    BY <1>1, <1>2, <1>3
<1>5. ASSUME NEW p \in Placement \ {q} PROVE a[p] = 0
  <2>1. CASE p \notin DOMAIN B
    <3>1. Weight(B, p) = 0 /\ v[p] \in Nat
        BY <2>1 DEF Weight, Values
    <3> QED
        BY <3>1
  <2>2. CASE p \in DOMAIN B
    <3>1. Level(p) = d /\ ClassOf(p) = p
        BY <2>2 DEF Reached
    <3>2. p \notin Images(q)
      <4>1. ASSUME p \in Images(q) PROVE FALSE
        <5>1. PICK t \in Transforms : p = Move(t, q)
          BY <4>1 DEF Images
        <5>2. ClassOf(Move(t, q)) = ClassOf(q)
          BY <1>1, ClassImage
        <5> QED
          BY <3>1, <5>1, <5>2
      <4> QED
        BY <4>1
    <3>3. v[p] = 0
        BY <3>1, <3>2
    <3>4. Weight(B, p) \in Nat
        BY WorthNat
    <3> QED
        BY <3>3, <3>4
  <2> QED
    BY <2>1, <2>2
<1> HIDE DEF a
<1>6. SumOf(a, {q}) = SumOf(a, Placement)
  <2>1. {q} \in SUBSET Placement
    BY <1>1
  <2> QED
    BY <1>2, <1>5, <2>1, SumPart
<1>7. SumOf(a, {q}) = a[q]
    BY <1>2, <1>4, SumOne
<1>8. Worth(v, B) = SumOf(a, Placement)
    BY DEF Worth, a
<1> QED
    BY <1>4, <1>6, <1>7, <1>8

(* A completable class has all of its paths, orbit by orbit.               *)
LEMMA Complete ==
    ASSUME NEW d \in 1 .. totalCells, NEW b \in 1 .. d, NEW B, Faithful(B, b, d),
           NEW q \in Partial, Level(q) = d, ClassOf(q) = q, Ext(q) > 0
    PROVE  Weight(B, q) = Cardinality(Images(q)) * Paths(q)
<1>1. d \in Nat
    BY Cells
<1>2. PICK v : Leads(v, q, d)
    BY <1>1, LeadsExist
<1>3. v \in Values /\ B \in Tables /\ DOMAIN B \subseteq Reached(d)
    BY <1>2 DEF Leads, Faithful
<1>4. Worth(v, B) = StartWorth(v)
  <2>1. Harmonic(v, d)
    BY <1>2, LeadsHarmonic
  <2>2. Linked(v, v, b, d)
    BY <2>1, HarmonicLinked
  <2> QED
    BY <2>2 DEF Faithful
<1>5. StartWorth(v) = Cardinality(Images(q)) * Paths(q)
    BY <1>2, LeadsWorth
<1>6. Worth(v, B) = Weight(B, q)
  <2>1. \A z \in Placement : Level(z) >= d => v[z] = IF z \in Images(q) THEN 1 ELSE 0
    BY <1>2 DEF Leads
  <2> QED
    BY <1>1, <1>3, <2>1, ClassWorth
<1> QED
    BY <1>4, <1>5, <1>6

-----------------------------------------------------------------------------
(* What completions finds.                                                 *)
Lookup(p, u) == Stored(ClassOf(<<Rest(p), u>>)) \div Cardinality(Images(<<Rest(p), u>>))

LEMMA LookupsSum ==
    ASSUME NEW p \in Placement
    PROVE  completions(p) = SumOf([u \in Onward(p) |-> Lookup(p, u)], Onward(p))
<1> DEFINE f == CanonicalMaskFrame(Rest(p))
           Rep(u) == ClassRep(f.stab, perms[f.frame][u])
           a == [u \in Onward(p) |-> Stored(<<f.K, Rep(u)>>) \div CellOrbitSize(f.stab, Rep(u))]
           b == [u \in Onward(p) |-> Lookup(p, u)]
<1>1. ASSUME NEW u \in Onward(p) PROVE a[u] = b[u]
  <2>1. Rest(p) \in State /\ u \in Cell
    BY Spots
  <2>2. CellOrbitSize(f.stab, Rep(u)) = CellOrbitSize(f.stab, perms[f.frame][u])
    BY <2>1, ClassSizes
  <2>3. PICK cc : cc = CanonicalClass(Rest(p), u)
    OBVIOUS
  <2>4. cc.K = f.K /\ cc.rep = Rep(u) /\ cc.orbitSize = CellOrbitSize(f.stab, perms[f.frame][u])
    BY <2>3 DEF CanonicalClass
  <2>5. cc.orbitSize = Cardinality(Images(<<Rest(p), u>>))
    <3>1. PICK K : CanonicalClass(Rest(p), u) = [K |-> K, rep |-> Min(Beside(K, <<Rest(p), u>>)),
                                              orbitSize |-> Cardinality(Images(<<Rest(p), u>>))]
        BY <2>1, ClassOfOrbit
    <3> QED
        BY <2>3, <3>1
  <2>6. ClassOf(<<Rest(p), u>>) = <<cc.K, cc.rep>>
    BY <2>3 DEF ClassOf
  <2>7. a[u] = Stored(<<cc.K, cc.rep>>) \div cc.orbitSize
    <3> HIDE DEF f
    <3> QED BY <2>2, <2>4
  <2>8. b[u] = Stored(<<cc.K, cc.rep>>) \div cc.orbitSize
    BY <2>5, <2>6 DEF Lookup
  <2> QED
    BY <2>7, <2>8
<1>2. a = b
    BY <1>1
<1>3. completions(p) = SumFunction(a)
    BY DEF completions
<1>4. SumFunction(a) = SumOf(a, Onward(p))
    BY SumUnfolds
<1> HIDE DEF a, b
<1>5. completions(p) = SumOf(b, Onward(p))
    BY <1>2, <1>3, <1>4
<1> QED
    BY <1>5 DEF b

LEMMA LookupNat ==
    ASSUME table \in Tables, NEW p \in Placement
    PROVE  /\ \A u \in Onward(p) : Lookup(p, u) \in Nat
           /\ completions(p) \in Nat
<1>1. ASSUME NEW u \in Onward(p) PROVE Lookup(p, u) \in Nat
  <2>1. Rest(p) \in State /\ u \in Cell
    BY Spots
  <2>2. Stored(ClassOf(<<Rest(p), u>>)) \in Nat
    BY InTables DEF Stored
  <2>3. Cardinality(Images(<<Rest(p), u>>)) \in Nat \ {0}
    <3>1. <<Rest(p), u>> \in Placement
        BY <2>1 DEF Placement
    <3>2. PICK m, n : m = Cardinality(Images(<<Rest(p), u>>)) /\ n = Cardinality(Fixing(<<Rest(p), u>>))
        OBVIOUS
    <3>3. m \in Nat /\ n \in Nat /\ m * n = 8
        BY <3>1, <3>2, OrbitStabilizer
    <3>4. m # 0
      <4>1. ASSUME m = 0 PROVE FALSE
        <5>1. m * n = 0
          BY <3>3, <4>1
        <5> QED
          BY <3>3, <5>1
      <4> QED
        BY <4>1
    <3> QED
        BY <3>2, <3>3, <3>4
  <2>4. PICK x \in Nat, y \in Nat \ {0} : x = Stored(ClassOf(<<Rest(p), u>>)) /\ y = Cardinality(Images(<<Rest(p), u>>))
    BY <2>2, <2>3
  <2>5. x \div y \in Nat
    BY <2>4
  <2> QED
    BY <2>4, <2>5 DEF Lookup
<1> DEFINE b == [u \in Onward(p) |-> Lookup(p, u)]
<1>2. Counts(b, Onward(p))
    BY <1>1, Spots DEF Counts
<1>3. SumOf(b, Onward(p)) \in Nat
  <2> HIDE DEF b
  <2> QED BY <1>2, SumNat
<1> QED
    BY <1>1, <1>3, LookupsSum

LEMMA OrbitEight ==
    ASSUME NEW y \in Placement
    PROVE  /\ Cardinality(Images(y)) \in {1, 2, 4, 8}
           /\ CanonicalClass(y[1], y[2]).orbitSize = Cardinality(Images(y))
<1>1. y[1] \in State /\ y[2] \in Cell
    BY Spots
<1>2. PICK K : CanonicalClass(y[1], y[2]) = [K |-> K, rep |-> Min(Beside(K, <<y[1], y[2]>>)),
                                             orbitSize |-> Cardinality(Images(<<y[1], y[2]>>))]
    BY <1>1, ClassOfOrbit
<1>3. CanonicalClass(y[1], y[2]).orbitSize \in {1, 2, 4, 8}
    BY <1>1, ClassSizes DEF CanonicalClass
<1>4. y = <<y[1], y[2]>>
    BY Spots, Zenon
<1> QED
    BY <1>2, <1>3, <1>4

LEMMA Divides == \A n \in {1, 2, 4, 8} : \A x \in Nat : (n * x) \div n = x
<1>1. \A x \in Nat : (1 * x) \div 1 = x
    OBVIOUS
<1>2. \A x \in Nat : (2 * x) \div 2 = x
    OBVIOUS
<1>3. \A x \in Nat : (4 * x) \div 4 = x
    OBVIOUS
<1>4. \A x \in Nat : (8 * x) \div 8 = x
    OBVIOUS
<1> QED
    BY <1>1, <1>2, <1>3, <1>4

(* The reversal: a path over the rest, turned around, completes the tour.  *)
LEMMA Reversal ==
    ASSUME NEW d \in 1 .. totalCells, NEW b \in 1 .. d, Faithful(table, b, d),
           NEW p \in Partial, Paths(p) > 0, Level(p) = totalCells - d, d < totalCells
    PROVE  completions(p) = Ext(p)
<1>1. p \in Placement /\ Rest(p) # {} /\ Cardinality(Rest(p)) = d /\ d \in Nat /\ totalCells \in Nat
  <2>1. p \in Placement /\ totalCells \in Nat /\ d \in Nat
    BY Cells DEF Partial
  <2>2. Cardinality(Rest(p)) = totalCells - Level(p)
    BY <2>1, Levels
  <2>3. Rest(p) # {}
    <3>1. ASSUME Rest(p) = {} PROVE FALSE
      <4>1. Level(p) = totalCells
        BY <2>1, <3>1, Levels, Cells DEF Level
      <4> QED
        BY <2>1, <4>1
    <3> QED
        BY <3>1
  <2> QED
    BY <2>1, <2>2, <2>3
<1>2. ASSUME NEW u \in Onward(p) PROVE Lookup(p, u) = Paths(<<Rest(p), u>>)
  <2>1. PICK y : y = <<Rest(p), u>>
    OBVIOUS
  <2>2. y \in Partial /\ y \in Placement /\ y[1] = Rest(p) /\ y[2] = u /\ Level(y) = d
    <3>1. y \in Partial /\ y \in Placement
        BY <1>1, <2>1, ExtNat
    <3> QED
        BY <1>1, <2>1, <3>1 DEF Level
  <2>3. Rest(y) = p[1] /\ p[2] \in p[1] /\ p[1] \in SUBSET Cell /\ p = <<p[1], p[2]>>
    <3>1. Rest(p) = Cell \ p[1] /\ p[1] \in SUBSET Cell /\ p = <<p[1], p[2]>>
        BY <1>1, Spots, Zenon
    <3> QED
        BY <2>2, <3>1 DEF Rest, Invert, Partial
  <2>4. Ext(y) > 0
    <3> DEFINE a == [w \in Onward(y) |-> Paths(<<Rest(y), w>>)]
    <3>1. p[2] \in Onward(y)
      <4>1. u \in Neighbors[p[2]] /\ u \in Cell /\ p[2] \in Cell
        BY <1>1, Spots, Visits
      <4>2. p[2] \in Neighbors[u]
        BY <4>1, Symmetric
      <4> QED
        BY <2>2, <2>3, <4>2 DEF Onward
    <3>2. a[p[2]] = Paths(p)
      <4>1. <<Rest(y), p[2]>> = p
        BY <2>3
      <4> QED
        BY <3>1, <4>1
    <3>3. Rest(y) # {}
        BY <2>3
    <3>4. Counts(a, Onward(y)) /\ Ext(y) = SumOf(a, Onward(y)) /\ Ext(y) \in Nat /\ Paths(p) \in Nat
        BY <1>1, <2>2, <3>3, ExtNat, PathsUnfold DEF Ext
    <3> HIDE DEF a
    <3>5. a[p[2]] <= SumOf(a, Onward(y))
        BY <3>1, <3>4, SumPositive
    <3> QED
        BY <3>2, <3>4, <3>5
  <2>5. PICK q : q = ClassOf(y)
    OBVIOUS
  <2>6. q \in Partial /\ ClassOf(q) = q /\ Level(q) = d /\ Ext(q) > 0 /\ Paths(q) = Paths(y) /\ Images(q) = Images(y)
        /\ Paths(y) \in Nat
    BY <2>2, <2>4, <2>5, ClassStays, PathsUnfold
  <2>7. Weight(table, q) = Cardinality(Images(q)) * Paths(q)
    BY <2>6, Complete
  <2>8. Cardinality(Images(y)) \in {1, 2, 4, 8}
    BY <2>2, OrbitEight
  <2>9. Stored(q) = Cardinality(Images(y)) * Paths(y)
    BY <2>6, <2>7 DEF Stored, Weight
  <2>10. PICK n \in {1, 2, 4, 8}, x \in Nat : n = Cardinality(Images(y)) /\ x = Paths(y)
    BY <2>6, <2>8
  <2>11. Lookup(p, u) = (n * x) \div n
    BY <2>1, <2>5, <2>9, <2>10 DEF Lookup
  <2>12. (n * x) \div n = x
    BY Divides
  <2> QED
    BY <2>1, <2>10, <2>11, <2>12
<1>3. [u \in Onward(p) |-> Lookup(p, u)] = [u \in Onward(p) |-> Paths(<<Rest(p), u>>)]
    BY <1>2
<1>4. completions(p) = SumOf([u \in Onward(p) |-> Lookup(p, u)], Onward(p))
    BY <1>1, LookupsSum
<1> QED
    BY <1>1, <1>3, <1>4 DEF Ext

-----------------------------------------------------------------------------
(* What dfsCount returns.                                                  *)
FoundBy(g, z, s) ==
    IF z[1] = Cell THEN 1
    ELSE IF Level(z) = s THEN completions(z)
    ELSE SumOf([n \in Steps(z) |-> g[Visit(z, n)]], Steps(z))

LEMMA StepsSum ==
    ASSUME NEW g \in Values, NEW z \in Placement
    PROVE  /\ Counts([n \in Steps(z) |-> g[Visit(z, n)]], Steps(z))
           /\ SumOf([n \in Steps(z) |-> g[Visit(z, n)]], Steps(z)) \in Nat
<1> DEFINE a == [n \in Steps(z) |-> g[Visit(z, n)]]
<1>1. \A n \in Steps(z) : a[n] \in Nat
    BY StepsFinite DEF Values
<1>2. Counts(a, Steps(z))
    BY <1>1, StepsFinite DEF Counts
<1>3. SumOf(a, Steps(z)) \in Nat
  <2> HIDE DEF a
  <2> QED BY <1>2, SumNat
<1> QED
    BY <1>2, <1>3

LEMMA FoundSolved ==
    ASSUME table \in Tables, NEW s
    PROVE  \E h \in [Placement -> Nat] : \A z \in Placement : h[z] = FoundBy(h, z, s)
<1> DEFINE D == Placement
           r == [z \in D |-> Cardinality(Rest(z))]
           G == [q \in D \X [D -> Nat] |-> FoundBy(q[2], q[1], s)]
<1>1. r \in [D -> Nat] /\ (\A z \in D : r[z] <= totalCells) /\ totalCells \in Nat
  <2>1. \A z \in D : Cardinality(Rest(z)) \in Nat /\ Cardinality(Rest(z)) <= totalCells
    BY Levels, Cells
  <2> QED
    BY <2>1, Cells
<1>2. ASSUME NEW z \in D, NEW g \in [D -> Nat] PROVE FoundBy(g, z, s) \in Nat
  <2>1. SumOf([n \in Steps(z) |-> g[Visit(z, n)]], Steps(z)) \in Nat
    BY StepsSum DEF Values
  <2>2. completions(z) \in Nat
    BY LookupNat
  <2> QED
    BY <2>1, <2>2 DEF FoundBy
<1>3. G \in [D \X [D -> Nat] -> Nat] /\ \A z \in D : \A g \in [D -> Nat] : G[<<z, g>>] = FoundBy(g, z, s)
  <2>1. \A z \in D : \A g \in [D -> Nat] : <<z, g>> \in D \X [D -> Nat] /\ <<z, g>>[1] = z /\ <<z, g>>[2] = g
    OBVIOUS
  <2>2. \A q \in D \X [D -> Nat] : FoundBy(q[2], q[1], s) \in Nat
    BY <1>2
  <2> QED
    BY <2>1, <2>2
<1>4. ASSUME NEW z \in D, NEW f \in [D -> Nat], NEW g \in [D -> Nat], \A y \in D : r[y] < r[z] => f[y] = g[y]
      PROVE  G[<<z, f>>] = G[<<z, g>>]
  <2>1. \A n \in Steps(z) : f[Visit(z, n)] = g[Visit(z, n)]
    BY <1>4, StepsFinite
  <2>2. [n \in Steps(z) |-> f[Visit(z, n)]] = [n \in Steps(z) |-> g[Visit(z, n)]]
    BY <2>1
  <2>3. FoundBy(f, z, s) = FoundBy(g, z, s)
    BY <2>2 DEF FoundBy
  <2> QED
    BY <1>3, <2>3
<1>5. PICK h \in [D -> Nat] : \A z \in D : h[z] = G[<<z, h>>]
  <2>1. G \in [D \X [D -> Nat] -> Nat]
    BY <1>3
  <2>2. Nat # {} /\ totalCells \in Nat
    BY Cells
  <2>3. \A z \in D : \A f, g \in [D -> Nat] : (\A y \in D : r[y] < r[z] => f[y] = g[y]) => G[<<z, f>>] = G[<<z, g>>]
    BY <1>4
  <2>4. r \in [D -> Nat] /\ \A z \in D : r[z] <= totalCells
    BY <1>1
  <2> HIDE DEF r, G, D
  <2>5. Recurses(D, Nat, r, totalCells, G)
    BY <2>1, <2>2, <2>3, <2>4 DEF Recurses
  <2> QED
    BY <2>5, Recursion
<1> QED
    BY <1>3, <1>5

LEMMA Found ==
    ASSUME table \in Tables, NEW s
    PROVE  \E k : \A z \in Placement : k[z] = FoundBy(k, z, s) /\ dfsCount(z, s) = k[z]
<1> DEFINE Solves(g) == g = [p \in Placement |->
                IF p[1] = Cell THEN 1
                ELSE IF Cardinality(p[1]) = s THEN completions(p)
                ELSE SumFunction([n \in Steps(p) |-> g[Visit(p, n)]])]
           k == CHOOSE g : Solves(g)
<1>0. \A g : \A z : SumFunction([n \in Steps(z) |-> g[Visit(z, n)]]) = SumOf([n \in Steps(z) |-> g[Visit(z, n)]], Steps(z))
  <2>1. ASSUME NEW g, NEW z
        PROVE  SumFunction([n \in Steps(z) |-> g[Visit(z, n)]]) = SumOf([n \in Steps(z) |-> g[Visit(z, n)]], Steps(z))
    <3> DEFINE a == [n \in Steps(z) |-> g[Visit(z, n)]]
    <3>1. DOMAIN a = Steps(z)
        OBVIOUS
    <3> HIDE DEF a
    <3>2. SumFunction(a) = SumOf(a, Steps(z))
        BY <3>1, SumUnfolds
    <3> QED
        BY <3>2 DEF a
  <2> QED
    BY <2>1
<1>1. PICK h \in [Placement -> Nat] : \A z \in Placement : h[z] = FoundBy(h, z, s)
    BY FoundSolved
<1>2. Solves(h)
  <2> DEFINE rhs == [p \in Placement |->
                IF p[1] = Cell THEN 1
                ELSE IF Cardinality(p[1]) = s THEN completions(p)
                ELSE SumFunction([n \in Steps(p) |-> h[Visit(p, n)]])]
  <2>1. ASSUME NEW z \in Placement PROVE rhs[z] = h[z]
    <3>1. rhs[z] = FoundBy(h, z, s)
        BY <1>0 DEF FoundBy, Level
    <3> QED
        BY <1>1, <3>1
  <2>2. h = rhs
    <3> HIDE DEF rhs
    <3>1. DOMAIN rhs = Placement /\ rhs = [z \in Placement |-> rhs[z]]
        BY DEF rhs
    <3> QED
        BY <2>1, <3>1
  <2> QED
    BY <2>2
<1>3. Solves(k)
  <2> HIDE DEF Solves
  <2> QED BY <1>2
<1>4. ASSUME NEW z \in Placement PROVE k[z] = FoundBy(k, z, s)
  <2>1. k = [p \in Placement |->
                IF p[1] = Cell THEN 1
                ELSE IF Cardinality(p[1]) = s THEN completions(p)
                ELSE SumFunction([n \in Steps(p) |-> k[Visit(p, n)]])]
    BY <1>3
  <2> HIDE DEF k, Solves
  <2> QED
    BY <1>0, <2>1 DEF FoundBy, Level
<1>5. \A z \in Placement : dfsCount(z, s) = k[z]
    BY DEF dfsCount
<1> HIDE DEF k, Solves
<1> QED
    BY <1>4, <1>5

(* A descent counts the completions, if what it looks up does.             *)
LEMMA CountsAll ==
    ASSUME table \in Tables, NEW s,
           \A p \in Partial : Paths(p) > 0 /\ Level(p) = s /\ p[1] # Cell => completions(p) = Ext(p)
    PROVE  \A z \in Partial : Paths(z) > 0 => dfsCount(z, s) = Ext(z)
<1>1. PICK k : \A z \in Placement : k[z] = FoundBy(k, z, s) /\ dfsCount(z, s) = k[z]
    BY Found
<1> DEFINE r == [y \in Partial |-> Cardinality(Rest(y))]
           P == {y \in Partial : Paths(y) > 0 => k[y] = Ext(y)}
<1>2. \A y \in Partial : y \in Placement /\ Cardinality(Rest(y)) \in Nat
    BY Levels DEF Partial
<1>3. r \in [Partial -> Nat]
    BY <1>2
<1>4. ASSUME NEW y \in Partial, \A x \in Partial : r[x] < r[y] => x \in P PROVE y \in P
  <2> SUFFICES ASSUME Paths(y) > 0 PROVE k[y] = Ext(y)
    OBVIOUS
  <2>1. k[y] = FoundBy(k, y, s) /\ y \in Placement
    BY <1>1, <1>2
  <2>2. CASE y[1] = Cell
    <3>1. Rest(y) = {}
        BY <2>1, <2>2, Levels
    <3> QED
        BY <2>1, <2>2, <3>1 DEF FoundBy, Ext
  <2>3. CASE y[1] # Cell /\ Level(y) = s
    BY <2>1, <2>3 DEF FoundBy
  <2>4. CASE y[1] # Cell /\ Level(y) # s
    <3> DEFINE a == [n \in Onward(y) |-> Ext(Visit(y, n))]
               b == [n \in Steps(y) |-> k[Visit(y, n)]]
    <3>1. Rest(y) # {}
        BY <2>1, <2>4, Levels
    <3>2. Counts(a, Onward(y)) /\ Ext(y) = SumOf(a, Onward(y))
        BY <2>1, <3>1, ExtSum
    <3>3. Steps(y) \in SUBSET Onward(y) /\ \A n \in Onward(y) \ Steps(y) : a[n] = 0
        BY <2>1, StepsKeep
    <3>4. \A n \in Steps(y) : b[n] = a[n]
      <4>1. ASSUME NEW n \in Steps(y) PROVE k[Visit(y, n)] = Ext(Visit(y, n))
        <5>1. PICK x : x = Visit(y, n)
          OBVIOUS
        <5>2. n \in Onward(y) /\ x \in Partial /\ r[x] < r[y]
          BY <2>1, <5>1, StepsFinite
        <5>3. Paths(x) > 0
          BY <5>1, <5>2, PathsGrow
        <5>4. x \in P
          BY <1>4, <5>2
        <5> QED
          BY <5>1, <5>3, <5>4
      <4> QED
        BY <3>3, <4>1
    <3>5. k[y] = SumOf(b, Steps(y))
        BY <2>1, <2>4 DEF FoundBy
    <3> HIDE DEF a, b
    <3>6. Counts(a, Steps(y)) /\ SumOf(a, Steps(y)) = SumOf(a, Onward(y))
        BY <3>2, <3>3, SumPart
    <3>7. SumOf(b, Steps(y)) = SumOf(a, Steps(y))
        BY <3>4, <3>6, SumSame
    <3> QED
        BY <3>2, <3>5, <3>6, <3>7
  <2> QED
    BY <2>2, <2>3, <2>4
<1>5. \A y \in Partial : y \in P
  <2> HIDE DEF P, r
  <2> QED BY <1>3, <1>4, RankInduction
<1> QED
    BY <1>1, <1>2, <1>5

LEMMA BaseIs ==
    ASSUME NEW d \in 1 .. totalCells, d = precomputeDepth
    PROVE  base \in 1 .. d /\ (base < d => base >= 2)
<1>1. d \in Nat /\ d >= 1
    BY Cells
<1>2. base = Min({d, 5})
    BY DEF base, TwoPhaseBaseDepth
<1>3. CASE d <= 5
  <2>1. base = d
    BY <1>1, <1>2, <1>3 DEF Min
  <2> QED
    BY <1>1, <2>1
<1>4. CASE d > 5
  <2>1. base = 5
    BY <1>1, <1>2, <1>4 DEF Min
  <2> QED
    BY <1>1, <1>4, <2>1
<1> QED
    BY <1>1, <1>3, <1>4

LEMMA CountsRight ==
    ASSUME NEW d \in 1 .. totalCells, d = precomputeDepth, NEW b \in 1 .. d, Faithful(table, b, d),
           NEW z \in Partial, Paths(z) > 0
    PROVE  CountPathsWithCacheReversal(z) = Ext(z) /\ dfsCount(z, FullDescent) = Ext(z)
<1>1. table \in Tables /\ totalCells \in Nat /\ d \in Nat /\ d >= 1 /\ totalCells >= 1
    BY Cells DEF Faithful
<1>2. \A p \in Partial : Level(p) \in Nat
    BY Levels DEF Partial
<1>3. PICK x : x = FullDescent
    OBVIOUS
<1>4. \A p \in Partial : Level(p) # x
    BY <1>2, <1>3 DEF FullDescent
<1>5. dfsCount(z, x) = Ext(z)
    BY <1>1, <1>4, CountsAll
<1>6. PICK s : s = StopLevel
    OBVIOUS
<1>7. ASSUME NEW p \in Partial, Paths(p) > 0, Level(p) = s PROVE completions(p) = Ext(p)
  <2>1. CASE 2 * d <= totalCells
    <3>1. s = totalCells - d /\ d < totalCells
        BY <1>1, <1>6, <2>1 DEF StopLevel
    <3> QED
        BY <1>7, <3>1, Reversal
  <2>2. CASE ~ (2 * d <= totalCells)
    <3>1. s = x
        BY <1>3, <1>6, <2>2 DEF StopLevel
    <3> QED
        BY <1>4, <1>7, <3>1
  <2> QED
    BY <2>1, <2>2
<1>8. dfsCount(z, s) = Ext(z)
    BY <1>1, <1>7, CountsAll
<1> QED
    BY <1>3, <1>5, <1>6, <1>8 DEF CountPathsWithCacheReversal

-----------------------------------------------------------------------------
(* The steps of the phases, without the state.                             *)
LEMMA EmptyTable ==
    ASSUME NEW B \in Tables, DOMAIN B = {}
    PROVE  B = EmptyBag
<1>1. B = [p \in DOMAIN B |-> B[p]]
    BY InTables
<1>2. EmptyBag = [e \in {} |-> 1]
    BY DEF EmptyBag, SetToBag
<1> QED
    BY <1>1, <1>2

(* A task q is taken and the entries T of its descent are written.         *)
HandsOn(B, C, q, T, B2, C2) ==
    /\ B \in Tables /\ C \in Tables /\ T \in Tables /\ q \in DOMAIN B
    /\ B2 = [p \in DOMAIN B \ {q} |-> B[p]]
    /\ C2 = C (+) T

LEMMA Handed ==
    ASSUME NEW B, NEW C, NEW q, NEW T, NEW B2, NEW C2, HandsOn(B, C, q, T, B2, C2)
    PROVE  B2 \in Tables /\ DOMAIN B2 \subseteq DOMAIN B /\ C2 \in Tables /\ DOMAIN C2 \subseteq DOMAIN C \cup DOMAIN T
<1>1. /\ B \in Tables /\ C \in Tables /\ T \in Tables /\ q \in DOMAIN B
      /\ B2 = [p \in DOMAIN B \ {q} |-> B[p]] /\ C2 = C (+) T
    BY DEF HandsOn
<1>2. B2 \in Tables /\ DOMAIN B2 = DOMAIN B \ {q}
    BY <1>1, WorthTake
<1>3. C2 \in Tables /\ DOMAIN C2 = DOMAIN C \cup DOMAIN T
    BY <1>1, WorthJoin
<1> QED
    BY <1>2, <1>3

LEMMA HandedWorth ==
    ASSUME NEW B, NEW C, NEW q, NEW T, NEW B2, NEW C2, HandsOn(B, C, q, T, B2, C2),
           NEW v \in Values, Worth(v, T) = B[q] * v[q]
    PROVE  Worth(v, B2) + Worth(v, C2) = Worth(v, B) + Worth(v, C)
<1>1. /\ B \in Tables /\ C \in Tables /\ T \in Tables /\ q \in DOMAIN B
      /\ B2 = [p \in DOMAIN B \ {q} |-> B[p]] /\ C2 = C (+) T
    BY DEF HandsOn
<1>2. B2 \in Tables /\ Worth(v, B) = B[q] * v[q] + Worth(v, B2)
  <2>1. /\ B2 \in Tables /\ DOMAIN B2 = DOMAIN B \ {q}
        /\ B[q] \in Nat /\ q \in Placement
        /\ \A w \in Values : Worth(w, B) = B[q] * w[q] + Worth(w, B2)
    BY <1>1, WorthTake
  <2> QED
    BY <2>1
<1>3. Worth(v, C2) = Worth(v, C) + Worth(v, T)
    BY <1>1, WorthJoin
<1>4. Worth(v, B2) \in Nat /\ Worth(v, C) \in Nat /\ Worth(v, T) \in Nat
    BY <1>1, <1>2, WorthNat
<1>5. Worth(v, B) = Worth(v, T) + Worth(v, B2)
    BY <1>2
<1> QED
    BY <1>3, <1>4, <1>5

LEMMA WorthAgrees ==
    ASSUME NEW B \in Tables, NEW u \in Values, NEW v \in Values, \A z \in DOMAIN B : u[z] = v[z]
    PROVE  Worth(u, B) = Worth(v, B)
<1> DEFINE a == [p \in Placement |-> Weight(B, p) * u[p]]
           b == [p \in Placement |-> Weight(B, p) * v[p]]
<1>1. ASSUME NEW p \in Placement PROVE a[p] = b[p]
  <2>1. CASE p \in DOMAIN B
    BY <2>1
  <2>2. CASE p \notin DOMAIN B
    <3>1. Weight(B, p) = 0 /\ u[p] \in Nat /\ v[p] \in Nat
        BY <2>2 DEF Weight, Values
    <3> QED
        BY <3>1
  <2> QED
    BY <2>1, <2>2
<1>2. a = b
    BY <1>1
<1> QED
    BY <1>2 DEF Worth

LEMMA Begins ==
    ASSUME NEW b \in 1 .. totalCells, NEW z \in Starts, NEW w \in Nat
    PROVE  Carries(GenerateTasks(z[2], w, b), z, b, w)
<1>1. z \in Partial /\ Level(z) = 1 /\ Paths(z) = 1 /\ z[2] \in Cell /\ z = <<{z[2]}, z[2]>>
  <2>1. PICK c \in GetCanonicalGroups : z = <<{c}, c>>
    BY DEF Starts
  <2>2. c \in Cell
    BY DEF GetCanonicalGroups
  <2>3. z[2] = c
    BY <2>1
  <2> QED
    BY <2>1, <2>2, <2>3, Start1
<1>2. b \in Nat /\ 1 <= b
    BY Cells
<1>3. CASE ShouldSkip(z[2])
  <2>1. GenerateTasks(z[2], w, b) = EmptyBag
    BY <1>3 DEF GenerateTasks
  <2>2. EmptyBag \in Tables /\ DOMAIN EmptyBag = {} /\ \A v \in Values : Worth(v, EmptyBag) = 0
    BY WorthEmpty
  <2>3. ASSUME NEW v, Carried(v, b) PROVE Worth(v, EmptyBag) = w * v[z]
    <3>1. v \in Values /\ v[z] = 0
        BY <1>1, <1>3, <2>3 DEF Carried, LeftOut
    <3>2. w * v[z] = 0
        BY <3>1
    <3> QED
        BY <2>2, <3>1, <3>2
  <2> QED
    BY <2>1, <2>2, <2>3 DEF Carries
<1>4. CASE ~ ShouldSkip(z[2])
  <2>1. GenerateTasks(z[2], w, b) = dfsTask(<<{z[2]}, z[2]>>, b, w)
    BY <1>4 DEF GenerateTasks
  <2>2. GenerateTasks(z[2], w, b) = dfsTask(z, b, w)
    BY <1>1, <2>1, Zenon
  <2>3. Carries(dfsTask(z, b, w), z, b, w)
    BY <1>1, <1>2, <1>4, Transfer DEF LeftOut
  <2> QED
    BY <2>2, <2>3
<1> QED
    BY <1>3, <1>4

LEMMA Extends ==
    ASSUME NEW d \in 1 .. totalCells, NEW b \in 1 .. d, b < d => b >= 2, NEW p \in Reached(b), NEW w \in Nat
    PROVE  Carries(ExtendTask(p, w, d), p, d, w)
<1>1. p \in Partial /\ p \in Placement /\ Level(p) = b /\ Paths(p) > 0 /\ d \in Nat /\ b \in Nat /\ b <= d
    BY Cells DEF Reached, Partial
<1>2. CASE b = d
  <2>1. ExtendTask(p, w, d) = Entry(p, w)
    BY <1>1, <1>2 DEF ExtendTask, Level
  <2>2. /\ Entry(p, w) \in Tables /\ DOMAIN Entry(p, w) = {p}
        /\ \A v \in Values : Worth(v, Entry(p, w)) = w * v[p]
    BY <1>1, WorthEntry
  <2> QED
    BY <1>2, <2>1, <2>2 DEF Carries, Carried
<1>3. CASE b # d
  <2>1. ExtendTask(p, w, d) = dfsTask(p, d, w)
    BY <1>1, <1>3 DEF ExtendTask, Level
  <2>2. ~ LeftOut(p) /\ Level(p) <= d
    BY <1>1, <1>3 DEF LeftOut
  <2>3. Carries(dfsTask(p, d, w), p, d, w)
    BY <1>1, <2>2, Transfer
  <2> QED
    BY <2>1, <2>3
<1> QED
    BY <1>2, <1>3

LEMMA ExtsLinked ==
    ASSUME NEW d \in 1 .. totalCells, NEW b \in 1 .. d
    PROVE  Linked(Exts, Exts, b, d) /\ StartWorth(Exts) = Tours /\ Tours \in Nat /\ Exts \in Values
<1>1. Harmonic(Exts, totalCells) /\ StartWorth(Exts) = Tours /\ Tours \in Nat
    BY ExtsHarmonic
<1>2. Harmonic(Exts, d)
  <2>1. \A z \in Partial : Level(z) \in Nat /\ d <= totalCells /\ totalCells \in Nat /\ d \in Nat
    BY Levels, Cells DEF Partial
  <2>2. \A z \in Partial : Level(z) < d => Level(z) < totalCells
    BY <2>1
  <2> QED
    BY <1>1, <2>2 DEF Harmonic
<1> QED
    BY <1>1, <1>2, HarmonicLinked DEF Harmonic

-----------------------------------------------------------------------------
(* The inductive invariant. What is left to do and what is in the table    *)
(* together have the worth of the starts, under every value the descents   *)
(* of the phases carry.                                                    *)
GenerationA ==
    /\ total = 0 /\ cancelled = FALSE
    /\ DOMAIN tasks \subseteq Starts
    /\ DOMAIN table \subseteq Reached(base)
    /\ \A u : Carried(u, base) => Worth(u, tasks) + Worth(u, table) = StartWorth(u)

GenerationB ==
    /\ total = 0 /\ cancelled = FALSE
    /\ DOMAIN tasks \subseteq Reached(base)
    /\ DOMAIN table \subseteq Reached(precomputeDepth)
    /\ \A u, v : Linked(u, v, base, precomputeDepth) => Worth(v, tasks) + Worth(v, table) = StartWorth(u)

Counting ==
    /\ cancelled = FALSE
    /\ Faithful(table, base, precomputeDepth)
    /\ DOMAIN tasks \subseteq Reached(precomputeDepth)
    /\ DOMAIN tasks \subseteq DOMAIN table /\ \A p \in DOMAIN tasks : tasks[p] = table[p]
    /\ total + Worth(Exts, tasks) = Tours

Returned == IF cancelled THEN total <= Tours ELSE total = Tours

PipelineInv ==
    /\ precomputeDepth \in 1 .. totalCells
    /\ tasks \in Tables /\ table \in Tables /\ total \in Nat
    /\ phase = "gen A" => GenerationA
    /\ phase = "gen B" => GenerationB
    /\ phase = "counting" => Counting
    /\ phase = "returned" => Returned

LEMMA DepthInRange ==
    ASSUME Init
    PROVE  precomputeDepth \in 1 .. totalCells
<1>1. CASE precomputeDepth \in Depths
    BY <1>1, PipelineAssumption
<1>2. CASE precomputeDepth \in {appArgs(flags).precomputeDepth : flags \in Runs}
  <2>1. PICK flags \in Runs : precomputeDepth = appArgs(flags).precomputeDepth
    BY <1>2
  <2>2. flags \in CommandLines /\ Accepted(flags) /\ appArgs(flags).size = Size
    BY <2>1 DEF Runs
  <2>3. Flags(flags)
    BY <2>2, PipelineAssumption
  <2>4. PICK n, m : n = appArgs(flags).precomputeDepth /\ m = appArgs(flags).size
    OBVIOUS
  <2>5. n >= 1 /\ n < m * m
    BY <2>2, <2>3, <2>4, AcceptedReadsTable
  <2>6. n \in 1 .. ((m * m) \div 2)
    BY <2>2, <2>4 DEF Accepted
  <2>7. n \in Int /\ m = Size /\ totalCells \in Nat /\ m * m = totalCells
    BY <2>2, <2>4, <2>6, Cells DEF totalCells
  <2> QED
    BY <2>1, <2>4, <2>5, <2>7
<1> QED
    BY <1>1, <1>2 DEF Init

LEMMA InvStarts == Init => PipelineInv
<1> SUFFICES ASSUME Init PROVE PipelineInv
    OBVIOUS
<1>1. precomputeDepth \in 1 .. totalCells
    BY DepthInRange
<1>2. phase = "gen A" /\ total = 0 /\ cancelled = FALSE /\ table = EmptyBag
    BY DEF Init
<1>3. PICK B : B = tasks
    OBVIOUS
<1>4. /\ B \in Tables /\ DOMAIN B = Starts
      /\ \A v \in Values : (\A t \in Transforms : \A z \in Placement : v[Move(t, z)] = v[z]) => Worth(v, B) = StartWorth(v)
  <2>1. B = [p \in {<<{c}, c>> : c \in GetCanonicalGroups} |-> GetOrbitSize(p[2])]
    BY <1>3 DEF Init
  <2> QED
    BY <2>1, StartsWorth
<1>5. table \in Tables /\ DOMAIN table = {} /\ \A v \in Values : Worth(v, table) = 0
    BY <1>2, WorthEmpty
<1>6. ASSUME NEW u, Carried(u, base) PROVE Worth(u, tasks) + Worth(u, table) = StartWorth(u)
  <2>1. u \in Values /\ \A t \in Transforms : \A z \in Placement : u[Move(t, z)] = u[z]
    BY <1>6 DEF Carried
  <2>2. Worth(u, B) = StartWorth(u) /\ Worth(u, B) \in Nat /\ Worth(u, table) = 0
    BY <1>4, <1>5, <2>1, WorthNat
  <2> QED
    BY <1>3, <2>2
<1>7. GenerationA
    BY <1>2, <1>3, <1>4, <1>5, <1>6 DEF GenerationA
<1> QED
    BY <1>1, <1>2, <1>3, <1>4, <1>5, <1>7 DEF PipelineInv

(* The task that is taken.                                                 *)
LEMMA Taken ==
    ASSUME tasks \in Tables, tasks # EmptyBag
    PROVE  Task \in DOMAIN tasks
<1>1. DOMAIN tasks # {}
    BY EmptyTable
<1> QED
    BY <1>1 DEF Task, Either

LEMMA InvGenerateIntermediate == PipelineInv /\ GenerateIntermediate => PipelineInv'
<1> SUFFICES ASSUME PipelineInv, GenerateIntermediate PROVE PipelineInv'
    OBVIOUS
<1>1. /\ phase = "gen A" /\ tasks # EmptyBag /\ phase' = phase /\ total' = total /\ cancelled' = cancelled
      /\ precomputeDepth' = precomputeDepth /\ tasks' = [p \in DOMAIN tasks \ {Task} |-> tasks[p]]
      /\ table' = table (+) GenerateTasks(Task[2], tasks[Task], base)
    BY DEF GenerateIntermediate, TakeTask
<1>2. PICK B, C, q, d : B = tasks /\ C = table /\ q = Task /\ d = precomputeDepth
    OBVIOUS
<1>3. d \in 1 .. totalCells /\ B \in Tables /\ C \in Tables /\ q \in DOMAIN B /\ GenerationA /\ total \in Nat
    BY <1>1, <1>2, Taken DEF PipelineInv
<1>4. PICK b : b = base
    OBVIOUS
<1>5. b \in 1 .. totalCells /\ base' = b
  <2>1. b \in 1 .. d
    BY <1>2, <1>3, <1>4, BaseIs
  <2>2. base' = base
    BY <1>1 DEF base
  <2> QED
    BY <1>3, <1>4, <2>1, <2>2, Cells
<1>6. q \in Starts /\ DOMAIN B \subseteq Starts /\ DOMAIN C \subseteq Reached(b)
      /\ \A u : Carried(u, b) => Worth(u, B) + Worth(u, C) = StartWorth(u)
    BY <1>2, <1>3, <1>4 DEF GenerationA
<1>7. PICK T : T = GenerateTasks(q[2], B[q], b)
    OBVIOUS
<1>8. Carries(T, q, b, B[q])
  <2>1. B[q] \in Nat
    BY <1>3, InTables
  <2> QED
    BY <1>5, <1>6, <1>7, <2>1, Begins
<1>9. PICK B2, C2 : B2 = tasks' /\ C2 = table'
    OBVIOUS
<1>10. B2 = [p \in DOMAIN B \ {q} |-> B[p]] /\ C2 = C (+) T
    BY <1>1, <1>2, <1>4, <1>7, <1>9
<1>11. T \in Tables /\ DOMAIN T \subseteq Reached(b) /\ \A u : Carried(u, b) => Worth(u, T) = B[q] * u[q]
    BY <1>8 DEF Carries
<1>12. /\ B2 \in Tables /\ DOMAIN B2 \subseteq DOMAIN B /\ C2 \in Tables /\ DOMAIN C2 \subseteq DOMAIN C \cup DOMAIN T
       /\ \A v \in Values : Worth(v, T) = B[q] * v[q] => Worth(v, B2) + Worth(v, C2) = Worth(v, B) + Worth(v, C)
  <2>1. B \in Tables /\ C \in Tables /\ q \in DOMAIN B /\ T \in Tables
    BY <1>3, <1>11
  <2>2. B2 = [p \in DOMAIN B \ {q} |-> B[p]]
    BY <1>10
  <2>3. C2 = C (+) T
    BY <1>10
  <2>4. HandsOn(B, C, q, T, B2, C2)
    BY <2>1, <2>2, <2>3 DEF HandsOn
  <2>5. B2 \in Tables /\ DOMAIN B2 \subseteq DOMAIN B /\ C2 \in Tables /\ DOMAIN C2 \subseteq DOMAIN C \cup DOMAIN T
    <3>1. B2 \in Tables
      BY <2>4, Handed
    <3>2. DOMAIN B2 \subseteq DOMAIN B
      BY <2>4, Handed
    <3>3. C2 \in Tables
      BY <2>4, Handed
    <3>4. DOMAIN C2 \subseteq DOMAIN C \cup DOMAIN T
      BY <2>4, Handed
    <3> QED
      BY <3>1, <3>2, <3>3, <3>4
  <2>6. ASSUME NEW v \in Values, Worth(v, T) = B[q] * v[q]
        PROVE  Worth(v, B2) + Worth(v, C2) = Worth(v, B) + Worth(v, C)
    BY <2>4, <2>6, HandedWorth
  <2> QED
    BY <2>5, <2>6
<1>13. ASSUME NEW u, Carried(u, b) PROVE Worth(u, B2) + Worth(u, C2) = StartWorth(u)
  <2>1. u \in Values
    BY <1>13 DEF Carried
  <2> QED
    BY <1>6, <1>11, <1>12, <1>13, <2>1
<1>14. GenerationA'
  <2>1. total' = 0 /\ cancelled' = FALSE
    BY <1>1, <1>3 DEF GenerationA
  <2>2. DOMAIN tasks' \subseteq Starts /\ DOMAIN table' \subseteq Reached(base')
    BY <1>5, <1>6, <1>9, <1>11, <1>12
  <2>3. \A u : Carried(u, base') => Worth(u, tasks') + Worth(u, table') = StartWorth(u)
    BY <1>5, <1>9, <1>13
  <2> QED
    BY <2>1, <2>2, <2>3 DEF GenerationA
<1> QED
    BY <1>1, <1>2, <1>3, <1>9, <1>12, <1>14 DEF PipelineInv

LEMMA InvMaterialize == PipelineInv /\ MaterializeWorklist => PipelineInv'
<1> SUFFICES ASSUME PipelineInv, MaterializeWorklist PROVE PipelineInv'
    OBVIOUS
<1>1. /\ phase = "gen A" /\ tasks = EmptyBag /\ phase' = "gen B" /\ total' = total /\ cancelled' = cancelled
      /\ precomputeDepth' = precomputeDepth /\ tasks' = table /\ table' = EmptyBag
    BY DEF MaterializeWorklist
<1>2. PICK C, d, b : C = table /\ d = precomputeDepth /\ b = base
    OBVIOUS
<1>3. d \in 1 .. totalCells /\ C \in Tables /\ GenerationA /\ total \in Nat /\ base' = b
    BY <1>1, <1>2 DEF PipelineInv, base
<1>4. DOMAIN C \subseteq Reached(b) /\ \A u : Carried(u, b) => Worth(u, EmptyBag) + Worth(u, C) = StartWorth(u)
    BY <1>1, <1>2, <1>3 DEF GenerationA
<1>5. EmptyBag \in Tables /\ DOMAIN EmptyBag = {} /\ \A v \in Values : Worth(v, EmptyBag) = 0
    BY WorthEmpty
<1>6. ASSUME NEW u, NEW v, Linked(u, v, b, d) PROVE Worth(v, C) + Worth(v, EmptyBag) = StartWorth(u)
  <2>1. Carried(u, b) /\ Carried(v, d) /\ u \in Values /\ v \in Values
    BY <1>6 DEF Linked, Carried
  <2>2. \A z \in DOMAIN C : u[z] = v[z]
    BY <1>4, <1>6 DEF Linked, Reached
  <2>3. Worth(u, C) = Worth(v, C) /\ Worth(u, C) \in Nat
    BY <1>3, <2>1, <2>2, WorthAgrees, WorthNat
  <2>4. Worth(u, EmptyBag) = 0 /\ Worth(v, EmptyBag) = 0
    BY <1>5, <2>1
  <2>5. Worth(u, EmptyBag) + Worth(u, C) = StartWorth(u)
    BY <1>4, <2>1
  <2> QED
    BY <2>3, <2>4, <2>5
<1>7. GenerationB'
  <2>1. total' = 0 /\ cancelled' = FALSE
    BY <1>1, <1>3 DEF GenerationA
  <2>2. DOMAIN tasks' \subseteq Reached(base') /\ DOMAIN table' \subseteq Reached(precomputeDepth')
    BY <1>1, <1>2, <1>3, <1>4, <1>5
  <2>3. \A u, v : Linked(u, v, base', precomputeDepth') => Worth(v, tasks') + Worth(v, table') = StartWorth(u)
    BY <1>1, <1>2, <1>3, <1>6
  <2> QED
    BY <2>1, <2>2, <2>3 DEF GenerationB
<1> QED
    BY <1>1, <1>2, <1>3, <1>5, <1>7 DEF PipelineInv

LEMMA InvExtendInto == PipelineInv /\ ExtendInto => PipelineInv'
<1> SUFFICES ASSUME PipelineInv, ExtendInto PROVE PipelineInv'
    OBVIOUS
<1>1. /\ phase = "gen B" /\ tasks # EmptyBag /\ phase' = phase /\ total' = total /\ cancelled' = cancelled
      /\ precomputeDepth' = precomputeDepth /\ tasks' = [p \in DOMAIN tasks \ {Task} |-> tasks[p]]
      /\ table' = table (+) ExtendTask(Task, tasks[Task], precomputeDepth)
    BY DEF ExtendInto, TakeTask
<1>2. PICK B, C, q, d : B = tasks /\ C = table /\ q = Task /\ d = precomputeDepth
    OBVIOUS
<1>3. d \in 1 .. totalCells /\ B \in Tables /\ C \in Tables /\ q \in DOMAIN B /\ GenerationB /\ total \in Nat
    BY <1>1, <1>2, Taken DEF PipelineInv
<1>4. PICK b : b = base
    OBVIOUS
<1>5. b \in 1 .. d /\ (b < d => b >= 2) /\ base' = b
  <2>1. b \in 1 .. d /\ (b < d => b >= 2)
    BY <1>2, <1>3, <1>4, BaseIs
  <2>2. base' = base
    BY <1>1 DEF base
  <2> QED
    BY <1>4, <2>1, <2>2
<1>6. q \in Reached(b) /\ DOMAIN B \subseteq Reached(b) /\ DOMAIN C \subseteq Reached(d)
      /\ \A u, v : Linked(u, v, b, d) => Worth(v, B) + Worth(v, C) = StartWorth(u)
    BY <1>2, <1>3, <1>4 DEF GenerationB
<1>7. PICK T : T = ExtendTask(q, B[q], d)
    OBVIOUS
<1>8. Carries(T, q, d, B[q])
  <2>1. B[q] \in Nat
    BY <1>3, InTables
  <2> QED
    BY <1>3, <1>5, <1>6, <1>7, <2>1, Extends
<1>9. PICK B2, C2 : B2 = tasks' /\ C2 = table'
    OBVIOUS
<1>10. B2 = [p \in DOMAIN B \ {q} |-> B[p]] /\ C2 = C (+) T
    BY <1>1, <1>2, <1>7, <1>9
<1>11. T \in Tables /\ DOMAIN T \subseteq Reached(d) /\ \A v : Carried(v, d) => Worth(v, T) = B[q] * v[q]
    BY <1>8 DEF Carries
<1>12. /\ B2 \in Tables /\ DOMAIN B2 \subseteq DOMAIN B /\ C2 \in Tables /\ DOMAIN C2 \subseteq DOMAIN C \cup DOMAIN T
       /\ \A v \in Values : Worth(v, T) = B[q] * v[q] => Worth(v, B2) + Worth(v, C2) = Worth(v, B) + Worth(v, C)
  <2>1. B \in Tables /\ C \in Tables /\ q \in DOMAIN B /\ T \in Tables
    BY <1>3, <1>11
  <2>2. B2 = [p \in DOMAIN B \ {q} |-> B[p]]
    BY <1>10
  <2>3. C2 = C (+) T
    BY <1>10
  <2>4. HandsOn(B, C, q, T, B2, C2)
    BY <2>1, <2>2, <2>3 DEF HandsOn
  <2>5. B2 \in Tables /\ DOMAIN B2 \subseteq DOMAIN B /\ C2 \in Tables /\ DOMAIN C2 \subseteq DOMAIN C \cup DOMAIN T
    <3>1. B2 \in Tables
      BY <2>4, Handed
    <3>2. DOMAIN B2 \subseteq DOMAIN B
      BY <2>4, Handed
    <3>3. C2 \in Tables
      BY <2>4, Handed
    <3>4. DOMAIN C2 \subseteq DOMAIN C \cup DOMAIN T
      BY <2>4, Handed
    <3> QED
      BY <3>1, <3>2, <3>3, <3>4
  <2>6. ASSUME NEW v \in Values, Worth(v, T) = B[q] * v[q]
        PROVE  Worth(v, B2) + Worth(v, C2) = Worth(v, B) + Worth(v, C)
    BY <2>4, <2>6, HandedWorth
  <2> QED
    BY <2>5, <2>6
<1>13. ASSUME NEW u, NEW v, Linked(u, v, b, d) PROVE Worth(v, B2) + Worth(v, C2) = StartWorth(u)
  <2>1. Carried(v, d) /\ v \in Values
    BY <1>13 DEF Linked, Carried
  <2> QED
    BY <1>6, <1>11, <1>12, <1>13, <2>1
<1>14. GenerationB'
  <2>1. total' = 0 /\ cancelled' = FALSE
    BY <1>1, <1>3 DEF GenerationB
  <2>2. DOMAIN tasks' \subseteq Reached(base') /\ DOMAIN table' \subseteq Reached(precomputeDepth')
    BY <1>1, <1>2, <1>5, <1>6, <1>9, <1>11, <1>12
  <2>3. \A u, v : Linked(u, v, base', precomputeDepth') => Worth(v, tasks') + Worth(v, table') = StartWorth(u)
    BY <1>1, <1>2, <1>5, <1>9, <1>13
  <2> QED
    BY <2>1, <2>2, <2>3 DEF GenerationB
<1> QED
    BY <1>1, <1>2, <1>3, <1>9, <1>12, <1>14 DEF PipelineInv

LEMMA InvSeal == PipelineInv /\ Seal => PipelineInv'
<1> SUFFICES ASSUME PipelineInv, Seal PROVE PipelineInv'
    OBVIOUS
<1>1. /\ phase = "gen B" /\ tasks = EmptyBag /\ phase' = "counting" /\ total' = total /\ cancelled' = cancelled
      /\ precomputeDepth' = precomputeDepth /\ tasks' = table /\ table' = table
    BY DEF Seal
<1>2. PICK C, d, b : C = table /\ d = precomputeDepth /\ b = base
    OBVIOUS
<1>3. d \in 1 .. totalCells /\ C \in Tables /\ GenerationB /\ total \in Nat /\ base' = b /\ b \in 1 .. d
    BY <1>1, <1>2, BaseIs DEF PipelineInv, base
<1>4. DOMAIN C \subseteq Reached(d) /\ \A u, v : Linked(u, v, b, d) => Worth(v, EmptyBag) + Worth(v, C) = StartWorth(u)
    BY <1>1, <1>2, <1>3 DEF GenerationB
<1>5. ASSUME NEW u, NEW v, Linked(u, v, b, d) PROVE Worth(v, C) = StartWorth(u)
  <2>1. v \in Values
    BY <1>5 DEF Linked, Carried
  <2>2. Worth(v, EmptyBag) = 0 /\ Worth(v, C) \in Nat
    BY <1>3, <2>1, WorthEmpty, WorthNat
  <2>3. Worth(v, EmptyBag) + Worth(v, C) = StartWorth(u)
    BY <1>4, <1>5
  <2> QED
    BY <2>2, <2>3
<1>6. Faithful(C, b, d)
    BY <1>3, <1>4, <1>5 DEF Faithful
<1>7. Worth(Exts, C) = Tours /\ Tours \in Nat
    BY <1>3, <1>5, ExtsLinked
<1>8. Counting'
  <2>1. cancelled' = FALSE /\ total' = 0
    BY <1>1, <1>3 DEF GenerationB
  <2>2. Faithful(table', base', precomputeDepth')
    BY <1>1, <1>2, <1>3, <1>6
  <2>3. total' + Worth(Exts, tasks') = Tours
    <3>1. Worth(Exts, tasks') = Tours
      BY <1>1, <1>2, <1>7
    <3>2. PICK n : n = Tours
      OBVIOUS
    <3>3. n \in Nat /\ 0 + n = n
      BY <1>7, <3>2
    <3> QED
      BY <2>1, <3>1, <3>2, <3>3
  <2>4. DOMAIN tasks' \subseteq Reached(precomputeDepth') /\ DOMAIN tasks' \subseteq DOMAIN table' /\ \A p \in DOMAIN tasks' : tasks'[p] = table'[p]
    BY <1>1, <1>2, <1>4
  <2> QED
    BY <2>1, <2>2, <2>3, <2>4 DEF Counting
<1> QED
    BY <1>1, <1>2, <1>3, <1>8 DEF PipelineInv

(* The count of the task taken next, and what is left after it.            *)
LEMMA NextCount ==
    ASSUME PipelineInv, phase = "counting", tasks # EmptyBag
    PROVE  \E k, w, n, m \in Nat :
                /\ k = CountPathsWithCacheReversal(Task) /\ k = dfsCount(Task, FullDescent) /\ w = tasks[Task]
                /\ n = total /\ m = Worth(Exts, [p \in DOMAIN tasks \ {Task} |-> tasks[p]])
                /\ n + (w * k + m) = Tours
                /\ [p \in DOMAIN tasks \ {Task} |-> tasks[p]] \in Tables
                /\ Task \in DOMAIN tasks /\ Task \in Reached(precomputeDepth) /\ k = Ext(Task)
<1>1. PICK B, q, d, b : B = tasks /\ q = Task /\ d = precomputeDepth /\ b = base
    OBVIOUS
<1>2. d \in 1 .. totalCells /\ B \in Tables /\ q \in DOMAIN B /\ total \in Nat /\ Counting /\ b \in 1 .. d
    BY <1>1, Taken, BaseIs DEF PipelineInv
<1>3. q \in Reached(d) /\ Faithful(table, b, d) /\ total + Worth(Exts, B) = Tours
    BY <1>1, <1>2 DEF Counting
<1>4. q \in Partial /\ q \in Placement /\ Paths(q) > 0
    BY <1>3 DEF Reached, Partial
<1>5. CountPathsWithCacheReversal(q) = Ext(q) /\ dfsCount(q, FullDescent) = Ext(q) /\ Ext(q) \in Nat
    BY <1>1, <1>2, <1>3, <1>4, CountsRight, ExtNat
<1>6. PICK X : X = [p \in DOMAIN B \ {q} |-> B[p]]
    OBVIOUS
<1>7. Exts \in Values /\ Exts[q] = Ext(q)
    BY <1>2, <1>4, ExtsLinked DEF Exts
<1>8. X \in Tables /\ B[q] \in Nat /\ Worth(Exts, B) = B[q] * Exts[q] + Worth(Exts, X)
    BY <1>2, <1>6, <1>7, WorthTake
<1>9. Worth(Exts, X) \in Nat
    BY <1>7, <1>8, WorthNat
<1>10. PICK k \in Nat, w \in Nat, n \in Nat, m \in Nat : k = Ext(q) /\ w = B[q] /\ n = total /\ m = Worth(Exts, X)
    BY <1>2, <1>5, <1>8, <1>9
<1>11. n + (w * k + m) = Tours
    BY <1>3, <1>7, <1>8, <1>10
<1>12. tasks = B /\ Task = q /\ precomputeDepth = d /\ X = [p \in DOMAIN tasks \ {Task} |-> tasks[p]]
    BY <1>1, <1>6
<1> QED
    BY <1>2, <1>3, <1>5, <1>8, <1>10, <1>11, <1>12

LEMMA InvCountOneTask == PipelineInv /\ CountOneTask => PipelineInv'
<1> SUFFICES ASSUME PipelineInv, CountOneTask PROVE PipelineInv'
    OBVIOUS
<1>1. /\ phase = "counting" /\ tasks # EmptyBag /\ phase' = phase /\ cancelled' = cancelled
      /\ precomputeDepth' = precomputeDepth /\ table' = table /\ tasks' = [p \in DOMAIN tasks \ {Task} |-> tasks[p]]
      /\ total' = total + CountPathsWithCacheReversal(Task) * tasks[Task]
    BY DEF CountOneTask, TakeTask
<1>2. PICK k, w, n, m \in Nat :
            /\ k = CountPathsWithCacheReversal(Task) /\ w = tasks[Task]
            /\ n = total /\ m = Worth(Exts, [p \in DOMAIN tasks \ {Task} |-> tasks[p]])
            /\ n + (w * k + m) = Tours
            /\ [p \in DOMAIN tasks \ {Task} |-> tasks[p]] \in Tables
    BY <1>1, NextCount
<1>3. k * w = w * k /\ w * k \in Nat
    BY <1>2, Commutes, Distributes
<1>4. total' = n + w * k /\ total' \in Nat /\ total' + m = Tours
  <2>1. PICK x \in Nat : x = w * k
    BY <1>3
  <2>2. total' = n + x
    BY <1>1, <1>2, <1>3, <2>1
  <2>3. n + (x + m) = Tours
    BY <1>2, <2>1
  <2> QED
    BY <1>2, <2>1, <2>2, <2>3
<1>5. base' = base /\ Counting /\ tasks' \in Tables
    BY <1>1, <1>2 DEF PipelineInv, base
<1>6. Counting'
  <2>1. cancelled' = FALSE /\ Faithful(table', base', precomputeDepth')
    BY <1>1, <1>5 DEF Counting
  <2>2. DOMAIN tasks' \subseteq DOMAIN tasks /\ \A p \in DOMAIN tasks' : tasks'[p] = tasks[p]
    BY <1>1
  <2>3. DOMAIN tasks' \subseteq Reached(precomputeDepth') /\ DOMAIN tasks' \subseteq DOMAIN table' /\ \A p \in DOMAIN tasks' : tasks'[p] = table'[p]
    BY <1>1, <1>5, <2>2 DEF Counting
  <2>4. total' + Worth(Exts, tasks') = Tours
    BY <1>1, <1>2, <1>4
  <2> QED
    BY <2>1, <2>3, <2>4 DEF Counting
<1>7. precomputeDepth' \in 1 .. totalCells /\ table' \in Tables
    BY <1>1 DEF PipelineInv
<1> QED
    BY <1>1, <1>4, <1>5, <1>6, <1>7 DEF PipelineInv

LEMMA InvReturn == PipelineInv /\ Return => PipelineInv'
<1> SUFFICES ASSUME PipelineInv, Return PROVE PipelineInv'
    OBVIOUS
<1>1. /\ phase = "counting" /\ tasks = EmptyBag /\ phase' = "returned" /\ total' = total /\ cancelled' = cancelled
      /\ precomputeDepth' = precomputeDepth /\ tasks' = tasks /\ table' = table
    BY DEF Return
<1>2. Counting /\ total \in Nat /\ precomputeDepth \in 1 .. totalCells /\ tasks \in Tables /\ table \in Tables
    BY <1>1 DEF PipelineInv
<1>3. Worth(Exts, tasks) = 0
  <2>1. Exts \in Values
    BY <1>2, ExtsHarmonic DEF Harmonic
  <2> QED
    BY <1>1, <2>1, WorthEmpty
<1>4. total' = Tours /\ cancelled' = FALSE
    BY <1>1, <1>2, <1>3 DEF Counting
<1>5. Returned'
    BY <1>4 DEF Returned
<1> QED
    BY <1>1, <1>2, <1>5 DEF PipelineInv

LEMMA InvCancelGeneration == PipelineInv /\ CancelGeneration => PipelineInv'
<1> SUFFICES ASSUME PipelineInv, CancelGeneration PROVE PipelineInv'
    OBVIOUS
<1>1. /\ phase \in {"gen A", "gen B"} /\ phase' = "returned" /\ cancelled' = TRUE /\ total' = total
      /\ precomputeDepth' = precomputeDepth /\ tasks' = tasks /\ table' = table
    BY DEF CancelGeneration
<1>2. total = 0 /\ total \in Nat /\ precomputeDepth \in 1 .. totalCells /\ tasks \in Tables /\ table \in Tables
    BY <1>1 DEF PipelineInv, GenerationA, GenerationB
<1>3. Tours \in Nat
    BY ExtsHarmonic
<1>4. Returned'
  <2>1. total' <= Tours
    <3>1. total' = 0
      BY <1>1, <1>2
    <3> QED
      BY <1>3, <3>1
  <2> QED
    BY <1>1, <2>1 DEF Returned
<1> QED
    BY <1>1, <1>2, <1>4 DEF PipelineInv

LEMMA InvCancelCounting == PipelineInv /\ CancelCounting => PipelineInv'
<1> SUFFICES ASSUME PipelineInv, CancelCounting PROVE PipelineInv'
    OBVIOUS
<1>1. /\ phase = "counting" /\ tasks # EmptyBag /\ phase' = "returned" /\ cancelled' = TRUE
      /\ precomputeDepth' = precomputeDepth /\ tasks' = tasks /\ table' = table
      /\ \E part \in 0 .. CountPathsWithCacheReversal(Task) : total' = total + part * tasks[Task]
    BY DEF CancelCounting
<1>2. PICK part \in 0 .. CountPathsWithCacheReversal(Task) : total' = total + part * tasks[Task]
    BY <1>1
<1>3. PICK k, w, n, m \in Nat :
            /\ k = CountPathsWithCacheReversal(Task) /\ w = tasks[Task] /\ n = total
            /\ n + (w * k + m) = Tours
    BY <1>1, NextCount
<1>4. part \in Nat /\ part <= k
    BY <1>2, <1>3
<1>5. part * w <= w * k /\ part * w \in Nat /\ w * k \in Nat
  <2>1. PICK j \in Nat : k = part + j
    <3>1. k - part \in Nat /\ k = part + (k - part)
        BY <1>3, <1>4
    <3> QED
        BY <3>1
  <2>2. w * (part + j) = w * part + w * j /\ w * part \in Nat /\ w * j \in Nat /\ part * w = w * part
    BY <1>3, <1>4, <2>1, Distributes, Commutes
  <2> QED
    BY <2>1, <2>2
<1>6. PICK x \in Nat, y \in Nat : x = part * w /\ y = w * k
    BY <1>5
<1>7. total' = n + x /\ x <= y /\ n + (y + m) = Tours
    BY <1>2, <1>3, <1>5, <1>6
<1>8. total' \in Nat /\ total' <= Tours
    BY <1>3, <1>6, <1>7
<1>9. Returned'
    BY <1>1, <1>8 DEF Returned
<1> QED
    BY <1>1, <1>8, <1>9 DEF PipelineInv

LEMMA InvStays == PipelineInv /\ UNCHANGED vars => PipelineInv'
<1> SUFFICES ASSUME PipelineInv, UNCHANGED vars PROVE PipelineInv'
    OBVIOUS
<1>1. /\ phase' = phase /\ tasks' = tasks /\ table' = table /\ total' = total /\ cancelled' = cancelled
      /\ precomputeDepth' = precomputeDepth
    BY DEF vars
<1>2. base' = base
    BY <1>1 DEF base
<1>3. (GenerationA => GenerationA') /\ (GenerationB => GenerationB')
    BY <1>1, <1>2 DEF GenerationA, GenerationB
<1>4. (Counting => Counting') /\ (Returned => Returned')
    BY <1>1, <1>2 DEF Counting, Returned
<1> QED
    BY <1>1, <1>3, <1>4 DEF PipelineInv

LEMMA PipelineKeeps == Spec => []PipelineInv
<1>1. PipelineInv /\ [Next]_vars => PipelineInv'
    BY InvGenerateIntermediate, InvMaterialize, InvExtendInto, InvSeal, InvCountOneTask, InvReturn,
       InvCancelGeneration, InvCancelCounting, InvStays DEF Next
<1> QED
    BY InvStarts, <1>1, PTL DEF Spec

(* A run that ends reports the number of open tours of the board, from     *)
(* every split depth, whatever the cuts leave out, however the symmetric   *)
(* starts are grouped and whatever the lookups stand for, and a cancelled  *)
(* run never more than it: provided KnownTours is that number.             *)
THEOREM TotalIsExact ==
    ASSUME KnownTours = Tours
    PROVE  Spec => []TotalExact
<1>1. PipelineInv => TotalExact
    BY DEF PipelineInv, Returned, TotalExact
<1> QED
    BY <1>1, PipelineKeeps, PTL

(* For every task a count that stops early and reads the table is the      *)
(* count of the descent to the full board (dfsCount, completions).         *)
THEOREM ReversalIsExact == Spec => []ReversalExact
<1>1. PipelineInv => ReversalExact
    BY NextCount DEF ReversalExact
<1> QED
    BY <1>1, PipelineKeeps, PTL

-----------------------------------------------------------------------------
(* The cuts look at nothing that a symmetry changes.                       *)
LEMMA Mirror ==
    ASSUME NEW t \in Transforms, NEW S \in SUBSET Cell
    PROVE  /\ transformState(t, S) \in SUBSET Cell
           /\ \A c \in Cell : c \in S <=> perms[t][c] \in transformState(t, S)
           /\ transformState(t, S) = {} <=> S = {}
           /\ IsFiniteSet(S) /\ IsFiniteSet(transformState(t, S)) /\ Cardinality(S) \in Nat
           /\ Cardinality(transformState(t, S)) = Cardinality(S)
<1>1. transformState(t, S) \in SUBSET Cell
    BY PermsMove DEF transformState
<1>2. \A c, d \in Cell : perms[t][c] = perms[t][d] => c = d
    BY PermsUndo
<1>3. ASSUME NEW c \in Cell PROVE c \in S <=> perms[t][c] \in transformState(t, S)
    BY <1>2 DEF transformState
<1>4. transformState(t, S) = {} <=> S = {}
    BY DEF transformState
<1>5. IsFiniteSet(S) /\ IsFiniteSet(transformState(t, S)) /\ Cardinality(S) \in Nat
    BY <1>1, Cells, FS_Subset, FS_CardinalityType
<1>6. Cardinality(transformState(t, S)) = Cardinality(S)
  <2>1. PICK c : c \in Cell
    BY Cells
  <2>2. PICK z : z = <<S, c>>
    OBVIOUS
  <2>3. z \in Placement /\ z[1] = S
    BY <2>1, <2>2 DEF Placement, State
  <2>4. Move(t, z)[1] = transformState(t, S)
    BY <2>3, Images1
  <2>5. Level(Move(t, z)) = Level(z)
    BY <2>3, LevelsMove
  <2> QED
    BY <2>3, <2>4, <2>5 DEF Level
<1> QED
    BY <1>1, <1>3, <1>4, <1>5, <1>6

LEMMA NeighborsInMove ==
    ASSUME NEW t \in Transforms, NEW S \in SUBSET Cell, NEW c \in Cell
    PROVE  /\ NeighborsIn(perms[t][c], transformState(t, S)) = transformState(t, NeighborsIn(c, S))
           /\ NeighborsIn(c, S) \in SUBSET Cell
           /\ DegreeIn(perms[t][c], transformState(t, S)) = DegreeIn(c, S)
           /\ NeighborsIn(perms[t][c], transformState(t, S)) = {} <=> NeighborsIn(c, S) = {}
<1>1. NeighborsIn(c, S) \in SUBSET Cell
    BY DEF NeighborsIn
<1>2. \A d \in S : d \in Neighbors[c] <=> perms[t][d] \in Neighbors[perms[t][c]]
    BY NeighborsMove
<1>3. NeighborsIn(perms[t][c], transformState(t, S)) = transformState(t, NeighborsIn(c, S))
  <2>1. \A x : x \in transformState(t, S) /\ x \in Neighbors[perms[t][c]] <=> \E d \in S : x = perms[t][d] /\ d \in Neighbors[c]
    BY <1>2 DEF transformState
  <2>2. \A x : x \in transformState(t, NeighborsIn(c, S)) <=> \E d \in S : x = perms[t][d] /\ d \in Neighbors[c]
    BY DEF transformState, NeighborsIn
  <2> QED
    BY <2>1, <2>2 DEF NeighborsIn
<1>4. /\ Cardinality(transformState(t, NeighborsIn(c, S))) = Cardinality(NeighborsIn(c, S))
      /\ transformState(t, NeighborsIn(c, S)) = {} <=> NeighborsIn(c, S) = {}
    BY <1>1, Mirror
<1>5. DegreeIn(perms[t][c], transformState(t, S)) = DegreeIn(c, S)
    BY <1>3, <1>4 DEF DegreeIn
<1> QED
    BY <1>1, <1>3, <1>4, <1>5

LEMMA LocalDeadEndMove ==
    ASSUME NEW t \in Transforms, NEW S \in SUBSET Cell, NEW c \in Cell, LocalDeadEnd(c, S)
    PROVE  LocalDeadEnd(perms[t][c], transformState(t, S))
<1>1. PICK u \in NeighborsIn(c, S) : NeighborsIn(u, S) = {}
    BY DEF LocalDeadEnd
<1>2. u \in Cell
    BY NeighborsInMove
<1>3. perms[t][u] \in NeighborsIn(perms[t][c], transformState(t, S))
  <2>1. perms[t][u] \in transformState(t, NeighborsIn(c, S))
    BY DEF transformState
  <2> QED
    BY <2>1, NeighborsInMove
<1>4. NeighborsIn(perms[t][u], transformState(t, S)) = {}
    BY <1>1, <1>2, NeighborsInMove
<1> QED
    BY <1>3, <1>4 DEF LocalDeadEnd

(* The cells of S with one neighbour in H.                                 *)
Ones(S, H) == {v \in S : DegreeIn(v, H) = 1}

LEMMA OnesMove ==
    ASSUME NEW t \in Transforms, NEW S \in SUBSET Cell, NEW H \in SUBSET Cell
    PROVE  /\ Ones(transformState(t, S), transformState(t, H)) = transformState(t, Ones(S, H))
           /\ Ones(S, H) \in SUBSET Cell
           /\ Cardinality(Ones(transformState(t, S), transformState(t, H))) = Cardinality(Ones(S, H))
<1>1. \A v \in S : DegreeIn(perms[t][v], transformState(t, H)) = DegreeIn(v, H)
    BY NeighborsInMove
<1>2. Ones(transformState(t, S), transformState(t, H)) = transformState(t, Ones(S, H))
  <2>1. \A x : x \in Ones(transformState(t, S), transformState(t, H)) <=> \E v \in S : x = perms[t][v] /\ DegreeIn(v, H) = 1
    BY <1>1 DEF transformState, Ones
  <2>2. \A x : x \in transformState(t, Ones(S, H)) <=> \E v \in S : x = perms[t][v] /\ DegreeIn(v, H) = 1
    BY DEF transformState, Ones
  <2> QED
    BY <2>1, <2>2
<1>3. Ones(S, H) \in SUBSET Cell
    BY DEF Ones
<1>4. Cardinality(transformState(t, Ones(S, H))) = Cardinality(Ones(S, H))
    BY <1>3, Mirror
<1> QED
    BY <1>2, <1>3, <1>4

LEMMA EndpointsMove ==
    ASSUME NEW t \in Transforms, NEW S \in SUBSET Cell, NEW c \in Cell
    PROVE  EndpointsViolated(perms[t][c], transformState(t, S)) <=> EndpointsViolated(c, S)
<1>1. PICK O, P : O = Ones(S, S) /\ P = Ones(transformState(t, S), transformState(t, S))
    OBVIOUS
<1>2. P = transformState(t, O) /\ O \in SUBSET Cell /\ Cardinality(P) = Cardinality(O)
    BY <1>1, OnesMove
<1>3. NeighborsIn(perms[t][c], P) = {} <=> NeighborsIn(c, O) = {}
    BY <1>2, NeighborsInMove
<1>4. EndpointsViolated(c, S) <=> Cardinality(O) > 2 \/ (Cardinality(O) = 2 /\ NeighborsIn(c, O) = {})
    BY <1>1 DEF EndpointsViolated, Ones
<1>5. EndpointsViolated(perms[t][c], transformState(t, S))
        <=> Cardinality(P) > 2 \/ (Cardinality(P) = 2 /\ NeighborsIn(perms[t][c], P) = {})
    BY <1>1 DEF EndpointsViolated, Ones
<1> QED
    BY <1>2, <1>3, <1>4, <1>5

-----------------------------------------------------------------------------
(* What the flood fill and the union-find decide, both ways. The fill of a *)
(* set is the least closed part around its start, and the edges have a     *)
(* cycle exactly when some of them have no tip.                            *)
Closed(S, T) == T \in SUBSET S /\ Wider(S, T) = T
Around(S, seen) == {x \in S : \A T \in SUBSET S : seen \subseteq T /\ Closed(S, T) => x \in T}

LEMMA Wide == \A S, T : \A U : T \subseteq U => Wider(S, T) \subseteq Wider(S, U)
  BY DEF Wider

LEMMA AroundUnfolds ==
    ASSUME NEW S, NEW seen \in SUBSET S
    PROVE  Around(S, seen) = IF Wider(S, seen) = seen THEN seen ELSE Around(S, Wider(S, seen))
<1>1. Wider(S, seen) \in SUBSET S /\ seen \subseteq Wider(S, seen)
    BY Widens
<1>2. CASE Wider(S, seen) = seen
  <2>1. Closed(S, seen)
    BY <1>2 DEF Closed
  <2>2. \A x : x \in Around(S, seen) <=> x \in seen
    BY <2>1 DEF Around
  <2> QED
    BY <1>2, <2>2
<1>3. CASE Wider(S, seen) # seen
  <2>1. \A T \in SUBSET S : Closed(S, T) => (seen \subseteq T <=> Wider(S, seen) \subseteq T)
    BY <1>1, Wide DEF Closed
  <2>2. \A x : x \in Around(S, seen) <=> x \in Around(S, Wider(S, seen))
    BY <2>1 DEF Around
  <2>3. Around(S, seen) = Around(S, Wider(S, seen))
    BY <2>2
  <2> QED
    BY <1>3, <2>3
<1> QED
    BY <1>2, <1>3

(* The fill stays inside every closed part that holds its start.           *)
LEMMA FillStays ==
    ASSUME NEW S, IsFiniteSet(S), NEW T, Closed(S, T),
           NEW g, g = [seen \in SUBSET S |-> IF Wider(S, seen) = seen THEN seen ELSE g[Wider(S, seen)]]
    PROVE  \A seen \in SUBSET S : seen \subseteq T => g[seen] \subseteq T
<1> DEFINE D == SUBSET S
           r == [seen \in D |-> Cardinality(S \ seen)]
           P == {seen \in D : seen \subseteq T => g[seen] \subseteq T}
<1>1. r \in [D -> Nat]
  <2>1. \A seen \in D : IsFiniteSet(S \ seen) /\ Cardinality(S \ seen) \in Nat
    BY FS_Subset, FS_CardinalityType
  <2> QED
    BY <2>1
<1>2. ASSUME NEW seen \in D, \A y \in D : r[y] < r[seen] => y \in P PROVE seen \in P
  <2> SUFFICES ASSUME seen \subseteq T PROVE g[seen] \subseteq T
    OBVIOUS
  <2>1. PICK n : n = Wider(S, seen)
    OBVIOUS
  <2>2. n \in D /\ seen \subseteq n /\ n \subseteq T
    BY <2>1, Widens, Wide DEF Closed
  <2>3. g[seen] = IF n = seen THEN seen ELSE g[n]
    BY <2>1
  <2>4. CASE n = seen
    BY <2>3, <2>4
  <2>5. CASE n # seen
    <3>1. S \ n \subseteq S \ seen /\ S \ n # S \ seen /\ IsFiniteSet(S \ seen)
      BY <2>2, <2>5, FS_Subset
    <3>2. Cardinality(S \ n) < Cardinality(S \ seen)
      BY <3>1, FS_Subset, FS_CardinalityType
    <3>3. n \in P
      BY <1>2, <2>2, <3>2
    <3> QED
      BY <2>2, <2>3, <2>5, <3>3
  <2> QED
    BY <2>4, <2>5
<1>3. \A seen \in D : seen \in P
  <2> HIDE DEF P, r, D
  <2> QED BY <1>1, <1>2, RankInduction
<1> QED
    BY <1>3

LEMMA FillSolved ==
    ASSUME NEW S \in SUBSET Nat, S # {}
    PROVE  \E g, start : /\ g = [seen \in SUBSET S |-> IF Wider(S, seen) = seen THEN seen ELSE g[Wider(S, seen)]]
                         /\ start \in S /\ Component(S) = g[{start}]
<1> DEFINE Fills(g) == g = [seen \in SUBSET S |-> IF Wider(S, seen) = seen THEN seen ELSE g[Wider(S, seen)]]
           g == CHOOSE h : Fills(h)
           h == [seen \in SUBSET S |-> Around(S, seen)]
           start == CHOOSE c \in S : \A d \in S : c <= d
<1>1. Fills(h)
  <2>1. ASSUME NEW seen \in SUBSET S
        PROVE  (IF Wider(S, seen) = seen THEN seen ELSE h[Wider(S, seen)]) = Around(S, seen)
    <3>1. Wider(S, seen) \in SUBSET S
        BY Widens
    <3>2. h[Wider(S, seen)] = Around(S, Wider(S, seen))
        BY <3>1
    <3> QED
        BY <3>2, AroundUnfolds
  <2>2. [seen \in SUBSET S |-> IF Wider(S, seen) = seen THEN seen ELSE h[Wider(S, seen)]]
          = [seen \in SUBSET S |-> Around(S, seen)]
    <3> HIDE DEF h
    <3> QED BY <2>1
  <2> QED
    BY <2>2
<1>2. Fills(g)
  <2> HIDE DEF Fills, h
  <2> QED BY <1>1
<1>3. g = [seen \in SUBSET S |-> IF Wider(S, seen) = seen THEN seen ELSE g[Wider(S, seen)]]
    BY <1>2
<1>4. start \in S
    BY Least
<1>5. Component(S) = g[{start}]
    BY DEF Component, Wider
<1> HIDE DEF g, start
<1> QED
    BY <1>3, <1>4, <1>5

LEMMA ConnectedWhole ==
    ASSUME NEW S \in SUBSET Cell, S # {}
    PROVE  Connected(S) <=> WholeOnly(S)
<1>1. S \in SUBSET Nat /\ IsFiniteSet(S)
    BY Boards, FS_Subset
<1>2. WholeOnly(S) => Connected(S)
    BY <1>1, Filled
<1>3. \A c \in S : \A d \in NeighborsIn(c, S) : d \in S /\ c \in NeighborsIn(d, S)
  <2> SUFFICES ASSUME NEW c \in S, NEW d \in NeighborsIn(c, S) PROVE d \in S /\ c \in NeighborsIn(d, S)
    OBVIOUS
  <2>1. d \in S /\ d \in Neighbors[c] /\ c \in Cell
    BY DEF NeighborsIn
  <2>2. c \in Neighbors[d]
    BY <2>1, Symmetric
  <2> QED
    BY <2>1, <2>2 DEF NeighborsIn
<1>4. ASSUME NEW T \in SUBSET S, T # {}, Wider(S, T) = T, T # S, Connected(S)
      PROVE  FALSE
  <2>1. PICK g, start : /\ g = [seen \in SUBSET S |-> IF Wider(S, seen) = seen THEN seen ELSE g[Wider(S, seen)]]
                        /\ start \in S /\ Component(S) = g[{start}]
    BY <1>1, FillSolved
  <2>2. Closed(S, T) /\ Closed(S, S \ T)
    <3>1. Wider(S, S \ T) = S \ T
      <4>1. \A c \in T : NeighborsIn(c, S) \subseteq T
        BY <1>4 DEF Wider
      <4>2. \A c \in S \ T : NeighborsIn(c, S) \subseteq S \ T
        BY <1>3, <4>1
      <4>3. UNION {NeighborsIn(c, S) : c \in S \ T} \subseteq S \ T
        BY <4>2
      <4> QED
        BY <4>3 DEF Wider
    <3> QED
      BY <1>4, <3>1 DEF Closed
  <2>3. PICK U : U \in SUBSET S /\ Closed(S, U) /\ start \in U /\ U # S
    BY <1>4, <2>1, <2>2
  <2>4. {start} \in SUBSET S /\ {start} \subseteq U
    BY <2>1, <2>3
  <2>5. g[{start}] \subseteq U
    BY <1>1, <2>1, <2>3, <2>4, FillStays
  <2> QED
    BY <1>4, <2>1, <2>3, <2>5 DEF Connected
<1> QED
    BY <1>2, <1>4 DEF WholeOnly

LEMMA ConnectedMove ==
    ASSUME NEW t \in Transforms, NEW S \in SUBSET Cell, S # {}, Connected(transformState(t, S))
    PROVE  Connected(S)
<1>1. PICK R : R = transformState(t, S)
    OBVIOUS
<1>2. R \in SUBSET Cell /\ R # {} /\ WholeOnly(R)
    BY <1>1, Mirror, ConnectedWhole
<1>3. ASSUME NEW T \in SUBSET S, T # {}, Wider(S, T) = T PROVE T = S
  <2>1. PICK U : U = transformState(t, T)
    OBVIOUS
  <2>2. U \in SUBSET R /\ U # {}
    BY <1>1, <1>3, <2>1 DEF transformState
  <2>3. \A c \in T : NeighborsIn(c, S) \subseteq T
    BY <1>3 DEF Wider
  <2>4. \A c \in U : NeighborsIn(c, R) \subseteq U
    <3> SUFFICES ASSUME NEW c \in U PROVE NeighborsIn(c, R) \subseteq U
      OBVIOUS
    <3>1. PICK d \in T : c = perms[t][d]
      BY <2>1 DEF transformState
    <3>2. NeighborsIn(c, R) = transformState(t, NeighborsIn(d, S))
      BY <1>1, <3>1, NeighborsInMove
    <3> QED
      BY <2>1, <2>3, <3>2 DEF transformState
  <2>5. UNION {NeighborsIn(c, R) : c \in U} \subseteq U
    BY <2>4
  <2>6. Wider(R, U) = U
    BY <2>5 DEF Wider
  <2>7. U = R
    BY <1>2, <2>2, <2>6 DEF WholeOnly
  <2>8. ASSUME NEW c \in S PROVE c \in T
    <3>1. perms[t][c] \in U
      BY <1>1, <2>7 DEF transformState
    <3>2. T \in SUBSET Cell /\ c \in Cell
      OBVIOUS
    <3> QED
      BY <2>1, <3>1, <3>2, Mirror
  <2> QED
    BY <2>8
<1>4. WholeOnly(S)
    BY <1>3 DEF WholeOnly
<1> QED
    BY <1>4, ConnectedWhole

(* The check after a visit.                                                *)
LEMMA AfterVisitMove ==
    ASSUME NEW t \in Transforms, NEW S \in SUBSET Cell, NEW c \in Cell, ShouldPruneAfterVisit(c, S)
    PROVE  ShouldPruneAfterVisit(perms[t][c], transformState(t, S))
<1>1. PICK R, d : R = transformState(t, S) /\ d = perms[t][c]
    OBVIOUS
<1>2. /\ R = {} <=> S = {}
      /\ Cardinality(R) = Cardinality(S)
      /\ NeighborsIn(d, R) = {} <=> NeighborsIn(c, S) = {}
    BY <1>1, Mirror, NeighborsInMove
<1>3. S # {}
  <2> SUFFICES ASSUME S = {} PROVE FALSE
    OBVIOUS
  <2>1. Cardinality(S) # 1
    BY FS_EmptySet
  <2>2. ~ ShouldPruneAfterVisit(c, S)
    BY <2>1 DEF ShouldPruneAfterVisit
  <2> QED
    BY <2>2
<1>4. CASE Cardinality(S) = 1
  <2>1. NeighborsIn(c, S) = {}
    BY <1>3, <1>4 DEF ShouldPruneAfterVisit
  <2>2. ShouldPruneAfterVisit(d, R)
    BY <1>2, <1>3, <1>4, <2>1 DEF ShouldPruneAfterVisit
  <2> QED
    BY <1>1, <2>2
<1>5. CASE Cardinality(S) # 1
  <2>1. LocalDeadEnd(c, S) \/ NeighborsIn(c, S) = {} \/ ~Connected(S) \/ EndpointsViolated(c, S)
    BY <1>3, <1>5 DEF ShouldPruneAfterVisit, globalCheck
  <2>2. LocalDeadEnd(d, R) \/ NeighborsIn(d, R) = {} \/ ~Connected(R) \/ EndpointsViolated(d, R)
    BY <1>1, <1>2, <1>3, <2>1, LocalDeadEndMove, ConnectedMove, EndpointsMove
  <2>3. ShouldPruneAfterVisit(d, R)
    BY <1>2, <1>3, <1>5, <2>2 DEF ShouldPruneAfterVisit, globalCheck
  <2> QED
    BY <1>1, <2>3
<1> QED
    BY <1>4, <1>5

LEMMA StepsMove ==
    ASSUME NEW t \in Transforms, NEW z \in Placement
    PROVE  Steps(Move(t, z)) = transformState(t, Steps(z))
<1>1. PICK y : y = Move(t, z)
    OBVIOUS
<1>2. /\ y \in Placement /\ Onward(y) = transformState(t, Onward(z)) /\ Rest(y) = transformState(t, Rest(z))
      /\ Rest(z) \in SUBSET Cell /\ Onward(z) \in SUBSET Cell
    BY <1>1, Images1, Spots DEF State
<1>3. ASSUME NEW n \in Onward(z) PROVE n \in Steps(z) <=> perms[t][n] \in Steps(y)
  <2>1. PICK S, R, m : S = Rest(z) \ {n} /\ R = Rest(y) \ {m} /\ m = perms[t][n]
    OBVIOUS
  <2>2. n \in Cell /\ S \in SUBSET Cell /\ m \in Cell /\ m \in Onward(y)
    BY <1>2, <2>1, PermsMove DEF transformState
  <2>3. R = transformState(t, S)
    <3>1. \A c \in Cell : perms[t][c] = m <=> c = n
      BY <2>1, <2>2, PermsUndo
    <3> QED
      BY <1>2, <2>1, <3>1 DEF transformState
  <2>4. Undo(t) \in Transforms /\ perms[Undo(t)][m] = n /\ transformState(Undo(t), R) = S /\ R \in SUBSET Cell
    <3>1. Undo(t) \in Transforms /\ perms[Undo(t)][m] = n
      BY <2>1, <2>2, PermsUndo
    <3>2. transformState(Undo(t), R) = S
      BY <2>2, <2>3, MasksUndo DEF State
    <3>3. R \in SUBSET Cell
      BY <2>2, <2>3, Mirror
    <3> QED
      BY <3>1, <3>2, <3>3
  <2>5. ShouldPruneAfterVisit(n, S) => ShouldPruneAfterVisit(m, R)
    BY <2>1, <2>2, <2>3, AfterVisitMove
  <2>6. ShouldPruneAfterVisit(m, R) => ShouldPruneAfterVisit(n, S)
    <3> SUFFICES ASSUME ShouldPruneAfterVisit(m, R) PROVE ShouldPruneAfterVisit(n, S)
      OBVIOUS
    <3>1. ShouldPruneAfterVisit(perms[Undo(t)][m], transformState(Undo(t), R))
      BY <2>2, <2>4, AfterVisitMove
    <3> QED
      BY <2>4, <3>1
  <2> QED
    BY <2>1, <2>2, <2>5, <2>6 DEF Steps
<1>4. \A m \in Onward(y) : \E n \in Onward(z) : m = perms[t][n]
    BY <1>2 DEF transformState
<1>5. Steps(y) \subseteq Onward(y) /\ Steps(z) \subseteq Onward(z)
    BY DEF Steps
<1>6. \A m : m \in Steps(y) <=> \E n \in Steps(z) : m = perms[t][n]
    BY <1>3, <1>4, <1>5
<1> QED
    BY <1>1, <1>6 DEF transformState

-----------------------------------------------------------------------------
(* Edges: a part of them without a tip is never peeled off.                *)
Tipless(F) == F # {} /\ Tips(F) = {}
Ringed(E) == \E F \in SUBSET E : Tipless(F)

LEMMA RingedUnfolds ==
    ASSUME NEW E
    PROVE  Ringed(E) <=> IF Tips(E) = {} THEN E # {} ELSE Ringed(E \ Tips(E))
<1>1. CASE Tips(E) = {}
  <2>1. E # {} => Ringed(E)
    BY <1>1 DEF Ringed, Tipless
  <2>2. Ringed(E) => E # {}
    BY DEF Ringed, Tipless
  <2> QED
    BY <1>1, <2>1, <2>2
<1>2. CASE Tips(E) # {}
  <2>1. ASSUME NEW F \in SUBSET E, Tipless(F) PROVE F \in SUBSET (E \ Tips(E))
    <3>1. ASSUME NEW e \in F, e \in Tips(E) PROVE e \in Tips(F)
      BY <2>1, <3>1 DEF Tips
    <3> QED
      BY <2>1, <3>1 DEF Tipless
  <2>2. Ringed(E) <=> Ringed(E \ Tips(E))
    BY <2>1 DEF Ringed
  <2> QED
    BY <1>2, <2>2
<1> QED
    BY <1>1, <1>2

LEMMA PeelDecides ==
    ASSUME NEW E, IsFiniteSet(E),
           NEW g, g = [F \in SUBSET E |-> IF Tips(F) = {} THEN F # {} ELSE g[F \ Tips(F)]]
    PROVE  \A F \in SUBSET E : g[F] = Ringed(F)
<1> DEFINE D == SUBSET E
           r == [F \in D |-> Cardinality(F)]
           P == {F \in D : g[F] = Ringed(F)}
<1>1. r \in [D -> Nat]
  <2>1. \A F \in D : IsFiniteSet(F) /\ Cardinality(F) \in Nat
    BY FS_Subset, FS_CardinalityType
  <2> QED
    BY <2>1
<1>2. ASSUME NEW F \in D, \A y \in D : r[y] < r[F] => y \in P PROVE F \in P
  <2>1. g[F] = IF Tips(F) = {} THEN F # {} ELSE g[F \ Tips(F)]
    OBVIOUS
  <2>2. Ringed(F) = IF Tips(F) = {} THEN F # {} ELSE Ringed(F \ Tips(F))
    <3>1. Ringed(F) \in BOOLEAN /\ Ringed(F \ Tips(F)) \in BOOLEAN
      BY DEF Ringed
    <3> QED
      BY <3>1, RingedUnfolds
  <2>3. CASE Tips(F) = {}
    BY <2>1, <2>2, <2>3
  <2>4. CASE Tips(F) # {}
    <3>1. PICK G : G = F \ Tips(F)
      OBVIOUS
    <3>2. Tips(F) \subseteq F /\ IsFiniteSet(F)
      BY FS_Subset DEF Tips
    <3>3. G \in D /\ G \subseteq F /\ G # F
      BY <2>4, <3>1, <3>2
    <3>4. Cardinality(G) < Cardinality(F)
      BY <3>2, <3>3, FS_Subset, FS_CardinalityType
    <3>5. G \in P
      BY <1>2, <3>3, <3>4
    <3> QED
      BY <2>1, <2>2, <2>4, <3>1, <3>5
  <2> QED
    BY <2>3, <2>4
<1>3. \A F \in D : F \in P
  <2> HIDE DEF P, r, D
  <2> QED BY <1>1, <1>2, RankInduction
<1> QED
    BY <1>3

LEMMA CycleIsRing ==
    ASSUME NEW E, IsFiniteSet(E)
    PROVE  HasCycle(E) <=> Ringed(E)
<1> DEFINE Peels(g) == g = [F \in SUBSET E |-> IF Tips(F) = {} THEN F # {} ELSE g[F \ Tips(F)]]
           g == CHOOSE h : Peels(h)
           h == [F \in SUBSET E |-> Ringed(F)]
<1>1. Peels(h)
  <2>1. ASSUME NEW F \in SUBSET E
        PROVE  (IF Tips(F) = {} THEN F # {} ELSE h[F \ Tips(F)]) = Ringed(F)
    <3>1. F \ Tips(F) \in SUBSET E /\ h[F \ Tips(F)] = Ringed(F \ Tips(F))
        OBVIOUS
    <3>2. Ringed(F) \in BOOLEAN /\ Ringed(F \ Tips(F)) \in BOOLEAN
      BY DEF Ringed
    <3> HIDE DEF h
    <3> QED
        BY <3>1, <3>2, RingedUnfolds
  <2>2. [F \in SUBSET E |-> IF Tips(F) = {} THEN F # {} ELSE h[F \ Tips(F)]] = [F \in SUBSET E |-> Ringed(F)]
    <3> HIDE DEF h
    <3> QED BY <2>1
  <2> QED
    BY <2>2
<1>2. Peels(g)
  <2> HIDE DEF Peels, h
  <2> QED BY <1>1
<1>3. \A F \in SUBSET E : g[F] = Ringed(F)
  <2>1. g = [F \in SUBSET E |-> IF Tips(F) = {} THEN F # {} ELSE g[F \ Tips(F)]]
    BY <1>2
  <2> HIDE DEF g
  <2> QED BY <2>1, PeelDecides
<1>4. HasCycle(E) = g[E]
    BY DEF HasCycle, Tips
<1> QED
    BY <1>3, <1>4

-----------------------------------------------------------------------------
(* Edges moved with the board.                                             *)
Edges == SUBSET Cell
Carry(t, F) == {transformState(t, e) : e \in F}

LEMMA CarryEdge ==
    ASSUME NEW t \in Transforms, NEW e \in Edges, NEW f \in Edges
    PROVE  /\ transformState(t, e) = transformState(t, f) => e = f
           /\ transformState(t, e) \in Edges
<1>1. transformState(Undo(t), transformState(t, e)) = e /\ transformState(Undo(t), transformState(t, f)) = f
    BY MasksUndo DEF Edges, State
<1> QED
    BY <1>1, Mirror DEF Edges

LEMMA CarryTips ==
    ASSUME NEW t \in Transforms, NEW F \in SUBSET Edges, Tipless(F)
    PROVE  Tipless(Carry(t, F))
<1>1. Carry(t, F) # {}
    BY DEF Tipless, Carry
<1>2. ASSUME NEW e \in F, NEW v \in transformState(t, e)
      PROVE  \E g \in Carry(t, F) \ {transformState(t, e)} : v \in g
  <2>1. PICK c \in e : v = perms[t][c]
    BY DEF transformState
  <2>2. e \notin Tips(F)
    BY DEF Tipless
  <2>3. PICK f \in F \ {e} : c \in f
    BY <2>2 DEF Tips
  <2>4. transformState(t, f) # transformState(t, e)
    BY <2>3, CarryEdge
  <2>5. transformState(t, f) \in Carry(t, F) /\ v \in transformState(t, f)
    BY <2>1, <2>3 DEF Carry, transformState
  <2> QED
    BY <2>4, <2>5
<1>3. ASSUME NEW g \in Carry(t, F) PROVE g \notin Tips(Carry(t, F))
  <2>1. PICK e \in F : g = transformState(t, e)
    BY DEF Carry
  <2>2. \A v \in g : \E f \in Carry(t, F) \ {g} : v \in f
    BY <1>2, <2>1
  <2> QED
    BY <2>2 DEF Tips
<1>4. Tips(Carry(t, F)) = {}
    BY <1>3 DEF Tips
<1> QED
    BY <1>1, <1>4 DEF Tipless

LEMMA CarryRing ==
    ASSUME NEW t \in Transforms, NEW E \in SUBSET Edges, Ringed(E)
    PROVE  Ringed(Carry(t, E))
<1>1. PICK F \in SUBSET E : Tipless(F)
    BY DEF Ringed
<1>2. Tipless(Carry(t, F))
    BY <1>1, CarryTips
<1>3. Carry(t, F) \in SUBSET Carry(t, E)
    BY DEF Carry
<1> QED
    BY <1>2, <1>3 DEF Ringed

(* The edges at a cell are as many as those at its image.                  *)
LEMMA CarryAt ==
    ASSUME NEW t \in Transforms, NEW E \in SUBSET Edges, NEW v \in Cell
    PROVE  /\ IsFiniteSet(E) /\ IsFiniteSet(Carry(t, E))
           /\ Cardinality({e \in Carry(t, E) : perms[t][v] \in e}) = Cardinality({e \in E : v \in e})
<1> DEFINE A == {e \in E : v \in e}
           B == {e \in Carry(t, E) : perms[t][v] \in e}
           m == [e \in A |-> transformState(t, e)]
<1>1. IsFiniteSet(Edges)
    BY Finite DEF Edges, State
<1>2. IsFiniteSet(E) /\ IsFiniteSet(Carry(t, E))
    BY <1>1, CarryEdge, FS_Subset DEF Carry
<1>3. \A e \in E : v \in e <=> perms[t][v] \in transformState(t, e)
    BY Mirror DEF Edges
<1>4. \A e \in A : m[e] \in B
    BY <1>3 DEF Carry
<1>5. \A g \in B : \E e \in A : m[e] = g
    BY <1>3 DEF Carry
<1>6. \A e, f \in A : m[e] = m[f] => e = f
    BY CarryEdge
<1>7. IsFiniteSet(A) /\ IsFiniteSet(B)
    BY <1>2, FS_Subset
<1>8. m \in Bijection(A, B)
  <2>1. m \in [A -> B]
    BY <1>4
  <2> HIDE DEF A, B, m
  <2> QED
    BY <1>5, <1>6, <2>1, Fun_IsBij
<1>9. Cardinality(A) = Cardinality(B)
  <2> HIDE DEF A, B, m
  <2>1. ExistsBijection(A, B)
    BY <1>8 DEF ExistsBijection
  <2> QED
    BY <1>7, <2>1, FS_Bijection
<1> QED
    BY <1>2, <1>9

-----------------------------------------------------------------------------
(* The write gate looks at nothing that a symmetry changes.                *)
LEMMA ForcedEdge ==
    ASSUME NEW h, NEW cur, NEW x, NEW e
    PROVE  e \in ForcedEdges(h, cur, x) <=>
               \E v, w \in h : e = {v, w} /\ w \in Neighbors[v] /\ forcedVertex(h, cur, x, v)
<1>1. ASSUME e \in ForcedEdges(h, cur, x)
      PROVE  \E v, w \in h : e = {v, w} /\ w \in Neighbors[v] /\ forcedVertex(h, cur, x, v)
  <2>1. PICK v, w \in e : e = {v, w} /\ w \in Neighbors[v] /\ forcedVertex(h, cur, x, v)
    BY <1>1 DEF ForcedEdges
  <2>2. e \subseteq h
    BY <1>1 DEF ForcedEdges
  <2> QED
    BY <2>1, <2>2
<1>2. ASSUME NEW v \in h, NEW w \in h, e = {v, w}, w \in Neighbors[v], forcedVertex(h, cur, x, v)
      PROVE  e \in ForcedEdges(h, cur, x)
    BY <1>2 DEF ForcedEdges
<1> QED
    BY <1>1, <1>2

LEMMA ForcedVertexMove ==
    ASSUME NEW t \in Transforms, NEW h \in SUBSET Cell, NEW cur \in Cell, NEW x \in Cell, NEW v \in Cell
    PROVE  forcedVertex(transformState(t, h), perms[t][cur], perms[t][x], perms[t][v])
               <=> forcedVertex(h, cur, x, v)
<1>1. DegreeIn(perms[t][v], transformState(t, h)) = DegreeIn(v, h)
    BY NeighborsInMove
<1>2. perms[t][v] \in {perms[t][cur], perms[t][x]} <=> v \in {cur, x}
    BY PermsUndo
<1> QED
    BY <1>1, <1>2 DEF forcedVertex

LEMMA ForcedMove ==
    ASSUME NEW t \in Transforms, NEW h \in SUBSET Cell, NEW cur \in Cell, NEW x \in Cell
    PROVE  /\ ForcedEdges(transformState(t, h), perms[t][cur], perms[t][x]) = Carry(t, ForcedEdges(h, cur, x))
           /\ ForcedEdges(h, cur, x) \in SUBSET Edges
<1> DEFINE F == ForcedEdges(h, cur, x)
           G == ForcedEdges(transformState(t, h), perms[t][cur], perms[t][x])
<1>1. \A v, w : transformState(t, {v, w}) = {perms[t][v], perms[t][w]}
    BY DEF transformState
<1>2. ASSUME NEW v \in h, NEW w \in h
      PROVE  /\ w \in Neighbors[v] <=> perms[t][w] \in Neighbors[perms[t][v]]
             /\ forcedVertex(transformState(t, h), perms[t][cur], perms[t][x], perms[t][v]) <=> forcedVertex(h, cur, x, v)
    BY NeighborsMove, ForcedVertexMove
<1>3. ASSUME NEW g \in G PROVE g \in Carry(t, F)
  <2>1. PICK p, q \in transformState(t, h) : /\ g = {p, q} /\ q \in Neighbors[p]
                                             /\ forcedVertex(transformState(t, h), perms[t][cur], perms[t][x], p)
    BY ForcedEdge
  <2>2. PICK v, w \in h : p = perms[t][v] /\ q = perms[t][w]
    BY DEF transformState
  <2>3. {v, w} \in F
    BY <1>2, <2>1, <2>2, ForcedEdge
  <2>4. g = transformState(t, {v, w})
    BY <1>1, <2>1, <2>2
  <2> QED
    BY <2>3, <2>4 DEF Carry
<1>4. ASSUME NEW g \in Carry(t, F) PROVE g \in G
  <2>1. PICK e \in F : g = transformState(t, e)
    BY DEF Carry
  <2>2. PICK v, w \in h : e = {v, w} /\ w \in Neighbors[v] /\ forcedVertex(h, cur, x, v)
    BY ForcedEdge
  <2>3. g = {perms[t][v], perms[t][w]} /\ perms[t][v] \in transformState(t, h) /\ perms[t][w] \in transformState(t, h)
    BY <1>1, <2>1, <2>2 DEF transformState
  <2> QED
    BY <1>2, <2>2, <2>3, ForcedEdge
<1>5. ASSUME NEW e \in F PROVE e \in Edges
    BY ForcedEdge DEF Edges
<1> QED
    BY <1>3, <1>4, <1>5

(* The gate, with its far end named.                                       *)
Knot(todo, cur, x) ==
    LET E == ForcedEdges(todo \cup {cur}, cur, x)
        ForcedAt(v) == Cardinality({e \in E : v \in e})
    IN  \/ ForcedAt(cur) > 1
        \/ \E v \in todo : ForcedAt(v) > 2
        \/ HasCycle(E)

LEMMA KnotMove ==
    ASSUME NEW t \in Transforms, NEW S \in SUBSET Cell, NEW cur \in Cell, NEW x \in Cell, Knot(S, cur, x)
    PROVE  Knot(transformState(t, S), perms[t][cur], perms[t][x])
<1>1. PICK h, E, R, c, y : /\ h = S \cup {cur} /\ E = ForcedEdges(h, cur, x) /\ R = transformState(t, S)
                           /\ c = perms[t][cur] /\ y = perms[t][x]
    OBVIOUS
<1>2. h \in SUBSET Cell /\ transformState(t, h) = R \cup {c}
    BY <1>1 DEF transformState
<1>3. ForcedEdges(R \cup {c}, c, y) = Carry(t, E) /\ E \in SUBSET Edges
  <2>1. ForcedEdges(transformState(t, h), c, y) = Carry(t, E) /\ E \in SUBSET Edges
    <3>1. /\ ForcedEdges(transformState(t, h), perms[t][cur], perms[t][x]) = Carry(t, ForcedEdges(h, cur, x))
          /\ ForcedEdges(h, cur, x) \in SUBSET Edges
        BY <1>2, ForcedMove
    <3> QED
        BY <1>1, <3>1
  <2> QED
    BY <1>2, <2>1
<1>4. IsFiniteSet(E) /\ IsFiniteSet(Carry(t, E))
      /\ \A v \in Cell : Cardinality({e \in Carry(t, E) : perms[t][v] \in e}) = Cardinality({e \in E : v \in e})
  <2>1. cur \in Cell
    OBVIOUS
  <2> QED
    BY <1>3, <2>1, CarryAt
<1>5. HasCycle(E) => HasCycle(Carry(t, E))
    BY <1>3, <1>4, CycleIsRing, CarryRing
<1>6. \A v \in S : perms[t][v] \in R /\ v \in Cell
    BY <1>1 DEF transformState
<1>7. \/ Cardinality({e \in E : cur \in e}) > 1
      \/ \E v \in S : Cardinality({e \in E : v \in e}) > 2
      \/ HasCycle(E)
    BY <1>1 DEF Knot
<1>8. \/ Cardinality({e \in Carry(t, E) : c \in e}) > 1
      \/ \E v \in R : Cardinality({e \in Carry(t, E) : v \in e}) > 2
      \/ HasCycle(Carry(t, E))
  <2>1. CASE Cardinality({e \in E : cur \in e}) > 1
    BY <1>1, <1>4, <2>1
  <2>2. CASE \E v \in S : Cardinality({e \in E : v \in e}) > 2
    <3>1. PICK v \in S : Cardinality({e \in E : v \in e}) > 2
      BY <2>2
    <3>2. Cardinality({e \in Carry(t, E) : perms[t][v] \in e}) > 2
      BY <1>4, <1>6, <3>1
    <3> QED
      BY <1>6, <3>2
  <2>3. CASE HasCycle(E)
    BY <1>5, <2>3
  <2> QED
    BY <1>7, <2>1, <2>2, <2>3
<1>9. Knot(R, c, y)
    BY <1>3, <1>8 DEF Knot
<1> QED
    BY <1>1, <1>9

LEMMA GateKnots ==
    ASSUME NEW z \in Placement, NEW S, S = Rest(z)
    PROVE  Gated(z) <=> \E x : Ones(S, S \cup {z[2]}) = {x} /\ Knot(S, z[2], x)
<1>1. PICK ends : ends = Ones(S, S \cup {z[2]})
    OBVIOUS
<1>2. PICK x : x = CHOOSE v \in ends : TRUE
    OBVIOUS
<1>3. Gated(z) <=> Cardinality(ends) = 1 /\ Knot(S, z[2], x)
    BY <1>1, <1>2 DEF Gated, ShouldPruneState, forcedChainCut, Knot, Pinned, Ones
<1>4. Cardinality(ends) = 1 <=> \E y : ends = {y}
  <2>1. IsFiniteSet(ends)
    BY <1>1, Spots, FS_Subset DEF Ones
  <2> QED
    BY <2>1, FS_Singleton
<1>5. \A y : ends = {y} => y = x
    BY <1>2
<1> QED
    BY <1>1, <1>3, <1>4, <1>5

LEMMA GateMoves ==
    ASSUME NEW t \in Transforms, NEW z \in Placement, Gated(z)
    PROVE  Gated(Move(t, z))
<1>1. PICK y, S, c, R, d : y = Move(t, z) /\ S = Rest(z) /\ c = z[2] /\ R = Rest(y) /\ d = y[2]
    OBVIOUS
<1>2. S \in SUBSET Cell /\ c \in Cell
    BY <1>1, Spots DEF State
<1>3. y \in Placement /\ R = transformState(t, S) /\ d = perms[t][c]
    BY <1>1, Images1
<1>4. transformState(t, S \cup {c}) = R \cup {d} /\ S \cup {c} \in SUBSET Cell
    BY <1>2, <1>3 DEF transformState
<1>5. PICK x : Ones(S, S \cup {c}) = {x} /\ Knot(S, c, x)
    BY <1>1, GateKnots
<1>6. x \in Cell
    BY <1>2, <1>5 DEF Ones
<1>7. Ones(R, R \cup {d}) = {perms[t][x]}
  <2>1. PICK h : h = S \cup {c}
    OBVIOUS
  <2>2. Ones(transformState(t, S), transformState(t, h)) = transformState(t, Ones(S, h))
    BY <1>2, <1>4, <2>1, OnesMove
  <2>3. Ones(R, R \cup {d}) = transformState(t, {x})
    BY <1>3, <1>4, <1>5, <2>1, <2>2
  <2> QED
    BY <2>3 DEF transformState
<1>8. Knot(R, d, perms[t][x])
    BY <1>2, <1>3, <1>5, <1>6, KnotMove
<1>9. Gated(y)
    BY <1>1, <1>3, <1>7, <1>8, GateKnots
<1> QED
    BY <1>1, <1>9

LEMMA GatesMove ==
    ASSUME NEW t \in Transforms, NEW z \in Placement
    PROVE  /\ Gated(Move(t, z)) <=> Gated(z)
           /\ Passing(z) => ~ Gated(z)
<1>1. ASSUME NEW s \in Transforms, Gated(Move(s, z)) PROVE Gated(z)
  <2>1. Move(s, z) \in Placement
    BY Images1
  <2>2. Undo(s) \in Transforms /\ Move(Undo(s), Move(s, z)) = z
    BY Acts
  <2>3. Gated(Move(Undo(s), Move(s, z)))
    BY <1>1, <2>1, <2>2, GateMoves
  <2> QED
    BY <2>2, <2>3
<1>2. \A s \in Transforms : Gated(Move(s, z)) <=> Gated(z)
    BY <1>1, GateMoves
<1> QED
    BY <1>2 DEF Passing

-----------------------------------------------------------------------------
(* Values handed back: they add up, and fewer ways give less.              *)
Spreads(v, N, e, d) ==
    /\ v \in Values /\ \A z \in Placement : N[z] \in SUBSET Onward(z)
    /\ \A z \in Placement : v[z] = SpreadBy(v, z, N, e, d)

LEMMA SpreadSum ==
    ASSUME NEW v, NEW N, NEW e, NEW d, Spreads(v, N, e, d), NEW z \in Placement
    PROVE  /\ Level(z) < d => v[z] = SumOf([n \in N[z] |-> v[Visit(z, n)]], N[z])
           /\ Counts([n \in N[z] |-> v[Visit(z, n)]], N[z]) /\ N[z] \in SUBSET Onward(z)
<1>1. v \in Values /\ N[z] \in SUBSET Onward(z) /\ v[z] = SpreadBy(v, z, N, e, d)
    BY DEF Spreads
<1>2. Counts([n \in N[z] |-> v[Visit(z, n)]], N[z])
    BY <1>1, SpreadNat
<1> QED
    BY <1>1, <1>2 DEF SpreadBy

LEMMA SpreadEnd ==
    ASSUME NEW v, NEW N, NEW e, NEW d, Spreads(v, N, e, d), NEW z \in Placement, ~ (Level(z) < d)
    PROVE  v[z] = e[z]
  BY DEF Spreads, SpreadBy

LEMMA SpreadsJoin ==
    ASSUME NEW N, NEW d, NEW e, NEW v, Spreads(v, N, e, d),
           NEW f, NEW w, Spreads(w, N, f, d), NEW g, NEW x, Spreads(x, N, g, d),
           \A z \in Placement : e[z] = f[z] + g[z]
    PROVE  \A z \in Placement : v[z] = w[z] + x[z]
<1> DEFINE r == [z \in Placement |-> Cardinality(Rest(z))]
           P == {z \in Placement : v[z] = w[z] + x[z]}
<1>1. r \in [Placement -> Nat]
    BY Levels
<1>2. ASSUME NEW z \in Placement, \A y \in Placement : r[y] < r[z] => y \in P PROVE z \in P
  <2>1. CASE ~ (Level(z) < d)
    <3>1. v[z] = e[z]
        BY <2>1, SpreadEnd
    <3>2. w[z] = f[z]
        BY <2>1, SpreadEnd
    <3>3. x[z] = g[z]
        BY <2>1, SpreadEnd
    <3> QED
        BY <3>1, <3>2, <3>3
  <2>2. CASE Level(z) < d
    <3> DEFINE a == [n \in N[z] |-> v[Visit(z, n)]]
               b == [n \in N[z] |-> w[Visit(z, n)]]
               c == [n \in N[z] |-> x[Visit(z, n)]]
               S == N[z]
    <3>1. v[z] = SumOf(a, S) /\ Counts(a, S) /\ S \in SUBSET Onward(z)
        BY <2>2, SpreadSum
    <3>2. w[z] = SumOf(b, S) /\ Counts(b, S)
        BY <2>2, SpreadSum
    <3>3. x[z] = SumOf(c, S) /\ Counts(c, S)
        BY <2>2, SpreadSum
    <3>4. ASSUME NEW n \in S PROVE a[n] = b[n] + c[n]
      <4>1. Visit(z, n) \in Placement /\ r[Visit(z, n)] < r[z]
        BY <3>1, Visits
      <4>2. Visit(z, n) \in P
        BY <1>2, <4>1
      <4> QED
        BY <4>2
    <3> HIDE DEF a, b, c, S
    <3>5. SumOf(a, S) = SumOf(b, S) + SumOf(c, S)
        BY <3>2, <3>3, <3>4, SumPlus
    <3> QED
        BY <3>1, <3>2, <3>3, <3>5
  <2> QED
    BY <2>1, <2>2
<1>3. \A z \in Placement : z \in P
  <2> HIDE DEF P, r
  <2> QED BY <1>1, <1>2, RankInduction
<1> QED
    BY <1>3

Sums(k, d) ==
    /\ k \in Values
    /\ \A z \in Placement :
           Level(z) < d => k[z] = SumOf([n \in Onward(z) |-> k[Visit(z, n)]], Onward(z))

LEMMA SpreadsBelow ==
    ASSUME NEW N, NEW d \in Nat, NEW e, NEW v, Spreads(v, N, e, d), NEW k, Sums(k, d),
           \A z \in Placement : Level(z) >= d => e[z] <= k[z]
    PROVE  \A z \in Placement : v[z] <= k[z]
<1> DEFINE r == [z \in Placement |-> Cardinality(Rest(z))]
           P == {z \in Placement : v[z] <= k[z]}
<1>1. r \in [Placement -> Nat] /\ (\A z \in Placement : Level(z) \in Nat) /\ k \in Values
    BY Levels DEF Sums
<1>2. ASSUME NEW z \in Placement, \A y \in Placement : r[y] < r[z] => y \in P PROVE z \in P
  <2>1. CASE ~ (Level(z) < d)
    <3>1. Level(z) >= d
        BY <1>1, <2>1
    <3>2. v[z] = e[z]
        BY <2>1, SpreadEnd
    <3> QED
        BY <3>1, <3>2
  <2>2. CASE Level(z) < d
    <3> DEFINE a == [n \in N[z] |-> v[Visit(z, n)]]
               b == [n \in Onward(z) |-> k[Visit(z, n)]]
               S == N[z]
               T == Onward(z)
    <3>1. v[z] = SumOf(a, S) /\ Counts(a, S) /\ S \in SUBSET T
        BY <2>2, SpreadSum
    <3>2. k[z] = SumOf(b, T) /\ Counts(b, T)
      <4>1. k[z] = SumOf(b, T)
        BY <2>2 DEF Sums
      <4>2. \A n \in T : b[n] \in Nat
        BY <1>1, Visits DEF Values
      <4>3. Counts(b, T)
        BY <4>2, Spots DEF Counts
      <4> QED
        BY <4>1, <4>3
    <3>3. ASSUME NEW n \in S PROVE a[n] <= b[n]
      <4>1. n \in T /\ Visit(z, n) \in Placement /\ r[Visit(z, n)] < r[z]
        BY <3>1, Visits
      <4>2. Visit(z, n) \in P
        BY <1>2, <4>1
      <4> QED
        BY <4>1, <4>2
    <3> DEFINE c == [n \in T |-> IF n \in S THEN b[n] ELSE 0]
    <3>4. (\A n \in T : c[n] \in Nat /\ c[n] <= b[n]) /\ (\A n \in S : n \in T /\ b[n] = c[n]) /\ \A n \in T \ S : c[n] = 0
      <4>1. \A n \in T : b[n] \in Nat
        BY <3>2 DEF Counts
      <4> HIDE DEF a, b, S, T
      <4> QED
        BY <3>1, <4>1
    <3> HIDE DEF a, b, c, S, T
    <3>5. Counts(c, T)
        BY <3>2, <3>4 DEF Counts
    <3>6. Counts(c, S) /\ SumOf(c, S) = SumOf(c, T)
        BY <3>1, <3>4, <3>5, SumPart
    <3>7. SumOf(a, S) <= SumOf(c, S)
      <4>1. \A n \in S : a[n] <= c[n]
        BY <3>3, <3>4
      <4> QED
        BY <3>1, <3>6, <4>1, SumLeq
    <3>8. SumOf(c, T) <= SumOf(b, T)
        BY <3>2, <3>4, <3>5, SumLeq
    <3>9. SumOf(a, S) \in Nat /\ SumOf(c, T) \in Nat /\ SumOf(b, T) \in Nat
        BY <3>1, <3>2, <3>5, SumNat
    <3>10. v[z] <= k[z]
        BY <3>1, <3>2, <3>6, <3>7, <3>8, <3>9
    <3> QED
        BY <3>10
  <2> QED
    BY <2>1, <2>2
<1>3. \A z \in Placement : z \in P
  <2> HIDE DEF P, r
  <2> QED BY <1>1, <1>2, RankInduction
<1> QED
    BY <1>3

-----------------------------------------------------------------------------
(* How often the descents come to a class: u for the first of them, to     *)
(* depth b, and v for the second, from there to d.                         *)
Ways == [z \in Placement |-> IF LeftOut(z) THEN {} ELSE Steps(z)]
Mark(A) == [z \in Placement |-> IF z \in A THEN 1 ELSE 0]
LetBy(v) == [z \in Placement |-> IF Gated(z) THEN 0 ELSE v[z]]

Kept(A, v, u, b, d) == Spreads(v, Ways, Mark(A), d) /\ Spreads(u, Ways, LetBy(v), b)

LEMMA WaysOn ==
    /\ \A z \in Placement : Ways[z] \in SUBSET Onward(z)
    /\ \A A : Mark(A) \in Values
    /\ \A v \in Values : LetBy(v) \in Values
<1>1. \A z \in Placement : Ways[z] \in SUBSET Onward(z)
    BY StepsKeep DEF Ways
<1>2. \A A : Mark(A) \in Values
    BY DEF Mark, Values
<1>3. \A v \in Values : LetBy(v) \in Values
    BY DEF LetBy, Values
<1> QED
    BY <1>1, <1>2, <1>3

LEMMA KeptExist ==
    ASSUME NEW A, NEW b \in Nat, NEW d \in Nat
    PROVE  \E v, u : Kept(A, v, u, b, d)
<1>1. (\A z \in Placement : Ways[z] \in SUBSET Onward(z)) /\ Mark(A) \in Values
    BY WaysOn
<1>2. PICK v \in Values : \A z \in Placement : v[z] = SpreadBy(v, z, Ways, Mark(A), d)
    BY <1>1, Spread
<1>3. LetBy(v) \in Values
    BY WaysOn
<1>4. PICK u \in Values : \A z \in Placement : u[z] = SpreadBy(u, z, Ways, LetBy(v), b)
    BY <1>1, <1>3, Spread
<1> QED
    BY <1>1, <1>2, <1>4 DEF Kept, Spreads

LEMMA KeptJoin ==
    ASSUME NEW A, NEW B, A \cap B = {}, NEW b, NEW d,
           NEW v, NEW u, Kept(A \cup B, v, u, b, d),
           NEW w, NEW x, Kept(A, w, x, b, d), NEW y, NEW s, Kept(B, y, s, b, d)
    PROVE  \A z \in Placement : u[z] = x[z] + s[z]
<1>1. PICK e, f, g : e = Mark(A \cup B) /\ f = Mark(A) /\ g = Mark(B)
    OBVIOUS
<1>2. \A z \in Placement : v[z] = w[z] + y[z]
  <2>1. Spreads(v, Ways, e, d) /\ Spreads(w, Ways, f, d) /\ Spreads(y, Ways, g, d)
    BY <1>1 DEF Kept
  <2>2. \A z \in Placement : e[z] = f[z] + g[z]
    BY <1>1 DEF Mark
  <2> QED
    BY <2>1, <2>2, SpreadsJoin
<1>3. PICK i, j, k : i = LetBy(v) /\ j = LetBy(w) /\ k = LetBy(y)
    OBVIOUS
<1>4. \A z \in Placement : i[z] = j[z] + k[z]
    BY <1>2, <1>3 DEF LetBy
<1>5. Spreads(u, Ways, i, b) /\ Spreads(x, Ways, j, b) /\ Spreads(s, Ways, k, b)
    BY <1>3 DEF Kept
<1> QED
    BY <1>4, <1>5, SpreadsJoin

-----------------------------------------------------------------------------
(* A descent from an image comes to the images.                            *)
LEMMA WaysMove ==
    ASSUME NEW t \in Transforms, NEW z \in Placement
    PROVE  Ways[Move(t, z)] = transformState(t, Ways[z])
<1>1. Move(t, z) \in Placement /\ (LeftOut(Move(t, z)) <=> LeftOut(z)) /\ Steps(Move(t, z)) = transformState(t, Steps(z))
    BY Images1, LeftOutMoves, StepsMove
<1>2. transformState(t, {}) = {}
    BY DEF transformState
<1> QED
    BY <1>1, <1>2 DEF Ways

LEMMA SpreadsMove ==
    ASSUME NEW t \in Transforms, NEW d \in Nat, NEW e \in Values, NEW v, Spreads(v, Ways, e, d),
           NEW f \in Values, NEW u, Spreads(u, Ways, f, d), \A z \in Placement : f[Move(t, z)] = e[z]
    PROVE  \A z \in Placement : u[Move(t, z)] = v[z]
<1>1. /\ v \in Values /\ u \in Values /\ \A z \in Placement : Ways[z] \in SUBSET Onward(z)
      /\ \A z \in Placement : v[z] = SpreadBy(v, z, Ways, e, d)
      /\ \A z \in Placement : u[z] = SpreadBy(u, z, Ways, f, d)
    BY DEF Spreads
<1>2. \A z \in Placement : Ways[Move(t, z)] = transformState(t, Ways[z])
    BY WaysMove
<1> QED
    BY <1>1, <1>2, SpreadMoves

LEMMA KeptMove ==
    ASSUME NEW t \in Transforms, NEW b \in Nat, NEW d \in Nat,
           NEW A \in SUBSET Placement, NEW B, B = {Move(t, z) : z \in A},
           NEW v, NEW u, Kept(A, v, u, b, d), NEW w, NEW x, Kept(B, w, x, b, d)
    PROVE  \A z \in Placement : w[Move(t, z)] = v[z] /\ x[Move(t, z)] = u[z]
<1>1. PICK e, f : e = Mark(A) /\ f = Mark(B)
    OBVIOUS
<1>2. \A z \in Placement : Move(t, z) \in Placement /\ Move(Undo(t), Move(t, z)) = z
    BY Images1, Acts
<1>3. \A z \in Placement : z \in A <=> Move(t, z) \in B
    BY <1>2
<1>4. e \in Values /\ f \in Values /\ \A z \in Placement : f[Move(t, z)] = e[z]
    BY <1>1, <1>2, <1>3, WaysOn DEF Mark
<1>5. Spreads(v, Ways, e, d) /\ Spreads(w, Ways, f, d)
    BY <1>1 DEF Kept
<1>6. \A z \in Placement : w[Move(t, z)] = v[z]
    BY <1>4, <1>5, SpreadsMove
<1>7. PICK g, h : g = LetBy(v) /\ h = LetBy(w)
    OBVIOUS
<1>8. g \in Values /\ h \in Values /\ \A z \in Placement : h[Move(t, z)] = g[z]
  <2>1. v \in Values /\ w \in Values
    BY <1>5 DEF Spreads
  <2>2. \A z \in Placement : Gated(Move(t, z)) <=> Gated(z)
    BY GatesMove
  <2> QED
    BY <1>2, <1>6, <1>7, <2>1, <2>2, WaysOn DEF LetBy
<1>9. Spreads(u, Ways, g, b) /\ Spreads(x, Ways, h, b)
    BY <1>7 DEF Kept
<1>10. \A z \in Placement : x[Move(t, z)] = u[z]
    BY <1>8, <1>9, SpreadsMove
<1> QED
    BY <1>6, <1>10

(* Sums over the starts.                                                   *)
LEMMA StartCounts ==
    ASSUME NEW u \in Values
    PROVE  Counts([c \in Cell |-> u[<<{c}, c>>]], Cell) /\ StartWorth(u) \in Nat
<1> DEFINE f == [c \in Cell |-> u[<<{c}, c>>]]
<1>1. \A c \in Cell : f[c] \in Nat
    BY Start1 DEF Values
<1>2. Counts(f, Cell)
    BY <1>1, Cells DEF Counts
<1>3. SumOf(f, Cell) \in Nat
  <2> HIDE DEF f
  <2> QED BY <1>2, SumNat
<1> QED
    BY <1>2, <1>3 DEF StartWorth

LEMMA StartsMove ==
    ASSUME NEW t \in Transforms, NEW u \in Values, NEW x \in Values, \A z \in Placement : x[Move(t, z)] = u[z]
    PROVE  StartWorth(x) = StartWorth(u)
<1> DEFINE f == [c \in Cell |-> u[<<{c}, c>>]]
           g == [c \in Cell |-> x[<<{c}, c>>]]
           m == [c \in Cell |-> perms[t][c]]
<1>1. Counts(f, Cell) /\ IsFiniteSet(Cell)
    BY StartCounts, Cells
<1>2. \A c \in Cell : m[c] \in Cell
    BY PermsMove
<1>3. \A c, d \in Cell : m[c] = m[d] => c = d
    BY PermsUndo
<1>4. ASSUME NEW c \in Cell PROVE \E d \in Cell : m[d] = c
  <2>1. perms[Undo(t)][c] \in Cell /\ perms[t][perms[Undo(t)][c]] = c
    BY PermsUndo, PermsMove
  <2> QED
    BY <2>1
<1>5. ASSUME NEW c \in Cell PROVE g[m[c]] = f[c]
  <2>1. PICK z : z = <<{c}, c>>
    OBVIOUS
  <2>2. z \in Placement /\ z[1] = {c} /\ z[2] = c
    BY <2>1, Start1
  <2>3. Move(t, z) = <<{m[c]}, m[c]>>
    <3>1. Move(t, z) \in Placement /\ Move(t, z)[1] = transformState(t, {c}) /\ Move(t, z)[2] = perms[t][c]
        BY <2>2, Images1
    <3>2. transformState(t, {c}) = {perms[t][c]}
        BY DEF transformState
    <3>3. Move(t, z) = <<Move(t, z)[1], Move(t, z)[2]>>
        BY <3>1, Spots
    <3> QED
        BY <3>1, <3>2, <3>3
  <2>4. x[Move(t, z)] = u[z]
    BY <2>2
  <2>5. g[m[c]] = x[<<{m[c]}, m[c]>>]
    BY <1>2
  <2> QED
    BY <2>1, <2>3, <2>4, <2>5
<1> HIDE DEF f, g, m
<1>6. SumOf(f, Cell) = SumOf(g, Cell)
    BY <1>1, <1>2, <1>3, <1>4, <1>5, SumReindex
<1> QED
    BY <1>6 DEF StartWorth, f, g

LEMMA StartsJoin ==
    ASSUME NEW u \in Values, NEW x \in Values, NEW s \in Values, \A z \in Placement : u[z] = x[z] + s[z]
    PROVE  StartWorth(u) = StartWorth(x) + StartWorth(s)
<1> DEFINE f == [c \in Cell |-> u[<<{c}, c>>]]
           g == [c \in Cell |-> x[<<{c}, c>>]]
           h == [c \in Cell |-> s[<<{c}, c>>]]
<1>1. Counts(g, Cell)
    BY StartCounts
<1>2. Counts(h, Cell)
    BY StartCounts
<1>3. \A c \in Cell : f[c] = g[c] + h[c]
    BY Start1
<1> HIDE DEF f, g, h
<1>4. SumOf(f, Cell) = SumOf(g, Cell) + SumOf(h, Cell)
    BY <1>1, <1>2, <1>3, SumPlus
<1> QED
    BY <1>4 DEF StartWorth, f, g, h

LEMMA StartsBelow ==
    ASSUME NEW u \in Values, NEW k \in Values, \A z \in Placement : u[z] <= k[z]
    PROVE  StartWorth(u) <= StartWorth(k)
<1> DEFINE f == [c \in Cell |-> u[<<{c}, c>>]]
           g == [c \in Cell |-> k[<<{c}, c>>]]
<1>1. Counts(f, Cell)
    BY StartCounts
<1>2. Counts(g, Cell)
    BY StartCounts
<1>3. \A c \in Cell : f[c] <= g[c]
    BY Start1
<1> HIDE DEF f, g
<1>4. SumOf(f, Cell) <= SumOf(g, Cell)
    BY <1>1, <1>2, <1>3, SumLeq
<1> QED
    BY <1>4 DEF StartWorth, f, g

-----------------------------------------------------------------------------
(* The weight of a class is how often the descents come to it.             *)
LEMMA OrbitStays ==
    ASSUME NEW q \in Placement, NEW t \in Transforms
    PROVE  /\ Images(q) \in SUBSET Placement /\ IsFiniteSet(Images(q))
           /\ {Move(t, z) : z \in Images(q)} = Images(q)
<1>1. \A z \in Images(q) : z \in Placement
    BY Acts DEF Images
<1>2. ASSUME NEW z \in Images(q), NEW s \in Transforms PROVE Move(s, z) \in Images(q)
  <2>1. PICK u \in Transforms : z = Move(u, q)
    BY DEF Images
  <2>2. Images(z) = Images(q)
    BY <2>1, ImagesSame
  <2> QED
    BY <2>2 DEF Images
<1>3. \A z \in Images(q) : Undo(t) \in Transforms /\ Move(t, Move(Undo(t), z)) = z
    BY <1>1, Acts
<1>4. \A z : z \in {Move(t, y) : y \in Images(q)} <=> z \in Images(q)
    BY <1>2, <1>3
<1>5. {Move(t, z) : z \in Images(q)} = Images(q)
  <2> DEFINE X == {Move(t, z) : z \in Images(q)}
  <2>1. \A z : z \in X <=> z \in Images(q)
    BY <1>4
  <2> HIDE DEF X
  <2>2. X = Images(q)
    BY <2>1
  <2> QED
    BY <2>2 DEF X
<1>6. IsFiniteSet(Images(q))
    BY <1>1, Finite, FS_Subset
<1> QED
    BY <1>1, <1>5, <1>6

(* A value spread from a class that no descent skips is carried.           *)
LEMMA SpreadsCarried ==
    ASSUME NEW d \in Nat, NEW e, NEW v, Spreads(v, Ways, e, d),
           \A t \in Transforms : \A z \in Placement : v[Move(t, z)] = v[z],
           \A z \in Partial : LeftOut(z) \/ Gated(z) => (Level(z) >= d => e[z] = 0)
    PROVE  \A z \in Partial : LeftOut(z) \/ (Level(z) = d /\ Gated(z)) => v[z] = 0
<1> SUFFICES ASSUME NEW z \in Partial, LeftOut(z) \/ (Level(z) = d /\ Gated(z)) PROVE v[z] = 0
    OBVIOUS
<1>1. z \in Placement /\ Level(z) \in Nat
    BY Levels DEF Partial
<1>2. CASE ~ (Level(z) < d)
  <2>1. v[z] = e[z]
    BY <1>1, <1>2, SpreadEnd
  <2>2. Level(z) >= d
    BY <1>1, <1>2
  <2> QED
    BY <2>1, <2>2
<1>3. CASE Level(z) < d
  <2>1. LeftOut(z)
    BY <1>1, <1>3
  <2>2. Ways[z] = {}
    BY <1>1, <2>1 DEF Ways
  <2>3. v[z] = SumOf([n \in Ways[z] |-> v[Visit(z, n)]], Ways[z])
    BY <1>1, <1>3, SpreadSum
  <2>4. v[z] = SumOf([n \in {} |-> v[Visit(z, n)]], {})
    BY <2>2, <2>3
  <2> QED
    BY <2>4, SumEmpty
<1> QED
    BY <1>2, <1>3

LEMMA SpreadsOn ==
    ASSUME NEW d \in Nat, NEW e, NEW v, Spreads(v, Ways, e, d), NEW z \in Partial, Level(z) < d, ~ LeftOut(z)
    PROVE  v[z] = SumOf([n \in Steps(z) |-> v[Visit(z, n)]], Steps(z))
<1>1. z \in Placement
    BY DEF Partial
<1>2. Ways[z] = Steps(z)
    BY <1>1 DEF Ways
<1>3. v[z] = SumOf([n \in Ways[z] |-> v[Visit(z, n)]], Ways[z])
    BY <1>1, SpreadSum
<1> QED
    BY <1>2, <1>3

LEMMA KeptLinked ==
    ASSUME NEW d \in 1 .. totalCells, NEW b \in 1 .. d, NEW q \in Reached(d),
           NEW v, NEW u, Kept(Images(q), v, u, b, d)
    PROVE  Linked(u, v, b, d)
<1>1. d \in Nat /\ b \in Nat /\ q \in Placement /\ Level(q) = d /\ ~ Gated(q) /\ ~ LeftOut(q)
  <2>1. d \in Nat /\ b \in Nat
    BY Cells
  <2>2. q \in Placement /\ Level(q) = d /\ Passing(q) /\ ~ LeftOut(q)
    BY DEF Reached, Partial
  <2>3. ~ Gated(q)
    <3>1. 0 \in Transforms
        BY DEF Transforms
    <3> QED
        BY <2>2, <3>1, GatesMove
  <2> QED
    BY <2>1, <2>2, <2>3
<1>2. PICK e, f : e = Mark(Images(q)) /\ f = LetBy(v)
    OBVIOUS
<1>3. Spreads(v, Ways, e, d) /\ Spreads(u, Ways, f, b) /\ v \in Values /\ u \in Values
    BY <1>2 DEF Kept, Spreads
<1>4. ASSUME NEW t \in Transforms, NEW z \in Placement PROVE v[Move(t, z)] = v[z] /\ u[Move(t, z)] = u[z]
  <2>1. PICK A : A = Images(q)
    OBVIOUS
  <2>2. A \in SUBSET Placement /\ A = {Move(t, y) : y \in A}
    BY <1>1, <2>1, OrbitStays
  <2>3. Kept(A, v, u, b, d)
    BY <2>1
  <2>4. \A y \in Placement : v[Move(t, y)] = v[y] /\ u[Move(t, y)] = u[y]
    BY <1>1, <2>2, <2>3, KeptMove
  <2> QED
    BY <2>4
<1>5. \A z \in Placement : LeftOut(z) \/ Gated(z) => e[z] = 0
  <2> SUFFICES ASSUME NEW z \in Placement, z \in Images(q) PROVE ~ LeftOut(z) /\ ~ Gated(z)
    BY <1>2 DEF Mark
  <2>1. PICK t \in Transforms : z = Move(t, q)
    BY DEF Images
  <2> QED
    BY <1>1, <2>1, LeftOutMoves, GatesMove
<1>6. \A z \in Partial : LeftOut(z) \/ (Level(z) = d /\ Gated(z)) => v[z] = 0
  <2>1. \A z \in Partial : LeftOut(z) \/ Gated(z) => (Level(z) >= d => e[z] = 0)
    BY <1>5 DEF Partial
  <2> QED
    BY <1>1, <1>3, <1>4, <2>1, SpreadsCarried
<1>7. \A z \in Partial : LeftOut(z) \/ (Level(z) = b /\ Gated(z)) => u[z] = 0
  <2>1. \A z \in Partial : LeftOut(z) \/ Gated(z) => (Level(z) >= b => f[z] = 0)
    BY <1>2, <1>6 DEF LetBy, Partial
  <2> QED
    BY <1>1, <1>3, <1>4, <2>1, SpreadsCarried
<1>8. Carried(v, d)
  <2>1. \A z \in Partial : Level(z) < d /\ ~ LeftOut(z) => v[z] = SumOf([n \in Steps(z) |-> v[Visit(z, n)]], Steps(z))
    BY <1>1, <1>3, SpreadsOn
  <2> QED
    BY <1>3, <1>4, <1>6, <2>1 DEF Carried
<1>9. Carried(u, b)
  <2>1. \A z \in Partial : Level(z) < b /\ ~ LeftOut(z) => u[z] = SumOf([n \in Steps(z) |-> u[Visit(z, n)]], Steps(z))
    BY <1>1, <1>3, SpreadsOn
  <2> QED
    BY <1>3, <1>4, <1>7, <2>1 DEF Carried
<1>10. ASSUME NEW z \in Partial, Level(z) = b, Passing(z) PROVE u[z] = v[z]
  <2>1. z \in Placement /\ ~ (Level(z) < b) /\ ~ Gated(z)
    <3>1. z \in Placement /\ 0 \in Transforms
        BY DEF Partial, Transforms
    <3>2. ~ Gated(z)
        BY <1>10, <3>1, GatesMove
    <3> QED
        BY <1>1, <1>10, <3>1, <3>2
  <2>2. u[z] = f[z]
    BY <1>3, <2>1, SpreadEnd
  <2> QED
    BY <1>2, <2>1, <2>2 DEF LetBy
<1> QED
    BY <1>8, <1>9, <1>10 DEF Linked

(* It is the same for every placement of the class.                        *)
LEMMA KeptNone ==
    ASSUME NEW b \in Nat, NEW d \in Nat, NEW w, NEW x, Kept({}, w, x, b, d)
    PROVE  StartWorth(x) = 0
<1>1. PICK A : A = {}
    OBVIOUS
<1>2. A \cap A = {} /\ Kept(A \cup A, w, x, b, d) /\ Kept(A, w, x, b, d) /\ x \in Values
  <2>1. A \cup A = A
    OBVIOUS
  <2> QED
    BY <1>1, <2>1 DEF Kept, Spreads
<1>3. \A z \in Placement : x[z] = x[z] + x[z]
    BY <1>2, KeptJoin
<1>4. StartWorth(x) = StartWorth(x) + StartWorth(x) /\ StartWorth(x) \in Nat
    BY <1>2, <1>3, StartsJoin, StartCounts
<1>5. PICK n \in Nat : n = StartWorth(x)
    BY <1>4
<1>6. n = n + n
    BY <1>4, <1>5
<1>7. n = 0
    BY <1>6
<1> QED
    BY <1>5, <1>7

LEMMA KeptSame ==
    ASSUME NEW q \in Placement, NEW t \in Transforms, NEW b \in Nat, NEW d \in Nat,
           NEW v, NEW u, Kept({q}, v, u, b, d), NEW w, NEW x, Kept({Move(t, q)}, w, x, b, d)
    PROVE  StartWorth(x) = StartWorth(u)
<1>1. PICK X, Y : X = {q} /\ Y = {Move(t, q)}
    OBVIOUS
<1>2. X \in SUBSET Placement /\ Y = {Move(t, z) : z \in X}
    BY <1>1
<1>3. Kept(X, v, u, b, d) /\ Kept(Y, w, x, b, d)
    BY <1>1
<1>4. \A z \in Placement : w[Move(t, z)] = v[z] /\ x[Move(t, z)] = u[z]
    BY <1>2, <1>3, KeptMove
<1>5. u \in Values /\ x \in Values
    BY <1>3 DEF Kept, Spreads
<1> QED
    BY <1>4, <1>5, StartsMove

LEMMA KeptShare ==
    ASSUME NEW q \in Placement, NEW b \in Nat, NEW d \in Nat
    PROVE  \E k \in Nat : \A v, u : Kept(Images(q), v, u, b, d) => StartWorth(u) = Cardinality(Images(q)) * k
<1>1. PICK v0, u0 : Kept({q}, v0, u0, b, d)
    BY KeptExist
<1>2. PICK k \in Nat : k = StartWorth(u0)
  <2>1. u0 \in Values
    BY <1>1 DEF Kept, Spreads
  <2> QED
    BY <2>1, StartCounts
<1> DEFINE I == Images(q)
           P == {A \in SUBSET I : \A v, u : Kept(A, v, u, b, d) => StartWorth(u) = Cardinality(A) * k}
<1>3. I \in SUBSET Placement /\ IsFiniteSet(I)
  <2>1. 0 \in Transforms
    BY DEF Transforms
  <2> QED
    BY <2>1, OrbitStays
<1>4. {} \in P
  <2>1. PICK n : n = Cardinality({})
    OBVIOUS
  <2>2. n = 0 /\ n * k = 0
    BY <2>1, FS_EmptySet
  <2>3. \A v, u : Kept({}, v, u, b, d) => StartWorth(u) = n * k
    BY <2>2, KeptNone
  <2>4. \A v, u : Kept({}, v, u, b, d) => StartWorth(u) = Cardinality({}) * k
    BY <2>1, <2>3
  <2> QED
    BY <2>4
<1>5. ASSUME NEW s \in SUBSET I, NEW y \in I \ s, s \in P PROVE s \cup {y} \in P
  <2>1. PICK A, Y : A = s \cup {y} /\ Y = {y}
    OBVIOUS
  <2>2. ASSUME NEW v, NEW u, Kept(A, v, u, b, d) PROVE StartWorth(u) = Cardinality(A) * k
    <3>1. PICK w, x : Kept(s, w, x, b, d)
        BY KeptExist
    <3>2. PICK w2, x2 : Kept(Y, w2, x2, b, d)
        BY KeptExist
    <3>3. u \in Values /\ x \in Values /\ x2 \in Values /\ u0 \in Values
        BY <1>1, <2>2, <3>1, <3>2 DEF Kept, Spreads
    <3>4. StartWorth(u) = StartWorth(x) + StartWorth(x2)
      <4>1. s \cap Y = {} /\ Kept(s \cup Y, v, u, b, d)
        BY <2>1, <2>2
      <4>2. \A z \in Placement : u[z] = x[z] + x2[z]
        BY <3>1, <3>2, <4>1, KeptJoin
      <4> QED
        BY <3>3, <4>2, StartsJoin
    <3>5. StartWorth(x2) = k
      <4>1. PICK t \in Transforms : y = Move(t, q)
        BY DEF Images
      <4>2. Kept({Move(t, q)}, w2, x2, b, d)
        BY <2>1, <3>2, <4>1
      <4>3. StartWorth(x2) = StartWorth(u0)
        BY <1>1, <4>2, KeptSame
      <4> QED
        BY <1>2, <4>3
    <3>6. StartWorth(x) = Cardinality(s) * k
        BY <1>5, <3>1
    <3>7. Cardinality(A) = Cardinality(s) + 1 /\ Cardinality(s) \in Nat
      <4>1. IsFiniteSet(s) /\ y \notin s
        BY <1>3, FS_Subset
      <4> QED
        BY <2>1, <4>1, FS_AddElement, FS_CardinalityType
    <3>8. PICK n \in Nat : n = Cardinality(s)
        BY <3>7
    <3>9. (n + 1) * k = n * k + k
        BY <3>8
    <3> QED
        BY <3>4, <3>5, <3>6, <3>7, <3>8, <3>9
  <2> QED
    BY <2>1, <2>2
<1>6. I \in P
  <2> HIDE DEF P, I
  <2> QED BY <1>3, <1>4, <1>5, SetInduction
<1> QED
    BY <1>6

-----------------------------------------------------------------------------
(* Whole orbits in the table, and no path twice.                           *)
LEMMA KeptBelow ==
    ASSUME NEW d \in 1 .. totalCells, NEW b \in 1 .. d, NEW q \in Partial, Level(q) = d,
           NEW v, NEW u, Kept(Images(q), v, u, b, d)
    PROVE  StartWorth(u) <= Cardinality(Images(q)) * Paths(q)
<1>1. d \in Nat /\ b \in Nat /\ b <= d
    BY Cells
<1>2. PICK k : Leads(k, q, d)
    BY <1>1, LeadsExist
<1>3. k \in Values /\ StartWorth(k) = Cardinality(Images(q)) * Paths(q)
    BY <1>2, LeadsWorth DEF Leads
<1>4. PICK e, f : e = Mark(Images(q)) /\ f = LetBy(v)
    OBVIOUS
<1>5. Spreads(v, Ways, e, d) /\ Spreads(u, Ways, f, b) /\ u \in Values /\ v \in Values
    BY <1>4 DEF Kept, Spreads
<1>6. Sums(k, d)
    BY <1>2, <1>3 DEF Leads, Sums
<1>7. \A z \in Placement : v[z] <= k[z]
  <2>1. ASSUME NEW z \in Placement, Level(z) >= d PROVE e[z] <= k[z]
    <3>1. k[z] = e[z] /\ e[z] \in Nat
        BY <1>2, <1>4, <2>1 DEF Leads, Mark
    <3> QED
        BY <3>1
  <2> QED
    BY <1>1, <1>5, <1>6, <2>1, SpreadsBelow
<1>8. \A z \in Placement : u[z] <= k[z]
  <2>1. ASSUME NEW z \in Placement, Level(z) >= b PROVE f[z] <= k[z]
    <3>1. v[z] \in Nat /\ k[z] \in Nat /\ v[z] <= k[z] /\ f[z] = IF Gated(z) THEN 0 ELSE v[z]
        BY <1>3, <1>4, <1>5, <1>7 DEF Values, LetBy
    <3> QED
        BY <3>1
  <2>2. Sums(k, b)
    <3>1. \A z \in Placement : Level(z) < b => Level(z) < d
        BY <1>1, Levels
    <3> QED
        BY <1>6, <3>1 DEF Sums
  <2> QED
    BY <1>1, <1>5, <2>1, <2>2, SpreadsBelow
<1>9. StartWorth(u) <= StartWorth(k)
    BY <1>3, <1>5, <1>8, StartsBelow
<1> QED
    BY <1>3, <1>9

LEMMA WholeWeight ==
    ASSUME NEW d \in 1 .. totalCells, NEW b \in 1 .. d, NEW B, Faithful(B, b, d), NEW q \in Reached(d)
    PROVE  /\ \E k \in Nat : Weight(B, q) = Cardinality(Images(q)) * k
           /\ Weight(B, q) <= Cardinality(Images(q)) * Paths(q)
<1>1. d \in Nat /\ b \in Nat /\ q \in Partial /\ q \in Placement /\ Level(q) = d /\ ClassOf(q) = q
    BY Cells DEF Reached, Partial
<1>2. PICK v, u : Kept(Images(q), v, u, b, d)
    BY <1>1, KeptExist
<1>3. Worth(v, B) = StartWorth(u)
  <2>1. Linked(u, v, b, d)
    BY <1>2, KeptLinked
  <2> QED
    BY <2>1 DEF Faithful
<1>4. Worth(v, B) = Weight(B, q)
  <2>1. v \in Values /\ Spreads(v, Ways, Mark(Images(q)), d)
    BY <1>2 DEF Kept, Spreads
  <2>2. ASSUME NEW z \in Placement, Level(z) >= d PROVE v[z] = IF z \in Images(q) THEN 1 ELSE 0
    <3>1. ~ (Level(z) < d)
        BY <1>1, <2>2, Levels
    <3>2. v[z] = Mark(Images(q))[z]
        BY <2>1, <3>1, SpreadEnd
    <3> QED
        BY <3>2 DEF Mark
  <2>3. B \in Tables /\ DOMAIN B \subseteq Reached(d)
    BY DEF Faithful
  <2> QED
    BY <1>1, <2>1, <2>2, <2>3, ClassWorth
<1>5. PICK k \in Nat : StartWorth(u) = Cardinality(Images(q)) * k
    BY <1>1, <1>2, KeptShare
<1>6. StartWorth(u) <= Cardinality(Images(q)) * Paths(q)
    BY <1>1, <1>2, KeptBelow
<1> QED
    BY <1>3, <1>4, <1>5, <1>6

LEMMA Multiples == \A n \in {1, 2, 4, 8} : \A x \in Nat : (n * x) % n = 0
<1>1. \A x \in Nat : (1 * x) % 1 = 0
    OBVIOUS
<1>2. \A x \in Nat : (2 * x) % 2 = 0
    OBVIOUS
<1>3. \A x \in Nat : (4 * x) % 4 = 0
    OBVIOUS
<1>4. \A x \in Nat : (8 * x) % 8 = 0
    OBVIOUS
<1> QED
    BY <1>1, <1>2, <1>3, <1>4

LEMMA InvWholeOrbits == PipelineInv => WholeOrbits
<1> SUFFICES ASSUME PipelineInv, phase = "counting", tasks # EmptyBag
             PROVE  LET class == CanonicalClass(Task[1], Task[2])
                        exact == class.orbitSize * Paths(Task)
                    IN  /\ Task = <<class.K, class.rep>>
                        /\ tasks[Task] % class.orbitSize = 0
                        /\ tasks[Task] <= exact
                        /\ CountPathsWithCacheReversal(Task) > 0 => tasks[Task] = exact
    BY DEF WholeOrbits
<1>1. PICK q, d, b, c : q = Task /\ d = precomputeDepth /\ b = base /\ c = CanonicalClass(q[1], q[2])
    OBVIOUS
<1>2. d \in 1 .. totalCells /\ b \in 1 .. d /\ Counting /\ q \in DOMAIN tasks
    BY <1>1, Taken, BaseIs DEF PipelineInv
<1>3. Faithful(table, b, d) /\ q \in Reached(d) /\ q \in DOMAIN table /\ tasks[q] = table[q]
    BY <1>1, <1>2 DEF Counting
<1>4. q \in Partial /\ q \in Placement /\ Level(q) = d /\ Paths(q) > 0 /\ ClassOf(q) = q
    BY <1>3 DEF Reached, Partial
<1>5. c.orbitSize \in {1, 2, 4, 8} /\ c.orbitSize = Cardinality(Images(q)) /\ q = <<c.K, c.rep>>
  <2>1. c.orbitSize \in {1, 2, 4, 8} /\ c.orbitSize = Cardinality(Images(q))
    BY <1>1, <1>4, OrbitEight
  <2> QED
    BY <1>1, <1>4, <2>1 DEF ClassOf
<1>6. tasks[q] = Weight(table, q)
    BY <1>3 DEF Weight
<1>7. PICK k \in Nat : tasks[q] = c.orbitSize * k
    BY <1>2, <1>3, <1>5, <1>6, WholeWeight
<1>8. tasks[q] % c.orbitSize = 0
    BY <1>5, <1>7, Multiples
<1>9. tasks[q] <= c.orbitSize * Paths(q)
    BY <1>2, <1>3, <1>5, <1>6, WholeWeight
<1>10. CountPathsWithCacheReversal(q) > 0 => tasks[q] = c.orbitSize * Paths(q)
  <2>1. CountPathsWithCacheReversal(q) = Ext(q)
    BY <1>1, <1>2, <1>3, <1>4, CountsRight
  <2> QED
    BY <1>2, <1>3, <1>4, <1>5, <1>6, <2>1, Complete
<1> QED
    BY <1>1, <1>5, <1>8, <1>9, <1>10

(* The table holds whole orbits: the weight of a class divides by the size *)
(* of its orbit, no path is counted in it twice, and where a tour passes   *)
(* through the class none is missing (CanonicalClass, dfsTask,             *)
(* completions).                                                           *)
THEOREM OrbitsAreWhole == Spec => []WholeOrbits
  BY InvWholeOrbits, PipelineKeeps, PTL
=============================================================================
