----------------------------- MODULE CacheShard -----------------------------
(***************************************************************************)
(* One shard of cache.Cache, word by word: the map mask -> value word, the *)
(* append-only slab that holds the histograms of two and more classes, and *)
(* the baskets of vacated blocks per capacity class.  A Set runs under the *)
(* shard's mutex, so it is one step here; GenPhase models the mutex.       *)
(*                                                                         *)
(* A word is a natural number as in the code: rep * WBase + weight for a   *)
(* packed pair, Tag + k * WBase + idx for a slab reference.                *)
(***************************************************************************)
EXTENDS Integers, Sequences, FiniteSets, SequencesExt

CONSTANTS
    Mask,         \* the canonical masks hashed to this shard, opaque
    Rep,          \* class tags the writers use
    Weight,       \* weights of single contributions, 0 included
    WBase,        \* 2^wBits
    RepLimit,     \* 2^7: the writer contract rep < 128
    MaxLog,       \* log2 of maxClasses
    MaxWeight     \* bound: a class slot stops growing here

ASSUME ShardAssumption ==
    /\ WBase \in Nat \ {0} /\ RepLimit \in Nat \ {0} /\ MaxLog \in Nat \ {0}
    /\ Rep \subseteq 0 .. (RepLimit - 1)
    /\ MaxWeight \in 0 .. (WBase - 1)
    /\ Weight \subseteq 0 .. MaxWeight   \* the writer contract weight < 2^wBits
    /\ IsFiniteSet(Mask)
    /\ Cardinality(Rep) <= 2^MaxLog /\ 2^MaxLog < RepLimit
    /\ Cardinality(Mask) * (2^(MaxLog + 1) - 2) < WBase   \* every block is addressable

VARIABLES
    data,   \* the map: a function on the stored masks
    slab,   \* the words of the slab; slab index i is slab[i + 1]
    free    \* [Capacities -> stack of free block starts]

vars == <<data, slab, free>>
-----------------------------------------------------------------------------
(* The word format. *)
Tag == RepLimit * WBase
IsRef(word) == word >= Tag
pack(rep, weight) == rep * WBase + weight
unpack(p) == [rep |-> p \div WBase, w |-> p % WBase]
makeRef(k, idx) == Tag + k * WBase + idx
RefCount(word) == (word - Tag) \div WBase    \* the k of slabParts
RefStart(word) == (word - Tag) % WBase       \* the idx of slabParts

Capacities == {2^i : i \in 1 .. MaxLog}

(* cap(k) = 2^ceil(log2 k), the power of two that holds k classes. *)
capacityFor(k) == CHOOSE c \in Capacities \cup {1} : k <= c /\ c < 2 * k

Word(K) == IF K \in DOMAIN data THEN data[K] ELSE 0

Slots(s, idx, k) == SubSeq(s, idx + 1, idx + k)

SlotOf(slots, rep) == {i \in DOMAIN slots : unpack(slots[i]).rep = rep}

TypeOK ==
    /\ DOMAIN data \subseteq Mask
    /\ \A K \in DOMAIN data : data[K] \in Nat \ {0}
    /\ slab \in Seq(0 .. (Tag - 1))
    /\ DOMAIN free = Capacities
    /\ \A c \in Capacities : free[c] \in Seq(0 .. Len(slab) - c)

Init ==
    /\ data = << >>
    /\ slab = << >>
    /\ free = [c \in Capacities |-> << >>]
-----------------------------------------------------------------------------
(* allocBlock: the youngest free block of the class, else fresh (zeroed)   *)
(* words at the end of the slab.                                           *)
FreshBlock(c) ==   \* alone, a mutant: never looks into the baskets
    [idx |-> Len(slab), slab |-> slab \o [i \in 1 .. c |-> 0], free |-> free]

allocBlock(c) ==
    IF free[c] # << >>
    THEN [idx |-> Last(free[c]), slab |-> slab, free |-> [free EXCEPT ![c] = Front(@)]]
    ELSE FreshBlock(c)

(* freeBlock, on the baskets that allocBlock left. *)
freeBlockKeep(baskets, idx, c) == baskets   \* mutant: the old block is forgotten
freeBlock(baskets, idx, c) == [baskets EXCEPT ![c] = Append(@, idx)]

WriteSlot(s, i, word) == [s EXCEPT ![i + 1] = word]
Store(K, word) == data' = [L \in DOMAIN data \cup {K} |-> IF L = K THEN word ELSE data[L]]

(* data[K][rep] += weight, in the word or in the slot. *)
SumLost(w, weight) == weight   \* mutant: overwrites instead of adding
Sum(w, weight) == w + weight

(* add: no record yet, open one inline. *)
OpenInline(K, rep, weight) ==
    /\ Word(K) = 0
    /\ Store(K, pack(rep, weight))
    /\ UNCHANGED <<slab, free>>

(* addInline, same class: the sum stays in the word. *)
SumInline(K, rep, weight) ==
    LET old == unpack(Word(K)) IN
    /\ Word(K) # 0 /\ ~IsRef(Word(K)) /\ old.rep = rep
    /\ Store(K, pack(rep, Sum(old.w, weight)))
    /\ UNCHANGED <<slab, free>>

(* addInline, second class: the pair moves into a block of two. *)
Promote(K, rep, weight) ==
    LET b == allocBlock(capacityFor(2)) IN
    /\ Word(K) # 0 /\ ~IsRef(Word(K)) /\ unpack(Word(K)).rep # rep
    /\ slab' = WriteSlot(WriteSlot(b.slab, b.idx, Word(K)), b.idx + 1, pack(rep, weight))
    /\ free' = b.free
    /\ Store(K, makeRef(2, b.idx))

(* addSlab, known class: addInSlots sums in place. *)
SumInSlot(K, rep, weight) ==
    LET k == RefCount(Word(K))
        idx == RefStart(Word(K))
    IN
    /\ IsRef(Word(K))
    /\ \E i \in SlotOf(Slots(slab, idx, k), rep) :
          slab' = WriteSlot(slab, idx + i - 1,
                            pack(rep, Sum(unpack(slab[idx + i]).w, weight)))
    /\ UNCHANGED <<data, free>>

(* addSlab, new class: the capacity reserve, or a bigger block. *)
HasReserve(k) == capacityFor(k + 1) = capacityFor(k)

IsNewClass(K, rep) ==
    /\ IsRef(Word(K))
    /\ SlotOf(Slots(slab, RefStart(Word(K)), RefCount(Word(K))), rep) = {}

ExtendInReserve(K, rep, weight) ==
    LET k == RefCount(Word(K))
        idx == RefStart(Word(K))
    IN
    /\ IsNewClass(K, rep) /\ HasReserve(k)
    /\ slab' = WriteSlot(slab, idx + k, pack(rep, weight))
    /\ Store(K, makeRef(k + 1, idx))
    /\ UNCHANGED free

(* relocate: allocate, copy the live pairs, append, free the old block. *)
OldCap(k) == capacityFor(k)

relocate(K, rep, weight) ==
    LET k == RefCount(Word(K))
        idx == RefStart(Word(K))
        b == allocBlock(capacityFor(k + 1))
    IN
    /\ IsNewClass(K, rep) /\ ~HasReserve(k)
    /\ slab' = [i \in DOMAIN b.slab |->
                  IF i \in b.idx + 1 .. b.idx + k THEN slab[idx + i - b.idx]
                  ELSE IF i = b.idx + k + 1 THEN pack(rep, weight)
                  ELSE b.slab[i]]
    /\ free' = freeBlock(b.free, idx, OldCap(k))
    /\ Store(K, makeRef(k + 1, b.idx))

add(K, rep, weight) ==
    \/ OpenInline(K, rep, weight)
    \/ SumInline(K, rep, weight)
    \/ Promote(K, rep, weight)
    \/ SumInSlot(K, rep, weight)
    \/ ExtendInReserve(K, rep, weight)
    \/ relocate(K, rep, weight)
-----------------------------------------------------------------------------
(* The readers of a sealed table, on the same state. *)

(* yieldRecord: what All streams for one stored mask. *)
yieldRecord(K) ==
    IF ~IsRef(Word(K)) THEN << unpack(Word(K)) >>
    ELSE LET live == Slots(slab, RefStart(Word(K)), RefCount(Word(K)))
         IN  [i \in DOMAIN live |-> unpack(live[i])]

(* View.Get and Value.Weight: the weights a lookup can answer, {} for a miss. *)
WeightFirst(K, rep) ==   \* mutant: only the first live position is compared
    IF ~IsRef(Word(K)) THEN {}
    ELSE LET p == unpack(slab[RefStart(Word(K)) + 1]) IN IF p.rep = rep THEN {p.w} ELSE {}

WeightOf(K, rep) ==
    IF Word(K) = 0 THEN {}
    ELSE IF ~IsRef(Word(K))
    THEN LET p == unpack(Word(K)) IN IF p.rep = rep THEN {p.w} ELSE {}
    ELSE LET live == Slots(slab, RefStart(Word(K)), RefCount(Word(K)))
         IN  {unpack(live[i]).w : i \in SlotOf(live, rep)}

(* View.Len counts masks, not classes. *)
RecordCount == Cardinality(DOMAIN data)
-----------------------------------------------------------------------------
IgnoredNever(weight) == FALSE   \* mutant: zeros are stored
Ignored(weight) == weight = 0

(* Cache.Set, and each contribution of a Staging.Flush. *)
Set(K, rep, weight) ==
    /\ ~Ignored(weight)
    /\ \A w \in WeightOf(K, rep) : w + weight <= MaxWeight
    /\ add(K, rep, weight)

Next == \E K \in Mask, rep \in Rep, weight \in Weight : Set(K, rep, weight)

Spec == Init /\ [][Next]_vars
-----------------------------------------------------------------------------
Refs == {K \in DOMAIN data : IsRef(data[K])}

Block(idx, c) == idx .. (idx + c - 1)

LiveOwners(p) ==
    {K \in Refs : p \in Block(RefStart(data[K]), capacityFor(RefCount(data[K])))}

FreeOwners(p) ==
    {b \in UNION {{c} \X DOMAIN free[c] : c \in Capacities} : p \in Block(free[b[1]][b[2]], b[1])}

(* The live blocks of the masks and the blocks in the baskets tile the     *)
(* slab: every slab position belongs to exactly one of them.  A position   *)
(* in two blocks would let one mask overwrite another's histogram, one in  *)
(* none would be lost memory (cache.go:207-256).                           *)
BlocksTileSlab ==
    /\ \A p \in 0 .. (Len(slab) - 1) :
          Cardinality(LiveOwners(p)) + Cardinality(FreeOwners(p)) = 1
    /\ \A K \in Refs :
          RefStart(data[K]) + capacityFor(RefCount(data[K])) <= Len(slab)

(* The two read paths of a sealed table agree on every class: the lookups  *)
(* of the early-stop memo (Get, then Weight) and the walk that dispatches  *)
(* the count tasks (All), cache.go:284-296 against 440-453.                *)
ReadersAgree ==
    /\ \A K \in DOMAIN data :
          LET rec == yieldRecord(K) IN
          \A rep \in Rep :
              WeightOf(K, rep) = {rec[i].w : i \in {j \in DOMAIN rec : rec[j].rep = rep}}
    /\ RecordCount = Cardinality({K \in Mask : \E rep \in Rep : WeightOf(K, rep) # {}})

(* The shard implements the histogram table: no contribution is lost,      *)
(* doubled or given to another class or mask, whatever the layout does,    *)
(* and classes stream in the order they were first seen (cache.go:413-414).*)
H == INSTANCE Histogram WITH
    hist <- [K \in Mask |-> IF K \in DOMAIN data THEN yieldRecord(K) ELSE << >>]

ImplementsHistogram == H!Spec
=============================================================================
