---------------------------- MODULE MCCacheShard ----------------------------
(* CacheShard with its history of live blocks; masks are model values. *)
EXTENDS SlabPeak, TLC

CONSTANTS m1, m2, m3

MCSymmetry == Permutations(Mask)

(* Class tags are only ever compared for equality within one mask, so it   *)
(* is enough to see each mask's classes in ascending order.                *)
MCClassesAscend ==
    \A K \in DOMAIN data :
        LET rec == yieldRecord(K) IN \A i \in DOMAIN rec : rec[i].rep = i - 1

(* One slot at a time has been added to: sums and layout are independent.  *)
MCOneSum ==
    Cardinality(UNION {{<<K, i>> : i \in {j \in DOMAIN yieldRecord(K) : yieldRecord(K)[j].w > 1}} : K \in DOMAIN data}) <= 1

(* Bound: classes of all masks together; five of one mask, three of another *)
(* and two of a third pass blocks of every capacity on to each other.      *)
MCClasses == FoldSet(LAMBDA K, n : n + Len(yieldRecord(K)), 0, DOMAIN data) <= 10
=============================================================================
