------------------------------ MODULE SlabPeak ------------------------------
(***************************************************************************)
(* CacheShard with a record of its past: for each capacity, the most       *)
(* blocks that masks have occupied at one time.  peak follows the shard    *)
(* and restricts nothing.                                                  *)
(***************************************************************************)
EXTENDS CacheShard

VARIABLE peak   \* [Capacities -> Nat], history

peakVars == <<data, slab, free, peak>>

(* The masks whose histogram lies in a block of capacity c.                *)
LiveIn(c) == {K \in Refs : capacityFor(RefCount(data[K])) = c}
LiveBlocks(c) == Cardinality(LiveIn(c))

PeakInit == Init /\ peak = [c \in Capacities |-> 0]

Higher(m, n) == IF n > m THEN n ELSE m

PeakNext ==
    /\ Next
    /\ peak' = [c \in Capacities |-> Higher(peak[c], LiveBlocks(c)')]

PeakSpec == PeakInit /\ [][PeakNext]_peakVars
-----------------------------------------------------------------------------
(* The slab never holds more blocks of a capacity, occupied and vacated    *)
(* together, than masks have occupied at one time: a vacated block goes to *)
(* the basket of its own capacity and is used up before the append-only    *)
(* slab grows again, over every order in which masks outgrow their blocks  *)
(* (cache.go:234-256).                                                     *)
BlocksAtPeak ==
    \A c \in Capacities : LiveBlocks(c) + Len(free[c]) <= peak[c]
=============================================================================
