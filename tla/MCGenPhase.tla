----------------------------- MODULE MCGenPhase -----------------------------
(* A small generation phase: three tasks that emit into three classes of   *)
(* two shards, so that workers meet in one slot, in one shard with         *)
(* different slots, and in different shards.                               *)
EXTENDS GenPhase

MCClass == {"a", "b", "c"}
MCShardOf == [c \in MCClass |-> IF c = "c" THEN 2 ELSE 1]
MCLeaves == [i \in 0 .. (N - 1) |->
               CASE i = 0 -> <<"a", "c">>
                 [] i = 1 -> <<"b", "c", "a">>
                 [] OTHER -> <<"a">>]
=============================================================================
