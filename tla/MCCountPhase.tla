---------------------------- MODULE MCCountPhase ----------------------------
(* A small sealed table: an empty shard between two others, records of one *)
(* and two classes, so that records and batches do not line up.            *)
EXTENDS CountPhase

MCTable == <<{"m1", "m2"}, {}, {"m3", "m4"}>>
MCClasses == [m \in {"m1", "m2", "m3", "m4"} |-> IF m \in {"m1"} THEN 2 ELSE 1]
=============================================================================
