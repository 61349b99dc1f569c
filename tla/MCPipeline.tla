----------------------------- MODULE MCPipeline -----------------------------
(* Pipeline started from the command line with no depth given and with     *)
(* every depth that is or may just not be allowed, and called directly as  *)
(* the tests do, also with depths that the command line rejects.           *)
EXTENDS Pipeline

MCCommandLines ==
    {[n \in {} |-> 0]} \cup {[n \in {"precompute-depth"} |-> d] : d \in -1 .. totalCells + 1}
=============================================================================
