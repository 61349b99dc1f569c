------------------------------ MODULE Histogram ------------------------------
(***************************************************************************)
(* What the cache promises to the counting pipeline, layout left out: per  *)
(* canonical mask a histogram of end classes in order of first             *)
(* contribution, to which writers add.  CacheShard implements it.          *)
(***************************************************************************)
EXTENDS Naturals, Sequences

CONSTANTS Mask, Rep, Weight

VARIABLE hist   \* [Mask -> Seq([rep : Rep, w : Nat])], <<>> for an absent mask

TypeOK ==
    /\ DOMAIN hist = Mask
    /\ \A K \in Mask : \A i \in DOMAIN hist[K] :
          hist[K][i].rep \in Rep /\ hist[K][i].w \in Nat \ {0}

Init == hist = [K \in Mask |-> <<>>]

(* data[K][rep] += w, a class seen for the first time going last.          *)
Added(classes, rep, w) ==
    IF \E i \in DOMAIN classes : classes[i].rep = rep
    THEN [i \in DOMAIN classes |->
            IF classes[i].rep = rep THEN [classes[i] EXCEPT !.w = @ + w] ELSE classes[i]]
    ELSE Append(classes, [rep |-> rep, w |-> w])

Contribute(K) ==
    /\ hist' = [hist EXCEPT ![K] = hist'[K]]    \* no other mask's histogram moves
    /\ \E rep \in Rep, w \in Weight \ {0} : hist'[K] = Added(hist[K], rep, w)

Next == \E K \in Mask : Contribute(K)

Spec == Init /\ [][Next]_hist
=============================================================================
