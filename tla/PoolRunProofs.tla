---------------------------- MODULE PoolRunProofs ----------------------------
(***************************************************************************)
(* Proofs about workerpool.Run for every crew size and worklist length.    *)
(***************************************************************************)
EXTENDS PoolRun, FiniteSetTheorems, TLAPS

(* The inductive invariant: the checked invariants, the fact that Run      *)
(* returns only after the whole crew, and the two counting facts from      *)
(* which the cursor bounds follow.                                         *)
ReturnedAfterCrew == returned => \A w \in Crew : pc[w] = "gone"

Inv ==
    /\ TypeOK
    /\ HandedOncePrefix
    /\ ClaimedIsOwned
    /\ LeavesForAReason
    /\ ReturnedAfterCrew

LEMMA CrewFacts ==
    /\ CrewSize \in Nat
    /\ Crew \subseteq Nat
    /\ Crew = {} <=> N <= 0
BY PoolAssumption DEF Crew, CrewSize

(* The types of the state are kept by every step.                          *)
LEMMA TypeStep == TypeOK /\ [Next]_vars => TypeOK'
<1> SUFFICES ASSUME TypeOK, [Next]_vars PROVE TypeOK'
  OBVIOUS
<1> USE DEF TypeOK, GoTo
<1>1. CASE Cancel
  BY <1>1 DEF Cancel
<1>2. CASE Join
  BY <1>2 DEF Join
<1>3. ASSUME NEW w \in Crew, Step(w) PROVE TypeOK'
  <2> NoIndex \notin Index
    BY PoolAssumption DEF NoIndex, Index
  <2>1. CASE Check(w)
    BY <2>1 DEF Check
  <2>2. CASE Claim(w)
    <3>1. cursor' = cursor + 1 /\ cursor' \in Nat
      BY <2>2 DEF Claim, Claimable
    <3>2. CASE PastEnd(cursor)
      BY <2>2, <3>1, <3>2 DEF Claim, Claimable
    <3>3. CASE ~PastEnd(cursor)
      <4>1. cursor \in Index
        BY <3>3, PoolAssumption DEF PastEnd, Index
      <4> QED
        BY <2>2, <3>1, <3>3, <4>1 DEF Claim, Claimable
    <3> QED
      BY <3>2, <3>3
  <2>3. CASE Finish(w)
    BY <2>3 DEF Finish
  <2>4. CASE Break(w)
    BY <2>4 DEF Break
  <2>5. CASE Leave(w)
    BY <2>5 DEF Leave
  <2> QED
    BY <1>3, <2>1, <2>2, <2>3, <2>4, <2>5 DEF Step
<1>4. CASE UNCHANGED vars
  BY <1>4 DEF vars
<1> QED
  BY <1>1, <1>2, <1>3, <1>4 DEF Next

(* Each claim hands out the next index and no other.                       *)
LEMMA PrefixStep == TypeOK /\ HandedOncePrefix /\ [Next]_vars => HandedOncePrefix'
<1> SUFFICES ASSUME TypeOK, HandedOncePrefix, [Next]_vars PROVE HandedOncePrefix'
  OBVIOUS
<1> USE DEF TypeOK, HandedOncePrefix
<1>1. ASSUME NEW w \in Crew, Claim(w) PROVE HandedOncePrefix'
  <2>1. cursor' = cursor + 1
    BY <1>1 DEF Claim, Claimable
  <2>2. CASE PastEnd(cursor)
    <3>1. yields' = yields
      BY <1>1, <2>2 DEF Claim, Claimable
    <3>2. \A i \in Index : i < cursor
      BY <2>2, PoolAssumption DEF PastEnd, Index
    <3> QED
      BY <2>1, <3>1, <3>2, PoolAssumption DEF Index
  <2>3. CASE ~PastEnd(cursor)
    <3>1. yields' = [yields EXCEPT ![cursor] = @ + 1]
      BY <1>1, <2>3 DEF Claim, Claimable
    <3> QED
      BY <2>1, <3>1, PoolAssumption DEF Index
  <2> QED
    BY <2>2, <2>3
<1>2. CASE UNCHANGED <<cursor, yields>>
  BY <1>2
<1> QED
  BY <1>1, <1>2 DEF Next, Step, Cancel, Join, Check, Finish, Break, Leave, vars

(* A claim gives a fresh index to one worker; finishing or breaking off    *)
(* moves the index from the worker's hands to the finished ones.           *)
LEMMA OwnedStep == TypeOK /\ ClaimedIsOwned /\ [Next]_vars => ClaimedIsOwned'
<1> SUFFICES ASSUME TypeOK, ClaimedIsOwned, [Next]_vars PROVE ClaimedIsOwned'
  OBVIOUS
<1> USE DEF TypeOK, ClaimedIsOwned, Working, GoTo
<1>1. ASSUME NEW w \in Crew, Claim(w) PROVE ClaimedIsOwned'
  <2>1. cursor' = cursor + 1 /\ UNCHANGED done /\ pc[w] = "claim"
    BY <1>1 DEF Claim, Claimable
  <2>2. CASE PastEnd(cursor)
    <3>1. pc' = [pc EXCEPT ![w] = "leave"] /\ UNCHANGED held
      BY <1>1, <2>2 DEF Claim, Claimable
    <3>2. \A i \in Index : i < cursor /\ i < cursor'
      BY <2>1, <2>2, PoolAssumption DEF PastEnd, Index
    <3>3. \A v \in Crew : pc'[v] = "body" <=> pc[v] = "body"
      BY <2>1, <3>1
    <3> QED
      BY <2>1, <3>1, <3>2, <3>3
  <2>3. CASE ~PastEnd(cursor)
    <3>1. /\ pc' = [pc EXCEPT ![w] = "body"]
          /\ held' = [held EXCEPT ![w] = cursor]
      BY <1>1, <2>3 DEF Claim, Claimable
    <3>2. cursor \in Index \ done
      BY <2>3, PoolAssumption DEF PastEnd, Index
    <3>3. \A v \in Crew : pc[v] = "body" => held[v] # cursor
      BY <3>2
    <3>4. \A v \in Crew \ {w} : pc'[v] = pc[v] /\ held'[v] = held[v]
      BY <3>1
    <3>5. pc'[w] = "body" /\ held'[w] = cursor
      BY <3>1
    <3>6. ASSUME NEW i \in Index PROVE i < cursor' <=> (i \in done' \/ Working(i)')
      <4>1. CASE i = cursor
        BY <4>1, <2>1, <3>5
      <4>2. CASE i # cursor
        <5>1. i < cursor' <=> i < cursor
          BY <4>2, <2>1, PoolAssumption DEF Index
        <5>2. Working(i)' <=> Working(i)
          BY <4>2, <2>1, <3>4, <3>5
        <5> QED
          BY <5>1, <5>2, <2>1
      <4> QED
        BY <4>1, <4>2
    <3> HIDE DEF Working
    <3>7. ASSUME NEW v \in Crew, pc'[v] = "body"
          PROVE  /\ held'[v] \in Index \ done'
                 /\ \A u \in Crew \ {v} : pc'[u] = "body" => held'[u] # held'[v]
      BY <3>7, <2>1, <3>2, <3>3, <3>4, <3>5
    <3> QED
      BY <3>6, <3>7
  <2> QED
    BY <2>2, <2>3
<1>2. ASSUME NEW w \in Crew, Finish(w) \/ Break(w) PROVE ClaimedIsOwned'
  <2>1. /\ cursor' = cursor /\ pc[w] = "body"
        /\ done' = done \cup {held[w]}
        /\ pc'[w] # "body"
        /\ \A v \in Crew \ {w} : pc'[v] = pc[v] /\ held'[v] = held[v]
    BY <1>2 DEF Finish, Break
  <2>2. ASSUME NEW i \in Index PROVE i < cursor' <=> (i \in done' \/ Working(i)')
    <3>1. CASE i = held[w]
      BY <2>1, <3>1
    <3>2. CASE i # held[w]
      BY <2>1, <3>2
    <3> QED
      BY <3>1, <3>2
  <2> HIDE DEF Working
  <2>3. ASSUME NEW v \in Crew, pc'[v] = "body"
        PROVE  /\ held'[v] \in Index \ done'
               /\ \A u \in Crew \ {v} : pc'[u] = "body" => held'[u] # held'[v]
    BY <2>1, <2>3
  <2> QED
    BY <2>2, <2>3
<1>3. ASSUME NEW w \in Crew, Check(w) \/ Leave(w) PROVE ClaimedIsOwned'
  <2>1. /\ UNCHANGED <<cursor, done, held>>
        /\ \A v \in Crew : pc'[v] = "body" <=> pc[v] = "body"
    BY <1>3 DEF Check, Leave
  <2> QED
    BY <2>1
<1>4. CASE UNCHANGED <<cursor, done, held, pc>>
  BY <1>4
<1> QED
  BY <1>1, <1>2, <1>3, <1>4 DEF Next, Step, Cancel, Join, vars

(* A worker leaves after a claim past the end, a break, or ctx's end.      *)
LEMMA LeavesStep == TypeOK /\ LeavesForAReason /\ [Next]_vars => LeavesForAReason'
<1> SUFFICES ASSUME TypeOK, LeavesForAReason, [Next]_vars PROVE LeavesForAReason'
  OBVIOUS
<1> USE DEF TypeOK, LeavesForAReason, GoTo
<1>1. ASSUME NEW w \in Crew, Claim(w) PROVE LeavesForAReason'
  <2>1. cursor' = cursor + 1 /\ UNCHANGED <<cancelled, broke>>
    BY <1>1 DEF Claim, Claimable
  <2>2. CASE PastEnd(cursor)
    <3>1. cursor' > N
      BY <2>1, <2>2, PoolAssumption DEF PastEnd
    <3> QED
      BY <3>1
  <2>3. CASE ~PastEnd(cursor)
    <3>1. pc' = [pc EXCEPT ![w] = "body"]
      BY <1>1, <2>3 DEF Claim, Claimable
    <3> QED
      BY <2>1, <3>1, PoolAssumption
  <2> QED
    BY <2>2, <2>3
<1>2. ASSUME NEW w \in Crew, Check(w) PROVE LeavesForAReason'
  BY <1>2 DEF Check, MayClaim
<1>3. ASSUME NEW w \in Crew, Finish(w) PROVE LeavesForAReason'
  BY <1>3 DEF Finish
<1>4. ASSUME NEW w \in Crew, Break(w) PROVE LeavesForAReason'
  BY <1>4 DEF Break
<1>5. ASSUME NEW w \in Crew, Leave(w) PROVE LeavesForAReason'
  BY <1>5 DEF Leave
<1>6. CASE Cancel \/ Join \/ UNCHANGED vars
  BY <1>6 DEF Cancel, Join, vars
<1> QED
  BY <1>1, <1>2, <1>3, <1>4, <1>5, <1>6 DEF Next, Step

(* Once the whole crew has gone nothing but ctx can change.                *)
LEMMA ReturnedStep == TypeOK /\ ReturnedAfterCrew /\ [Next]_vars => ReturnedAfterCrew'
BY DEF TypeOK, ReturnedAfterCrew, Next, Step, Cancel, Join, CrewGone, Check, Claim,
       Claimable, Finish, Break, Leave, GoTo, vars

LEMMA InvInit == Init => Inv
<1> SUFFICES ASSUME Init PROVE Inv
  OBVIOUS
<1>1. TypeOK
  BY PoolAssumption DEF Init, TypeOK, Index, NoIndex
<1>2. HandedOncePrefix
  BY PoolAssumption DEF Init, HandedOncePrefix, Index
<1>3. ClaimedIsOwned
  BY PoolAssumption DEF Init, ClaimedIsOwned, Working, Index
<1> QED
  BY <1>1, <1>2, <1>3 DEF Init, Inv, LeavesForAReason, ReturnedAfterCrew

LEMMA InvStep == Inv /\ [Next]_vars => Inv'
BY TypeStep, PrefixStep, OwnedStep, LeavesStep, ReturnedStep DEF Inv

LEMMA Invariance == Spec => []Inv
BY InvInit, InvStep, PTL DEF Spec

(* The state of Run always has its types (workerpool.go:38-65).            *)
THEOREM TypeCorrect == Spec => []TypeOK
BY Invariance, PTL DEF Inv

(* No index is handed out twice and none is skipped, for every crew,       *)
(* worklist and interleaving (workerpool.go:36-37).                        *)
THEOREM HandedOnce == Spec => []HandedOncePrefix
BY Invariance, PTL DEF Inv

(* Every claimed index is finished or in exactly one worker's hands.       *)
THEOREM Owned == Spec => []ClaimedIsOwned
BY Invariance, PTL DEF Inv

LEMMA BarrierFromInv == Inv => Barrier
<1> SUFFICES ASSUME Inv, returned PROVE
      /\ \A i \in Index : ~Working(i)
      /\ cancelled \/ broke = Crew \/ done = Index
  BY DEF Barrier
<1> USE DEF Inv
<1>1. \A w \in Crew : pc[w] = "gone"
  BY DEF ReturnedAfterCrew
<1>2. \A i \in Index : ~Working(i)
  BY <1>1 DEF Working
<1>3. ASSUME ~cancelled, broke # Crew PROVE done = Index
  <2>1. PICK w \in Crew : w \notin broke
    BY <1>3 DEF TypeOK
  <2>2. cursor > N
    BY <1>1, <1>3, <2>1 DEF LeavesForAReason
  <2>3. \A i \in Index : i < cursor
    BY <2>2, PoolAssumption DEF Index, TypeOK
  <2> QED
    BY <1>2, <2>3 DEF ClaimedIsOwned, TypeOK
<1> QED
  BY <1>2, <1>3

(* The Wait barrier: after Run returns no index is being worked on, and    *)
(* all are done unless ctx ended or every body broke off.                  *)
THEOREM BarrierHolds == Spec => []Barrier
BY Invariance, BarrierFromInv, PTL

-----------------------------------------------------------------------------
(* The counting arguments.  After ctx ends a worker claims only on its way *)
(* out of the claim point, to which it cannot come back; past the end of   *)
(* the worklist a claim sends the worker away for good.                    *)
NotClaiming == {w \in Crew : pc[w] # "claim"}
Leaving == {w \in Crew : pc[w] \in {"leave", "gone"}}
Length == IF N <= 0 THEN 0 ELSE N

LateInv == cancelled => cursor <= atCancel + Cardinality(NotClaiming)
OvershootInv == cursor <= Length + Cardinality(Leaving)

LEMMA CrewFinite == IsFiniteSet(Crew) /\ Cardinality(Crew) = CrewSize
BY FS_Interval, CrewFacts DEF Crew

LEMMA SubCrew ==
    ASSUME NEW S \in SUBSET Crew
    PROVE  /\ IsFiniteSet(S)
           /\ Cardinality(S) \in Nat
           /\ Cardinality(S) <= CrewSize
BY CrewFinite, FS_Subset, FS_CardinalityType

LEMMA Joins ==
    ASSUME NEW S \in SUBSET Crew, NEW w \in Crew, w \notin S
    PROVE  Cardinality(S \cup {w}) = Cardinality(S) + 1
BY SubCrew, FS_AddElement

LEMMA LateStep == TypeOK /\ LateInv /\ [Next]_vars => LateInv'
<1> SUFFICES ASSUME TypeOK, LateInv, [Next]_vars, cancelled'
             PROVE  cursor' <= atCancel' + Cardinality(NotClaiming')
  BY DEF LateInv
<1>0. /\ cursor \in Nat /\ atCancel \in Nat
      /\ Cardinality(NotClaiming) \in Nat
  BY SubCrew DEF TypeOK, NotClaiming
<1>1. CASE Cancel
  <2>1. cursor' = cursor /\ atCancel' = cursor /\ NotClaiming' = NotClaiming
    BY <1>1 DEF Cancel, NotClaiming
  <2> QED
    BY <1>0, <2>1
<1>2. ASSUME NEW w \in Crew, Claim(w)
      PROVE  cursor' <= atCancel' + Cardinality(NotClaiming')
  <2>1. cursor' = cursor + 1 /\ UNCHANGED <<cancelled, atCancel>>
    BY <1>2 DEF Claim, Claimable
  <2>2. w \notin NotClaiming /\ NotClaiming' = NotClaiming \cup {w}
    BY <1>2 DEF Claim, Claimable, GoTo, NotClaiming, TypeOK
  <2>3. Cardinality(NotClaiming') = Cardinality(NotClaiming) + 1
    BY <2>2, Joins DEF NotClaiming
  <2> QED
    BY <1>0, <2>1, <2>3 DEF LateInv
<1>3. ASSUME NEW w \in Crew, Check(w) \/ Finish(w) \/ Break(w) \/ Leave(w)
      PROVE  cursor' <= atCancel' + Cardinality(NotClaiming')
  <2>1. UNCHANGED <<cursor, cancelled, atCancel>>
    BY <1>3 DEF Check, Finish, Break, Leave
  <2>2. NotClaiming' = NotClaiming
    BY <1>3, <2>1 DEF Check, MayClaim, Finish, Break, Leave, GoTo, NotClaiming, TypeOK
  <2> QED
    BY <2>1, <2>2 DEF LateInv
<1>4. CASE Join \/ UNCHANGED vars
  <2>1. UNCHANGED <<cursor, cancelled, atCancel, NotClaiming>>
    BY <1>4 DEF Join, vars, NotClaiming
  <2> QED
    BY <2>1 DEF LateInv
<1> QED
  BY <1>1, <1>2, <1>3, <1>4 DEF Next, Step

LEMMA OvershootStep == TypeOK /\ OvershootInv /\ [Next]_vars => OvershootInv'
<1> SUFFICES ASSUME TypeOK, OvershootInv, [Next]_vars PROVE OvershootInv'
  OBVIOUS
<1>0. /\ cursor \in Nat /\ Length \in Nat
      /\ Cardinality(Leaving) \in Nat
      /\ Cardinality(Leaving') \in Nat
  BY SubCrew, PoolAssumption DEF TypeOK, Leaving, Length
<1>1. ASSUME NEW w \in Crew, Claim(w) PROVE OvershootInv'
  <2>1. cursor' = cursor + 1
    BY <1>1 DEF Claim, Claimable
  <2>2. CASE PastEnd(cursor)
    <3>1. w \notin Leaving /\ Leaving' = Leaving \cup {w}
      BY <1>1, <2>2 DEF Claim, Claimable, GoTo, Leaving, TypeOK
    <3>2. Cardinality(Leaving') = Cardinality(Leaving) + 1
      BY <3>1, Joins DEF Leaving
    <3> QED
      BY <1>0, <2>1, <3>2 DEF OvershootInv, Length
  <2>3. CASE ~PastEnd(cursor)
    BY <1>0, <2>1, <2>3, PoolAssumption DEF OvershootInv, Length, PastEnd
  <2> QED
    BY <2>2, <2>3
<1>2. ASSUME NEW w \in Crew, Check(w) \/ Break(w) PROVE OvershootInv'
  <2>1. cursor' = cursor
    BY <1>2 DEF Check, Break
  <2>2. Leaving' = Leaving \/ (w \notin Leaving /\ Leaving' = Leaving \cup {w})
    BY <1>2 DEF Check, Break, GoTo, Leaving, TypeOK
  <2>3. Cardinality(Leaving') >= Cardinality(Leaving)
    <3>1. CASE Leaving' = Leaving
      BY <1>0, <3>1
    <3>2. CASE w \notin Leaving /\ Leaving' = Leaving \cup {w}
      BY <1>0, <3>2, Joins DEF Leaving
    <3> QED
      BY <2>2, <3>1, <3>2
  <2> QED
    BY <1>0, <2>1, <2>3 DEF OvershootInv, Length
<1>3. ASSUME NEW w \in Crew, Finish(w) \/ Leave(w) PROVE OvershootInv'
  <2>1. cursor' = cursor
    BY <1>3 DEF Finish, Leave
  <2>2. Leaving' = Leaving
    BY <1>3 DEF Finish, Leave, GoTo, Leaving, TypeOK
  <2> QED
    BY <2>1, <2>2 DEF OvershootInv, Length
<1>4. CASE Cancel \/ Join \/ UNCHANGED vars
  <2>1. UNCHANGED <<cursor, Leaving>>
    BY <1>4 DEF Cancel, Join, vars, Leaving
  <2> QED
    BY <2>1 DEF OvershootInv, Length
<1> QED
  BY <1>1, <1>2, <1>3, <1>4 DEF Next, Step

LEMMA CountingInit == Init => LateInv /\ OvershootInv
<1> SUFFICES ASSUME Init PROVE LateInv /\ OvershootInv
  OBVIOUS
<1>1. /\ Cardinality(Leaving) \in Nat /\ Cardinality(NotClaiming) \in Nat
      /\ Length \in Nat
  BY SubCrew, PoolAssumption DEF Leaving, NotClaiming, Length
<1> QED
  BY <1>1 DEF Init, LateInv, OvershootInv

LEMMA BoundsFromCounts ==
    TypeOK /\ LateInv /\ OvershootInv => LateClaimsBounded /\ OvershootBounded
<1> SUFFICES ASSUME TypeOK, LateInv, OvershootInv
             PROVE  LateClaimsBounded /\ OvershootBounded
  OBVIOUS
<1>1. /\ Cardinality(NotClaiming) \in Nat /\ Cardinality(NotClaiming) <= CrewSize
      /\ Cardinality(Leaving) \in Nat /\ Cardinality(Leaving) <= CrewSize
  BY SubCrew DEF NotClaiming, Leaving
<1> QED
  BY <1>1, CrewFacts, PoolAssumption
  DEF LateInv, OvershootInv, LateClaimsBounded, OvershootBounded, Length, TypeOK

(* After ctx ends the crew claims at most one index per worker, however    *)
(* late each worker is scheduled (workerpool.go:50-52).                    *)
THEOREM LateClaims == Spec => []LateClaimsBounded
<1>1. TypeOK /\ LateInv /\ OvershootInv /\ [Next]_vars => (TypeOK /\ LateInv /\ OvershootInv)'
  BY TypeStep, LateStep, OvershootStep
<1>2. Init => TypeOK /\ LateInv /\ OvershootInv
  BY InvInit, CountingInit DEF Inv
<1> QED
  BY <1>1, <1>2, BoundsFromCounts, PTL DEF Spec

(* The shared cursor never runs further past the worklist than one claim   *)
(* per worker (workerpool.go:56-59).                                       *)
THEOREM Overshoot == Spec => []OvershootBounded
<1>1. TypeOK /\ LateInv /\ OvershootInv /\ [Next]_vars => (TypeOK /\ LateInv /\ OvershootInv)'
  BY TypeStep, LateStep, OvershootStep
<1>2. Init => TypeOK /\ LateInv /\ OvershootInv
  BY InvInit, CountingInit DEF Inv
<1> QED
  BY <1>1, <1>2, BoundsFromCounts, PTL DEF Spec

-----------------------------------------------------------------------------
(* Refinement: every step of Run is a step of WorkOnce or leaves the       *)
(* caller's view of the worklist alone.                                    *)
Stopped == cancelled \/ CrewBrokeOff

LEMMA RefineClaim ==
    ASSUME Inv, NEW w \in Crew, Claim(w)
    PROVE  Once!Next \/ UNCHANGED Once!vars
<1> USE DEF Inv
<1>1. pc[w] = "claim" /\ pc'[w] # "gone" /\ UNCHANGED <<cancelled, done, broke, returned>>
  BY DEF Claim, Claimable, GoTo, TypeOK
<1>2. UNCHANGED <<returned, Stopped>> /\ ~returned
  BY <1>1 DEF Stopped, CrewBrokeOff, ReturnedAfterCrew
<1>3. CASE PastEnd(cursor)
  <2>1. \A i \in Index : Working(i)' <=> Working(i)
    BY <1>1, <1>3 DEF Claim, Claimable, GoTo, TypeOK, Working
  <2>2. Status' = Status
    BY <1>1, <2>1 DEF Status
  <2> QED
    BY <1>2, <2>2 DEF Once!vars, Stopped
<1>4. CASE ~PastEnd(cursor)
  <2>1. cursor \in Index
    BY <1>4, PoolAssumption DEF PastEnd, Index, TypeOK
  <2>2. cursor \notin done /\ ~Working(cursor)
    BY <2>1, PoolAssumption DEF ClaimedIsOwned, Index
  <2>3. /\ pc' = [pc EXCEPT ![w] = "body"]
        /\ held' = [held EXCEPT ![w] = cursor]
    BY <1>4 DEF Claim, Claimable, GoTo
  <2>4. \A j \in Index : j = cursor => Working(j)'
    BY <2>3 DEF TypeOK, Working
  <2>5. \A i \in Index \ {cursor} : Working(i)' <=> Working(i)
    BY <1>1, <2>3 DEF TypeOK, Working
  <2>6. Status[cursor] = "todo" /\ Status' = [Status EXCEPT ![cursor] = "active"]
    BY <1>1, <2>1, <2>2, <2>4, <2>5 DEF Status
  <2>7. Once!Take(cursor)
    BY <1>2, <2>6 DEF Once!Take, Stopped
  <2> QED
    BY <2>1, <2>7 DEF Once!Next
<1> QED
  BY <1>3, <1>4

LEMMA RefineFinish ==
    ASSUME Inv, NEW w \in Crew, Finish(w) \/ Break(w)
    PROVE  Once!Next \/ UNCHANGED Once!vars
<1> USE DEF Inv
<1> DEFINE i == held[w]
<1>1. /\ pc[w] = "body" /\ pc'[w] # "gone" /\ pc'[w] # "body"
      /\ done' = done \cup {i}
      /\ UNCHANGED <<cancelled, returned>>
      /\ \A v \in Crew \ {w} : pc'[v] = pc[v] /\ held'[v] = held[v]
  BY DEF Finish, Break, GoTo, TypeOK
<1>2. i \in Index \ done
  BY <1>1 DEF ClaimedIsOwned
<1>3. UNCHANGED <<returned, Stopped>>
  BY <1>1 DEF Stopped, CrewBrokeOff
<1>4. \A j \in Index \ {i} : Working(j)' <=> Working(j)
  BY <1>1 DEF Working
<1>5. Status[i] = "active"
  BY <1>1, <1>2 DEF Status, Working
<1>6. Status' = [Status EXCEPT ![i] = "done"]
  BY <1>1, <1>2, <1>4 DEF Status
<1>7. Once!Finish(i)
  BY <1>3, <1>5, <1>6 DEF Once!Finish, Stopped
<1> QED
  BY <1>2, <1>7 DEF Once!Next

LEMMA RefineJoin ==
    ASSUME Inv, Join
    PROVE  Once!Return
<1> USE DEF Inv
<1>1. /\ \A w \in Crew : pc[w] = "gone"
      /\ returned' = TRUE
      /\ UNCHANGED <<Stopped, Status>>
  BY DEF Join, CrewGone, Stopped, CrewBrokeOff, Status, Working
<1>2. \A i \in Index : Status[i] # "active"
  BY <1>1 DEF Status, Working
<1>3. ASSUME ~Stopped PROVE \A i \in Index : Status[i] = "done"
  <2>1. CASE Crew = {}
    BY <2>1, CrewFacts, PoolAssumption DEF Index
  <2>2. CASE Crew # {}
    <3>1. PICK w \in Crew : w \notin broke
      BY <1>1, <1>3, <2>2 DEF Stopped, CrewBrokeOff
    <3>2. cursor > N
      BY <1>1, <1>3, <3>1 DEF LeavesForAReason, Stopped
    <3>3. \A i \in Index : i < cursor /\ ~Working(i)
      BY <1>1, <3>2, PoolAssumption DEF Index, TypeOK, Working
    <3> QED
      BY <3>3 DEF ClaimedIsOwned, Status
  <2> QED
    BY <2>1, <2>2
<1> QED
  BY <1>1, <1>2, <1>3 DEF Once!Return, Stopped

LEMMA RefineStep == Inv /\ [Next]_vars => [Once!Next]_Once!vars
<1> SUFFICES ASSUME Inv, [Next]_vars PROVE Once!Next \/ UNCHANGED Once!vars
  OBVIOUS
<1>1. CASE Cancel
  <2>1. cancelled' = TRUE /\ UNCHANGED <<Status, returned>>
    BY <1>1 DEF Cancel, Status, Working
  <2> QED
    BY <2>1 DEF Once!Next, Once!Stop
<1>2. CASE Join
  BY <1>2, RefineJoin DEF Once!Next
<1>3. ASSUME NEW w \in Crew, Claim(w) PROVE Once!Next \/ UNCHANGED Once!vars
  BY <1>3, RefineClaim
<1>4. ASSUME NEW w \in Crew, Finish(w) \/ Break(w) PROVE Once!Next \/ UNCHANGED Once!vars
  BY <1>4, RefineFinish
<1>5. ASSUME NEW w \in Crew, Check(w) PROVE Once!Next \/ UNCHANGED Once!vars
  <2>1. /\ pc[w] = "check" /\ pc'[w] \in {"claim", "leave"}
        /\ \A v \in Crew \ {w} : pc'[v] = pc[v]
        /\ UNCHANGED <<cancelled, held, done, broke, returned>>
    BY <1>5 DEF Check, GoTo, Inv, TypeOK
  <2>2. UNCHANGED <<Status, Stopped, returned>>
    <3>1. \A i \in Index : Working(i)' <=> Working(i)
      BY <2>1 DEF Working
    <3>2. UNCHANGED CrewBrokeOff
      BY <2>1 DEF CrewBrokeOff
    <3> QED
      BY <2>1, <3>1, <3>2 DEF Status, Stopped
  <2> QED
    BY <2>2 DEF Once!vars, Stopped
<1>6. ASSUME NEW w \in Crew, Leave(w) PROVE Once!Next \/ UNCHANGED Once!vars
  <2>1. /\ pc[w] = "leave" /\ pc'[w] = "gone"
        /\ \A v \in Crew \ {w} : pc'[v] = pc[v]
        /\ UNCHANGED <<cancelled, held, done, broke, returned>>
    BY <1>6 DEF Leave, GoTo, Inv, TypeOK
  <2>2. UNCHANGED <<Status, returned>>
    <3>1. \A i \in Index : Working(i)' <=> Working(i)
      BY <2>1 DEF Working
    <3> QED
      BY <2>1, <3>1 DEF Status
  <2>3. CASE Stopped'
    BY <2>2, <2>3 DEF Once!Next, Once!Stop, Stopped
  <2>4. CASE ~Stopped'
    <3>1. ~Stopped
      BY <2>1, <2>4 DEF Stopped, CrewBrokeOff
    <3> QED
      BY <2>2, <2>4, <3>1 DEF Once!vars, Stopped
  <2> QED
    BY <2>3, <2>4
<1>7. CASE UNCHANGED vars
  BY <1>7 DEF vars, Once!vars, Status, Working, CrewBrokeOff
<1> QED
  BY <1>1, <1>2, <1>3, <1>4, <1>5, <1>6, <1>7 DEF Next, Step

LEMMA RefineInit == Init => Once!Init
<1> SUFFICES ASSUME Init PROVE Once!Init
  OBVIOUS
<1>1. \A i \in Index : ~Working(i)
  BY DEF Init, Working
<1>2. ~CrewBrokeOff
  BY DEF Init, CrewBrokeOff
<1> QED
  BY <1>1, <1>2 DEF Init, Status, Once!Init

(* workerpool.Run implements exactly-once distribution of its worklist     *)
(* with a barrier, for every crew size and every n.                        *)
THEOREM Refinement == Spec => ImplementsWorkOnce
<1>1. Inv /\ [Next]_vars => [Once!Next]_Once!vars
  BY RefineStep
<1> QED
  BY <1>1, RefineInit, Invariance, PTL DEF Spec, ImplementsWorkOnce, Once!Spec
=============================================================================
