-------------------------- MODULE CountPhaseProofs --------------------------
(* The promises of the counting phase for every sealed table, every number *)
(* of workers and every setting of the batches and of the channel.         *)
EXTENDS CountPhase, FiniteSetTheorems, TLAPS

(* The walk: what is left of a record is of a mask that has left masks,    *)
(* and no class of it is there twice.                                      *)
Walk ==
    /\ IF shard = 0 THEN masks = {} ELSE masks \subseteq Table[shard]
    /\ rest # << >> => shard > 0 /\ \E m \in Table[shard] \ masks : Elements(rest) \subseteq TasksOf(m)
    /\ IsInjective(rest)

(* Where the producer is says what it has left behind.                     *)
Stage ==
    /\ at = "walk" => Len(batch) < effectiveBatch
    /\ at \in {"tail", "registerTail", "sendTail"} /\ ~cancelled => Ahead = {}
    /\ at \in {"close", "wait", "returned"} /\ ~cancelled => Ahead = {} /\ batch = << >>
    /\ closed <=> at \in {"wait", "returned"}
    /\ at = "returned" => AllGone

(* Where a consumer is says what it holds.                                 *)
Crew ==
    \A c \in Consumer :
        /\ pc[c] \in {"recv", "gone"} => mine[c] = << >>
        /\ pc[c] \in {"count", "publish", "complete"} => mine[c] # << >>
        /\ pc[c] = "gone" => closed /\ ch = << >>

(* No sequence holds a task twice, and no two of them hold the same one.   *)
Apart ==
    /\ IsInjective(batch) /\ \A i \in DOMAIN ch : IsInjective(ch[i])
    /\ \A c \in Consumer : IsInjective(mine[c])
    /\ Ahead \cap Collected = {}
    /\ \A i \in DOMAIN ch : (Ahead \cup Collected) \cap Elements(ch[i]) = {}
    /\ \A c \in Consumer : (Ahead \cup Collected) \cap InHand(c) = {}
    /\ \A i \in DOMAIN ch, c \in Consumer : Elements(ch[i]) \cap InHand(c) = {}
    /\ \A i, j \in DOMAIN ch : i # j => Elements(ch[i]) \cap Elements(ch[j]) = {}
    /\ \A c, d \in Consumer : c # d => InHand(c) \cap InHand(d) = {}

(* Only a task that a consumer has begun, or has let go, is in the total,  *)
(* and without a cancellation every task is somewhere.                     *)
Credited == {t \in Task : credit[t] # "none"}

Waiting == Ahead \cup Collected \cup Buffered

Credits ==
    /\ Credited \cap Waiting = {}
    /\ \A c \in Consumer : \A t \in InHand(c) : t \in Credited => Began(c) /\ t = Head(mine[c])
    /\ \A c \in Consumer : Began(c) => Head(mine[c]) \in Credited
    /\ ~cancelled => \A t \in Task :
          /\ credit[t] # "partial"
          /\ t \in Waiting \cup Credited \/ \E c \in Consumer : t \in InHand(c)

Reports ==
    /\ published \subseteq Credited
    /\ \A t \in Credited \ published : \E c \in Consumer : pc[c] = "publish" /\ t = Head(mine[c])
    /\ \A c \in Consumer : pc[c] = "publish" => Head(mine[c]) \notin published
    /\ \A c \in Consumer : pc[c] = "complete" => Head(mine[c]) \in published

(* Completions reported and about to be reported. *)
Completing == {c \in Consumer : pc[c] = "complete"}
CompletedCount == completed + Cardinality(Completing) = Cardinality(published)

(* What has been registered and is not completed, exactly as long as       *)
(* nothing has been skipped.                                               *)
Out == Buffered \cup UNION {InHand(c) : c \in Consumer}
Owed == completed + Cardinality(Out) + (IF at \in {"send", "sendTail"} THEN Len(batch) ELSE 0)
Registers == tasks >= Owed /\ (~cancelled => tasks = Owed)

IInv == TypeOK /\ Walk /\ Stage /\ Crew /\ Apart /\ Credits /\ Reports /\ CompletedCount /\ Registers

-----------------------------------------------------------------------------
(* Sequences and what they hold.                                           *)
LEMMA EmptyHolds == \A s : s = << >> => Elements(s) = {} /\ IsInjective(s)
BY DEF Elements, Range, IsInjective

LEMMA HoldsTyped ==
    ASSUME NEW S, NEW s \in Seq(S)
    PROVE  Elements(s) \subseteq S
BY DEF Elements, Range

LEMMA HeadHolds ==
    ASSUME NEW S, NEW s \in Seq(S), s # << >>
    PROVE  /\ Head(s) \in S /\ Tail(s) \in Seq(S) /\ Len(Tail(s)) = Len(s) - 1 /\ Len(s) \in Nat \ {0}
           /\ Head(s) \in Elements(s)
           /\ Elements(s) = {Head(s)} \cup Elements(Tail(s))
<1>1. Head(s) = s[1] /\ Head(s) \in S /\ Tail(s) \in Seq(S) /\ Len(Tail(s)) = Len(s) - 1 /\ Len(s) \in Nat \ {0}
    OBVIOUS
<1>2. \A i \in 1 .. Len(s) - 1 : Tail(s)[i] = s[i + 1]
    OBVIOUS
<1>3. DOMAIN s = 1 .. Len(s) /\ DOMAIN Tail(s) = 1 .. Len(s) - 1
    BY <1>1
<1>4. Head(s) \in Elements(s)
    BY <1>1, <1>3 DEF Elements, Range
<1>5. Elements(Tail(s)) \subseteq Elements(s)
    BY <1>1, <1>2, <1>3 DEF Elements, Range
<1>6. ASSUME NEW x \in Elements(s), x # Head(s)
      PROVE  x \in Elements(Tail(s))
    <2>1. PICK i \in 1 .. Len(s) : x = s[i]
        BY <1>3 DEF Elements, Range
    <2>2. i - 1 \in 1 .. Len(s) - 1 /\ Tail(s)[i - 1] = s[i]
        BY <1>1, <1>2, <1>6, <2>1
    <2> QED
        BY <1>3, <2>1, <2>2 DEF Elements, Range
<1> QED
    BY <1>1, <1>4, <1>5, <1>6

LEMMA TailOnce ==
    ASSUME NEW S, NEW s \in Seq(S), s # << >>, IsInjective(s)
    PROVE  IsInjective(Tail(s)) /\ Head(s) \notin Elements(Tail(s))
<1>1. Head(s) = s[1] /\ Len(s) \in Nat \ {0}
    OBVIOUS
<1>2. \A i \in 1 .. Len(s) - 1 : Tail(s)[i] = s[i + 1]
    OBVIOUS
<1>3. DOMAIN s = 1 .. Len(s) /\ DOMAIN Tail(s) = 1 .. Len(s) - 1
    BY <1>1
<1>4. ASSUME NEW i \in 1 .. Len(s) - 1, NEW j \in 1 .. Len(s) - 1, Tail(s)[i] = Tail(s)[j]
      PROVE  i = j
    <2>1. s[i + 1] = s[j + 1] /\ i + 1 \in 1 .. Len(s) /\ j + 1 \in 1 .. Len(s)
        BY <1>1, <1>2, <1>4
    <2>2. i + 1 = j + 1
        BY <1>3, <2>1 DEF IsInjective
    <2> QED
        BY <2>2
<1>5. ASSUME NEW i \in 1 .. Len(s) - 1
      PROVE  Tail(s)[i] # Head(s)
    <2>1. i + 1 \in 1 .. Len(s) /\ 1 \in 1 .. Len(s) /\ i + 1 # 1
        BY <1>1
    <2> QED
        BY <1>1, <1>2, <1>3, <2>1 DEF IsInjective
<1> QED
    BY <1>3, <1>4, <1>5 DEF IsInjective, Elements, Range

LEMMA AppendHolds ==
    ASSUME NEW S, NEW s \in Seq(S), NEW x \in S
    PROVE  /\ Append(s, x) \in Seq(S) /\ Len(Append(s, x)) = Len(s) + 1 /\ Len(s) \in Nat
           /\ Elements(Append(s, x)) = Elements(s) \cup {x}
           /\ IsInjective(s) /\ x \notin Elements(s) => IsInjective(Append(s, x))
<1>1. Append(s, x) \in Seq(S) /\ Len(Append(s, x)) = Len(s) + 1 /\ Len(s) \in Nat
    OBVIOUS
<1>2. /\ DOMAIN s = 1 .. Len(s) /\ DOMAIN Append(s, x) = 1 .. Len(s) + 1
      /\ Append(s, x)[Len(s) + 1] = x /\ \A i \in 1 .. Len(s) : Append(s, x)[i] = s[i]
    OBVIOUS
<1>3. \A i \in 1 .. Len(s) + 1 : i \in 1 .. Len(s) \/ i = Len(s) + 1
    BY <1>1
<1>4. Len(s) + 1 \in 1 .. Len(s) + 1 /\ 1 .. Len(s) \subseteq 1 .. Len(s) + 1
    BY <1>1
<1>5. Elements(Append(s, x)) = Elements(s) \cup {x}
    BY <1>2, <1>3, <1>4 DEF Elements, Range
<1>6. ASSUME IsInjective(s), x \notin Elements(s), NEW i \in 1 .. Len(s) + 1, NEW j \in 1 .. Len(s) + 1,
             Append(s, x)[i] = Append(s, x)[j]
      PROVE  i = j
    BY <1>2, <1>3, <1>6 DEF IsInjective, Elements, Range
<1> QED
    BY <1>1, <1>2, <1>5, <1>6 DEF IsInjective

LEMMA HoldsFinite ==
    ASSUME NEW S, NEW s \in Seq(S), IsInjective(s)
    PROVE  IsFiniteSet(Elements(s)) /\ Cardinality(Elements(s)) = Len(s)
<1>1. Len(s) \in Nat /\ DOMAIN s = 1 .. Len(s)
    OBVIOUS
<1>2. s \in Bijection(1 .. Len(s), Elements(s))
    <2>1. s \in [1 .. Len(s) -> Elements(s)]
        BY <1>1 DEF Elements, Range
    <2>2. \A x, y \in 1 .. Len(s) : s[x] = s[y] => x = y
        BY <1>1 DEF IsInjective
    <2>3. \A t \in Elements(s) : \E x \in 1 .. Len(s) : s[x] = t
        BY <1>1 DEF Elements, Range
    <2> QED
        BY <2>1, <2>2, <2>3 DEF Bijection, Injection, Surjection, IsInjective
<1>3. IsFiniteSet(1 .. Len(s)) /\ Cardinality(1 .. Len(s)) = Len(s)
    BY <1>1, FS_Interval
<1>4. ExistsBijection(1 .. Len(s), Elements(s))
    BY <1>2 DEF ExistsBijection
<1> QED
    BY <1>3, <1>4, FS_Bijection

-----------------------------------------------------------------------------
(* The sizes of the crew, the batches and the channel.                     *)
LEMMA Sizes ==
    /\ records \in Nat
    /\ consumers \in Nat \ {0}
    /\ effectiveBatch \in Nat \ {0} /\ effectiveBatch <= ClaimB
    /\ Slots \in Nat \ {0}
<1>1. records \in Nat
    BY CountAssumption, FS_CardinalityType DEF records
<1>2. consumers \in Nat \ {0}
    BY <1>1, CountAssumption DEF consumers, Larger, Smaller
<1>3. effectiveBatch \in Nat \ {0} /\ effectiveBatch <= ClaimB
    <2>1. consumers * GranC \in Nat
        BY <1>2, CountAssumption
    <2>2. Larger(consumers * GranC, 1) \in Nat \ {0}
        BY <2>1 DEF Larger
    <2>3. records \div Larger(consumers * GranC, 1) \in Int
        BY <1>1, <2>2
    <2>4. Larger(1, records \div Larger(consumers * GranC, 1)) \in Nat \ {0}
        BY <2>3 DEF Larger
    <2> QED
        BY <2>4, CountAssumption DEF effectiveBatch, Smaller
<1>4. Slots \in Nat \ {0}
    <2>1. consumers * CapK \in Nat
        BY <1>2, CountAssumption
    <2>2. capacity \in Nat
        BY <1>1, <2>1 DEF capacity, Larger, Smaller
    <2>3. (capacity + effectiveBatch - 1) \div effectiveBatch \in Int
        BY <1>3, <2>2
    <2> QED
        BY <2>3 DEF Slots, Larger
<1> QED
    BY <1>1, <1>2, <1>3, <1>4

LEMMA TableFacts ==
    /\ Len(Table) \in Nat /\ DOMAIN Table = 1 .. Len(Table)
    /\ \A i \in 1 .. Len(Table) : Table[i] \subseteq Masks
    /\ \A i, j \in 1 .. Len(Table) : i # j => Table[i] \cap Table[j] = {}
    /\ \A m \in Masks : \E i \in 1 .. Len(Table) : m \in Table[i]
<1>1. Table \in Seq(SUBSET Masks)
    BY CountAssumption
<1>2. Len(Table) \in Nat /\ DOMAIN Table = 1 .. Len(Table)
    BY <1>1
<1> QED
    BY <1>2, CountAssumption DEF Masks, Range

LEMMA TasksFacts ==
    /\ \A m \in Masks : TasksOf(m) \subseteq Task
    /\ \A m, k \in Masks : m # k => TasksOf(m) \cap TasksOf(k) = {}
    /\ \A t \in Task : \E m \in Masks : t \in TasksOf(m)
BY DEF Task, TasksOf

LEMMA TaskFinite == IsFiniteSet(Task)
<1> DEFINE f == [m \in Masks |-> TasksOf(m)]
           T == {TasksOf(m) : m \in Masks}
<1>1. f \in Surjection(Masks, T)
    BY DEF Surjection
<1>2. IsFiniteSet(T)
    BY <1>1, FS_Surjection, CountAssumption
<1>3. ASSUME NEW m \in Masks
      PROVE  IsFiniteSet(TasksOf(m))
    <2>1. 1 \in Int /\ Classes[m] \in Int
        BY CountAssumption
    <2>2. IsFiniteSet(1 .. Classes[m])
        BY <2>1, FS_Interval
    <2>3. IsFiniteSet({m})
        BY FS_Singleton
    <2> QED
        BY <2>2, <2>3, FS_Product DEF TasksOf
<1> QED
    BY <1>2, <1>3, FS_UNION DEF Task

(* The classes of one record in storage order.                             *)
LEMMA RecordRest ==
    ASSUME NEW m \in Masks, NEW r, r = [i \in 1 .. Classes[m] |-> <<m, i>>]
    PROVE  r \in Seq(Task) /\ Elements(r) = TasksOf(m) /\ IsInjective(r)
<1>1. Classes[m] \in Nat /\ DOMAIN r = 1 .. Classes[m]
    BY CountAssumption
<1>2. Elements(r) = TasksOf(m)
    BY <1>1 DEF Elements, Range, TasksOf
<1>3. \A i \in 1 .. Classes[m] : r[i] \in Task
    <2>1. \A i \in 1 .. Classes[m] : r[i] \in Elements(r)
        BY <1>1 DEF Elements, Range
    <2>2. Elements(r) \subseteq Task
        BY <1>2, TasksFacts
    <2> QED
        BY <2>1, <2>2
<1>4. r \in Seq(Task)
    <2>1. \A i \in 1 .. Classes[m] : <<m, i>> \in Task
        BY <1>3
    <2> QED
        BY <1>1, <2>1
<1>5. IsInjective(r)
    BY <1>1 DEF IsInjective
<1> QED
    BY <1>2, <1>4, <1>5

-----------------------------------------------------------------------------
LEMMA TypeInit == Init => TypeOK
<1> SUFFICES ASSUME Init
             PROVE  TypeOK
    OBVIOUS
<1>1. /\ shard \in 0 .. Len(Table) /\ masks \subseteq Masks /\ rest \in Seq(Task)
      /\ batch \in Seq(Task) /\ Len(batch) <= effectiveBatch /\ effectiveBatch <= ClaimB
      /\ ch \in Seq(Seq(Task)) /\ Len(ch) <= Slots
    BY Sizes, TableFacts DEF Init
<1>2. cancelled \in BOOLEAN /\ closed \in BOOLEAN
    BY Zenon DEF Init
<1> QED
    BY <1>1, <1>2 DEF Init, TypeOK

LEMMA TypeNext == TypeOK /\ Walk /\ Stage /\ Crew /\ [Next]_vars => TypeOK'
<1> SUFFICES ASSUME TypeOK, Walk, Stage, Crew, [Next]_vars
             PROVE  TypeOK'
    OBVIOUS
<1> USE DEF TypeOK, prodVars, walkVars, consVars, GoTo
<1>1. CASE Cancel
    BY <1>1 DEF Cancel
<1>2. CASE NextShard
    BY <1>2, TableFacts DEF NextShard
<1>3. CASE EndWalk
    BY <1>3 DEF EndWalk
<1>4. CASE NextRecord
    <2>1. PICK m \in masks : masks' = masks \ {m} /\ rest' = [i \in 1 .. Classes[m] |-> <<m, i>>]
        BY <1>4 DEF NextRecord
    <2>2. rest' \in Seq(Task)
        BY <2>1, RecordRest
    <2> QED
        BY <1>4, <2>1, <2>2 DEF NextRecord
<1>5. CASE Yield
    <2>1. Head(rest) \in Task /\ Tail(rest) \in Seq(Task)
        BY <1>5, HeadHolds DEF Yield
    <2>2. batch' \in Seq(Task) /\ Len(batch') = Len(batch) + 1 /\ Len(batch) \in Nat
        BY <1>5, <2>1, AppendHolds DEF Yield
    <2>3. Len(batch') <= effectiveBatch
        BY <1>5, <2>2, Sizes DEF Yield, Stage
    <2>4. at' \in {"walk", "register"}
        BY <1>5 DEF Yield
    <2> QED
        BY <1>5, <2>1, <2>2, <2>3, <2>4 DEF Yield
<1>6. CASE Register
    <2>1. Len(batch) \in Nat
        OBVIOUS
    <2> QED
        BY <1>6, <2>1 DEF Register, Registered
<1>7. CASE Send
    <2>1. ch' \in Seq(Seq(Task)) /\ Len(ch') <= Slots
        BY <1>7, AppendHolds, Sizes DEF Send, FreeSlot
    <2>2. batch' \in Seq(Task) /\ Len(batch') <= effectiveBatch
        BY <1>7, Sizes DEF Send, AfterSend
    <2> QED
        BY <1>7, <2>1, <2>2 DEF Send
<1>8. CASE AbandonSend \/ Tail_ \/ Wait
    BY <1>8 DEF AbandonSend, Tail_, Wait
<1>9. CASE Close
    BY <1>9 DEF Close, Closes
<1>10. ASSUME NEW c \in Consumer, Receive(c)
       PROVE  TypeOK'
    <2>1. Head(ch) \in Seq(Task) /\ Tail(ch) \in Seq(Seq(Task)) /\ Len(Tail(ch)) <= Slots
        BY <1>10, HeadHolds, Sizes DEF Receive
    <2> QED
        BY <1>10, <2>1 DEF Receive
<1>11. ASSUME NEW c \in Consumer, LeaveRange(c) \/ BeginTask(c) \/ NextBatch(c)
       PROVE  TypeOK'
    BY <1>11 DEF LeaveRange, BeginTask, NextBatch
<1>12. ASSUME NEW c \in Consumer, SkipTask(c)
       PROVE  TypeOK'
    BY <1>12, HeadHolds DEF SkipTask
<1>13. ASSUME NEW c \in Consumer, FoldTask(c)
       PROVE  TypeOK'
    BY <1>13 DEF FoldTask
<1>14. ASSUME NEW c \in Consumer, Publish(c)
       PROVE  TypeOK'
    <2>1. Head(mine[c]) \in Task
        BY <1>14, HeadHolds DEF Publish, Crew
    <2> QED
        BY <1>14, <2>1 DEF Publish
<1>15. ASSUME NEW c \in Consumer, Complete(c)
       PROVE  TypeOK'
    <2>1. Tail(mine[c]) \in Seq(Task)
        BY <1>15, HeadHolds DEF Complete, Crew
    <2> QED
        BY <1>15, <2>1 DEF Complete
<1>16. CASE UNCHANGED vars
    BY <1>16 DEF vars
<1> QED
    BY <1>1, <1>2, <1>3, <1>4, <1>5, <1>6, <1>7, <1>8, <1>9, <1>10, <1>11, <1>12, <1>13, <1>14, <1>15, <1>16
    DEF Next, Producer, Consume

-----------------------------------------------------------------------------
(* The walk: what is ahead of it loses exactly what Yield hands over.      *)
LEMMA WalkKeeps ==
    ASSUME UNCHANGED walkVars, Walk
    PROVE  Walk' /\ Ahead' = Ahead
BY DEF walkVars, Walk, Ahead, MasksAhead, ShardsAhead

LEMMA WalkNextShard ==
    ASSUME TypeOK, Walk, NextShard
    PROVE  Walk' /\ Ahead' = Ahead
<1>1. /\ rest = << >> /\ masks = {} /\ shard < Len(Table) /\ shard \in 0 .. Len(Table)
      /\ shard' = shard + 1 /\ masks' = Table[shard + 1] /\ rest' = rest
    BY DEF NextShard, TypeOK
<1>2. shard + 1 .. Len(Table) = {shard + 1} \cup (shard + 2 .. Len(Table)) /\ shard' + 1 = shard + 2
    BY <1>1, TableFacts
<1>3. MasksAhead = {}
    BY <1>1 DEF MasksAhead
<1>4. ShardsAhead = MasksAhead' \cup ShardsAhead'
    <2>1. ASSUME NEW i \in shard + 1 .. Len(Table), NEW m \in Table[i]
          PROVE  TasksOf(m) \subseteq MasksAhead' \cup ShardsAhead'
        <3>1. CASE i = shard + 1
            BY <1>1, <3>1 DEF MasksAhead
        <3>2. CASE i \in shard + 2 .. Len(Table)
            BY <1>1, <1>2, <3>2 DEF ShardsAhead
        <3> QED
            BY <1>2, <3>1, <3>2
    <2>2. ASSUME NEW i \in shard + 2 .. Len(Table), NEW m \in Table[i]
          PROVE  TasksOf(m) \subseteq ShardsAhead
        BY <1>2 DEF ShardsAhead
    <2>3. ASSUME NEW m \in Table[shard + 1]
          PROVE  TasksOf(m) \subseteq ShardsAhead
        BY <1>2 DEF ShardsAhead
    <2>4. MasksAhead' \subseteq ShardsAhead
        BY <1>1, <2>3 DEF MasksAhead
    <2>5. ShardsAhead' \subseteq ShardsAhead
        BY <1>1, <1>2, <2>2 DEF ShardsAhead
    <2>6. ShardsAhead \subseteq MasksAhead' \cup ShardsAhead'
        BY <2>1 DEF ShardsAhead
    <2> QED
        BY <2>4, <2>5, <2>6
<1>5. Ahead' = Ahead
    BY <1>1, <1>3, <1>4 DEF Ahead
<1>6. Walk'
    BY <1>1, EmptyHolds DEF Walk
<1> QED
    BY <1>5, <1>6

LEMMA WalkNextRecord ==
    ASSUME TypeOK, Walk, NextRecord
    PROVE  Walk' /\ Ahead' = Ahead
<1>1. PICK m \in masks : masks' = masks \ {m} /\ rest' = [i \in 1 .. Classes[m] |-> <<m, i>>]
    BY DEF NextRecord
<1>2. rest = << >> /\ shard' = shard /\ masks \subseteq Masks
    BY DEF NextRecord, TypeOK
<1>3. Elements(rest') = TasksOf(m) /\ IsInjective(rest') /\ Elements(rest) = {}
    BY <1>1, <1>2, RecordRest, EmptyHolds
<1>4. Ahead' = Ahead
    <2>1. MasksAhead = MasksAhead' \cup TasksOf(m)
        BY <1>1 DEF MasksAhead
    <2>2. ShardsAhead' = ShardsAhead
        BY <1>2 DEF ShardsAhead
    <2> QED
        BY <1>3, <2>1, <2>2 DEF Ahead
<1>5. shard > 0 /\ masks \subseteq Table[shard]
    BY <1>1 DEF Walk, TypeOK
<1>6. m \in Table[shard] \ masks'
    BY <1>1, <1>5
<1>7. Walk'
    BY <1>1, <1>2, <1>3, <1>5, <1>6 DEF Walk
<1> QED
    BY <1>4, <1>7

LEMMA WalkYield ==
    ASSUME TypeOK, Walk, Yield
    PROVE  Walk' /\ Head(rest) \in Ahead /\ Ahead' = Ahead \ {Head(rest)}
<1>1. rest # << >> /\ rest' = Tail(rest) /\ shard' = shard /\ masks' = masks /\ rest \in Seq(Task)
    BY DEF Yield, TypeOK
<1>2. /\ Elements(rest) = {Head(rest)} \cup Elements(rest')
      /\ Head(rest) \notin Elements(rest') /\ IsInjective(rest')
    BY <1>1, HeadHolds, TailOnce DEF Walk
<1>3. PICK m \in Table[shard] \ masks : Elements(rest) \subseteq TasksOf(m)
    BY <1>1 DEF Walk
<1>4. shard \in 1 .. Len(Table) /\ m \in Masks /\ masks \subseteq Masks
    BY <1>1, <1>3, TableFacts DEF Walk, TypeOK
<1>5. Head(rest) \notin MasksAhead
    BY <1>2, <1>3, <1>4, TasksFacts DEF MasksAhead
<1>6. Head(rest) \notin ShardsAhead
    <2>1. ASSUME NEW i \in shard + 1 .. Len(Table), NEW k \in Table[i]
          PROVE  Head(rest) \notin TasksOf(k)
        <3>1. i \in 1 .. Len(Table) /\ i # shard
            BY <1>4, TableFacts
        <3>2. k \in Masks /\ k # m
            BY <1>3, <1>4, <3>1, TableFacts
        <3> QED
            BY <1>2, <1>3, <1>4, <3>2, TasksFacts
    <2> QED
        BY <2>1 DEF ShardsAhead
<1>7. MasksAhead' = MasksAhead /\ ShardsAhead' = ShardsAhead
    BY <1>1 DEF MasksAhead, ShardsAhead
<1>8. Walk'
    BY <1>1, <1>2, <1>3 DEF Walk
<1> QED
    BY <1>2, <1>5, <1>6, <1>7, <1>8 DEF Ahead

LEMMA WalkNext == TypeOK /\ Walk /\ [Next]_vars => Walk' /\ (~Yield => Ahead' = Ahead)
<1> SUFFICES ASSUME TypeOK, Walk, [Next]_vars
             PROVE  Walk' /\ (~Yield => Ahead' = Ahead)
    OBVIOUS
<1>1. CASE Cancel \/ (\E c \in Consumer : Consume(c)) \/ UNCHANGED vars
    <2>1. UNCHANGED walkVars
        BY <1>1 DEF Cancel, Consume, Receive, LeaveRange, SkipTask, BeginTask, NextBatch, FoldTask, Publish,
            Complete, vars, prodVars
    <2> QED
        BY <2>1, WalkKeeps
<1>2. CASE EndWalk \/ Register \/ Send \/ AbandonSend \/ Tail_ \/ Close \/ Wait
    <2>1. UNCHANGED walkVars
        BY <1>2 DEF EndWalk, Register, Send, AbandonSend, Tail_, Close, Wait
    <2> QED
        BY <2>1, WalkKeeps
<1> QED
    BY <1>1, <1>2, WalkNextShard, WalkNextRecord, WalkYield DEF Next, Producer

-----------------------------------------------------------------------------
(* Producer and consumers keep to their places.                            *)
LEMMA WalkDone ==
    ASSUME TypeOK, rest = << >>, masks = {}, shard = Len(Table)
    PROVE  Ahead = {}
<1>1. shard + 1 .. Len(Table) = {}
    BY TableFacts
<1>2. ShardsAhead = {} /\ MasksAhead = {}
    BY <1>1 DEF ShardsAhead, MasksAhead
<1> QED
    BY <1>2, EmptyHolds DEF Ahead

LEMMA StageNext == TypeOK /\ TypeOK' /\ Walk /\ Stage /\ [Next]_vars => Stage'
<1> SUFFICES ASSUME TypeOK, TypeOK', Walk, Stage, [Next]_vars
             PROVE  Stage'
    OBVIOUS
<1>0. ~Yield => Ahead' = Ahead
    BY WalkNext
<1> USE DEF prodVars, walkVars, consVars
<1>1. CASE Cancel
    <2>1. ~Yield /\ Ahead' = Ahead
        BY <1>0, <1>1 DEF Cancel, Yield
    <2> QED
        BY <1>1, <2>1 DEF Cancel, Stage, AllGone
<1>2. CASE NextShard \/ NextRecord
    BY <1>2 DEF NextShard, NextRecord, Stage
<1>3. CASE EndWalk
    <2>1. Ahead' = Ahead
        BY <1>0, <1>3 DEF EndWalk, Yield
    <2>2. at = "walk" /\ at' = "tail" /\ closed' = closed
          /\ (cancelled' = cancelled) /\ (~cancelled => Ahead = {})
        BY <1>3, WalkDone DEF EndWalk
    <2> QED
        BY <2>1, <2>2 DEF Stage
<1>4. CASE Yield
    <2>1. Len(batch') = Len(batch) + 1
        BY <1>4, HeadHolds, AppendHolds DEF Yield, TypeOK
    <2>2. at = "walk" /\ closed' = closed /\ at' = IF Len(batch) + 1 < effectiveBatch THEN "walk" ELSE "register"
        BY <1>4 DEF Yield, NotYetFull
    <2> QED
        BY <2>1, <2>2 DEF Stage
<1>5. CASE Register
    <2>1. Ahead' = Ahead
        BY <1>0, <1>5 DEF Register, Yield
    <2> QED
        BY <1>5, <2>1 DEF Register, Stage
<1>6. CASE Send
    <2>1. Ahead' = Ahead
        BY <1>0, <1>6 DEF Send, Yield
    <2>2. Len(batch') = 0 /\ batch' = << >>
        BY <1>6 DEF Send, AfterSend
    <2> QED
        BY <1>6, <2>1, <2>2, Sizes DEF Send, Stage
<1>7. CASE AbandonSend
    BY <1>7 DEF AbandonSend, Stage
<1>8. CASE Tail_
    <2>1. Ahead' = Ahead
        BY <1>0, <1>8 DEF Tail_, Yield
    <2> QED
        BY <1>8, <2>1 DEF Tail_, TailIsSent, Stage
<1>9. CASE Close
    <2>1. Ahead' = Ahead
        BY <1>0, <1>9 DEF Close, Yield
    <2> QED
        BY <1>9, <2>1 DEF Close, Closes, Stage
<1>10. CASE Wait
    <2>1. Ahead' = Ahead
        BY <1>0, <1>10 DEF Wait, Yield
    <2> QED
        BY <1>10, <2>1 DEF Wait, AllGone, Stage
<1>11. ASSUME NEW c \in Consumer, Consume(c)
       PROVE  Stage'
    <2>1. UNCHANGED prodVars /\ cancelled' = cancelled /\ closed' = closed
        BY <1>11 DEF Consume, Receive, LeaveRange, SkipTask, BeginTask, NextBatch, FoldTask, Publish, Complete
    <2>2. pc[c] # "gone"
        BY <1>11 DEF Consume, Receive, LeaveRange, SkipTask, BeginTask, NextBatch, FoldTask, Publish, Complete
    <2>3. at # "returned"
        BY <2>2 DEF Stage, AllGone
    <2>4. Ahead' = Ahead
        BY <2>1, WalkKeeps
    <2> QED
        BY <2>1, <2>3, <2>4 DEF Stage
<1>12. CASE UNCHANGED vars
    <2>1. Ahead' = Ahead
        BY <1>12, WalkKeeps DEF vars
    <2> QED
        BY <1>12, <2>1 DEF vars, Stage, AllGone
<1> QED
    BY <1>1, <1>2, <1>3, <1>4, <1>5, <1>6, <1>7, <1>8, <1>9, <1>10, <1>11, <1>12 DEF Next, Producer

LEMMA CrewNext == TypeOK /\ TypeOK' /\ Stage /\ Crew /\ [Next]_vars => Crew'
<1> SUFFICES ASSUME TypeOK, TypeOK', Stage, Crew, [Next]_vars
             PROVE  Crew'
    OBVIOUS
<1> USE DEF prodVars, walkVars, consVars, GoTo
<1>1. CASE Cancel \/ NextShard \/ EndWalk \/ NextRecord \/ Yield \/ Register \/ AbandonSend \/ Tail_ \/ Wait
           \/ UNCHANGED vars
    <2>1. pc' = pc /\ mine' = mine /\ closed' = closed /\ ch' = ch
        BY <1>1 DEF Cancel, NextShard, EndWalk, NextRecord, Yield, Register, AbandonSend, Tail_, Wait, vars
    <2> QED
        BY <2>1 DEF Crew
<1>2. CASE Close
    BY <1>2 DEF Close, Closes, Crew
<1>3. CASE Send
    <2>1. ~closed
        BY <1>3 DEF Send, Stage
    <2> QED
        BY <1>3, <2>1 DEF Send, Crew
<1>4. ASSUME NEW c \in Consumer, Consume(c), NEW d \in Consumer
      PROVE  /\ pc'[d] \in {"recv", "gone"} => mine'[d] = << >>
             /\ pc'[d] \in {"count", "publish", "complete"} => mine'[d] # << >>
             /\ pc'[d] = "gone" => closed' /\ ch' = << >>
    <2>0. closed' = closed
        BY <1>4 DEF Consume, Receive, LeaveRange, SkipTask, BeginTask, NextBatch, FoldTask, Publish, Complete
    <2>1. CASE Receive(c)
        BY <1>4, <2>0, <2>1 DEF Receive, Crew, TypeOK
    <2>2. CASE LeaveRange(c)
        BY <1>4, <2>0, <2>2 DEF LeaveRange, Drained, Crew, TypeOK
    <2>3. CASE SkipTask(c)
        BY <1>4, <2>0, <2>3 DEF SkipTask, Crew, TypeOK
    <2>4. CASE BeginTask(c) \/ NextBatch(c) \/ FoldTask(c) \/ Publish(c)
        BY <1>4, <2>0, <2>4 DEF BeginTask, NextBatch, FoldTask, Publish, Crew, TypeOK
    <2>5. CASE Complete(c)
        BY <1>4, <2>0, <2>5 DEF Complete, Crew, TypeOK
    <2> QED
        BY <1>4, <2>1, <2>2, <2>3, <2>4, <2>5 DEF Consume
<1>5. CASE \E c \in Consumer : Consume(c)
    BY <1>4, <1>5 DEF Crew
<1> QED
    BY <1>1, <1>2, <1>3, <1>5 DEF Next, Producer

-----------------------------------------------------------------------------
(* How the steps move tasks from one sequence to another.                  *)
LEMMA HoldsTask ==
    ASSUME TypeOK
    PROVE  /\ Collected \subseteq Task /\ \A i \in DOMAIN ch : ch[i] \in Seq(Task) /\ Elements(ch[i]) \subseteq Task
           /\ \A c \in Consumer : mine[c] \in Seq(Task) /\ InHand(c) \subseteq Task
<1>1. batch \in Seq(Task) /\ ch \in Seq(Seq(Task)) /\ mine \in [Consumer -> Seq(Task)]
    BY DEF TypeOK
<1>2. (\A i \in DOMAIN ch : ch[i] \in Seq(Task)) /\ \A c \in Consumer : mine[c] \in Seq(Task)
    BY <1>1
<1> QED
    BY <1>1, <1>2, HoldsTyped DEF Collected, InHand

LEMMA YieldMoves ==
    ASSUME TypeOK, Walk, Apart, Yield
    PROVE  /\ Head(rest) \in Ahead /\ Ahead' = Ahead \ {Head(rest)} /\ Head(rest) \in Task
           /\ Collected' = Collected \cup {Head(rest)} /\ IsInjective(batch')
<1>1. Head(rest) \in Ahead /\ Ahead' = Ahead \ {Head(rest)}
    BY WalkYield
<1>2. Head(rest) \notin Elements(batch) /\ IsInjective(batch)
    BY <1>1 DEF Apart, Collected
<1>3. Head(rest) \in Task /\ batch \in Seq(Task) /\ batch' = Append(batch, Head(rest))
    BY HeadHolds DEF Yield, TypeOK
<1> QED
    BY <1>1, <1>2, <1>3, AppendHolds DEF Collected

LEMMA SendMoves ==
    ASSUME TypeOK, Send
    PROVE  /\ batch' = << >> /\ Collected' = {} /\ Len(ch) \in Nat
           /\ DOMAIN ch = 1 .. Len(ch) /\ DOMAIN ch' = 1 .. Len(ch) + 1
           /\ \A i \in 1 .. Len(ch) : ch'[i] = ch[i]
           /\ ch'[Len(ch) + 1] = batch
           /\ Buffered' = Buffered \cup Collected
<1>1. batch' = << >> /\ ch' = Append(ch, batch) /\ ch \in Seq(Seq(Task)) /\ batch \in Seq(Task)
    BY DEF Send, AfterSend, TypeOK
<1>2. /\ Len(ch) \in Nat /\ DOMAIN ch = 1 .. Len(ch) /\ DOMAIN ch' = 1 .. Len(ch) + 1
      /\ \A i \in 1 .. Len(ch) : ch'[i] = ch[i]
      /\ ch'[Len(ch) + 1] = batch
    BY <1>1
<1>3. Collected' = {}
    BY <1>1, EmptyHolds DEF Collected
<1>4. \A i \in 1 .. Len(ch) + 1 : i \in 1 .. Len(ch) \/ i = Len(ch) + 1
    BY <1>2
<1>5. Len(ch) + 1 \in 1 .. Len(ch) + 1 /\ 1 .. Len(ch) \subseteq 1 .. Len(ch) + 1
    BY <1>2
<1>6. Buffered' = Buffered \cup Collected
    <2>1. Buffered' \subseteq Buffered \cup Collected
        BY <1>2, <1>4 DEF Buffered, Collected
    <2>2. Collected \subseteq Buffered'
        BY <1>2, <1>5 DEF Buffered, Collected
    <2>3. Buffered \subseteq Buffered'
        BY <1>2, <1>5 DEF Buffered
    <2> QED
        BY <2>1, <2>2, <2>3
<1> QED
    BY <1>1, <1>2, <1>3, <1>6

LEMMA ReceiveMoves ==
    ASSUME TypeOK, NEW c \in Consumer, Receive(c)
    PROVE  /\ mine' = [mine EXCEPT ![c] = ch[1]] /\ Len(ch) \in Nat \ {0}
           /\ DOMAIN ch = 1 .. Len(ch) /\ DOMAIN ch' = 1 .. Len(ch) - 1
           /\ \A i \in 1 .. Len(ch) - 1 : ch'[i] = ch[i + 1]
           /\ Buffered = Buffered' \cup Elements(ch[1])
<1>1. ch \in Seq(Seq(Task)) /\ ch # << >> /\ ch' = Tail(ch) /\ mine' = [mine EXCEPT ![c] = Head(ch)]
    BY DEF Receive, TypeOK
<1>2. /\ Len(ch) \in Nat \ {0} /\ DOMAIN ch = 1 .. Len(ch) /\ DOMAIN ch' = 1 .. Len(ch) - 1
      /\ \A i \in 1 .. Len(ch) - 1 : ch'[i] = ch[i + 1]
      /\ Head(ch) = ch[1]
    BY <1>1
<1>3. ASSUME NEW i \in 1 .. Len(ch)
      PROVE  Elements(ch[i]) \subseteq Buffered' \cup Elements(ch[1])
    <2>1. CASE i = 1
        BY <2>1
    <2>2. CASE i # 1
        <3>1. i - 1 \in 1 .. Len(ch) - 1 /\ ch'[i - 1] = ch[i]
            BY <1>2, <2>2
        <3> QED
            BY <1>2, <3>1 DEF Buffered
    <2> QED
        BY <2>1, <2>2
<1>4. ASSUME NEW i \in 1 .. Len(ch) - 1
      PROVE  Elements(ch'[i]) \subseteq Buffered
    <2>1. i + 1 \in 1 .. Len(ch) /\ ch'[i] = ch[i + 1]
        BY <1>2
    <2> QED
        BY <1>2, <2>1 DEF Buffered
<1>5. Elements(ch[1]) \subseteq Buffered
    BY <1>2 DEF Buffered
<1>6. Buffered \subseteq Buffered' \cup Elements(ch[1])
    BY <1>2, <1>3 DEF Buffered
<1>7. Buffered' \subseteq Buffered
    BY <1>2, <1>4 DEF Buffered
<1> QED
    BY <1>1, <1>2, <1>5, <1>6, <1>7

(* A consumer lets the head of its batch go, counted or skipped.           *)
LEMMA DropMoves ==
    ASSUME TypeOK, Apart, NEW c \in Consumer, mine[c] # << >>, mine' = [mine EXCEPT ![c] = Tail(@)]
    PROVE  /\ InHand(c)' = InHand(c) \ {Head(mine[c])} /\ Head(mine[c]) \in InHand(c)
           /\ Head(mine[c]) \in Task /\ IsInjective(mine'[c])
           /\ \A d \in Consumer \ {c} : mine'[d] = mine[d]
<1>1. mine[c] \in Seq(Task) /\ mine'[c] = Tail(mine[c]) /\ \A d \in Consumer \ {c} : mine'[d] = mine[d]
    BY DEF TypeOK
<1>2. IsInjective(mine[c])
    BY DEF Apart
<1> QED
    BY <1>1, <1>2, HeadHolds, TailOnce DEF InHand

-----------------------------------------------------------------------------
LEMMA ApartKeeps ==
    ASSUME Apart, Ahead' = Ahead, batch' = batch, ch' = ch, mine' = mine
    PROVE  Apart'
BY DEF Apart, Collected, InHand

LEMMA ApartYield ==
    ASSUME TypeOK, Walk, Apart, Yield
    PROVE  Apart'
<1>1. /\ Head(rest) \in Ahead /\ Ahead' = Ahead \ {Head(rest)}
      /\ Collected' = Collected \cup {Head(rest)} /\ IsInjective(batch')
    BY YieldMoves
<1>2. ch' = ch /\ mine' = mine
    BY DEF Yield, consVars
<1>3. Ahead' \cap Collected' = {} /\ Ahead' \cup Collected' = Ahead \cup Collected
    BY <1>1 DEF Apart
<1> QED
    BY <1>1, <1>2, <1>3 DEF Apart, InHand

LEMMA ApartSend ==
    ASSUME TypeOK, Walk, Apart, Send
    PROVE  Apart'
<1>1. /\ batch' = << >> /\ Collected' = {} /\ Len(ch) \in Nat
      /\ DOMAIN ch = 1 .. Len(ch) /\ DOMAIN ch' = 1 .. Len(ch) + 1
      /\ \A i \in 1 .. Len(ch) : ch'[i] = ch[i]
      /\ ch'[Len(ch) + 1] = batch
    BY SendMoves
<1>2. mine' = mine /\ UNCHANGED walkVars
    BY DEF Send, consVars
<1>3. Ahead' = Ahead
    BY <1>2, WalkKeeps
<1>4. \A i \in 1 .. Len(ch) + 1 : i \in 1 .. Len(ch) \/ i = Len(ch) + 1
    BY <1>1
<1>5. ASSUME NEW i \in 1 .. Len(ch) + 1
      PROVE  /\ IsInjective(ch'[i]) /\ Ahead \cap Elements(ch'[i]) = {}
             /\ \A c \in Consumer : Elements(ch'[i]) \cap InHand(c) = {}
    <2>1. CASE i \in 1 .. Len(ch)
        BY <1>1, <2>1 DEF Apart
    <2>2. CASE i = Len(ch) + 1
        BY <1>1, <2>2 DEF Apart, Collected
    <2> QED
        BY <1>4, <2>1, <2>2
<1>6. ASSUME NEW i \in 1 .. Len(ch) + 1, NEW j \in 1 .. Len(ch) + 1, i # j
      PROVE  Elements(ch'[i]) \cap Elements(ch'[j]) = {}
    <2>1. CASE i \in 1 .. Len(ch) /\ j \in 1 .. Len(ch)
        BY <1>1, <1>6, <2>1 DEF Apart
    <2>2. CASE i \in 1 .. Len(ch) /\ j = Len(ch) + 1
        BY <1>1, <2>2 DEF Apart, Collected
    <2>3. CASE i = Len(ch) + 1 /\ j \in 1 .. Len(ch)
        BY <1>1, <2>3 DEF Apart, Collected
    <2> QED
        BY <1>4, <1>6, <2>1, <2>2, <2>3
<1>7. IsInjective(batch')
    BY <1>1, EmptyHolds
<1>8. \A c \in Consumer : InHand(c)' = InHand(c) /\ IsInjective(mine'[c])
    BY <1>2 DEF InHand, Apart
<1>9. \A c \in Consumer : (Ahead \cup {}) \cap InHand(c) = {}
    BY DEF Apart
<1>10. \A c, d \in Consumer : c # d => InHand(c) \cap InHand(d) = {}
    BY DEF Apart
<1> QED
    BY <1>1, <1>3, <1>5, <1>6, <1>7, <1>8, <1>9, <1>10 DEF Apart

LEMMA ApartReceive ==
    ASSUME TypeOK, Crew, Apart, NEW c \in Consumer, Receive(c)
    PROVE  Apart'
<1>1. /\ mine' = [mine EXCEPT ![c] = ch[1]] /\ Len(ch) \in Nat \ {0}
      /\ DOMAIN ch = 1 .. Len(ch) /\ DOMAIN ch' = 1 .. Len(ch) - 1
      /\ \A i \in 1 .. Len(ch) - 1 : ch'[i] = ch[i + 1]
    BY ReceiveMoves
<1>2. batch' = batch /\ UNCHANGED walkVars
    BY DEF Receive, prodVars
<1>3. Ahead' = Ahead /\ Collected' = Collected
    BY <1>2 DEF Ahead, MasksAhead, ShardsAhead, walkVars, Collected
<1>4. /\ mine'[c] = ch[1] /\ \A d \in Consumer \ {c} : mine'[d] = mine[d]
      /\ 1 \in 1 .. Len(ch) /\ \A i \in 1 .. Len(ch) - 1 : i + 1 \in 1 .. Len(ch) /\ i + 1 # 1
    BY <1>1 DEF TypeOK
<1>5. InHand(c)' = Elements(ch[1]) /\ \A d \in Consumer \ {c} : InHand(d)' = InHand(d)
    BY <1>4 DEF InHand
<1>6. IsInjective(batch') /\ \A i \in 1 .. Len(ch) - 1 : IsInjective(ch'[i])
    BY <1>1, <1>2, <1>4 DEF Apart
<1>7. \A d \in Consumer : IsInjective(mine'[d])
    BY <1>1, <1>4 DEF Apart
<1>8. \A i \in 1 .. Len(ch) - 1 : (Ahead \cup Collected) \cap Elements(ch'[i]) = {}
    BY <1>1, <1>4 DEF Apart
<1>9. \A d \in Consumer : (Ahead \cup Collected) \cap InHand(d)' = {}
    BY <1>1, <1>4, <1>5 DEF Apart
<1>10. ASSUME NEW i \in 1 .. Len(ch) - 1, NEW d \in Consumer
       PROVE  Elements(ch'[i]) \cap InHand(d)' = {}
    <2>1. ch'[i] = ch[i + 1] /\ i + 1 \in DOMAIN ch /\ 1 \in DOMAIN ch /\ i + 1 # 1
        BY <1>1, <1>4
    <2>2. CASE d = c
        BY <1>5, <2>1, <2>2 DEF Apart
    <2>3. CASE d # c
        BY <1>5, <2>1, <2>3 DEF Apart
    <2> QED
        BY <2>2, <2>3
<1>11. ASSUME NEW i \in 1 .. Len(ch) - 1, NEW j \in 1 .. Len(ch) - 1, i # j
       PROVE  Elements(ch'[i]) \cap Elements(ch'[j]) = {}
    <2>1. i + 1 # j + 1
        BY <1>11
    <2> QED
        BY <1>1, <1>4, <2>1 DEF Apart
<1>12. ASSUME NEW d \in Consumer, NEW e \in Consumer, d # e
       PROVE  InHand(d)' \cap InHand(e)' = {}
    <2>1. \A f \in Consumer : Elements(ch[1]) \cap InHand(f) = {}
        BY <1>1, <1>4 DEF Apart
    <2>2. InHand(d) \cap InHand(e) = {}
        BY <1>12 DEF Apart
    <2> QED
        BY <1>5, <1>12, <2>1, <2>2
<1>13. Ahead \cap Collected = {}
    BY DEF Apart
<1> QED
    BY <1>1, <1>3, <1>6, <1>7, <1>8, <1>9, <1>10, <1>11, <1>12, <1>13 DEF Apart

LEMMA ApartDrop ==
    ASSUME TypeOK, Apart, NEW c \in Consumer, mine[c] # << >>, mine' = [mine EXCEPT ![c] = Tail(@)],
           Ahead' = Ahead, batch' = batch, ch' = ch
    PROVE  Apart'
<1>1. InHand(c)' \subseteq InHand(c) /\ IsInjective(mine'[c]) /\ \A d \in Consumer \ {c} : mine'[d] = mine[d]
    BY DropMoves
<1>2. \A d \in Consumer : InHand(d)' \subseteq InHand(d) /\ IsInjective(mine'[d])
    BY <1>1 DEF InHand, Apart
<1>3. Collected' = Collected
    BY DEF Collected
<1>4. \A d \in Consumer : (Ahead \cup Collected) \cap InHand(d)' = {}
    BY <1>2 DEF Apart
<1>5. \A i \in DOMAIN ch, d \in Consumer : Elements(ch[i]) \cap InHand(d)' = {}
    BY <1>2 DEF Apart
<1>6. \A d, e \in Consumer : d # e => InHand(d)' \cap InHand(e)' = {}
    BY <1>2 DEF Apart
<1> QED
    BY <1>2, <1>3, <1>4, <1>5, <1>6 DEF Apart

LEMMA ApartNext == TypeOK /\ Walk /\ Crew /\ Apart /\ [Next]_vars => Apart'
<1> SUFFICES ASSUME TypeOK, Walk, Crew, Apart, [Next]_vars
             PROVE  Apart'
    OBVIOUS
<1>0. ~Yield => Ahead' = Ahead
    BY WalkNext
<1> USE DEF prodVars, walkVars, consVars
<1>1. CASE Cancel \/ UNCHANGED vars
    <2>1. Ahead' = Ahead
        BY <1>1, WalkKeeps DEF Cancel, vars
    <2>2. batch' = batch /\ ch' = ch /\ mine' = mine
        BY <1>1 DEF Cancel, vars
    <2> QED
        BY <2>1, <2>2, ApartKeeps
<1>2. CASE NextShard \/ EndWalk \/ NextRecord \/ Register \/ AbandonSend \/ Tail_ \/ Close \/ Wait
    <2>1. batch' = batch /\ ch' = ch /\ mine' = mine
        BY <1>2 DEF NextShard, EndWalk, NextRecord, Register, AbandonSend, Tail_, Close, Wait
    <2>3. CASE Yield
        BY <2>3, ApartYield
    <2>4. CASE ~Yield
        <3>1. Ahead' = Ahead
            BY <1>0, <2>4
        <3> QED
            BY <2>1, <3>1, ApartKeeps
    <2> QED
        BY <2>3, <2>4
<1>3. CASE Yield
    BY <1>3, ApartYield
<1>4. CASE Send
    BY <1>4, ApartSend
<1>5. ASSUME NEW c \in Consumer, Consume(c)
      PROVE  Apart'
    <2>1. UNCHANGED prodVars
        BY <1>5 DEF Consume, Receive, LeaveRange, SkipTask, BeginTask, NextBatch, FoldTask, Publish, Complete
    <2>2. Ahead' = Ahead /\ batch' = batch
        BY <2>1, WalkKeeps
    <2>3. CASE Receive(c)
        BY <2>3, ApartReceive
    <2>4. CASE SkipTask(c) \/ Complete(c)
        <3>1. mine' = [mine EXCEPT ![c] = Tail(@)] /\ ch' = ch
            BY <2>4 DEF SkipTask, Complete
        <3>2. mine[c] # << >>
            BY <2>4 DEF SkipTask, Complete, Crew
        <3> QED
            BY <2>2, <3>1, <3>2, ApartDrop
    <2>5. CASE LeaveRange(c) \/ BeginTask(c) \/ NextBatch(c) \/ FoldTask(c) \/ Publish(c)
        <3>1. ch' = ch /\ mine' = mine
            BY <2>5 DEF LeaveRange, BeginTask, NextBatch, FoldTask, Publish
        <3> QED
            BY <2>2, <3>1, ApartKeeps
    <2> QED
        BY <1>5, <2>3, <2>4, <2>5 DEF Consume
<1> QED
    BY <1>1, <1>2, <1>3, <1>4, <1>5 DEF Next, Producer

-----------------------------------------------------------------------------
(* The total: a task is credited by the consumer that holds it, once.      *)
LEMMA CreditsKeeps ==
    ASSUME Credits, credit' = credit, mine' = mine, cancelled => cancelled', Waiting' = Waiting,
           \A c \in Consumer : Began(c)' <=> Began(c)
    PROVE  Credits'
BY DEF Credits, Credited, InHand

LEMMA CreditsReceive ==
    ASSUME TypeOK, Crew, Credits, NEW c \in Consumer, Receive(c), Ahead' = Ahead
    PROVE  Credits'
<1>1. /\ mine' = [mine EXCEPT ![c] = ch[1]] /\ Buffered = Buffered' \cup Elements(ch[1])
    BY ReceiveMoves
<1>2. /\ pc[c] = "recv" /\ pc' = [pc EXCEPT ![c] = "next"] /\ credit' = credit /\ batch' = batch
      /\ cancelled' = cancelled
    BY DEF Receive, GoTo, prodVars
<1>3. Waiting = Waiting' \cup Elements(ch[1])
    BY <1>1, <1>2 DEF Waiting, Collected
<1>4. InHand(c)' = Elements(ch[1]) /\ \A d \in Consumer \ {c} : InHand(d)' = InHand(d) /\ mine'[d] = mine[d]
    BY <1>1 DEF InHand, TypeOK
<1>5. InHand(c) = {}
    BY <1>2, EmptyHolds DEF Crew, InHand
<1>6. ~Began(c)' /\ \A d \in Consumer \ {c} : Began(d)' <=> Began(d)
    BY <1>2 DEF Began, TypeOK
<1>7. Credited' = Credited
    BY <1>2 DEF Credited
<1>8. Credited' \cap Waiting' = {} /\ Credited \cap InHand(c)' = {}
    BY <1>3, <1>4, <1>7 DEF Credits
<1>9. ASSUME NEW d \in Consumer
      PROVE  /\ \A t \in InHand(d)' : t \in Credited' => Began(d)' /\ t = Head(mine'[d])
             /\ Began(d)' => Head(mine'[d]) \in Credited'
    <2>1. CASE d = c
        BY <1>6, <1>7, <1>8, <2>1
    <2>2. CASE d # c
        BY <1>4, <1>6, <1>7, <2>2 DEF Credits
    <2> QED
        BY <2>1, <2>2
<1>10. ASSUME ~cancelled', NEW t \in Task
       PROVE  /\ credit'[t] # "partial"
              /\ t \in Waiting' \cup Credited' \/ \E d \in Consumer : t \in InHand(d)'
    <2>1. credit[t] # "partial" /\ (t \in Waiting \cup Credited \/ \E d \in Consumer : t \in InHand(d))
        BY <1>2, <1>10 DEF Credits
    <2>2. \A d \in Consumer : t \in InHand(d) => t \in InHand(d)'
        BY <1>4, <1>5
    <2> QED
        BY <1>2, <1>3, <1>4, <1>7, <2>1, <2>2
<1> QED
    BY <1>8, <1>9, <1>10 DEF Credits

LEMMA CreditsDrop ==
    ASSUME TypeOK, Apart, Credits, NEW c \in Consumer, mine[c] # << >>, mine' = [mine EXCEPT ![c] = Tail(@)],
           ~Began(c)', \A d \in Consumer \ {c} : Began(d)' <=> Began(d),
           credit' = credit, Waiting' = Waiting, cancelled' = cancelled, Began(c) \/ cancelled
    PROVE  Credits'
<1>1. /\ InHand(c)' = InHand(c) \ {Head(mine[c])} /\ \A d \in Consumer \ {c} : mine'[d] = mine[d]
    BY DropMoves
<1>2. \A d \in Consumer \ {c} : InHand(d)' = InHand(d)
    BY <1>1 DEF InHand
<1>3. Credited' = Credited
    BY DEF Credited
<1>4. \A t \in InHand(c)' : t \notin Credited
    BY <1>1 DEF Credits
<1>5. ASSUME NEW d \in Consumer
      PROVE  /\ \A t \in InHand(d)' : t \in Credited' => Began(d)' /\ t = Head(mine'[d])
             /\ Began(d)' => Head(mine'[d]) \in Credited'
    <2>1. CASE d = c
        BY <1>3, <1>4, <2>1
    <2>2. CASE d # c
        BY <1>1, <1>2, <1>3, <2>2 DEF Credits
    <2> QED
        BY <2>1, <2>2
<1>6. ASSUME ~cancelled', NEW t \in Task
      PROVE  /\ credit'[t] # "partial"
             /\ t \in Waiting' \cup Credited' \/ \E d \in Consumer : t \in InHand(d)'
    <2>1. credit[t] # "partial" /\ (t \in Waiting \cup Credited \/ \E d \in Consumer : t \in InHand(d))
        BY <1>6 DEF Credits
    <2>2. Head(mine[c]) \in Credited
        BY <1>6 DEF Credits
    <2>3. \A d \in Consumer : t \in InHand(d) => t \in InHand(d)' \/ t \in Credited
        BY <1>1, <1>2, <2>2
    <2> QED
        BY <1>3, <2>1, <2>3
<1> QED
    BY <1>3, <1>5, <1>6 DEF Credits

LEMMA FoldCredits ==
    ASSUME TypeOK, Crew, Apart, Credits, NEW c \in Consumer, FoldTask(c)
    PROVE  /\ Credited' = Credited \cup {Head(mine[c])} /\ Head(mine[c]) \notin Credited
           /\ Head(mine[c]) \in InHand(c) /\ Head(mine[c]) \in Task
           /\ ~cancelled => \A t \in Task : credit'[t] # "partial"
<1>1. PICK paths \in IF cancelled THEN {"partial", "full"} ELSE {"full"} :
          credit' = [credit EXCEPT ![Head(mine[c])] = paths]
    BY DEF FoldTask
<1>2. mine[c] # << >> /\ ~Began(c) /\ mine[c] \in Seq(Task)
    BY DEF FoldTask, Crew, Began, TypeOK
<1>3. Head(mine[c]) \in InHand(c) /\ Head(mine[c]) \in Task
    BY <1>2, HeadHolds DEF InHand
<1>4. Head(mine[c]) \notin Credited
    BY <1>2, <1>3 DEF Credits
<1>5. paths # "none" /\ (~cancelled => paths = "full")
    BY <1>1
<1>6. Credited' = Credited \cup {Head(mine[c])}
    BY <1>1, <1>3, <1>5 DEF Credited, TypeOK
<1>7. ASSUME ~cancelled, NEW t \in Task
      PROVE  credit'[t] # "partial"
    <2>1. credit[t] # "partial"
        BY <1>7 DEF Credits
    <2> QED
        BY <1>1, <1>5, <1>7, <2>1 DEF TypeOK
<1> QED
    BY <1>3, <1>4, <1>6, <1>7

LEMMA CreditsFold ==
    ASSUME TypeOK, Crew, Apart, Credits, NEW c \in Consumer, FoldTask(c), Ahead' = Ahead
    PROVE  Credits'
<1>1. /\ Credited' = Credited \cup {Head(mine[c])}
      /\ Head(mine[c]) \in InHand(c) /\ Head(mine[c]) \in Task
      /\ ~cancelled => \A t \in Task : credit'[t] # "partial"
    BY FoldCredits
<1>2. /\ pc' = [pc EXCEPT ![c] = "publish"] /\ mine' = mine /\ ch' = ch /\ batch' = batch
      /\ cancelled' = cancelled
    BY DEF FoldTask, GoTo, prodVars
<1>3. Waiting' = Waiting /\ \A d \in Consumer : InHand(d)' = InHand(d)
    BY <1>2 DEF Waiting, Collected, Buffered, InHand
<1>4. Began(c)' /\ \A d \in Consumer \ {c} : Began(d)' <=> Began(d)
    BY <1>2 DEF Began, TypeOK
<1>5. Head(mine[c]) \notin Waiting
    BY <1>1 DEF Apart, Waiting, Buffered
<1>6. \A d \in Consumer \ {c} : Head(mine[c]) \notin InHand(d)
    BY <1>1 DEF Apart
<1>7. ASSUME NEW d \in Consumer
      PROVE  /\ \A t \in InHand(d)' : t \in Credited' => Began(d)' /\ t = Head(mine'[d])
             /\ Began(d)' => Head(mine'[d]) \in Credited'
    <2>1. CASE d = c
        BY <1>1, <1>2, <1>3, <1>4, <2>1 DEF Credits
    <2>2. CASE d # c
        BY <1>1, <1>2, <1>3, <1>4, <1>6, <2>2 DEF Credits
    <2> QED
        BY <2>1, <2>2
<1>8. ASSUME ~cancelled', NEW t \in Task
      PROVE  /\ credit'[t] # "partial"
             /\ t \in Waiting' \cup Credited' \/ \E d \in Consumer : t \in InHand(d)'
    BY <1>1, <1>2, <1>3, <1>8 DEF Credits
<1> QED
    BY <1>1, <1>3, <1>5, <1>7, <1>8 DEF Credits

LEMMA WaitingMoves ==
    ASSUME TypeOK, Walk, Apart, [Next]_vars, ch' = ch \/ Send
    PROVE  Waiting' = Waiting
<1>1. CASE Yield
    <2>1. /\ Head(rest) \in Ahead /\ Ahead' = Ahead \ {Head(rest)}
          /\ Collected' = Collected \cup {Head(rest)}
        BY <1>1, YieldMoves
    <2>2. Buffered' = Buffered
        BY <1>1 DEF Yield, Buffered
    <2> QED
        BY <2>1, <2>2 DEF Waiting
<1>2. CASE Send
    <2>1. Collected' = {} /\ Buffered' = Buffered \cup Collected
        BY <1>2, SendMoves
    <2>2. UNCHANGED walkVars
        BY <1>2 DEF Send
    <2>3. Ahead' = Ahead
        BY <2>2, WalkKeeps
    <2> QED
        BY <2>1, <2>3 DEF Waiting
<1>3. CASE ~Yield /\ ~Send
    <2>1. Ahead' = Ahead
        BY <1>3, WalkNext
    <2>2. batch' = batch
        BY <1>3 DEF Next, Producer, Consume, Cancel, NextShard, EndWalk, NextRecord, Register, AbandonSend, Tail_,
            Close, Wait, Receive, LeaveRange, SkipTask, BeginTask, NextBatch, FoldTask, Publish, Complete,
            prodVars, vars
    <2>3. Buffered' = Buffered
        BY <1>3 DEF Buffered
    <2> QED
        BY <2>1, <2>2, <2>3 DEF Waiting, Collected
<1> QED
    BY <1>1, <1>2, <1>3

LEMMA CreditsNext == TypeOK /\ Walk /\ Crew /\ Apart /\ Credits /\ [Next]_vars => Credits'
<1> SUFFICES ASSUME TypeOK, Walk, Crew, Apart, Credits, [Next]_vars
             PROVE  Credits'
    OBVIOUS
<1>0. ch' = ch \/ Send => Waiting' = Waiting
    BY WaitingMoves
<1>1. CASE Cancel \/ Producer \/ UNCHANGED vars
    <2>1. credit' = credit /\ mine' = mine /\ pc' = pc /\ (cancelled => cancelled')
        BY <1>1 DEF Producer, Cancel, NextShard, EndWalk, NextRecord, Yield, Register, Send, AbandonSend, Tail_,
            Close, Wait, consVars, vars
    <2>2. ch' = ch \/ Send
        BY <1>1 DEF Producer, Cancel, NextShard, EndWalk, NextRecord, Yield, Register, AbandonSend, Tail_,
            Close, Wait, vars
    <2>3. \A c \in Consumer : Began(c)' <=> Began(c)
        BY <2>1 DEF Began
    <2> QED
        BY <1>0, <2>1, <2>2, <2>3, CreditsKeeps
<1>2. ASSUME NEW c \in Consumer, Consume(c)
      PROVE  Credits'
    <2>1. UNCHANGED prodVars /\ cancelled' = cancelled
        BY <1>2 DEF Consume, Receive, LeaveRange, SkipTask, BeginTask, NextBatch, FoldTask, Publish, Complete
    <2>2. Ahead' = Ahead
        BY <2>1, WalkKeeps DEF prodVars
    <2>3. CASE Receive(c)
        BY <2>2, <2>3, CreditsReceive
    <2>4. CASE SkipTask(c) \/ Complete(c)
        <3>1. /\ mine' = [mine EXCEPT ![c] = Tail(@)] /\ ch' = ch /\ credit' = credit
              /\ pc' = [pc EXCEPT ![c] = "next"] \/ (pc' = pc /\ pc[c] = "next")
              /\ Began(c) \/ cancelled
            BY <2>4 DEF SkipTask, Complete, GoTo, Began
        <3>2. mine[c] # << >>
            BY <2>4 DEF SkipTask, Complete, Crew
        <3>3. ~Began(c)' /\ \A d \in Consumer \ {c} : Began(d)' <=> Began(d)
            BY <3>1 DEF Began, TypeOK
        <3> QED
            BY <1>0, <2>1, <3>1, <3>2, <3>3, CreditsDrop
    <2>5. CASE LeaveRange(c) \/ BeginTask(c) \/ NextBatch(c) \/ Publish(c)
        <3>1. ch' = ch /\ mine' = mine /\ credit' = credit
            BY <2>5 DEF LeaveRange, BeginTask, NextBatch, Publish
        <3>2. \A d \in Consumer : Began(d)' <=> Began(d)
            BY <2>5 DEF LeaveRange, BeginTask, NextBatch, Publish, GoTo, Began, TypeOK
        <3> QED
            BY <1>0, <2>1, <3>1, <3>2, CreditsKeeps
    <2>6. CASE FoldTask(c)
        BY <2>2, <2>6, CreditsFold
    <2> QED
        BY <1>2, <2>3, <2>4, <2>5, <2>6 DEF Consume
<1> QED
    BY <1>1, <1>2 DEF Next

-----------------------------------------------------------------------------
(* The monitor's two figures: published after credited, completed after    *)
(* published, each once.                                                   *)
LEMMA ReportsKeeps ==
    ASSUME Reports, published' = published, credit' = credit,
           \A c \in Consumer : /\ pc'[c] = "publish" <=> pc[c] = "publish"
                               /\ pc'[c] = "complete" => pc[c] = "complete"
                               /\ pc'[c] \in {"publish", "complete"} => mine'[c] = mine[c]
    PROVE  Reports'
<1>1. Credited' = Credited
    BY DEF Credited
<1> QED
    BY <1>1 DEF Reports

LEMMA PublishMoves ==
    ASSUME TypeOK, Crew, Apart, Credits, Reports, NEW c \in Consumer, Publish(c)
    PROVE  /\ published' = published \cup {Head(mine[c])} /\ Head(mine[c]) \notin published
           /\ Head(mine[c]) \in Credited /\ pc[c] = "publish" /\ pc' = [pc EXCEPT ![c] = "complete"]
           /\ \A d \in Consumer \ {c} : pc[d] = "publish" => Head(mine[d]) # Head(mine[c])
<1>1. /\ pc[c] = "publish" /\ pc' = [pc EXCEPT ![c] = "complete"]
      /\ published' = published \cup {Head(mine[c])}
    BY DEF Publish, GoTo
<1>2. Head(mine[c]) \notin published /\ Head(mine[c]) \in Credited
    BY <1>1 DEF Reports, Credits, Began
<1>3. Head(mine[c]) \in InHand(c)
    BY <1>1, HeadHolds DEF Crew, InHand, TypeOK
<1>4. ASSUME NEW d \in Consumer \ {c}, pc[d] = "publish"
      PROVE  Head(mine[d]) # Head(mine[c])
    <2>1. Head(mine[d]) \in InHand(d)
        BY <1>4, HeadHolds DEF Crew, InHand, TypeOK
    <2> QED
        BY <1>3, <1>4, <2>1 DEF Apart
<1> QED
    BY <1>1, <1>2, <1>4

LEMMA ReportsNext == TypeOK /\ Crew /\ Apart /\ Credits /\ Reports /\ [Next]_vars => Reports'
<1> SUFFICES ASSUME TypeOK, Crew, Apart, Credits, Reports, [Next]_vars
             PROVE  Reports'
    OBVIOUS
<1>1. CASE Cancel \/ Producer \/ UNCHANGED vars
    <2>1. published' = published /\ credit' = credit /\ mine' = mine /\ pc' = pc
        BY <1>1 DEF Producer, Cancel, NextShard, EndWalk, NextRecord, Yield, Register, Send, AbandonSend, Tail_,
            Close, Wait, consVars, vars
    <2> QED
        BY <2>1, ReportsKeeps
<1>2. ASSUME NEW c \in Consumer, Consume(c)
      PROVE  Reports'
    <2>1. CASE Receive(c) \/ LeaveRange(c) \/ SkipTask(c) \/ BeginTask(c) \/ NextBatch(c) \/ Complete(c)
        <3>1. published' = published /\ credit' = credit
            BY <2>1 DEF Receive, LeaveRange, SkipTask, BeginTask, NextBatch, Complete
        <3>2. \A d \in Consumer : /\ pc'[d] = "publish" <=> pc[d] = "publish"
                                  /\ pc'[d] = "complete" => pc[d] = "complete"
                                  /\ pc'[d] \in {"publish", "complete"} => mine'[d] = mine[d]
            BY <2>1 DEF Receive, LeaveRange, SkipTask, BeginTask, NextBatch, Complete, GoTo, TypeOK
        <3> QED
            BY <3>1, <3>2, ReportsKeeps
    <2>2. CASE FoldTask(c)
        <3>1. Credited' = Credited \cup {Head(mine[c])} /\ Head(mine[c]) \notin Credited
            BY <2>2, FoldCredits
        <3>2. published' = published /\ mine' = mine /\ pc[c] = "count" /\ pc' = [pc EXCEPT ![c] = "publish"]
            BY <2>2 DEF FoldTask, GoTo
        <3>3. pc'[c] = "publish" /\ \A d \in Consumer \ {c} : pc'[d] = pc[d]
            BY <3>2 DEF TypeOK
        <3>4. Head(mine[c]) \notin published
            BY <3>1 DEF Reports
        <3>5. \A t \in Credited' \ published' : \E d \in Consumer : pc'[d] = "publish" /\ t = Head(mine'[d])
            BY <3>1, <3>2, <3>3 DEF Reports
        <3>6. \A d \in Consumer : pc'[d] = "publish" => Head(mine'[d]) \notin published'
            BY <3>2, <3>3, <3>4 DEF Reports
        <3>7. \A d \in Consumer : pc'[d] = "complete" => Head(mine'[d]) \in published'
            BY <3>2, <3>3 DEF Reports
        <3> QED
            BY <3>1, <3>2, <3>5, <3>6, <3>7 DEF Reports
    <2>3. CASE Publish(c)
        <3>1. /\ published' = published \cup {Head(mine[c])} /\ Head(mine[c]) \in Credited
              /\ pc[c] = "publish" /\ pc' = [pc EXCEPT ![c] = "complete"]
              /\ \A d \in Consumer \ {c} : pc[d] = "publish" => Head(mine[d]) # Head(mine[c])
            BY <2>3, PublishMoves
        <3>2. mine' = mine /\ credit' = credit
            BY <2>3 DEF Publish
        <3>3. pc'[c] = "complete" /\ \A d \in Consumer \ {c} : pc'[d] = pc[d]
            BY <3>1 DEF TypeOK
        <3>4. Credited' = Credited
            BY <3>2 DEF Credited
        <3>5. \A t \in Credited' \ published' : \E d \in Consumer : pc'[d] = "publish" /\ t = Head(mine'[d])
            BY <3>1, <3>2, <3>3, <3>4 DEF Reports
        <3>6. \A d \in Consumer : pc'[d] = "publish" => Head(mine'[d]) \notin published'
            BY <3>1, <3>2, <3>3 DEF Reports
        <3>7. \A d \in Consumer : pc'[d] = "complete" => Head(mine'[d]) \in published'
            BY <3>1, <3>2, <3>3 DEF Reports
        <3> QED
            BY <3>1, <3>4, <3>5, <3>6, <3>7 DEF Reports
    <2> QED
        BY <1>2, <2>1, <2>2, <2>3 DEF Consume
<1> QED
    BY <1>1, <1>2 DEF Next

LEMMA CountsFinite ==
    ASSUME TypeOK
    PROVE  /\ IsFiniteSet(Completing) /\ Cardinality(Completing) \in Nat
           /\ IsFiniteSet(published) /\ Cardinality(published) \in Nat
           /\ IsFiniteSet(Out) /\ Cardinality(Out) \in Nat /\ Out \subseteq Task
<1>1. consumers \in Int /\ 1 \in Int
    BY Sizes
<1>2. IsFiniteSet(Consumer)
    BY <1>1, FS_Interval DEF Consumer
<1>3. Completing \subseteq Consumer /\ published \subseteq Task
    BY DEF Completing, TypeOK
<1>4. Out \subseteq Task
    BY HoldsTask DEF Out, Buffered
<1> QED
    BY <1>2, <1>3, <1>4, TaskFinite, FS_Subset, FS_CardinalityType

LEMMA CompletedNext ==
    TypeOK /\ TypeOK' /\ Crew /\ Apart /\ Credits /\ Reports /\ CompletedCount /\ [Next]_vars => CompletedCount'
<1> SUFFICES ASSUME TypeOK, TypeOK', Crew, Apart, Credits, Reports, CompletedCount, [Next]_vars
             PROVE  CompletedCount'
    OBVIOUS
<1>0. completed \in Nat
    BY DEF TypeOK
<1>1. CASE Cancel \/ Producer \/ UNCHANGED vars
    <2>1. completed' = completed /\ published' = published /\ pc' = pc
        BY <1>1 DEF Producer, Cancel, NextShard, EndWalk, NextRecord, Yield, Register, Send, AbandonSend, Tail_,
            Close, Wait, consVars, vars
    <2> QED
        BY <2>1 DEF CompletedCount, Completing
<1>2. ASSUME NEW c \in Consumer, Consume(c)
      PROVE  CompletedCount'
    <2>1. CASE Receive(c) \/ LeaveRange(c) \/ SkipTask(c) \/ BeginTask(c) \/ NextBatch(c) \/ FoldTask(c)
        <3>1. completed' = completed /\ published' = published
            BY <2>1 DEF Receive, LeaveRange, SkipTask, BeginTask, NextBatch, FoldTask
        <3>2. Completing' = Completing
            BY <2>1 DEF Receive, LeaveRange, SkipTask, BeginTask, NextBatch, FoldTask, GoTo, Completing, TypeOK
        <3> QED
            BY <3>1, <3>2 DEF CompletedCount
    <2>2. CASE Publish(c)
        <3>1. /\ published' = published \cup {Head(mine[c])} /\ Head(mine[c]) \notin published
              /\ pc[c] = "publish" /\ pc' = [pc EXCEPT ![c] = "complete"] /\ completed' = completed
            BY <2>2, PublishMoves DEF Publish
        <3>2. Completing' = Completing \cup {c} /\ c \notin Completing
            BY <3>1 DEF Completing, TypeOK
        <3>3. /\ Cardinality(Completing') = Cardinality(Completing) + 1
              /\ Cardinality(published') = Cardinality(published) + 1
            BY <3>1, <3>2, CountsFinite, FS_AddElement
        <3> QED
            BY <1>0, <3>1, <3>3, CountsFinite DEF CompletedCount
    <2>3. CASE Complete(c)
        <3>1. pc[c] = "complete" /\ pc' = [pc EXCEPT ![c] = "next"] /\ completed' = completed + 1
              /\ published' = published
            BY <2>3 DEF Complete, GoTo
        <3>2. Completing' = Completing \ {c} /\ c \in Completing
            BY <3>1 DEF Completing, TypeOK
        <3>3. Cardinality(Completing') = Cardinality(Completing) - 1
            BY <3>2, CountsFinite, FS_RemoveElement
        <3> QED
            BY <1>0, <3>1, <3>3, CountsFinite DEF CompletedCount
    <2> QED
        BY <1>2, <2>1, <2>2, <2>3 DEF Consume
<1> QED
    BY <1>1, <1>2 DEF Next

-----------------------------------------------------------------------------
(* The phase total: registered before it is sent, owed until completed.    *)
InSend == at \in {"send", "sendTail"}

LEMMA RegistersKeeps ==
    ASSUME TypeOK, Registers, Out' = Out, completed' = completed, tasks' = tasks, batch' = batch,
           cancelled => cancelled', InSend' => InSend, cancelled' \/ (InSend' <=> InSend)
    PROVE  Registers'
<1>1. tasks \in Nat /\ completed \in Nat /\ Len(batch) \in Nat
    BY DEF TypeOK
<1>2. Cardinality(Out) \in Nat
    BY CountsFinite
<1>3. Owed' <= Owed /\ (~cancelled' => Owed' = Owed) /\ Owed \in Nat /\ Owed' \in Nat
    BY <1>1, <1>2 DEF Owed, InSend
<1> QED
    BY <1>1, <1>3 DEF Registers

LEMMA RegistersSend ==
    ASSUME TypeOK, Apart, Registers, Send
    PROVE  Registers'
<1>1. Buffered' = Buffered \cup Collected
    BY SendMoves
<1>2. /\ mine' = mine /\ completed' = completed /\ tasks' = tasks /\ cancelled' = cancelled
      /\ at \in {"send", "sendTail"} /\ at' \notin {"send", "sendTail"}
    BY DEF Send, consVars
<1>3. Out' = Out \cup Collected
    BY <1>1, <1>2 DEF Out, InHand
<1>4. Collected \cap Out = {}
    BY DEF Apart, Out, Buffered
<1>5. IsFiniteSet(Collected) /\ Cardinality(Collected) = Len(batch)
    BY HoldsFinite DEF Collected, Apart, TypeOK
<1>6. Cardinality(Collected \cap Out) = 0
    BY <1>4, FS_EmptySet
<1>7. IsFiniteSet(Out) /\ Cardinality(Out) \in Nat /\ Len(batch) \in Nat /\ completed \in Nat /\ tasks \in Nat
    BY CountsFinite DEF TypeOK
<1>8. Cardinality(Out') = Cardinality(Out) + Len(batch)
    <2>1. Cardinality(Collected \cup Out) = Cardinality(Collected) + Cardinality(Out) - Cardinality(Collected \cap Out)
        BY <1>5, <1>7, FS_Union
    <2>2. Out' = Collected \cup Out
        BY <1>3
    <2> QED
        BY <1>5, <1>6, <1>7, <2>1, <2>2
<1>9. Owed' = Owed
    BY <1>2, <1>7, <1>8 DEF Owed
<1> QED
    BY <1>2, <1>9 DEF Registers

(* A skipped task stays owed by nobody: only a cancelled run skips.        *)
LEMMA RegistersDrop ==
    ASSUME TypeOK, Crew, Apart, Registers, NEW c \in Consumer, SkipTask(c) \/ Complete(c)
    PROVE  Registers'
<1>1. /\ mine[c] # << >> /\ mine' = [mine EXCEPT ![c] = Tail(@)]
      /\ ch' = ch /\ tasks' = tasks /\ at' = at /\ batch' = batch /\ cancelled' = cancelled
    BY DEF SkipTask, Complete, Crew, prodVars
<1>2. /\ InHand(c)' = InHand(c) \ {Head(mine[c])} /\ Head(mine[c]) \in InHand(c)
      /\ \A d \in Consumer \ {c} : mine'[d] = mine[d]
    BY <1>1, DropMoves
<1>3. \A d \in Consumer \ {c} : InHand(d)' = InHand(d)
    BY <1>2 DEF InHand
<1>4. Buffered' = Buffered
    BY <1>1 DEF Buffered
<1>5. Head(mine[c]) \notin Buffered /\ \A d \in Consumer \ {c} : Head(mine[c]) \notin InHand(d)
    BY <1>2 DEF Apart, Buffered
<1>6. Head(mine[c]) \in Out /\ Out' = Out \ {Head(mine[c])}
    <2>1. Head(mine[c]) \in Out
        BY <1>2 DEF Out
    <2>2. ASSUME NEW t \in Out'
          PROVE  t \in Out \ {Head(mine[c])}
        <3>1. CASE t \in Buffered'
            BY <1>4, <1>5, <3>1 DEF Out
        <3>2. ASSUME NEW d \in Consumer, t \in InHand(d)'
              PROVE  t \in Out \ {Head(mine[c])}
            BY <1>2, <1>3, <1>5, <3>2 DEF Out
        <3> QED
            BY <3>1, <3>2 DEF Out
    <2>3. ASSUME NEW t \in Out, t # Head(mine[c])
          PROVE  t \in Out'
        <3>1. CASE t \in Buffered
            BY <1>4, <3>1 DEF Out
        <3>2. ASSUME NEW d \in Consumer, t \in InHand(d)
              PROVE  t \in Out'
            <4>1. t \in InHand(d)'
                BY <1>2, <1>3, <2>3, <3>2
            <4> QED
                BY <4>1 DEF Out
        <3> QED
            BY <3>1, <3>2 DEF Out
    <2> QED
        BY <2>1, <2>2, <2>3
<1>7. Cardinality(Out') = Cardinality(Out) - 1 /\ Cardinality(Out) \in Nat
    BY <1>6, CountsFinite, FS_RemoveElement
<1>8. tasks \in Nat /\ completed \in Nat /\ Len(batch) \in Nat
    BY DEF TypeOK
<1>9. CASE Complete(c)
    <2>1. completed' = completed + 1
        BY <1>9 DEF Complete
    <2>2. Owed' = Owed
        BY <1>1, <1>7, <1>8, <2>1 DEF Owed
    <2> QED
        BY <1>1, <2>2 DEF Registers
<1>10. CASE SkipTask(c)
    <2>1. completed' = completed /\ cancelled
        BY <1>10 DEF SkipTask
    <2>2. Owed' = Owed - 1 /\ Owed \in Int
        BY <1>1, <1>7, <1>8, <2>1 DEF Owed
    <2> QED
        BY <1>1, <1>8, <2>1, <2>2 DEF Registers
<1> QED
    BY <1>9, <1>10

LEMMA RegistersNext == TypeOK /\ TypeOK' /\ Stage /\ Crew /\ Apart /\ Registers /\ [Next]_vars => Registers'
<1> SUFFICES ASSUME TypeOK, TypeOK', Stage, Crew, Apart, Registers, [Next]_vars
             PROVE  Registers'
    OBVIOUS
<1>1. CASE Cancel \/ NextShard \/ EndWalk \/ NextRecord \/ AbandonSend \/ Tail_ \/ Close \/ Wait \/ UNCHANGED vars
    <2>1. ch' = ch /\ mine' = mine
        BY <1>1 DEF Cancel, NextShard, EndWalk, NextRecord, AbandonSend, Tail_, Close, Wait, consVars, vars
    <2>2. /\ completed' = completed /\ tasks' = tasks /\ batch' = batch /\ (cancelled => cancelled')
          /\ (InSend' => InSend) /\ (cancelled' \/ (InSend' <=> InSend))
        BY <1>1 DEF Cancel, NextShard, EndWalk, NextRecord, AbandonSend, Tail_, Close, Wait,
            prodVars, consVars, vars, InSend
    <2>3. Out' = Out
        BY <2>1 DEF Out, Buffered, InHand
    <2> QED
        BY <2>2, <2>3, RegistersKeeps
<1>2. CASE Yield \/ Register
    <2>1. Out' = Out
        BY <1>2 DEF Yield, Register, consVars, Out, Buffered, InHand
    <2>2. completed' = completed /\ cancelled' = cancelled /\ ~InSend
        BY <1>2 DEF Yield, Register, consVars, InSend
    <2>3. tasks \in Nat /\ completed \in Nat /\ Len(batch) \in Nat /\ Cardinality(Out) \in Nat
        BY CountsFinite DEF TypeOK
    <2>4. CASE Yield
        <3>1. tasks' = tasks /\ ~InSend'
            BY <2>4 DEF Yield, InSend
        <3>2. Owed' = Owed
            BY <2>1, <2>2, <2>3, <3>1 DEF Owed, InSend
        <3> QED
            BY <2>2, <3>1, <3>2 DEF Registers
    <2>5. CASE Register
        <3>1. tasks' = tasks + Len(batch) /\ InSend' /\ batch' = batch
            BY <2>5 DEF Register, Registered, InSend
        <3>2. Owed' = Owed + Len(batch) /\ Owed \in Nat
            BY <2>1, <2>2, <2>3, <3>1 DEF Owed, InSend
        <3> QED
            BY <2>2, <2>3, <3>1, <3>2 DEF Registers
    <2> QED
        BY <1>2, <2>4, <2>5
<1>3. CASE Send
    BY <1>3, RegistersSend
<1>4. ASSUME NEW c \in Consumer, Receive(c)
      PROVE  Registers'
    <2>1. mine' = [mine EXCEPT ![c] = ch[1]] /\ Buffered = Buffered' \cup Elements(ch[1])
        BY <1>4, ReceiveMoves
    <2>2. InHand(c) = {}
        BY <1>4, EmptyHolds DEF Receive, Crew, InHand
    <2>3. InHand(c)' = Elements(ch[1]) /\ \A d \in Consumer \ {c} : InHand(d)' = InHand(d)
        BY <2>1 DEF InHand, TypeOK
    <2>4. UNION {InHand(d)' : d \in Consumer} = Elements(ch[1]) \cup UNION {InHand(d) : d \in Consumer}
        BY <2>2, <2>3
    <2>5. Out' = Out
        BY <2>1, <2>4 DEF Out
    <2>6. /\ completed' = completed /\ tasks' = tasks /\ batch' = batch /\ cancelled' = cancelled /\ at' = at
        BY <1>4 DEF Receive, prodVars
    <2> QED
        BY <2>5, <2>6, RegistersKeeps DEF InSend
<1>5. ASSUME NEW c \in Consumer, LeaveRange(c) \/ BeginTask(c) \/ NextBatch(c) \/ FoldTask(c) \/ Publish(c)
      PROVE  Registers'
    <2>1. /\ completed' = completed /\ tasks' = tasks /\ batch' = batch /\ cancelled' = cancelled /\ at' = at
          /\ ch' = ch /\ mine' = mine
        BY <1>5 DEF LeaveRange, BeginTask, NextBatch, FoldTask, Publish, prodVars
    <2>2. Out' = Out
        BY <2>1 DEF Out, Buffered, InHand
    <2> QED
        BY <2>1, <2>2, RegistersKeeps DEF InSend
<1>6. ASSUME NEW c \in Consumer, SkipTask(c) \/ Complete(c)
      PROVE  Registers'
    BY <1>6, RegistersDrop
<1> QED
    BY <1>1, <1>2, <1>3, <1>4, <1>5, <1>6 DEF Next, Producer, Consume

-----------------------------------------------------------------------------
LEMMA InvInit == Init => IInv
<1> SUFFICES ASSUME Init
             PROVE  IInv
    OBVIOUS
<1>1. TypeOK
    BY TypeInit
<1>2. /\ at = "walk" /\ shard = 0 /\ masks = {} /\ rest = << >> /\ batch = << >> /\ ch = << >>
      /\ published = {} /\ tasks = 0 /\ completed = 0 /\ closed = FALSE
      /\ \A c \in Consumer : pc[c] = "recv" /\ mine[c] = << >>
      /\ \A t \in Task : credit[t] = "none"
    BY DEF Init
<1>3. Walk
    BY <1>2, EmptyHolds DEF Walk
<1>4. Len(batch) = 0 /\ DOMAIN ch = {}
    BY <1>2
<1>5. Stage
    BY <1>2, <1>4, Sizes DEF Stage
<1>6. Crew
    BY <1>2 DEF Crew
<1>7. Collected = {} /\ Buffered = {} /\ \A c \in Consumer : InHand(c) = {}
    BY <1>2, <1>4, EmptyHolds DEF Collected, Buffered, InHand
<1>8. Apart
    BY <1>2, <1>4, <1>7, EmptyHolds DEF Apart
<1>9. Credited = {} /\ \A c \in Consumer : ~Began(c)
    BY <1>2 DEF Credited, Began
<1>10. Task \subseteq Ahead
    <2>1. ASSUME NEW t \in Task
          PROVE  t \in ShardsAhead
        <3>1. PICK m \in Masks : t \in TasksOf(m)
            BY TasksFacts
        <3>2. PICK i \in 1 .. Len(Table) : m \in Table[i]
            BY TableFacts
        <3>3. shard + 1 .. Len(Table) = 1 .. Len(Table)
            BY <1>2, TableFacts
        <3> QED
            BY <3>1, <3>2, <3>3 DEF ShardsAhead
    <2> QED
        BY <2>1 DEF Ahead
<1>11. Credits
    BY <1>2, <1>7, <1>9, <1>10 DEF Credits, Waiting
<1>12. Reports
    BY <1>2, <1>9 DEF Reports
<1>13. Completing = {} /\ Out = {}
    BY <1>2, <1>7 DEF Completing, Out
<1>14. CompletedCount /\ Registers
    BY <1>2, <1>13, FS_EmptySet DEF CompletedCount, Registers, Owed
<1> QED
    BY <1>1, <1>3, <1>5, <1>6, <1>8, <1>11, <1>12, <1>14 DEF IInv

LEMMA InvNext == IInv /\ [Next]_vars => IInv'
<1> SUFFICES ASSUME TypeOK, Walk, Stage, Crew, Apart, Credits, Reports, CompletedCount, Registers, [Next]_vars
             PROVE  IInv'
    BY DEF IInv
<1>1. TypeOK'
    BY TypeNext
<1>2. Walk' /\ Stage' /\ Crew' /\ Apart'
    BY <1>1, WalkNext, StageNext, CrewNext, ApartNext
<1>3. Credits' /\ Reports'
    BY <1>1, CreditsNext, ReportsNext
<1>4. CompletedCount' /\ Registers'
    BY <1>1, CompletedNext, RegistersNext
<1> QED
    BY <1>1, <1>2, <1>3, <1>4 DEF IInv

LEMMA Invariant == Spec => []IInv
BY InvInit, InvNext, PTL DEF Spec

(* Type correctness; in particular an entryBatch never outgrows its array  *)
(* and the channel never outgrows its slots, for every setting.            *)
THEOREM TypeCorrect == Spec => []TypeOK
<1>1. IInv => TypeOK
    BY DEF IInv
<1> QED
    BY <1>1, Invariant, PTL

-----------------------------------------------------------------------------
LEMMA AccountedFor == IInv => TaskAccounted
<1> SUFFICES ASSUME TypeOK, Apart, Credits
             PROVE  TaskAccounted
    BY DEF IInv
<1>1. ASSUME NEW t \in Task
      PROVE  /\ Cardinality(PlacesOf(t)) + Cardinality(HandsOf(t)) <= 1
             /\ PlacesOf(t) = {} /\ HandsOf(t) = {} => cancelled
             /\ credit[t] # "none" => PlacesOf(t) \subseteq {"finished"}
    <2>1. t \in Credited => PlacesOf(t) \subseteq {"finished"}
        BY DEF Credits, Waiting, PlacesOf
    <2>2. CASE HandsOf(t) = {}
        <3>1. \A c \in Consumer : t \notin InHand(c)
            BY <2>2 DEF HandsOf
        <3>2. t \in Finished <=> t \in Credited
            BY <3>1 DEF Finished, Credited
        <3>3. /\ Ahead \cap Collected = {} /\ (Ahead \cup Collected) \cap Buffered = {}
              /\ Credited \cap (Ahead \cup Collected \cup Buffered) = {}
            BY DEF Apart, Credits, Waiting, Buffered
        <3>4. \E p \in {"ahead", "collected", "buffered", "finished"} : PlacesOf(t) \subseteq {p}
            <4>1. CASE t \in Ahead
                BY <3>2, <3>3, <4>1 DEF PlacesOf
            <4>2. CASE t \in Collected
                BY <3>2, <3>3, <4>2 DEF PlacesOf
            <4>3. CASE t \in Buffered
                BY <3>2, <3>3, <4>3 DEF PlacesOf
            <4>4. CASE t \notin Ahead \cup Collected \cup Buffered
                BY <4>4 DEF PlacesOf
            <4> QED
                BY <4>1, <4>2, <4>3, <4>4
        <3>5. Cardinality(PlacesOf(t)) <= 1 /\ Cardinality(PlacesOf(t)) \in Nat
            <4>1. PICK p \in {"ahead", "collected", "buffered", "finished"} : PlacesOf(t) \subseteq {p}
                BY <3>4
            <4>2. IsFiniteSet({p}) /\ Cardinality({p}) = 1
                BY FS_Singleton
            <4> QED
                BY <4>1, <4>2, FS_Subset, FS_CardinalityType
        <3>6. PlacesOf(t) = {} => cancelled
            <4>1. PlacesOf(t) = {} => t \notin Waiting \cup Credited
                BY <3>2 DEF PlacesOf, Waiting
            <4> QED
                BY <3>1, <4>1 DEF Credits
        <3>7. Cardinality(HandsOf(t)) = 0
            BY <2>2, FS_EmptySet
        <3> QED
            BY <2>1, <3>5, <3>6, <3>7 DEF Credited
    <2>3. CASE HandsOf(t) # {}
        <3>1. PICK c \in Consumer : t \in InHand(c)
            BY <2>3 DEF HandsOf
        <3>2. HandsOf(t) = {c}
            BY <3>1 DEF HandsOf, Apart
        <3>3. PlacesOf(t) = {}
            BY <3>1 DEF PlacesOf, Finished, Apart, Buffered
        <3>4. Cardinality(HandsOf(t)) = 1 /\ Cardinality(PlacesOf(t)) = 0
            BY <3>2, <3>3, FS_Singleton, FS_EmptySet
        <3> QED
            BY <2>1, <2>3, <3>4 DEF Credited
    <2> QED
        BY <2>2, <2>3
<1>2. \A i, j \in DOMAIN ch : Elements(ch[i]) \cap Elements(ch[j]) # {} => i = j
    BY DEF Apart
<1> QED
    BY <1>1, <1>2 DEF TaskAccounted

(* A class task is in one place at every moment: no two consumers ever     *)
(* hold it, a task in the total never comes back, and only a cancelled     *)
(* phase loses sight of one.                                               *)
THEOREM TaskAccountedAlways == Spec => []TaskAccounted
BY AccountedFor, Invariant, PTL

(* A task enters the phase total before anything reports it completed, so  *)
(* the progress of the phase never passes 100%.                            *)
THEOREM RegisteredFirstAlways == Spec => []RegisteredFirst
<1>1. IInv => RegisteredFirst
    BY DEF IInv, RegisteredFirst, Registers, Owed, Out
<1> QED
    BY <1>1, Invariant, PTL

LEMMA NothingLeft ==
    ASSUME IInv, at = "returned"
    PROVE  /\ \A c \in Consumer : pc[c] = "gone" /\ InHand(c) = {}
           /\ Buffered = {} /\ Completing = {} /\ Out = {}
           /\ published = Credited /\ completed = Cardinality(published)
<1>1. \A c \in Consumer : pc[c] = "gone"
    BY DEF IInv, Stage, AllGone
<1>2. \A c \in Consumer : mine[c] = << >> /\ ch = << >>
    BY <1>1 DEF IInv, Crew
<1>3. 1 \in Consumer
    BY Sizes DEF Consumer
<1>4. \A c \in Consumer : InHand(c) = {}
    BY <1>2, EmptyHolds DEF InHand
<1>5. DOMAIN ch = {}
    BY <1>2, <1>3
<1>6. Buffered = {}
    BY <1>5 DEF Buffered
<1>7. Completing = {} /\ Out = {}
    BY <1>1, <1>4, <1>6 DEF Completing, Out
<1>8. published = Credited
    BY <1>1 DEF IInv, Reports
<1>9. completed = Cardinality(published)
    <2>1. completed \in Nat /\ Cardinality(Completing) = 0 /\ Cardinality(published) \in Nat
        BY <1>7, FS_EmptySet, CountsFinite DEF IInv, TypeOK
    <2> QED
        BY <2>1 DEF IInv, CompletedCount
<1> QED
    BY <1>1, <1>4, <1>6, <1>7, <1>8, <1>9

(* A phase that was not cancelled counts every class task in full and ends *)
(* at exactly 100%.                                                        *)
THEOREM CompleteRunAlways == Spec => []CompleteRun
<1>1. IInv => CompleteRun
    <2> SUFFICES ASSUME IInv, at = "returned", ~cancelled
                 PROVE  /\ \A t \in Task : credit[t] = "full"
                        /\ published = Task
                        /\ completed = tasks /\ tasks = Cardinality(Task)
        BY DEF CompleteRun
    <2>1. /\ \A c \in Consumer : InHand(c) = {}
          /\ Buffered = {} /\ Out = {} /\ published = Credited /\ completed = Cardinality(published)
        BY NothingLeft
    <2>2. Ahead = {} /\ Collected = {}
        BY EmptyHolds DEF IInv, Stage, Collected
    <2>3. \A t \in Task : t \in Credited /\ credit[t] # "partial"
        BY <2>1, <2>2 DEF IInv, Credits, Waiting
    <2>4. \A t \in Task : credit[t] = "full"
        BY <2>3 DEF IInv, TypeOK, Credited
    <2>5. Credited = Task
        BY <2>3 DEF Credited
    <2>6. Cardinality(Out) = 0 /\ completed \in Nat
        BY <2>1, FS_EmptySet DEF IInv, TypeOK
    <2>7. tasks = completed
        BY <2>6 DEF IInv, Registers, Owed
    <2> QED
        BY <2>1, <2>4, <2>5, <2>7
<1> QED
    BY <1>1, Invariant, PTL

(* However the phase ends, the paths the monitor was told are those of the *)
(* returned total, task by task, and none is half reported.                *)
THEOREM TotalIsPublishedAlways == Spec => []TotalIsPublished
<1>1. IInv => TotalIsPublished
    BY NothingLeft DEF TotalIsPublished, Credited
<1> QED
    BY <1>1, Invariant, PTL

-----------------------------------------------------------------------------
(* The refinement: a task is active from BeginTask to Complete.            *)
Busy(c) == pc[c] \in {"count", "publish", "complete"}
Returned == at = "returned"

LEMMA StatusKeeps ==
    ASSUME Credited' = Credited,
           \A c \in Consumer : (Busy(c)' <=> Busy(c)) /\ (Busy(c) => mine'[c] = mine[c])
    PROVE  Status' = Status
<1>1. ASSUME NEW t \in Task
      PROVE  (credit'[t] # "none") <=> (credit[t] # "none")
    BY DEF Credited
<1>2. ASSUME NEW t \in Task
      PROVE  (\E c \in Consumer : Busy(c)' /\ Head(mine'[c]) = t) <=> (\E c \in Consumer : Busy(c) /\ Head(mine[c]) = t)
    OBVIOUS
<1> QED
    BY <1>1, <1>2 DEF Status, Busy

(* BeginTask takes the head of the batch, which nobody has credited and    *)
(* nobody else holds.                                                      *)
LEMMA RefineBegin ==
    ASSUME IInv, NEW c \in Consumer, BeginTask(c)
    PROVE  \E t \in Task : Once!Take(t)
<1> DEFINE h == Head(mine[c])
<1>1. /\ pc[c] = "next" /\ mine[c] # << >> /\ pc' = [pc EXCEPT ![c] = "count"] /\ mine' = mine
      /\ credit' = credit /\ cancelled' = cancelled /\ at' = at
    BY DEF BeginTask, GoTo, prodVars
<1>2. h \in InHand(c) /\ h \in Task
    BY <1>1, HeadHolds DEF IInv, TypeOK, InHand
<1>3. credit[h] = "none"
    BY <1>1, <1>2 DEF IInv, Credits, Credited, Began
<1>4. ~Busy(c) /\ Busy(c)' /\ \A d \in Consumer \ {c} : Busy(d)' <=> Busy(d)
    BY <1>1 DEF Busy, IInv, TypeOK
<1>5. ASSUME NEW d \in Consumer \ {c}, Busy(d)
      PROVE  Head(mine[d]) # h
    <2>1. Head(mine[d]) \in InHand(d)
        BY <1>5, HeadHolds DEF IInv, Crew, TypeOK, Busy, InHand
    <2> QED
        BY <1>2, <2>1 DEF IInv, Apart
<1>6. Status[h] = "todo"
    BY <1>2, <1>3, <1>4, <1>5 DEF Status, Busy
<1>7. Status' = [Status EXCEPT ![h] = "active"]
    <2>1. ASSUME NEW t \in Task
          PROVE  (\E d \in Consumer : Busy(d)' /\ Head(mine'[d]) = t)
                 <=> (t = h \/ \E d \in Consumer : Busy(d) /\ Head(mine[d]) = t)
        BY <1>1, <1>4
    <2> QED
        BY <1>1, <1>2, <2>1 DEF Status, Busy
<1>8. at # "returned"
    BY <1>1 DEF IInv, Stage, AllGone
<1> QED
    BY <1>1, <1>2, <1>6, <1>7, <1>8 DEF Once!Take

LEMMA RefineComplete ==
    ASSUME IInv, NEW c \in Consumer, Complete(c)
    PROVE  \E t \in Task : Once!Finish(t)
<1> DEFINE h == Head(mine[c])
<1>1. /\ pc[c] = "complete" /\ mine[c] # << >> /\ pc' = [pc EXCEPT ![c] = "next"]
      /\ mine' = [mine EXCEPT ![c] = Tail(@)]
      /\ credit' = credit /\ cancelled' = cancelled /\ at' = at
    BY DEF Complete, GoTo, prodVars, IInv, Crew
<1>2. h \in InHand(c) /\ h \in Task
    BY <1>1, HeadHolds DEF IInv, TypeOK, InHand
<1>3. credit[h] # "none"
    BY <1>1, <1>2 DEF IInv, Credits, Credited, Began
<1>4. /\ Busy(c) /\ ~Busy(c)' /\ \A d \in Consumer \ {c} : (Busy(d)' <=> Busy(d)) /\ mine'[d] = mine[d]
    BY <1>1 DEF Busy, IInv, TypeOK
<1>5. ASSUME NEW d \in Consumer \ {c}, Busy(d)
      PROVE  Head(mine[d]) # h
    <2>1. Head(mine[d]) \in InHand(d)
        BY <1>5, HeadHolds DEF IInv, Crew, TypeOK, Busy, InHand
    <2> QED
        BY <1>2, <2>1 DEF IInv, Apart
<1>6. Status[h] = "active"
    BY <1>2, <1>4 DEF Status, Busy
<1>7. Status' = [Status EXCEPT ![h] = "done"]
    <2>1. ASSUME NEW t \in Task
          PROVE  (\E d \in Consumer : Busy(d)' /\ Head(mine'[d]) = t)
                 <=> (t # h /\ \E d \in Consumer : Busy(d) /\ Head(mine[d]) = t)
        BY <1>4, <1>5
    <2> QED
        BY <1>1, <1>2, <1>3, <2>1 DEF Status, Busy
<1> QED
    BY <1>1, <1>2, <1>6, <1>7 DEF Once!Finish

LEMMA RefineReturn ==
    ASSUME IInv, Wait
    PROVE  Once!Return
<1>1. /\ at = "wait" /\ at' = "returned" /\ cancelled' = cancelled /\ pc' = pc /\ mine' = mine /\ credit' = credit
      /\ \A c \in Consumer : pc[c] = "gone"
    BY DEF Wait, AllGone, consVars
<1>2. \A c \in Consumer : ~Busy(c) /\ InHand(c) = {} /\ ch = << >>
    BY <1>1, EmptyHolds DEF Busy, IInv, Crew, InHand
<1>3. ch = << >>
    BY <1>2, Sizes DEF Consumer
<1>4. \A t \in Task : Status[t] # "active"
    BY <1>2 DEF Status, Busy
<1>5. cancelled \/ \A t \in Task : Status[t] = "done"
    <2> SUFFICES ASSUME ~cancelled, NEW t \in Task
                 PROVE  Status[t] = "done"
        OBVIOUS
    <2>1. Ahead = {} /\ Collected = {}
        BY <1>1, EmptyHolds DEF IInv, Stage, Collected
    <2>2. DOMAIN ch = {}
        BY <1>3
    <2>3. Buffered = {}
        BY <2>2 DEF Buffered
    <2>4. t \in Credited
        BY <1>2, <2>1, <2>3 DEF IInv, Credits, Waiting
    <2> QED
        BY <1>2, <2>4 DEF Status, Busy, Credited
<1>6. Status' = Status
    BY <1>1 DEF Status
<1> QED
    BY <1>1, <1>4, <1>5, <1>6 DEF Once!Return

LEMMA RefineStep == IInv /\ [Next]_vars => [Once!Next]_Once!vars
<1> SUFFICES ASSUME IInv, [Next]_vars
             PROVE  Once!Next \/ UNCHANGED Once!vars
    OBVIOUS
<1>1. CASE Cancel
    <2>1. cancelled' = TRUE /\ at' = at /\ Status' = Status
        BY <1>1 DEF Cancel, prodVars, consVars, Status
    <2> QED
        BY <2>1 DEF Once!Next, Once!Stop
<1>2. CASE NextShard \/ EndWalk \/ NextRecord \/ Yield \/ Register \/ Send \/ AbandonSend \/ Tail_ \/ Close
           \/ UNCHANGED vars
    <2>1. cancelled' = cancelled /\ Status' = Status
        BY <1>2 DEF NextShard, EndWalk, NextRecord, Yield, Register, Send, AbandonSend, Tail_, Close, vars,
            consVars, Status
    <2>2. Returned' <=> Returned
        BY <1>2 DEF NextShard, EndWalk, NextRecord, Yield, Register, Send, AbandonSend, Tail_, Close, vars,
            prodVars, Returned, IInv, Stage
    <2> QED
        BY <2>1, <2>2 DEF Once!vars, Returned
<1>3. CASE Wait
    BY <1>3, RefineReturn DEF Once!Next
<1>4. ASSUME NEW c \in Consumer, BeginTask(c)
      PROVE  Once!Next
    BY <1>4, RefineBegin DEF Once!Next
<1>5. ASSUME NEW c \in Consumer, Complete(c)
      PROVE  Once!Next
    BY <1>5, RefineComplete DEF Once!Next
<1>6. ASSUME NEW c \in Consumer, Receive(c) \/ LeaveRange(c) \/ SkipTask(c) \/ NextBatch(c) \/ Publish(c)
      PROVE  UNCHANGED Once!vars
    <2>1. cancelled' = cancelled /\ at' = at /\ credit' = credit
        BY <1>6 DEF Receive, LeaveRange, SkipTask, NextBatch, Publish, prodVars
    <2>2. \A d \in Consumer : (Busy(d)' <=> Busy(d)) /\ (Busy(d) => mine'[d] = mine[d])
        BY <1>6 DEF Receive, LeaveRange, SkipTask, NextBatch, Publish, GoTo, Busy, IInv, TypeOK
    <2>3. Status' = Status
        BY <2>1, <2>2, StatusKeeps DEF Credited
    <2> QED
        BY <2>1, <2>3 DEF Once!vars
<1>7. ASSUME NEW c \in Consumer, FoldTask(c)
      PROVE  UNCHANGED Once!vars
    <2>1. Credited' = Credited \cup {Head(mine[c])} /\ Head(mine[c]) \in Task
        BY <1>7, FoldCredits DEF IInv
    <2>2. /\ cancelled' = cancelled /\ at' = at /\ mine' = mine
          /\ pc[c] = "count" /\ pc' = [pc EXCEPT ![c] = "publish"]
        BY <1>7 DEF FoldTask, GoTo, prodVars
    <2>3. Busy(c) /\ Busy(c)' /\ \A d \in Consumer : Busy(d)' <=> Busy(d)
        BY <2>2 DEF Busy, IInv, TypeOK
    <2>4. ASSUME NEW t \in Task, t # Head(mine[c])
          PROVE  (credit'[t] # "none") <=> (credit[t] # "none")
        BY <2>1, <2>4 DEF Credited
    <2>5. Status' = Status
        BY <2>2, <2>3, <2>4 DEF Status, Busy
    <2> QED
        BY <2>2, <2>5 DEF Once!vars
<1> QED
    BY <1>1, <1>2, <1>3, <1>4, <1>5, <1>6, <1>7 DEF Next, Producer, Consume

LEMMA RefineInit == Init => Once!Init
<1> SUFFICES ASSUME Init
             PROVE  Once!Init
    OBVIOUS
<1>1. /\ at = "walk" /\ \A c \in Consumer : pc[c] = "recv"
      /\ \A t \in Task : credit[t] = "none"
    BY DEF Init
<1>2. cancelled \in BOOLEAN
    BY Zenon DEF Init
<1>3. Status = [t \in Task |-> "todo"]
    BY <1>1 DEF Status
<1> QED
    BY <1>1, <1>2, <1>3 DEF Once!Init

(* workerpool.Fanout under countTasks hands every class task to at most    *)
(* one consumer and, unless ctx ends it, processes all of them before it   *)
(* returns: it implements exactly-once distribution.                       *)
THEOREM Refinement == Spec => ImplementsWorkOnce
<1>1. IInv /\ [Next]_vars => [Once!Next]_Once!vars
    BY RefineStep
<1> QED
    BY <1>1, RefineInit, Invariant, PTL DEF Spec, ImplementsWorkOnce, Once!Spec
=============================================================================
