-------------------------- MODULE CheckGateProofs --------------------------
(* The promises of CheckGate for every set of lines, of any length, every  *)
(* tree and every number of stamps.                                        *)
EXTENDS CheckGate, TLAPS

LEMMA LinesTyped == \A l \in Lines \cup {<< >>} : l \in Seq(Segment)
<1>1. << >> \in Seq(Segment)
    OBVIOUS
<1>2. Lines \subseteq Seq(Segment)
    BY CheckGateAssumption
<1> QED
    BY <1>1, <1>2

LEMMA StampFields ==
    ASSUME NEW s \in Stamp
    PROVE  /\ Without(s) \in Fingerprint /\ s.quiet \in BOOLEAN /\ s.skipped \in BOOLEAN
           /\ Without(s).work = s.work /\ Without(s).index = s.index
           /\ s.work \in Contents /\ s.index \in Contents
<1>1. s.work \in Contents /\ s.index \in Contents
    BY DEF Stamp
<1>2. s.quiet \in BOOLEAN
    BY Zenon DEF Stamp
<1>3. s.skipped \in BOOLEAN
    BY Zenon DEF Stamp
<1> QED
    BY <1>1, <1>2, <1>3 DEF Without, Fingerprint

LEMMA EvictedStamps ==
    ASSUME NEW S, NEW s \in Seq(S), NEW x \in S, Len(s) <= StampLimit
    PROVE  /\ Evicted(Append(s, x)) \in Seq(S)
           /\ Len(Evicted(Append(s, x))) <= StampLimit
<1>1. Append(s, x) \in Seq(S) /\ Len(Append(s, x)) = Len(s) + 1 /\ Append(s, x) # << >>
    OBVIOUS
<1>2. CASE Len(Append(s, x)) > StampLimit
    <2>1. Tail(Append(s, x)) \in Seq(S) /\ Len(Tail(Append(s, x))) = Len(s)
        BY <1>1
    <2> QED
        BY <1>2, <2>1 DEF Evicted
<1>3. CASE ~(Len(Append(s, x)) > StampLimit)
    BY <1>1, <1>3, CheckGateAssumption DEF Evicted
<1> QED
    BY <1>2, <1>3

(* The shell goes on to the next segment, or behind the last one. *)
LEMMA Advance ==
    ASSUME TypeOK, at \in DOMAIN line, at' = at + 1, line' = line
    PROVE  at' \in 1 .. Len(line') + 1
<1>1. line \in Seq(Segment)
    BY LinesTyped DEF TypeOK
<1> QED
    BY <1>1

LEMMA TypeInit == Init => TypeOK
<1>1. Init => skipped \in BOOLEAN
    BY Zenon DEF Init
<1> QED
    BY <1>1, CheckGateAssumption DEF Init, TypeOK

LEMMA SkippedTyped == TypeOK /\ [Next]_vars => skipped' \in BOOLEAN
<1> SUFFICES ASSUME TypeOK, [Next]_vars
             PROVE  skipped' \in BOOLEAN
    OBVIOUS
<1> USE DEF historyVars
<1>1. skipped \in BOOLEAN
    BY DEF TypeOK
<1>2. ASSUME NEW l \in Lines, BeforePlain(l)
      PROVE  skipped' \in BOOLEAN
    BY <1>2, Zenon DEF BeforePlain, Call
<1>3. ASSUME NEW l \in Lines, BeforeCommit(l)
      PROVE  skipped' \in BOOLEAN
    <2>1. PICK k \in DOMAIN stamps : skipped' = stamps[k].skipped
        BY <1>3 DEF BeforeCommit, Call, Green
    <2>2. stamps[k] \in Stamp
        BY DEF TypeOK
    <2>3. stamps[k].skipped \in BOOLEAN
        BY <2>2, StampFields
    <2> QED
        BY <2>1, <2>3, Zenon
<1>4. CASE Skip
    BY <1>4, Zenon DEF Skip
<1>5. CASE CheckSucceeds
    BY <1>5, Zenon DEF CheckSucceeds
<1>6. CASE After \/ Abort \/ Restart
    BY <1>6, Zenon DEF After, Abort, Restart, Call
<1>7. CASE (\E result \in {"green", "red"} : CheckBegins(result)) \/ CheckFails \/ Commit
           \/ Add \/ Edit \/ Fails \/ MoveBetween \/ MoveDuring \/ UNCHANGED vars
    <2>1. skipped' = skipped
        BY <1>7 DEF CheckBegins, CheckFails, Commit, Add, Edit, Fails, MoveBetween, MoveDuring, vars
    <2> QED
        BY <1>1, <2>1, Zenon
<1> QED
    BY <1>2, <1>3, <1>4, <1>5, <1>6, <1>7 DEF Next, Shell

LEMMA TypeNext == TypeOK /\ [Next]_vars => TypeOK'
<1> SUFFICES ASSUME TypeOK, [Next]_vars
             PROVE  TypeOK'
    OBVIOUS
<1> USE DEF TypeOK, treeVars, historyVars
<1> at \in Nat /\ line \in Seq(Segment) /\ skipped' \in BOOLEAN
    BY LinesTyped, SkippedTyped
<1>1. ASSUME NEW l \in Lines, BeforePlain(l)
      PROVE  TypeOK'
    BY <1>1, LinesTyped DEF BeforePlain, Call
<1>2. ASSUME NEW l \in Lines, BeforeCommit(l)
      PROVE  TypeOK'
    <2>1. PICK k \in DOMAIN stamps : Call(l, {Without(stamps[k])}, stamps[k].quiet, stamps[k].skipped)
        BY <1>2 DEF BeforeCommit, Green
    <2>2. /\ Without(stamps[k]) \in Fingerprint
          /\ stamps[k].quiet \in BOOLEAN /\ stamps[k].skipped \in BOOLEAN
        <3>1. stamps[k] \in Stamp
            OBVIOUS
        <3> QED
            BY <3>1, StampFields
    <2>3. line' \in Lines /\ at' \in 1 .. Len(line') + 1
        BY <1>2, <2>1, LinesTyped DEF Call
    <2> QED
        BY <1>2, <2>1, <2>2, <2>3 DEF BeforeCommit, Call
<1>3. CASE Skip
    BY <1>3, Advance DEF Skip, PassesOver
<1>4. ASSUME NEW result \in {"green", "red"}, CheckBegins(result)
      PROVE  TypeOK'
    BY <1>4, CheckGateAssumption DEF CheckBegins
<1>5. CASE CheckFails
    BY <1>5, Advance DEF CheckFails, At, Done
<1>6. CASE CheckSucceeds
    BY <1>6 DEF CheckSucceeds, At, Done, Now, Fingerprint
<1>7. CASE Commit
    BY <1>7 DEF Commit, At, Done
<1>8. CASE Add
    BY <1>8 DEF Add, At, Done
<1>9. CASE Edit
    BY <1>9 DEF Edit, At, Done
<1>10. CASE Fails
    BY <1>10, Advance DEF Fails, At, Done
<1>11. CASE After
    <2>1. [work |-> work, index |-> index, quiet |-> quiet, skipped |-> skipped] \in Stamp
        BY DEF Stamp
    <2>2. stamps' \in Seq(Stamp) /\ Len(stamps') <= StampLimit
        BY <1>11, <2>1, EvictedStamps DEF After
    <2> QED
        BY <1>11, <2>2 DEF After, Call
<1>12. CASE Abort
    BY <1>12 DEF Abort, Call
<1>13. CASE Restart
    BY <1>13, CheckGateAssumption DEF Restart, Call
<1>14. CASE MoveBetween
    BY <1>14 DEF MoveBetween
<1>15. CASE MoveDuring
    BY <1>15 DEF MoveDuring
<1>16. CASE UNCHANGED vars
    BY <1>16 DEF vars
<1> QED
    BY <1>1, <1>2, <1>3, <1>4, <1>5, <1>6, <1>7, <1>8, <1>9, <1>10, <1>11, <1>12, <1>13,
       <1>14, <1>15, <1>16
    DEF Next, Shell

(* The state of the plugin, the shell and the tree is well typed and the   *)
(* stamps never outgrow GREEN_STAMP_LIMIT.                                 *)
THEOREM TypeCorrect == Spec => []TypeOK
BY TypeInit, TypeNext, PTL DEF Spec

-----------------------------------------------------------------------------
(* Why the promises hold, while a line is being executed: a running check  *)
(* that will succeed has read a passing tree; what the line rests on has   *)
(* been checked and the tree has not left it since; and there is something *)
(* to rest on in a line with a commit that no check guards, and behind a   *)
(* check whose success is still the exit code, if the shell came to it.    *)
Idle == line = << >> => check = "no" /\ basis = {}
RunningCheck == check = "green" /\ calm => work \in Passing
BasisHolds ==
    quiet /\ ~skipped => \A f \in basis : f.work \in Passing /\ work = f.work /\ CarriesOnly(f)
CheckIsBasis ==
    \A k \in Checks(line) :
        k < at /\ AllAnd(line, k + 1, at - 1) /\ exit => basis # {} \/ skipped
StampIsBasis == Unguarded(line) # {} => basis # {}

IInv ==
    /\ TypeOK /\ StampsAreGreen
    /\ Idle /\ RunningCheck /\ BasisHolds /\ CheckIsBasis /\ StampIsBasis

LEMMA NothingInNoLine == Checks(<< >>) = {} /\ Unguarded(<< >>) = {}
BY DEF Checks, Unguarded

LEMMA InvInit == Init => IInv
<1> SUFFICES ASSUME Init
             PROVE  IInv
    OBVIOUS
<1>1. StampsAreGreen /\ Idle /\ RunningCheck /\ BasisHolds
    BY DEF Init, StampsAreGreen, Idle, RunningCheck, BasisHolds
<1>2. CheckIsBasis /\ StampIsBasis
    BY NothingInNoLine DEF Init, CheckIsBasis, StampIsBasis
<1> QED
    BY <1>1, <1>2, TypeInit DEF IInv

LEMMA IdleNext == IInv /\ [Next]_vars => Idle'
<1> SUFFICES ASSUME IInv, [Next]_vars
             PROVE  Idle'
    OBVIOUS
<1> USE DEF IInv, Idle, treeVars, historyVars
<1>1. ASSUME NEW l \in Lines, BeforePlain(l) \/ BeforeCommit(l)
      PROVE  Idle'
    BY <1>1, CheckGateAssumption DEF BeforePlain, BeforeCommit, Call
<1>2. CASE Shell
    <2>1. line # << >> /\ line' = line
        BY <1>2 DEF Shell, Skip, CheckBegins, CheckFails, CheckSucceeds, Commit, Add, Edit,
                    Fails, At, Done
    <2> QED
        BY <2>1
<1>3. CASE After \/ Abort \/ Restart
    BY <1>3 DEF After, Abort, Restart, Call
<1>4. CASE MoveBetween \/ MoveDuring \/ UNCHANGED vars
    BY <1>4 DEF MoveBetween, MoveDuring, vars
<1> QED
    BY <1>1, <1>2, <1>3, <1>4 DEF Next

LEMMA RunningCheckNext == IInv /\ [Next]_vars => RunningCheck'
<1> SUFFICES ASSUME IInv, [Next]_vars
             PROVE  RunningCheck'
    OBVIOUS
<1> USE DEF IInv, RunningCheck, treeVars, historyVars
<1>1. ASSUME NEW l \in Lines, BeforePlain(l) \/ BeforeCommit(l)
      PROVE  RunningCheck'
    BY <1>1 DEF BeforePlain, BeforeCommit, Call
<1>2. ASSUME NEW result \in {"green", "red"}, CheckBegins(result)
      PROVE  RunningCheck'
    BY <1>2 DEF CheckBegins
<1>3. CASE CheckFails \/ CheckSucceeds \/ Commit \/ Add \/ Edit \/ Fails
    BY <1>3 DEF CheckFails, CheckSucceeds, Commit, Add, Edit, Fails, Done
<1>4. CASE After \/ Abort \/ Restart
    BY <1>4 DEF After, Abort, Restart, Call
<1>5. CASE MoveBetween \/ MoveDuring
    BY <1>5 DEF MoveBetween, MoveDuring, Idle
<1>6. CASE Skip \/ UNCHANGED vars
    BY <1>6 DEF Skip, vars
<1> QED
    BY <1>1, <1>2, <1>3, <1>4, <1>5, <1>6 DEF Next, Shell

LEMMA CheckIsBasisNext == IInv /\ [Next]_vars => CheckIsBasis'
<1> SUFFICES ASSUME IInv, [Next]_vars,
                    NEW k \in Checks(line'), k < at', AllAnd(line', k + 1, at' - 1), exit'
             PROVE  basis' # {} \/ skipped'
    BY DEF CheckIsBasis
<1> USE DEF treeVars, historyVars
<1>1. /\ line \in Seq(Segment) /\ at \in Nat /\ at >= 1
      /\ \A l \in Lines \cup {<< >>} : \A i \in Checks(l) : i \in Nat /\ i >= 1
    BY LinesTyped DEF IInv, TypeOK, Checks
<1>2. ASSUME NEW l \in Lines \cup {<< >>}, line' = l, at' = 1
      PROVE  FALSE
    BY <1>1, <1>2
<1>3. ASSUME at \in DOMAIN line, at' = at + 1, line' = line, k < at
      PROVE  line[at].sep = "&&" /\ AllAnd(line, k + 1, at - 1) /\ at # 1
    <2>1. k \in Nat /\ k >= 1
        BY <1>1, <1>3 DEF IInv, TypeOK
    <2>2. \A i \in k + 1 .. at : line[i].sep = "&&"
        BY <1>1, <1>3, <2>1 DEF AllAnd
    <2> QED
        BY <1>1, <1>3, <2>1, <2>2 DEF AllAnd
<1>4. ASSUME at' = at + 1, line' = line
      PROVE  k < at \/ k = at
    <2>1. k \in Nat
        BY <1>1, <1>4 DEF IInv, TypeOK
    <2> QED
        BY <1>1, <1>4, <2>1
<1>5. CASE Skip
    <2>1. CASE k < at
        <3>1. ~exit
            BY <1>3, <1>5, <2>1 DEF Skip, Runs
        <3> QED
            BY <1>5, <3>1 DEF Skip
    <2>2. CASE k = at
        <3>1. line[at].cmd = "check"
            BY <1>5, <2>2 DEF Skip, Checks
        <3> QED
            BY <1>5, <3>1 DEF Skip, PassesOver
    <2> QED
        BY <1>4, <1>5, <2>1, <2>2 DEF Skip
<1>6. CASE CheckFails \/ Fails
    BY <1>6 DEF CheckFails, Fails, Done
<1>7. CASE CheckSucceeds
    BY <1>7 DEF CheckSucceeds
<1>8. CASE Commit \/ Add \/ Edit
    <2>1. /\ at \in DOMAIN line /\ at' = at + 1 /\ line' = line /\ Runs
          /\ line[at].cmd # "check" /\ basis' = basis /\ skipped' = skipped
        BY <1>8 DEF Commit, Add, Edit, At, Done
    <2>2. k < at
        BY <1>4, <2>1 DEF Checks
    <2>3. exit
        BY <1>3, <2>1, <2>2 DEF Runs
    <2>4. k \in Checks(line) /\ AllAnd(line, k + 1, at - 1)
        BY <1>3, <2>1, <2>2
    <2> QED
        BY <2>1, <2>2, <2>3, <2>4 DEF IInv, CheckIsBasis
<1>9. CASE (\E result \in {"green", "red"} : CheckBegins(result))
           \/ MoveBetween \/ MoveDuring \/ UNCHANGED vars
    <2>1. line' = line /\ at' = at /\ exit' = exit /\ basis' = basis /\ skipped' = skipped
        BY <1>9 DEF CheckBegins, MoveBetween, MoveDuring, vars
    <2> QED
        BY <2>1 DEF IInv, CheckIsBasis
<1>10. CASE After \/ Abort \/ Restart
    BY <1>2, <1>10 DEF After, Abort, Restart, Call
<1>11. ASSUME NEW l \in Lines, BeforePlain(l) \/ BeforeCommit(l)
       PROVE  FALSE
    BY <1>2, <1>11 DEF BeforePlain, BeforeCommit, Call
<1> QED
    BY <1>5, <1>6, <1>7, <1>8, <1>9, <1>10, <1>11 DEF Next, Shell

LEMMA StampIsBasisNext == IInv /\ [Next]_vars => StampIsBasis'
<1> SUFFICES ASSUME IInv, [Next]_vars
             PROVE  StampIsBasis'
    OBVIOUS
<1> USE DEF IInv, StampIsBasis, treeVars, historyVars
<1>1. ASSUME NEW l \in Lines, BeforePlain(l) \/ BeforeCommit(l)
      PROVE  StampIsBasis'
    BY <1>1 DEF BeforePlain, BeforeCommit, Call
<1>2. CASE CheckSucceeds
    BY <1>2 DEF CheckSucceeds
<1>3. CASE Skip \/ CheckFails \/ Commit \/ Add \/ Edit \/ Fails
           \/ \E result \in {"green", "red"} : CheckBegins(result)
    BY <1>3 DEF Skip, CheckFails, CheckBegins, Commit, Add, Edit, Fails, Done
<1>4. CASE After \/ Abort \/ Restart
    BY <1>4, NothingInNoLine DEF After, Abort, Restart, Call
<1>5. CASE MoveBetween \/ MoveDuring \/ UNCHANGED vars
    BY <1>5 DEF MoveBetween, MoveDuring, vars
<1> QED
    BY <1>1, <1>2, <1>3, <1>4, <1>5 DEF Next, Shell

(* A stamp that matches: the tree is as checked, and nothing is staged     *)
(* that was neither checked nor staged by then.                            *)
LEMMA MatchingStamp ==
    ASSUME IInv, NEW k \in Green
    PROVE  LET f == Without(stamps[k])
           IN  /\ stamps[k] \in Stamp
               /\ work = f.work /\ CarriesOnly(f)
               /\ stamps[k].quiet /\ ~stamps[k].skipped => f.work \in Passing
<1>1. stamps[k] \in Stamp /\ k \in DOMAIN stamps
    BY DEF Green, IInv, TypeOK
<1>2. Now.work = work /\ Now.index = index
    BY DEF Now
<1>3. work = stamps[k].work
    BY <1>2 DEF Green, fingerprintMatches
<1>4. ASSUME NEW p \in Path
      PROVE  index[p] \in {stamps[k].work[p], stamps[k].index[p]}
    BY <1>2, <1>3 DEF Green, fingerprintMatches, Moved, unstagedChanges
<1>5. stamps[k].quiet /\ ~stamps[k].skipped => stamps[k].work \in Passing
    BY <1>1 DEF IInv, StampsAreGreen
<1> QED
    BY <1>1, <1>3, <1>4, <1>5, StampFields DEF CarriesOnly

LEMMA BasisHoldsNext == IInv /\ [Next]_vars => BasisHolds'
<1> SUFFICES ASSUME IInv, [Next]_vars,
                    quiet', ~skipped', NEW f \in basis'
             PROVE  f.work \in Passing /\ work' = f.work /\ CarriesOnly(f)'
    BY DEF BasisHolds
<1> USE DEF treeVars, historyVars
<1>1. ASSUME NEW l \in Lines, BeforePlain(l)
      PROVE  FALSE
    BY <1>1 DEF BeforePlain, Call
<1>2. ASSUME NEW l \in Lines, BeforeCommit(l)
      PROVE  f.work \in Passing /\ work' = f.work /\ CarriesOnly(f)'
    <2>1. PICK k \in Green : Call(l, {Without(stamps[k])}, stamps[k].quiet, stamps[k].skipped)
        BY <1>2 DEF BeforeCommit
    <2>2. f = Without(stamps[k]) /\ stamps[k].quiet /\ ~stamps[k].skipped
        BY <2>1 DEF Call
    <2>3. work' = work /\ index' = index
        BY <1>2 DEF BeforeCommit
    <2> QED
        BY <2>2, <2>3, MatchingStamp DEF CarriesOnly
<1>3. ASSUME quiet, ~skipped, basis' = basis
      PROVE  f.work \in Passing /\ work = f.work /\ CarriesOnly(f)
    BY <1>3 DEF IInv, BasisHolds
<1>4. CASE CheckSucceeds
    <2>1. f = Now /\ work' = work /\ index' = index /\ check = "green" /\ calm
        BY <1>4 DEF CheckSucceeds
    <2>2. work \in Passing
        BY <2>1 DEF IInv, RunningCheck
    <2> QED
        BY <2>1, <2>2 DEF Now, CarriesOnly
<1>5. CASE Add
    <2>1. quiet /\ ~skipped /\ basis' = basis /\ work' = work /\ index' = work
        BY <1>5 DEF Add
    <2> QED
        BY <1>3, <2>1 DEF CarriesOnly
<1>6. CASE Edit \/ \E result \in {"green", "red"} : CheckBegins(result)
    <2>0. ~skipped
        BY <1>6, Zenon DEF Edit, CheckBegins
    <2>1. quiet /\ ~skipped /\ basis' = basis /\ work' = work /\ index' = index
        BY <1>6, <2>0 DEF Edit, CheckBegins
    <2> QED
        BY <1>3, <2>1 DEF CarriesOnly
<1>7. CASE Skip \/ CheckFails \/ Commit \/ Fails \/ UNCHANGED vars
    <2>0. ~skipped
        BY <1>7, Zenon DEF Skip, CheckFails, Commit, Fails, vars
    <2>1. quiet /\ ~skipped /\ basis' = basis /\ work' = work /\ index' = index
        BY <1>7, <2>0 DEF Skip, CheckFails, Commit, Fails, vars
    <2> QED
        BY <1>3, <2>1 DEF CarriesOnly
<1>8. CASE After \/ Abort \/ Restart \/ MoveBetween \/ MoveDuring
    BY <1>8 DEF After, Abort, Restart, Call, MoveBetween, MoveDuring, IInv, Idle
<1> QED
    BY <1>1, <1>2, <1>4, <1>5, <1>6, <1>7, <1>8 DEF Next, Shell

GreenStamp == {s \in Stamp : s.quiet /\ ~s.skipped => s.work \in Passing}

LEMMA StampsAreGreenNext == IInv /\ [Next]_vars => StampsAreGreen'
<1> SUFFICES ASSUME IInv, [Next]_vars
             PROVE  StampsAreGreen'
    OBVIOUS
<1>1. ASSUME NEW s \in Seq(Stamp)
      PROVE  (\A k \in DOMAIN s : s[k].quiet /\ ~s[k].skipped => s[k].work \in Passing)
                 <=> s \in Seq(GreenStamp)
    BY <1>1 DEF GreenStamp
<1>2. stamps \in Seq(Stamp) /\ stamps' \in Seq(Stamp) /\ stamps \in Seq(GreenStamp)
    BY <1>1, TypeNext DEF IInv, TypeOK, StampsAreGreen
<1>3. CASE After /\ exit /\ Confirmed(line)
    <2>1. PICK i \in DOMAIN line : i \in Checks(line) /\ AllAnd(line, i + 1, Len(line))
        BY <1>3 DEF Confirmed, IsLastCheck, lineExitConfirmsCheck
    <2>2. i < at /\ at - 1 = Len(line)
        BY <1>3, <2>1, LinesTyped DEF After, IInv, TypeOK
    <2>3. basis # {} \/ skipped
        BY <1>3, <2>1, <2>2 DEF IInv, CheckIsBasis
    <2>4. quiet /\ ~skipped => work \in Passing
        BY <2>3 DEF IInv, BasisHolds
    <2> DEFINE s == [work |-> work, index |-> index, quiet |-> quiet, skipped |-> skipped]
    <2>5. s \in GreenStamp
        BY <2>4 DEF GreenStamp, Stamp, IInv, TypeOK
    <2>6. stamps' = Evicted(Append(stamps, s))
        BY <1>3 DEF After
    <2>7. stamps' \in Seq(GreenStamp)
        BY <1>2, <2>5, <2>6, EvictedStamps DEF IInv, TypeOK
    <2> QED
        BY <1>1, <1>2, <2>7 DEF StampsAreGreen
<1>4. CASE Restart
    BY <1>4 DEF Restart, StampsAreGreen
<1>5. CASE stamps' = stamps
    BY <1>5 DEF IInv, StampsAreGreen
<1>6. (After /\ exit /\ Confirmed(line)) \/ Restart \/ stamps' = stamps
    BY DEF Next, BeforePlain, BeforeCommit, Shell, Skip, CheckBegins, CheckFails,
           CheckSucceeds, Commit, Add, Edit, Fails, Done, After, Abort, MoveBetween,
           MoveDuring, vars
<1> QED
    BY <1>3, <1>4, <1>5, <1>6

LEMMA InvNext == IInv /\ [Next]_vars => IInv'
BY TypeNext, StampsAreGreenNext, IdleNext, RunningCheckNext,
   BasisHoldsNext, CheckIsBasisNext, StampIsBasisNext
DEF IInv

LEMMA Invariance == Spec => []IInv
BY InvInit, InvNext, PTL DEF Spec

(* Whatever stands around a check in its line, in whatever order commands  *)
(* fail and whoever else writes: a stamp attests a working copy on which   *)
(* make check succeeds, unless somebody wrote after the check had read or  *)
(* the shell passed over the check.                                        *)
THEOREM OnlyGreenStamps == Spec => []StampsAreGreen
<1>1. IInv => StampsAreGreen
    BY DEF IInv
<1> QED
    BY <1>1, Invariance, PTL

(* A commit rests on a green check, over a stamp or within its line, and   *)
(* takes only what that check saw or found staged, with the same two       *)
(* exceptions.                                                             *)
THEOREM CommitsRestOnChecks == Spec => CommitsAttested
<1>1. IInv /\ [Next]_vars =>
          [Commit /\ quiet /\ ~skipped =>
              basis # {} /\ \A f \in basis : f.work \in Passing /\ CarriesOnly(f)]_vars
    <2> SUFFICES ASSUME IInv, Commit, quiet, ~skipped
                 PROVE  basis # {} /\ \A f \in basis : f.work \in Passing /\ CarriesOnly(f)
        OBVIOUS
    <2>1. at \in DOMAIN line /\ line[at].cmd = "commit" /\ Runs
        BY DEF Commit, At
    <2>2. CASE at \in Unguarded(line)
        BY <2>2 DEF IInv, StampIsBasis, BasisHolds
    <2>3. CASE guardedByCheck(line, at)
        <3>1. line \in Seq(Segment) /\ at \in Nat
            BY LinesTyped DEF IInv, TypeOK
        <3>2. PICK i \in Checks(line) : i < at /\ AllAnd(line, i + 1, at)
            BY <2>3 DEF guardedByCheck
        <3>3. i \in Nat /\ i >= 1
            BY <3>1 DEF Checks
        <3>4. line[at].sep = "&&" /\ AllAnd(line, i + 1, at - 1)
            BY <3>1, <3>2, <3>3 DEF AllAnd
        <3>5. exit
            BY <2>1, <3>2, <3>3, <3>4 DEF Runs
        <3>6. basis # {}
            BY <3>2, <3>4, <3>5 DEF IInv, CheckIsBasis
        <3> QED
            BY <3>6 DEF IInv, BasisHolds
    <2> QED
        BY <2>1, <2>2, <2>3 DEF Unguarded
<1> QED
    BY <1>1, Invariance, PTL DEF Spec, CommitsAttested
=============================================================================
