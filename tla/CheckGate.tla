----------------------------- MODULE CheckGate -----------------------------
(***************************************************************************)
(* Gate G7 of the development plugin: a bash line that creates a commit is *)
(* let through only on the evidence of a green `make check`.  before looks *)
(* at the line and at the tree, then the shell executes the line segment   *)
(* by segment, then after looks at the exit code of the whole line and     *)
(* stamps the content the tree has by then.  Everybody else (the user,     *)
(* other sessions) writes into the tree at any time.                       *)
(*                                                                         *)
(* Stamps are contents without a root, so one tree is enough: a call in    *)
(* another tree is a call after a Move to that tree's content.             *)
(***************************************************************************)
EXTENDS Naturals, Sequences

CONSTANTS
    Path,          \* paths of the tree that git does not ignore
    Blob,          \* what a path can hold
    NoEntry,       \* no working copy; not in the index
    Passing,       \* working copies on which make check succeeds
    Lines,         \* bash lines: sequences of segments
    StampLimit,    \* GREEN_STAMP_LIMIT
    OthersMove     \* whether others write while a line is being executed

Contents == [Path -> Blob \cup {NoEntry}]
Fingerprint == [work : Contents, index : Contents]
Stamp == [work : Contents, index : Contents, quiet : BOOLEAN, skipped : BOOLEAN]
Segment == [cmd : {"check", "commit", "add", "edit"}, sep : {"&&", "||", ";", "|"}]

ASSUME CheckGateAssumption ==
    /\ NoEntry \notin Blob /\ Passing \subseteq Contents
    /\ Lines \subseteq Seq(Segment) \ {<< >>}
    /\ StampLimit \in Nat \ {0} /\ OthersMove \in BOOLEAN

Checks(l) == {i \in DOMAIN l : l[i].cmd = "check"}

VARIABLES
    work,      \* working copies
    index,     \* staged blobs, which the next commit takes
    stamps,    \* green: fingerprints in the order they were taken
    line,      \* the bash call in flight, << >> for none
    at,        \* the segment to come
    ran,       \* the segment before it was not skipped
    exit,      \* the last command's exit code is 0
    check,     \* the running make check and the result it will have
    basis,     \* history: what the line's commits rest on, see below
    quiet,     \* history: nobody has written into the tree since then
    calm,      \* history: nobody has since the running check began
    skipped    \* history: the shell passed over a check of the line, see below

(* basis is empty, or has the stamp that let the line through or, later,   *)
(* the tree as the line's own green check left it.  skipped says that the  *)
(* exit code 0 is not a check's: a check was passed over where there was   *)
(* nothing to rest on, and none has succeeded since.  A stamp inherits     *)
(* quiet and skipped from the line that takes it, a line from its stamp.   *)
treeVars == <<work, index>>
historyVars == <<basis, quiet, calm, skipped>>
vars == <<treeVars, stamps, line, at, ran, exit, check, historyVars>>

Now == [work |-> work, index |-> index]
Without(f) == [work |-> f.work, index |-> f.index]   \* a stamp without its history

TypeOK ==
    /\ work \in Contents /\ index \in Contents
    /\ stamps \in Seq(Stamp) /\ Len(stamps) <= StampLimit
    /\ line \in Lines \cup {<< >>} /\ at \in 1 .. Len(line) + 1
    /\ ran \in BOOLEAN /\ exit \in BOOLEAN
    /\ check \in {"no", "green", "red"}
    /\ basis \subseteq Fingerprint
    /\ quiet \in BOOLEAN /\ calm \in BOOLEAN /\ skipped \in BOOLEAN

Init ==
    /\ work \in Contents /\ index \in Contents
    /\ stamps = << >>
    /\ line = << >> /\ at = 1 /\ ran = TRUE /\ exit = TRUE /\ check = "no"
    /\ basis = {} /\ quiet = TRUE /\ calm = TRUE /\ skipped = FALSE
-----------------------------------------------------------------------------
(* What the plugin reads off a line. *)
IsLastCheck(l, i) == i \in Checks(l) /\ \A j \in Checks(l) : j <= i
AllAnd(l, first, last) == \A k \in first .. last : l[k].sep = "&&"

AnyExitConfirms(l, i) == TRUE   \* mutant
lineExitConfirmsCheck(l, i) == AllAnd(l, i + 1, Len(l))
Confirmed(l) == \E i \in DOMAIN l : IsLastCheck(l, i) /\ lineExitConfirmsCheck(l, i)

CheckSomewhereBefore(l, commit) == \E i \in Checks(l) : i < commit   \* mutant
guardedByCheck(l, commit) == \E i \in Checks(l) : i < commit /\ AllAnd(l, i + 1, commit)

Unguarded(l) == {i \in DOMAIN l : l[i].cmd = "commit" /\ ~guardedByCheck(l, i)}

(* What it reads off the tree: diff-files lists the entries of the index   *)
(* whose working copy differs.                                             *)
Listed(f) == {p \in Path : f.work[p] # NoEntry \/ f.index[p] # NoEntry}
unstagedChanges(f) == {p \in Path : f.index[p] # NoEntry /\ f.work[p] # f.index[p]}
Moved(stamped, current) == {p \in Path : current.index[p] # stamped.index[p]}

(* Every working copy as stamped; each index entry unmoved, or moved to    *)
(* exactly the checked content.                                            *)
fingerprintMatches(stamped, current) ==
    /\ Listed(stamped) = Listed(current)
    /\ current.work = stamped.work
    /\ \A p \in Moved(stamped, current) :
          current.index[p] # NoEntry /\ p \notin unstagedChanges(current)

Green == {k \in DOMAIN stamps : fingerprintMatches(stamps[k], Now)}
-----------------------------------------------------------------------------
Call(l, evidence, isQuiet, isSkipped) ==
    /\ line' = l /\ at' = 1 /\ ran' = TRUE /\ exit' = TRUE /\ check' = "no"
    /\ basis' = evidence /\ quiet' = isQuiet /\ calm' = TRUE /\ skipped' = isSkipped

(* before: requireGreenFingerprint.  A blocked line executes nothing and   *)
(* changes nothing, so it is no step here; the same when git fails.        *)
BeforePlain(l) ==
    /\ line = << >> /\ Unguarded(l) = {}
    /\ Call(l, {}, TRUE, FALSE)
    /\ UNCHANGED <<treeVars, stamps>>

BeforeCommit(l) ==
    /\ line = << >> /\ Unguarded(l) # {}
    /\ \E k \in Green : Call(l, {Without(stamps[k])}, stamps[k].quiet, stamps[k].skipped)
    /\ UNCHANGED <<treeVars, stamps>>

(* External: the shell.  && and || look at the last exit code, a pipeline  *)
(* runs or is skipped as a whole and its last command gives the code.      *)
Runs ==
    \/ at = 1 \/ line[at].sep = ";"
    \/ line[at].sep = "&&" /\ exit
    \/ line[at].sep = "||" /\ ~exit
    \/ line[at].sep = "|" /\ ran

At(cmd) == at \in DOMAIN line /\ line[at].cmd = cmd /\ Runs
Done(ok) ==
    at' = at + 1 /\ ran' = TRUE /\ exit' = ok /\ check' = "no" /\ UNCHANGED <<line, stamps>>

PassesOver == line[at].cmd = "check" /\ exit /\ basis = {}

Skip ==
    /\ at \in DOMAIN line /\ ~Runs
    /\ at' = at + 1 /\ ran' = FALSE
    /\ skipped' = (skipped \/ PassesOver)
    /\ UNCHANGED <<treeVars, stamps, line, exit, check, basis, quiet, calm>>

(* External: make check.  It formats and fixes the sources first; what it  *)
(* then reads decides, and it may fail for other reasons.                  *)
CheckBegins(result) ==
    /\ At("check") /\ check = "no"
    /\ work' \in Passing \cup {work}
    /\ result = "green" => work' \in Passing
    /\ check' = result
    /\ calm' = TRUE /\ quiet' = (quiet /\ work' = work)
    /\ UNCHANGED <<index, stamps, line, at, ran, exit, basis, skipped>>

CheckFails ==
    /\ At("check") /\ check = "red"
    /\ Done(FALSE)
    /\ UNCHANGED <<treeVars, historyVars>>

CheckSucceeds ==
    /\ At("check") /\ check = "green"
    /\ Done(TRUE)
    /\ basis' = {Now} /\ quiet' = calm /\ skipped' = FALSE
    /\ UNCHANGED <<treeVars, calm>>

Commit ==   \* external: git commit takes the index
    /\ At("commit")
    /\ Done(TRUE)
    /\ UNCHANGED <<treeVars, historyVars>>

Add ==   \* external: git add of everything
    /\ At("add")
    /\ index' = work
    /\ Done(TRUE)
    /\ UNCHANGED <<work, historyVars>>

Edit ==   \* external: sed -i, a redirection, a script
    /\ At("edit")
    /\ work' \in Contents
    /\ Done(TRUE)
    /\ quiet' = (quiet /\ work' = work)
    /\ UNCHANGED <<index, basis, calm, skipped>>

Fails ==   \* external: a command fails and changes nothing
    /\ At("commit") \/ At("add") \/ At("edit")
    /\ Done(FALSE)
    /\ UNCHANGED <<treeVars, historyVars>>

Shell ==
    \/ Skip
    \/ (\E result \in {"green", "red"} : CheckBegins(result)) \/ CheckFails \/ CheckSucceeds
    \/ Commit \/ Add \/ Edit \/ Fails
-----------------------------------------------------------------------------
NoEviction(s) == s   \* mutant
Evicted(s) == IF Len(s) > StampLimit THEN Tail(s) ELSE s

(* after: the stamp is taken of the tree as it is now, not as the check    *)
(* saw it, and only if the line's exit code is the check's.                *)
After ==
    /\ line # << >> /\ at > Len(line)
    /\ stamps' = IF exit /\ Confirmed(line)
                 THEN Evicted(Append(stamps, [work |-> work, index |-> index,
                                              quiet |-> quiet, skipped |-> skipped]))
                 ELSE stamps
    /\ Call(<< >>, {}, TRUE, FALSE)
    /\ UNCHANGED treeVars

(* External: a call breaks off, or git fails in after: no stamp. *)
Abort ==
    /\ line # << >>
    /\ Call(<< >>, {}, TRUE, FALSE)
    /\ UNCHANGED <<treeVars, stamps>>

(* External: a new process of the editor knows no stamps. *)
Restart ==
    /\ stamps' = << >>
    /\ Call(<< >>, {}, TRUE, FALSE)
    /\ UNCHANGED treeVars

(* External: somebody else edits, stages, unstages, merges, switches. *)
MoveBetween ==
    /\ line = << >>
    /\ work' \in Contents /\ index' \in Contents
    /\ UNCHANGED <<stamps, line, at, ran, exit, check, historyVars>>

MoveDuring ==
    /\ line # << >> /\ OthersMove
    /\ work' \in Contents /\ index' \in Contents
    /\ quiet' = FALSE /\ calm' = FALSE
    /\ UNCHANGED <<stamps, line, at, ran, exit, check, basis, skipped>>

Next ==
    \/ \E l \in Lines : BeforePlain(l) \/ BeforeCommit(l)
    \/ Shell \/ After \/ Abort \/ Restart \/ MoveBetween \/ MoveDuring

Spec == Init /\ [][Next]_vars
-----------------------------------------------------------------------------
(* "no stamp without confirmation" (gates.ts:331-334): the working copy of *)
(* every stamp is one make check succeeds on, whatever stood around the    *)
(* check in its line and whichever of its commands failed.  Two cases are  *)
(* set apart.  The tree was written to after the check had read it, by     *)
(* others or by the line itself; or the shell passed over the check with   *)
(* exit code 0, as in `true || make check`, which the plugin does not see. *)
StampsAreGreen ==
    \A k \in DOMAIN stamps :
        stamps[k].quiet /\ ~stamps[k].skipped => stamps[k].work \in Passing

(* A commit carries nothing that moved since its evidence.                 *)
CarriesOnly(f) == \A p \in Path : index[p] \in {f.work[p], f.index[p]}

(* What G7 promises of a commit (specs/gates.md:97-118), from the check in *)
(* one line over a stamp to the commit in another or in the same line: a   *)
(* green check has seen every working copy, and each path goes in as the   *)
(* check saw it or as it had been staged by then.  The same two cases are  *)
(* set apart: a write since the check had read, the line's own edits       *)
(* among them, and a check that the shell passed over.                     *)
CommitsAttested ==
    [][Commit /\ quiet /\ ~skipped =>
          basis # {} /\ \A f \in basis : f.work \in Passing /\ CarriesOnly(f)]_vars
-----------------------------------------------------------------------------
(* "The class of the false-green commit of v1 is closed completely"        *)
(* (ADR-029:48).  A commit that a stamp lets through passes the check, or  *)
(* at least the stamp is of a tree that was checked, or at least it takes  *)
(* only what the stamp has.  The second alone is what gates.ts:331-334     *)
(* says of every stamp, the third alone what ADR-029:48-49 says of an edit *)
(* between check and commit ("noticed by its content"), so a commit for    *)
(* which all three fail refutes both.                                      *)
FalseGreenClosed ==
    [][Commit => \A f \in basis : index \in Passing \/ f.work \in Passing \/ CarriesOnly(f)]_vars
=============================================================================
