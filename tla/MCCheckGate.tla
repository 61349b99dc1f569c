---------------------------- MODULE MCCheckGate ----------------------------
(* CheckGate over every line of up to three commands in which a check or a *)
(* commit takes part, and one line that edits.  Of three commands a check  *)
(* stands before a commit and no pipe before the last.                     *)
EXTENDS CheckGate

CONSTANTS p, good, bad, worse

MCPassing == {[q \in Path |-> good]}

Chain(n) == {l \in [1 .. n -> [cmd : {"check", "commit", "add"}, sep : {"&&", "||", ";", "|"}]] :
                l[1].sep = ";"}
Has(l, cmd) == \E i \in DOMAIN l : l[i].cmd = cmd
Run(cmds) == [i \in DOMAIN cmds |-> [cmd |-> cmds[i], sep |-> IF i = 1 THEN ";" ELSE "&&"]]
OrElse(first, second) == <<[cmd |-> first, sep |-> ";"], [cmd |-> second, sep |-> "||"]>>

MCGapLines == {Run(<<"check">>), OrElse("add", "check"), Run(<<"edit", "add", "commit">>)}

MCLines ==
    {l \in Chain(1) \cup Chain(2) : Has(l, "check") \/ Has(l, "commit")}
    \cup {l \in Chain(3) : /\ l[3].sep # "|"
                           /\ \E i, j \in 1 .. 3 : i < j /\ l[i].cmd = "check" /\ l[j].cmd = "commit"}
    \cup MCGapLines
=============================================================================
