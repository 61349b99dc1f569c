---------------------------- MODULE CommandLine ----------------------------
(***************************************************************************)
(* main.parseArgs: from the flags that are set on the command line to the  *)
(* arguments of a run, or to an error.  What package flag rejects itself   *)
(* (unknown names, values that are no integer) is left out: the flags that *)
(* are set (isFlagSet) are a function from their names to integers.        *)
(***************************************************************************)
EXTENDS Integers

CONSTANT NumCPU   \* runtime.NumCPU()

ASSUME CommandLineAssumption == NumCPU \in Nat \ {0}

Name == {"size", "workers", "precompute-depth", "gc-percent"}
Flags(flags) == DOMAIN flags \subseteq Name /\ flags \in [DOMAIN flags -> Int]

TwoPhaseBaseDepth == 5
DefaultGCPercentReversal == 40

(* The table of measured optima, per board. *)
defaultPrecomputeDepths == [size \in 5 .. 8 |-> <<6, 14, 22, 14>>[size - 4]]

DefaultPrecomputeDepth(size) ==
    IF size \in DOMAIN defaultPrecomputeDepths THEN defaultPrecomputeDepths[size]
    ELSE TwoPhaseBaseDepth + 1

Value(flags, name, default) == IF name \in DOMAIN flags THEN flags[name] ELSE default

SizeOf(flags) == Value(flags, "size", 5)

(* An explicit depth of 0 is no request for the default.                   *)
appArgs(flags) ==
    [size |-> SizeOf(flags),
     workers |-> Value(flags, "workers", NumCPU),
     precomputeDepth |-> Value(flags, "precompute-depth", DefaultPrecomputeDepth(SizeOf(flags))),
     gcPercent |-> Value(flags, "gc-percent", DefaultGCPercentReversal)]

Accepted(flags) ==   \* parseArgs returns no error
    LET args == appArgs(flags) IN
    /\ args.size \in 5 .. 8
    /\ args.precomputeDepth \in 1 .. (args.size * args.size) \div 2
    /\ args.workers >= 1
    /\ args.gcPercent >= 0
=============================================================================
