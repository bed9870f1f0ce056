---------------------------- MODULE ControlStack ----------------------------
(***************************************************************************)
(* The statements a running Arcis program is inside of, outermost first:   *)
(* a sequence whose elements are "call" (an activation of a function, or   *)
(* of the module's main), "loop" (a while, for or for-of being iterated),  *)
(* "catch" (a catch body being run) or a member of Tries (a try whose body *)
(* is being run; each execution of a try statement has its own identity).  *)
(* Blocks, if and switch are left out: no jump in the language stops there.*)
(***************************************************************************)
EXTENDS Naturals, Sequences, Functions

CONSTANT Tries                      \* identities of executions of try

ASSUME TriesAssumption == Tries \cap {"call", "loop", "catch"} = {}

Constructs == Tries \cup {"call", "loop", "catch"}

IsTry(ctl, i) == ctl[i] \in Tries

\* Position i is the activation that is running: no call is nested in it.
CurrentCall(ctl, i) ==
    /\ i \in DOMAIN ctl
    /\ ctl[i] = "call"
    /\ \A j \in i+1 .. Len(ctl) : ctl[j] # "call"

\* Position i is the innermost loop of the running activation: the target of
\* break and continue.
CurrentLoop(ctl, i) ==
    /\ i \in DOMAIN ctl
    /\ ctl[i] = "loop"
    /\ \A j \in i+1 .. Len(ctl) : ctl[j] \notin {"call", "loop"}

\* Position i is the innermost open try, in whichever activation it is.
InnermostTry(ctl, i) ==
    /\ i \in DOMAIN ctl
    /\ IsTry(ctl, i)
    /\ \A j \in i+1 .. Len(ctl) : ~ IsTry(ctl, j)

NoTry(ctl) == \A i \in DOMAIN ctl : ~ IsTry(ctl, i)

\* What is left when the construct at position i and all it contains are left.
Leave(ctl, i) == SubSeq(ctl, 1, i - 1)
=============================================================================
