----------------------------- MODULE Exceptions -----------------------------
(***************************************************************************)
(* What the language promises of try, catch and throw, without a word on   *)
(* how: a throw leaves every statement inside the innermost open try, of   *)
(* whichever activation, and continues in that try's catch body; a throw   *)
(* with no open try ends the program; return, break and continue leave the *)
(* tries they jump out of.  TryCatch is the implementation of this by the  *)
(* Cranelift backend and its C runtime.                                    *)
(***************************************************************************)
EXTENDS ControlStack

VARIABLES ctl,       \* what the program is inside of
          status     \* "running", or how the program ended

absVars == <<ctl, status>>

AbsStatus == {"running", "exited", "uncaught", "tooDeep"}

AbsInit == ctl = <<"call">> /\ status = "running"

Running == status = "running" /\ UNCHANGED status

Enter(c) == Running /\ ctl' = Append(ctl, c)

\* The construct that ends is the innermost one.
LeaveTop(S) ==
    /\ Running
    /\ ctl[Len(ctl)] \in S
    /\ ctl' = Leave(ctl, Len(ctl))

AbsReturn ==
    \E i \in DOMAIN ctl :
        /\ CurrentCall(ctl, i)
        /\ status = "running"
        /\ IF i = 1 THEN status' = "exited" /\ UNCHANGED ctl
                    ELSE UNCHANGED status /\ ctl' = Leave(ctl, i)

AbsBreak == Running /\ \E i \in DOMAIN ctl :
    CurrentLoop(ctl, i) /\ ctl' = Leave(ctl, i)

AbsContinue == Running /\ \E i \in DOMAIN ctl :
    CurrentLoop(ctl, i) /\ ctl' = Leave(ctl, i + 1)

AbsThrow == Running /\ \E i \in DOMAIN ctl :
    InnermostTry(ctl, i) /\ ctl' = Append(Leave(ctl, i), "catch")

AbsUncaught ==
    /\ status = "running"
    /\ NoTry(ctl)
    /\ status' = "uncaught"
    /\ UNCHANGED ctl

\* An implementation may run out of room for handlers, at a try and not at
\* a throw.
AbsTooDeep == status = "running" /\ status' = "tooDeep" /\ UNCHANGED ctl

AbsNext ==
    \/ \E c \in Constructs \ {"catch"} : Enter(c)
    \/ LeaveTop(Tries \cup {"loop", "catch"})
    \/ AbsReturn \/ AbsBreak \/ AbsContinue
    \/ AbsThrow \/ AbsUncaught \/ AbsTooDeep

AbsSpec == AbsInit /\ [][AbsNext]_absVars
=============================================================================
