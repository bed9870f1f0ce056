------------------------------ MODULE TryCatch ------------------------------
(***************************************************************************)
(* try / catch / throw as the Cranelift backend compiles them.             *)
(*                                                                         *)
(* The runtime keeps one global stack of jmp_bufs, arcis_try_stack, and    *)
(* its depth, arcis_try_depth.  Entering a try pushes one (arcis_try_push, *)
(* then a direct setjmp), arcis_try_end pops one, and arcis_throw longjmps *)
(* to the top one WITHOUT popping it.  Nothing at run time ties a slot to  *)
(* the try that owns it: the compiler counts, in FunctionCtx, how many     *)
(* tries are lexically open (open_try_count) and emits that many           *)
(* arcis_try_end calls at every way out.                                   *)
(*                                                                         *)
(* The program is not fixed: at each step it executes any statement that   *)
(* the syntax allows where it is, so every program within the bounds is    *)
(* among the behaviours.                                                   *)
(***************************************************************************)
EXTENDS ControlStack, FiniteSets

CONSTANTS MaxTry,     \* ARCIS_MAX_TRY_DEPTH
          MaxNesting  \* bound: statements and calls nested at once

ASSUME BoundsAssumption ==
    MaxTry \in Nat \ {0} /\ MaxNesting \in Nat \ {0}

VARIABLES
    ctl,      \* what the program is inside of (the truth)
    status,   \* "running", or how the program ended
    open,     \* open[i]: open_try_count for code directly inside ctl[i]
    jmpBufs,  \* arcis_try_stack[0 .. arcis_try_depth - 1]
    at        \* history: at[i] is arcis_try_depth when ctl[i] was entered

vars == <<ctl, status, open, jmpBufs, at>>

Status == {"running", "exited", "uncaught", "tooDeep", "wild"}

arcis_try_depth == Len(jmpBufs)
OpenTryCount    == open[Len(open)]    \* fctx.open_try_count where we are

TypeOK ==
    /\ ctl \in Seq(Constructs)
    /\ status \in Status
    /\ open \in Seq(Nat)
    /\ jmpBufs \in Seq(Tries)
    /\ at \in Seq(Nat)
    /\ Len(ctl) \in 1 .. MaxNesting
    /\ Len(open) = Len(ctl) /\ Len(at) = Len(ctl)

Init ==
    /\ ctl = <<"call">>               \* arcis_main, called by C's main
    /\ status = "running"
    /\ open = <<0>>
    /\ jmpBufs = <<>>
    /\ at = <<0>>

\* n calls of arcis_try_end, none of which takes the depth below zero.
TryEnds(n) ==
    jmpBufs' = SubSeq(jmpBufs, 1, IF n > Len(jmpBufs) THEN 0 ELSE Len(jmpBufs) - n)

Push(c, count, depth) ==
    /\ Len(ctl) < MaxNesting
    /\ ctl' = Append(ctl, c)
    /\ open' = Append(open, count)
    /\ at' = Append(at, depth)

KeepFirst(n) ==
    /\ ctl' = SubSeq(ctl, 1, n)
    /\ open' = SubSeq(open, 1, n)
    /\ at' = SubSeq(at, 1, n)

-----------------------------------------------------------------------------
\* A function body is compiled with a FunctionCtx of its own, whose
\* open_try_count starts at zero.
Call ==
    /\ status = "running"
    /\ Push("call", 0, arcis_try_depth)
    /\ UNCHANGED <<status, jmpBufs>>

\* while, for and for-of: push_loop records open_try_count in the frame's
\* try_depth_at_entry; open[i] of a loop is that number.
EnterLoop ==
    /\ status = "running"
    /\ Push("loop", OpenTryCount, arcis_try_depth)
    /\ UNCHANGED <<status, jmpBufs>>

\* The loop's condition is false, or its array is exhausted.
EndLoop ==
    /\ status = "running"
    /\ ctl[Len(ctl)] = "loop"
    /\ KeepFirst(Len(ctl) - 1)
    /\ UNCHANGED <<status, jmpBufs>>

\* arcis_try_push and setjmp: nothing can throw between the two.
Try(t) ==
    /\ status = "running"
    /\ t \notin Range(ctl) \cup Range(jmpBufs)     \* a new execution of a try
    /\ arcis_try_depth < MaxTry
    /\ Push(t, OpenTryCount + 1, arcis_try_depth + 1)
    /\ jmpBufs' = Append(jmpBufs, t)
    /\ UNCHANGED status

\* arcis_try_push aborts when every slot is taken.
TryTooDeep ==
    /\ status = "running"
    /\ arcis_try_depth >= MaxTry
    /\ status' = "tooDeep"
    /\ UNCHANGED <<ctl, open, jmpBufs, at>>

\* The try body runs to its end: one arcis_try_end, then the after block.
EndTry ==
    /\ status = "running"
    /\ IsTry(ctl, Len(ctl))
    /\ TryEnds(1)
    /\ KeepFirst(Len(ctl) - 1)
    /\ UNCHANGED status

EndCatch ==
    /\ status = "running"
    /\ ctl[Len(ctl)] = "catch"
    /\ KeepFirst(Len(ctl) - 1)
    /\ UNCHANGED <<status, jmpBufs>>

\* Mutation: return jumps out of its open tries without closing them.
ReturnClosesNone ==
    /\ status = "running"
    /\ \E i \in DOMAIN ctl :
        /\ CurrentCall(ctl, i)
        /\ IF i = 1
           THEN status' = "exited" /\ UNCHANGED <<ctl, open, at>>
           ELSE UNCHANGED status /\ KeepFirst(i - 1)
    /\ UNCHANGED jmpBufs

\* An explicit return, or falling off the end of the body (then no try is
\* open).  The value is computed before the arcis_try_end calls.
Return ==
    /\ status = "running"
    /\ \E i \in DOMAIN ctl :
        /\ CurrentCall(ctl, i)
        /\ TryEnds(OpenTryCount)
        /\ IF i = 1
           THEN status' = "exited" /\ UNCHANGED <<ctl, open, at>>
           ELSE UNCHANGED status /\ KeepFirst(i - 1)

\* Mutation: break closes the tries around the loop too.
BreakClosesAll ==
    /\ status = "running"
    /\ \E i \in DOMAIN ctl : CurrentLoop(ctl, i) /\ KeepFirst(i - 1)
    /\ TryEnds(OpenTryCount)
    /\ UNCHANGED status

\* Every try opened since the loop was entered is closed, and no other.
Break ==
    /\ status = "running"
    /\ \E i \in DOMAIN ctl :
        /\ CurrentLoop(ctl, i)
        /\ TryEnds(OpenTryCount - open[i])
        /\ KeepFirst(i - 1)
    /\ UNCHANGED status

\* Mutation: continue leaves the tries of the iteration open.
ContinueClosesNone ==
    /\ status = "running"
    /\ \E i \in DOMAIN ctl : CurrentLoop(ctl, i) /\ KeepFirst(i)
    /\ UNCHANGED <<status, jmpBufs>>

Continue ==
    /\ status = "running"
    /\ \E i \in DOMAIN ctl :
        /\ CurrentLoop(ctl, i)
        /\ TryEnds(OpenTryCount - open[i])
        /\ KeepFirst(i)
    /\ UNCHANGED status

\* Mutation: the catch block does not start with arcis_try_end.
ThrowKeepsSlot ==
    /\ status = "running"
    /\ jmpBufs # <<>>
    /\ LET live == {i \in DOMAIN ctl : ctl[i] = jmpBufs[arcis_try_depth]}
       IN  IF live = {}
           THEN status' = "wild" /\ UNCHANGED <<ctl, open, jmpBufs, at>>
           ELSE \E i \in live :
                  /\ ctl' = Append(SubSeq(ctl, 1, i - 1), "catch")
                  /\ open' = Append(SubSeq(open, 1, i - 1), open[i] - 1)
                  /\ at' = Append(SubSeq(at, 1, i - 1), arcis_try_depth - 1)
                  /\ UNCHANGED <<status, jmpBufs>>

\* longjmp to the top slot.  When that slot's try is still open, its catch
\* block runs: it starts with arcis_try_end and is compiled with the
\* open_try_count of the code around the try.  Jumping to a try that has been
\* left is undefined behaviour, for its activation may be over ("wild"; when
\* the activation is still there the try would be re-entered, and that counts
\* as wild too).
Throw ==
    /\ status = "running"
    /\ jmpBufs # <<>>
    /\ LET live == {i \in DOMAIN ctl : ctl[i] = jmpBufs[arcis_try_depth]}
       IN  IF live = {}
           THEN status' = "wild" /\ UNCHANGED <<ctl, open, jmpBufs, at>>
           ELSE \E i \in live :
                  /\ ctl' = Append(SubSeq(ctl, 1, i - 1), "catch")
                  /\ open' = Append(SubSeq(open, 1, i - 1), open[i] - 1)
                  /\ at' = Append(SubSeq(at, 1, i - 1), arcis_try_depth - 1)
                  /\ TryEnds(1)
                  /\ UNCHANGED status

\* arcis_throw at depth zero reports the exception and aborts.
UncaughtThrow ==
    /\ status = "running"
    /\ arcis_try_depth = 0
    /\ status' = "uncaught"
    /\ UNCHANGED <<ctl, open, jmpBufs, at>>

Ended == status # "running" /\ UNCHANGED vars

Next ==
    \/ Call \/ EnterLoop \/ EndLoop
    \/ \E t \in Tries : Try(t)
    \/ TryTooDeep \/ EndTry \/ EndCatch
    \/ Return \/ Break \/ Continue
    \/ Throw \/ UncaughtThrow
    \/ Ended

Spec == Init /\ [][Next]_vars

-----------------------------------------------------------------------------
\* How many of the first n constructs are open tries.
OpenTries(n) == Cardinality({i \in 1 .. n : IsTry(ctl, i)})

\* The runtime's stack holds exactly the open tries, in their order, whatever
\* mixture of return, break, continue, throw and calls led here: the "open-try
\* counter balanced" of docs/language-reference.md.
HandlersMatch ==
    status = "running" =>
        /\ Len(jmpBufs) = OpenTries(Len(ctl))
        /\ \A i \in DOMAIN ctl : IsTry(ctl, i) => jmpBufs[OpenTries(i)] = ctl[i]

\* The try that the next throw reaches is open and is the innermost one, in
\* whichever activation it is; with no slot taken there is no open try.  So no
\* throw lands in a handler that has been left, skips one, or is reported as
\* uncaught inside a try.
NextThrowIsRight ==
    /\ status # "wild"
    /\ status = "running" =>
        IF jmpBufs = <<>>
        THEN NoTry(ctl)
        ELSE \E i \in DOMAIN ctl :
                InnermostTry(ctl, i) /\ ctl[i] = jmpBufs[arcis_try_depth]

\* The 64-slot limit is met only when that many tries really are open, so no
\* sequence of early exits uses up slots for good, and nothing is left open
\* when arcis_main returns.
NoSlotLeak ==
    /\ status = "tooDeep" => OpenTries(Len(ctl)) = MaxTry
    /\ status = "exited" => jmpBufs = <<>>

\* Leaving a construct never disturbs the handlers opened before it: what an
\* outer construct sees as the depth is what it saw when it was entered.
OuterHandlersKept ==
    [][\A i \in DOMAIN ctl :
          (status' = "running" /\ i \in DOMAIN ctl' /\ \A j \in 1 .. i : ctl'[j] = ctl[j])
            => \A d \in 1 .. at[i] :
                  d \in DOMAIN jmpBufs' /\ jmpBufs'[d] = jmpBufs[d]]_vars

\* The backend and its runtime implement try / catch / throw.
Language == INSTANCE Exceptions
ImplementsExceptions == Language!AbsSpec

-----------------------------------------------------------------------------
(***************************************************************************)
(* The inductive invariant.  The compiler's count and the runtime's depth  *)
(* advance together inside one activation, so at every way out the number  *)
(* of arcis_try_end calls compiled in is the number of slots taken since.  *)
(***************************************************************************)

\* c, o, a and b stand for values of ctl, open, at and jmpBufs.
SameActivation(c, j, i) == \A k \in j+1 .. i : c[k] # "call"

CountsAgree(c, o, a) ==
    \A i \in 1 .. Len(c) : \A j \in 1 .. i :
        SameActivation(c, j, i) => a[i] - a[j] = o[i] - o[j]

CallsStartAtZero(c, o, a) ==
    /\ c[1] = "call" /\ a[1] = 0
    /\ \A i \in 1 .. Len(c) : c[i] = "call" => o[i] = 0

DepthGrowsByTries(c, a) ==
    /\ \A i \in 1 .. Len(c) : \A j \in 1 .. i : a[j] <= a[i]
    /\ \A i \in 2 .. Len(c) :
          a[i] = a[i-1] + (IF c[i] \in Tries THEN 1 ELSE 0)

SlotsAreOpenTries(c, a, b) ==
    /\ a[Len(c)] = Len(b)
    /\ \A i \in 1 .. Len(c) : c[i] \in Tries =>
          a[i] \in 1 .. Len(b) /\ b[a[i]] = c[i]
    /\ \A d \in 1 .. Len(b) :
          \E i \in 1 .. Len(c) : c[i] \in Tries /\ a[i] = d

EachTryOnce(c) ==
    \A i, j \in 1 .. Len(c) : c[i] \in Tries /\ c[i] = c[j] => i = j

Balanced(c, o, a, b) ==
    /\ CountsAgree(c, o, a)
    /\ CallsStartAtZero(c, o, a)
    /\ DepthGrowsByTries(c, a)
    /\ SlotsAreOpenTries(c, a, b)
    /\ EachTryOnce(c)

IInv ==
    /\ TypeOK
    /\ status # "wild"
    /\ status = "running" => Balanced(ctl, open, at, jmpBufs)
=============================================================================
