---------------------------- MODULE LoopContext -----------------------------
(***************************************************************************)
(* Where break and continue may stand and where they go: the check of      *)
(* arcis-validation/src/loop_ctx.rs and the jumps of the Cranelift backend *)
(* (Stmt::Break and Stmt::Continue of stmt.rs, emit_switch_case_body).     *)
(*                                                                         *)
(* The two walk the same program with state of their own: the check passes *)
(* a depth down the recursion and does not look into a switch or a try;    *)
(* the backend keeps a stack of LoopFrames.  The program is any the        *)
(* grammar allows, met construct by construct, and the walks advance       *)
(* together.                                                               *)
(***************************************************************************)
EXTENDS Integers, Sequences

CONSTANTS Constructs,   \* the constructs the program may use
          MaxNesting    \* bound: constructs open at once

ASSUME LoopContextAssumption ==
    /\ Constructs \subseteq {"loop", "if", "case", "try", "catch",
                             "function", "exportFunction"}
    /\ MaxNesting \in Nat

VARIABLES
    nest,     \* the constructs the walk is inside of
    depths,   \* depths[i]: check_loop_context's depth for the statements of
              \* nest[i - 1], depths[1] for those of main
    loops,    \* FunctionCtx.loops: the LoopFrames, as positions in nest
    last      \* the last break or continue met, see Jump

vars == <<nest, depths, loops, last>>

Unwalked == -1      \* the check does not come here

Depth == depths[Len(depths)]

Functions == {"function", "exportFunction"}

\* No jump, or what check and backend made of it: whether the check reports it,
\* and what is compiled, the loop it jumps to or one of the Verdicts.
NoJump   == 0
Refused  == -1      \* "outside of a loop"
NotEmitted == -2    \* a function that is not at the top level is not compiled

-----------------------------------------------------------------------------
\* The innermost loop around the walk in its function: its position, if there
\* is one.
InnermostLoop ==
    {i \in DOMAIN nest :
        nest[i] = "loop" /\ \A j \in i+1 .. Len(nest) : nest[j] \notin {"loop"} \cup Functions}

\* Whether the walk is in a case that is nearer than any loop.
InCase ==
    \E i \in DOMAIN nest :
        nest[i] = "case" /\ \A j \in i+1 .. Len(nest) : nest[j] \notin {"loop"} \cup Functions

\* Functions are compiled from the top level of the file only.
Emitted == \A i \in 2 .. Len(nest) : nest[i] \notin Functions

Init ==
    /\ nest = <<>>
    /\ depths = <<0>>
    /\ loops = <<>>
    /\ last = [word |-> "none"]

\* Mutation: for-of, say, does not count as a loop.
DepthForgetsLoop(c) ==
    IF c = "function" THEN 0
    ELSE IF Depth = Unwalked \/ c \in {"case", "try", "catch", "exportFunction"} THEN Unwalked
    ELSE Depth

\* new_depth; validate starts each top-level function at zero, as the check
\* itself does a nested one, and looks into no export.
DepthIn(c) ==
    IF Depth = Unwalked \/ c \in {"case", "try", "catch", "exportFunction"} THEN Unwalked
    ELSE IF c = "function" THEN 0
    ELSE IF c = "loop" THEN Depth + 1
    ELSE Depth

Open(c) ==
    /\ c \in Constructs
    /\ Len(nest) < MaxNesting
    /\ nest' = Append(nest, c)
    /\ depths' = Append(depths, DepthIn(c))
    /\ loops' = IF c = "loop" /\ Emitted THEN Append(loops, Len(nest) + 1) ELSE loops
    /\ UNCHANGED last

\* Mutation: pop_loop is forgotten.
CloseKeepsFrame ==
    /\ nest # <<>>
    /\ nest' = SubSeq(nest, 1, Len(nest) - 1)
    /\ depths' = SubSeq(depths, 1, Len(depths) - 1)
    /\ UNCHANGED <<loops, last>>

Close ==
    /\ nest # <<>>
    /\ nest' = SubSeq(nest, 1, Len(nest) - 1)
    /\ depths' = SubSeq(depths, 1, Len(depths) - 1)
    /\ loops' = IF loops # <<>> /\ loops[Len(loops)] = Len(nest)
                THEN SubSeq(loops, 1, Len(loops) - 1) ELSE loops
    /\ UNCHANGED last

\* Mutation: current_loop is the outermost frame.
FirstFrame == IF loops = <<>> THEN Refused ELSE loops[1]

CurrentLoop == IF loops = <<>> THEN Refused ELSE loops[Len(loops)]

\* A break that is a statement of the case itself is left out.
BreakTarget ==
    IF ~ Emitted THEN NotEmitted
    ELSE IF nest # <<>> /\ nest[Len(nest)] = "case" THEN NoJump
    ELSE CurrentLoop

ContinueTarget == IF Emitted THEN CurrentLoop ELSE NotEmitted

\* What the language reference says: a break in a case does nothing, any other
\* word goes to the innermost loop.
Meant(word) == IF word = "break" /\ InCase THEN {} ELSE InnermostLoop

\* A break in a block of a case, in an `if` say.  The backend looks for a break
\* among the statements of the case only, and takes this one for a jump.
Buried(word) == word = "break" /\ InCase /\ nest[Len(nest)] # "case"

Jump(word, target) ==
    /\ last' = [word |-> word, reported |-> Depth = 0, target |-> target,
                inLoop |-> InnermostLoop, meant |-> Meant(word), buried |-> Buried(word)]
    /\ UNCHANGED <<nest, depths, loops>>

Break    == Jump("break", BreakTarget)
Continue == Jump("continue", ContinueTarget)

Next == (\E c \in Constructs : Open(c)) \/ Close \/ Break \/ Continue

Spec == Init /\ [][Next]_vars

-----------------------------------------------------------------------------
Met == last.word # "none"

\* Wherever both walk, the depth of the check is the number of LoopFrames, so
\* they take the same words to be outside of a loop.
DepthsAgree == Depth # Unwalked /\ Emitted => Depth = Len(loops)

\* The check never complains about a break or continue inside a loop.
NoFalseAlarm == Met /\ last.reported => last.inLoop = {}

\* What the backend makes of a word it compiles is what the language reference
\* says, whether or not the check has looked at it: a jump to the innermost loop
\* of its own function, none for a break of a case, and none if no loop is around
\* it.  Buried breaks are left out, for them it is false of the code.
JumpsToOwnLoop ==
    Met /\ last.target # NotEmitted /\ ~ last.buried =>
        last.meant = IF last.target > 0 THEN {last.target} ELSE {}

-----------------------------------------------------------------------------
(***************************************************************************)
(* The inductive invariant.  Leaving a construct takes both walks back to  *)
(* what they knew before it, so it speaks of every construct that is open, *)
(* not only of the innermost one.                                          *)
(***************************************************************************)

\* Whether the backend compiles what stands in the first n constructs.
EmittedAt(n) == \A i \in 2 .. n : nest[i] \notin Functions

\* The frames are the loops that are compiled, the outermost first.
FramesAreLoops ==
    /\ \A k \in DOMAIN loops :
          loops[k] \in DOMAIN nest /\ nest[loops[k]] = "loop" /\ EmittedAt(loops[k])
    /\ \A k, m \in DOMAIN loops : k < m => loops[k] < loops[m]
    /\ \A i \in DOMAIN nest :
          nest[i] = "loop" /\ EmittedAt(i) => \E k \in DOMAIN loops : loops[k] = i

\* Where both walk, the depth for the statements of nest[n] is the number of
\* the last frame among the first n constructs.
DepthNumbersFrames ==
    \A n \in 0 .. Len(nest) :
        depths[n + 1] # Unwalked /\ EmittedAt(n) =>
            /\ depths[n + 1] \in 0 .. Len(loops)
            /\ \A k \in DOMAIN loops : loops[k] <= n <=> k <= depths[n + 1]

\* Inside a loop of its function the check has a positive depth.
DepthSeesLoops ==
    \A n \in 0 .. Len(nest) : \A i \in 1 .. n :
        nest[i] = "loop" /\ (\A j \in i+1 .. n : nest[j] \notin Functions) =>
            depths[n + 1] # 0

TypeOK ==
    /\ nest \in Seq(Constructs)
    /\ depths \in Seq({Unwalked} \cup Nat)
    /\ loops \in Seq(Nat \ {0})
    /\ Len(nest) <= MaxNesting
    /\ Len(depths) = Len(nest) + 1
    /\ Met => /\ last.reported \in BOOLEAN
              /\ last.target \in {NotEmitted, Refused, NoJump} \cup Nat

IInv ==
    /\ TypeOK
    /\ FramesAreLoops
    /\ DepthNumbersFrames
    /\ DepthSeesLoops
    /\ NoFalseAlarm
    /\ JumpsToOwnLoop

=============================================================================
