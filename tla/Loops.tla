------------------------------- MODULE Loops --------------------------------
(***************************************************************************)
(* for-of and counted for loops as the Cranelift backend compiles them     *)
(* (Stmt::ForOf and emit_for of stmt.rs).                                  *)
(*                                                                         *)
(* Every for-of keeps its position in a Cranelift variable that            *)
(* FunctionCtx knows under one name, __for_i, and the increment block      *)
(* finds the variable to write by that name, after the body has been       *)
(* compiled.  The index of a counted for is a variable of the program,     *)
(* with the name resolve_shadowing made its own.                           *)
(*                                                                         *)
(* The program is a forest of loops numbered in source order; a body may   *)
(* run the loops inside it, each or not, may continue and may break.       *)
(***************************************************************************)
EXTENDS Integers, Sequences, FiniteSetsExt

CONSTANTS LoopCount,    \* bound: loops in the function
          MaxLen,       \* bound: elements of an array, iterations of a for
          NestedForOf   \* may a for-of be inside another?

ASSUME LoopsAssumption ==
    LoopCount \in Nat \ {0} /\ MaxLen \in Nat /\ NestedForOf \in BOOLEAN

Loops == 1 .. LoopCount
Main  == 0                   \* the body of the function, around all loops

VARIABLES
    parent,   \* the program: the loop or Main that each loop stands in
    kind,     \* the program: "forOf" or "for"
    active,   \* the loops being run, outermost first
    at,       \* where control is: "body" of the innermost, its "cond", "done"
    passed,   \* passed[b]: how far control has come in body b, a loop number
    idx,      \* the index variable of each loop
    len,      \* arcis_vec_len of the array, taken at the entry of the loop
    seen      \* history: elements visited by this execution of each loop, the
              \* first MaxLen + 1 of them

program == <<parent, kind>>
loopsVars == <<parent, kind, active, at, passed, idx, len, seen>>

-----------------------------------------------------------------------------
\* Loop j is i or inside it, for loops numbered in source order.
Inside(j, i) == i <= j /\ \A k \in i+1 .. j : parent[k] >= i

SourceOrder ==
    \A k \in Loops : parent[k] = Main \/ (parent[k] < k /\ Inside(k - 1, parent[k]))

ForOfs == {i \in Loops : kind[i] = "forOf"}

\* Mutation: the first for-of of the function keeps the name.
FirstDefined(i) ==
    IF kind[i] = "for" THEN i ELSE Min(ForOfs)

\* The variable that the increment block of i writes.  For a for-of it is the
\* one that the map knows as __for_i when the block is compiled: the last for-of
\* defined by then.
IncrementOf(i) ==
    IF kind[i] = "for" THEN i ELSE Max({j \in ForOfs : Inside(j, i)})

Body == IF active = <<>> THEN Main ELSE active[Len(active)]

LoopsInit ==
    /\ parent \in [Loops -> Main .. LoopCount - 1]
    /\ kind \in [Loops -> {"forOf", "for"}]
    /\ SourceOrder
    /\ NestedForOf \/ \A i, j \in ForOfs : Inside(j, i) => i = j
    /\ active = <<>>
    /\ at = "body"
    /\ passed = [b \in Main .. LoopCount |-> b]
    /\ idx = [i \in Loops |-> 0]
    /\ len = [i \in Loops |-> 0]
    /\ seen = [i \in Loops |-> <<>>]

\* The statements of a body come in order; any may stand in an if.
Enter(i) ==
    /\ at = "body"
    /\ parent[i] = Body
    /\ i > passed[Body]
    /\ passed' = [passed EXCEPT ![Body] = i]
    /\ active' = Append(active, i)
    /\ at' = "cond"
    /\ idx' = [idx EXCEPT ![i] = 0]
    /\ \E n \in 0 .. MaxLen : len' = [len EXCEPT ![i] = n]
    /\ seen' = [seen EXCEPT ![i] = <<>>]
    /\ UNCHANGED program

Leave ==
    /\ active' = SubSeq(active, 1, Len(active) - 1)
    /\ at' = "body"

\* The condition block of the innermost loop holds.
Iterate ==
    /\ at = "cond"
    /\ idx[Body] < len[Body]
    /\ at' = "body"
    /\ seen' = [seen EXCEPT ![Body] =
                  IF Len(@) <= MaxLen THEN Append(@, idx[Body]) ELSE @]
    /\ passed' = [passed EXCEPT ![Body] = Body]
    /\ UNCHANGED <<parent, kind, active, idx, len>>

\* Mutation: the loop ends one element early.
ExhaustedEarly ==
    /\ at = "cond"
    /\ idx[Body] + 1 >= len[Body]
    /\ Leave
    /\ UNCHANGED <<parent, kind, passed, idx, len, seen>>

Exhausted ==
    /\ at = "cond"
    /\ idx[Body] >= len[Body]
    /\ Leave
    /\ UNCHANGED <<parent, kind, passed, idx, len, seen>>

\* Mutation: continue jumps to the condition, as it once did.
ContinueRetests ==
    /\ at = "body"
    /\ active # <<>>
    /\ at' = "cond"
    /\ UNCHANGED <<parent, kind, active, passed, idx, len, seen>>

\* The end of the body, and continue: through the increment or update block to
\* the condition.
Advance ==
    /\ at = "body"
    /\ active # <<>>
    /\ idx' = [idx EXCEPT ![IncrementOf(Body)] = idx[Body] + 1]
    /\ at' = "cond"
    /\ UNCHANGED <<parent, kind, active, passed, len, seen>>

BreakLoop ==
    /\ at = "body"
    /\ active # <<>>
    /\ Leave
    /\ UNCHANGED <<parent, kind, passed, idx, len, seen>>

Finish ==
    /\ at = "body"
    /\ active = <<>>
    /\ at' = "done"
    /\ UNCHANGED <<parent, kind, active, passed, idx, len, seen>>

Done == at = "done" /\ UNCHANGED loopsVars

LoopsNext ==
    \/ \E i \in Loops : Enter(i)
    \/ Iterate \/ Exhausted \/ Advance \/ BreakLoop \/ Finish
    \/ Done

\* A program that runs does not stand still: one thread, no waiting.
LoopsSpec == LoopsInit /\ [][LoopsNext]_loopsVars /\ WF_loopsVars(LoopsNext)

-----------------------------------------------------------------------------
\* However the loops around and inside it iterate, continue and break, every
\* loop being run has visited the elements of its array in order, each once,
\* from the first.
ElementsInOrder ==
    \A k \in 1 .. Len(active) :
        LET visits == seen[active[k]]
        IN  /\ Len(visits) <= len[active[k]]
            /\ \A v \in 1 .. Len(visits) : visits[v] = v - 1

\* A loop that is left by its condition has visited all of them.
NoneSkipped ==
    [][at = "cond" /\ Len(active') < Len(active) => Len(seen[Body]) = len[Body]]_loopsVars

\* Every program of such loops comes to its end: an iteration, ended by its
\* last statement or by continue, always gets nearer to the end of the loop.
Terminates == <>(at = "done")

-----------------------------------------------------------------------------
(* What keeps ElementsInOrder: loops are run from the outside in, a write of
   an increment block reaches no index of another loop that is being run, and
   the index of a loop counts its visits.                                    *)

LoopsTypeOK ==
    /\ parent \in [Loops -> Main .. LoopCount - 1]
    /\ kind \in [Loops -> {"forOf", "for"}]
    /\ active \in Seq(Loops)
    /\ at \in {"body", "cond", "done"}
    /\ passed \in [Main .. LoopCount -> Main .. LoopCount]
    /\ idx \in [Loops -> Nat]
    /\ len \in [Loops -> 0 .. MaxLen]
    /\ seen \in [Loops -> Seq(Nat)]

\* The program is the one that LoopsInit chose.
ProgramOK ==
    /\ SourceOrder
    /\ NestedForOf \/ \A i, j \in ForOfs : Inside(j, i) => i = j

\* An inner loop comes after the loops around it, so none runs twice at once.
OutsideIn ==
    \A j, k \in 1 .. Len(active) : j < k => active[j] < active[k]

\* The increment block of loop i writes its own index variable.
OwnIndex(i) == IncrementOf(i) = i

\* The element of the iteration under way has been visited, except where the
\* innermost loop is at its condition.
InStep(k) ==
    LET i == active[k]
    IN  /\ Len(seen[i]) = IF k = Len(active) /\ at = "cond" THEN idx[i] ELSE idx[i] + 1
        /\ Len(seen[i]) <= len[i]
        /\ \A v \in 1 .. Len(seen[i]) : seen[i][v] = v - 1

IndicesInStep == \A k \in 1 .. Len(active) : OwnIndex(active[k]) => InStep(k)

CondInLoop == at = "cond" => active # <<>>

LoopsIInv == LoopsTypeOK /\ ProgramOK /\ CondInLoop /\ OutsideIn /\ IndicesInStep

-----------------------------------------------------------------------------
(* What Terminates rests on: a rank that every step lowers.  A step touches
   the innermost loop being run and loops after it, so loops count in source
   order, and of one loop the iterations to come before the statements.      *)

Bodies == Main .. LoopCount

Running == {active[k] : k \in 1 .. Len(active)}

\* A loop that is not run has nothing left; its condition comes before its body.
IterationsLeft(b) ==
    IF b = Main THEN IF at = "done" THEN 0 ELSE 1
    ELSE IF b \notin Running THEN 0
    ELSE 2 * (len[b] - idx[b]) + IF b = Body /\ at = "cond" THEN 2 ELSE 1

\* How much of body b is ahead of control.
Ahead(b) == LoopCount - passed[b]

Rank == [b \in Bodies |-> [left |-> IterationsLeft(b), ahead |-> Ahead(b)]]

Ranks == [Bodies -> [left : Nat, ahead : Nat]]

LowerAt(b, r, s) ==
    \/ r[b].left < s[b].left
    \/ r[b].left = s[b].left /\ r[b].ahead < s[b].ahead

\* The lexicographic order.
Lower(r, s) == \E b \in Bodies : LowerAt(b, r, s) /\ \A c \in Main .. b - 1 : r[c] = s[c]

Descends == [][Lower(Rank', Rank)]_loopsVars
=============================================================================
