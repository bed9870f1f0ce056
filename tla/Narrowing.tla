----------------------------- MODULE Narrowing ------------------------------
(***************************************************************************)
(* Optional values: narrow_program (narrow.rs), which gives a variable a   *)
(* copy of definite type where a test proves it present, and               *)
(* check_null_safety (nullsafety.rs), which refuses a program that may     *)
(* bring null to a place for a definite value.                             *)
(*                                                                         *)
(* The module runs the body of one function, statement by statement, as    *)
(* written (value) and as compiled (cell and copies) side by side.  The    *)
(* next statement is any that check_null_safety accepts where it stands,   *)
(* so the behaviours are the runs of every accepted program.  Blocks that  *)
(* are not entered leave no trace in either pass, and an iteration of a    *)
(* loop is one block more.                                                 *)
(***************************************************************************)
EXTENDS Naturals, Sequences

CONSTANTS Names,      \* the variables, distinct after resolve_shadowing
          Values, Null,
          LossyAssign,  \* assign in a region that ends before the variable?
          MaxBlocks,  \* bound: blocks open at once
          MaxCopies   \* bound: copies visible at once

ASSUME NarrowingAssumption ==
    /\ Null \notin Values /\ Values # {}
    /\ LossyAssign \in BOOLEAN
    /\ MaxBlocks \in Nat \ {0} /\ MaxCopies \in Nat

VARIABLES
    value,    \* the value of each variable as the program is written
    cell,     \* the variable of that name in the compiled program
    copies,   \* the x__narrowN variables in scope, oldest first
    type,     \* check_null_safety's scope: "T" or "T?" for each variable
    level,    \* the block that declares each variable, 0 if none that is open
    blocks,   \* the open blocks, see Block
    status    \* "running", "returned", or what stopped it: see AssertFails, Use

vars == <<value, cell, copies, type, level, blocks, status>>

Types  == {"T", "T?"}
Places == {"sink", "operand", "unary"}     \* where a value is used, see AcceptedAt
NoName == "no name"

\* recorded: narrow_block's scope; copy: the copy that a name stands for, 0 for
\* the variable itself; guarded: names that a guard clause has changed before
\* narrow_block comes to the block's statements; proven: names that the program
\* has tested; size: copies in scope; test, exits: see IfNull; loopVar: the
\* variable of a for; header: the condition and update of a counted for, which
\* are around its body.
Block == [recorded : [Names -> Types \cup {"unknown"}],
          copy     : [Names -> 0 .. MaxCopies],
          guarded  : SUBSET Names,
          proven   : SUBSET Names,
          size     : 0 .. MaxCopies,
          test     : Names \cup {NoName},
          exits    : BOOLEAN,
          loopVar  : Names \cup {NoName},
          header   : BOOLEAN]

Top        == blocks[Len(blocks)]
Visible(n) == level[n] > 0

\* A block inside the top one; it knows what that one knows.
Inner == [Top EXCEPT !.test = NoName, !.exits = FALSE, !.loopVar = NoName, !.header = FALSE]

-----------------------------------------------------------------------------
\* What a name stands for in block b of the compiled program, and in the top
\* one, and its type there: copies are of the definite type.
Held(b, n)  == IF b.copy[n] = 0 THEN cell[n] ELSE copies[b.copy[n]]
Compiled(n) == Held(Top, n)
TypeOf(n)   == IF Top.copy[n] = 0 THEN type[n] ELSE "T"

\* Expressions: a value, null, x, x! and x ?? y or x ?? value.
Expr == [form : {"value"}, of : Values]
            \cup [form : {"null"}]
            \cup [form : {"name", "assert"}, of : Names]
            \cup [form : {"or"}, of : Names, other : Names \cup Values]

NamesIn(e) ==
    IF e.form \in {"value", "null"} THEN {}
    ELSE {e.of} \cup (IF e.form = "or" THEN {e.other} \ Values ELSE {})

\* The value of e, names having the values that Read gives them.
Eval(e, Read(_)) ==
    CASE e.form = "null"              -> Null
      [] e.form = "value"             -> e.of
      [] e.form \in {"name", "assert"} -> Read(e.of)
      [] e.form = "or"                ->
            IF Read(e.of) # Null THEN Read(e.of)
            ELSE IF e.other \in Values THEN e.other ELSE Read(e.other)

Written(n)  == value[n]
Meaning(e)  == Eval(e, Written)
Computed(e) == Eval(e, Compiled)

\* is_definite.  infer has no type for null, and what has none counts as definite.
Definite(e) ==
    \/ e.form \in {"value", "null", "assert", "or"}
    \/ e.form = "name" /\ TypeOf(e.of) = "T"

\* check_expr: the fallback of ?? has to be definite.
Checked(e) ==
    e.form = "or" /\ e.other \notin Values => TypeOf(e.other) = "T"

\* check_sink, with check_expr before it.
Fits(e, expected) ==
    Checked(e) /\ (expected = "T?" \/ (e.form # "null" /\ Definite(e)))

-----------------------------------------------------------------------------
Init ==
    /\ type \in [Names -> Types]
    /\ level \in [Names -> {0, 1}]                 \* parameters have level 1
    /\ value \in [Names -> Values \cup {Null}]
    /\ \A n \in Names :
          /\ level[n] = 0 => value[n] = Null /\ type[n] = "T?"
          /\ level[n] = 1 /\ type[n] = "T" => value[n] # Null
    /\ cell = value
    /\ copies = <<>>
    /\ blocks = << [recorded |-> [n \in Names |-> IF level[n] = 0 THEN "unknown" ELSE type[n]],
                    copy |-> [n \in Names |-> 0], guarded |-> {}, proven |-> {}, size |-> 0,
                    test |-> NoName, exits |-> FALSE, loopVar |-> NoName,
                    header |-> FALSE] >>
    /\ status = "running"

Running == status = "running" /\ UNCHANGED status
InList  == Running /\ ~ Top.header       \* the next of a list of statements
SetTop(b) == blocks' = [blocks EXCEPT ![Len(blocks)] = b]

\* A value is computed.  x! of a missing x is the end of the program with one
\* backend and garbage with the other: the writer's responsibility.
Evaluates(e) ==
    /\ \A n \in NamesIn(e) : Visible(n)
    /\ e.form = "assert" => Computed(e) # Null

AssertFails ==
    /\ status = "running"
    /\ \E n \in Names : Visible(n) /\ Compiled(n) = Null
    /\ status' = "asserted"
    /\ UNCHANGED <<value, cell, copies, type, level, blocks>>

\* Mutation: record_decl overlooks let.
LetUnrecorded(n, t, e) ==
    /\ InList
    /\ ~ Visible(n)
    /\ Evaluates(e) /\ Fits(e, t)
    /\ value' = [value EXCEPT ![n] = Meaning(e)]
    /\ cell' = [cell EXCEPT ![n] = Computed(e)]
    /\ type' = [type EXCEPT ![n] = t]
    /\ level' = [level EXCEPT ![n] = Len(blocks)]
    /\ UNCHANGED <<blocks, copies>>

\* let n: t = e, or let n = e with t inferred.  A literal null
\* without a type is left out.
Let(n, t, e) ==
    /\ InList
    /\ ~ Visible(n)
    /\ Evaluates(e) /\ Fits(e, t)
    /\ value' = [value EXCEPT ![n] = Meaning(e)]
    /\ cell' = [cell EXCEPT ![n] = Computed(e)]
    /\ type' = [type EXCEPT ![n] = t]
    /\ level' = [level EXCEPT ![n] = Len(blocks)]
    /\ SetTop([Top EXCEPT !.recorded[n] = t])
    /\ UNCHANGED copies

\* The region in which n has its copy ends before n does.
Lossy(n) == Top.copy[n] # blocks[level[n]].copy[n]

\* Mutation: rename_in_stmt renames in the value and not the target.
AssignOriginal(n, e) ==
    /\ Running
    /\ Visible(n)
    /\ LossyAssign \/ ~ Lossy(n)
    /\ Evaluates(e) /\ Fits(e, type[n])
    /\ value' = [value EXCEPT ![n] = Meaning(e)]
    /\ cell' = [cell EXCEPT ![n] = Computed(e)]
    /\ UNCHANGED <<type, level, blocks, copies>>

\* Mutation: the value is checked against the type of the variable.
AssignChecksVariable(n, e) ==
    /\ Running
    /\ Visible(n)
    /\ LossyAssign \/ ~ Lossy(n)
    /\ Evaluates(e) /\ Fits(e, type[n])
    /\ value' = [value EXCEPT ![n] = Meaning(e)]
    /\ IF Top.copy[n] = 0
       THEN cell' = [cell EXCEPT ![n] = Computed(e)] /\ UNCHANGED copies
       ELSE copies' = [copies EXCEPT ![Top.copy[n]] = Computed(e)] /\ UNCHANGED cell
    /\ UNCHANGED <<type, level, blocks>>

\* n = e: written to what the name stands for.
Assign(n, e) ==
    /\ Running
    /\ Visible(n)
    /\ LossyAssign \/ ~ Lossy(n)
    /\ Evaluates(e) /\ Fits(e, TypeOf(n))
    /\ value' = [value EXCEPT ![n] = Meaning(e)]
    /\ IF Top.copy[n] = 0
       THEN cell' = [cell EXCEPT ![n] = Computed(e)] /\ UNCHANGED copies
       ELSE copies' = [copies EXCEPT ![Top.copy[n]] = Computed(e)] /\ UNCHANGED cell
    /\ UNCHANGED <<type, level, blocks>>

\* e is used where a value is needed: printed, an argument or a result of the
\* definite type ("sink"), an operand of a binary operator but for a test
\* against null, the receiver of a field or index ("operand"), or the operand of
\* a minus ("unary").  A null written as an operand is no issue, and a minus is
\* not looked at.
AcceptedAt(place, e) ==
    CASE place = "sink"    -> Fits(e, "T")
      [] place = "operand" -> Checked(e) /\ Definite(e)
      [] place = "unary"   -> Checked(e)

\* The two uses of null that check_null_safety lets through.
Unguarded(place, e) == place = "unary" \/ e.form = "null"

Use(place, e) ==
    /\ status = "running"
    /\ Evaluates(e) /\ AcceptedAt(place, e)
    /\ status' = IF Computed(e) # Null THEN status
                 ELSE IF Unguarded(place, e) THEN "unguarded" ELSE "misused"
    /\ UNCHANGED <<value, cell, copies, type, level, blocks>>

-----------------------------------------------------------------------------
\* narrow_block makes a copy of n where the name that it meets has an optional
\* type; a name that a guard clause has changed has not.
Mints(b, n) == n \notin b.guarded /\ b.recorded[n] = "T?"

\* b, in which n has been proven present.
Narrowed(b, n) ==
    IF Mints(b, n)
    THEN [b EXCEPT !.copy[n] = b.size + 1, !.size = @ + 1, !.proven = @ \cup {n}]
    ELSE [b EXCEPT !.proven = @ \cup {n}]

\* let x__narrowN: T = x!;
CopiesOf(b, n) ==
    IF Mints(b, n)
    THEN Append(SubSeq(copies, 1, b.size), Held(b, n))
    ELSE SubSeq(copies, 1, b.size)

Room(n) == Mints(Top, n) => Len(copies) < MaxCopies

\* if (n != null) { ... }, if (n == null) { ... } else { ... }: n is present.
EnterPresent(n) ==
    /\ InList
    /\ Visible(n) /\ Room(n) /\ Len(blocks) < MaxBlocks
    /\ Compiled(n) # Null
    /\ copies' = CopiesOf(Top, n)
    /\ blocks' = Append(blocks, Narrowed(Inner, n))
    /\ UNCHANGED <<value, cell, type, level>>

\* if (n == null) { ... } without else, and n is missing.  exits: the last
\* statement of the block is return, throw, break or continue.
IfNull(n, exits) ==
    /\ InList
    /\ Visible(n) /\ Len(blocks) < MaxBlocks
    /\ Compiled(n) = Null
    /\ blocks' = Append(blocks, [Inner EXCEPT !.test = n, !.exits = exits])
    /\ UNCHANGED <<value, cell, copies, type, level>>

\* Mutation: any block will do.
AnyBlockExits(exits) == TRUE

DefinitelyExits(exits) == exits

\* The rest of block b after that if.
AfterGuard(b, n, exits) ==
    IF ~ DefinitelyExits(exits) THEN b
    ELSE [Narrowed(b, n) EXCEPT !.guarded = IF Mints(b, n) THEN @ \cup {n} ELSE @]

CopiesAfter(b, n, exits) ==
    IF DefinitelyExits(exits) THEN CopiesOf(b, n) ELSE SubSeq(copies, 1, b.size)

\* The same when n is present: the block is skipped.
SkipNull(n, exits) ==
    /\ InList
    /\ Visible(n) /\ Room(n)
    /\ Compiled(n) # Null
    /\ copies' = CopiesAfter(Top, n, exits)
    /\ SetTop(AfterGuard(Top, n, exits))
    /\ UNCHANGED <<value, cell, type, level>>

\* Any other block: a loop, a case, a try, a branch of another if.
Enter ==
    /\ Running
    /\ Len(blocks) < MaxBlocks
    /\ blocks' = Append(blocks, Inner)
    /\ UNCHANGED <<value, cell, copies, type, level>>

\* One iteration of for (let n of array), the array being of type t[].  Its
\* variable is not recorded for the body.
ForOf(n, t, v) ==
    /\ InList
    /\ ~ Visible(n) /\ Len(blocks) < MaxBlocks
    /\ v = Null => t = "T?"
    /\ value' = [value EXCEPT ![n] = v]
    /\ cell' = [cell EXCEPT ![n] = v]
    /\ type' = [type EXCEPT ![n] = t]
    /\ level' = [level EXCEPT ![n] = Len(blocks) + 1]
    /\ blocks' = Append(blocks, [Inner EXCEPT !.loopVar = n])
    /\ UNCHANGED copies

\* for (let n: t = e; condition; update) { ... }: a block for its condition and
\* its update, an assignment, with one more for each iteration inside it.
\* record_decl knows nothing of this let, neither for the body nor afterwards.
ForLet(n, t, e) ==
    /\ InList
    /\ ~ Visible(n) /\ Len(blocks) < MaxBlocks
    /\ Evaluates(e) /\ Fits(e, t)
    /\ value' = [value EXCEPT ![n] = Meaning(e)]
    /\ cell' = [cell EXCEPT ![n] = Computed(e)]
    /\ type' = [type EXCEPT ![n] = t]
    /\ level' = [level EXCEPT ![n] = Len(blocks) + 1]
    /\ blocks' = Append(blocks, [Inner EXCEPT !.loopVar = n, !.header = TRUE])
    /\ UNCHANGED copies

\* Block k when the statement in it that opened block k + 1 is done: record_decl.
Recorded(k) ==
    LET b == blocks[k + 1]
    IN  IF b.loopVar = NoName \/ b.header THEN blocks[k]
        ELSE [blocks[k] EXCEPT !.recorded[b.loopVar] = type[b.loopVar]]

\* Variables of blocks above k are gone.
Forget(k) ==
    LET gone == {n \in Names : level[n] > k}
        Without(f, none) == [n \in Names |-> IF n \in gone THEN none ELSE f[n]]
    IN  /\ value' = Without(value, Null) /\ cell' = Without(cell, Null)
        /\ type' = Without(type, "T?")   /\ level' = Without(level, 0)

\* Control reaches the end of the top block; it cannot where the last statement
\* is an exit.
EndBlock ==
    LET k == Len(blocks) - 1
    IN  /\ Running
        /\ k > 0 /\ ~ Top.exits
        /\ Forget(k)
        /\ IF Top.test = NoName
           THEN /\ copies' = SubSeq(copies, 1, blocks[k].size)
                /\ blocks' = Append(SubSeq(blocks, 1, k - 1), Recorded(k))
           ELSE /\ copies' = CopiesAfter(blocks[k], Top.test, Top.exits)
                /\ blocks' = Append(SubSeq(blocks, 1, k - 1),
                                    AfterGuard(Recorded(k), Top.test, Top.exits))

\* break, continue, or throw to a catch that is done at once.
Jump(k) ==
    /\ Running
    /\ k \in 1 .. Len(blocks) - 1
    /\ Forget(k)
    /\ copies' = SubSeq(copies, 1, blocks[k].size)
    /\ blocks' = Append(SubSeq(blocks, 1, k - 1), Recorded(k))

Return ==
    /\ status = "running" /\ ~ Top.header
    /\ status' = "returned"
    /\ UNCHANGED <<value, cell, copies, type, level, blocks>>

Ended == status # "running" /\ UNCHANGED vars

Statement ==
    \/ \E n \in Names, e \in Expr :
        \/ \E t \in Types : Let(n, t, e) \/ ForLet(n, t, e)
        \/ Assign(n, e)
    \/ \E place \in Places, e \in Expr : Use(place, e)
    \/ AssertFails

Control ==
    \/ \E n \in Names :
        \/ EnterPresent(n)
        \/ \E exits \in BOOLEAN : IfNull(n, exits) \/ SkipNull(n, exits)
        \/ \E t \in Types, v \in Values \cup {Null} : ForOf(n, t, v)
    \/ Enter \/ EndBlock \/ Return
    \/ \E k \in 1 .. MaxBlocks : Jump(k)

Next == Statement \/ Control \/ Ended

Spec == Init /\ [][Next]_vars

-----------------------------------------------------------------------------
TypeOK ==
    /\ value \in [Names -> Values \cup {Null}] /\ cell \in [Names -> Values \cup {Null}]
    /\ copies \in Seq(Values)
    /\ type \in [Names -> Types] /\ level \in [Names -> 0 .. Len(blocks)]
    /\ blocks \in Seq(Block) /\ Len(blocks) \in 1 .. MaxBlocks
    /\ Len(copies) = Top.size
    /\ \A i \in 1 .. Len(blocks) : \A n \in Names : blocks[i].copy[n] <= blocks[i].size
    /\ status \in {"running", "returned", "asserted", "unguarded", "misused"}

\* "A value typed T? can never reach a place that expects a guaranteed T":
\* whatever tests, copies, assignments and jumps led here, a variable or copy of
\* definite type is present, so no unwrap that narrowing put in has met null, and
\* no sink, operand or receiver has met the null of a variable.  Not so for the
\* operand of a unary minus, nor for a null that stands as an operand or receiver
\* itself: check_null_safety lets these two through (Unguarded).
NullStaysOptional ==
    /\ status # "misused"
    /\ \A n \in Names : Visible(n) /\ TypeOf(n) = "T" => Compiled(n) # Null
    /\ \A k \in 1 .. Len(copies) : copies[k] # Null

\* What a name stands for has the value that the program gave the variable, in
\* every open block.
ReadsAgree ==
    \A i \in 1 .. Len(blocks) : \A n \in Names :
        level[n] \in 1 .. i => Held(blocks[i], n) = value[n]

\* n is the variable of a for-of, or is declared in the head of a counted for.
IsLoopVariable(n) == Visible(n) /\ blocks[level[n]].loopVar = n

\* A test "proves x is present for the rest of that block" and a guard clause
\* "for every statement after the if, in the same function or block"
\* (docs/language-reference.md): it may be used there as it stands.  This is so
\* for parameters and for variables declared in a list of statements; those of a
\* for, of either kind, are not narrowed in its body.
ProvenIsDefinite ==
    \A n \in Top.proven : Visible(n) => TypeOf(n) = "T" \/ IsLoopVariable(n)

-----------------------------------------------------------------------------
(***************************************************************************)
(* The inductive invariant.  A block sees the copies of the block around   *)
(* it and perhaps more; a name goes over to younger copies as blocks are   *)
(* entered, no two names share one, and a variable has none before it is   *)
(* declared.                                                               *)
(***************************************************************************)
CopiesInScope ==
    \A i, j \in 1 .. Len(blocks) : i <= j => blocks[i].size <= blocks[j].size

DefinitePresent == \A n \in Names : Visible(n) /\ type[n] = "T" => cell[n] # Null

CopiesGrow ==
    \A i, j \in 1 .. Len(blocks) : i <= j =>
        \A n \in Names : blocks[i].copy[n] <= blocks[j].copy[n]

CopiesApart ==
    \A i, j \in 1 .. Len(blocks) : \A n, m \in Names :
        n # m /\ blocks[i].copy[n] = blocks[j].copy[m] => blocks[i].copy[n] = 0

NoCopyBefore ==
    \A i \in 1 .. Len(blocks) : \A n \in Names :
        level[n] \notin 1 .. i => blocks[i].copy[n] = 0

IInv ==
    /\ TypeOK
    /\ CopiesInScope /\ DefinitePresent
    /\ CopiesGrow /\ CopiesApart /\ NoCopyBefore
    /\ status # "misused"
    /\ LossyAssign \/ ReadsAgree

(***************************************************************************)
(* And of what a block has proven.  What narrow_block has recorded of a    *)
(* variable in scope is its type, but for the variable of a for of either  *)
(* kind; so a name that is proven has its copy, unless it needs none.      *)
(***************************************************************************)
ProvenVisible ==
    \A i \in 1 .. Len(blocks) : \A n \in blocks[i].proven : level[n] \in 1 .. i

LoopVariablesHere ==
    \A i \in 1 .. Len(blocks) :
        blocks[i].loopVar # NoName => level[blocks[i].loopVar] = i

TypesRecorded ==
    \A i \in 1 .. Len(blocks) : \A n \in Names :
        level[n] \in 1 .. i /\ blocks[level[n]].loopVar # n =>
            blocks[i].recorded[n] = type[n]

GuardedHaveCopies ==
    \A i \in 1 .. Len(blocks) : \A n \in blocks[i].guarded : blocks[i].copy[n] # 0

ProvenHaveCopies ==
    \A i \in 1 .. Len(blocks) : \A n \in blocks[i].proven :
        blocks[i].copy[n] # 0 \/ type[n] = "T" \/ blocks[level[n]].loopVar = n

ProvenIInv ==
    /\ ProvenVisible /\ LoopVariablesHere /\ TypesRecorded
    /\ GuardedHaveCopies /\ ProvenHaveCopies
=============================================================================
