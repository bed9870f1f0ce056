----------------------------- MODULE NameChecks -----------------------------
(***************************************************************************)
(* The consumers of Shadowing's names.                                     *)
(*                                                                         *)
(* - validate and collect_decl (arcis-validation/src/lib.rs, duplicate.rs) *)
(*   look for a second declaration of one name in one scope;               *)
(* - FunctionCtx (arcis-codegen-cranelift/src/context.rs) keeps the locals *)
(*   of a whole function in one flat map from name to variable.            *)
(*                                                                         *)
(* Both read the program after the pass, declaration by declaration in     *)
(* source order, so their state is advanced here in the step in which the  *)
(* pass meets the declaration.                                             *)
(***************************************************************************)
EXTENDS Shadowing, FiniteSets

VARIABLES
    seen,      \* seen[g][i]: names that collect_decl has in the scope that is
               \* frames[g].scopes[i]
    reported,  \* declarations reported as duplicates
    locals,    \* locals[g]: FunctionCtx.vars, a partial function to declarations
    dups       \* truth: declarations whose scope already had their name

vars == <<frames, nest, lexical, decls, seen, reported, locals, dups>>

-----------------------------------------------------------------------------
\* collect_decl does not look into a for-of, an export or a function, nor into
\* an expression and so an arrow; validate starts it again for the functions at
\* the top level.  What is elsewhere is not checked for duplicates.
Checked ==
    /\ Len(nest) = 1 \/ (nest[1] = <<"main">> /\ Len(nest) = 2)
    /\ \A g \in 1 .. Len(nest) : \A i \in 1 .. Len(nest[g]) :
          nest[g][i] \notin {"forOf", "exportFunction", "arrow"}

\* fctx.define: the last definition of a name is the one it stands for.
Define(map, name, d) ==
    [m \in DOMAIN map \cup {name} |-> IF m = name THEN d ELSE map[m]]

SetTopOf(stack, value) == [stack EXCEPT ![Len(stack)] = value]
TopSeen == seen[Len(seen)]
TopMap  == locals[Len(locals)]

Init ==
    /\ ShadowInit
    /\ seen = << << {} >> >>
    /\ reported = {}
    /\ locals = << <<>> >>
    /\ dups = {}

\* A let, const or parameter, with the name the pass has given it.
CheckLet(n) ==
    LET name  == FinalName(TopFrame, n)
        known == name \in TopSeen[Len(TopSeen)]
    IN  /\ Let(n)
        /\ reported' = IF Checked /\ known THEN reported \cup {decls'} ELSE reported
        /\ seen' = IF Checked
                   THEN SetTopOf(seen, [TopSeen EXCEPT ![Len(TopSeen)] = @ \cup {name}])
                   ELSE seen
        /\ locals' = SetTopOf(locals, Define(TopMap, name, decls'))
        /\ dups' = IF TopLex[Len(TopLex)][n] # NoDecl THEN dups \cup {decls'} ELSE dups

\* export let: renamed and compiled like one without export, not checked.
CheckExportLet(n) ==
    /\ "exportLet" \in Kinds
    /\ Let(n)
    /\ locals' = SetTopOf(locals, Define(TopMap, FinalName(TopFrame, n), decls'))
    /\ dups' = IF TopLex[Len(TopLex)][n] # NoDecl THEN dups \cup {decls'} ELSE dups
    /\ UNCHANGED <<seen, reported>>

CheckBlock ==
    /\ OpenBlock
    /\ seen' = SetTopOf(seen, Append(TopSeen, {}))
    /\ UNCHANGED <<reported, locals, dups>>

\* Names of catches and loop headers are defined and not checked.
CheckHeader(n, opened, step) ==
    /\ step
    /\ seen' = SetTopOf(seen, TopSeen \o opened)
    /\ locals' = SetTopOf(locals, Define(TopMap, FinalName(PushScope(TopFrame), n), decls'))
    /\ UNCHANGED <<reported, dups>>

CheckCatch(n)      == CheckHeader(n, << {} >>, OpenCatch(n))
CheckLoop(kind, n) == CheckHeader(n, << {}, {} >>, OpenLoop(kind, n))

\* Mutation: the names of a block stay behind in the scope around it (what the
\* comment of duplicate.rs says the code once did).
CloseKeepsNames ==
    /\ CloseScope
    /\ seen' = SetTopOf(seen,
            [SubSeq(TopSeen, 1, Len(TopSeen) - 1)
                EXCEPT ![Len(TopSeen) - 1] = @ \cup TopSeen[Len(TopSeen)]])
    /\ UNCHANGED <<reported, locals, dups>>

CheckClose ==
    /\ CloseScope
    /\ seen' = SetTopOf(seen, SubSeq(TopSeen, 1, Len(TopSeen) - 1))
    /\ UNCHANGED <<reported, locals, dups>>

\* Functions and arrows are compiled with a FunctionCtx of their own, and
\* functions are checked with scopes of their own.
CheckFunction ==
    /\ OpenArrow \/ \E kind \in Kinds : OpenFunction(kind)
    /\ seen' = Append(seen, [i \in 1 .. Len(frames'[Len(frames')].scopes) |-> {}])
    /\ locals' = Append(locals, <<>>)
    /\ UNCHANGED <<reported, dups>>

CheckCloseFunction ==
    /\ CloseFunction
    /\ seen' = SubSeq(seen, 1, Len(seen) - 1)
    /\ locals' = SubSeq(locals, 1, Len(locals) - 1)
    /\ UNCHANGED <<reported, dups>>

Next ==
    \/ \E n \in Names :
        \/ CheckLet(n) \/ CheckExportLet(n) \/ CheckCatch(n)
        \/ \E kind \in Kinds : CheckLoop(kind, n)
    \/ CheckBlock \/ CheckClose
    \/ CheckFunction \/ CheckCloseFunction

Spec == Init /\ [][Next]_vars

-----------------------------------------------------------------------------
\* A program without duplicates means the same through the flat map as by its
\* block structure: wherever the walk is, a reference to a local n of the
\* function becomes the name of the variable that n denotes there, and a name
\* with no declaration in scope is left alone.  Names left over from closed
\* blocks, loops and catches never get in the way.
FlatNamesAreRight ==
    dups = {} =>
        \A g \in 1 .. Len(frames) : \A n \in Names :
            LET name  == Resolve(frames[g], n)
                local == Denoted(SubSeq(lexical[g], frames[g].own, Len(lexical[g])), n)
            IN  /\ (name = Unbound) <=> (Denoted(lexical[g], n) = NoDecl)
                /\ local # NoDecl =>
                    name \in DOMAIN locals[g] /\ locals[g][name] = local

\* What is reported as a duplicate is one: neither shadowing nor sibling
\* blocks with the same names are.
OnlyDuplicatesReported == reported \subseteq dups

-----------------------------------------------------------------------------
(***************************************************************************)
(* The inductive invariant.  Names left over from closed scopes need not   *)
(* be spoken of: a name is fresh among those that are visible when it is   *)
(* defined, so the map stays right for every scope that is open.           *)
(***************************************************************************)

\* A name is bound where the program has a declaration of it.
Follows(f, lex) ==
    \A i \in 1 .. Len(f.scopes) : \A n \in Names :
        f.scopes[i][n] = Unbound <=> lex[i][n] = NoDecl

\* The flat map of a function is right for each of its open scopes.
MapFollows(f, lex, map) ==
    \A i \in f.own .. Len(f.scopes) : \A n \in Names :
        lex[i][n] # NoDecl =>
            f.scopes[i][n] \in DOMAIN map /\ map[f.scopes[i][n]] = lex[i][n]

\* The names the pass may have given to declarations of n so far.
Given(f, n) == {n} \cup {Mint(n, k) : k \in 1 .. f.counters[n]}

\* collect_decl has seen only names of declarations of that very scope.
SeenFollows(f, s) ==
    /\ Len(s) = Len(f.scopes)
    /\ \A i \in f.own .. Len(f.scopes) : \A name \in s[i] :
          \E n \in Names : f.scopes[i][n] # Unbound /\ name \in Given(f, n)

Agrees(f, lex, s, map) ==
    /\ Follows(f, lex)
    /\ SeenFollows(f, s)
    /\ dups = {} => MapFollows(f, lex, map)

Maps == UNION {[S -> Nat] : S \in SUBSET Identifiers}

ChecksTypeOK ==
    /\ seen \in Seq(Seq(SUBSET Identifiers)) /\ Len(seen) = Len(frames)
    /\ locals \in Seq(Maps) /\ Len(locals) = Len(frames)

ChecksAgree ==
    \A g \in 1 .. Len(frames) : Agrees(frames[g], lexical[g], seen[g], locals[g])

ChecksIInv ==
    /\ ShadowIInv
    /\ ChecksTypeOK
    /\ ChecksAgree
    /\ OnlyDuplicatesReported
=============================================================================
