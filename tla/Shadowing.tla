----------------------------- MODULE Shadowing ------------------------------
(***************************************************************************)
(* resolve_shadowing (arcis-validation/src/shadowing.rs): the pass that    *)
(* renames a declaration that shadows one of an enclosing block, and every *)
(* reference to it, so that the rest of the compiler may forget scopes.    *)
(*                                                                         *)
(* The pass is one walk over the program.  The program is not fixed: at    *)
(* each step the next piece of syntax is any the grammar allows there, so  *)
(* the behaviours are the walks over every program within the bounds.      *)
(* Beside the pass's own state (frames) the module keeps what the program  *)
(* means (lexical): which declaration each name denotes by block structure.*)
(*                                                                         *)
(* An identifier is the sequence of its parts: x is <<x>>, and the text    *)
(* x__shadow1 is <<x, 1>> whether the pass minted it or the user wrote it. *)
(***************************************************************************)
EXTENDS Naturals, Sequences

CONSTANTS Words,       \* what identifiers are made of
          Names,       \* the identifiers the program declares
          Kinds,       \* the constructs it may use, see CanOpen
          MaxDecls,    \* bound: declarations in the program
          MaxScopes,   \* bound: scopes open at once in one function
          MaxFrames    \* bound: functions and arrows open at once

Identifiers == Seq(Words \cup Nat)

ASSUME NamesAssumption ==
    Names \subseteq Identifiers \ {<<>>}

ASSUME ShadowBounds ==
    MaxDecls \in Nat /\ MaxScopes \in Nat /\ MaxFrames \in Nat \ {0}

VARIABLES
    frames,    \* the pass: scopes and counters of each rewrite_function or
               \* arrow being rewritten, the first for main
    nest,      \* nest[g]: the constructs the walk is inside of in function
               \* g, first the function and then one for each scope opened
    lexical,   \* truth: like frames[g].scopes, with declarations for names
    decls      \* how many declarations the walk has passed

shadowVars == <<frames, nest, lexical, decls>>

Unbound == <<>>                              \* no identifier is empty
NoDecl  == 0                                 \* declarations count from 1

Mint(n, k) == Append(n, k)                   \* format!("{}__shadow{}", n, k)

EmptyScope == [n \in Names |-> Unbound]
EmptyLex   == [n \in Names |-> NoDecl]

\* own: the first scope that is not a copy of the enclosing function's.
FreshFrame(inherited) ==
    [scopes   |-> Append(inherited, EmptyScope),
     counters |-> [n \in Names |-> 0],
     own      |-> Len(inherited) + 1]

TopFrame == frames[Len(frames)]
TopNest  == nest[Len(nest)]
TopLex   == lexical[Len(lexical)]

-----------------------------------------------------------------------------
\* declare: the innermost scope, the enclosing ones, and the name in use from
\* here on.
InCurrent(f, n) == f.scopes[Len(f.scopes)][n] # Unbound

ShadowsAncestor(f, n) ==
    \E i \in 1 .. Len(f.scopes) - 1 : f.scopes[i][n] # Unbound

Renames(f, n) == ~ InCurrent(f, n) /\ ShadowsAncestor(f, n)

\* What declare returns.  A name the current scope already has stays as it is.
FinalName(f, n) == IF Renames(f, n) THEN Mint(n, f.counters[n] + 1) ELSE n

\* Mutation: the counter is read and never advanced.
DeclareNoCount(f, n) ==
    IF InCurrent(f, n) THEN f
    ELSE [f EXCEPT !.scopes[Len(f.scopes)][n] = FinalName(f, n)]

Declare(f, n) ==
    IF InCurrent(f, n) THEN f
    ELSE [f EXCEPT !.scopes[Len(f.scopes)][n] = FinalName(f, n),
                   !.counters[n] = IF Renames(f, n) THEN @ + 1 ELSE @]

\* The value that the innermost scope binding n has for it, or absent.
Lookup(scopes, n, absent) ==
    LET bound == {i \in 1 .. Len(scopes) : scopes[i][n] # absent}
    IN  IF bound = {} THEN absent
        ELSE scopes[CHOOSE i \in bound : \A j \in bound : j <= i][n]

\* resolve: what every reference to n becomes here; Unbound when n is not a
\* local, and is then left as it is.
Resolve(f, n) == Lookup(f.scopes, n, Unbound)

PushScope(f) == [f EXCEPT !.scopes = Append(@, EmptyScope)]
PopScope(f)  == [f EXCEPT !.scopes = SubSeq(@, 1, Len(@) - 1)]

\* The truth beside it: d is what n denotes in the current scope from here on,
\* and Denoted(lex, n) what a reference to n means.
Denote(lex, n, d) == [lex EXCEPT ![Len(lex)][n] = d]
PushLex(lex)      == Append(lex, EmptyLex)
PopLex(lex)       == SubSeq(lex, 1, Len(lex) - 1)
Denoted(lex, n)   == Lookup(lex, n, NoDecl)

-----------------------------------------------------------------------------
ShadowInit ==
    /\ frames = <<FreshFrame(<<>>)>>
    /\ nest = << <<"main">> >>
    /\ lexical = << <<EmptyLex>> >>
    /\ decls = 0

SetTop(f, lex) ==
    /\ frames' = [frames EXCEPT ![Len(frames)] = f]
    /\ lexical' = [lexical EXCEPT ![Len(lexical)] = lex]

Open(constructs)  == nest' = [nest EXCEPT ![Len(nest)] = @ \o constructs]
Innermost         == TopNest[Len(TopNest)]

\* Where the header of a for or for-of is innermost its body is behind us, and
\* only the update of a for is left: no statement can stand there.
AtStatement   == Innermost \notin {"for", "forOf"}
CanOpen(kind) == kind \in Kinds /\ AtStatement /\ Len(TopNest) < MaxScopes

\* let or const, or the next parameter when a function or arrow has just been
\* entered.  An initializer is resolved before the name is declared.
Let(n) ==
    /\ AtStatement
    /\ decls < MaxDecls
    /\ SetTop(Declare(TopFrame, n), Denote(TopLex, n, decls + 1))
    /\ decls' = decls + 1
    /\ UNCHANGED nest

\* rewrite_block: an if or else branch, the body of a while, a case or a try,
\* a catch that names nothing.
OpenBlock ==
    /\ CanOpen("block")
    /\ Open(<<"block">>)
    /\ SetTop(PushScope(TopFrame), PushLex(TopLex))
    /\ UNCHANGED decls

\* Mutation: the catch name is declared before its scope is pushed.
CatchNameOutside(n) ==
    /\ CanOpen("catch")
    /\ decls < MaxDecls
    /\ Open(<<"catch">>)
    /\ SetTop(PushScope(Declare(TopFrame, n)),
              Denote(PushLex(TopLex), n, decls + 1))
    /\ decls' = decls + 1

\* catch (n): the name and the body share one scope.
OpenCatch(n) ==
    /\ CanOpen("catch")
    /\ decls < MaxDecls
    /\ Open(<<"catch">>)
    /\ SetTop(Declare(PushScope(TopFrame), n),
              Denote(PushLex(TopLex), n, decls + 1))
    /\ decls' = decls + 1

\* for (let n = ...; ...; ...) and for (let n of ...): a scope for the header,
\* and in it one for the body.
OpenLoop(kind, n) ==
    /\ kind \in {"for", "forOf"}
    /\ CanOpen(kind)
    /\ decls < MaxDecls
    /\ Open(<<kind, "block">>)
    /\ SetTop(PushScope(Declare(PushScope(TopFrame), n)),
              PushLex(Denote(PushLex(TopLex), n, decls + 1)))
    /\ decls' = decls + 1

\* The end of a block, a catch, a loop body, or a loop: the update of a for is
\* resolved while the header's scope is still open.
CloseScope ==
    /\ Len(TopNest) > 1
    /\ nest' = [nest EXCEPT ![Len(nest)] = SubSeq(@, 1, Len(@) - 1)]
    /\ SetTop(PopScope(TopFrame), PopLex(TopLex))
    /\ UNCHANGED decls

\* rewrite_function: scopes and counters of its own, wherever it stands; an
\* export only wraps one.
OpenFunction(kind) ==
    /\ kind \in {"function", "exportFunction"} \cap Kinds
    /\ AtStatement
    /\ Len(frames) < MaxFrames
    /\ frames' = Append(frames, FreshFrame(<<>>))
    /\ nest' = Append(nest, <<kind>>)
    /\ lexical' = Append(lexical, <<EmptyLex>>)
    /\ UNCHANGED decls

\* An arrow: a copy of the scopes, one more for its parameters, and counters
\* that start again from zero.
OpenArrow ==
    /\ "arrow" \in Kinds
    /\ AtStatement
    /\ Len(frames) < MaxFrames
    /\ frames' = Append(frames, FreshFrame(TopFrame.scopes))
    /\ nest' = Append(nest, <<"arrow">>)
    /\ lexical' = Append(lexical, PushLex(TopLex))
    /\ UNCHANGED decls

\* The function's or arrow's scopes and counters are dropped.
CloseFunction ==
    /\ Len(frames) > 1
    /\ Len(TopNest) = 1
    /\ frames' = SubSeq(frames, 1, Len(frames) - 1)
    /\ nest' = SubSeq(nest, 1, Len(nest) - 1)
    /\ lexical' = SubSeq(lexical, 1, Len(lexical) - 1)
    /\ UNCHANGED decls

ShadowNext ==
    \/ \E n \in Names :
        \/ Let(n) \/ OpenCatch(n)
        \/ \E kind \in Kinds : OpenLoop(kind, n)
    \/ OpenBlock \/ CloseScope
    \/ \E kind \in Kinds : OpenFunction(kind)
    \/ OpenArrow \/ CloseFunction

ShadowSpec == ShadowInit /\ [][ShadowNext]_shadowVars

-----------------------------------------------------------------------------
FrameType == [scopes   : Seq([Names -> Identifiers]),
              counters : [Names -> Nat],
              own      : Nat \ {0}]

ShadowTypeOK ==
    /\ frames \in Seq(FrameType) /\ frames # <<>>
    /\ nest \in Seq(Seq(Kinds \cup {"main", "block"}))
    /\ lexical \in Seq(Seq([Names -> 0 .. MaxDecls]))
    /\ Len(nest) = Len(frames) /\ Len(lexical) = Len(frames)
    /\ \A g \in 1 .. Len(frames) :
        /\ Len(nest[g]) = Len(frames[g].scopes) - frames[g].own + 1
        /\ Len(lexical[g]) = Len(frames[g].scopes)
        /\ nest[g] # <<>>
    /\ decls \in 0 .. MaxDecls

\* "After this pass, no two visible-at-the-same-time bindings share a name":
\* the names given to any two declarations of one function that are in scope
\* together differ, in every function the walk is inside of.
VisibleNamesDiffer ==
    \A g \in 1 .. Len(frames) :
        \A i, j \in frames[g].own .. Len(frames[g].scopes) : \A n, m \in Names :
            LET a == frames[g].scopes[i][n]
                b == frames[g].scopes[j][m]
            IN  a # Unbound /\ a = b => i = j /\ n = m

-----------------------------------------------------------------------------
(***************************************************************************)
(* The inductive invariant.  Within one function a name is given to a      *)
(* declaration as it stands or with a number the counter has reached, and  *)
(* never twice among the scopes that are open.                             *)
(***************************************************************************)
NamesAreMinted(f) ==
    \A i \in f.own .. Len(f.scopes) : \A n \in Names :
        f.scopes[i][n] # Unbound =>
            \/ f.scopes[i][n] = n
            \/ \E k \in 1 .. f.counters[n] : f.scopes[i][n] = Mint(n, k)

NamesAreFresh(f) ==
    \A i, j \in f.own .. Len(f.scopes) : \A n \in Names :
        f.scopes[i][n] # Unbound /\ f.scopes[i][n] = f.scopes[j][n] => i = j

GoodFrame(f) ==
    /\ f \in FrameType
    /\ f.own <= Len(f.scopes)
    /\ NamesAreMinted(f) /\ NamesAreFresh(f)

ShadowIInv ==
    /\ ShadowTypeOK
    /\ \A g \in 1 .. Len(frames) : GoodFrame(frames[g])

\* No identifier of the source looks like a minted one.
Plain == \A n \in Names : Len(n) = 1
=============================================================================
