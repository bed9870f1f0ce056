------------------------------ MODULE Inference ------------------------------
(* Type inference and the type check (crates/arcis-validation, infer.rs and *)
(* typecheck.rs).  A context c holds the scope, the environment of all       *)
(* modules and the functions whose return type is being worked out; m is the *)
(* memo of return types, which every look at an expression may extend.       *)
EXTENDS Types

TypeEnv(modules) ==
  LET flat == FlattenSeq(modules)
      stmts == [i \in DOMAIN flat |-> Declared(flat[i])]
      Literal(n) == IF n.types[1] # NoType THEN n.types[1]
                    ELSE CASE n.kids[1].k = "number" -> Number
                           [] n.kids[1].k = "string" -> String
                           [] n.kids[1].k = "bool" -> Boolean
                           [] OTHER -> NoType
      typed == SelectSeq(OfKind(stmts, "let"), LAMBDA n : Literal(n) # NoType)
  IN [functions |-> Table(OfKind(stmts, "function"), LAMBDA n : n),
      consts |-> Table(typed, Literal),
      enums |-> {n.name : n \in Range(OfKind(stmts, "enum"))}]

Result(t, m) == [t |-> t, m |-> m]
Put(scope, name, t) == IF t = NoType THEN scope ELSE (name :> t) @@ scope
PutAll(scope, fn) == Table([i \in DOMAIN fn.names |-> [name |-> fn.names[i], t |-> fn.types[i]]],
                           LAMBDA p : p.t) @@ scope
InScope(c, scope) == [c EXCEPT !.scope = scope]

Builtins ==
  [print |-> Void, input |-> String, str |-> String, parseFloat |-> Number,
   parseInt |-> Number, Number |-> Number, isNaN |-> Boolean]
StringMethods == {"toUpperCase", "toLowerCase", "trim", "substring", "charAt"}

-----------------------------------------------------------------------------
(* expr_type and what it asks for.                                         *)

RECURSIVE ExprType(_, _, _), Walk(_, _, _)

\* infer_body_return: the first return that has a type, in a scope without blocks.
Found(w) == Result(w.t, w.m)
BodyReturn(stmts, c, m) ==
  Found(Walk(stmts, [scope |-> c.scope, t |-> NoType, m |-> m, left |-> FALSE], c))

OrVoid(r) == IF r.t = NoType THEN Result(Void, r.m) ELSE r
Remembered(f, r) == Result(r.t, (f :> r.t) @@ r.m)

\* Mutation: the memo takes a function's type before its body has been read.
ReturnTypeOfWrong(f, c, m) ==
  IF f \notin DOMAIN c.env.functions THEN Result(NoType, m)
  ELSE LET fn == c.env.functions[f]
       IN IF Returned(fn) # Void THEN Result(Returned(fn), m)
          ELSE IF f \in DOMAIN m THEN Result(m[f], m)
          ELSE OrVoid(BodyReturn(fn.kids, InScope(c, PutAll(<<>>, fn)), (f :> Void) @@ m))

ReturnTypeOf(f, c, m) ==
  IF f \notin DOMAIN c.env.functions THEN Result(NoType, m)
  ELSE LET fn == c.env.functions[f]
       IN IF Returned(fn) # Void THEN Result(Returned(fn), m)
          ELSE IF f \in DOMAIN m THEN Result(m[f], m)
          ELSE IF f \in c.busy THEN Result(Void, m)
          ELSE LET inside == [InScope(c, PutAll(<<>>, fn)) EXCEPT !.busy = @ \cup {f}]
               IN Remembered(f, OrVoid(BodyReturn(fn.kids, inside, m)))

ArrowReturn(arrow, c, m) ==
  LET inside == InScope(c, PutAll(c.scope, arrow))
  IN IF Returned(arrow) # NoType THEN Result(Returned(arrow), m)
     ELSE IF arrow.kids[1].k = "block" THEN BodyReturn(arrow.kids[1].kids, inside, m)
     ELSE ExprType(arrow.kids[1], inside, m)

Value(r) == IF r.t = Void THEN Result(NoType, r.m) ELSE r
CallbackReturn(cb, c, m) ==
  IF cb.k = "ident" THEN Value(ReturnTypeOf(cb.name, c, m))
  ELSE IF cb.k = "arrow" THEN ArrowReturn(cb, c, m) ELSE Result(NoType, m)

ArrayOf(r) == IF r.t = NoType THEN r ELSE Result(Array(r.t), r.m)
\* reduce has the type of its start value or else of its callback.
Reduced(start, e, c) == IF start.t # NoType THEN start ELSE CallbackReturn(e.kids[2], c, start.m)
MethodType(e, c, m) ==
  LET method == e.kids[1].name
      recv == ExprType(e.kids[1].kids[1], c, m)
      inner == Result(ArrayInner(recv.t), recv.m)
  IN CASE method = "map" -> ArrayOf(CallbackReturn(e.kids[2], c, recv.m))
       [] method = "filter" -> IF recv.t.k = "array" THEN recv ELSE Result(NoType, recv.m)
       [] method \in {"find", "pop"} -> inner
       [] method = "reduce" ->
            Reduced(IF Len(e.kids) > 2 THEN ExprType(e.kids[3], c, recv.m)
                    ELSE Result(NoType, recv.m), e, c)
       [] method \in {"push", "unshift", "indexOf"} -> Result(Number, recv.m)
       [] method \in StringMethods -> Result(String, recv.m)
       [] method = "includes" -> Result(Boolean, recv.m)
       [] OTHER -> Result(NoType, recv.m)

CallType(e, c, m) ==
  LET f == e.kids[1]
  IN IF f.k = "member" THEN MethodType(e, c, m)
     ELSE IF f.k # "ident" THEN Result(NoType, m)
     ELSE IF f.name \in DOMAIN Builtins THEN Result(Builtins[f.name], m)
     ELSE IF f.name \in DOMAIN c.scope /\ c.scope[f.name].k = "function"
     THEN Result(Last(c.scope[f.name].args), m)
     ELSE ReturnTypeOf(f.name, c, m)

MemberType(e, c, m) ==
  LET o == ExprType(e.kids[1], c, m)
  IN IF e.name = "length" \/ (e.kids[1].k = "ident" /\ e.kids[1].name \in c.env.enums)
     THEN Result(Number, m)
     ELSE Result(Field(o.t, e.name), o.m)

\* Items one by one until one has a type; a spread counts when it is an array.
ArrayLiteralType(e, c, m) ==
  LET Item(r, item) ==
        IF r.t # NoType THEN r
        ELSE LET one == ExprType(IF item.k = "spread" THEN item.kids[1] ELSE item, c, r.m)
             IN IF item.k # "spread" THEN ArrayOf(one)
                ELSE IF one.t.k = "array" THEN one ELSE Result(NoType, one.m)
  IN FoldLeft(Item, Result(NoType, m), e.kids)

\* Keys and types so far; a spread field replaces one of its name.
ObjectLiteralType(e, c, m) ==
  LET One(r, i) ==
        IF ~ r.ok THEN r
        ELSE LET spread == e.kids[i].k = "spread"
                 v == ExprType(IF spread THEN e.kids[i].kids[1] ELSE e.kids[i], c, r.m)
                 more == IF spread
                         THEN [j \in DOMAIN v.t.keys |-> <<v.t.keys[j], v.t.args[j]>>]
                         ELSE <<<<e.names[i], v.t>>>>
                 old == IF spread
                        THEN SelectSeq(r.fields, LAMBDA f : \A g \in Range(more) : g[1] # f[1])
                        ELSE r.fields
             IN [ok |-> v.t # NoType /\ (spread => v.t.k = "object"),
                 fields |-> old \o more, m |-> v.m]
      all == FoldLeft(One, [ok |-> TRUE, fields |-> <<>>, m |-> m], [i \in DOMAIN e.kids |-> i])
  IN Result(IF ~ all.ok THEN NoType
            ELSE Shape([i \in DOMAIN all.fields |-> all.fields[i][1]],
                       [i \in DOMAIN all.fields |-> all.fields[i][2]]), all.m)

ArrowType(e, r) == IF r.t = NoType THEN r ELSE Result(FnType(Params(e), r.t), r.m)

BinaryType(e, c, m) ==
  LET left == ExprType(e.kids[1], c, m)
      both == ExprType(e.kids[2], c, left.m)
      right == ExprType(e.kids[2], c, m)
      other == ExprType(e.kids[1], c, right.m)
  IN CASE e.k = "??" -> IF right.t # NoType THEN right ELSE Result(Unwrap(other.t), other.m)
       [] e.k = "+" -> Result(IF String \in {left.t, both.t} THEN String ELSE Number, both.m)
       [] e.k \in {"-", "*"} -> Result(Number, m)
       [] e.k \in {"==", "<", "&&"} -> Result(Boolean, m)

ExprType(e, c, m) ==
  CASE e.k = "number" -> Result(Number, m)
    [] e.k \in {"string", "typeof"} -> Result(String, m)
    [] e.k = "bool" -> Result(Boolean, m)
    [] e.k = "ident" -> Result(IF e.name \in DOMAIN c.scope THEN c.scope[e.name]
                               ELSE IF e.name \in DOMAIN c.env.consts THEN c.env.consts[e.name]
                               ELSE NoType, m)
    [] e.k = "!" -> Result(Boolean, m)
    [] e.k = "neg" -> Result(Number, m)
    [] e.k \in {"??", "+", "-", "*", "==", "<", "&&"} -> BinaryType(e, c, m)
    [] e.k = "call" -> CallType(e, c, m)
    [] e.k = "member" -> MemberType(e, c, m)
    [] e.k = "index" -> LET o == ExprType(e.kids[1], c, m) IN Result(ArrayInner(o.t), o.m)
    [] e.k = "array" -> ArrayLiteralType(e, c, m)
    [] e.k = "object" -> ObjectLiteralType(e, c, m)
    [] e.k = "as" -> Result(e.types[1], m)
    [] e.k = "nonnull" -> ExprType(e.kids[1], c, m)
    [] e.k = "arrow" -> ArrowType(e, ArrowReturn(e, c, m))
    [] OTHER -> Result(NoType, m)

WalkBlocks(blocks, w, c) == FoldLeft(LAMBDA v, b : Walk(b.kids, v, c), w, blocks)
WalkStmt(w, s, c) ==
  LET Typed == IF s.k # "return" /\ s.types[1] # NoType THEN Result(s.types[1], w.m)
               ELSE ExprType(s.kids[1], InScope(c, w.scope), w.m)
      Bound(r, t) == [w EXCEPT !.scope = Put(@, s.name, t), !.m = r.m]
      Let(r) == Bound(r, r.t)
      Element(r) == Bound(r, IF s.types[1] # NoType THEN r.t ELSE ArrayInner(r.t))
      Answer(r) == [w EXCEPT !.t = r.t, !.m = r.m, !.left = TRUE]
  IN CASE s.k = "let" -> Let(Typed)
       [] s.k = "return" /\ s.kids # <<>> -> Answer(Typed)
       [] s.k \in {"if", "while", "switch", "try"} -> WalkBlocks(Blocks(s), w, c)
       [] s.k = "for" -> Walk(Last(s.kids).kids, w, c)
       [] s.k = "forOf" -> Walk(s.kids[2].kids, Element(Typed), c)
       [] OTHER -> w
\* A block is left at its first return and once a type has been found.
Walk(stmts, w, c) ==
  LET Outside(v) == [v EXCEPT !.left = FALSE]
  IN Outside(FoldLeft(LAMBDA v, s : IF v.left \/ v.t # NoType THEN v ELSE WalkStmt(v, s, c),
                      Outside(w), stmts))

-----------------------------------------------------------------------------
(* infer_program: every slot that is empty and can be filled, in place.  A  *)
(* walk carries the flat scope, the memo and the nodes rewritten so far.    *)

RECURSIVE Annotate(_, _, _), InferStmt(_, _, _)

Added(r, one) == [nodes |-> Append(r.nodes, one.node), m |-> one.m]
AfterStmt(v, one) == [one EXCEPT !.nodes = Append(v.nodes, one.node)]

AnnotateAll(es, c, m) ==
  FoldLeft(LAMBDA r, e : Added(r, Annotate(e, c, r.m)), [nodes |-> <<>>, m |-> m], es)
InferAll(stmts, v, c) ==
  FoldLeft(LAMBDA u, s : AfterStmt(u, InferStmt(s, u, c)),
           [nodes |-> <<>>, scope |-> v.scope, m |-> v.m, node |-> NoType], stmts)
\* Each statement of an arrow's block starts from the scope around the arrow.
InferApart(stmts, c, m) ==
  FoldLeft(LAMBDA r, s :
             Added(r, InferStmt(s, [scope |-> c.scope, m |-> r.m, nodes |-> <<>>, node |-> NoType], c)),
           [nodes |-> <<>>, m |-> m], stmts)

\* infer_expr_annotations: the return types of arrows.
Annotate(e, c, m) ==
  LET block == e.k = "arrow" /\ e.kids[1].k = "block"
      Rebuilt(r) == [node |-> [e EXCEPT !.kids = IF block THEN <<Block(r.nodes)>> ELSE r.nodes],
                     m |-> r.m]
      Answered(one, ret) ==
        [node |-> IF Returned(e) # NoType \/ ret.t \in {NoType, Void} THEN one.node
                  ELSE [one.node EXCEPT !.types[Len(e.types)] = ret.t],
         m |-> ret.m]
      Arrow(one) == IF e.k = "arrow" THEN Answered(one, ArrowReturn(one.node, c, one.m)) ELSE one
  IN Arrow(Rebuilt(IF block THEN InferApart(e.kids[1].kids, c, m) ELSE AnnotateAll(e.kids, c, m)))

\* infer_stmt_exprs: the expressions of a statement that are looked into.
Looked(s) ==
  CASE s.k \in {"let", "assign", "assignIndex", "return", "throw", "expr"} -> DOMAIN s.kids
    [] s.k = "assignMember" -> {2}
    [] s.k \in {"if", "while", "forOf", "switch"} -> {1}
    [] OTHER -> {}
InferExprs(s, v, c) ==
  FoldLeft(LAMBDA r, i : Added(r, IF i \in Looked(s) THEN Annotate(s.kids[i], InScope(c, v.scope), r.m)
                                  ELSE [node |-> s.kids[i], m |-> r.m]),
           [nodes |-> <<>>, m |-> v.m], [i \in DOMAIN s.kids |-> i])

\* The blocks of a statement one after the other, in one scope.
InferBlocks(s, v, c) ==
  LET Entered(r, i) ==
        [r EXCEPT !.scope = IF s.k = "try" /\ i = 2 THEN Put(@, s.name, String) ELSE @]
      After(r, block) ==
        [scope |-> block.scope, m |-> block.m, kids |-> Append(r.kids, Block(block.nodes))]
      One(r, i) == IF s.kids[i].k # "block" THEN [r EXCEPT !.kids = Append(@, s.kids[i])]
                   ELSE After(r, InferAll(s.kids[i].kids, Entered(r, i), c))
      All(end) == [v EXCEPT !.scope = end.scope, !.m = end.m, !.node = [s EXCEPT !.kids = end.kids]]
  IN All(FoldLeft(One, [scope |-> v.scope, m |-> v.m, kids |-> <<>>], [i \in DOMAIN s.kids |-> i]))

InferLooked(s, v, c) ==
  LET Typed == IF s.types[1] # NoType THEN Result(s.types[1], v.m)
               ELSE ExprType(s.kids[1], InScope(c, v.scope), v.m)
      Fill(r, t) == [v EXCEPT !.scope = Put(@, s.name, t), !.node = [s EXCEPT !.types = <<t>>],
                              !.m = r.m]
      Variable(r) == Fill(r, IF s.types[1] # NoType THEN r.t ELSE Value(r).t)
      Element(r) == Fill(r, IF s.types[1] # NoType THEN r.t ELSE ArrayInner(r.t))
      Loop(u) == InferBlocks(u.node, u, c)
      Body(r) == [v EXCEPT !.m = r.m, !.node = [s EXCEPT !.kids = r.nodes]]
      Exported(u) == [u EXCEPT !.node = [s EXCEPT !.kids = <<u.node>>]]
  IN CASE s.k = "let" -> Variable(Typed)
       [] s.k = "forOf" -> Loop(Element(Typed))
       [] s.k = "function" -> Body(InferAll(s.kids, [v EXCEPT !.scope = PutAll(@, s)], c))
       [] s.k = "export" -> Exported(InferStmt(s.kids[1], v, c))
       [] s.k \in {"if", "while", "for", "switch", "try"} -> InferBlocks(s, v, c)
       [] OTHER -> [v EXCEPT !.node = s]
InferStmt(s, v, c) ==
  LET Rest(exprs) == InferLooked([s EXCEPT !.kids = exprs.nodes], [v EXCEPT !.m = exprs.m], c)
  IN Rest(InferExprs(s, v, c))

\* infer_function_returns, for a function whose return type is void.
InferReturn(stmt, c, m) ==
  LET fn == Declared(stmt)
      With(r) == LET new == [fn EXCEPT !.types[Len(fn.types)] = r.t]
                 IN [node |-> IF stmt.k = "export" THEN [stmt EXCEPT !.kids = <<new>>] ELSE new,
                     m |-> r.m]
  IN IF fn.k # "function" \/ Returned(fn) # Void THEN [node |-> stmt, m |-> m]
     ELSE With(OrVoid(BodyReturn(fn.kids, InScope(c, PutAll(c.env.consts, fn)), m)))

\* All the return types of a module first, then its statements.
InferProgram(module, env, m) ==
  LET c == [scope |-> env.consts, env |-> env, busy |-> {}]
      Statements(r) == InferAll(r.nodes, [scope |-> env.consts, m |-> r.m], c)
      Module(v) == [module |-> v.nodes, m |-> v.m]
  IN Module(Statements(FoldLeft(LAMBDA r, s : Added(r, InferReturn(s, c, r.m)),
                                [nodes |-> <<>>, m |-> m], module)))

-----------------------------------------------------------------------------
(* check_types: what is stored or returned against the type of its place.   *)

Kind(t) == IF t.k \in {"prim", "literal"} THEN t.name ELSE <<>>

RECURSIVE Compatible(_, _)
Compatible(expected, actual) ==
  LET e == Unwrap(expected)
      a == Unwrap(actual)
  IN \/ a.k = "null"
     \/ e.k = "array" /\ a.k = "array" /\ Compatible(e.args[1], a.args[1])
     \/ "array" \notin {e.k, a.k} /\ (<<>> \in {Kind(e), Kind(a)} \/ Kind(e) = Kind(a))

\* v holds the scope, the memo and whether nothing has been refused so far.
Sink(e, expected, v, c) ==
  LET Stored(r) == [v EXCEPT !.m = r.m, !.ok = @ /\ (r.t # NoType => Compatible(expected, r.t))]
  IN Stored(ExprType(e, InScope(c, v.scope), v.m))

RECURSIVE CheckStmt(_, _, _, _)
CheckAll(stmts, v, c, ret) == FoldLeft(LAMBDA u, s : CheckStmt(u, s, c, ret), v, stmts)
\* A block in a scope of its own: names that it declares end with it.
CheckBlock(b, v, c, ret) == [CheckAll(b.kids, v, c, ret) EXCEPT !.scope = v.scope]

\* Mutation: what a function returns is not compared with its type.
CheckReturnWrong(v, s, c, ret) == v
CheckReturn(v, s, c, ret) ==
  IF s.kids = <<>> \/ ret = NoType THEN v ELSE Sink(s.kids[1], ret, v, c)

CheckStmt(v, s, c, ret) ==
  LET Known(name) == IF name \in DOMAIN v.scope THEN v.scope[name] ELSE NoType
      Bound(r) == [v EXCEPT !.scope = Put(@, s.name, r.t), !.m = r.m]
      InField(field) == LET w == [v EXCEPT !.m = field.m]
                        IN IF field.t = NoType THEN w ELSE Sink(s.kids[2], field.t, w, c)
  IN CASE s.k = "let" ->
            IF s.types[1] = NoType THEN Bound(ExprType(s.kids[1], InScope(c, v.scope), v.m))
            ELSE [Sink(s.kids[1], s.types[1], v, c) EXCEPT !.scope = Put(@, s.name, s.types[1])]
       [] s.k = "assign" ->
            IF Known(s.name) = NoType THEN v ELSE Sink(s.kids[1], Known(s.name), v, c)
       [] s.k = "assignIndex" ->
            IF Known(s.name).k # "array" THEN v
            ELSE Sink(s.kids[2], ArrayInner(Known(s.name)), v, c)
       [] s.k = "assignMember" ->
            InField(MemberType(Tree("member", s.name, <<>>, <<>>, <<s.kids[1]>>),
                               InScope(c, v.scope), v.m))
       [] s.k = "function" ->
            LET inner == IF Returned(s) = Void THEN NoType ELSE Returned(s)
            IN [CheckAll(s.kids, [v EXCEPT !.scope = PutAll(@, s)], c, inner)
                  EXCEPT !.scope = v.scope]
       [] s.k = "return" -> CheckReturn(v, s, c, ret)
       [] s.k \in {"if", "while", "switch"} ->
            FoldLeft(LAMBDA u, b : CheckBlock(b, u, c, ret), v, Blocks(s))
       [] s.k = "for" ->
            CheckBlock(Block(s.kids[1].kids \o s.kids[3].kids \o s.kids[4].kids), v, c, ret)
       [] s.k = "forOf" ->
            [CheckBlock(s.kids[2], [v EXCEPT !.scope = Put(@, s.name, s.types[1])], c, ret)
               EXCEPT !.scope = v.scope]
       [] s.k = "try" ->
            LET body == CheckBlock(s.kids[1], v, c, ret)
            IN [CheckBlock(s.kids[2], [body EXCEPT !.scope = Put(@, s.name, String)], c, ret)
                  EXCEPT !.scope = v.scope]
       [] s.k = "export" -> CheckStmt(v, s.kids[1], c, ret)
       [] OTHER -> v

\* v holds the memo and the verdict on the modules before this one.
CheckTypes(module, env, v) ==
  CheckAll(module, [scope |-> <<>>, m |-> v.m, ok |-> v.ok], [scope |-> <<>>, env |-> env, busy |-> {}],
           NoType)
==============================================================================
