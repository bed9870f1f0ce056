------------------------------- MODULE Parser -------------------------------
(***************************************************************************)
(* The parser (crates/arcis-parser), from tokens to a syntax tree.  A      *)
(* parser of the code is an operator of the tokens ts and a position p; it *)
(* answers the tree and the position after it.  Position 0 stands for an   *)
(* error: no token is there, so every later step fails as well, which is   *)
(* what `?` does in the code.  Trying a production and rolling back is     *)
(* taking the other alternative at the same position.                      *)
(*                                                                         *)
(* A tree is an operator, a text (the name or the value of a leaf, or the  *)
(* name that a declaration gives) and its parts; positions are left out.   *)
(***************************************************************************)
EXTENDS Naturals, Sequences, SequencesExt

Tree(op, text, kids) == [op |-> op, text |-> text, kids |-> kids]
Node(op, kids) == Tree(op, <<>>, kids)
None == Node("none", <<>>)

Got(tree, at) == [tree |-> IF at = 0 THEN None ELSE tree, at |-> at]
Failed == Got(None, 0)

Kind(ts, p) == IF p \in 1 .. Len(ts) THEN ts[p].kind ELSE "nothing"
Expect(ts, p, kind) == IF Kind(ts, p) = kind THEN p + 1 ELSE 0
Name(ts, p) == IF Kind(ts, p) = "ident" THEN ts[p].text ELSE <<>>
Leaf(ts, p) == Got(Tree(ts[p].kind, ts[p].text, <<>>), p + 1)

\* What follows a part, unless the part is an error; a part in its node; a part
\* that a token of this kind ends; a list as the node itself.
Then(part, Next(_)) == IF part.at = 0 THEN Failed ELSE Next(part)
Named(op, text, part) == Got(Tree(op, text, <<part.tree>>), part.at)
UpTo(ts, part, kind) == Got(part.tree, Expect(ts, part.at, kind))
AsList(op, list) == Got(Node(op, list.tree.kids), list.at)

\* Where the grammar refers to itself: "expr", "type" and "stmt".
RECURSIVE Rule(_, _, _)
Expr(ts, p) == Rule("expr", ts, p)
Type(ts, p) == Rule("type", ts, p)
Stmt(ts, p) == Rule("stmt", ts, p)

-----------------------------------------------------------------------------
(* Lists: Item(ts, p, what) is one element, List all up to `close`.        *)

\* An optional part that a token of this kind announces.
Optional(ts, p, kind, Parse(_, _)) ==
  IF Kind(ts, p) = kind THEN Parse(ts, p + 1) ELSE Got(None, p)

Typed(ts, p) == Type(ts, Expect(ts, p, ":"))

Param(ts, p) == Named("param", Name(ts, p), Typed(ts, Expect(ts, p, "ident")))

\* `field?: T` is stored as `field: T?`.
Opt(type) ==
  IF type.op \in {"?", "null", "undefined"} THEN type ELSE Node("?", <<type>>)
Field(ts, p) ==
  LET q == Expect(ts, p, "ident")
      marked == Kind(ts, q) = "?"
      Of(ty) == Got(Tree(IF marked THEN "field?" ELSE "field", Name(ts, p),
                         <<IF marked THEN Opt(ty.tree) ELSE ty.tree>>), ty.at)
  IN Of(Typed(ts, IF marked THEN q + 1 ELSE q))

Spread(ts, p) == Named("spread", <<>>, Expr(ts, p + 1))
Element(ts, p) == IF Kind(ts, p) = "..." THEN Spread(ts, p) ELSE Expr(ts, p)
KeyValue(ts, p) ==
  IF Kind(ts, p) = "..." THEN Spread(ts, p)
  ELSE Named("kv", Name(ts, p), Expr(ts, Expect(ts, Expect(ts, p, "ident"), ":")))

Identifier(ts, p) ==
  LET q == Expect(ts, p, "ident") IN Got(Tree("ident", Name(ts, p), <<>>), q)

\* `name` or `name as alias`; `default` may be imported by that word.
Renamed(ts, p, isImport) ==
  LET q == IF isImport /\ Kind(ts, p) = "default" THEN p + 1 ELSE Expect(ts, p, "ident")
  IN Named("name", IF Kind(ts, p) = "default" THEN <<"default">> ELSE Name(ts, p),
           Optional(ts, q, "as", Identifier))

Variant(ts, p) ==
  LET NumberAt(us, r) == IF Kind(us, r) = "num" THEN Leaf(us, r) ELSE Failed
  IN Named("variant", Name(ts, p), Optional(ts, Expect(ts, p, "ident"), "=", NumberAt))

Item(ts, p, what) ==
  CASE what = "expr" -> Expr(ts, p)
    [] what = "element" -> Element(ts, p)
    [] what = "key value" -> KeyValue(ts, p)
    [] what = "type" -> Type(ts, p)
    [] what = "param" -> Param(ts, p)
    [] what = "field" -> Field(ts, p)
    [] what = "ident" -> Identifier(ts, p)
    [] what = "export" -> Renamed(ts, p, FALSE)
    [] what = "import" -> Renamed(ts, p, TRUE)
    [] what = "variant" -> Variant(ts, p)

Separators(what) == IF what = "field" THEN {",", ";"} ELSE {","}

RECURSIVE Items(_, _, _, _)
\* At least one item.  Only an enum may have a comma before its bracket.
Items(ts, p, what, read) ==
  LET After(e) ==
        IF Kind(ts, e.at) \in Separators(what) /\ ~(what = "variant" /\ Kind(ts, e.at + 1) = "}")
        THEN Items(ts, e.at + 1, what, Append(read, e.tree))
        ELSE Got(Node("list", Append(read, e.tree)),
                 IF what = "variant" /\ Kind(ts, e.at) = "," THEN e.at + 1 ELSE e.at)
  IN Then(Item(ts, p, what), After)

List(ts, p, what, close) ==
  IF Kind(ts, p) = close THEN Got(Node("list", <<>>), p + 1)
  ELSE UpTo(ts, Items(ts, p, what, <<>>), close)

-----------------------------------------------------------------------------
(* expr.rs                                                                 *)

Levels == <<{"??"}, {"||"}, {"&&"}, {"==", "!="}, {"<", ">", "<=", ">="}, {"+", "-"},
            {"*", "/", "%"}>>

RECURSIVE Binary(_, _, _), BinaryRest(_, _, _), Unary(_, _), PostfixRest(_, _), Path(_, _, _),
          Stmts(_, _, _, _)

Joined(ts, left, right) == Got(Node(Kind(ts, left.at), <<left.tree, right.tree>>), right.at)

\* Mutation: the operators of a level group to the right.
BinaryRestWrong(ts, l, left) ==
  IF Kind(ts, left.at) \notin Levels[l] THEN left
  ELSE Joined(ts, left, Binary(ts, left.at + 1, l))
BinaryRest(ts, l, left) ==
  IF Kind(ts, left.at) \notin Levels[l] THEN left
  ELSE BinaryRest(ts, l, Joined(ts, left, Binary(ts, left.at + 1, l + 1)))

Binary(ts, p, l) ==
  IF l > Len(Levels) THEN Unary(ts, p) ELSE BinaryRest(ts, l, Binary(ts, p, l + 1))

NoItems == Node("list", <<>>)
Called(callee, args, typeArgs) == Node("call", <<callee, args, typeArgs>>)

\* expr.f, expr[i], expr(args), expr! and expr as T, as often as they come.
PostfixRest(ts, e) ==
  LET p == e.at + 1
      With(op, part) == Got(Node(op, <<e.tree, part.tree>>), part.at)
      Call(args) == Got(Called(e.tree, args.tree, NoItems), args.at)
      Longer == CASE Kind(ts, e.at) = "." ->
                       Got(Tree("member", Name(ts, p), <<e.tree>>), Expect(ts, p, "ident"))
                  [] Kind(ts, e.at) = "[" -> With("index", UpTo(ts, Expr(ts, p), "]"))
                  [] Kind(ts, e.at) = "(" -> Call(List(ts, p, "expr", ")"))
                  [] Kind(ts, e.at) = "!" -> Got(Node("nonnull", <<e.tree>>), p)
                  [] Kind(ts, e.at) = "as" ->
                       With("as", IF Kind(ts, p) = "const" THEN Got(Node("literal", <<>>), p + 1)
                                  ELSE Type(ts, p))
  IN IF Kind(ts, e.at) \in {".", "[", "(", "!", "as"} THEN PostfixRest(ts, Longer) ELSE e

\* try_parse_call_type_args: `<types>` directly before `(`, or nothing.
TypeArgs(ts, p) ==
  LET Followed(types) == IF Kind(ts, types.at) = "(" THEN types ELSE Failed
  IN Followed(UpTo(ts, Items(ts, Expect(ts, p, "<"), "type", <<>>), ">"))

Block(ts, p) == UpTo(ts, Stmts(ts, Expect(ts, p, "{"), {"}"}, <<>>), "}")

\* The parameters and the body of an arrow, after `(`.
Arrow(ts, p) ==
  LET Body(q) == IF Kind(ts, q) = "{" THEN Block(ts, q) ELSE Expr(ts, q)
  IN Then(List(ts, p, "param", ")"), LAMBDA params :
     Then(Optional(ts, params.at, ":", Type), LAMBDA ret :
     Then(Body(Expect(ts, ret.at, "=>")), LAMBDA body :
          Got(Node("arrow", <<params.tree, ret.tree, body.tree>>), body.at))))

Group(ts, p) == UpTo(ts, Expr(ts, p), ")")

Path(ts, p, segments) ==
  IF Kind(ts, p) = "::"
  THEN LET name == Identifier(ts, p + 1) IN Path(ts, name.at, Append(segments, name.tree))
  ELSE Got(Node("path", segments), p)

\* An identifier, a path, or a call of one of them.
NameOrCall(ts, p) ==
  LET path == Path(ts, p + 1, <<Identifier(ts, p).tree>>)
      isPath == Len(path.tree.kids) > 1
      name == IF isPath THEN path.tree ELSE Identifier(ts, p).tree
      With(types) ==
        IF Kind(ts, types.at) # "(" THEN Got(name, path.at)
        ELSE Then(List(ts, types.at + 1, "expr", ")"),
                  LAMBDA args : Got(Called(name, args.tree, types.tree), args.at))
      OrNone(types) == With(IF types.at # 0 THEN types ELSE Got(NoItems, path.at))
  IN OrNone(IF isPath THEN Failed ELSE TypeArgs(ts, p + 1))

Atom(ts, p) ==
  CASE Kind(ts, p) \in {"num", "str", "bool", "null", "undefined"} -> Leaf(ts, p)
    [] Kind(ts, p) = "ident" -> NameOrCall(ts, p)
    [] Kind(ts, p) = "(" ->
         LET OrGroup(arrow) == IF arrow.at # 0 THEN arrow ELSE Group(ts, p + 1)
         IN OrGroup(Arrow(ts, p + 1))
    [] Kind(ts, p) = "[" -> AsList("array", List(ts, p + 1, "element", "]"))
    [] Kind(ts, p) = "{" -> AsList("object", List(ts, p + 1, "key value", "}"))
    [] OTHER -> Failed

Unary(ts, p) ==
  IF Kind(ts, p) \in {"!", "-", "typeof"}
  THEN Named(IF Kind(ts, p) = "-" THEN "neg" ELSE Kind(ts, p), <<>>, Unary(ts, p + 1))
  ELSE PostfixRest(ts, Atom(ts, p))

-----------------------------------------------------------------------------
(* types.rs                                                                *)

IsNull(type) == type.op \in {"null", "undefined"}

\* A union with null or undefined is the optional of the rest.
UnionOf(members) ==
  LET rest == SelectSeq(members, LAMBDA m : ~IsNull(m))
      base == CASE Len(rest) = 0 -> Node("null", <<>>)
                [] Len(rest) = 1 -> rest[1]
                [] OTHER -> Node("union", rest)
  IN IF Len(rest) < Len(members) THEN Opt(base) ELSE base

FunctionType(ts, p) ==
  LET Types(params) == [n \in DOMAIN params.tree.kids |-> params.tree.kids[n].kids[1]]
  IN Then(List(ts, p + 1, "param", ")"), LAMBDA params :
     Then(Type(ts, Expect(ts, params.at, "=>")), LAMBDA ret :
          Got(Node("function type", Append(Types(params), ret.tree)), ret.at)))

NamedType(ts, p) ==
  IF Kind(ts, p + 1) # "<" THEN Identifier(ts, p)
  ELSE Then(UpTo(ts, Items(ts, p + 2, "type", <<>>), ">"),
            LAMBDA args : Got(Tree("generic", Name(ts, p), args.tree.kids), args.at))

PrimaryType(ts, p) ==
  CASE Kind(ts, p) = "{" -> AsList("object type", List(ts, p + 1, "field", "}"))
    [] Kind(ts, p) = "(" -> FunctionType(ts, p)
    [] Kind(ts, p) \in {"string", "number", "boolean", "void", "null", "undefined",
                        "str", "num", "bool"} -> Leaf(ts, p)
    [] Kind(ts, p) = "-" /\ Kind(ts, p + 1) = "num" ->
         Got(Tree("num", <<"-">> \o ts[p + 1].text, <<>>), p + 2)
    [] Kind(ts, p) = "ident" -> NamedType(ts, p)
    [] OTHER -> Failed

RECURSIVE ArrayOf(_, _), Members(_, _, _)
ArrayOf(ts, t) ==
  IF Kind(ts, t.at) = "[" THEN ArrayOf(ts, Got(Node("[]", <<t.tree>>), Expect(ts, t.at + 1, "]")))
  ELSE t

PostfixType(ts, p) ==
  Then(ArrayOf(ts, PrimaryType(ts, p)), LAMBDA t :
       CASE Kind(ts, t.at) = "??" -> Failed
         [] Kind(ts, t.at) = "?" -> Got(Opt(t.tree), t.at + 1)
         [] OTHER -> t)

Intersection(ts, p) ==
  Then(PostfixType(ts, p), LAMBDA first :
       IF Kind(ts, first.at) # "&" THEN first
       ELSE AsList("intersection", Members(ts, "&", Got(Node("list", <<first.tree>>), first.at))))

\* The members up to the first that `sep` does not follow.
Members(ts, sep, m) ==
  IF Kind(ts, m.at) # sep THEN m
  ELSE LET More(next) == Got(Node("list", Append(m.tree.kids, next.tree)), next.at)
       IN Members(ts, sep, More(IF sep = "&" THEN PostfixType(ts, m.at + 1)
                                ELSE Intersection(ts, m.at + 1)))

UnionType(ts, p) ==
  LET Union(all) == Got(UnionOf(all.tree.kids), all.at)
  IN Then(Intersection(ts, IF Kind(ts, p) = "|" THEN p + 1 ELSE p), LAMBDA first :
          IF Kind(ts, first.at) # "|" THEN first
          ELSE Union(Members(ts, "|", Got(Node("list", <<first.tree>>), first.at))))

-----------------------------------------------------------------------------
(* stmt.rs                                                                 *)

Stmts(ts, p, stops, read) ==
  IF Kind(ts, p) \in stops \cup {"eof"} THEN Got(Node("block", read), p)
  ELSE Then(Stmt(ts, p), LAMBDA s : Stmts(ts, s.at, stops, Append(read, s.tree)))

Parens(ts, p) == Group(ts, Expect(ts, p, "("))

\* An expression and its semicolon, as a statement.
Ended(ts, op, text, kids, e) == Got(Tree(op, text, Append(kids, e.tree)), Expect(ts, e.at, ";"))
ExprStmt(ts, p) == Ended(ts, "expr", <<>>, <<>>, Expr(ts, p))

Let(ts, p) ==
  Then(Optional(ts, Expect(ts, p + 1, "ident"), ":", Type), LAMBDA ty :
       Ended(ts, ts[p].kind, Name(ts, p + 1), <<ty.tree>>, Expr(ts, Expect(ts, ty.at, "="))))

\* `x = e`, without the semicolon.
AssignTo(ts, p) == Named("assign", Name(ts, p), Expr(ts, p + 2))

\* A statement that begins with an identifier.
IdentStmt(ts, p) ==
  LET Target(e) == IF e.op = "index" /\ e.kids[1].op = "ident" THEN "assign index"
                   ELSE IF e.op = "member" THEN "assign member" ELSE "none"
  IN IF Kind(ts, p + 1) = "=" THEN UpTo(ts, AssignTo(ts, p), ";")
     ELSE Then(Expr(ts, p), LAMBDA e :
               IF Kind(ts, p + 1) \notin {"[", "."} \/ Kind(ts, e.at) # "="
               THEN Ended(ts, "expr", <<>>, <<>>, e)
               ELSE IF Target(e.tree) = "none" THEN Failed
               ELSE Ended(ts, Target(e.tree), <<>>, <<e.tree>>, Expr(ts, e.at + 1)))

TypeParams(ts, p) ==
  IF Kind(ts, p) # "<" THEN Got(NoItems, p) ELSE UpTo(ts, Items(ts, p + 1, "ident", <<>>), ">")

\* parse_function_rest: everything after `function`.
FunctionRest(ts, p, mustBeNamed) ==
  LET named == Kind(ts, p) = "ident"
      OrVoid(ret) == IF ret = None THEN Node("void", <<>>) ELSE ret
  IN Then(TypeParams(ts, IF named THEN p + 1 ELSE IF mustBeNamed THEN 0 ELSE p), LAMBDA types :
     Then(List(ts, Expect(ts, types.at, "("), "param", ")"), LAMBDA params :
     Then(Optional(ts, params.at, ":", Type), LAMBDA ret :
     Then(Block(ts, ret.at), LAMBDA body :
          Got(Tree("function", Name(ts, p), <<types.tree, params.tree, OrVoid(ret.tree), body.tree>>),
              body.at)))))

TypeAlias(ts, p) ==
  Then(TypeParams(ts, Expect(ts, p + 1, "ident")), LAMBDA types :
       Ended(ts, "type", Name(ts, p + 1), <<types.tree>>, Type(ts, Expect(ts, types.at, "="))))

\* Fields of an interface: the separators are optional.
RECURSIVE Fields(_, _, _), If(_, _), Labels(_, _, _), Cases(_, _, _), ModulePath(_, _, _)
Fields(ts, p, read) ==
  IF Kind(ts, p) \in {"}", "eof"} THEN Got(Node("list", read), Expect(ts, p, "}"))
  ELSE Then(Field(ts, p), LAMBDA f :
            Fields(ts, IF Kind(ts, f.at) \in {",", ";"} THEN f.at + 1 ELSE f.at,
                   Append(read, f.tree)))

Interface(ts, p) ==
  LET Bases(q) == IF Kind(ts, q) = "extends" THEN Items(ts, q + 1, "ident", <<>>) ELSE Got(NoItems, q)
  IN Then(TypeParams(ts, Expect(ts, p + 1, "ident")), LAMBDA types :
     Then(Bases(types.at), LAMBDA bases :
     Then(Fields(ts, Expect(ts, bases.at, "{"), <<>>), LAMBDA fields :
          Got(Tree("interface", Name(ts, p + 1), <<types.tree, bases.tree, fields.tree>>), fields.at))))

Enum(ts, p) ==
  Named("enum", Name(ts, p + 1),
        List(ts, Expect(ts, Expect(ts, p + 1, "ident"), "{"), "variant", "}"))

\* `else if` is an else block with one statement.
If(ts, p) ==
  LET Else(q) == IF Kind(ts, q) # "else" THEN Got(None, q)
                 ELSE IF Kind(ts, q + 1) = "if" THEN Named("block", <<>>, If(ts, q + 1))
                 ELSE Block(ts, q + 1)
  IN Then(Parens(ts, p + 1), LAMBDA cond :
     Then(Block(ts, cond.at), LAMBDA then :
     Then(Else(then.at), LAMBDA els :
          Got(Node("if", <<cond.tree, then.tree, els.tree>>), els.at))))

While(ts, p) ==
  Then(Parens(ts, p + 1), LAMBDA cond :
  Then(Block(ts, cond.at), LAMBDA body :
       Got(Node("while", <<cond.tree, body.tree>>), body.at)))

\* for-of is recognised by `of` after the name, so never with a type.
ForOf(ts, p) ==
  Then(Group(ts, p + 5), LAMBDA of :
  Then(Block(ts, of.at), LAMBDA body :
       Got(Tree("for of", Name(ts, p + 3), <<of.tree, body.tree>>), body.at)))

CountedFor(ts, p) ==
  LET Start(q) == CASE Kind(ts, q) = ";" -> Got(None, q + 1)
                    [] Kind(ts, q) \in {"let", "const"} -> Let(ts, q)
                    [] OTHER -> ExprStmt(ts, q)
      Test(q) == IF Kind(ts, q) = ";" THEN Got(None, q) ELSE Expr(ts, q)
      Update(q) == CASE Kind(ts, q) = ")" -> Got(None, q)
                     [] Kind(ts, q) = "ident" /\ Kind(ts, q + 1) = "=" -> AssignTo(ts, q)
                     [] OTHER -> Named("expr", <<>>, Expr(ts, q))
  IN Then(Start(Expect(ts, p + 1, "(")), LAMBDA init :
     Then(UpTo(ts, Test(init.at), ";"), LAMBDA cond :
     Then(UpTo(ts, Update(cond.at), ")"), LAMBDA update :
     Then(Block(ts, update.at), LAMBDA body :
          Got(Node("for", <<init.tree, cond.tree, update.tree, body.tree>>), body.at)))))

For(ts, p) ==
  IF <<Kind(ts, p + 2), Kind(ts, p + 3), Kind(ts, p + 4)>> = <<"let", "ident", "of">>
  THEN ForOf(ts, p)
  ELSE CountedFor(ts, p)

\* The case and default labels that stand together before one body.
Labels(ts, p, read) ==
  CASE Kind(ts, p) = "case" ->
         LET More(value) == Labels(ts, value.at, [read EXCEPT !.values = Append(@, value.tree)])
         IN More(UpTo(ts, Expr(ts, p + 1), ":"))
    [] Kind(ts, p) = "default" ->
         Labels(ts, Expect(ts, p + 1, ":"), [read EXCEPT !.default = <<Node("default", <<>>)>>])
    [] OTHER -> [read EXCEPT !.at = p]

Cases(ts, p, read) ==
  IF Kind(ts, p) \in {"}", "eof"} THEN Got(Node("list", read), Expect(ts, p, "}"))
  ELSE LET Case(labels, body) == Node("case", <<Node("list", labels.values),
                                                Node("list", labels.default), body>>)
           Some(labels) == labels.values # <<>> \/ labels.default # <<>>
       IN Then(Labels(ts, p, [values |-> <<>>, default |-> <<>>, at |-> 0]), LAMBDA labels :
          Then(Stmts(ts, IF Some(labels) THEN labels.at ELSE 0, {"case", "default", "}"}, <<>>),
               LAMBDA body : Cases(ts, body.at, Append(read, Case(labels, body.tree)))))

Switch(ts, p) ==
  Then(Parens(ts, p + 1), LAMBDA on :
  Then(Cases(ts, Expect(ts, on.at, "{"), <<>>), LAMBDA cases :
       Got(Node("switch", <<on.tree, cases.tree>>), cases.at)))

Try(ts, p) ==
  LET Caught(q) == IF Kind(ts, q) = "(" THEN UpTo(ts, Identifier(ts, q + 1), ")") ELSE Got(None, q)
  IN Then(Block(ts, p + 1), LAMBDA body :
     Then(Caught(Expect(ts, body.at, "catch")), LAMBDA caught :
     Then(Block(ts, caught.at), LAMBDA handler :
          Got(Node("try", <<body.tree, caught.tree, handler.tree>>), handler.at))))

-----------------------------------------------------------------------------
(* modules.rs                                                              *)

\* string_spec_to_path: "./a/b" is the path a, b.
RECURSIVE Split(_, _, _)
Split(text, segment, read) ==
  LET all == IF segment = <<>> THEN read ELSE Append(read, Tree("ident", segment, <<>>))
  IN CASE text = <<>> -> all
       [] text # <<>> /\ Head(text) = "/" -> Split(Tail(text), <<>>, all)
       [] OTHER -> Split(Tail(text), Append(segment, Head(text)), read)
SpecToPath(text) ==
  IF IsPrefix(<<".", "/">>, text) THEN Split(SubSeq(text, 3, Len(text)), <<>>, <<>>)
  ELSE Split(text, <<>>, <<>>)

\* IDENT ("." IDENT)*, where the first may be `crate:IDENT`.
ModulePath(ts, p, segments) ==
  LET isCrate == segments = <<>> /\ Name(ts, p) = <<"crate">> /\ Kind(ts, p + 1) = ":"
      q == IF isCrate THEN p + 2 ELSE p
      text == IF isCrate THEN <<"crate", ":">> \o Name(ts, q) ELSE Name(ts, q)
      all == Append(segments, Tree("ident", text, <<>>))
  IN IF Kind(ts, Expect(ts, q, "ident")) = "." THEN ModulePath(ts, q + 2, all)
     ELSE Got(Node("path", all), Expect(ts, q, "ident"))

ModuleSpec(ts, p) ==
  IF Kind(ts, p) # "str" THEN ModulePath(ts, p, <<>>)
  ELSE IF SpecToPath(ts[p].text) = <<>> THEN Failed
       ELSE Got(Node("path", SpecToPath(ts[p].text)), p + 1)

\* `from <spec>;` after the names of an ES import.
FromSpec(ts, p, names) ==
  Ended(ts, "from import", <<>>, <<names>>, ModuleSpec(ts, Expect(ts, p, "from")))

DefaultAs(local) == Tree("name", <<"default">>, <<local>>)

Import(ts, p) ==
  LET Default(path) == DefaultAs(path.tree.kids[1])
      More(names, listed) == FromSpec(ts, listed.at, Node("list", names \o listed.tree.kids))
      Star(name) ==
        Ended(ts, "import", <<>>, <<name.tree>>, ModuleSpec(ts, Expect(ts, name.at, "from")))
      Whole(path, alias) == Got(Node("import", <<alias.tree, path.tree>>), Expect(ts, alias.at, ";"))
      ByPath(path) ==
        CASE Len(path.tree.kids) = 1 /\ Kind(ts, path.at) = "from" ->
               FromSpec(ts, path.at, Node("list", <<Default(path)>>))
          [] Len(path.tree.kids) = 1 /\ Kind(ts, path.at) = "," ->
               More(<<Default(path)>>, List(ts, Expect(ts, path.at + 1, "{"), "import", "}"))
          [] OTHER -> Whole(path, Optional(ts, path.at, "as", Identifier))
  IN CASE Kind(ts, p + 1) = "{" -> More(<<>>, List(ts, p + 2, "import", "}"))
       [] Kind(ts, p + 1) = "*" -> Star(Identifier(ts, Expect(ts, p + 2, "as")))
       [] OTHER -> ByPath(ModulePath(ts, p + 1, <<>>))

FromImport(ts, p) ==
  LET Names(q) == IF Kind(ts, q) = "*" THEN Got(Node("*", <<>>), q + 1) ELSE Items(ts, q, "import", <<>>)
  IN Then(ModulePath(ts, p + 1, <<>>), LAMBDA path :
     Then(UpTo(ts, Names(Expect(ts, path.at, "import")), ";"), LAMBDA names :
          Got(Node("from import", <<names.tree, path.tree>>), names.at)))

Export(ts, p) ==
  CASE Kind(ts, p + 1) = "default" /\ Kind(ts, p + 2) = "function" ->
         Named("export default", <<>>, FunctionRest(ts, p + 3, FALSE))
    [] Kind(ts, p + 1) = "default" -> Ended(ts, "export default", <<>>, <<>>, Expr(ts, p + 2))
    [] Kind(ts, p + 1) = "{" -> Ended(ts, "export", <<>>, <<>>, List(ts, p + 2, "export", "}"))
    [] Kind(ts, p + 1) \in {"function", "const", "let", "type", "interface", "enum"} ->
         Named("export", <<>>, Stmt(ts, p + 1))
    [] OTHER -> Failed

-----------------------------------------------------------------------------
(* parse_stmt and parse                                                    *)

Statement(ts, p) ==
  CASE Kind(ts, p) \in {"let", "const"} -> Let(ts, p)
    [] Kind(ts, p) = "function" -> FunctionRest(ts, p + 1, TRUE)
    [] Kind(ts, p) = "type" -> TypeAlias(ts, p)
    [] Kind(ts, p) = "interface" -> Interface(ts, p)
    [] Kind(ts, p) = "enum" -> Enum(ts, p)
    [] Kind(ts, p) = "import" -> Import(ts, p)
    [] Kind(ts, p) = "from" -> FromImport(ts, p)
    [] Kind(ts, p) = "export" -> Export(ts, p)
    [] Kind(ts, p) = "return" /\ Kind(ts, p + 1) = ";" -> Got(Node("return", <<>>), p + 2)
    [] Kind(ts, p) \in {"return", "throw"} ->
         Ended(ts, ts[p].kind, <<>>, <<>>, Expr(ts, p + 1))
    [] Kind(ts, p) = "if" -> If(ts, p)
    [] Kind(ts, p) = "while" -> While(ts, p)
    [] Kind(ts, p) = "for" -> For(ts, p)
    [] Kind(ts, p) = "switch" -> Switch(ts, p)
    [] Kind(ts, p) = "try" -> Try(ts, p)
    [] Kind(ts, p) \in {"break", "continue"} ->
         Got(Node(ts[p].kind, <<>>), Expect(ts, p + 1, ";"))
    [] Kind(ts, p) = "ident" -> IdentStmt(ts, p)
    [] OTHER -> ExprStmt(ts, p)

Rule(what, ts, p) ==
  CASE what = "expr" -> Binary(ts, p, 1)
    [] what = "type" -> UnionType(ts, p)
    [] what = "stmt" -> Statement(ts, p)

\* The statements of a token stream that ends with eof, or None.
Parse(ts) == Stmts(ts, 1, {}, <<>>).tree
=============================================================================
