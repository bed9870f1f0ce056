------------------------------ MODULE MCSyntax ------------------------------
(* Small programs that hold every construct of the grammar, each around   *)
(* and inside of the others.                                              *)
EXTENDS Syntax

MCWords == {"x", "f", "T", "n", "y", "crate"}

Ident1(w) == Tree("ident", <<w>>, <<>>)
x == Ident1("x")
T == Ident1("T")
Num(digits) == Tree("num", digits, <<>>)
Str(text) == Tree("str", text, <<>>)
Prim(kind) == Node(kind, <<>>)
ListOf(items) == Node("list", items)
BlockOf(stmts) == Node("block", stmts)
LetOf(value) == Tree("let", <<"x">>, <<None, value>>)
ConstOf(type) == Tree("const", <<"y">>, <<type, x>>)
ExprOf(e) == Node("expr", <<e>>)
P(type) == Tree("param", <<"n">>, <<type>>)
CallOf(callee, args, types) == Node("call", <<callee, ListOf(args), ListOf(types)>>)

-----------------------------------------------------------------------------
(* Expressions: every operator around a hole, twice.                       *)

Leaves ==
  {x, Num(<<"1", "0">>), Num(<<"0", ".", "1">>), Str(<<"n", "\n", "\"", "\\">>),
   Tree("bool", <<"true">>, <<>>), Prim("null")}
Operators == {"??", "||", "&&", "==", "!=", "<", ">", ">=", "+", "-", "*", "%"}

ExprAround(e) ==
  {Node(op, <<e, x>>) : op \in Operators}
  \cup {Node(op, <<x, e>>) : op \in Operators}
  \cup {Node(op, <<e>>) : op \in {"!", "neg", "typeof", "nonnull"}}
  \cup {Tree("member", <<"f">>, <<e>>), Node("index", <<e, x>>), Node("index", <<x, e>>),
        CallOf(e, <<>>, <<>>), CallOf(e, <<x, x>>, <<>>), CallOf(x, <<e>>, <<>>),
        CallOf(x, <<e>>, <<T, Prim("number")>>),
        CallOf(Node("path", <<x, x>>), <<e>>, <<>>),
        Node("as", <<e, T>>), Node("as", <<e, Prim("literal")>>),
        Node("array", <<e>>), Node("array", <<Node("spread", <<e>>), x>>),
        Node("object", <<Tree("kv", <<"f">>, <<e>>), Node("spread", <<x>>)>>),
        Node("object", <<Node("spread", <<e>>)>>),
        Node("arrow", <<ListOf(<<P(T)>>), None, e>>),
        Node("arrow", <<ListOf(<<>>), T, BlockOf(<<Node("return", <<e>>)>>)>>)}

Expr1 == Leaves \cup ExprAround(x)

\* A name, `<`, a type and `>`: before a bracket and before something else.
Or == Node("??", <<x, x>>)
AngleBrackets ==
  {Node(">", <<Node("<", <<a, x>>), b>>) : a \in {x, Node("+", <<x, x>>), Tree("member", <<"f">>, <<x>>)},
                                         b \in {x, Or, Node("neg", <<x>>)}}
  \cup {CallOf(x, <<Node("<", <<x, x>>), Node(">", <<x, b>>)>>, <<>>) : b \in {x, Or}}

Exprs == Expr1 \cup UNION {ExprAround(e) : e \in Expr1} \cup AngleBrackets

-----------------------------------------------------------------------------
(* Types.                                                                  *)

TypeLeaves ==
  {T, Prim("string"), Prim("number"), Prim("boolean"), Prim("null"),
   Num(<<"1">>), Num(<<"-", "1">>), Str(<<"x">>), Tree("bool", <<"true">>, <<>>)}
TypeAround(t) ==
  {Node("[]", <<t>>), Node("intersection", <<t, T>>), Tree("generic", <<"T">>, <<t, T>>),
   Node("object type", <<Tree("field", <<"f">>, <<t>>), Tree("field?", <<"n">>, <<Opt(t)>>)>>)}
OuterType(t) ==
  TypeAround(t)
  \cup {Node("?", <<t>>), Node("union", <<t, Prim("number")>>),
        Node("function type", <<t, Prim("void")>>), Node("function type", <<t>>)}
\* Members of unions, intersections and arrays that need no bracket.
Simple1 == {t \in TypeLeaves : t.op # "null"}
MCTypes ==
  TypeLeaves \cup UNION {OuterType(t) : t \in Simple1}
  \cup UNION {OuterType(t) : t \in {u \in TypeAround(T) : u.op # "intersection"}}

-----------------------------------------------------------------------------
(* Statements: every form, around a body and inside of one.                *)

Member(e) == Tree("member", <<"f">>, <<e>>)
Index(e) == Node("index", <<e, x>>)
Assign == Tree("assign", <<"x">>, <<Member(x)>>)
FunctionOf(name, types, params, ret, body) ==
  Tree("function", name, <<ListOf(types), ListOf(params), ret, BlockOf(body)>>)
Case(values, default, body) ==
  Node("case", <<ListOf(values), ListOf(default), BlockOf(body)>>)
Default == <<Node("default", <<>>)>>

StmtAround(body) ==
  {Node("if", <<x, BlockOf(body), None>>),
   Node("if", <<x, BlockOf(<<>>), BlockOf(body)>>),
   Node("while", <<x, BlockOf(body)>>),
   Tree("for of", <<"n">>, <<x, BlockOf(body)>>),
   Node("for", <<LetOf(x), Node("<", <<x, x>>), Assign, BlockOf(body)>>),
   Node("for", <<None, None, None, BlockOf(body)>>),
   Node("switch", <<x, ListOf(<<Case(<<x, x>>, <<>>, <<ExprOf(x)>> \o body),
                                 Case(<<>>, Default, body)>>)>>),
   Node("switch", <<x, ListOf(<<Case(<<x>>, Default, body)>>)>>),
   Node("try", <<BlockOf(body), None, BlockOf(<<>>)>>),
   Node("try", <<BlockOf(<<>>), x, BlockOf(body)>>),
   FunctionOf(<<"f">>, <<>>, <<P(T), P(Prim("number"))>>, Prim("void"), body),
   FunctionOf(<<"f">>, <<T>>, <<>>, T, body),
   ExprOf(CallOf(x, <<Node("arrow", <<ListOf(<<P(T)>>), None, BlockOf(body)>>)>>, <<>>))}

Fields3 == <<Tree("field", <<"f">>, <<T>>), Tree("field?", <<"n">>, <<Opt(Prim("string"))>>)>>
NamesOf(default) ==
  default \o <<Tree("name", <<"f">>, <<None>>), Tree("name", <<"n">>, <<x>>)>>
PathOf(words) == Node("path", [n \in DOMAIN words |-> Ident1(words[n])])
InCrate == Node("path", <<Tree("ident", <<"crate", ":", "x">>, <<>>)>>)

Atomic ==
  {LetOf(x), ConstOf(T), Assign, ExprOf(x),
   Node("assign index", <<Index(x), x>>), Node("assign member", <<Member(x), x>>),
   Node("assign member", <<Member(Index(Member(x))), x>>),
   Node("assign member", <<Member(CallOf(Member(x), <<x>>, <<>>)), x>>),
   Node("assign member", <<Member(CallOf(x, <<x>>, <<>>)), x>>),
   Node("assign member", <<Member(Node("nonnull", <<x>>)), x>>),
   Node("assign member", <<Member(Node("+", <<x, x>>)), x>>),
   Tree("typed for of", <<"n">>, <<T, x, BlockOf(<<>>)>>),
   Node("for", <<ExprOf(x), None, ExprOf(CallOf(x, <<>>, <<>>)), BlockOf(<<>>)>>),
   Node("return", <<>>), Node("return", <<x>>), Node("throw", <<x>>),
   Node("break", <<>>), Node("continue", <<>>),
   Tree("type", <<"T">>, <<ListOf(<<>>), Node("object type", Fields3)>>),
   Tree("type", <<"T">>, <<ListOf(<<T, x>>), Node("union", <<T, T>>)>>),
   Tree("interface", <<"T">>, <<ListOf(<<T>>), ListOf(<<x, T>>), ListOf(Fields3)>>),
   Tree("interface", <<"T">>, <<ListOf(<<>>), ListOf(<<>>), ListOf(<<>>)>>),
   Tree("enum", <<"T">>, <<ListOf(<<Tree("variant", <<"x">>, <<None>>),
                                    Tree("variant", <<"y">>, <<Num(<<"1">>)>>)>>)>>),
   Node("import", <<x, PathOf(<<"f", "n">>)>>), Node("import", <<None, InCrate>>),
   Node("from import", <<ListOf(NamesOf(<<>>)), PathOf(<<"f">>)>>),
   Node("from import", <<ListOf(NamesOf(<<DefaultAs(x)>>)), PathOf(<<"f", "n">>)>>),
   Node("from import", <<ListOf(<<DefaultAs(x)>>), PathOf(<<"f">>)>>),
   Node("from import", <<Node("*", <<>>), PathOf(<<"f", "n">>)>>),
   Node("export default", <<FunctionOf(<<>>, <<>>, <<>>, T, <<>>)>>),
   Node("export default", <<Node("+", <<x, x>>)>>),
   Node("export", <<ListOf(NamesOf(<<>>))>>),
   Node("export", <<LetOf(x)>>),
   Node("export", <<Tree("enum", <<"T">>, <<ListOf(<<>>)>>)>>)}

Stmts1 == Atomic \cup StmtAround(<<>>) \cup UNION {StmtAround(<<s>>) : s \in Atomic}
Stmts2 == UNION {StmtAround(<<s, ExprOf(x)>>) : s \in StmtAround(<<LetOf(x)>>)}

MCPrograms ==
  {BlockOf(<<LetOf(e)>>) : e \in Exprs} \cup {BlockOf(<<ConstOf(t)>>) : t \in MCTypes}
  \cup {BlockOf(<<s>>) : s \in Stmts1 \cup Stmts2}
  \cup {BlockOf(<<s, ExprOf(x)>>) : s \in Atomic}

-----------------------------------------------------------------------------
(* Layouts.                                                                *)

MCLaidOut ==
  {BlockOf(<<LetOf(e), ExprOf(x)>>) :
     e \in {Str(<<"n", "\n">>), CallOf(x, <<x>>, <<T>>), Node("nonnull", <<Index(x)>>)}}
  \cup {BlockOf(<<s, ExprOf(x)>>) : s \in StmtAround(<<ExprOf(x), ExprOf(x)>>)}
MCFillers ==
  {<<"\n">>, <<"\n", "\n">>, <<"\r", "\n", "\t", "\n">>,
   <<"/", "/", "n", " ", "\"", "\n">>,
   <<"\n", "\n", "/", "/", "\n", "\n">>,
   <<"/", "*", "n", "*", "/">>, <<" ", "/", "*", "\n", "*", "*", "/">>}
MCDamaged ==
  {<<"x", ";", "\"", "n">>, <<"\"", "\\", "x", "\"">>, <<"x", "@", ";">>, <<"\"", "\\">>}
=============================================================================
