------------------------------ MODULE MCTyping ------------------------------
(* Programs of one and two modules: declarations that lead to each other,   *)
(* interfaces that extend each other, and functions that call each other.   *)
EXTENDS Typing

x == Tree("ident", "x", <<>>, <<>>, <<>>)
Id(name) == [x EXCEPT !.name = name]
Num == Node("number", <<>>)
Str == Node("string", <<>>)
External == Node("external", <<>>)
Let(name, t, e) == Tree("let", name, <<>>, <<t>>, <<e>>)
LetOf(name, e) == Let(name, NoType, e)
Fn(name, params, types, ret, body) == Tree("function", name, params, Append(types, ret), body)
Alias(name, params, t) == Tree("typeAlias", name, params, <<t>>, <<>>)
Interface(name, bases, keys, types) ==
  Tree("interface", name, keys, types, [i \in DOMAIN bases |-> Id(bases[i])])
Export(stmt) == Node("export", <<stmt>>)
Return(e) == Node("return", <<e>>)
Expr(e) == Node("expr", <<e>>)
If(then, else) == Node("if", <<Num, Block(then), Block(else)>>)
While(body) == Node("while", <<Num, Block(body)>>)
ForOf(name, e, body) == Tree("forOf", name, <<>>, <<NoType>>, <<e, Block(body)>>)
For(init, body) == Node("for", <<Block(init), Num, Block(<<>>), Block(body)>>)
Try(body, handler) == Tree("try", "e", <<>>, <<>>, <<Block(body), Block(handler)>>)
Switch(body, other) == Node("switch", <<Num, Block(body), Block(other)>>)
Assign(name, e) == Tree("assign", name, <<>>, <<>>, <<e>>)
CallOf(name, args) == Tree("call", "", <<>>, <<>>, <<Id(name)>> \o args)
Member(e, name) == Tree("member", name, <<>>, <<>>, <<e>>)
Method(e, name, args) == Tree("call", "", <<>>, <<>>, <<Member(e, name)>> \o args)
List(es) == Node("array", es)
Fields(keys, es) == Tree("object", "", keys, <<>>, es)
Arrow1(t, body) == Tree("arrow", "", <<"y">>, <<t, NoType>>, <<body>>)
AsType(e, t) == Tree("as", "", <<>>, <<t>>, <<e>>)

-----------------------------------------------------------------------------
(* Names: A and W are declared in the root, B in the other module, E is an  *)
(* enum; U is declared in both, and no other declaration refers to it.      *)

Uses ==
  {Named("A"), Array(Named("B")), Generic("W", <<Named("A")>>), Generic("Box", <<Named("B")>>),
   Shape(<<"f">>, <<Named("B")>>), Union(<<Named("A"), Named("E")>>),
   FnType(<<Named("B")>>, Named("A")), Optional(Number), Optional(Named("B")),
   Generic("Opt", <<Named("B")>>)}
MeaningsOfA ==
  {Number, Named("B"), Array(Named("B")), Shape(<<"g", "h">>, <<Named("B"), Number>>), Named("I"),
   Shape(<<"g", "next">>, <<Named("B"), Optional(Named("A"))>>)}
MeaningsOfB == {String, Named("A"), Array(Named("A")), Generic("W", <<Number>>)}

NameProgram(a, b, use, again) ==
  <<<<Export(Alias("A", <<>>, a)),
      Alias("U", <<>>, Boolean),
      Alias("W", <<"T">>, Array(Named("T"))),
      Alias("Opt", <<"T">>, Optional(Named("T"))),
      Alias("Box", <<"T">>, Shape(<<"of">>, <<Named("T")>>)),
      Interface("I", <<>>, <<"i">>, <<Named("B")>>),
      Let("v", use, External),
      Fn("f", <<"p">>, <<again>>, use, <<Return(External)>>),
      Let("w", again, AsType(External, use))>>,
    <<Export(Alias("B", <<>>, b)),
      Tree("enum", "E", <<>>, <<>>, <<>>),
      Fn("g", <<"p">>, <<use>>, Void,
         <<Alias("U", <<>>, Array(Named("B"))), Let("u", again, External),
           Expr(Tree("call", "", <<>>, <<again>>, <<Id("str"), AsType(External, use)>>))>>)>>>>
NamePrograms ==
  {NameProgram(a, b, use, again) : a \in MeaningsOfA, b \in MeaningsOfB, use \in Uses,
                                   again \in {Named("U"), Named("B"), Named("I")}}

-----------------------------------------------------------------------------
(* Interfaces.                                                             *)

InterfacePrograms ==
  {<<<<Interface("I", i, <<"x">>, <<Number>>),
       Interface("J", j, <<"x", "y">>, <<String, String>>),
       Interface("K", k, <<"y", "z">>, <<Number, Array(Named("I"))>>),
       Let("v", Named("I"), External)>>>> :
    i \in {<<>>, <<"J">>, <<"J", "K">>, <<"K", "J">>}, j \in {<<>>, <<"K">>, <<"I">>},
    k \in {<<>>, <<"I">>, <<"J">>, <<"L">>}}

-----------------------------------------------------------------------------
(* Inference: f takes a number, g nothing.                                  *)

n == Id("n")
\* h is a constant of a function type; Unknown has a value and no type.
FunctionTyped == Let("h", FnType(<<Number>>, Number), Arrow1(Number, Id("y")))
Unknown == Method(Id("sys"), "readFile", <<>>)
BodiesOfF ==
  {<<Return(n)>>, <<Return(CallOf("g", <<>>))>>, <<Expr(n)>>,
   <<If(<<Return(Str)>>, <<>>), Return(CallOf("g", <<>>))>>,
   <<LetOf("t", CallOf("g", <<>>)), Return(Id("t"))>>,
   <<LetOf("t", CallOf("g", <<>>)), Return(n)>>,
   <<If(<<LetOf("t", n), Return(Id("t"))>>, <<LetOf("t", Str), Return(Id("t"))>>)>>,
   <<ForOf("t", List(<<n, n>>), <<Return(Id("t"))>>), Return(Num)>>,
   <<While(<<Return(CallOf("f", <<n>>))>>), Return(Fields(<<"a", "b">>, <<n, List(<<Str>>)>>))>>,
   <<Try(<<Return(CallOf("g", <<>>))>>, <<Return(Id("e"))>>)>>,
   <<LetOf("h", Arrow1(Number, Node("+", <<Id("y"), Num>>))), Return(CallOf("h", <<n>>))>>,
   <<Return(Method(List(<<n>>), "map", <<Arrow1(Number, Str)>>))>>,
   <<If(<<Return(CallOf("h", <<n>>))>>, <<Return(CallOf("g", <<>>))>>)>>,
   <<If(<<LetOf("t", n)>>, <<LetOf("t", Unknown), LetOf("u", Id("t")), Return(Id("u"))>>)>>}
BodiesOfG ==
  {<<Return(Str)>>, <<Return(Id("k"))>>, <<Return(CallOf("f", <<Num>>))>>, <<>>,
   <<LetOf("t", CallOf("f", <<Num>>)), Switch(<<Return(Id("t"))>>, <<Return(Str)>>)>>,
   <<Return(Method(List(<<Id("k")>>), "map", <<Id("f")>>))>>}
a == Id("a")
b == Id("b")
Mains ==
  {<<Assign("a", b)>>, <<Assign("b", Node("+", <<a, b>>))>>,
   <<LetOf("o", Fields(<<"p", "q">>, <<Num, Str>>)),
     Tree("assignMember", "p", <<>>, <<>>, <<Id("o"), a>>)>>,
   <<LetOf("xs", List(<<Str>>)), Tree("assignIndex", "xs", <<>>, <<>>, <<Num, a>>),
     ForOf("z", Id("xs"), <<LetOf("c", Id("z")), Assign("c", b)>>)>>,
   <<LetOf("o", Fields(<<"p", "q">>, <<Fields(<<"r">>, <<Num>>), List(<<Num>>)>>)),
     LetOf("r", Member(Member(Id("o"), "p"), "r")), Assign("r", a)>>,
   <<For(<<LetOf("c", Num)>>, <<Assign("c", b)>>),
     LetOf("s", Method(List(<<Num>>), "reduce", <<Tree("arrow", "", <<"y", "z">>, <<Number, Number, NoType>>, <<Id("y")>>), Num>>))>>,
   <<Let("opt", Optional(Number), Num), LetOf("d", Node("??", <<Id("opt"), Num>>)), Assign("d", a)>>,
   <<LetOf("o", Fields(<<"p">>, <<Num>>)), Assign("o", Fields(<<"p">>, <<b>>)),
     LetOf("d", Member(Id("o"), "p")), Assign("o", Str)>>,
   <<LetOf("xs", List(<<Num, Str>>)), ForOf("z", Id("xs"), <<LetOf("c", Id("z")), Assign("c", b)>>),
     Let("opt", Optional(Number), Num), LetOf("d", Node("??", <<Id("opt"), Str>>)), Assign("d", Str)>>}

TypedProgram(f, g, first, main) ==
  LET fs == <<Fn("f", <<"n">>, <<Number>>, Void, f), Export(Fn("g", <<>>, <<>>, Void, g))>>
  IN <<<<LetOf("k", Num), FunctionTyped>> \o (IF first THEN fs ELSE Reverse(fs))
        \o <<LetOf("a", CallOf("f", <<Num>>)), LetOf("b", CallOf("g", <<>>))>> \o main>>
TypedPrograms ==
  {TypedProgram(f, g, first, main) : f \in BodiesOfF, g \in BodiesOfG, first \in BOOLEAN, main \in Mains}

-----------------------------------------------------------------------------
(* Objects within objects, and of two types with one name, in every statement. *)

Objects ==
  <<LetOf("o", Fields(<<"p">>, <<Fields(<<"r">>, <<Num>>)>>)), LetOf("q", Fields(<<"r">>, <<List(<<Num>>)>>))>>
Around ==
  {If(Objects, <<>>), If(<<>>, Objects), While(Objects), ForOf("z", List(<<Num>>), Objects),
   For(Objects, <<>>), For(<<>>, Objects), Try(Objects, <<>>), Try(<<>>, Objects), Switch(Objects, <<>>),
   LetOf("w", Arrow1(Number, Block(Append(Objects, Return(Num)))))}
NestedPrograms ==
  {<<<<stmt>>>> : stmt \in Around} \cup {<<<<Export(Fn("f", <<>>, <<>>, Void, <<stmt>>))>>>> : stmt \in Around}

MCPrograms == NamePrograms \cup InterfacePrograms \cup TypedPrograms \cup NestedPrograms

MCSources == {RawInterfaces(p) : p \in MCPrograms}
==============================================================================
