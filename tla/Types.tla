-------------------------------- MODULE Types --------------------------------
(* Types and program trees of crates/arcis-ast, with the type slots that    *)
(* the passes of Resolution and Inference fill and rewrite.  Every node has  *)
(* the same fields; a slot without annotation holds NoType.                 *)
EXTENDS Naturals, TLC, SequencesExt

Type(k, name, keys, args) == [k |-> k, name |-> name, keys |-> keys, args |-> args]
NoType == Type("none", <<>>, <<>>, <<>>)
NullType == Type("null", <<"null">>, <<>>, <<>>)
Prim(p) == Type("prim", <<p>>, <<>>, <<>>)
Number == Prim("number")
String == Prim("string")
Boolean == Prim("boolean")
Void == Prim("void")
Named(n) == Type("named", <<n>>, <<>>, <<>>)
Generic(n, args) == Type("generic", <<n>>, <<>>, args)
Array(t) == Type("array", <<>>, <<>>, <<t>>)
Union(ts) == Type("union", <<"union">>, <<>>, ts)
FnType(params, ret) == Type("function", <<"function">>, <<>>, Append(params, ret))

Optional(t) ==
  IF t.k \in {"optional", "null"} THEN t ELSE Type("optional", <<>>, <<>>, <<t>>)
Unwrap(t) == IF t.k = "optional" THEN t.args[1] ELSE t
ArrayInner(t) == IF t.k = "array" THEN t.args[1] ELSE NoType

RECURSIVE PrimitiveName(_)
PrimitiveName(t) ==
  IF t.k \in {"array", "optional"} THEN PrimitiveName(t.args[1]) ELSE t.name

\* An object type written in place is named after its keys and the primitive
\* names of its fields; an interface keeps its own name.
Object(name, keys, args) == Type("object", name, keys, args)
ShapeName(keys, args) == <<keys, [i \in DOMAIN args |-> PrimitiveName(args[i])]>>
Shape(keys, args) == Object(ShapeName(keys, args), keys, args)

Field(t, key) ==
  LET at == SelectInSeq(t.keys, LAMBDA k : k = key)
  IN IF t.k # "object" \/ at = 0 THEN NoType ELSE t.args[at]

RECURSIVE StructName(_)
StructName(t) ==
  IF t.k \in {"array", "optional"} THEN StructName(t.args[1])
  ELSE IF t.k \in {"object", "generic"} THEN t.name ELSE <<>>

-----------------------------------------------------------------------------
(* Statements and expressions.                                             *)

Tree(k, name, names, types, kids) ==
  [k |-> k, name |-> name, names |-> names, types |-> types, kids |-> kids]
Node(k, kids) == Tree(k, "", <<>>, <<>>, kids)
Block(stmts) == Node("block", stmts)

\* A declaration, with or without `export` before it.
Declared(stmt) == IF stmt.k = "export" THEN stmt.kids[1] ELSE stmt
Blocks(stmt) == SelectSeq(stmt.kids, LAMBDA kid : kid.k = "block")
OfKind(stmts, k) == SelectSeq(stmts, LAMBDA s : s.k = k)
Params(fn) == [i \in DOMAIN fn.names |-> fn.types[i]]
Returned(fn) == Last(fn.types)

\* A map from the names of a sequence of nodes; the last of a name counts.
Table(nodes, Value(_)) ==
  FoldLeft(LAMBDA map, n : (n.name :> Value(n)) @@ map, <<>>, nodes)
==============================================================================
