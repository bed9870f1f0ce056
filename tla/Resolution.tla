----------------------------- MODULE Resolution -----------------------------
(* Names in type position (crates/arcis-codegen, collect.rs and lib.rs):    *)
(* what interfaces, aliases and enums stand for, and the walk that replaces *)
(* them and carries a memo through the program.                             *)
EXTENDS Types

Declarations(modules) ==
  LET stmts == FlattenSeq(modules) IN [i \in DOMAIN stmts |-> Declared(stmts[i])]

-----------------------------------------------------------------------------
(* Interfaces, as Interfaces merges them.                                   *)

RawInterfaces(modules) ==
  Table(OfKind(Declarations(modules), "interface"),
        LAMBDA n : [extends |-> [i \in DOMAIN n.kids |-> n.kids[i].name],
                    fields |-> Table([i \in DOMAIN n.names |-> [name |-> n.names[i], t |-> n.types[i]]],
                                     LAMBDA f : f.t)])

InterfaceType(n, fields) ==
  LET keys == SetToSeq(DOMAIN fields) IN Object(<<n>>, keys, [i \in DOMAIN keys |-> fields[keys[i]]])

-----------------------------------------------------------------------------
(* What a name stands for: `raw` its type, `params` its type parameters.    *)

NamedObjectAlias(n) ==
  LET t == n.types[1] IN IF t.k = "object" THEN [t EXCEPT !.name = <<n.name>>] ELSE t
Aliases(nodes) ==
  [raw |-> Table(OfKind(nodes, "typeAlias"), NamedObjectAlias),
   params |-> Table(SelectSeq(OfKind(nodes, "typeAlias"), LAMBDA n : n.names # <<>>),
                    LAMBDA n : n.names)]

\* Aliases of the module itself, except in the bodies of switch and try.
RECURSIVE AliasDecls(_)
AliasDecls(n) ==
  IF n.k = "typeAlias" THEN <<n>>
  ELSE IF n.k \in {"export", "function", "if", "while", "for", "forOf", "block"}
  THEN FlattenSeq([i \in DOMAIN n.kids |-> AliasDecls(n.kids[i])]) ELSE <<>>

GlobalNames(modules, merged) ==
  LET aliases == Aliases(Declarations(modules))
      enums == Table(OfKind(Declarations(modules), "enum"), LAMBDA n : Number)
  IN [raw |-> [n \in DOMAIN merged |-> InterfaceType(n, merged[n])] @@ aliases.raw @@ enums,
      params |-> aliases.params]
NamesOf(module, global) ==
  LET local == Aliases(FlattenSeq([i \in DOMAIN module |-> AliasDecls(module[i])]))
  IN [raw |-> local.raw @@ global.raw, params |-> local.params @@ global.params]

RECURSIVE Bind(_, _)
Bind(t, subst) ==
  IF t.k = "named" /\ t.name[1] \in DOMAIN subst THEN subst[t.name[1]]
  ELSE [t EXCEPT !.args = [i \in DOMAIN @ |-> Bind(@[i], subst)]]

Bindable(t, d) ==
  /\ t.name[1] \in DOMAIN d.params /\ t.name[1] \in DOMAIN d.raw
  /\ d.raw[t.name[1]].k # "object"
  /\ Len(d.params[t.name[1]]) = Len(t.args)
Instance(t, args, d) ==
  LET ps == d.params[t.name[1]]
  IN Bind(d.raw[t.name[1]], [p \in Range(ps) |-> args[SelectLastInSeq(ps, LAMBDA q : q = p)]])

RECURSIVE Substitute(_, _, _, _)

SubstituteAll(ts, d, memo, visiting) ==
  FoldLeft(LAMBDA acc, t : LET r == Substitute(t, d, acc.memo, visiting)
                           IN [ts |-> Append(acc.ts, r.t), memo |-> r.memo],
           [ts |-> <<>>, memo |-> memo], ts)

\* Mutation: what a name stands for is remembered before its parts are replaced.
ResolveWrong(t, d, memo, visiting) ==
  LET n == t.name[1]
  IN IF n \in DOMAIN memo THEN [t |-> memo[n], memo |-> memo]
     ELSE IF n \notin DOMAIN d.raw THEN [t |-> t, memo |-> memo]
     ELSE LET r == Substitute(d.raw[n], d, (n :> d.raw[n]) @@ memo, visiting)
          IN [t |-> r.t, memo |-> r.memo]

\* resolve_alias: the memo, then the declaration, once per chain of names.
Resolve(t, d, memo, visiting) ==
  LET n == t.name[1]
  IN IF n \in DOMAIN memo THEN [t |-> memo[n], memo |-> memo]
     ELSE IF n \notin DOMAIN d.raw THEN [t |-> t, memo |-> memo]
     ELSE IF n \in visiting THEN [t |-> d.raw[n], memo |-> memo]
     ELSE LET r == Substitute(d.raw[n], d, memo, visiting \cup {n})
          IN [t |-> r.t, memo |-> (n :> r.t) @@ r.memo]

Substitute(t, d, memo, visiting) ==
  IF t.k = "named" THEN Resolve(t, d, memo, visiting)
  ELSE IF t.k \notin {"generic", "array", "object", "union", "function"}
  THEN [t |-> t, memo |-> memo]
  ELSE LET r == SubstituteAll(t.args, d, memo, visiting)
       IN IF t.k = "generic" /\ Bindable(t, d)
          THEN Substitute(Instance(t, r.ts, d), d, r.memo, visiting)
          ELSE [t |-> [t EXCEPT !.args = r.ts], memo |-> r.memo]

-----------------------------------------------------------------------------
(* rewrite_stmt_types and rewrite_expr_types: every slot of a tree, in the  *)
(* order of the walk (the type arguments of a call come last).              *)

RECURSIVE Rewrite(_, _, _)
RewriteAll(nodes, d, memo) ==
  FoldLeft(LAMBDA acc, n : LET r == Rewrite(n, d, acc.memo)
                           IN [nodes |-> Append(acc.nodes, r.node), memo |-> r.memo],
           [nodes |-> <<>>, memo |-> memo], nodes)
Rewrite(n, d, memo) ==
  IF n.k \in {"typeAlias", "enum"} THEN [node |-> n, memo |-> memo]
  ELSE IF n.k = "call"
  THEN LET kids == RewriteAll(n.kids, d, memo)
           types == SubstituteAll(n.types, d, kids.memo, {})
       IN [node |-> [n EXCEPT !.kids = kids.nodes, !.types = types.ts], memo |-> types.memo]
  ELSE LET types == SubstituteAll(n.types, d, memo, {})
           kids == RewriteAll(n.kids, d, types.memo)
       IN [node |-> [n EXCEPT !.kids = kids.nodes, !.types = types.ts], memo |-> kids.memo]

ResolveModule(module, global) == RewriteAll(module, NamesOf(module, global), <<>>).nodes

-----------------------------------------------------------------------------
(* The structs of the generated root module (generate_all).                 *)

\* ts_type_to_rust: an object is its struct, a union its first member.
RECURSIVE RustType(_)
RustTypes(ts) == [i \in DOMAIN ts |-> RustType(ts[i])]
RustType(t) ==
  IF t.k = "object" THEN Type("named", t.name, <<>>, <<>>)
  ELSE IF t.k = "union" THEN RustType(t.args[1])
  ELSE [t EXCEPT !.args = RustTypes(@)]

RECURSIVE NoteObjectWrong(_, _)
\* Mutation: the fields of an object type are not looked at.
NoteObjectWrong(t, out) ==
  IF t.k \in {"array", "optional"} THEN NoteObjectWrong(t.args[1], out)
  ELSE IF t.k # "object" \/ \E s \in Range(out) : s.name = t.name THEN out
  ELSE Append(out, t)

RECURSIVE NoteObject(_, _)
NoteObject(t, out) ==
  IF t.k \in {"array", "optional"} THEN NoteObject(t.args[1], out)
  ELSE IF t.k # "object" \/ \E s \in Range(out) : s.name = t.name THEN out
  ELSE FoldLeft(LAMBDA acc, a : NoteObject(a, acc), Append(out, t), t.args)

RECURSIVE NoteObjects(_, _)
NoteObjects(out, n) ==
  IF n.k = "let" THEN NoteObject(n.types[1], out)
  ELSE IF n.k = "function"
  THEN FoldLeft(NoteObjects, FoldLeft(LAMBDA acc, t : NoteObject(t, acc), out, Params(n)), n.kids)
  ELSE IF n.k = "if"
  THEN FoldLeft(NoteObjects, out, FlattenSeq([i \in DOMAIN Blocks(n) |-> Blocks(n)[i].kids]))
  ELSE IF n.k \in {"while", "for", "forOf"}
  THEN FoldLeft(NoteObjects, out, Last(n.kids).kids)
  ELSE IF n.k = "export" THEN NoteObjects(out, n.kids[1]) ELSE out

Structs(modules, merged, global) ==
  LET interfaces == {InterfaceType(n, merged[n]) : n \in DOMAIN merged}
      generics == {global.raw[n] : n \in {p \in DOMAIN global.params : global.raw[p].k = "object"}}
      noted == FoldLeft(NoteObjects, <<>>, FlattenSeq(modules))
      First(more, defs) == {t \in more : \A s \in defs : s.name # t.name}
      named == interfaces \cup First(generics, interfaces)
  IN named \cup First(Range(noted), named)
==============================================================================
