------------------------------- MODULE Typing -------------------------------
(* The types of a linked program on their way through a build (run in       *)
(* crates/arcis-driver/src/build.rs): names in type position are resolved,   *)
(* missing types inferred and the stores checked; the Rust backend resolves  *)
(* once more and lists its structs.  The order in which interfaces are       *)
(* merged is that of a hash map.                                            *)
EXTENDS Interfaces, Resolution, Inference

CONSTANT Programs   \* sequences of modules, each a sequence of statements

VARIABLES source,   \* the program as it was linked
          modules,  \* its modules as rewritten so far
          stage,
          env,      \* what all modules declare, before inference
          returns,  \* the memo of return types
          annotated,\* how many modules have been through inference
          structs   \* the structs of the generated root module

typingVars == <<source, modules, stage, env, returns, annotated, structs>>
vars == <<typingVars, interfaceVars>>

Init ==
  /\ source \in Programs
  /\ modules = source
  /\ stage = "interfaces"
  /\ raw = RawInterfaces(modules) /\ merged = <<>> /\ pending = <<>>
  /\ env = TypeEnv(<<>>) /\ returns = <<>>
  /\ annotated = 0 /\ structs = {}

-----------------------------------------------------------------------------
(* resolve_program_types, and once more in generate_all.                    *)

MergeInterfaces ==
  /\ stage \in {"interfaces", "generate"}
  /\ InterfacesNext
  /\ UNCHANGED typingVars

Resolved == LET global == GlobalNames(modules, merged)
            IN [i \in DOMAIN modules |-> ResolveModule(modules[i], global)]

ResolveNames ==
  /\ stage = "interfaces" /\ AllMerged
  /\ modules' = Resolved
  /\ env' = TypeEnv(modules')
  /\ stage' = "infer"
  /\ UNCHANGED <<source, returns, annotated, structs, interfaceVars>>

InferModule ==
  /\ stage = "infer" /\ annotated < Len(modules)
  /\ \E r \in {InferProgram(modules[annotated + 1], env, returns)} :
       /\ modules' = [modules EXCEPT ![annotated + 1] = r.module]
       /\ returns' = r.m
  /\ annotated' = annotated + 1
  /\ UNCHANGED <<source, stage, env, structs, interfaceVars>>

Check ==
  /\ stage = "infer" /\ annotated = Len(modules)
  /\ \E all \in {FoldLeft(LAMBDA v, m : CheckTypes(m, env, v), [ok |-> TRUE, m |-> returns], modules)} :
       /\ stage' = IF all.ok THEN "accepted" ELSE "refused"
       /\ returns' = all.m
  /\ UNCHANGED <<source, modules, env, annotated, structs, interfaceVars>>

Generate ==
  /\ stage = "accepted"
  /\ stage' = "generate"
  /\ raw' = RawInterfaces(modules) /\ merged' = <<>> /\ UNCHANGED pending
  /\ UNCHANGED <<source, modules, env, returns, annotated, structs>>

EmitStructs ==
  /\ stage = "generate" /\ AllMerged
  /\ modules' = Resolved
  /\ structs' = Structs(modules', merged, GlobalNames(modules, merged))
  /\ stage' = "generated"
  /\ UNCHANGED <<source, env, returns, annotated, interfaceVars>>

Next ==
  \/ MergeInterfaces
  \/ ResolveNames
  \/ InferModule
  \/ Check
  \/ Generate
  \/ EmitStructs

Spec == Init /\ [][Next]_vars

-----------------------------------------------------------------------------
(* What the declarations of the source say.                                 *)

ExtendsIsAcyclic == \A n \in DOMAIN raw : n \notin Ancestors(n)

\* One step of replacement everywhere in a type but inside `T?`, until nothing
\* is left to replace; what an alias is applied to comes first.
RECURSIVE Replace(_, _), Meaning(_, _)
Replace(t, d) ==
  IF t.k = "named" /\ t.name[1] \in DOMAIN d.raw THEN d.raw[t.name[1]]
  ELSE IF t.k = "generic" /\ Bindable(t, d)
  THEN Instance(t, [i \in DOMAIN t.args |-> Meaning(t.args[i], d)], d)
  ELSE IF t.k = "optional" THEN t
  ELSE [t EXCEPT !.args = [i \in DOMAIN @ |-> Replace(@[i], d)]]
Meaning(t, d) == LET u == Replace(t, d) IN IF u = t THEN t ELSE Meaning(u, d)

\* Names to replace: those inside `T?` are left alone.
RECURSIVE NamesIn(_)
NamesIn(t) ==
  IF t.k = "optional" THEN {}
  ELSE (IF t.k \in {"named", "generic"} THEN {t.name[1]} ELSE {})
       \cup UNION {NamesIn(a) : a \in Range(t.args)}
RECURSIVE Reach(_, _, _)
Reach(ns, d, k) ==
  IF k = 0 THEN ns
  ELSE Reach(ns \cup UNION {NamesIn(d.raw[n]) : n \in ns \cap DOMAIN d.raw}, d, k - 1)
\* A name that does not occur in what it stands for, nor leads to one that does.
Circular(n, d) ==
  \E p \in Reach({n}, d, Cardinality(DOMAIN d.raw)) \cap DOMAIN d.raw :
    p \in Reach(NamesIn(d.raw[p]), d, Cardinality(DOMAIN d.raw))
NamesOfModule(i) == NamesOf(source[i], GlobalNames(source, merged))

\* The type slots of a tree, in the order of its nodes.
RECURSIVE Slots(_)
Slots(n) ==
  IF n.k \in {"typeAlias", "enum"} THEN <<>>
  ELSE n.types \o FlattenSeq([i \in DOMAIN n.kids |-> Slots(n.kids[i])])
ModuleSlots(m) == FlattenSeq([i \in DOMAIN m |-> Slots(m[i])])

-----------------------------------------------------------------------------
(* Runs of an accepted program, as far as the kinds of its values go.  A    *)
(* value is the type it would be given, NoType one that is not followed and  *)
(* may be anything; conditions go both ways.                                *)

EmptyArray == Type("array", <<>>, <<>>, <<NoType>>)

RECURSIVE Fits(_, _)
Fits(v, type) ==
  LET t == Unwrap(type)
  IN CASE v.k = "null" \/ v = NoType -> TRUE
       [] t.k \in {"prim", "literal"} -> v.k = "prim" /\ v.name = t.name
       [] t.k = "array" -> v.k = "array" /\ Fits(v.args[1], t.args[1])
       [] t.k = "object" -> v.k = "object" /\ \A i \in DOMAIN t.keys : Fits(Field(v, t.keys[i]), t.args[i])
       [] OTHER -> TRUE

\* Neither of them a primitive or an array: the check takes them for compatible.
RECURSIVE Opaque(_, _)
Opaque(v, type) ==
  LET t == Unwrap(type)
  IN IF {v.k, t.k} = {"array"} THEN Opaque(v.args[1], t.args[1])
     ELSE ~ ({v.k, t.k} \subseteq {"prim", "literal"} \/ "array" \in {v.k, t.k})

\* The first value of another kind than its place decides what becomes of a run:
\* it is wrong, or it goes astray and nothing more is said of it.
Keep(s, v, t) ==
  IF s.kinds # "kept" \/ Fits(v, t) THEN s
  ELSE [s EXCEPT !.kinds = IF Opaque(v, t) THEN "astray" ELSE "wrong"]

\* One value when they agree on their kind.
Alike(values) == IF Cardinality(values) > 1 THEN {NoType} ELSE values

RECURSIVE Values(_, _, _), RunAll(_, _, _)

\* Calls go no deeper than `calls`; what lies deeper is not followed, nor are
\* calls with arguments of another kind, which the backends refuse.
Call(fn, args, vars0, calls) ==
  LET params == [name \in Range(fn.names) |->
                   LET i == SelectInSeq(fn.names, LAMBDA p : p = name)
                   IN [v |-> args[i], t |-> fn.types[i]]]
      start == [vars |-> params @@ vars0, ret |-> NoType, left |-> FALSE, kinds |-> "kept",
                type |-> IF Returned(fn) = Void THEN NoType ELSE Returned(fn)]
  IN IF calls = 0 \/ \E i \in DOMAIN args : ~ Fits(args[i], fn.types[i]) THEN {}
     ELSE RunAll(fn.kids, {start}, calls - 1)
Arrow(fn) == IF fn.kids[1].k = "block" THEN [fn EXCEPT !.kids = fn.kids[1].kids]
             ELSE [fn EXCEPT !.kids = <<Node("return", fn.kids)>>]
Answers(ends) ==
  {IF s.kinds # "kept" THEN NoType ELSE IF s.ret = NoType THEN NullType ELSE s.ret : s \in ends}

RECURSIVE Tuples(_)
Tuples(sets) ==
  IF sets = <<>> THEN {<<>>} ELSE {<<v>> \o rest : v \in Head(sets), rest \in Tuples(Tail(sets))}

Elements(v) == IF v.k = "array" /\ v # EmptyArray THEN {v.args[1]} ELSE {}
\* A function of the program, or the arrow that a constant starts with.
Global(name) ==
  LET d == CHOOSE d \in {Declared(s) : s \in Range(FlattenSeq(modules))} :
             d.k \in {"function", "let"} /\ d.name = name
  IN IF d.k = "function" THEN {d} ELSE IF d.kids[1].k = "arrow" THEN {Arrow(d.kids[1])} ELSE {}

CallValues(e, s, calls) ==
  LET f == e.kids[1]
      args == Tuples([i \in 1..Len(e.kids) - 1 |-> Values(e.kids[i + 1], s, calls)])
      receivers == Values(f.kids[1], s, calls)
      elements == UNION {Elements(v) : v \in receivers}
      Callees(name) ==
        IF name \notin DOMAIN s.vars THEN Global(name)
        ELSE IF s.vars[name].v.k = "fn" THEN {Arrow(s.vars[name].v.args[1])} ELSE {}
      \* What the functions answer; nothing is known of an unknown one.
      Of(fns, as) == IF fns = {} THEN {NoType} ELSE UNION {Answers(Call(fn, as, <<>>, calls)) : fn \in fns}
      callback == IF e.kids[2].k = "arrow" THEN {Arrow(e.kids[2])} ELSE Callees(e.kids[2].name)
  IN IF f.k # "member"
     THEN IF f.name \in DOMAIN Builtins THEN {Builtins[f.name]}
          ELSE UNION {Of(Callees(f.name), as) : as \in args}
     ELSE IF \E v \in receivers : v.k \in {"object", "none"} THEN {NoType}
     ELSE CASE f.name = "map" ->
                 UNION {IF Elements(v) = {} THEN {EmptyArray}
                        ELSE {Array(r) : r \in Of(callback, v.args)} : v \in receivers}
            [] f.name = "filter" -> receivers \cup {EmptyArray}
            [] f.name \in {"find", "pop"} -> {NullType} \cup elements
            [] f.name = "reduce" ->
                 LET start == Values(e.kids[3], s, calls)
                 IN start \cup UNION {Of(callback, <<a, b>>) : a \in start, b \in elements}
            [] f.name \in StringMethods -> {String}
            [] f.name \in {"indexOf", "push"} -> {Number}
            [] f.name = "includes" -> {Boolean}

ObjectValues(e, s, calls) ==
  LET Merge(v, i, w) == IF e.kids[i].k = "spread"
                        THEN [keys |-> v.keys \o w.keys, args |-> v.args \o w.args]
                        ELSE [keys |-> Append(v.keys, e.names[i]), args |-> Append(v.args, w)]
      All(tuple) == FoldLeft(LAMBDA v, i : Merge(v, i, tuple[i]), [keys |-> <<>>, args |-> <<>>],
                             [i \in DOMAIN e.kids |-> i])
      Kid(i) == IF e.kids[i].k = "spread" THEN e.kids[i].kids[1] ELSE e.kids[i]
  IN {Shape(Reverse(All(tu).keys), Reverse(All(tu).args)) :
        tu \in Tuples([i \in DOMAIN e.kids |-> Values(Kid(i), s, calls)])}

\* What has no type in the scope of the run is not followed, nor is an array or
\* a `??` whose parts differ in kind, which has the type of one of them.
TypedHere(e, s) ==
  LET typed == {n \in DOMAIN s.vars : s.vars[n].t # NoType}
      c == [scope |-> [n \in typed |-> s.vars[n].t], env |-> env, busy |-> {}]
  IN e.k \in {"null", "external"} \/ ExprType(e, c, returns).t # NoType
Values(e, s, calls) ==
  LET V(i) == Values(e.kids[i], s, calls)
      Item(i) == IF e.kids[i].k # "spread" THEN V(i)
                 ELSE UNION {Elements(v) : v \in Values(e.kids[i].kids[1], s, calls)}
      Property(o) == IF e.name = "length" /\ o.k # "object" THEN Number
                     ELSE IF e.name = "length" THEN NoType ELSE Field(o, e.name)
      Sum(l, r) == IF String \in {l, r} THEN String ELSE IF NoType \in {l, r} THEN NoType ELSE Number
  IN CASE ~ TypedHere(e, s) -> {NoType}
       [] e.k = "number" -> {Number}
       [] e.k \in {"string", "typeof"} -> {String}
       [] e.k \in {"bool", "!", "==", "<", "&&"} -> {Boolean}
       [] e.k \in {"null", "external"} -> {NullType}
       [] e.k = "ident" -> {IF e.name \in DOMAIN s.vars THEN s.vars[e.name].v ELSE Unwrap(env.consts[e.name])}
       [] e.k \in {"-", "*", "neg"} -> {Number}
       [] e.k = "+" -> {Sum(l, r) : l \in V(1), r \in V(2)}
       [] e.k = "??" -> Alike((V(1) \ {NullType}) \cup V(2))
       [] e.k = "member" -> IF e.kids[1].k = "ident" /\ e.kids[1].name \in env.enums THEN {Number}
                            ELSE {Property(o) : o \in V(1)}
       [] e.k = "index" -> UNION {Elements(v) : v \in V(1)}
       [] e.k = "array" -> LET items == UNION {Item(i) : i \in DOMAIN e.kids}
                           IN IF items = {} THEN {EmptyArray} ELSE {Array(v) : v \in Alike(items)}
       [] e.k = "object" -> ObjectValues(e, s, calls)
       [] e.k = "nonnull" -> V(1)
       [] e.k = "as" -> {IF Fits(v, e.types[1]) THEN v ELSE NoType : v \in V(1)}
       [] e.k = "arrow" -> {Type("fn", <<"fn">>, <<>>, <<e>>)}
       [] e.k = "call" -> CallValues(e, s, calls)

Store(s, name, v, t) == Keep([s EXCEPT !.vars = (name :> [v |-> v, t |-> t]) @@ @], v, t)
StoreField(s, name, field, v) ==
  LET o == s.vars[name]
      at == SelectInSeq(o.v.keys, LAMBDA k : k = field)
  IN IF at = 0 THEN s
     ELSE Keep([s EXCEPT !.vars[name].v.args[at] = v], v, Field(o.t, field))

RunStmt(stmt, s, calls) ==
  LET V(i) == Values(stmt.kids[i], s, calls)
      In(b) == RunAll(b.kids, {s}, calls)
      place == s.vars[stmt.name]
  IN CASE stmt.k = "let" -> {Store(s, stmt.name, v, stmt.types[1]) : v \in V(1)}
       [] stmt.k = "assign" -> {Store(s, stmt.name, v, place.t) : v \in V(1)}
       [] stmt.k = "assignIndex" ->
            IF place.t.k = "array" THEN {Store(s, stmt.name, Array(v), place.t) : v \in V(2)}
            ELSE {[s EXCEPT !.vars[stmt.name].v = NoType]}
       [] stmt.k = "assignMember" -> {StoreField(s, stmt.kids[1].name, stmt.name, v) : v \in V(2)}
       [] stmt.k = "return" /\ stmt.kids # <<>> ->
            {Keep([s EXCEPT !.ret = v, !.left = TRUE], v, s.type) : v \in V(1)}
       [] stmt.k = "expr" -> IF V(1) = {} THEN {} ELSE {s}
       [] stmt.k = "throw" -> {}
       [] stmt.k = "if" -> UNION {In(Blocks(stmt)[i]) : i \in DOMAIN Blocks(stmt)}
       [] stmt.k \in {"while", "switch"} ->
            {s} \cup UNION {In(Blocks(stmt)[i]) : i \in DOMAIN Blocks(stmt)}
       [] stmt.k = "for" -> RunAll(stmt.kids[1].kids \o stmt.kids[4].kids \o stmt.kids[3].kids, {s}, calls)
       [] stmt.k = "forOf" ->
            {s} \cup UNION {UNION {RunAll(stmt.kids[2].kids, {Store(s, stmt.name, x, stmt.types[1])}, calls)
                                     : x \in Elements(v)} : v \in V(1)}
       [] stmt.k = "try" ->
            In(stmt.kids[1]) \cup RunAll(stmt.kids[2].kids, {Store(s, stmt.name, String, String)}, calls)
       [] stmt.k = "export" -> RunAll(stmt.kids, {s}, calls)
       [] OTHER -> {s}

RunAll(stmts, states, calls) ==
  FoldLeft(LAMBDA all, stmt : UNION {IF s.left THEN {s} ELSE RunStmt(stmt, s, calls) : s \in all},
           states, stmts)

Start == [vars |-> <<>>, ret |-> NoType, left |-> FALSE, kinds |-> "kept", type |-> NoType]

-----------------------------------------------------------------------------
(* Properties.                                                             *)

\* After resolution a type stands where the declarations of the module and of
\* the others say so: all of them replaced, whatever memo the walk had built
\* up by then, but for the names inside `T?`, which the walk leaves as they are
\* (in the text, in a declaration and in an instance of one), and wherever no
\* declaration leads back to itself in another way than through a `T?`; the second
\* resolution of the Rust backend changes nothing; and the same text has become
\* the same type throughout a module.
NamesAreReplaced ==
  stage \in {"infer", "generated"} /\ ExtendsIsAcyclic =>
    \A i \in DOMAIN source :
      annotated < i \/ stage = "generated" =>
      LET old == ModuleSlots(source[i])
          new == ModuleSlots(modules[i])
      IN \A p, q \in DOMAIN old :
           old[p] # NoType =>
             /\ (\A n \in NamesIn(old[p]) : ~ Circular(n, NamesOfModule(i))) =>
                  new[p] = Meaning(old[p], NamesOfModule(i)) \/ old[p] = Void
             /\ old[p] = old[q] /\ old[p] # Void => new[p] = new[q]

Functions == {s \in {Declared(s) : s \in Range(FlattenSeq(modules))} : s.k = "function"}
RECURSIVE CallsIn(_)
CallsIn(n) == (IF n.k = "ident" THEN {n.name} ELSE {}) \cup UNION {CallsIn(kid) : kid \in Range(n.kids)}
Calls(name) == UNION {CallsIn(f) : f \in {g \in Functions : g.name = name}}
RECURSIVE Called(_, _)
Called(ns, k) == IF k = 0 THEN ns ELSE Called(ns \cup UNION {Calls(n) : n \in ns}, k - 1)
OnCycle(name) ==
  \E n \in Called({name}, Cardinality(Functions)) : n \in Called(Calls(n), Cardinality(Functions))

\* A call of a constant of the module has a type where the declaration of the
\* function is completed and none where a caller asks (return_type_of).
CallsConstant(name) ==
  \E n \in Calls(name) \cap DOMAIN env.consts : env.consts[n].k = "function"

\* What callers were told a function returns, whenever they asked and whatever
\* was being worked out at that moment, is what its declaration ends up with,
\* for a function that calls no constant; one that can come back to itself may
\* have been taken for void.
CallersAgree ==
  stage # "interfaces" /\ annotated = Len(source) =>
    \A f \in Functions :
      f.name \in DOMAIN returns /\ ~ CallsConstant(f.name) =>
        \/ returns[f.name] = Returned(f)
        \/ OnCycle(f.name) /\ returns[f.name] = Void

\* The first value of another kind than its place that a run of an accepted
\* program stores in a variable, an element or a field, given its type by hand or
\* by inference, or returns from a function, is one that the check takes for
\* compatible: an object, function or union is involved.  Not followed are
\* expressions that have no type, arrays and `??` of mixed kinds, values that an
\* `as` calls something else, methods and a `length` of objects, elements stored
\* in what is not declared as an array, and the statements in arrows: of all of
\* them the check knows less than the run.
KindsAreKept ==
  stage \in {"accepted", "generated"} =>
    \A i \in DOMAIN modules :
      LET ends == RunAll(modules[i], {Start}, 2)
          bodies == {f \in {Declared(s) : s \in Range(modules[i])} : f.k = "function"}
          Given(f) == [p \in DOMAIN Params(f) |-> Unwrap(Params(f)[p])]
          inside == UNION {Call(f, Given(f), <<>>, 2) : f \in bodies}
      IN \A s \in ends \cup inside : s.kinds # "wrong"

\* Every object type that the generated program spells for a variable, a
\* parameter or a field of a struct is the name of one struct with its keys, and
\* one that is named after a declaration has the types of its fields as Rust
\* spells them (types written in place that differ in `T` and `T[]` only share a
\* name and get the struct of one of them, and what is inside `T?` is not
\* resolved once more with the rest): outside unions, function types and
\* type arguments, if no interface extends itself and no alias stands for a type
\* that never ends (one that meets itself inside an object does end).  Variables
\* are those that collect_object_types_stmt comes to, not those in the bodies of
\* switch, try and arrows nor in the init of a counted for, which get no struct.
RECURSIVE Spelled(_, _)
Spelled(t, within) ==
  IF t.k = "object" THEN {t} ELSE IF t.k \in within THEN Spelled(t.args[1], within) ELSE {}
Bodies(n) == IF n.k \in {"while", "for", "forOf"} THEN <<Last(n.kids)>> ELSE Blocks(n)
RECURSIVE PlacesIn(_)
PlacesIn(n) ==
  CASE n.k = "let" -> Range(n.types)
    [] n.k = "function" -> Range(Params(n)) \cup UNION {PlacesIn(kid) : kid \in Range(n.kids)}
    [] n.k \in {"export", "block"} -> UNION {PlacesIn(kid) : kid \in Range(n.kids)}
    [] n.k \in {"if", "while", "for", "forOf"} -> UNION {PlacesIn(b) : b \in Range(Bodies(n))}
    [] OTHER -> {}
RECURSIVE Outline(_)
Outline(t) == IF t.k = "object" THEN NoType ELSE [t EXCEPT !.args = [i \in DOMAIN @ |-> Outline(@[i])]]
TypesEnd ==
  \A i \in DOMAIN source :
    LET d == NamesOfModule(i)
        outlines == [d EXCEPT !.raw = [n \in DOMAIN @ |-> Outline(@[n])]]
    IN \A n \in DOMAIN d.raw : ~ Circular(n, outlines)
\* Named after a declaration, not after its keys and fields (ShapeName).
DeclaredType(t) == Len(t.name) = 1
StructsAreDefined ==
  stage = "generated" /\ ExtendsIsAcyclic /\ TypesEnd =>
    LET places == UNION {PlacesIn(s) : s \in Range(FlattenSeq(modules))}
        fields == UNION {Range(s.args) : s \in structs}
        Of(t) == {s \in structs : s.name = t.name}
    IN /\ \A t \in UNION {Spelled(p, {"array", "optional"}) : p \in places \cup fields} :
            Cardinality(Of(t)) = 1 /\ \A s \in Of(t) : s.keys = t.keys
       /\ \A t \in {u \in UNION {Spelled(p, {"array"}) : p \in places} : DeclaredType(u)} :
            \A s \in Of(t) : RustTypes(s.args) = RustTypes(t.args)
==============================================================================
