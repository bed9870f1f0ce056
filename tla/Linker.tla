------------------------------- MODULE Linker -------------------------------
(***************************************************************************)
(* arcis-linker: resolve(), from the entry file to the list of modules.    *)
(*                                                                         *)
(* load() walks the imports depth first; check_unique_ids and              *)
(* validate_imports then look at the modules it recorded.  Nothing holds   *)
(* the files still meanwhile: an editor or a git checkout may retarget a   *)
(* path or remove a file between two calls to the file system, and         *)
(* validate_imports resolves every path a second time.                     *)
(*                                                                         *)
(* What a file says is made up as the linker walks it: each import         *)
(* statement when it is reached, the exports when they are collected.      *)
(***************************************************************************)
EXTENDS Naturals, Sequences, SequencesExt

CONSTANTS Files,        \* canonical paths
          Paths,        \* <dir>/<seg0>/.../<segN>.tsr, as written
          EntryPath,    \* the path of the entry, one of Paths
          Ids,          \* what module_id makes of a file name
          Names,        \* what may be exported; "default" is one like the others
          None,         \* no file
          MaxImports,   \* bound: import statements of a file
          MaxChanges    \* bound: changes to the files while the linker runs

ASSUME LinkerAssumption ==
    /\ EntryPath \in Paths
    /\ None \notin Files
    /\ MaxImports \in Nat /\ MaxChanges \in Nat

VARIABLES
    disk,      \* the file each path leads to, None if there is none
    gone,      \* files removed since the start
    changes,   \* how many changes there were
    id,        \* module_id of each file
    imports,   \* the import statements of each file, as far as it was walked
    exports,   \* Module.exports.named
    phase,     \* "entry", "load", "ids", "imports", "done"
    calling,   \* the file load() is being called with, None if it is not
    stack,     \* load's stack: files being walked, the entry first
    order,     \* files in the order they were met
    modules,   \* the keys of the map
    deps,      \* history: the files that load resolved the imports of a file to
    checking,  \* the module validate_imports looks at, None between two
    next,      \* the import of it that is next
    checked,   \* modules it is through with
    result     \* "none", "ok" or what went wrong

files  == <<disk, gone, changes>>
graph  == <<imports, deps>>
loaded == <<stack, order, modules, exports>>
walk   == <<checking, next, checked>>
vars   == <<files, id, graph, phase, calling, loaded, walk, result>>

-----------------------------------------------------------------------------
Whole    == "*"             \* import m; or from m import *;
External == "crate or sys"  \* the target is no file
BadCrate == "crate:"        \* a crate without a name

ASSUME TargetAssumption == External \notin Paths /\ BadCrate \notin Paths

Import == [path : Paths, name : Names \cup {Whole}]
            \cup [path : {External, BadCrate}, name : {Whole}]

\* fs::canonicalize, as resolve_entry and resolve_specifier use it.
Canonical(p) == IF disk[p] \in gone THEN None ELSE disk[p]

Fail(why) == phase' = "done" /\ result' = why

Init ==
    /\ disk \in [Paths -> Files \cup {None}]
    /\ gone = {} /\ changes = 0
    /\ id \in [Files -> Ids]
    /\ imports = [f \in Files |-> <<>>]
    /\ exports = [f \in Files |-> {}]
    /\ phase = "entry" /\ calling = None
    /\ stack = <<>> /\ order = <<>> /\ modules = {}
    /\ deps = [f \in Files |-> {}]
    /\ checking = None /\ next = 1 /\ checked = {}
    /\ result = "none"

ResolveEntry ==
    /\ phase = "entry"
    /\ calling' = Canonical(EntryPath)
    /\ IF Canonical(EntryPath) = None
       THEN Fail("no entry")
       ELSE phase' = "load" /\ UNCHANGED result
    /\ UNCHANGED <<files, id, graph, loaded, walk>>

-----------------------------------------------------------------------------
\* load: the file was recorded before.
AlreadyLoaded ==
    /\ phase = "load"
    /\ calling \in modules \ gone
    /\ calling' = None
    /\ UNCHANGED <<files, id, graph, phase, loaded, walk, result>>

\* Mutation: the cycle check looks for every file it has met.
CycleIfMet ==
    /\ phase = "load"
    /\ calling \in ToSet(order) \ gone
    /\ Fail("cycle")
    /\ UNCHANGED <<files, id, graph, calling, loaded, walk>>

Cycle ==
    /\ phase = "load"
    /\ calling \in ToSet(stack) \ (modules \cup gone)
    /\ Fail("cycle")
    /\ UNCHANGED <<files, id, graph, calling, loaded, walk>>

\* Gone, not readable, not UTF-8, no tokens, no program or no module_id.
Unusable ==
    /\ phase = "load"
    /\ calling # None
    /\ calling \in gone \/ calling \notin modules \cup ToSet(stack)
    /\ Fail("unusable")
    /\ UNCHANGED <<files, id, graph, calling, loaded, walk>>

\* Mutation: the module is recorded before its dependencies.
EnterRecords ==
    /\ calling \in Files \ (gone \cup modules \cup ToSet(stack))
    /\ stack' = Append(stack, calling)
    /\ order' = Append(order, calling)
    /\ modules' = modules \cup {calling}
    /\ calling' = None
    /\ UNCHANGED <<files, id, graph, phase, exports, walk, result>>

Enter ==
    /\ phase = "load"
    /\ calling \in Files \ (gone \cup modules \cup ToSet(stack))
    /\ stack' = Append(stack, calling)
    /\ order' = Append(order, calling)
    /\ calling' = None
    /\ UNCHANGED <<files, id, graph, phase, modules, exports, walk, result>>

Walking == phase = "load" /\ calling = None /\ stack # <<>>

\* The file being walked has one more import statement, of i.
Meet(i) ==
    LET f == Last(stack)
    IN  /\ Walking
        /\ Len(imports[f]) < MaxImports
        /\ imports' = [imports EXCEPT ![f] = Append(@, i)]

ImportFile(i) ==
    /\ i.path \in Paths
    /\ Meet(i)
    /\ Canonical(i.path) # None
    /\ calling' = Canonical(i.path)
    /\ deps' = [deps EXCEPT ![Last(stack)] = @ \cup {calling'}]
    /\ UNCHANGED <<files, id, phase, loaded, walk, result>>

ImportNothing(i) ==
    /\ i.path \in Paths
    /\ Meet(i)
    /\ Canonical(i.path) = None
    /\ Fail("not found")
    /\ UNCHANGED <<files, id, deps, calling, loaded, walk>>

ImportExternal(i) ==
    /\ i.path = External
    /\ Meet(i)
    /\ UNCHANGED <<files, id, deps, phase, calling, loaded, walk, result>>

ImportBadCrate(i) ==
    /\ i.path = BadCrate
    /\ Meet(i)
    /\ Fail("bad crate")
    /\ UNCHANGED <<files, id, deps, calling, loaded, walk>>

\* The end of the file: collect_exports, modules.insert.
Record ==
    /\ Walking
    /\ stack' = Front(stack)
    /\ modules' = modules \cup {Last(stack)}
    /\ \E names \in SUBSET Names : exports' = [exports EXCEPT ![Last(stack)] = names]
    /\ phase' = IF Len(stack) = 1 THEN "ids" ELSE "load"
    /\ UNCHANGED <<files, id, graph, calling, order, walk, result>>

-----------------------------------------------------------------------------
SharedId == \E f, g \in modules : f # g /\ id[f] = id[g]

\* Mutation: check_unique_ids compares each module with the entry only.
CheckIdsOfEntry ==
    /\ phase = "ids"
    /\ IF \E f \in modules \ {order[1]} : id[f] = id[order[1]]
       THEN Fail("same name")
       ELSE phase' = "imports" /\ UNCHANGED result
    /\ UNCHANGED <<files, id, graph, calling, loaded, walk>>

CheckIds ==
    /\ phase = "ids"
    /\ IF SharedId
       THEN Fail("same name")
       ELSE phase' = "imports" /\ UNCHANGED result
    /\ UNCHANGED <<files, id, graph, calling, loaded, walk>>

\* validate_imports takes the modules in the order of a HashMap.
PickModule(f) ==
    /\ phase = "imports"
    /\ checking = None
    /\ f \in modules \ checked
    /\ checking' = f
    /\ next' = 1
    /\ UNCHANGED <<files, id, graph, phase, calling, loaded, checked, result>>

Validating == phase = "imports" /\ checking # None /\ next <= Len(imports[checking])
TheImport  == imports[checking][next]

\* Mutation: the names of an import are not looked up.
WhyNoTarget(i) ==
    IF i.path = External \/ Canonical(i.path) # None THEN "none" ELSE "not found"

Why(i) ==
    IF i.path = External THEN "none"
    ELSE IF Canonical(i.path) = None THEN "not found"
    ELSE IF i.name = Whole THEN "none"
    ELSE IF Canonical(i.path) \notin modules THEN "internal error"
    ELSE IF i.name \notin exports[Canonical(i.path)] THEN "not exported"
    ELSE "none"

CheckImport ==
    /\ Validating
    /\ IF Why(TheImport) = "none"
       THEN next' = next + 1 /\ UNCHANGED <<phase, result>>
       ELSE Fail(Why(TheImport)) /\ UNCHANGED next
    /\ UNCHANGED <<files, id, graph, calling, loaded, checking, checked>>

ModuleChecked ==
    /\ phase = "imports" /\ checking # None /\ next > Len(imports[checking])
    /\ checked' = checked \cup {checking}
    /\ checking' = None
    /\ UNCHANGED <<files, id, graph, phase, calling, loaded, next, result>>

\* The modules are handed out in order.
Succeed ==
    /\ phase = "imports"
    /\ checking = None
    /\ checked = modules
    /\ phase' = "done"
    /\ result' = "ok"
    /\ UNCHANGED <<files, id, graph, calling, loaded, walk>>

-----------------------------------------------------------------------------
\* Another process: a path gets a new target, a file is removed.
Relink(p, f) ==
    /\ disk[p] # f
    /\ disk' = [disk EXCEPT ![p] = f]
    /\ UNCHANGED gone

Delete(f) ==
    /\ f \notin gone
    /\ gone' = gone \cup {f}
    /\ UNCHANGED disk

Change ==
    /\ phase # "done"
    /\ changes < MaxChanges
    /\ changes' = changes + 1
    /\ \/ \E p \in Paths, f \in Files \cup {None} : Relink(p, f)
       \/ \E f \in Files : Delete(f)
    /\ UNCHANGED <<id, graph, phase, calling, loaded, walk, result>>

Done == phase = "done" /\ UNCHANGED vars

Load ==
    \/ AlreadyLoaded \/ Cycle \/ Unusable \/ Enter \/ Record
    \/ \E i \in Import :
        ImportFile(i) \/ ImportNothing(i) \/ ImportExternal(i) \/ ImportBadCrate(i)

Validate ==
    \/ CheckIds \/ CheckImport \/ ModuleChecked \/ Succeed
    \/ \E f \in Files : PickModule(f)

Next == ResolveEntry \/ Load \/ Validate \/ Change \/ Done

Spec == Init /\ [][Next]_vars

-----------------------------------------------------------------------------
\* A module is recorded after all that it imports, and only then.
DependenciesFirst == \A f \in modules : deps[f] \subseteq modules

\* Whatever a file of S imports is in S.
Closed(S) == \A f \in S : deps[f] \subseteq S

\* What the entry needs: the smallest closed set around it.
Needed == {f \in Files : \A S \in SUBSET Files : order[1] \in S /\ Closed(S) => f \in S}

\* Every file of S imports one of S: some of them form a cycle.
Cyclic(S) == S # {} /\ \A f \in S : deps[f] \cap S # {}

Exported(f, i) ==
    i.path \in Paths =>
        /\ Canonical(i.path) \in modules
        /\ i.name # Whole => i.name \in exports[Canonical(i.path)]

\* The modules handed to the pipeline are the files the entry needs, all of them
\* and no other, each once and the entry first, without a cycle or a shared id
\* among them, whatever happened to the files meanwhile.
SuccessIsComplete ==
    result = "ok" =>
        /\ ToSet(order) = modules /\ IsInjective(order)
        /\ modules = Needed
        /\ ~ \E S \in SUBSET modules : Cyclic(S)
        /\ ~ SharedId

\* With files that hold still, every name a module imports is exported by the
\* module it will be looked up in.
ImportsExist ==
    result = "ok" /\ changes = 0 =>
        \A f \in modules : \A k \in 1 .. Len(imports[f]) : Exported(f, imports[f][k])

\* With files that hold still, a program is refused for what is wrong with it:
\* a cycle only when there is one, a shared id or a missing export only among
\* files the entry needs, the internal error never.
FailureHasReason ==
    changes = 0 =>
        /\ result = "cycle" => \E S \in SUBSET ToSet(stack) : Cyclic(S)
        /\ result = "same name" => \E f, g \in Needed : f # g /\ id[f] = id[g]
        /\ result = "not exported" =>
              \E f \in Needed : \E k \in 1 .. Len(imports[f]) : ~ Exported(f, imports[f][k])
        /\ result # "internal error"

\* Inductive: a file of the stack has imported recorded modules and the file
\* above it, so that recording the top of the stack closes no cycle and leaves
\* no import behind; nothing is met but by an import of what was met.
IInv ==
    /\ disk \in [Paths -> Files \cup {None}]
    /\ calling \in Files \cup {None}
    /\ stack \in Seq(Files) /\ order \in Seq(Files) /\ modules \subseteq Files
    /\ deps \in [Files -> SUBSET Files]
    /\ IsInjective(order) /\ ToSet(order) = modules \cup ToSet(stack)
    /\ IsInjective(stack) /\ ToSet(stack) \cap modules = {}
    /\ DependenciesFirst
    /\ \A k \in 1 .. Len(stack) - 1 : deps[stack[k]] \subseteq modules \cup {stack[k + 1]}
    /\ stack # <<>> => deps[Last(stack)] \subseteq modules \cup {calling}
    /\ \A f \in Files \ ToSet(order) : deps[f] = {}
    /\ \A S \in SUBSET modules : ~ Cyclic(S)
    /\ \A S \in SUBSET Files :
          order # <<>> /\ order[1] \in S /\ Closed(S) =>
              ToSet(order) \subseteq S /\ calling \in S \cup {None}
    /\ phase = "entry" => order = <<>>
    /\ phase \in {"ids", "imports"} \/ result = "ok" => stack = <<>> /\ order # <<>>
    /\ phase = "imports" \/ result = "ok" => ~ SharedId
    /\ phase # "done" => result = "none"

\* Each file of the stack imports the one above it, the last the one called for.
Chain ==
    /\ \A k \in 1 .. Len(stack) - 1 : stack[k + 1] \in deps[stack[k]]
    /\ stack # <<>> /\ calling # None => calling \in deps[Last(stack)]

\* validate_imports goes through the modules the walk recorded.
ChecksTyped ==
    /\ imports \in [Files -> Seq(Import)]
    /\ checked \subseteq modules /\ checking \in modules \cup {None}
    /\ next \in Nat \ {0}
    /\ phase \in {"entry", "load", "ids"} => checked = {} /\ checking = None
    /\ result = "ok" => checked = modules

\* The imports of f lead where they led load().
Resolved(f) ==
    \A k \in 1 .. Len(imports[f]) :
        imports[f][k].path \in Paths => Canonical(imports[f][k].path) \in deps[f]

\* The first n imports of f are in order.
Passed(f, n) == \A k \in 1 .. n : Why(imports[f][k]) = "none"

\* While the files hold still, what load() saw is what validate_imports sees.
Still ==
    /\ phase # "done" \/ result = "ok" => \A f \in Files : Resolved(f)
    /\ \A f \in checked : Passed(f, Len(imports[f]))
    /\ checking # None => Passed(checking, next - 1)

\* Inductive together with IInv, for what is said of files that hold still.
StillInv ==
    /\ changes \in Nat
    /\ Chain /\ ChecksTyped
    /\ changes = 0 => Still
    /\ FailureHasReason
=============================================================================
