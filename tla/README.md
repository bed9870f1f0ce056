# Arcis in TLA+

Arcis compiles `.tsr` files, a statically typed relative of TypeScript, to
machine code, either through Rust source and `cargo` or `rustc` or directly
with Cranelift and a small C runtime. This directory models the parts of the
compiler whose correctness is a matter of *state*: scopes that are pushed and
popped, names that are given out and found again, counters that a compiler and
a runtime keep each for itself, memos filled in an order nobody chose, blocks of
memory that grow, files that change while they are read; and the front half, from
the characters of a file to typed trees. TLC checks the models on small
instances, and TLAPS proves the central invariants for every value of the
constants.

Paths below are relative to the root of the repository; `CR` stands for
`crates/arcis-codegen-cranelift/src` and `VA` for `crates/arcis-validation/src`.

## 1. Inventory

A build (`crates/arcis-driver/src/build.rs`) is one thread that runs these passes
one after the other over the modules of a program:

    arcis_linker::resolve            files -> modules in the order they are met
    resolve_shadowing                renames nested bindings
    validate                         duplicates, break and continue, unused names
    resolve_program_types, infer     a type for every binding
    narrow_program                   copies of optional variables proven present
    check_null_safety, check_types, check_json_calls
    a backend                        Rust source and rustc, or Cranelift, cc and the C runtime

Every pass rewrites the syntax tree that the next one reads. None hands over a
symbol table: each pass, and each backend, computes its own scopes again from the
names it finds. That is where the hard questions are: what one pass assumes about
names and nesting is what another has to provide. What exists at run time is the
compiled program with the global state of the C runtime.

| Component | State | Operations | Hard part | What makes it correct |
|---|---|---|---|---|
| try, catch, throw (`CR/stmt.rs`, `CR/context.rs`, `CR/runtime.rs`) | compile time: `open_try_count`, `LoopFrame.try_depth_at_entry`; run time: `arcis_try_stack`, `arcis_try_depth` | enter, end, catch, return, break, continue, throw, call | two counters in two worlds; a mistake shows only at a later throw | a throw reaches the innermost open try and no other; no slot is lost |
| shadowing (`VA/shadowing.rs`) | stack of scopes, a counter per name | declare, resolve, blocks, loops, catches, functions, arrows | names minted in one place, consumed flat in others | visible bindings have different names |
| duplicate check (`VA/duplicate.rs`, `VA/lib.rs`), flat names of the backend (`CR/context.rs`) | stack of name sets; one map from name to variable for a function | declare, open and close a block | both see names after renaming; names of closed blocks stay in the map | a reference finds its declaration; only duplicates are reported |
| for and for-of (`CR/stmt.rs`) | index variables, found by name | condition, increment block, continue, break | the increment is compiled after the body | every element once, in order; the loop ends |
| break and continue (`VA/loop_ctx.rs`, `CR/stmt.rs`) | a depth; a stack of `LoopFrame`s | check, jump | two walks that stop in different places | a jump goes to its own loop, everything else is refused |
| linker (`crates/arcis-linker/src/lib.rs`) | `stack`, `order`, map of modules | load, ids, imports | cycles against diamonds; the files may change meanwhile | exactly the needed modules, acyclic, no two with one id |
| narrowing and null safety (`VA/narrow.rs`, `VA/nullsafety.rs`) | a scope of types each; the copies made so far | test, guard clause, assignment, jump, use | a flow fact turned into a rename | null never reaches a sink; a name keeps meaning its variable |
| inference and type check (`VA/infer.rs`, `VA/typecheck.rs`) | flat scope; memo of return types, set of functions being resolved | resolve on demand, fill in types, check the stores | recursion through the memo, which the checker goes on using | what a caller was told is what the declaration ends up with; an accepted program keeps the kinds of its variables |
| type names, structs (`crates/arcis-codegen/src/collect.rs`, `lib.rs`, `types.rs`) | merged interfaces, memo of resolved names, list of structs | merge, replace, collect | interfaces are merged in the order of a hash map, with a memo and a set that cuts cycles | the order does not matter; names mean the same everywhere; every struct that is spelled exists once |
| unused names, json (`VA/unused.rs`, `VA/jsoncheck.rs`, `VA/json.rs`) | sets of names | walk | none | warnings |
| driver (`crates/arcis-driver/src`, called by `crates/arcis/src`) | files in `bin/` and `bin/<pkg>/`, the user's `Cargo.toml` | build, run, check, init | what failed, killed or earlier builds leave behind | the program run is the one just built; no program mixes two builds; cargo can read the manifest |
| runtime: arrays, objects (`CR/runtime.rs`) | `ArcisVec`, `ArcisObject`: a block, a length, a capacity | new, push, pop, unshift, get, set, extend, merge | growth; handles are shared; spreads are loops over both operands | a handle behaves as a sequence, or as a map, on which every call is one step |
| runtime: strings (`CR/runtime.rs`) | immutable once created | concat, slice, compare | none | contents are those of the operations |
| runtime: files, processes (`CR/runtime.rs`) | the operating system's | one call each | none | - |
| expressions and methods (`CR/expr.rs`, `CR/method.rs`, `CR/module.rs`) | SSA values | translation | lifting of arrows | - |
| Rust backend, statements and expressions (`crates/arcis-codegen/src`) | output text | translation | `try` is a closure under `catch_unwind` | rustc checks what it prints |
| language server (`crates/arcis-lsp/src`) | open documents | open, change, close, requests | stale documents, positions | answers are about the text the client has |
| lexer, parser (`crates/arcis-lexer`, `crates/arcis-parser`) | a position | scan, parse | three places that try one reading and go back | the tree is what was written; positions are those of the text |
| formatter (`crates/arcis-fmt`) | the frames of open brackets, the last token | merge tokens and comments, print | layout is decided by the lines of a text that is about to change | no token or comment is lost, joined or moved; a second run changes nothing |
| command line (`crates/arcis/src`) | - | arguments; fmt and fmt --check | none | what fmt wrote passes fmt --check |

`PROJECT.json` lists them with their status, and under "hazards" the places, line
by line, where this code can go wrong in a way that a test would hardly reach.

## 2. Modules

    ControlStack   Exceptions <--implements-- TryCatch <-- MCTryCatch, TryCatchProofs
    Shadowing <-- NameChecks <-- MCNameChecks, ShadowingProofs
    Loops, LoopContext <-- LoopsProofs
    Linker <-- MCLinker, LinkerProofs
    Narrowing <-- MCNarrowing, NarrowingProofs
    Interfaces <-- InterfacesProofs;  Types <-- Resolution, Inference;  all of these <-- Typing <-- MCTyping
    Lexer <-- Formatter;  Formatter, Parser <-- Syntax <-- MCSyntax
    Arrays <--implements-- Runtime <-- MCRuntime, RuntimeProofs
    Manifest <-- Builds <-- MCBuilds, BuildsProofs

The passes with scopes and the run-time models have no fixed program. The behaviours of such a model are the runs (or
the walks of a compiler pass) over *every* program within the bounds: the next
construct of the program is made up when control reaches it, out of all that the
grammar and the earlier passes allow there. `Syntax` and `Typing`, whose passes read whole trees,
start from a set of programs instead, given by the MC module as every combination of a few
parts. A definition whose comment starts with
"Mutation" is a wrong variant of the one after it. It belongs to no behaviour of
the specification; replacing the right definition by it shows that a property can
fail.

### TryCatch, Exceptions, ControlStack

`TryCatch` runs a program as the Cranelift backend compiled it. `jmpBufs` is
`arcis_try_stack` up to `arcis_try_depth`; `open` is the compiler's `open_try_count`
for the code at each level of nesting, so `open[i]` of a loop is the
`try_depth_at_entry` of its frame; `ctl` is the truth, the constructs that the
program is inside of, calls included. `Return`, `Break` and `Continue` make as many
`arcis_try_end` calls as the compiler has emitted at that point, computed from
`open` and never from the truth. `Throw` is a `longjmp` to whatever the top slot
holds; if the try of that slot has been left, the status becomes "wild". A throw
at depth zero and a try with all slots taken abort, as in the C code.

`Exceptions` says what the language promises, in terms of `ctl` and `status` alone;
`ImplementsExceptions` is the refinement, with the same two variables.

Properties: `HandlersMatch` (the slots are the open tries, in order), `NextThrowIsRight`
(the next throw lands in the innermost open try of whichever activation),
`NoSlotLeak` (the limit of 64 is met only by 64 tries really open), and
`OuterHandlersKept` (a step never touches the handlers that were there when a
construct around it was entered).

### Shadowing, NameChecks

`Shadowing` is `resolve_shadowing`, scope by scope: `frames` holds for every function
or arrow being walked its scopes and counters, `Declare` is `declare`, `Resolve` is
`resolve`, and there is one action for each construct that opens or closes a scope.
A name is a sequence, so that a minted name, `Mint(n, k)` for `n__shadowk`, can be a
name that the program writes. `lexical` is the truth beside it: the declaration that
each name denotes by the block structure.

`NameChecks` adds what reads the names afterwards: `seen` and `reported` are the
scopes and the issues of `collect_decl`, `locals` is `FunctionCtx.vars`. Both walk the
program in the same order as the renaming, so the three advance together.

Properties: `VisibleNamesDiffer` (the sentence of `VA/shadowing.rs:16-17`),
`FlatNamesAreRight` (in a program without duplicates, wherever the walk is, looking up
the renamed name in the flat map gives the declaration that the block structure
gives), `OnlyDuplicatesReported`.

### Loops

A forest of up to `LoopCount` loops in source order, each a for-of or a counted for.
`IncrementOf(i)` is the variable that the increment block of loop `i` writes: for a
for-of the one that the name `__for_i` stands for when the block is compiled, which
is after the body. `seen` records the elements that each loop has visited.

Properties: `ElementsInOrder`, `NoneSkipped`, `Terminates`.

### LoopContext

The check and the backend walk one program: `depths` is the argument of
`check_loop_context`, -1 where it does not come, and `loops` the backend's frames.
`Jump` records for the last break or continue whether it was reported, where the
compiled jump goes, and where it should go by `docs/language-reference.md` (`Meant`: nowhere for a
break in a case, else to the innermost loop of the function).

Properties: `DepthsAgree` (wherever both look they count the same loops), `NoFalseAlarm` (nothing
inside a loop is reported), `JumpsToOwnLoop` (what is compiled for a word is what is meant, a refusal where no loop
is around it, looked at by the check or not). A break in a block of a case is left out of the last one
(`Buried`), for the backend takes it for a jump (section 5).

### Linker

`resolve` from the entry path to success or failure, one action for every step
between two calls to the file system: `calling` is the argument of `load`, `stack` and
`order` are its own, `modules` the keys of its map. `disk` and `gone` say what the
paths lead to, and `Change` lets another process alter them between any two steps.
`validate_imports` resolves every path a second time, as the code does.

Properties: `SuccessIsComplete` (the modules are the smallest
closed set around the entry, acyclic, without a shared id, whatever changed on disk),
`ImportsExist` and `FailureHasReason` (when nothing changed).

### Narrowing

Runs the body of one function twice side by side: `value` as the program is written,
`cell` and `copies` as it is compiled after `narrow_program`, which puts
`let x__narrowN: T = x!;` where a test proves `x` present and renames `x` in the region.
A block remembers which copy each name stands for (`copy`), what `narrow_block` has
recorded of the types (`recorded`), and which names a guard clause has already
changed (`guarded`). A statement is taken only if `check_null_safety` accepts it where it
stands (`Fits`, `Checked`, `Definite` are `check_sink`, `check_expr`, `is_definite`), and what is accepted
depends on the place (`Places`, `AcceptedAt`): a sink takes what is definite, an operand or receiver a
written `null` as well, and nothing is asked of the operand of a unary minus.

Three facts of the code shape the model. `infer` runs before `narrow_program`, so
`let y = x;` inside a region gives `y` the optional type (`InferredType`).
`record_decl` records the variable of a for-of when the loop is over and not for its
body, and the one declared in the head of a counted for (`ForLet`) nowhere in it, so a test of either in the
body is not narrowed (`Recorded`). A null that gets to a place by one of the two gaps of the check
makes the status "unguarded", any other null "misused".

Properties: `NullStaysOptional` (a definite variable or copy is never null, so no unwrap
inserted by narrowing meets null, and no null of a variable gets to a sink, operand of a binary operator or
receiver), `ReadsAgree` (a name stands for the
value that the program as written gives its variable), `ProvenIsDefinite` (what a test has
proven may be used as it stands, to the end of the region; the variables of loops are left out).

### Interfaces, Types, Resolution, Inference, Typing

`Typing` takes a linked program through `resolve_program_types`, `infer`, `check_types` and the
second resolution with which the Rust backend begins. A tree has a fixed shape with slots for types
(`Types`), which the passes fill and rewrite in place. `Interfaces` is `collect_interfaces` of
`collect.rs` as a state machine: `raw` has the declarations, `merged` is the memo `resolved`, `pending`
the calls of `resolve_interface_fields` with the fields gathered so far (`visiting` is their names).
`MergeInterface` picks any interface next, for the code iterates over a `HashMap`; then each step is a
call for a base (`EnterBase`), a base that is answered at once (`TakeBase`: known, not declared, or on
the way here) or a return (`Finish`). The order of the fields is left out. `Typing` does these steps
before each of the two resolutions (`MergeInterfaces`). `Resolution` is the rest of `collect.rs`:
`Resolve` replaces names, with its own memo going through a module. `Inference` is `infer.rs` and `typecheck.rs`: every
operator takes a context and the memo of return types and answers a type with the memo as it is
afterwards, so the order in which expressions ask for return types is that of the code.
`RunAll`, in `Typing`, is the other side of `KindsAreKept`: it runs a program with the kind of every
value (number, string, ...) in place of the value, along every path, and looks at each value that is stored or
returned (`Keep`): it is of the kind of its place, or of another one, and the check takes any two types for
compatible of which one is an object, a function or a union (`Opaque`, `Alike`), or it does not. `types_compatible`
lets the second case pass on purpose (`VA/typecheck.rs:20-28`), and what a run does afterwards
is not followed; the third must never happen. Where the check knows less than the run (an
initializer without a type, arrays and `??` of mixed kinds, `as`) the run stops as well, and the
comment of the property lists these places.

Properties: `InterfacesInherit` (whatever the order of merging and the memo: own fields, nothing but
ancestors' fields, and off every cycle exactly what the declarations give), `NamesAreReplaced`, `CallersAgree`
(what a caller was told a function returns is what its declaration ends up with), `KindsAreKept` (the first value of
another kind than its place that a run of an accepted program stores is one that the check allows),
`StructsAreDefined`. Each of the last four names in its comment what the passes leave out: names inside `T?`, functions
that call a constant of a function type, the stores above, object types where `collect_object_types_stmt` does not
look. The programs of `MCTyping` have all of these, and taking one of the exclusions out violates
the property.

### Lexer, Parser, Formatter, Syntax

The lexer, the parser and the formatter are operators, translated function by function: a parser
takes the tokens and a position and answers a tree and a position, `Lex` goes over characters with
line and column, the formatter (`Emit`) folds its state over the merged stream of tokens and comments.
A keyword or a word counts as one character, except that two of them side by side are one longer
identifier. `Syntax` is a file on disk that `arcis fmt`, `arcis fmt --check` and a build read in turn.
`Spell` is the grammar of `docs/language-reference.md` as a printer, brackets only where precedence
needs them; where there are two ways to write a construct, it writes both. The gaps of some programs
are filled with blank lines and comments, one gap after the other.

The programs include those that the parser refuses (`Refused`: the typed for-of, an assignment to a member of
what does not begin with a name and a `.` or `[`) and those whose text has a second reading (`TwoReadings`: `f < g > (x)` is read as a call with
type arguments); `ParsedAsWritten` leaves these out by name.

Properties: `ParsedAsWritten` (the tree that the parser hands on is the one that was spelled, before and
after formatting), `PositionsAreRight`, `FmtKeepsItems` (formatting keeps every token and comment in
order), `CheckAfterFmt` (what `arcis fmt` has written passes `arcis fmt --check`).

### Runtime, Arrays

`Arrays` is what a compiled program may rely on: a handle stands for a sequence, or for a map from field
names to slots, and each call is one step. `Runtime` has the blocks: `elements` is a function on
`1 .. cap` whose slots above `len` hold what was popped or was never written (`Junk`), `Grown` doubles,
`Unshifted` moves, a table of fields is searched from the front. The spreads `[...a]` and `{...o}` are loops
in C that call push and set; `loop` is such a loop in progress, and its iterations are separate steps, so
that the same push and set are used and an object may be merged into itself. `IsArrays` is the
refinement: while a spread runs its target shows what it held before (`before` is a history variable).

Properties: `VectorsAreSound`, `ObjectsAreSound`, `IsArrays`.

### Builds, Manifest

The other models are inside one pass; this one is a directory over many commands. `Start`
is `arcis build`, `run` or `check` with an entry and a backend, `StartInit` is `arcis init`. `pc` is
the next call that the command makes to the file system or to a compiler. The linker reads the sources one by
one (`ReadFile`), so with an `Edit` between two of them `taken` may have files of different
versions that never stood beside each other; `taken` is the sources as this command read them, `todo` the files still to be written. `Stop` may end a command before any call,
for an error, a refusal of a check or a kill, and leaves `bin/` as it is at that moment. `Edit` lets
the user change the sources or the `Cargo.toml`, also in the middle of a command. `obj`, `rs`, `src`
are the files `bin/<id>.o`, `bin/<id>.rs` and `bin/<pkg>/src/<id>.rs`, each with the reading it was made from; `exe` is `bin/<id>`, a program or the package's folder; `toml` is the
manifest in that folder; `target` is what cargo has built.

`cc`, `rustc` and `cargo` are external. Each succeeds only on files it can read (`Link`, `Rustc`,
`Cargo`), makes its program from exactly those, and may fail for reasons of its own and then take
the old program with it (`CompilerFails`).

`Manifest` has the text of a `Cargo.toml` as a sequence of lines, `EnsureJsonDeps` as a function of it,
and what cargo makes of the result (`IsManifest`, `DependsOn`, together `Usable`). `PlainText` is what the
driver takes for granted of a manifest: no `[workspace]` of its own, no comment with the header
`[dependencies]` above the real one, the serde lines in no other table.

Properties: `MainRuns` (what run executes is the program asked for, from the sources this command
read), `ProgramsAreWhole` (a program in `bin/` is one build's: its root's modules and no others, all from one command's reading), `CargoCanRead`
(when cargo is called the manifest has each table once, and the dependencies of `json(...)` among
its dependencies).

## 3. Runs

| Run | Bounds | Shows |
|---|---|---|
| `trycatch` | 4 tries at a time, 3 slots, nesting 8 | safety, the refinement of `Exceptions`, the inductive invariant |
| `names` | 2 names, 4 declarations, 3 scopes, 2 functions or arrows deep | renaming, duplicate check and flat map agree |
| `loops` | 3 loops, 2 iterations, no for-of in a for-of | order, completeness, termination |
| `loops_for_of_in_for_of` (violated) | 2 loops | finding 1 |
| `loop_context` | nesting 4, all constructs | check and backend agree, with each other and with the language reference |
| `linker` | 3 files, 3 paths, 2 ids, 2 imports a file, 1 change | completeness and reasons |
| `narrowing` | 2 variables, 2 values, 3 blocks, 2 copies | null safety and the meaning of names |
| `narrowing_assign` (violated) | the same, any assignment | finding 2 |
| `typing` | declarations that lead to each other across 2 modules; 3 interfaces extending each other; 2 functions calling each other under several main programs; objects in every statement | names, inference, check and structs |
| `syntax` | every construct around and inside of every other, both spellings, 7 fillers in every gap | parser and formatter |
| `runtime` | 2 arrays of 3 slots or 2 objects of 2 fields, first capacity 1 | the refinement of `Arrays`, sound blocks |
| `builds` | 2 modules, 3 commands, 1 edit, 2 manifests and the template | whole programs, the right program, a readable manifest, the inductive invariant |

The largest are `builds` (4 428 594 distinct states, a minute and a half on two cores), `narrowing` (119 801, half a
minute), `loop_context` (84 030), `syntax` (24 055, a minute) and `typing` (16 207, less than a minute).

Why the bounds are enough. A leak of handlers needs a loop, two tries that one jump
crosses and a throw afterwards, with a call between them to have two activations:
six levels, and one try more than there are slots to reach the limit. Two names that
clash need two scopes in which one of them is declared and a third around both; the
counters of siblings need a scope that is closed and another opened. The index of a loop
is disturbed by a loop in its body or by one before it, three cover both. A cycle or a
diamond needs three files; an id shared by two that the entry does not import itself
needs three as well. With two variables and two copies there is a copy of a copy, a
copy for each variable, and with three blocks a guard clause inside a branch that is
left by a jump from below it; one block more (891 919 states) gives the same result. For `bin/`
three commands are one that leaves something behind, one that disturbs it and one that meets the
result, with either backend and layout in each place; the second module is both a module that
main needs and an entry of its own, and has the name of the package, so that a program stands where
the folder has to be. With a first capacity of one a block is full at every length from one on, and
three slots make it grow twice; two arrays are a source and a target of a spread, two objects the same
and one merged into itself. In `typing` two functions are the shortest cycle, in either order of source
and of requests, and a third asker is the main program; three interfaces have a diamond and a cycle of
each length. In `syntax` precedence is settled by pairs of operators, one inside of the other, and the
frames of the formatter by pairs of statements; a blank line or comment acts on the items beside it.
The names, values, files, ids and tries that nothing tells apart are symmetric; no run
with a liveness property uses symmetry.

`Loops` is the one specification with fairness: `WF_vars(Next)`. A compiled program is one
thread that never waits, so it takes its next step. Each `Enter` goes forward in the
source and each loop has finitely many elements, which is what `Terminates`
checks; a counted `for` counts to its limit, and a `while`, which may run for ever, is
not part of the model. The other models state safety only: a compiler pass that stops
in the middle harms nobody, and a program may stop anywhere (`exit`).

Deadlock is checked except in four runs: in `builds` nobody has to start another command, and at the
bound of commands and edits the directory rests; in `runtime` a program need not make another call; in
`typing` and `syntax` the build ends or the error is reported and nothing follows. Any other model that comes to its end (a program that has
returned, a linker that is done) stutters explicitly (`Ended`, `Done`).

## 4. Proofs

The theorems hold for every value of the constants under the named assumptions of the
modules (`BoundsAssumption`, `TriesAssumption`, `NamesAssumption`, `LoopsAssumption`, `LinkerAssumption`, `TargetAssumption`,
`NarrowingAssumption`, `RuntimeAssumption`, `BuildsAssumption`, `NoneAssumption`, `LoopContextAssumption`,
`SourcesAssumption`: that bounds are naturals, model values are distinct, constructs are those of the language, and the
interfaces of a program are finitely many), which TLC evaluates in every run.

*TryCatch* (`TryCatchProofs`). `HandlersMatch` and `NextThrowIsRight` speak of the
slots and the truth, yet the jumps are computed from `open`, so neither is inductive. `IInv`
adds what ties the two: between two positions of one activation the compiler's count and
the runtime's depth grow by the same amount (`CountsAgree`), the depth grows by one
exactly at a try (`DepthGrowsByTries`), and each slot belongs to one open try at the depth
at which that try was entered (`SlotsAreOpenTries`). Then a jump from position `i` to `j`
removes `open[i] - open[j] = at[i] - at[j]` slots, which are those of the tries
between them. Counting the tries needs no induction: the depths number them one to one
(`TriesAreSlots`, for every prefix). Proved: `InductiveInvariant`, `TypeCorrect`, `ThrowsReachTheirHandler`
(`NextThrowIsRight`), `HandlersAlwaysMatch`, `NoSlotIsEverLeaked`, `OuterHandlersAlwaysKept` and
`ImplementsTheLanguage` (`ImplementsExceptions`, each step a step of `Exceptions` or a stutter): all that
the run `trycatch` checks.

*Shadowing* (`ShadowingProofs`). A name that an open scope gives to a declaration is the
name itself or one minted with a number the counter has reached (`NamesAreMinted`), and no
two open scopes of a function hold one name for it (`NamesAreFresh`). `VisibleNamesDiffer`
follows if no name of the program has the form of a minted one (`Plain`); without that
assumption it is false of the code (section 5).

*NameChecks* (also `ShadowingProofs`). That the flat map is right in the innermost scope is not
inductive: the scope that is closed next uncovers the one around it. `ChecksIInv` says it of every open
scope of the function (`MapFollows`), says that a name has a new spelling exactly where the program
declares it (`Follows`), and that `collect_decl` has seen in a scope only what the renaming has given to
declarations of that scope (`SeenFollows`). What closed scopes left in the map need not be
spoken of: a new declaration overwrites one entry, and its name is none of those visible
(`NamesAreFresh`). Proved, if the program is `Plain`: `ChecksInvariant`, `FlatNames`
(`FlatNamesAreRight`) and `RealDuplicates` (`OnlyDuplicatesReported`), for any number of
declarations, scopes and functions.

*Loops* (`LoopsProofs`). `ElementsInOrder` speaks of loops that are being run, and the increment
block of one may write the index of another. `LoopsIInv` says that the loops being run are
nested (`OutsideIn`) and that each whose increment writes its own index has visited exactly the
elements before that index (`IndicesInStep`, with `OwnIndex` and `InStep`); a step of a loop then leaves
the indices of the others alone. It holds with nested for-ofs too, where the outer one does not own its index, and
`LoopsInvariant` proves it for them. If no for-of is inside a for-of every loop owns its index: proved from that are
`LoopsVisitInOrder` (`ElementsInOrder`) and `LoopsSkipNone` (`NoneSkipped`). `OwnersSkipNone` needs no such
assumption: in any program a loop that owns its index is left by its condition only after its last element.
`Terminates` itself is left to TLC, but the argument behind it is proved. `Rank` gives for every body
the iterations left (doubled, to tell the condition from the body) and the statements ahead of control; bodies
count in source order, so an outer loop counts more than the loops in it. `EveryStepDescends`: with no for-of in a
for-of every step lowers the rank (`Descends`), and no sequence of ranks is lowered for ever. What
remains for `Terminates` is that a program which is not done can take a step.

*Interfaces* (`InterfacesProofs`). What is in the memo when an interface is merged depends on the order of
the hash map, so `InterfacesInherit` says nothing that a half-done merge could use. `InterfacesIInv` adds that
each pending call is for an ancestor of the calls before it (`CallsAscend`), that the fields gathered by a call
are its ancestors' (`FromAncestors`) and that, off every cycle, they are exactly those of the bases it has passed
(`PassedBases`). A name that the walk comes back to is then its own ancestor, so the cut never happens off a
cycle. `Inherited`, what the declarations give, is a recursive function on the interfaces off every cycle; that it
exists (`InheritedFacts`) is proved by induction on the number of ancestors, since a base has fewer (`AncestorsDecrease`).
Proved, for any finite set of interfaces with or without cycles: `InterfacesInvariant` and `FieldsAreInherited`
(`InterfacesInherit`). The comment that `visiting` guards against cycles is proved as well: a pending name is not finished
and not pending twice (`PendingApart`), so every step lowers the number of unmerged interfaces, else of names not
being visited, else of bases still to be looked at, and no such descent is endless (`WalkGetsNearer`).

*Linker* (`LinkerProofs`). A file on the stack has imported recorded modules and the file
above it; a file not met has imported nothing; no set of recorded modules is cyclic; every
closed set around the entry has all that was met. So recording the top of the stack
closes no cycle, and when the stack is empty the modules are the smallest closed set.
Proved: `InductiveInvariant` and `LinkIsComplete` (`SuccessIsComplete`), with any number of
changes on disk. For files that hold still, `StillInv` adds that each file of the stack imports
the one above it (`Chain`), that every import leads to what `load` resolved it to (`Resolved`),
and that the imports already looked at are in order (`Passed`). A file of the stack that is met again
then closes a cycle (`StackCloses`), and each check judges needed files only. Proved from it:
`FailureIsJustified` (`FailureHasReason`) and `ImportsAlwaysExist` (`ImportsExist`).

*Narrowing* (`NarrowingProofs`). A block sees the copies of the block around it and
perhaps more (`CopiesInScope`), a name goes over to younger copies only (`CopiesGrow`), two
names never share a copy (`CopiesApart`), and a variable has no copy before it is declared
(`NoCopyBefore`). An assignment then reaches the one place that a name stands for in every
block since the declaration, and dropping blocks drops exactly their copies. All steps
that open, end or narrow a block are one lemma (`RebuiltIsSound`). Proved:
`InductiveInvariant`, `TypeCorrect`, `NullStaysOut` (`NullStaysOptional`, whatever stands at the places that the
check does not guard) and `NamesStandForTheirVariable` (`ReadsAgree`, if no assignment is made in a
region that ends before its variable). `ProvenIsDefinite` is about the types that `narrow_block` has
recorded, of which `IInv` says nothing. `ProvenIInv` adds that of every variable in scope a block has recorded
the declared type, but for the variables of for-ofs and counted fors (`TypesRecorded`), and that a name which is
proven has a copy unless it needs none (`ProvenHaveCopies`, `GuardedHaveCopies`). Proved from
both: `ProvenNamesAreDefinite` (`ProvenIsDefinite`, for all other variables), without further assumptions.

*Builds* (`BuildsProofs`). `MainRuns` speaks of the moment after a run, so it says nothing of how the
files got there. `IInv` adds that a command in progress knows what it took and still has to write
(`CommandKnown`, `LayoutKnown`), that every file no longer in `todo` is what this command makes of its
source, with no object of another build beside them (`FilesAreFresh`), and that a program about to
be executed is the one asked for (`BuiltIsAsked`). A compiler is called when `todo` is empty, so all it
reads is this command's. Proved: `InductiveInvariant`, `TypeCorrect`, `RunsWhatWasAsked` (`MainRuns`) and
`NoMixedPrograms` (`ProgramsAreWhole`: one command's reading, which may itself have caught an edit between two files), for any number of modules, commands and edits. The manifest is
prepared once: from reading it to calling cargo, what is in the package's folder is a text of the
user, or the template, that has been through `EnsureJsonDeps` at most once (`ManifestIsUsers`, proved as
`ManifestPreparedOnce` for any texts). If the texts are plain, cargo can read what is made of them,
with and without `json(...)`: `CargoReads` (`CargoCanRead`). The template is proved plain
(`TemplateIsPlain`); a text that is not may be spoilt (section 5).

*Runtime* (`RuntimeProofs`). `VectorsAreSound` and `ObjectsAreSound` hold of every single call, and the
spreads need more: that a loop in progress has copied exactly its first `i` elements behind what the
target held (`Extending`), or has set exactly the first `i` fields (`Merging`, where an object merged into
itself never changes). For every helper one lemma says what it does to the block and another what that
is for the sequence or map it stands for (`PushedSound`, `PushedElements`, `FieldSetSound`, ...), then each
call is one lemma. Proved: `BlocksAreTyped` (the inductive invariant), `VectorsStaySound`,
`ObjectsStaySound` and `RuntimeImplementsArrays` (`IsArrays`), for every first capacity, value, field name and
number of calls.

*Break and continue* (also `LoopsProofs`). That the depth of the check equals the number of frames is
not inductive: closing a construct brings back what was known before it. `IInv` therefore speaks of every
open construct: the frames are exactly the loops that are compiled, in order (`FramesAreLoops`); the depth
inside construct `n` is the number of the last frame among the first `n` (`DepthNumbersFrames`); inside
a loop of its function the depth is positive (`DepthSeesLoops`, also where nothing is compiled). The loop of the top frame is
then the innermost one (`TopFrameIsInnermost`). Proved: `FramesStayLoops` (the inductive invariant),
`DepthsAlwaysAgree`, `NeverAFalseAlarm` and `JumpsStayInOwnLoop`, for every set of constructs
and any nesting: all that the run `loop_context` checks up to four.

`IInv` of `TryCatch`, `Linker`, `Narrowing` and `Builds` are properties of their runs as well. `ChecksIInv`,
`LoopsIInv` (with and without nested for-ofs), `Descends`, `ProvenIInv`, `ManifestIsUsers`, the parts of
`InterfacesIInv` and the descent of `WalkRank` hold in the runs of their modules when they are added to the configurations; `InterfacesTypeOK` was
tried on a single program, for it enumerates maps.

Checked by TLC and not proved: `Terminates`, for liveness under fairness is out of reach of the
proof system, as is ENABLED; the other four properties of `Typing` (`NamesAreReplaced`, `CallersAgree`, `KindsAreKept`,
`StructsAreDefined`) and all of `Syntax`, whose operators are RECURSIVE over trees: the proof system loses its SMT
backend in a module that reaches one. The library's induction theorems take an operator as a parameter, which the
provers installed cannot instantiate. Where a proof needs induction it goes by `WFMin` of
`WellFoundedInduction` instead: the least number, or the lowest rank, at which the claim fails is taken and refuted
(`NumbersByInduction`, `LastLoop`, `LowestRank`). The modules with theorems have no RECURSIVE operator; `Inherited` is the
only function defined by recursion that they need.

## 5. Findings

Two runs are expected to be violated. Each checks a sentence of the repository:

1. `loops_for_of_in_for_of`: the outer loop of two nested for-ofs advances the index of the inner
   one (`CR/stmt.rs:267`, against the comment at 188-192).
2. `narrowing_assign`: an assignment inside `if (x != null) { ... }` is lost at the end of the
   branch (`VA/narrow.rs:116`).

Seen while modelling, and built into the models without a run of their own: `let x; { let x; let x; }`
is not reported, for the first inner `x` becomes `x__shadow1` and the second stays `x`
(`VA/shadowing.rs:50`, against `docs/language-reference.md:326-328`); a program that declares `x__shadow1`
itself can have two visible bindings of that name (`VA/shadowing.rs:61`, against lines 16-17 of the
file); with a `Cargo.toml`, `arcis run app.tsr` writes `src/app.rs` and has cargo build the `src/main.rs` that
an earlier build left, so another program than the one named is executed, and `MainRuns` leaves
such entries out; the duplicate check
does not look into exports, for-ofs and arrows (`VA/duplicate.rs:99-116`), so duplicates there
reach the backends; `check_loop_context` does not look into `switch` and `try`
(`VA/loop_ctx.rs:63`), though its comment promises every statement, and the backend's own refusal
catches what it misses; a `break` in an `if` in a case leaves the loop around the switch (`CR/stmt.rs:514`, against
`docs/language-reference.md:339-341`); neither the variable of a for-of nor that of a counted for is narrowed in the
body (`VA/narrow.rs:256-271`, `327`); the operand of a
unary minus is no sink (`VA/nullsafety.rs:162`, against `docs/language-reference.md:295`), and a written `null`
passes as the operand of a binary operator (`VA/nullsafety.rs:146`, `153`) and as a receiver (line 78, for
`VA/infer.rs:430` calls it definite); an edit between the reading of two files gives a program of
versions that never stood beside each other (`crates/arcis-linker/src/lib.rs:114`); in a manifest
that still has the template's comment `# [dependencies]` above a real `[dependencies]`, the lines for
`json(...)` are inserted below the comment (`crates/arcis-driver/src/build.rs:636`, against 625-628).

In the types: object types inside unions, function types and type arguments, in the bodies of `try`,
`switch` and arrows, in the head of a counted for, or only in return types get no struct (`collect.rs:423-485`, against 399 and 417-420), and two object
types that differ in `number` and `number[]` share a name (`crates/arcis-ast/src/lib.rs:540-551`). With a cycle of
`extends` the inherited fields depend on the order of a hash map (`collect.rs:549`). Names inside `T?` are
not replaced (`collect.rs:762`), nor aliases declared in `switch` and `try`, and `type W<T> = W<T[]>` is never
done. A function that can come back to itself may be taken for void (`VA/infer.rs:96`); one that calls a constant of
a function type is void to its callers and has the constant's type in its own declaration (`VA/infer.rs:99-103` against
169). After a block its names
keep their types in the flat scope, and an initializer without a type leaves its variable that of a name in a sibling
block (`VA/infer.rs:340-350`, against 22-23). `x ?? "a"` with `x: number?` has the
type string, a mixed array that of its first element, `x!` is still optional (`VA/infer.rs:444`, `510`). Objects,
unions and functions are compatible with everything, `let o = {p: 1}; o = "s";` is accepted
(`VA/typecheck.rs:20-28`, where it is intended); the elements of an optional array and the
bodies of arrows are not checked, and `length` and methods are typed by their names alone. All of these are in the
models and, but for methods, in the programs of `MCTyping`; `NamesAreReplaced`, `CallersAgree`, `KindsAreKept` and
`StructsAreDefined` name those that they leave out.

In the syntax: the formatter prints `x! == y` as `x!== y`, which is another program
(`crates/arcis-fmt/src/lib.rs:40` promises that the result is idempotent); `Fused` leaves it out. A comment on a
line of its own behind a statement is moved to the end of that line. The `}` of a block inside an object literal
closes the frame of the object, and `} let` stays on one line. A typed `for (let x: T of a)`
(against `docs/language-reference.md:64`), `f(x).y = 1` (`crates/arcis-parser/src/stmt.rs:49`, against line 79 there), an index
assignment in the update of a `for`, a `;` after the function of an `export default`, and `as T` before `??`, `<` or `[` are
refused. Comparisons spelled `f < g > (x)` are read as a call (`crates/arcis-parser/src/expr.rs:323-327`), which lines
127-133 of the reference announce for the call. Numbers from
2^63 on saturate when printed (`emit.rs:435`). A comment that is not terminated runs to the end of the file.

## 6. Not modelled

Of the modelled components: the values of local variables after a `longjmp` (the catch block reads
the values of the moment of `setjmp`); the element that a for-of loads, which is its index here;
the kinds of exports, which are one set of names; in `Narrowing` fields, elements of literals,
method arguments and arrows, all of which `check_null_safety` treats in its own way; in `Typing` the result
types of the runtime's own modules (`sys`, `fs`, ...); in `Syntax` positions of tree nodes, and `as T` as an operand
without brackets; in `Runtime` running out of memory, the 32-bit capacities, and an array spread into itself, which
compiled code cannot do; in `Builds` two commands at once, objects that cannot be removed, crates other than
serde, a user's own `[workspace]`, and the walk of `arcis fmt` over directories.

The components with status "not_modelled": strings, files and processes of the runtime, unused names and the json check
keep no state between calls; the expression part of the two backends and the statements of the Rust backend are
translations without control of their own, checked by Cranelift's verifier and by rustc; the language server's
store of documents has one action per notification and no promise about it is written down.

## 7. Plan

Done, in this order: try, catch and throw with its refinement and proofs; shadowing, duplicates and
the flat names with their proofs; loops with their proof; break and continue with their proof; the linker with its proof; narrowing with
its proof; builds and manifests with their proof; type names, inference and the type check; lexer, parser and formatter; arrays and
objects of the runtime with their refinement and proof.

Left, most important first:

1. *TryLocals*: SSA values of locals across `setjmp` and `longjmp`, composed with `ControlStack`; and the
   Rust backend's closure under `catch_unwind` as a second implementation of `Exceptions`.
2. *Documents* of the language server under the client's notifications.
