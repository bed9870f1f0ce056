------------------------------- MODULE Builds -------------------------------
(***************************************************************************)
(* arcis-driver: what arcis build, run, check and init do to the project   *)
(* and to bin/, one call to the file system or to a compiler at a time.    *)
(*                                                                         *)
(* Any call may fail, and the command may be killed between two calls:     *)
(* Stop leaves everything as it is at that moment.  The user edits the     *)
(* project whenever they like, also while a command runs.                  *)
(*                                                                         *)
(* The linker (see Linker) reads the sources file by file, so an edit may  *)
(* fall between two of them.                                               *)
(*                                                                         *)
(* The checks of the pipeline look at what was read only; here they let it *)
(* pass, or refuse.                                                        *)
(* The C runtime is the same text every time, written and compiled before  *)
(* each link; its object is left out.                                      *)
(***************************************************************************)
EXTENDS Manifest, FiniteSets

CONSTANTS Ids,          \* modules of the directory, by module_id
          Main,         \* "main"
          Pkg,          \* the name of the directory
          Manifests,    \* the Cargo.tomls a user may write
          None,
          Folder,       \* bin/<name> is a folder
          MaxEdits,     \* bound: edits of the project
          MaxCommands   \* bound: commands started

ASSUME BuildsAssumption ==
    /\ IsFiniteSet(Ids) /\ Main \in Ids
    /\ \A text \in Manifests : text \in Seq(Lines) /\ IsManifest(text)
    /\ None # Folder
    /\ MaxEdits \in Nat /\ MaxCommands \in Nat

Verbs    == {"build", "run", "check"}
Backends == {"rust", "cranelift"}
Commands == [verb : Verbs, entry : Ids, backend : Backends]
Layouts  == {"objects", "rustc", "cargo"}

VARIABLES
    project,   \* the sources: their version, what each file imports, which call
               \* json(...); Cargo.toml
    obj,       \* bin/<id>.o
    rs,        \* bin/<id>.rs
    exe,       \* bin/<id>: a program, a folder or nothing
    toml,      \* bin/<Pkg>/Cargo.toml
    src,       \* bin/<Pkg>/src/<id>.rs
    target,    \* the program cargo left in bin/<Pkg>/target/
    pc,        \* the call the command makes next, "idle" between commands
    cmd,       \* its arguments
    taken,     \* the files the linker has read, each as it was then
    layout,    \* where the files go: "objects", "rustc" or "cargo"
    todo,      \* files still to write
    ran,       \* history: what run executed, and what it was asked to
    started    \* number of commands

pkg     == <<toml, src, target>>
bin     == <<obj, rs, exe, pkg>>
command == <<cmd, taken, layout, todo>>
vars    == <<project, bin, pc, command, ran, started>>

-----------------------------------------------------------------------------
\* What is written for a module: the version of every file it was compiled with,
\* its own and those of the modules whose declarations it was checked against,
\* and, in the root's, the modules the program consists of.
Versions == 0 .. MaxEdits + MaxCommands
Content  == [version : [Ids -> Versions], needs : SUBSET Ids]

Compiled(m) ==
    [version |-> taken.version, needs |-> IF m = cmd.entry THEN taken.needs ELSE {}]

\* A program is what it was compiled from.
Programs == UNION {[parts -> Content] : parts \in SUBSET Ids}

\* The sources as the linker has read them so far: the version of each file it
\* has read (0 of the others), those files, their imports, and whether json(...)
\* is called in one.
Snapshots == [version : [Ids -> Versions], needs : SUBSET Ids, imports : SUBSET (Ids \X Ids),
              json : BOOLEAN]

NothingRead ==
    [version |-> [m \in Ids |-> 0], needs |-> {}, imports |-> {}, json |-> FALSE]

ASSUME NoneAssumption ==
    /\ None \notin Content \cup Commands \cup Snapshots \cup Layouts
    /\ Programs \cap {None, Folder} = {}

\* What this command is asked to build.
Asked == [m \in taken.needs |-> Compiled(m)]

\* rustc reads the root and the files its mod lines name.
Readable(files, root) ==
    /\ files[root] # None
    /\ root \in files[root].needs
    /\ \A m \in files[root].needs : files[m] # None

FromRust(files, root) == [m \in files[root].needs |-> files[m]]

\* The modules a file imports, and itself; nothing if there is no such file.
Uses == [Ids -> SUBSET Ids]
Real == {uses \in Uses : \A m \in Ids : uses[m] # {} => m \in uses[m]}

Projects == [version : Versions, uses : Real, json : SUBSET Ids,
             toml : Manifests \cup {None, Template}]

Init ==
    /\ project \in [version : {0}, uses : Real, json : SUBSET Ids, toml : Manifests \cup {None}]
    /\ obj = [m \in Ids |-> None]
    /\ rs = [m \in Ids |-> None]
    /\ exe = [m \in Ids \cup {Pkg} |-> None]
    /\ toml = None /\ src = [m \in Ids |-> None] /\ target = None
    /\ pc = "idle"
    /\ cmd = None /\ taken = None /\ layout = None /\ todo = {}
    /\ ran = None
    /\ started = 0

-----------------------------------------------------------------------------
\* On to the next call, or done: what the command knew is gone with it.
Goto(label) == pc' = label /\ UNCHANGED command

Done ==
    /\ pc' = "idle"
    /\ cmd' = None /\ taken' = None /\ layout' = None /\ todo' = {}

Start(v, e, b) ==
    /\ pc = "idle" /\ started < MaxCommands
    /\ pc' = "resolve"
    /\ cmd' = [verb |-> v, entry |-> e, backend |-> b]
    /\ taken' = NothingRead
    /\ ran' = None /\ started' = started + 1
    /\ UNCHANGED <<project, bin, layout, todo>>

\* A call fails, a check refuses, or the command is killed.
Stop ==
    /\ pc # "idle"
    /\ Done
    /\ UNCHANGED <<project, bin, ran, started>>

\* The linker reads the entry, or a file that one it has read imports: each once,
\* as it is at that moment.
ReadFile(m) ==
    /\ pc = "resolve"
    /\ m \notin taken.needs
    /\ m = cmd.entry \/ \E n \in taken.needs : <<n, m>> \in taken.imports
    /\ project.uses[m] # {}
    /\ taken' = [version |-> [taken.version EXCEPT ![m] = project.version],
                 needs   |-> taken.needs \cup {m},
                 imports |-> taken.imports \cup ({m} \X (project.uses[m] \ {m})),
                 json    |-> taken.json \/ m \in project.json]
    /\ UNCHANGED <<project, bin, pc, cmd, layout, todo, ran, started>>

\* Every file imported has been read, and no imports go in a circle.
Complete ==
    /\ cmd.entry \in taken.needs
    /\ \A i \in taken.imports : i[2] \in taken.needs
    /\ \E depth \in [Ids -> 0 .. Cardinality(Ids)] :
          \A i \in taken.imports : depth[i[1]] > depth[i[2]]

\* Every check of the pipeline passes: generics and json(...) are the Rust
\* backend's only.  bin/ is created.
Accept ==
    /\ pc = "resolve"
    /\ Complete
    /\ ~ (cmd.backend = "cranelift" /\ taken.json)
    /\ pc' = IF cmd.backend = "cranelift" THEN "clean" ELSE "layout"
    /\ UNCHANGED <<project, bin, command, ran, started>>

-----------------------------------------------------------------------------
\* The compiler has succeeded: run executes the program, build is done.
Built == IF cmd.verb = "run" THEN Goto("execute") ELSE Done

\* Mutation: the objects of earlier builds stay.
CleanNothing ==
    /\ pc = "clean"
    /\ layout' = "objects" /\ todo' = taken.needs
    /\ pc' = "write"
    /\ UNCHANGED <<project, bin, cmd, taken, ran, started>>

\* Cranelift: bin/*.o is removed, and an object written for each module.
Clean ==
    /\ pc = "clean"
    /\ obj' = [m \in Ids |-> None]
    /\ layout' = "objects" /\ todo' = taken.needs
    /\ pc' = "write"
    /\ UNCHANGED <<project, rs, exe, pkg, cmd, taken, ran, started>>

\* The runtime has been compiled; cc links every object it finds in bin/.  There
\* must be one arcis_main among them.
Link ==
    LET objects == {m \in Ids : obj[m] # None}
    IN  /\ pc = "link"
        /\ exe[cmd.entry] # Folder
        /\ Cardinality({m \in objects : obj[m].needs # {}}) = 1
        /\ exe' = [exe EXCEPT ![cmd.entry] = [m \in objects |-> obj[m]]]
        /\ Built
        /\ UNCHANGED <<project, obj, rs, pkg, ran, started>>

-----------------------------------------------------------------------------
\* Rust: the layout depends on whether there is a Cargo.toml beside the entry.
ChooseRustc ==
    /\ pc = "layout" /\ project.toml = None
    /\ ~ taken.json
    /\ layout' = "rustc" /\ todo' = taken.needs
    /\ pc' = "write"
    /\ UNCHANGED <<project, bin, cmd, taken, ran, started>>

ChooseCargo ==
    /\ pc = "layout" /\ project.toml # None
    /\ layout' = "cargo"
    /\ pc' = "folder"
    /\ UNCHANGED <<project, bin, cmd, taken, todo, ran, started>>

Rustc ==
    /\ pc = "rustc"
    /\ Readable(rs, cmd.entry)
    /\ exe[cmd.entry] # Folder
    /\ exe' = [exe EXCEPT ![cmd.entry] = FromRust(rs, cmd.entry)]
    /\ Built
    /\ UNCHANGED <<project, obj, rs, pkg, ran, started>>

\* Mutation: the compiler's exit status is not looked at.
CompilerTrusted ==
    /\ pc \in {"link", "rustc"}
    /\ exe[cmd.entry] \notin {None, Folder}
    /\ Built
    /\ UNCHANGED <<project, bin, ran, started>>

\* cc or rustc fails; it may have removed the program that was there.
CompilerFails ==
    /\ pc \in {"link", "rustc"}
    /\ exe[cmd.entry] # Folder
    /\ exe' = [exe EXCEPT ![cmd.entry] = None]
    /\ Done
    /\ UNCHANGED <<project, obj, rs, pkg, ran, started>>

-----------------------------------------------------------------------------
\* A program of that name, left by an earlier build, makes way for the folder.
RemoveProgram ==
    /\ pc = "folder" /\ exe[Pkg] \notin {None, Folder}
    /\ exe' = [exe EXCEPT ![Pkg] = None]
    /\ UNCHANGED <<project, obj, rs, pkg, pc, command, ran, started>>

CreateFolder ==
    /\ pc = "folder" /\ exe[Pkg] \in {None, Folder}
    /\ exe' = [exe EXCEPT ![Pkg] = Folder]
    /\ Goto("copy")
    /\ UNCHANGED <<project, obj, rs, pkg, ran, started>>

\* Mutation: the copy an earlier build completed is kept.
CopyOnce ==
    /\ pc = "copy"
    /\ project.toml # None
    /\ toml' = IF toml = None THEN project.toml ELSE toml
    /\ Goto("manifest")
    /\ UNCHANGED <<project, obj, rs, exe, src, target, ran, started>>

\* The user's Cargo.toml replaces the copy of an earlier build.
CopyManifest ==
    /\ pc = "copy"
    /\ project.toml # None
    /\ toml' = project.toml
    /\ Goto("manifest")
    /\ UNCHANGED <<project, obj, rs, exe, src, target, ran, started>>

\* The copy is read back, completed and written again.
WriteManifest ==
    /\ pc = "manifest"
    /\ toml' = Prepared(toml, taken.json)
    /\ todo' = taken.needs
    /\ pc' = "write"
    /\ UNCHANGED <<project, obj, rs, exe, src, target, cmd, taken, layout, ran, started>>

\* cargo build and cargo run.  cargo looks for src/main.rs.
Cargo ==
    /\ pc = "cargo"
    /\ Usable(toml, taken.json)
    /\ Readable(src, Main)
    /\ target' = FromRust(src, Main)
    /\ Built
    /\ UNCHANGED <<project, obj, rs, exe, toml, src, ran, started>>

-----------------------------------------------------------------------------
\* The file of one module, in any order.
WriteFile(m) ==
    /\ pc = "write" /\ m \in todo
    /\ \/ /\ layout = "objects"
          /\ obj' = [obj EXCEPT ![m] = Compiled(m)]
          /\ UNCHANGED <<rs, src>>
       \/ /\ layout = "rustc"
          /\ rs' = [rs EXCEPT ![m] = Compiled(m)]
          /\ UNCHANGED <<obj, src>>
       \/ /\ layout = "cargo"
          /\ src' = [src EXCEPT ![m] = Compiled(m)]
          /\ UNCHANGED <<obj, rs>>
    /\ todo' = todo \ {m}
    /\ UNCHANGED <<project, exe, toml, target, pc, cmd, taken, layout, ran, started>>

Compiler == [objects |-> "link", rustc |-> "rustc", cargo |-> "cargo"]

\* Mutation: a module's file may be forgotten.
WrittenEarly ==
    /\ pc = "write"
    /\ IF cmd.verb = "check" THEN Done ELSE Goto(Compiler[layout])
    /\ UNCHANGED <<project, bin, ran, started>>

\* check is done when the files are written; the others call the compiler.
Written ==
    /\ pc = "write" /\ todo = {}
    /\ IF cmd.verb = "check" THEN Done ELSE Goto(Compiler[layout])
    /\ UNCHANGED <<project, bin, ran, started>>

\* run executes what was built just now.
Execute ==
    /\ pc = "execute"
    /\ ran' = [program |-> IF layout = "cargo" THEN target ELSE exe[cmd.entry],
               asked |-> Asked, entry |-> cmd.entry, layout |-> layout]
    /\ Done
    /\ UNCHANGED <<project, bin, started>>

-----------------------------------------------------------------------------
\* arcis init: refuses if there is a main.tsr, keeps a Cargo.toml.
StartInit ==
    /\ pc = "idle" /\ started < MaxCommands
    /\ project.uses[Main] = {}
    /\ Goto("scaffold")
    /\ ran' = None /\ started' = started + 1
    /\ UNCHANGED <<project, bin>>

InitMain ==
    /\ pc = "scaffold"
    /\ project' = [project EXCEPT !.uses[Main] = {Main}, !.version = @ + 1]
    /\ Goto("template")
    /\ UNCHANGED <<bin, ran, started>>

InitManifest ==
    /\ pc = "template"
    /\ project' = IF project.toml = None THEN [project EXCEPT !.toml = Template] ELSE project
    /\ Done
    /\ UNCHANGED <<bin, ran, started>>

-----------------------------------------------------------------------------
\* The user edits the sources, or writes or removes the Cargo.toml.
Edit ==
    /\ project.version < MaxEdits
    /\ \/ \E u \in Real, j \in SUBSET Ids :
             project' = [project EXCEPT !.version = @ + 1, !.uses = u, !.json = j]
       \/ \E text \in Manifests \cup {None} :
             project' = [project EXCEPT !.version = @ + 1, !.toml = text]
    /\ UNCHANGED <<bin, pc, command, ran, started>>

Next ==
    \/ \E v \in Verbs, e \in Ids, b \in Backends : Start(v, e, b)
    \/ Stop \/ (\E m \in Ids : ReadFile(m)) \/ Accept
    \/ Clean \/ Link
    \/ ChooseRustc \/ ChooseCargo \/ Rustc \/ CompilerFails
    \/ RemoveProgram \/ CreateFolder \/ CopyManifest \/ WriteManifest \/ Cargo
    \/ (\E m \in Ids : WriteFile(m)) \/ Written \/ Execute
    \/ StartInit \/ InitMain \/ InitManifest
    \/ Edit

Spec == Init /\ [][Next]_vars

-----------------------------------------------------------------------------
\* What is in the project and in bin/, and what a command knows of itself.  Only
\* the package's name is ever a folder, and its src/ is in that folder.
TypeOK ==
    /\ project \in Projects
    /\ obj \in [Ids -> Content \cup {None}]
    /\ rs \in [Ids -> Content \cup {None}]
    /\ exe \in [Ids \cup {Pkg} -> Programs \cup {None, Folder}]
    /\ \A n \in Ids : exe[n] = Folder => n = Pkg
    /\ src \in [Ids -> Content \cup {None}]
    /\ exe[Pkg] = Folder \/ \A m \in Ids : src[m] = None
    /\ target \in Programs \cup {None}
    /\ cmd \in Commands \cup {None}
    /\ taken \in Snapshots \cup {None}
    /\ layout \in Layouts \cup {None}
    /\ todo \subseteq Ids
    /\ ran \in [program : Programs, asked : Programs, entry : Ids, layout : Layouts]
               \cup {None}
    /\ started \in 0 .. MaxCommands

\* arcis run executes the program it was asked for, from each file as it was
\* read, whatever earlier commands, failures and edits left in bin/.  With
\* cargo, which builds src/main.rs, so it is only if the entry is main.
MainRuns ==
    /\ ran # None
    /\ ran.layout = "cargo" => ran.entry = Main
    => ran.program = ran.asked

\* A program in bin/ is one build's: its own root, that root's modules and no
\* other, all compiled from the same reading of the sources.  That reading may mix
\* versions, if the user edits a file between the reading of two; it is never
\* mixed with the reading of another command.
Whole(program, root) ==
    /\ DOMAIN program = program[root].needs
    /\ \A m \in DOMAIN program :
          /\ program[m].version = program[root].version
          /\ m # root => program[m].needs = {}

ProgramsAreWhole ==
    \A n \in Ids : exe[n] \notin {None, Folder} => n \in DOMAIN exe[n] /\ Whole(exe[n], n)

-----------------------------------------------------------------------------
(***************************************************************************)
(* Why it is so: what the compiler is about to read was written by this    *)
(* command, file by file, from what it took from the sources.              *)
(***************************************************************************)
Outside == {"idle", "scaffold", "template"}
Calling == {"link", "rustc", "cargo"}

CommandKnown ==
    /\ pc \notin Outside => cmd # None /\ taken # None
    /\ pc \in Outside \cup {"resolve"} => todo = {}
    /\ pc \notin Outside \cup {"resolve"} =>
          cmd.entry \in taken.needs /\ todo \subseteq taken.needs

LayoutKnown ==
    /\ pc \in {"write", "execute"} => layout # None
    /\ pc = "link" => layout = "objects"
    /\ pc = "rustc" => layout = "rustc"
    /\ pc \in {"folder", "copy", "manifest", "cargo"} => layout = "cargo"
    /\ pc \in {"copy", "manifest", "write"} /\ layout = "cargo" => exe[Pkg] = Folder
    /\ pc \in Calling => todo = {}

Fresh(files) == \A m \in taken.needs \ todo : files[m] = Compiled(m)

FilesAreFresh ==
    pc \in {"write"} \cup Calling =>
        /\ layout = "objects" => Fresh(obj) /\ \A m \in Ids \ taken.needs : obj[m] = None
        /\ layout = "rustc" => Fresh(rs)
        /\ layout = "cargo" => Fresh(src)

BuiltIsAsked ==
    pc = "execute" =>
        IF layout = "cargo" THEN target # None /\ (cmd.entry = Main => target = Asked)
                            ELSE exe[cmd.entry] = Asked

VersionsBounded ==
    /\ project.version + (IF pc = "scaffold" THEN 1 ELSE 0) <= MaxEdits + started
    /\ pc = "scaffold" => started > 0

\* No command reaches a compiler, or executes a program, with a file that it did
\* not write itself.
IInv ==
    /\ TypeOK
    /\ MainRuns /\ ProgramsAreWhole
    /\ CommandKnown /\ LayoutKnown /\ FilesAreFresh /\ BuiltIsAsked
    /\ VersionsBounded

\* Whatever earlier builds left there, cargo gets a manifest it can read, with
\* the dependencies of json(...) among the dependencies.
CargoCanRead ==
    pc = "cargo" => Usable(toml, taken.json)

\* The manifest is the user's, as it was when this command copied it, and it has
\* been prepared once.
UserTexts == Manifests \cup {Template}

ManifestIsUsers ==
    /\ pc = "manifest" => toml \in UserTexts
    /\ pc \in {"write", "cargo"} /\ layout = "cargo" =>
          \E text \in UserTexts : toml = Prepared(text, taken.json)
=============================================================================
