---------------------------- MODULE BuildsProofs ----------------------------
(***************************************************************************)
(* For any modules, manifests, edits and number of commands: what a        *)
(* compiler reads was written by the command that calls it.                *)
(***************************************************************************)
EXTENDS Builds, SequenceTheorems, WellFoundedInduction, TLAPS

\* What is written for a module is of the type of files.
LEMMA CompiledType ==
    ASSUME TypeOK, taken # None, NEW m
    PROVE  /\ Compiled(m) \in Content
           /\ Compiled(m).version = taken.version
           /\ Compiled(m).needs = IF m = cmd.entry THEN taken.needs ELSE {}
BY DEF TypeOK, Snapshots, Compiled, Content

\* A program made of files is of the type of programs.
LEMMA ProgramType ==
    ASSUME NEW S \in SUBSET Ids, NEW p \in [S -> Content]
    PROVE  p \in Programs
BY DEF Programs

\* What a command is asked for is a program, and one of its own.
LEMMA AskedIsWhole ==
    ASSUME TypeOK, taken # None, cmd.entry \in taken.needs
    PROVE  /\ Asked \in Programs /\ DOMAIN Asked = taken.needs
           /\ \A m \in taken.needs : Asked[m] = Compiled(m)
           /\ Whole(Asked, cmd.entry)
<1>1. taken.needs \in SUBSET Ids
  BY DEF TypeOK, Snapshots
<1>2. Asked \in [taken.needs -> Content] /\ \A m \in taken.needs : Asked[m] = Compiled(m)
  BY CompiledType DEF Asked
<1>3. Asked \in Programs
  BY <1>1, <1>2, ProgramType
<1>4. Whole(Asked, cmd.entry)
  BY <1>2, CompiledType DEF Whole
<1> QED BY <1>2, <1>3, <1>4

\* The bounds are numbers.
LEMMA Bounds == MaxEdits \in Nat /\ MaxCommands \in Nat /\ Versions \subseteq Nat
BY BuildsAssumption DEF Versions

\* A step that ends the command and leaves the project, the files and the
\* history alone keeps the invariant, whatever becomes of the program of one
\* name, if it is nothing or as asked.
LEMMA DoneKeeps ==
    ASSUME IInv, Done, UNCHANGED <<project, bin, ran, started>>
    PROVE  IInv'
<1> USE Bounds DEF Done, IInv, bin, pkg
<1>1. TypeOK'
  BY DEF TypeOK
<1>2. MainRuns' /\ ProgramsAreWhole'
  BY DEF MainRuns, ProgramsAreWhole, Whole
<1>3. CommandKnown' /\ LayoutKnown' /\ FilesAreFresh' /\ BuiltIsAsked'
  BY DEF CommandKnown, LayoutKnown, FilesAreFresh, BuiltIsAsked, Outside, Calling
<1>4. VersionsBounded'
  BY DEF VersionsBounded, TypeOK, Projects
<1> QED BY <1>1, <1>2, <1>3, <1>4

-----------------------------------------------------------------------------
(***************************************************************************)
(* One lemma per action.                                                   *)
(***************************************************************************)
LEMMA StartKeeps ==
    ASSUME IInv, NEW v \in Verbs, NEW e \in Ids, NEW b \in Backends, Start(v, e, b)
    PROVE  IInv'
<1> USE Bounds DEF Start, IInv, bin, pkg
<1>0. NothingRead \in Snapshots
  <2>1. 0 \in Versions
    BY DEF Versions
  <2> QED BY <2>1 DEF NothingRead, Snapshots
<1>1. TypeOK'
  BY <1>0 DEF TypeOK, Commands
<1>2. MainRuns' /\ ProgramsAreWhole'
  BY NoneAssumption DEF MainRuns, ProgramsAreWhole, Whole
<1>3. CommandKnown'
  <2>1. cmd' # None /\ taken' # None
    BY <1>0, NoneAssumption DEF Commands
  <2> QED BY <2>1 DEF CommandKnown, Outside
<1>4. LayoutKnown' /\ FilesAreFresh' /\ BuiltIsAsked'
  BY DEF LayoutKnown, FilesAreFresh, BuiltIsAsked, Calling
<1>5. VersionsBounded'
  BY DEF VersionsBounded, TypeOK, Projects
<1> QED BY <1>1, <1>2, <1>3, <1>4, <1>5

LEMMA ReadFileKeeps ==
    ASSUME IInv, NEW m \in Ids, ReadFile(m)
    PROVE  IInv'
<1> USE Bounds DEF ReadFile, IInv, bin, pkg
<1>1. cmd # None /\ taken \in Snapshots
  BY DEF CommandKnown, Outside, TypeOK
<1>2. taken' \in Snapshots
  <2>1. /\ project.version \in Versions /\ project.uses[m] \in SUBSET Ids
        /\ (m \in project.json) \in BOOLEAN
    BY DEF TypeOK, Projects, Real, Uses
  <2>2. /\ [taken.version EXCEPT ![m] = project.version] \in [Ids -> Versions]
        /\ taken.needs \cup {m} \in SUBSET Ids
        /\ taken.imports \cup ({m} \X (project.uses[m] \ {m})) \in SUBSET (Ids \X Ids)
        /\ (taken.json \/ m \in project.json) \in BOOLEAN
    BY <1>1, <2>1 DEF Snapshots
  <2> QED BY <2>2 DEF Snapshots
<1>3. TypeOK'
  BY <1>2 DEF TypeOK
<1>4. MainRuns' /\ ProgramsAreWhole'
  BY DEF MainRuns, ProgramsAreWhole, Whole
<1>5. CommandKnown' /\ LayoutKnown' /\ FilesAreFresh' /\ BuiltIsAsked'
  BY <1>1, <1>2, NoneAssumption
     DEF CommandKnown, LayoutKnown, FilesAreFresh, BuiltIsAsked, Outside, Calling
<1>6. VersionsBounded'
  BY DEF VersionsBounded, TypeOK, Projects
<1> QED BY <1>3, <1>4, <1>5, <1>6

LEMMA AcceptKeeps ==
    ASSUME IInv, Accept
    PROVE  IInv'
<1> USE Bounds DEF Accept, IInv, bin, pkg, command
<1>1. cmd # None /\ taken # None /\ cmd.entry \in taken.needs
  BY DEF CommandKnown, Outside, Complete
<1>2. TypeOK'
  BY DEF TypeOK
<1>3. MainRuns' /\ ProgramsAreWhole'
  BY DEF MainRuns, ProgramsAreWhole, Whole
<1>4. CommandKnown' /\ LayoutKnown' /\ FilesAreFresh' /\ BuiltIsAsked'
  BY <1>1 DEF CommandKnown, LayoutKnown, FilesAreFresh, BuiltIsAsked, Outside, Calling
<1>5. VersionsBounded'
  BY DEF VersionsBounded, TypeOK, Projects
<1> QED BY <1>2, <1>3, <1>4, <1>5

LEMMA CleanKeeps ==
    ASSUME IInv, Clean
    PROVE  IInv'
<1> USE Bounds DEF Clean, IInv, bin, pkg
<1>1. taken # None /\ taken \in Snapshots /\ cmd.entry \in taken.needs
  BY DEF CommandKnown, Outside, TypeOK
<1>2. TypeOK'
  BY <1>1 DEF TypeOK, Snapshots, Layouts
<1>3. MainRuns' /\ ProgramsAreWhole'
  BY DEF MainRuns, ProgramsAreWhole, Whole
<1>4. CommandKnown' /\ LayoutKnown' /\ BuiltIsAsked'
  BY <1>1, NoneAssumption
     DEF CommandKnown, LayoutKnown, BuiltIsAsked, Outside, Calling, Layouts
<1>5. FilesAreFresh'
  BY <1>1 DEF FilesAreFresh, Fresh, Snapshots
<1>6. VersionsBounded'
  BY DEF VersionsBounded, TypeOK, Projects
<1> QED BY <1>2, <1>3, <1>4, <1>5, <1>6

\* Nothing but the program of one name changes, and it becomes what was asked.
LEMMA ProgramKeeps ==
    ASSUME IInv, pc \in {"link", "rustc"}, Built, exe[cmd.entry] # Folder,
           exe' = [exe EXCEPT ![cmd.entry] = Asked],
           UNCHANGED <<project, obj, rs, pkg, ran, started>>
    PROVE  IInv'
<1> USE Bounds DEF IInv, pkg
<1>1. /\ taken # None /\ cmd.entry \in taken.needs /\ taken \in Snapshots
      /\ cmd.entry \in Ids /\ layout \in {"objects", "rustc"} /\ todo = {}
  BY DEF CommandKnown, LayoutKnown, Outside, Calling, TypeOK, Snapshots
<1>2. Asked \in Programs /\ DOMAIN Asked = taken.needs /\ Whole(Asked, cmd.entry)
  BY <1>1, AskedIsWhole
<1>3. /\ exe'[cmd.entry] = Asked
      /\ \A n \in Ids : n # cmd.entry => exe'[n] = exe[n]
      /\ exe' \in [Ids \cup {Pkg} -> Programs \cup {None, Folder}]
  BY <1>1, <1>2 DEF TypeOK
<1>4. ProgramsAreWhole'
  BY <1>1, <1>2, <1>3 DEF ProgramsAreWhole, Whole
<1>5. TypeOK'
  <2>1. \/ UNCHANGED <<cmd, taken, layout, todo>>
        \/ cmd' = None /\ taken' = None /\ layout' = None /\ todo' = {}
    BY DEF Built, Goto, Done, command
  <2>2. \A n \in Ids : exe'[n] = Folder => exe[n] = Folder
    BY <1>1, <1>2, <1>3, NoneAssumption DEF TypeOK
  <2>3. exe'[Pkg] = Folder \/ exe[Pkg] # Folder
    BY <1>1, <1>3 DEF TypeOK
  <2> QED BY <1>3, <2>1, <2>2, <2>3 DEF TypeOK
<1>6. MainRuns' /\ VersionsBounded'
  BY DEF MainRuns, VersionsBounded, TypeOK, Projects, Built, Goto, Done
<1>7. CASE cmd.verb = "run"
  <2>1. pc' = "execute" /\ UNCHANGED command
    BY <1>7 DEF Built, Goto
  <2>2. Asked' = Asked
    BY <2>1 DEF command, Asked, Compiled
  <2>3. CommandKnown' /\ LayoutKnown' /\ FilesAreFresh' /\ BuiltIsAsked'
    BY <1>1, <1>3, <2>1, <2>2, NoneAssumption
       DEF CommandKnown, LayoutKnown, FilesAreFresh, BuiltIsAsked, Outside, Calling, command, Layouts
  <2> QED BY <1>4, <1>5, <1>6, <2>3
<1>8. CASE cmd.verb # "run"
  BY <1>4, <1>5, <1>6, <1>8
     DEF Built, Done, CommandKnown, LayoutKnown, FilesAreFresh, BuiltIsAsked, Outside, Calling
<1> QED BY <1>7, <1>8

LEMMA LinkKeeps ==
    ASSUME IInv, Link
    PROVE  IInv'
<1>1. /\ taken # None /\ taken \in Snapshots /\ todo = {} /\ layout = "objects"
  BY DEF IInv, Link, CommandKnown, LayoutKnown, Outside, Calling, TypeOK
<1>2. /\ \A m \in taken.needs : obj[m] = Compiled(m)
      /\ \A m \in Ids \ taken.needs : obj[m] = None
  BY <1>1 DEF IInv, Link, FilesAreFresh, Fresh, Calling
<1>3. \A m \in taken.needs : Compiled(m) # None
  BY <1>1, CompiledType, NoneAssumption DEF IInv
<1>4. {m \in Ids : obj[m] # None} = taken.needs
  BY <1>1, <1>2, <1>3 DEF Snapshots
<1>5. [m \in taken.needs |-> obj[m]] = Asked
  BY <1>2 DEF Asked
<1> QED BY <1>4, <1>5, ProgramKeeps DEF Link

LEMMA RustcKeeps ==
    ASSUME IInv, Rustc
    PROVE  IInv'
<1>1. /\ taken # None /\ taken \in Snapshots /\ todo = {} /\ layout = "rustc"
      /\ cmd.entry \in taken.needs
  BY DEF IInv, Rustc, CommandKnown, LayoutKnown, Outside, Calling, TypeOK
<1>2. \A m \in taken.needs : rs[m] = Compiled(m)
  BY <1>1 DEF IInv, Rustc, FilesAreFresh, Fresh, Calling
<1>3. rs[cmd.entry].needs = taken.needs
  BY <1>1, <1>2, CompiledType DEF IInv
<1>4. FromRust(rs, cmd.entry) = Asked
  BY <1>2, <1>3 DEF FromRust, Asked
<1> QED BY <1>4, ProgramKeeps DEF Rustc

LEMMA CompilerFailsKeeps ==
    ASSUME IInv, CompilerFails
    PROVE  IInv'
<1> USE Bounds DEF CompilerFails, IInv, pkg, Done
<1>1. cmd.entry \in Ids
  BY DEF CommandKnown, Outside, TypeOK, Snapshots
<1>2. /\ exe'[cmd.entry] = None /\ \A n \in Ids \cup {Pkg} : n # cmd.entry => exe'[n] = exe[n]
      /\ exe' \in [Ids \cup {Pkg} -> Programs \cup {None, Folder}]
  BY <1>1 DEF TypeOK
<1>3. TypeOK'
  BY <1>1, <1>2, BuildsAssumption DEF TypeOK
<1>4. MainRuns' /\ ProgramsAreWhole'
  BY <1>1, <1>2 DEF MainRuns, ProgramsAreWhole, Whole
<1>5. CommandKnown' /\ LayoutKnown' /\ FilesAreFresh' /\ BuiltIsAsked'
  BY DEF CommandKnown, LayoutKnown, FilesAreFresh, BuiltIsAsked, Outside, Calling
<1>6. VersionsBounded'
  BY DEF VersionsBounded, TypeOK, Projects
<1> QED BY <1>3, <1>4, <1>5, <1>6

LEMMA ChooseKeeps ==
    ASSUME IInv, ChooseRustc \/ ChooseCargo
    PROVE  IInv'
<1> USE Bounds DEF IInv, bin, pkg
<1>1. /\ taken # None /\ taken \in Snapshots /\ cmd.entry \in taken.needs /\ cmd # None
      /\ todo \subseteq taken.needs
  BY DEF ChooseRustc, ChooseCargo, CommandKnown, Outside, TypeOK
<1>2. /\ layout' \in Layouts /\ layout' # None /\ todo' \subseteq taken.needs
      /\ UNCHANGED <<project, obj, rs, exe, toml, src, target, cmd, taken, ran, started>>
  BY <1>1, NoneAssumption DEF ChooseRustc, ChooseCargo, Layouts
<1>3. TypeOK'
  BY <1>1, <1>2 DEF TypeOK, Snapshots
<1>4. MainRuns' /\ ProgramsAreWhole'
  BY <1>2 DEF MainRuns, ProgramsAreWhole, Whole
<1>5. CommandKnown' /\ LayoutKnown' /\ BuiltIsAsked'
  BY <1>1, <1>2
     DEF CommandKnown, LayoutKnown, BuiltIsAsked, Outside, Calling, ChooseRustc, ChooseCargo
<1>6. FilesAreFresh'
  BY <1>2 DEF FilesAreFresh, Fresh, Calling, ChooseRustc, ChooseCargo
<1>7. VersionsBounded'
  BY DEF VersionsBounded, TypeOK, Projects, ChooseRustc, ChooseCargo
<1> QED BY <1>3, <1>4, <1>5, <1>6, <1>7

LEMMA FolderKeeps ==
    ASSUME IInv, RemoveProgram \/ CreateFolder
    PROVE  IInv'
<1> USE Bounds DEF IInv, pkg
<1>1. /\ pc = "folder" /\ pc' \in {"folder", "copy"}
      /\ UNCHANGED <<project, obj, rs, toml, src, target, ran, started, cmd, taken, layout, todo>>
  BY DEF RemoveProgram, CreateFolder, Goto, command
<1>2. /\ exe'[Pkg] \in {None, Folder} /\ \A n \in Ids : n # Pkg => exe'[n] = exe[n]
      /\ exe' \in [Ids \cup {Pkg} -> Programs \cup {None, Folder}]
      /\ exe[Pkg] = Folder \/ pc' = "copy" => exe'[Pkg] = Folder
  BY DEF RemoveProgram, CreateFolder, TypeOK
<1>3. TypeOK'
  BY <1>1, <1>2 DEF TypeOK
<1>4. MainRuns' /\ ProgramsAreWhole'
  BY <1>1, <1>2 DEF MainRuns, ProgramsAreWhole, Whole
<1>5. CommandKnown' /\ LayoutKnown' /\ FilesAreFresh' /\ BuiltIsAsked'
  BY <1>1, <1>2 DEF CommandKnown, LayoutKnown, FilesAreFresh, BuiltIsAsked, Outside, Calling
<1>6. VersionsBounded'
  BY <1>1 DEF VersionsBounded, TypeOK, Projects
<1> QED BY <1>3, <1>4, <1>5, <1>6

LEMMA ManifestKeeps ==
    ASSUME IInv, CopyManifest \/ WriteManifest
    PROVE  IInv'
<1> USE Bounds DEF IInv
<1>1. /\ taken # None /\ taken \in Snapshots /\ layout = "cargo"
      /\ todo \subseteq taken.needs
  BY DEF CopyManifest, WriteManifest, CommandKnown, LayoutKnown, Outside, TypeOK
<1>2. /\ pc' \in {"manifest", "write"} /\ todo' \subseteq taken.needs
      /\ pc' = "write" => todo' = taken.needs
      /\ UNCHANGED <<project, obj, rs, exe, src, target, ran, started, cmd, taken, layout>>
  BY <1>1 DEF CopyManifest, WriteManifest, Goto, command
<1>3. TypeOK'
  BY <1>1, <1>2 DEF TypeOK, Snapshots
<1>4. MainRuns' /\ ProgramsAreWhole'
  BY <1>2 DEF MainRuns, ProgramsAreWhole, Whole
<1>5. CommandKnown' /\ LayoutKnown' /\ BuiltIsAsked'
  <2>1. pc \in {"copy", "manifest"}
    BY DEF CopyManifest, WriteManifest
  <2> QED BY <1>1, <1>2, <2>1, NoneAssumption
             DEF CommandKnown, LayoutKnown, BuiltIsAsked, Outside, Calling, Layouts
<1>6. FilesAreFresh'
  BY <1>1, <1>2 DEF FilesAreFresh, Fresh, Calling
<1>7. VersionsBounded'
  BY <1>2 DEF VersionsBounded, TypeOK, Projects, CopyManifest, WriteManifest
<1> QED BY <1>3, <1>4, <1>5, <1>6, <1>7

LEMMA CargoKeeps ==
    ASSUME IInv, Cargo
    PROVE  IInv'
<1> USE Bounds DEF IInv
<1>1. /\ taken # None /\ taken \in Snapshots /\ cmd.entry \in taken.needs
      /\ layout = "cargo" /\ todo = {}
  BY DEF Cargo, CommandKnown, LayoutKnown, Outside, Calling, TypeOK
<1>2. /\ \A m \in src[Main].needs : m \in Ids /\ src[m] \in Content
      /\ src[Main].needs \in SUBSET Ids
  <2>1. src[Main] \in Content
    BY BuildsAssumption DEF Cargo, Readable, TypeOK
  <2>2. src[Main].needs \in SUBSET Ids
    BY <2>1 DEF Content
  <2> QED BY <2>2 DEF Cargo, Readable, TypeOK
<1>3. target' \in Programs
  BY <1>2, ProgramType DEF Cargo, FromRust
<1>4. cmd.entry = Main => target' = Asked
  <2>1. ASSUME cmd.entry = Main PROVE target' = Asked
    <3>1. \A m \in taken.needs : src[m] = Compiled(m)
      BY <1>1 DEF Cargo, FilesAreFresh, Fresh, Calling
    <3>2. src[Main].needs = taken.needs
      BY <1>1, <2>1, <3>1, CompiledType
    <3> QED BY <3>1, <3>2 DEF Cargo, FromRust, Asked
  <2> QED BY <2>1
<1>5. /\ UNCHANGED <<project, obj, rs, exe, toml, src, ran, started>>
      /\ \/ pc' = "execute" /\ UNCHANGED <<cmd, taken, layout, todo>>
         \/ pc' = "idle" /\ cmd' = None /\ taken' = None /\ layout' = None /\ todo' = {}
  BY DEF Cargo, Built, Goto, Done, command
<1>6. TypeOK'
  BY <1>3, <1>5 DEF TypeOK
<1>7. MainRuns' /\ ProgramsAreWhole'
  BY <1>5 DEF MainRuns, ProgramsAreWhole, Whole
<1>8. CommandKnown' /\ LayoutKnown' /\ FilesAreFresh'
  BY <1>1, <1>5, NoneAssumption
     DEF Cargo, CommandKnown, LayoutKnown, FilesAreFresh, Outside, Calling, Layouts
<1>9. BuiltIsAsked'
  <2>1. CASE pc' = "execute"
    <3>1. Asked' = Asked
      BY <1>5, <2>1 DEF Asked, Compiled
    <3>2. target' # None
      BY <1>3, NoneAssumption
    <3> QED BY <1>1, <1>4, <1>5, <2>1, <3>1, <3>2 DEF BuiltIsAsked
  <2>2. CASE pc' # "execute"
    BY <2>2 DEF BuiltIsAsked
  <2> QED BY <2>1, <2>2
<1>10. VersionsBounded'
  BY <1>5 DEF Cargo, VersionsBounded, TypeOK, Projects
<1> QED BY <1>6, <1>7, <1>8, <1>9, <1>10

LEMMA WriteFileKeeps ==
    ASSUME IInv, NEW m \in Ids, WriteFile(m)
    PROVE  IInv'
<1> USE Bounds DEF IInv
<1>1. /\ taken # None /\ taken \in Snapshots /\ cmd.entry \in taken.needs /\ m \in taken.needs
      /\ todo \subseteq taken.needs /\ todo' = todo \ {m} /\ pc = "write"
      /\ UNCHANGED <<project, exe, toml, target, pc, cmd, taken, layout, ran, started>>
  BY DEF WriteFile, CommandKnown, Outside, TypeOK
<1>2. Compiled(m) \in Content
  BY <1>1, CompiledType
<1>3. /\ obj' \in [Ids -> Content \cup {None}] /\ rs' \in [Ids -> Content \cup {None}]
      /\ src' \in [Ids -> Content \cup {None}]
  BY <1>2 DEF WriteFile, TypeOK
<1>4. exe[Pkg] = Folder \/ UNCHANGED src
  BY DEF WriteFile, LayoutKnown
<1>5. TypeOK'
  BY <1>1, <1>3, <1>4 DEF TypeOK
<1>6. MainRuns' /\ ProgramsAreWhole'
  BY <1>1 DEF MainRuns, ProgramsAreWhole, Whole
<1>7. CommandKnown' /\ LayoutKnown' /\ BuiltIsAsked'
  BY <1>1 DEF CommandKnown, LayoutKnown, BuiltIsAsked, Outside, Calling
<1>8. \A n \in Ids : Compiled(n)' = Compiled(n)
  BY <1>1 DEF Compiled
<1>9. FilesAreFresh'
  <2>1. ASSUME layout = "objects"
        PROVE  Fresh(obj)' /\ \A n \in Ids \ taken.needs : obj'[n] = None
    BY <1>1, <1>8, <2>1 DEF WriteFile, FilesAreFresh, Fresh, TypeOK, Snapshots
  <2>2. ASSUME layout = "rustc" PROVE Fresh(rs)'
    BY <1>1, <1>8, <2>2 DEF WriteFile, FilesAreFresh, Fresh, TypeOK, Snapshots
  <2>3. ASSUME layout = "cargo" PROVE Fresh(src)'
    BY <1>1, <1>8, <2>3 DEF WriteFile, FilesAreFresh, Fresh, TypeOK, Snapshots
  <2> QED BY <1>1, <2>1, <2>2, <2>3 DEF FilesAreFresh
<1>10. VersionsBounded'
  BY <1>1 DEF VersionsBounded
<1> QED BY <1>5, <1>6, <1>7, <1>9, <1>10

LEMMA WrittenKeeps ==
    ASSUME IInv, Written
    PROVE  IInv'
<1>1. CASE cmd.verb = "check"
  BY <1>1, DoneKeeps DEF Written
<1>2. CASE cmd.verb # "check"
  <2> USE Bounds DEF IInv
  <2>1. /\ taken # None /\ cmd # None /\ cmd.entry \in taken.needs /\ layout \in Layouts
    BY DEF Written, CommandKnown, LayoutKnown, Outside, TypeOK
  <2>2. /\ pc' = Compiler[layout] /\ pc = "write" /\ todo = {}
        /\ UNCHANGED <<project, bin, ran, started, cmd, taken, layout, todo>>
    BY <1>2 DEF Written, Goto, command
  <2>3. \/ layout = "objects" /\ pc' = "link"
        \/ layout = "rustc" /\ pc' = "rustc"
        \/ layout = "cargo" /\ pc' = "cargo"
    BY <2>1, <2>2 DEF Compiler, Layouts
  <2>4. TypeOK'
    BY <2>2 DEF TypeOK, bin, pkg
  <2>5. MainRuns' /\ ProgramsAreWhole'
    BY <2>2 DEF MainRuns, ProgramsAreWhole, Whole, bin, pkg
  <2>6. CommandKnown' /\ LayoutKnown' /\ BuiltIsAsked'
    BY <2>1, <2>2, <2>3 DEF CommandKnown, LayoutKnown, BuiltIsAsked, Outside, Calling
  <2>7. FilesAreFresh'
    BY <2>2, <2>3 DEF FilesAreFresh, Fresh, Compiled, Calling, bin, pkg
  <2>8. VersionsBounded'
    BY <2>2, <2>3 DEF VersionsBounded
  <2> QED BY <2>4, <2>5, <2>6, <2>7, <2>8
<1> QED BY <1>1, <1>2

LEMMA ExecuteKeeps ==
    ASSUME IInv, Execute
    PROVE  IInv'
<1> USE Bounds DEF IInv, Done, bin, pkg
<1>1. /\ taken # None /\ taken \in Snapshots /\ cmd.entry \in taken.needs /\ layout \in Layouts
  BY DEF Execute, CommandKnown, LayoutKnown, Outside, TypeOK
<1>2. Asked \in Programs
  BY <1>1, AskedIsWhole
<1>3. ran'.program \in Programs
  BY <1>1, <1>2 DEF Execute, BuiltIsAsked, TypeOK
<1>4. TypeOK'
  BY <1>1, <1>2, <1>3 DEF Execute, TypeOK, Snapshots
<1>5. MainRuns'
  BY DEF Execute, MainRuns, BuiltIsAsked
<1>6. ProgramsAreWhole'
  BY DEF Execute, ProgramsAreWhole, Whole
<1>7. CommandKnown' /\ LayoutKnown' /\ FilesAreFresh' /\ BuiltIsAsked'
  BY DEF Execute, CommandKnown, LayoutKnown, FilesAreFresh, BuiltIsAsked, Outside, Calling
<1>8. VersionsBounded'
  BY DEF Execute, VersionsBounded, TypeOK, Projects
<1> QED BY <1>4, <1>5, <1>6, <1>7, <1>8

LEMMA InitCommandKeeps ==
    ASSUME IInv, StartInit \/ InitMain \/ InitManifest
    PROVE  IInv'
<1> USE Bounds DEF IInv, bin, pkg
<1>1. /\ \/ UNCHANGED <<cmd, taken, layout, todo>>
         \/ cmd' = None /\ taken' = None /\ layout' = None /\ todo' = {}
      /\ pc \in Outside /\ pc' \in Outside
      /\ ran' = None \/ UNCHANGED ran
      /\ UNCHANGED bin
  BY DEF StartInit, InitMain, InitManifest, Goto, Done, command, Outside
<1>2. project' \in Projects /\ started' \in 0 .. MaxCommands /\ VersionsBounded'
  <2>1. CASE StartInit
    BY <2>1 DEF StartInit, Goto, TypeOK, Projects, VersionsBounded
  <2>2. CASE InitMain
    <3>1. project.version + 1 \in Versions
      BY <2>2 DEF InitMain, VersionsBounded, TypeOK, Projects, Versions
    <3>2. [project.uses EXCEPT ![Main] = {Main}] \in Real
      BY BuildsAssumption DEF TypeOK, Projects, Real, Uses
    <3>3. project' \in Projects /\ project'.version = project.version + 1
      BY <2>2, <3>1, <3>2 DEF InitMain, TypeOK, Projects
    <3> QED BY <2>2, <3>3 DEF InitMain, Goto, TypeOK, Projects, VersionsBounded
  <2>3. CASE InitManifest
    BY <2>3 DEF InitManifest, Done, TypeOK, Projects, VersionsBounded
  <2> QED BY <2>1, <2>2, <2>3
<1>3. TypeOK'
  BY <1>1, <1>2 DEF TypeOK
<1>4. MainRuns' /\ ProgramsAreWhole'
  BY <1>1 DEF MainRuns, ProgramsAreWhole, Whole
<1>5. CommandKnown' /\ LayoutKnown' /\ FilesAreFresh' /\ BuiltIsAsked'
  BY <1>1 DEF CommandKnown, LayoutKnown, FilesAreFresh, BuiltIsAsked, Outside, Calling
<1> QED BY <1>2, <1>3, <1>4, <1>5

LEMMA EditKeeps ==
    ASSUME IInv, Edit
    PROVE  IInv'
<1> USE Bounds DEF IInv, bin, pkg
<1>1. project.version + 1 \in Versions /\ project.version + 1 <= MaxEdits
  <2>1. project.version \in Nat /\ project.version < MaxEdits
    BY DEF Edit, TypeOK, Projects
  <2> QED BY <2>1 DEF Versions
<1>2. project' \in Projects /\ project'.version = project.version + 1
  BY <1>1 DEF Edit, TypeOK, Projects
<1>3. UNCHANGED <<bin, pc, cmd, taken, layout, todo, ran, started>>
  BY DEF Edit, command
<1>4. TypeOK'
  BY <1>2, <1>3 DEF TypeOK
<1>5. MainRuns' /\ ProgramsAreWhole'
  BY <1>3 DEF MainRuns, ProgramsAreWhole, Whole
<1>6. CommandKnown' /\ LayoutKnown' /\ FilesAreFresh' /\ BuiltIsAsked'
  BY <1>3 DEF CommandKnown, LayoutKnown, FilesAreFresh, Fresh, BuiltIsAsked, Asked, Compiled,
              Outside, Calling
<1>7. VersionsBounded'
  BY <1>1, <1>2, <1>3 DEF VersionsBounded, TypeOK
<1> QED BY <1>4, <1>5, <1>6, <1>7

-----------------------------------------------------------------------------
LEMMA InitIInv ==
    ASSUME Init
    PROVE  IInv
<1> USE Bounds DEF Init
<1>1. TypeOK
  <2>1. 0 \in Versions
    BY DEF Versions
  <2>2. project \in Projects
    BY <2>1 DEF Projects
  <2>3. \A n \in Ids : exe[n] # Folder
    BY BuildsAssumption
  <2> QED BY <2>2, <2>3 DEF TypeOK
<1>2. MainRuns /\ ProgramsAreWhole
  BY DEF MainRuns, ProgramsAreWhole
<1>3. CommandKnown /\ LayoutKnown /\ FilesAreFresh /\ BuiltIsAsked
  BY DEF CommandKnown, LayoutKnown, FilesAreFresh, BuiltIsAsked, Outside, Calling
<1>4. VersionsBounded
  BY DEF VersionsBounded
<1> QED BY <1>1, <1>2, <1>3, <1>4 DEF IInv

LEMMA NextIInv ==
    ASSUME IInv, [Next]_vars
    PROVE  IInv'
<1>1. CASE \E v \in Verbs, e \in Ids, b \in Backends : Start(v, e, b)
  BY <1>1, StartKeeps
<1>2. CASE Stop
  BY <1>2, DoneKeeps DEF Stop
<1>3. CASE (\E m \in Ids : ReadFile(m)) \/ Accept
  BY <1>3, ReadFileKeeps, AcceptKeeps
<1>4. CASE Clean
  BY <1>4, CleanKeeps
<1>5. CASE Link
  BY <1>5, LinkKeeps
<1>6. CASE ChooseRustc \/ ChooseCargo
  BY <1>6, ChooseKeeps
<1>7. CASE Rustc
  BY <1>7, RustcKeeps
<1>8. CASE CompilerFails
  BY <1>8, CompilerFailsKeeps
<1>9. CASE RemoveProgram \/ CreateFolder
  BY <1>9, FolderKeeps
<1>10. CASE CopyManifest \/ WriteManifest
  BY <1>10, ManifestKeeps
<1>11. CASE Cargo
  BY <1>11, CargoKeeps
<1>12. CASE \E m \in Ids : WriteFile(m)
  BY <1>12, WriteFileKeeps
<1>13. CASE Written
  BY <1>13, WrittenKeeps
<1>14. CASE Execute
  BY <1>14, ExecuteKeeps
<1>15. CASE StartInit \/ InitMain \/ InitManifest
  BY <1>15, InitCommandKeeps
<1>16. CASE Edit
  BY <1>16, EditKeeps
<1>17. CASE UNCHANGED vars
  BY <1>17 DEF vars, bin, pkg, command, IInv, TypeOK, MainRuns, ProgramsAreWhole, Whole,
               CommandKnown, LayoutKnown, FilesAreFresh, Fresh, BuiltIsAsked, Asked, Compiled,
               VersionsBounded, Outside, Calling
<1> QED
  BY <1>1, <1>2, <1>3, <1>4, <1>5, <1>6, <1>7, <1>8, <1>9, <1>10, <1>11, <1>12, <1>13, <1>14,
     <1>15, <1>16, <1>17 DEF Next

-----------------------------------------------------------------------------
\* For any modules and manifests and any number of edits and commands: the
\* compilers read what this command wrote, whatever stopped the earlier ones.
THEOREM InductiveInvariant == Spec => []IInv
<1>1. Init => IInv
  BY InitIInv
<1>2. IInv /\ [Next]_vars => IInv'
  BY NextIInv
<1> QED BY <1>1, <1>2, PTL DEF Spec

\* Type correctness of Builds.
THEOREM TypeCorrect == Spec => []TypeOK
<1>1. IInv => TypeOK
  BY DEF IInv
<1> QED BY <1>1, InductiveInvariant, PTL

\* arcis run executes the program it was asked for, from the files as it read them,
\* or cargo was given another entry than main.tsr.
THEOREM RunsWhatWasAsked == Spec => []MainRuns
<1>1. IInv => MainRuns
  BY DEF IInv
<1> QED BY <1>1, InductiveInvariant, PTL

\* Every part of a program in bin/ was compiled from one reading of the sources,
\* its root's: no object and no module of another build gets into it.
THEOREM NoMixedPrograms == Spec => []ProgramsAreWhole
<1>1. IInv => ProgramsAreWhole
  BY DEF IInv
<1> QED BY <1>1, InductiveInvariant, PTL

-----------------------------------------------------------------------------
(***************************************************************************)
(* The text of a Cargo.toml.                                               *)
(***************************************************************************)
Deps == {"serde", "serde_json"}

LEMMA DepsFacts ==
    /\ Range(JsonDeps) = Deps /\ Deps \subseteq Lines /\ Headers \subseteq Lines
    /\ Deps \cap Headers = {} /\ Deps \cap {"#deps", "other"} = {}
BY DEF Deps, JsonDeps, Range, Lines, Headers

LEMMA RangeFacts ==
    ASSUME NEW text \in Seq(Lines), NEW line
    PROVE  line \in Range(text) <=> \E i \in 1 .. Len(text) : text[i] = line
BY DEF Range

\* The line at h is the header that line i is under.
Under(text, i, h) ==
    /\ h \in 1 .. i /\ text[h] \in Headers
    /\ \A k \in h + 1 .. i : text[k] \notin Headers

LEMMA TableIs ==
    ASSUME NEW text \in Seq(Lines), NEW i \in 1 .. Len(text), NEW h, Under(text, i, h)
    PROVE  TableOf(text, i) = text[h]
<1> DEFINE part == SubSeq(text, 1, i)
           I == {k \in 1 .. Len(part) : part[k] \in Headers}
<1>1. Len(part) = i /\ \A k \in 1 .. i : part[k] = text[k]
  OBVIOUS
<1>2. /\ TableOf(text, i) = text[IF I # {} THEN Max(I) ELSE 0]
      /\ h \in 1 .. i /\ text[h] \in Headers /\ \A k \in h + 1 .. i : text[k] \notin Headers
  BY DEF TableOf, SelectLastInSeq, Under
<1> HIDE DEF part
<1>3. h \in I /\ I \subseteq Int /\ \A k \in I : h >= k
  BY <1>1, <1>2
<1> HIDE DEF I
<1>4. Max(I) = h
  <2>1. Max(I) \in I /\ \A y \in I : Max(I) >= y
    BY <1>3 DEF Max
  <2> DEFINE m == Max(I)
  <2>2. m \in Int /\ h \in Int /\ m >= h /\ h >= m
    BY <1>3, <2>1
  <2> HIDE DEF m
  <2>3. m = h
    BY <2>2
  <2> QED BY <2>3 DEF m
<1> QED BY <1>2, <1>3, <1>4

\* Every line of a manifest is under a header: the first line is one.
LEMMA HasTable ==
    ASSUME NEW text \in Seq(Lines), text[1] \in Headers, NEW i \in 1 .. Len(text)
    PROVE  \E h \in 1 .. i : Under(text, i, h)
<1> DEFINE R == OpToRel(<, Nat)
           T == {k \in 1 .. i : text[k] \in Headers}
           U == {i - k : k \in T}
<1>1. 1 \in T /\ i \in Nat /\ U \subseteq Nat /\ U # {}
  OBVIOUS
<1>2. /\ IsWellFoundedOn(R, Nat)
      /\ \A x, y \in Nat : y < x => <<y, x>> \in R
  BY NatLessThanWellFounded DEF OpToRel
<1> HIDE DEF R
<1>3. PICK u \in U : \A v \in U : ~ (<<v, u>> \in R)
  <2> HIDE DEF U
  <2> QED BY <1>1, <1>2, WFMin
<1>4. PICK h \in T : u = i - h
  BY <1>3
<1>5. \A k \in h + 1 .. i : text[k] \notin Headers
  <2> SUFFICES ASSUME NEW k \in h + 1 .. i, text[k] \in Headers PROVE FALSE
    OBVIOUS
  <2>1. k \in T /\ i - k \in U /\ i - k \in Nat /\ i - h \in Nat /\ i - k < i - h
    OBVIOUS
  <2> QED BY <1>2, <1>3, <1>4, <2>1
<1> QED BY <1>5 DEF Under

\* A manifest whose dependencies stand in their table, each once.
Tidy(text) ==
    /\ text \in Seq(Lines) /\ text # <<>> /\ text[1] = "package"
    /\ \A i, j \in 1 .. Len(text) : text[i] = text[j] /\ text[i] \in Headers \cup Deps => i = j
    /\ \A i \in 1 .. Len(text) : text[i] \in Deps => \E h \in 1 .. i : Under(text, i, h) /\ text[h] = "deps"

LEMMA PlainIsTidy ==
    ASSUME NEW text \in Seq(Lines), IsManifest(text), PlainText(text)
    PROVE  Tidy(text)
<1>1. /\ text # <<>> /\ text[1] = "package" /\ DOMAIN text = 1 .. Len(text)
      /\ \A i, j \in 1 .. Len(text) : text[i] = text[j] /\ text[i] \in Headers => i = j
      /\ \A i, j \in 1 .. Len(text) :
            text[i] \in Deps /\ text[i] = text[j] /\ TableOf(text, i) = TableOf(text, j) => i = j
      /\ \A i \in 1 .. Len(text) : text[i] \in Deps => TableOf(text, i) = "deps"
  BY DepsFacts DEF IsManifest, PlainText
<1>2. \A i, j \in 1 .. Len(text) : text[i] = text[j] /\ text[i] \in Headers \cup Deps => i = j
  BY <1>1
<1>3. ASSUME NEW i \in 1 .. Len(text), text[i] \in Deps
      PROVE  \E h \in 1 .. i : Under(text, i, h) /\ text[h] = "deps"
  <2>1. text[1] \in Headers
    BY <1>1 DEF Headers
  <2>2. PICK h \in 1 .. i : Under(text, i, h)
    BY <2>1, HasTable
  <2> QED BY <1>1, <1>3, <2>2, TableIs
<1> QED BY <1>1, <1>2, <1>3 DEF Tidy

LEMMA TidyIsUsable ==
    ASSUME NEW text, Tidy(text)
    PROVE  /\ IsManifest(text)
           /\ \A dep \in Deps : dep \in Range(text) => DependsOn(text, dep)
<1>1. DOMAIN text = 1 .. Len(text) /\ text \in Seq(Lines)
  BY DEF Tidy
<1>2. IsManifest(text)
  BY <1>1, DepsFacts DEF Tidy, IsManifest
<1>3. ASSUME NEW dep \in Deps, dep \in Range(text)
      PROVE  DependsOn(text, dep)
  <2>1. PICK i \in 1 .. Len(text) : text[i] = dep
    BY <1>1, <1>3, RangeFacts
  <2>2. PICK h \in 1 .. i : Under(text, i, h) /\ text[h] = "deps"
    BY <1>3, <2>1 DEF Tidy
  <2>3. TableOf(text, i) = "deps"
    BY <1>1, <2>2, TableIs
  <2> QED BY <1>1, <2>1, <2>3 DEF DependsOn
<1> QED BY <1>2, <1>3

\* A header at the end.
LEMMA AppendHeader ==
    ASSUME NEW text, Tidy(text), NEW line \in Headers, line \notin Range(text)
    PROVE  LET new == Append(text, line)
           IN  /\ Tidy(new) /\ Range(new) = Range(text) \cup {line}
               /\ Len(new) = Len(text) + 1 /\ new[Len(text) + 1] = line
<1> DEFINE new == Append(text, line)
           n == Len(text)
<1>1. text \in Seq(Lines) /\ text # <<>> /\ n \in Nat /\ n >= 1 /\ line \in Lines
  BY DepsFacts DEF Tidy
<1>2. /\ new \in Seq(Lines) /\ Len(new) = n + 1 /\ new[n + 1] = line
      /\ \A k \in 1 .. n : new[k] = text[k]
      /\ \A k \in 1 .. n + 1 : k \in 1 .. n \/ k = n + 1
  BY <1>1
<1> HIDE DEF new
<1>3. \A k \in 1 .. n : text[k] # line
  BY <1>1, RangeFacts
<1>4. ASSUME NEW x PROVE x \in Range(new) <=> x \in Range(text) \cup {line}
  <2>1. x \in Range(text) <=> \E i \in 1 .. n : text[i] = x
    BY <1>1, RangeFacts
  <2>2. x \in Range(new) <=> \E i \in 1 .. n + 1 : new[i] = x
    BY <1>2, RangeFacts
  <2>3. 1 .. n \subseteq 1 .. n + 1 /\ n + 1 \in 1 .. n + 1
    BY <1>1
  <2> QED BY <1>2, <2>1, <2>2, <2>3
<1>5. \A i, j \in 1 .. n + 1 : new[i] = new[j] /\ new[i] \in Headers \cup Deps => i = j
  BY <1>2, <1>3 DEF Tidy
<1>6. ASSUME NEW i \in 1 .. n + 1, new[i] \in Deps
      PROVE  \E h \in 1 .. i : Under(new, i, h) /\ new[h] = "deps"
  <2>1. i \in 1 .. n /\ text[i] \in Deps
    BY <1>2, <1>6, DepsFacts
  <2>2. PICK h \in 1 .. i : Under(text, i, h) /\ text[h] = "deps"
    BY <2>1 DEF Tidy
  <2>3. \A k \in 1 .. i : k \in 1 .. n
    BY <1>1, <2>1
  <2>4. \A k \in h + 1 .. i : k \in 1 .. i
    BY <2>1, <2>2
  <2> QED BY <1>2, <2>2, <2>3, <2>4 DEF Under
<1>7. new # <<>> /\ new[1] = "package"
  BY <1>1, <1>2 DEF Tidy
<1>8. Tidy(new)
  BY <1>2, <1>5, <1>6, <1>7 DEF Tidy
<1>9. Range(new) = Range(text) \cup {line}
  BY <1>4
<1> QED BY <1>2, <1>8, <1>9 DEF new

\* A dependency in the line below the header.
Inserted(text, at, line) ==
    SubSeq(text, 1, at) \o <<line>> \o SubSeq(text, at + 1, Len(text))

LEMMA InsertedFacts ==
    ASSUME NEW text \in Seq(Lines), NEW at \in 1 .. Len(text), NEW line \in Lines
    PROVE  LET new == Inserted(text, at, line)
           IN  /\ new \in Seq(Lines) /\ Len(new) = Len(text) + 1
               /\ \A k \in 1 .. at : new[k] = text[k]
               /\ new[at + 1] = line
               /\ \A k \in at + 1 .. Len(text) : new[k + 1] = text[k]
<1> DEFINE a == SubSeq(text, 1, at)
           b == SubSeq(text, at + 1, Len(text))
           ab == a \o <<line>>
<1>1. /\ a \in Seq(Lines) /\ Len(a) = at /\ \A k \in 1 .. at : a[k] = text[k]
  OBVIOUS
<1>2. /\ b \in Seq(Lines) /\ Len(b) = Len(text) - at
      /\ \A k \in 1 .. Len(text) - at : b[k] = text[at + k]
  OBVIOUS
<1> HIDE DEF a, b
<1>3. /\ ab \in Seq(Lines) /\ Len(ab) = at + 1 /\ ab[at + 1] = line
      /\ \A k \in 1 .. at : ab[k] = text[k]
  BY <1>1
<1> HIDE DEF ab
<1>4. Inserted(text, at, line) = ab \o b
  BY DEF Inserted, a, b, ab
<1>5. /\ ab \o b \in Seq(Lines) /\ Len(ab \o b) = Len(text) + 1
      /\ \A k \in 1 .. at + 1 : (ab \o b)[k] = ab[k]
      /\ \A k \in 1 .. Len(text) - at : (ab \o b)[at + 1 + k] = b[k]
  <2>1. /\ Len(text) \in Nat /\ at \in Nat /\ at <= Len(text)
    OBVIOUS
  <2>2. /\ ab \o b \in Seq(Lines) /\ Len(ab \o b) = Len(ab) + Len(b)
        /\ \A k \in 1 .. Len(ab) + Len(b) :
              (ab \o b)[k] = IF k <= Len(ab) THEN ab[k] ELSE b[k - Len(ab)]
    BY <1>2, <1>3, ConcatProperties
  <2>3. ASSUME NEW k \in 1 .. Len(text) - at
        PROVE  (ab \o b)[at + 1 + k] = b[k]
    <3>1. at + 1 + k \in 1 .. Len(ab) + Len(b) /\ ~ (at + 1 + k <= Len(ab)) /\ at + 1 + k - Len(ab) = k
      BY <1>2, <1>3, <2>1
    <3> QED BY <2>2, <3>1
  <2>4. \A k \in 1 .. at + 1 : k \in 1 .. Len(ab) + Len(b) /\ k <= Len(ab)
    BY <1>2, <1>3, <2>1
  <2>5. Len(ab) + Len(b) = Len(text) + 1
    BY <1>2, <1>3, <2>1
  <2> QED BY <2>2, <2>3, <2>4, <2>5
<1>6. ASSUME NEW k \in at + 1 .. Len(text)
      PROVE  (ab \o b)[k + 1] = text[k]
  <2>1. k - at \in 1 .. Len(text) - at /\ at + 1 + (k - at) = k + 1 /\ at + (k - at) = k
    OBVIOUS
  <2>2. (ab \o b)[at + 1 + (k - at)] = b[k - at] /\ b[k - at] = text[at + (k - at)]
    BY <1>2, <1>5, <2>1
  <2> QED BY <2>1, <2>2
<1>7. \A k \in 1 .. at : k \in 1 .. at + 1
  OBVIOUS
<1> QED BY <1>3, <1>4, <1>5, <1>6, <1>7

LEMMA InsertDep ==
    ASSUME NEW text, Tidy(text), NEW at \in 1 .. Len(text), text[at] = "deps",
           NEW line \in Deps, line \notin Range(text)
    PROVE  LET new == Inserted(text, at, line)
           IN  /\ Tidy(new) /\ Range(new) = Range(text) \cup {line}
               /\ at \in 1 .. Len(new) /\ new[at] = "deps"
<1> DEFINE new == Inserted(text, at, line)
           n == Len(text)
           Old(k) == IF k <= at THEN k ELSE k - 1
<1>1. text \in Seq(Lines) /\ text # <<>> /\ n \in Nat /\ at \in Nat /\ line \in Lines
  BY DepsFacts DEF Tidy
<1>2. /\ new \in Seq(Lines) /\ Len(new) = n + 1
      /\ \A k \in 1 .. at : new[k] = text[k]
      /\ new[at + 1] = line
      /\ \A k \in at + 1 .. n : new[k + 1] = text[k]
  BY <1>1, InsertedFacts
<1> HIDE DEF new
<1>3. \A k \in 1 .. n + 1 : k # at + 1 => Old(k) \in 1 .. n /\ new[k] = text[Old(k)]
  <2> SUFFICES ASSUME NEW k \in 1 .. n + 1, k # at + 1
               PROVE  Old(k) \in 1 .. n /\ new[k] = text[Old(k)]
    OBVIOUS
  <2>1. CASE k <= at
    BY <1>1, <1>2, <2>1
  <2>2. CASE k > at
    <3>1. k - 1 \in at + 1 .. n /\ k - 1 + 1 = k
      BY <1>1, <2>2
    <3> QED BY <1>1, <1>2, <2>2, <3>1
  <2> QED BY <1>1, <2>1, <2>2
<1>4. \A k \in 1 .. n : text[k] # line
  BY <1>1, RangeFacts
<1>5. ASSUME NEW x PROVE x \in Range(new) <=> x \in Range(text) \cup {line}
  <2>1. x \in Range(text) <=> \E i \in 1 .. n : text[i] = x
    BY <1>1, RangeFacts
  <2>2. x \in Range(new) <=> \E i \in 1 .. n + 1 : new[i] = x
    BY <1>2, RangeFacts
  <2>3. \A k \in 1 .. n : \E i \in 1 .. n + 1 : new[i] = text[k]
    <3> TAKE k \in 1 .. n
    <3>1. CASE k <= at
      BY <1>1, <1>2, <3>1
    <3>2. CASE k > at
      BY <1>1, <1>2, <3>2
    <3> QED BY <1>1, <3>1, <3>2
  <2>4. at + 1 \in 1 .. n + 1
    BY <1>1
  <2> QED BY <1>2, <1>3, <2>1, <2>2, <2>3, <2>4
<1>6. ASSUME NEW i \in 1 .. n + 1, NEW j \in 1 .. n + 1, new[i] = new[j],
             new[i] \in Headers \cup Deps
      PROVE  i = j
  <2>1. CASE i = at + 1 \/ j = at + 1
    BY <1>2, <1>3, <1>4, <1>6, <2>1
  <2>2. CASE i # at + 1 /\ j # at + 1
    <3>1. Old(i) = Old(j)
      BY <1>3, <1>6, <2>2 DEF Tidy
    <3> QED BY <1>1, <2>2, <3>1
  <2> QED BY <2>1, <2>2
<1>7. ASSUME NEW i \in 1 .. n + 1, new[i] \in Deps
      PROVE  \E h \in 1 .. i : Under(new, i, h) /\ new[h] = "deps"
  <2>1. CASE i = at + 1
    <3>1. at \in 1 .. i /\ new[at] = "deps" /\ new[at] \in Headers
      BY <1>1, <1>2, <2>1 DEF Headers
    <3>2. \A k \in at + 1 .. i : new[k] \notin Headers
      BY <1>1, <1>2, <2>1, DepsFacts
    <3> QED BY <3>1, <3>2 DEF Under
  <2>2. CASE i # at + 1
    <3>1. Old(i) \in 1 .. n /\ text[Old(i)] \in Deps
      BY <1>3, <1>7, <2>2
    <3>2. PICK g \in 1 .. Old(i) : Under(text, Old(i), g) /\ text[g] = "deps"
      BY <3>1 DEF Tidy
    <3>3. g \in 1 .. n /\ g = at
      <4>1. g \in 1 .. n
        BY <1>1, <3>1, <3>2
      <4> QED BY <3>2, <4>1 DEF Tidy, Headers
    <3>4. at + 1 < i /\ Old(i) = i - 1
      <4>1. text[Old(i)] # text[at]
        BY <3>1, DepsFacts DEF Headers
      <4> QED BY <1>1, <2>2, <3>2, <3>3, <4>1
    <3>5. \A k \in at + 1 .. i : new[k] \notin Headers
      <4> TAKE k \in at + 1 .. i
      <4>1. CASE k = at + 1
        BY <1>2, <4>1, DepsFacts
      <4>2. CASE k # at + 1
        <5>1. k - 1 \in at + 1 .. Old(i) /\ k \in 1 .. n + 1 /\ Old(k) = k - 1
          BY <1>1, <3>4, <4>2
        <5> QED BY <1>3, <3>2, <3>3, <4>2, <5>1 DEF Under
      <4> QED BY <4>1, <4>2
    <3>6. at \in 1 .. i /\ new[at] = "deps" /\ new[at] \in Headers
      BY <1>1, <1>2, <3>4 DEF Headers
    <3> QED BY <3>5, <3>6 DEF Under
  <2> QED BY <2>1, <2>2
<1>8. new # <<>> /\ new[1] = "package" /\ at \in 1 .. Len(new) /\ new[at] = "deps"
  BY <1>1, <1>2 DEF Tidy
<1>9. Tidy(new)
  BY <1>2, <1>6, <1>7, <1>8 DEF Tidy
<1>10. Range(new) = Range(text) \cup {line}
  BY <1>5
<1> QED BY <1>8, <1>9, <1>10 DEF new

\* The two parts of a text.
LEMMA SplitConcat ==
    ASSUME NEW a \in Seq(Lines), NEW b \in Seq(Lines), Len(a) >= 1, Len(b) >= 1
    PROVE  /\ SubSeq(a \o b, 1, Len(a)) = a
           /\ SubSeq(a \o b, Len(a) + 1, Len(a \o b)) = b
<1>1. Len(a) \in Nat /\ Len(b) \in Nat /\ Len(a \o b) = Len(a) + Len(b)
  BY ConcatProperties
<1>2. 1 \in 1 .. Len(a) /\ Len(a) \in 1 .. Len(a)
  BY <1>1
<1>3. SubSeq(a \o b, 1, Len(a)) = a
  BY <1>2, SubSeqOfConcat1, SubSeqFull
<1>4. /\ Len(a) + 1 \in Len(a) + 1 .. Len(a) + Len(b)
      /\ Len(a) + Len(b) \in Len(a) + 1 .. Len(a) + Len(b)
      /\ Len(a) + 1 - Len(a) = 1 /\ Len(a) + Len(b) - Len(a) = Len(b)
  BY <1>1
<1>5. SubSeq(a \o b, Len(a) + 1, Len(a) + Len(b)) = SubSeq(b, 1, Len(b))
  <2>1. SubSeq(a \o b, Len(a) + 1, Len(a) + Len(b))
          = SubSeq(b, Len(a) + 1 - Len(a), Len(a) + Len(b) - Len(a))
    BY <1>4, SubSeqOfConcat2
  <2> QED BY <1>4, <2>1
<1> QED BY <1>1, <1>3, <1>5, SubSeqFull

\* Concatenation, as the provers need not look into it.
Cat(a, b) == a \o b

LEMMA CatProperties ==
    ASSUME NEW a \in Seq(Lines), NEW b \in Seq(Lines)
    PROVE  /\ Cat(a, b) \in Seq(Lines) /\ Len(Cat(a, b)) = Len(a) + Len(b)
           /\ \A i \in 1 .. Len(a) + Len(b) :
                 Cat(a, b)[i] = IF i <= Len(a) THEN a[i] ELSE b[i - Len(a)]
BY ConcatProperties DEF Cat

LEMMA Associative ==
    ASSUME NEW a \in Seq(Lines), NEW b \in Seq(Lines), NEW c \in Seq(Lines)
    PROVE  Cat(Cat(a, b), c) = Cat(a, Cat(b, c))
<1>1. Len(a) \in Nat /\ Len(b) \in Nat /\ Len(c) \in Nat
  OBVIOUS
<1>2. PICK x \in Seq(Lines) : x = Cat(a, b)
  BY CatProperties
<1>3. PICK y \in Seq(Lines) : y = Cat(b, c)
  BY CatProperties
<1>4. /\ Len(x) = Len(a) + Len(b) /\ Len(y) = Len(b) + Len(c)
      /\ \A i \in 1 .. Len(a) + Len(b) : x[i] = IF i <= Len(a) THEN a[i] ELSE b[i - Len(a)]
      /\ \A i \in 1 .. Len(b) + Len(c) : y[i] = IF i <= Len(b) THEN b[i] ELSE c[i - Len(b)]
  BY <1>2, <1>3, CatProperties
<1>5. PICK l \in Seq(Lines) : l = Cat(x, c)
  BY CatProperties
<1>6. PICK r \in Seq(Lines) : r = Cat(a, y)
  BY CatProperties
<1>7. /\ Len(l) = Len(a) + Len(b) + Len(c) /\ Len(r) = Len(a) + Len(b) + Len(c)
      /\ \A i \in 1 .. Len(x) + Len(c) : l[i] = IF i <= Len(x) THEN x[i] ELSE c[i - Len(x)]
      /\ \A i \in 1 .. Len(a) + Len(y) : r[i] = IF i <= Len(a) THEN a[i] ELSE y[i - Len(a)]
  <2>1. /\ Len(l) = Len(x) + Len(c)
        /\ \A i \in 1 .. Len(x) + Len(c) : l[i] = IF i <= Len(x) THEN x[i] ELSE c[i - Len(x)]
    BY <1>5, CatProperties
  <2>2. /\ Len(r) = Len(a) + Len(y)
        /\ \A i \in 1 .. Len(a) + Len(y) : r[i] = IF i <= Len(a) THEN a[i] ELSE y[i - Len(a)]
    BY <1>6, CatProperties
  <2>3. Len(l) = Len(a) + Len(b) + Len(c) /\ Len(r) = Len(a) + Len(b) + Len(c)
    BY <1>1, <1>4, <2>1, <2>2
  <2> QED BY <2>1, <2>2, <2>3
<1>8. ASSUME NEW i \in 1 .. Len(l) PROVE l[i] = r[i]
  <2>1. i \in 1 .. Len(x) + Len(c) /\ i \in 1 .. Len(a) + Len(y) /\ i \in Nat
    BY <1>1, <1>4, <1>7
  <2>2. CASE i <= Len(a)
    <3>1. i <= Len(x) /\ i \in 1 .. Len(a) + Len(b)
      BY <1>1, <1>4, <2>1, <2>2
    <3> QED BY <1>4, <1>7, <2>1, <2>2, <3>1
  <2>3. CASE ~ (i <= Len(a)) /\ i <= Len(x)
    <3>1. /\ i \in 1 .. Len(a) + Len(b) /\ i - Len(a) \in 1 .. Len(b) + Len(c)
          /\ i - Len(a) <= Len(b)
      BY <1>1, <1>4, <2>1, <2>3
    <3> QED BY <1>4, <1>7, <2>1, <2>3, <3>1
  <2>4. CASE ~ (i <= Len(x))
    <3>1. /\ ~ (i <= Len(a)) /\ i - Len(a) \in 1 .. Len(b) + Len(c)
          /\ ~ (i - Len(a) <= Len(b)) /\ i - Len(a) - Len(b) = i - Len(x)
      BY <1>1, <1>4, <2>1, <2>4
    <3> QED BY <1>4, <1>7, <2>1, <2>4, <3>1
  <2> QED BY <2>2, <2>3, <2>4
<1>9. l = r
  BY <1>7, <1>8, SeqEqual
<1> QED BY <1>2, <1>3, <1>5, <1>6, <1>9

\* Two lines are inserted as if one after the other.
LEMMA InsertedTwo ==
    ASSUME NEW text \in Seq(Lines), NEW at \in 1 .. Len(text), NEW x \in Lines, NEW y \in Lines
    PROVE  SubSeq(text, 1, at) \o (<<x>> \o <<y>>) \o SubSeq(text, at + 1, Len(text))
             = Inserted(Inserted(text, at, y), at, x)
<1>0. /\ SubSeq(text, 1, at) \in Seq(Lines) /\ Len(SubSeq(text, 1, at)) = at
      /\ SubSeq(text, at + 1, Len(text)) \in Seq(Lines)
      /\ <<x>> \in Seq(Lines) /\ <<y>> \in Seq(Lines) /\ Len(<<y>>) = 1 /\ at \in Nat /\ at >= 1
  OBVIOUS
<1>1. PICK a \in Seq(Lines) : a = SubSeq(text, 1, at)
  BY <1>0
<1>2. PICK b \in Seq(Lines) : b = SubSeq(text, at + 1, Len(text))
  BY <1>0
<1>3. PICK c \in Seq(Lines) : c = <<x>>
  BY <1>0
<1>4. PICK d \in Seq(Lines) : d = <<y>>
  BY <1>0
<1>5. /\ d \o b \in Seq(Lines) /\ Len(d \o b) >= 1 /\ Len(a) = at /\ Len(a) >= 1
  <2>1. Len(b) \in Nat /\ Len(d \o b) = Len(d) + Len(b) /\ d \o b \in Seq(Lines)
    BY ConcatProperties, LenProperties
  <2>2. Len(d) = 1 /\ Len(a) = at
    BY <1>0, <1>1, <1>4
  <2> QED BY <1>0, <2>1, <2>2
<1>6. Cat(Cat(a, d), b) = Cat(a, Cat(d, b))
  BY Associative
<1>7. PICK e \in Seq(Lines) : e = d \o b
  BY <1>5
<1>8. PICK u : u = a \o e
  OBVIOUS
<1>9. Inserted(text, at, y) = u
  BY <1>1, <1>2, <1>4, <1>6, <1>7, <1>8 DEF Inserted, Cat
<1>10. Inserted(u, at, x) = (SubSeq(u, 1, at) \o c) \o SubSeq(u, at + 1, Len(u))
  BY <1>3 DEF Inserted
<1>11. SubSeq(u, 1, at) = a /\ SubSeq(u, at + 1, Len(u)) = e
  <2>1. Len(e) >= 1
    BY <1>5, <1>7
  <2>2. SubSeq(a \o e, 1, Len(a)) = a /\ SubSeq(a \o e, Len(a) + 1, Len(a \o e)) = e
    BY <1>5, <2>1, SplitConcat
  <2> QED BY <1>5, <1>8, <2>2
<1>12. Cat(Cat(a, Cat(c, d)), b) = Cat(Cat(a, c), Cat(d, b))
  <2>1. Cat(a, Cat(c, d)) = Cat(Cat(a, c), d)
    BY Associative
  <2>2. Cat(a, c) \in Seq(Lines)
    BY CatProperties
  <2> QED BY <2>1, <2>2, Associative
<1>13. Cat(Cat(a, Cat(c, d)), b) = Inserted(u, at, x)
  <2>1. e = Cat(d, b) /\ Inserted(u, at, x) = Cat(Cat(a, c), e)
    BY <1>7, <1>10, <1>11 DEF Cat
  <2> QED BY <1>12, <2>1
<1> QED BY <1>1, <1>2, <1>3, <1>4, <1>9, <1>13 DEF Cat

\* Below the header, the dependencies that are missing.
LEMMA InsertMissing ==
    ASSUME NEW text, Tidy(text), NEW at \in 1 .. Len(text), text[at] = "deps",
           NEW needed, needed = Missing(text, "serde") \o Missing(text, "serde_json"),
           needed # <<>>
    PROVE  LET new == SubSeq(text, 1, at) \o needed \o SubSeq(text, at + 1, Len(text))
           IN  Tidy(new) /\ Range(new) = Range(text) \cup Deps
<1>1. text \in Seq(Lines) /\ "serde" \in Lines /\ "serde_json" \in Lines
  BY DepsFacts DEF Tidy, Deps
<1>2. \A dep : Missing(text, dep) = IF dep \in Range(text) THEN <<>> ELSE <<dep>>
  BY DEF Missing, HasActiveDep
<1>3. CASE "serde" \in Range(text) /\ "serde_json" \in Range(text)
  BY <1>2, <1>3
<1>4. CASE "serde" \notin Range(text) /\ "serde_json" \in Range(text)
  <2>1. needed = <<"serde">>
    <3>1. <<"serde">> \in Seq(Lines)
      BY <1>1
    <3> QED BY <1>2, <1>4, <3>1, ConcatEmptySeq
  <2>2. SubSeq(text, 1, at) \o needed \o SubSeq(text, at + 1, Len(text)) = Inserted(text, at, "serde")
    BY <2>1 DEF Inserted
  <2>3. LET new == Inserted(text, at, "serde")
        IN  Tidy(new) /\ Range(new) = Range(text) \cup {"serde"}
    BY <1>4, InsertDep DEF Deps
  <2> QED BY <1>4, <2>2, <2>3 DEF Deps
<1>5. CASE "serde" \in Range(text) /\ "serde_json" \notin Range(text)
  <2>1. needed = <<"serde_json">>
    <3>1. <<"serde_json">> \in Seq(Lines)
      BY <1>1
    <3> QED BY <1>2, <1>5, <3>1, ConcatEmptySeq
  <2>2. SubSeq(text, 1, at) \o needed \o SubSeq(text, at + 1, Len(text))
          = Inserted(text, at, "serde_json")
    BY <2>1 DEF Inserted
  <2>3. LET new == Inserted(text, at, "serde_json")
        IN  Tidy(new) /\ Range(new) = Range(text) \cup {"serde_json"}
    BY <1>5, InsertDep DEF Deps
  <2> QED BY <1>5, <2>2, <2>3 DEF Deps
<1>6. CASE "serde" \notin Range(text) /\ "serde_json" \notin Range(text)
  <2> DEFINE one == Inserted(text, at, "serde_json")
             two == Inserted(one, at, "serde")
  <2>1. needed = <<"serde">> \o <<"serde_json">>
    BY <1>2, <1>6
  <2>2. SubSeq(text, 1, at) \o needed \o SubSeq(text, at + 1, Len(text)) = two
    BY <1>1, <2>1, InsertedTwo
  <2>3. /\ Tidy(one) /\ Range(one) = Range(text) \cup {"serde_json"}
        /\ at \in 1 .. Len(one) /\ one[at] = "deps"
    BY <1>6, InsertDep DEF Deps
  <2> HIDE DEF one
  <2>4. Tidy(two) /\ Range(two) = Range(one) \cup {"serde"}
    BY <1>6, <2>3, InsertDep DEF Deps
  <2> HIDE DEF two
  <2> QED BY <2>2, <2>3, <2>4 DEF Deps
<1> QED BY <1>3, <1>4, <1>5, <1>6

\* find() finds a header if there is one.
LEMMA HeaderFound ==
    ASSUME NEW text \in Seq(Lines), "deps" \in Range(text)
    PROVE  FoundHeader(text) \in 1 .. Len(text)
<1> DEFINE R == OpToRel(<, Nat)
           I == {i \in 1 .. Len(text) : text[i] \in {"deps", "#deps"}}
<1>1. FoundHeader(text) = IF I # {} THEN Min(I) ELSE 0
  BY DEF FoundHeader, SelectInSeq
<1>2. I # {} /\ I \subseteq 1 .. Len(text) /\ I \subseteq Nat
  BY RangeFacts
<1>3. /\ IsWellFoundedOn(R, Nat)
      /\ \A x, y \in Nat : y < x => <<y, x>> \in R
  BY NatLessThanWellFounded DEF OpToRel
<1> HIDE DEF R, I
<1>4. PICK u \in I : \A v \in I : ~ (<<v, u>> \in R)
  BY <1>2, <1>3, WFMin
<1>5. \A v \in I : u <= v
  <2> TAKE v \in I
  <2>1. u \in Nat /\ v \in Nat /\ ~ (v < u)
    BY <1>2, <1>3, <1>4
  <2> QED BY <2>1
<1>6. Min(I) \in I
  BY <1>5 DEF Min
<1> QED BY <1>1, <1>2, <1>6

LEMMA MissingType ==
    ASSUME NEW text
    PROVE  /\ <<"serde">> # <<>> /\ <<"serde_json">> # <<>>
           /\ Missing(text, "serde") \in Seq(Lines) /\ Missing(text, "serde_json") \in Seq(Lines)
<1>1. "serde" \in Lines /\ "serde_json" \in Lines
  BY DepsFacts DEF Deps
<1>2. /\ <<>> \in Seq(Lines) /\ <<"serde">> \in Seq(Lines) /\ <<"serde_json">> \in Seq(Lines)
      /\ <<"serde">> # <<>> /\ <<"serde_json">> # <<>>
  BY <1>1
<1>3. \A dep : Missing(text, dep) = <<>> \/ Missing(text, dep) = <<dep>>
  BY DEF Missing
<1> QED BY <1>2, <1>3

\* ensure_json_deps puts the dependencies where cargo looks for them, in the
\* texts it takes for granted.
LEMMA EnsureIsTidy ==
    ASSUME NEW text, Tidy(text), PlainText(text)
    PROVE  LET new == EnsureJsonDeps(text)
           IN  Tidy(new) /\ Deps \subseteq Range(new) /\ "workspace" \notin Range(new)
<1> DEFINE needed == Missing(text, "serde") \o Missing(text, "serde_json")
           at == FoundHeader(text)
<1>1. text \in Seq(Lines) /\ "workspace" \notin Range(text) /\ "workspace" \notin Deps
  BY DEF Tidy, PlainText, Deps
<1>2. EnsureJsonDeps(text) =
        IF needed = <<>> THEN text
        ELSE IF "deps" \in Range(text)
             THEN SubSeq(text, 1, at) \o needed \o SubSeq(text, at + 1, Len(text))
             ELSE text \o <<"deps">> \o needed
  BY DEF EnsureJsonDeps
<1>3. \A dep : Missing(text, dep) = IF dep \in Range(text) THEN <<>> ELSE <<dep>>
  BY DEF Missing, HasActiveDep
<1>4. CASE needed = <<>>
  <2>1. "serde" \in Range(text) /\ "serde_json" \in Range(text)
    <3>1. /\ <<"serde">> # <<>> /\ <<"serde_json">> # <<>>
          /\ Missing(text, "serde") \in Seq(Lines) /\ Missing(text, "serde_json") \in Seq(Lines)
      BY MissingType
    <3>2. Missing(text, "serde") = <<>> /\ Missing(text, "serde_json") = <<>>
      BY <1>4, <3>1, ConcatEqualIffEmpty
    <3> QED BY <1>3, <3>1, <3>2
  <2> QED BY <1>1, <1>2, <1>4, <2>1 DEF Deps
<1>5. CASE needed # <<>> /\ "deps" \in Range(text)
  <2>1. at \in 1 .. Len(text) /\ text[at] = "deps"
    BY <1>1, <1>5, HeaderFound DEF PlainText
  <2> HIDE DEF needed, at
  <2> DEFINE new == SubSeq(text, 1, at) \o needed \o SubSeq(text, at + 1, Len(text))
  <2>2. Tidy(new) /\ Range(new) = Range(text) \cup Deps
    BY <1>5, <2>1, InsertMissing DEF needed
  <2>3. EnsureJsonDeps(text) = new
    BY <1>2, <1>5
  <2> HIDE DEF new
  <2> QED BY <1>1, <2>2, <2>3
<1>6. CASE needed # <<>> /\ "deps" \notin Range(text)
  <2> DEFINE head == Append(text, "deps")
             n == Len(head)
             new == SubSeq(head, 1, n) \o needed \o SubSeq(head, n + 1, n)
  <2>1. /\ Tidy(head) /\ Range(head) = Range(text) \cup {"deps"} /\ n = Len(text) + 1
        /\ head[n] = "deps" /\ head \in Seq(Lines)
    BY <1>6, AppendHeader DEF Headers, Tidy
  <2>2. head = text \o <<"deps">>
    BY <1>1, DepsFacts, AppendIsConcat DEF Headers
  <2>3. needed = Missing(head, "serde") \o Missing(head, "serde_json")
    BY <2>1 DEF Missing, HasActiveDep
  <2>4. needed \in Seq(Lines)
    <3>1. Missing(text, "serde") \in Seq(Lines) /\ Missing(text, "serde_json") \in Seq(Lines)
      BY MissingType
    <3> QED BY <3>1, ConcatProperties
  <2>5. n \in 1 .. n /\ n \in Nat
    BY <1>1, <2>1
  <2> HIDE DEF head, needed
  <2>6. Tidy(new) /\ Range(new) = Range(head) \cup Deps
    BY <1>6, <2>1, <2>3, <2>5, InsertMissing
  <2>7. new = head \o needed
    <3>1. SubSeq(head, 1, n) = head /\ SubSeq(head, n + 1, n) = <<>>
      BY <2>1, <2>5, SubSeqFull, SubSeqEmpty
    <3>2. head \o needed \in Seq(Lines)
      BY <2>1, <2>4, ConcatProperties
    <3> QED BY <3>1, <3>2, ConcatEmptySeq
  <2>8. EnsureJsonDeps(text) = head \o needed
    BY <1>2, <1>6, <2>2
  <2> HIDE DEF new
  <2> QED BY <1>1, <2>1, <2>6, <2>7, <2>8
<1> QED BY <1>4, <1>5, <1>6

\* What the driver makes of a manifest that it takes for granted is one that
\* cargo can build with.
LEMMA PreparedIsUsable ==
    ASSUME NEW text \in Seq(Lines), IsManifest(text), PlainText(text), NEW json \in BOOLEAN
    PROVE  Usable(Prepared(text, json), json)
<1> DEFINE full == IF json THEN EnsureJsonDeps(text) ELSE text
<1>1. Tidy(text) /\ "workspace" \notin Range(text)
  BY PlainIsTidy DEF PlainText
<1>2. Tidy(full) /\ "workspace" \notin Range(full) /\ (json => Deps \subseteq Range(full))
  BY <1>1, EnsureIsTidy
<1>3. Prepared(text, json) = Append(full, "workspace")
  BY DEF Prepared
<1> HIDE DEF full
<1>4. /\ Tidy(Append(full, "workspace"))
      /\ Range(Append(full, "workspace")) = Range(full) \cup {"workspace"}
  BY <1>2, AppendHeader DEF Headers
<1> QED BY <1>2, <1>3, <1>4, TidyIsUsable, DepsFacts DEF Usable

-----------------------------------------------------------------------------
\* What arcis init writes may be given to cargo as it is.
LEMMA TemplateIsPlain == Template \in Seq(Lines) /\ IsManifest(Template) /\ PlainText(Template)
<1>1. /\ Template \in Seq(Lines) /\ DOMAIN Template = {1, 2} /\ Template # <<>>
      /\ Template[1] = "package" /\ Template[2] = "#deps"
  <2>1. "package" \in Lines /\ "#deps" \in Lines
    BY DepsFacts DEF Headers, Lines
  <2> QED BY <2>1 DEF Template
<1> HIDE DEF Template
<1>2. IsManifest(Template)
  BY <1>1, DepsFacts DEF IsManifest, Headers, Deps
<1>3. PlainText(Template)
  BY <1>1, DepsFacts DEF PlainText, Deps, Range
<1> QED BY <1>1, <1>2, <1>3

LEMMA ManifestNext ==
    ASSUME ManifestIsUsers, IInv, [Next]_vars
    PROVE  ManifestIsUsers'
<1>1. CASE CopyManifest
  BY <1>1 DEF CopyManifest, Goto, ManifestIsUsers, UserTexts, IInv, TypeOK, Projects
<1>2. CASE WriteManifest
  BY <1>2 DEF WriteManifest, ManifestIsUsers
<1>3. CASE Written
  <2>1. layout \in Layouts /\ pc = "write"
    BY <1>3 DEF Written, IInv, TypeOK, LayoutKnown
  <2>2. Compiler[layout] \in Calling
    BY <2>1 DEF Layouts, Compiler, Calling
  <2>3. \/ pc' = "idle"
        \/ pc' = Compiler[layout] /\ UNCHANGED <<toml, taken, layout>>
    BY <1>3 DEF Written, Done, Goto, command, bin, pkg
  <2> QED BY <2>1, <2>2, <2>3 DEF ManifestIsUsers, Calling
<1>4. CASE pc' \notin {"manifest", "write", "cargo"}
  BY <1>4 DEF ManifestIsUsers
<1>5. CASE \E m \in Ids : WriteFile(m)
  BY <1>5 DEF WriteFile, ManifestIsUsers
<1>6. CASE Clean \/ ChooseRustc
  BY <1>6 DEF Clean, ChooseRustc, ManifestIsUsers
<1>7. CASE Edit \/ UNCHANGED vars
  BY <1>7 DEF Edit, vars, bin, pkg, command, ManifestIsUsers
<1>8. CASE (\E v \in Verbs, e \in Ids, b \in Backends : Start(v, e, b)) \/ Stop
           \/ (\E m \in Ids : ReadFile(m)) \/ Accept \/ Link
           \/ ChooseCargo \/ Rustc \/ CompilerFails \/ RemoveProgram \/ CreateFolder \/ Cargo
           \/ Execute \/ StartInit \/ InitMain \/ InitManifest
  <2>1. pc' \notin {"manifest", "write", "cargo"}
    BY <1>8 DEF Start, Stop, ReadFile, Accept, Link, ChooseCargo, Rustc, CompilerFails, RemoveProgram,
                CreateFolder, Cargo, Execute, StartInit, InitMain, InitManifest, Done, Goto, Built
  <2> QED BY <1>4, <2>1
<1> QED BY <1>1, <1>2, <1>3, <1>5, <1>6, <1>7, <1>8 DEF Next

\* Whatever earlier commands left in bin/, and whatever the user edits in the
\* meantime, cargo is given the user's manifest as this command copied it,
\* completed once (prepare_cargo of build.rs).
THEOREM ManifestPreparedOnce == Spec => []ManifestIsUsers
<1>1. Init => ManifestIsUsers
  BY DEF Init, ManifestIsUsers
<1>2. ManifestIsUsers /\ IInv /\ [Next]_vars => ManifestIsUsers'
  BY ManifestNext
<1> QED BY <1>1, <1>2, InductiveInvariant, PTL DEF Spec

\* If every manifest of the user's is of the kind the driver takes for granted,
\* cargo can read what it is given, with the dependencies of json(...).
THEOREM CargoReads ==
    ASSUME \A text \in Manifests : PlainText(text) PROVE Spec => []CargoCanRead
<1>1. ManifestIsUsers /\ IInv => CargoCanRead
  <2> SUFFICES ASSUME ManifestIsUsers, IInv, pc = "cargo" PROVE Usable(toml, taken.json)
    BY DEF CargoCanRead
  <2>1. layout = "cargo" /\ taken \in Snapshots
    BY DEF IInv, LayoutKnown, CommandKnown, Outside, TypeOK
  <2>2. PICK text \in UserTexts : toml = Prepared(text, taken.json)
    BY <2>1 DEF ManifestIsUsers
  <2>3. text \in Seq(Lines) /\ IsManifest(text) /\ PlainText(text)
    BY BuildsAssumption, TemplateIsPlain DEF UserTexts
  <2>4. taken.json \in BOOLEAN
    BY <2>1 DEF Snapshots
  <2> QED BY <2>2, <2>3, <2>4, PreparedIsUsable
<1> QED BY <1>1, ManifestPreparedOnce, InductiveInvariant, PTL
=============================================================================
