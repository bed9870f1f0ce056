------------------------------ MODULE Manifest ------------------------------
(***************************************************************************)
(* What the driver does to the text of a Cargo.toml before it hands it to  *)
(* cargo.  The text is a sequence of lines, each named for what it says;   *)
(* "#deps" is the header of the dependencies in a comment, as arcis init   *)
(* writes it.                                                              *)
(***************************************************************************)
EXTENDS Naturals, SequencesExt

Headers  == {"package", "deps", "dev", "workspace"}
JsonDeps == <<"serde", "serde_json">>
Lines    == Headers \cup {"#deps", "other"} \cup Range(JsonDeps)

\* A line of the dependency is found in any table that is not a comment.
HasActiveDep(text, dep) == dep \in Range(text)

\* find() looks for "[dependencies]" in the text, which a comment has as well.
FoundHeader(text) == SelectInSeq(text, LAMBDA line : line \in {"deps", "#deps"})

\* The line of a dependency that is not there yet.
Missing(text, dep) == IF HasActiveDep(text, dep) THEN <<>> ELSE <<dep>>

EnsureJsonDeps(text) ==
    LET needed == Missing(text, "serde") \o Missing(text, "serde_json")
        at     == FoundHeader(text)
    IN  IF needed = <<>> THEN text
        ELSE IF "deps" \in Range(text)
             THEN SubSeq(text, 1, at) \o needed \o SubSeq(text, at + 1, Len(text))
             ELSE text \o <<"deps">> \o needed

\* The dependencies for json(...), if it is called, and a workspace of its own.
Prepared(text, json) ==
    Append(IF json THEN EnsureJsonDeps(text) ELSE text, "workspace")

\* Tables named, there is nothing but comments in the template.
Template == <<"package", "#deps">>

-----------------------------------------------------------------------------
\* How cargo reads the text: a line belongs to the last header above it, and no
\* table may be opened twice.
TableOf(text, i) ==
    text[SelectLastInSeq(SubSeq(text, 1, i), LAMBDA line : line \in Headers)]

IsManifest(text) ==
    /\ text # <<>> /\ text[1] = "package"
    /\ \A i, j \in DOMAIN text : text[i] = text[j] /\ text[i] \in Headers => i = j
    /\ \A i, j \in DOMAIN text :
          text[i] \in Range(JsonDeps) /\ text[i] = text[j]
            /\ TableOf(text, i) = TableOf(text, j) => i = j

DependsOn(text, dep) ==
    \E i \in DOMAIN text : text[i] = dep /\ TableOf(text, i) = "deps"

\* Cargo can build the package, with what json(...) needs if it is called.
Usable(text, json) ==
    /\ IsManifest(text)
    /\ json => \A dep \in Range(JsonDeps) : DependsOn(text, dep)

\* What the driver takes for granted of a Cargo.toml: it is in no workspace of
\* its own, the header of its dependencies comes before any comment with that
\* header, and serde is a dependency of nothing but the program.
PlainText(text) ==
    /\ "workspace" \notin Range(text)
    /\ "deps" \in Range(text) => text[FoundHeader(text)] = "deps"
    /\ \A i \in DOMAIN text : text[i] \in Range(JsonDeps) => TableOf(text, i) = "deps"
=============================================================================
