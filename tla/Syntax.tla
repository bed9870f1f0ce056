------------------------------- MODULE Syntax -------------------------------
(***************************************************************************)
(* One source file under `arcis fmt`, `arcis fmt --check` and the front    *)
(* half of a build (crates/arcis, -lexer, -parser, -fmt).  The file is     *)
(* written as the grammar of docs/language-reference.md spells a syntax    *)
(* tree; Spell is that grammar, with a bracket only where the precedence   *)
(* of an operand asks for one.                                             *)
(***************************************************************************)
EXTENDS Formatter, Parser

CONSTANTS Programs,   \* syntax trees: blocks of statements
          LaidOut,    \* those of them whose gaps are filled in turn
          Fillers,    \* what a gap between two tokens may hold
          Damaged     \* texts that are not a sequence of tokens

VARIABLES program,    \* what was written, or None for a damaged text
          source,     \* the file
          command,    \* the last command that ran, with its exit and, for
          exit,       \*   a build, the tree that the parser handed on
          tree

vars == <<program, source, command, exit, tree>>

-----------------------------------------------------------------------------
(* The grammar, as a printer: a sequence of lexemes for a tree.  Where the *)
(* grammar has two ways to write the same thing, `other` takes the second. *)

Lexemes(kind) ==
  <<CASE kind \in PairKinds -> PairOf(kind)
      [] kind = "..." -> <<".", ".", ".">>
      [] OTHER -> <<kind>>>>
StringLexeme(text) ==
  <<"\"">> \o FlattenSeq([n \in DOMAIN text |->
     IF text[n] \in {"\n", "\"", "\\"}
     THEN <<"\\", IF text[n] = "\n" THEN "n" ELSE text[n]>> ELSE <<text[n]>>]) \o <<"\"">>

Join(parts, sep) ==
  IF parts = <<>> THEN <<>>
  ELSE FoldLeft(LAMBDA a, b : a \o sep \o b, parts[1], Tail(parts))

\* A type reads on as far as it can, so `x as T` is bracketed as an operand.
LevelOf(op) == CHOOSE l \in DOMAIN Levels : op \in Levels[l]
Precedence(t) ==
  CASE t.op \in {"arrow", "as"} -> 0
    [] \E l \in DOMAIN Levels : t.op \in Levels[l] -> LevelOf(t.op)
    [] t.op \in {"!", "neg", "typeof"} -> Len(Levels) + 1
    [] t.op \in {"member", "index", "call", "nonnull"} -> Len(Levels) + 2
    [] OTHER -> Len(Levels) + 3
UnaryLevel == Len(Levels) + 1
PostfixLevel == Len(Levels) + 2

Inner(type) == IF type.op = "?" THEN type.kids[1] ELSE type

RECURSIVE Spell(_, _)

SpellAll(trees, other, sep) ==
  Join([n \in DOMAIN trees |-> Spell(trees[n], other)], sep)
Listed(list, other, open, close) ==
  Lexemes(open) \o SpellAll(list.kids, other, Lexemes(",")) \o Lexemes(close)
Operand(t, other, level) ==
  IF Precedence(t) < level
  THEN Lexemes("(") \o Spell(t, other) \o Lexemes(")")
  ELSE Spell(t, other)
IfAny(list, other, open, close) ==
  IF list.kids = <<>> THEN <<>> ELSE Listed(list, other, open, close)
After(kind, t, other) ==
  IF t = None THEN <<>> ELSE Lexemes(kind) \o Spell(t, other)
Braced(block, other) == Lexemes("{") \o SpellAll(block.kids, other, <<>>) \o Lexemes("}")

SpellType(t, other) ==
  LET S(i) == Spell(t.kids[i], other)
      Last2 == Len(t.kids)
  IN CASE t.op = "[]" -> S(1) \o Lexemes("[") \o Lexemes("]")
       [] t.op = "?" -> S(1) \o (IF other THEN Lexemes("|") \o Lexemes("null") ELSE Lexemes("?"))
       [] t.op = "union" ->
            (IF other THEN Lexemes("|") ELSE <<>>) \o SpellAll(t.kids, other, Lexemes("|"))
       [] t.op = "intersection" -> SpellAll(t.kids, other, Lexemes("&"))
       [] t.op = "generic" -> <<t.text>> \o Listed(t, other, "<", ">")
       [] t.op = "object type" ->
            Lexemes("{") \o SpellAll(t.kids, other, Lexemes(IF other THEN ";" ELSE ","))
            \o Lexemes("}")
       [] t.op = "field" -> <<t.text>> \o Lexemes(":") \o S(1)
       [] t.op = "field?" ->
            <<t.text>> \o Lexemes("?") \o Lexemes(":") \o Spell(Inner(t.kids[1]), other)
       [] t.op = "function type" ->
            Lexemes("(") \o Join([n \in 1 .. Last2 - 1 |-> <<<<"x">>>> \o Lexemes(":") \o S(n)],
                                 Lexemes(","))
            \o Lexemes(")") \o Lexemes("=>") \o S(Last2)

SpellExpr(t, other) ==
  LET S(i) == Spell(t.kids[i], other)
      O(i, level) == Operand(t.kids[i], other, level)
  IN CASE \E l \in DOMAIN Levels : t.op \in Levels[l] ->
            O(1, LevelOf(t.op)) \o Lexemes(t.op) \o O(2, LevelOf(t.op) + 1)
       [] t.op \in {"!", "typeof"} -> Lexemes(t.op) \o O(1, UnaryLevel)
       [] t.op = "neg" -> Lexemes("-") \o O(1, UnaryLevel)
       [] t.op = "nonnull" -> O(1, PostfixLevel) \o Lexemes("!")
       [] t.op = "as" -> O(1, PostfixLevel) \o Lexemes("as") \o S(2)
       [] t.op = "member" -> O(1, PostfixLevel) \o Lexemes(".") \o <<t.text>>
       [] t.op = "index" -> O(1, PostfixLevel) \o Lexemes("[") \o S(2) \o Lexemes("]")
       [] t.op = "call" -> O(1, PostfixLevel) \o IfAny(t.kids[3], other, "<", ">")
                           \o Listed(t.kids[2], other, "(", ")")
       [] t.op = "path" -> SpellAll(t.kids, other, Lexemes("::"))
       [] t.op = "array" -> Listed(t, other, "[", "]")
       [] t.op = "object" -> Listed(t, other, "{", "}")
       [] t.op = "spread" -> Lexemes("...") \o S(1)
       [] t.op = "kv" -> <<t.text>> \o Lexemes(":") \o S(1)
       [] t.op = "param" -> <<t.text>> \o Lexemes(":") \o S(1)
       [] t.op = "arrow" ->
            Listed(t.kids[1], other, "(", ")") \o After(":", t.kids[2], other)
            \o Lexemes("=>") \o (IF t.kids[3].op = "block" THEN Braced(t.kids[3], other)
                                ELSE IF S(3)[1] = <<"{">> THEN Lexemes("(") \o S(3) \o Lexemes(")")
                                ELSE S(3))

SpellCase(c, other) ==
  FlattenSeq([n \in DOMAIN c.kids[1].kids |->
                Lexemes("case") \o Spell(c.kids[1].kids[n], other) \o Lexemes(":")])
  \o (IF c.kids[2].kids = <<>> THEN <<>> ELSE Lexemes("default") \o Lexemes(":"))
  \o SpellAll(c.kids[3].kids, other, <<>>)

SpellControl(t, other) ==
  LET S(i) == Spell(t.kids[i], other)
      InParens(i) == Lexemes("(") \o S(i) \o Lexemes(")")
      B(i) == Braced(t.kids[i], other)
      chained == other /\ Len(t.kids[3].kids) = 1 /\ t.kids[3].kids[1].op = "if"
  IN CASE t.op = "if" ->
            Lexemes("if") \o InParens(1) \o B(2)
            \o (IF t.kids[3] = None THEN <<>>
                ELSE Lexemes("else") \o (IF chained THEN Spell(t.kids[3].kids[1], other) ELSE B(3)))
       [] t.op = "while" -> Lexemes("while") \o InParens(1) \o B(2)
       [] t.op = "for of" ->
            Lexemes("for") \o Lexemes("(") \o Lexemes("let") \o <<t.text>> \o Lexemes("of")
            \o S(1) \o Lexemes(")") \o B(2)
       [] t.op = "typed for of" ->
            Lexemes("for") \o Lexemes("(") \o Lexemes("let") \o <<t.text>> \o After(":", t.kids[1], other)
            \o Lexemes("of") \o S(2) \o Lexemes(")") \o B(3)
       [] t.op = "for" ->
            Lexemes("for") \o Lexemes("(")
            \o (IF t.kids[1] = None THEN Lexemes(";") ELSE S(1)) \o S(2) \o Lexemes(";")
            \o (IF t.kids[3] = None THEN <<>> ELSE Front(S(3))) \o Lexemes(")") \o B(4)
       [] t.op = "switch" ->
            Lexemes("switch") \o InParens(1) \o Lexemes("{")
            \o FlattenSeq([n \in DOMAIN t.kids[2].kids |-> SpellCase(t.kids[2].kids[n], other)])
            \o Lexemes("}")
       [] t.op = "try" ->
            Lexemes("try") \o B(1) \o Lexemes("catch")
            \o (IF t.kids[2] = None THEN <<>> ELSE InParens(2)) \o B(3)
       [] t.op = "function" ->
            Lexemes("function") \o (IF t.text = <<>> THEN <<>> ELSE <<t.text>>)
            \o IfAny(t.kids[1], other, "<", ">") \o Listed(t.kids[2], other, "(", ")")
            \o (IF other /\ t.kids[3].op = "void" THEN <<>> ELSE After(":", t.kids[3], other))
            \o B(4)

\* A module as a path, or as a string.
SpellSpec(path, other) ==
  IF other THEN SpellAll(path.kids, other, Lexemes("."))
  ELSE <<<<"\"", ".", "/">> \o Join([n \in DOMAIN path.kids |-> path.kids[n].text], <<"/">>)
         \o <<"\"">>>>
IsDefault(name) == name.text = <<"default">> /\ name.kids[1] # None

SpellImport(t, other) ==
  LET names == t.kids[1]
      from(spec) == Lexemes("from") \o spec
      defaulted == names.op = "list" /\ IsDefault(names.kids[1])
      rest == Node("list", Tail(names.kids))
  IN CASE t.op = "import" /\ names # None /\ ~other ->
            Lexemes("import") \o Lexemes("*") \o Lexemes("as") \o Spell(names, other)
            \o from(SpellSpec(t.kids[2], other))
       [] t.op = "import" /\ (names = None \/ other) ->
            Lexemes("import") \o SpellSpec(t.kids[2], TRUE) \o After("as", names, other)
       [] names.op = "*" -> from(SpellSpec(t.kids[2], TRUE)) \o Lexemes("import") \o Lexemes("*")
       [] other ->
            from(SpellSpec(t.kids[2], TRUE)) \o Lexemes("import")
            \o SpellAll(names.kids, other, Lexemes(","))
       [] ~defaulted ->
            Lexemes("import") \o Listed(names, other, "{", "}") \o from(SpellSpec(t.kids[2], other))
       [] OTHER ->
            Lexemes("import") \o Spell(names.kids[1].kids[1], other)
            \o (IF rest.kids = <<>> THEN <<>> ELSE Lexemes(",") \o Listed(rest, other, "{", "}"))
            \o from(SpellSpec(t.kids[2], other))

SpellSimple(t, other) ==
  LET S(i) == Spell(t.kids[i], other)
      separator == IF other THEN Lexemes(";") ELSE Lexemes(",")
  IN CASE t.op \in {"let", "const"} ->
            Lexemes(t.op) \o <<t.text>> \o After(":", t.kids[1], other) \o Lexemes("=") \o S(2)
            \o Lexemes(";")
       [] t.op = "assign" -> <<t.text>> \o Lexemes("=") \o S(1) \o Lexemes(";")
       [] t.op \in {"assign index", "assign member"} -> S(1) \o Lexemes("=") \o S(2) \o Lexemes(";")
       [] t.op = "expr" -> S(1) \o Lexemes(";")
       [] t.op \in {"return", "throw", "break", "continue"} ->
            Lexemes(t.op) \o (IF t.kids = <<>> THEN <<>> ELSE S(1)) \o Lexemes(";")
       [] t.op = "type" ->
            Lexemes("type") \o <<t.text>> \o IfAny(t.kids[1], other, "<", ">") \o Lexemes("=")
            \o S(2) \o Lexemes(";")
       [] t.op = "interface" ->
            Lexemes("interface") \o <<t.text>> \o IfAny(t.kids[1], other, "<", ">")
            \o (IF t.kids[2].kids = <<>> THEN <<>>
                ELSE Lexemes("extends") \o SpellAll(t.kids[2].kids, other, Lexemes(",")))
            \o Lexemes("{") \o SpellAll(t.kids[3].kids, other, separator)
            \o (IF other /\ t.kids[3].kids # <<>> THEN separator ELSE <<>>) \o Lexemes("}")
       [] t.op = "enum" ->
            Lexemes("enum") \o <<t.text>> \o Lexemes("{")
            \o SpellAll(t.kids[1].kids, other, Lexemes(","))
            \o (IF other /\ t.kids[1].kids # <<>> THEN Lexemes(",") ELSE <<>>) \o Lexemes("}")
       [] t.op = "variant" -> <<t.text>> \o After("=", t.kids[1], other)
       [] t.op = "name" -> <<t.text>> \o After("as", t.kids[1], other)
       [] t.op \in {"import", "from import"} -> SpellImport(t, other) \o Lexemes(";")
       [] t.op = "export default" ->
            Lexemes("export") \o Lexemes("default") \o S(1)
            \o (IF t.kids[1].op = "function" THEN <<>> ELSE Lexemes(";"))
       [] t.op = "export" ->
            Lexemes("export")
            \o (IF t.kids[1].op = "list" THEN Listed(t.kids[1], other, "{", "}") \o Lexemes(";")
                ELSE S(1))

Types == {"[]", "?", "union", "intersection", "generic", "object type", "field", "field?",
          "function type"}
Controls == {"if", "while", "for of", "typed for of", "for", "switch", "try", "function"}
Simple == {"let", "const", "assign", "assign index", "assign member", "expr", "return", "throw",
           "break", "continue", "type", "interface", "enum", "variant", "name", "import",
           "from import", "export default", "export"}

Spell(t, other) ==
  CASE t = None -> <<>>
    [] t.op \in {"ident", "bool"} -> <<t.text>>
    [] t.op = "num" -> IF t.text[1] = "-" THEN <<<<"-">>, Tail(t.text)>> ELSE <<t.text>>
    [] t.op = "str" -> <<StringLexeme(t.text)>>
    [] t.op \in {"null", "undefined", "void", "string", "number", "boolean"} ->
         Lexemes(t.op)
    [] t.op = "literal" -> Lexemes("const")
    [] t.op \in Types -> SpellType(t, other)
    [] t.op \in Controls -> SpellControl(t, other)
    [] t.op \in Simple -> SpellSimple(t, other)
    [] OTHER -> SpellExpr(t, other)

SpellProgram(block, other) == SpellAll(block.kids, other, <<>>)

\* The lexemes with a blank in every gap, and a filler in that of `gap`.
Text(lexemes, gap, filler) ==
  FlattenSeq([n \in DOMAIN lexemes |->
                lexemes[n] \o (IF n = gap THEN filler ELSE <<" ">>)])

-----------------------------------------------------------------------------
(* The commands of crates/arcis/src/main.rs on the file.                   *)

Init ==
  /\ \/ /\ program \in Programs
        /\ \E other \in BOOLEAN : source = Text(SpellProgram(program, other), 0, <<>>)
     \/ /\ program \in LaidOut
        /\ \E filler \in Fillers :
             LET lexemes == SpellProgram(program, TRUE)
             IN \E gap \in DOMAIN lexemes : source = Text(lexemes, gap, filler)
     \/ /\ program = None
        /\ source \in Damaged
  /\ command = "none"
  /\ exit = "ok"
  /\ tree = None

\* Bound: only `arcis fmt` is followed by another command.  The other two
\* leave the file as it is.
Ready == command \in {"none", "fmt"}

\* cmd_fmt: a file is written only when it changes, and `--check` fails then.
Fmt ==
  LET readable == Lex(source).ok
  IN /\ Ready
     /\ source' = IF readable THEN Format(source) ELSE source
     /\ exit' = IF readable THEN "ok" ELSE "error"
     /\ command' = "fmt"
     /\ tree' = None
     /\ UNCHANGED program

FmtCheck ==
  /\ Ready
  /\ exit' = IF Lex(source).ok /\ Format(source) = source THEN "ok" ELSE "error"
  /\ command' = "fmt --check"
  /\ tree' = None
  /\ UNCHANGED <<program, source>>

\* lex and parse, at the start of a build.
Build ==
  LET read == Lex(source)
  IN /\ Ready
     /\ tree' = IF read.ok THEN Parse(read.tokens) ELSE None
     /\ exit' = IF tree' = None THEN "error" ELSE "ok"
     /\ command' = "build"
     /\ UNCHANGED <<program, source>>

Next ==
  \/ Fmt
  \/ FmtCheck
  \/ Build
Spec == Init /\ [][Next]_vars

-----------------------------------------------------------------------------
(* Properties.                                                             *)

\* `x! == y`: the formatter prints the two operators without a blank, and
\* `!==` is read as `!=` and `=`.
Fused(block) ==
  LET lexemes == SpellProgram(block, FALSE)
  IN \E n \in 1 .. Len(lexemes) - 1 : lexemes[n] = <<"!">> /\ Head(lexemes[n + 1]) = "="

\* Whether a receiver begins with a name that `.` or `[` follows.
RECURSIVE AfterName(_)
AfterName(e) ==
  /\ e.op \in {"member", "index", "call", "nonnull"}
  /\ IF e.kids[1].op = "ident" THEN e.op \in {"member", "index"} ELSE AfterName(e.kids[1])

\* What the grammar has and the parser refuses: an assignment to a member of
\* anything else, as in `f(x).y = 1` (docs/language-reference.md:79), and a type
\* for the variable of a for-of (docs/language-reference.md:64).
RECURSIVE Refused(_)
Refused(t) ==
  \/ t.op = "typed for of"
  \/ t.op = "assign member" /\ ~AfterName(t.kids[1])
  \/ \E n \in DOMAIN t.kids : Refused(t.kids[n])

\* Lists in angle brackets that the program has between a name and a `(`, and
\* those that try_parse_call_type_args would find in its text.
RECURSIVE Written(_)
Written(t) ==
  (CASE t.op = "call" /\ t.kids[3].kids # <<>> -> 1
     [] t.op = "function" /\ t.kids[1].kids # <<>> -> 1
     [] OTHER -> 0)
  + FoldLeft(LAMBDA sum, kid : sum + Written(kid), 0, t.kids)
Found(block) ==
  LET ts == Lex(Text(SpellProgram(block, FALSE), 0, <<>>)).tokens
      names == {p \in DOMAIN ts : ts[p].kind = "ident" /\ Kind(ts, p - 1) \notin {".", "::"}}
  IN Cardinality({p \in names : TypeArgs(ts, p + 1).at # 0})

\* `f < g > (x)`, or `[f < g, h > (x)]`: comparisons and a call with type
\* arguments are spelled alike.  The parser takes the call
\* (docs/language-reference.md:127-133), so the comparisons are not read back.
TwoReadings(block) == Found(block) # Written(block)

\* The parser reads back the program that was written, as written and after
\* any number of runs of the formatter: precedence and grouping, both
\* spellings of every construct, and the rollbacks for arrows, type
\* arguments and member assignments choose the reading of the grammar.  Left
\* out are the programs that it refuses or reads in another way, named above;
\* Spell puts brackets around an operand `x as T` and no `;` behind the function
\* of an `export default`, for which the same holds.
ParsedAsWritten ==
  command = "build" /\ ~Fused(program) /\ ~Refused(program) /\ ~TwoReadings(program)
    => tree = program

\* Formatting keeps every token and every comment, in the same order: a
\* comment stays between the tokens it was written between, and no two
\* tokens that were apart become one.  A text that is not a sequence of tokens
\* stays what it is.
ItemsOf(text) ==
  LET read == Lex(text)
      items == Merge(read.tokens, read.comments)
  IN [n \in DOMAIN items |-> <<items[n].kind, items[n].text>>]
FmtKeepsItems ==
  [][~Fused(program) => ItemsOf(source') = ItemsOf(source)]_vars

\* The result of `arcis fmt` passes `arcis fmt --check`: formatting twice is
\* formatting once, wherever blank lines and comments stand.
CheckAfterFmt ==
  [][command = "fmt" /\ exit = "ok" /\ command' = "fmt --check" /\ ~Fused(program)
     => exit' = "ok"]_vars

\* A token and a comment start where their line and column say: the count
\* goes on over strings, comments of several lines and fillers.
PositionsAreRight ==
  command \in {"none", "fmt"} =>
  LET read == Lex(source)
      all == Range(read.tokens) \cup Range(read.comments)
  IN \A t \in all :
       LET ends == {n \in 1 .. t.from - 1 : source[n] = "\n"}
       IN /\ t.line = Cardinality(ends) + 1
          /\ t.col = t.from - Max(ends \cup {0})
=============================================================================
