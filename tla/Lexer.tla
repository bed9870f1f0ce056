------------------------------- MODULE Lexer -------------------------------
(***************************************************************************)
(* The lexer (crates/arcis-lexer) as a function from a source text to its  *)
(* tokens and comments.  A text is a sequence of characters, where a       *)
(* keyword and each word of Words count as one character that may be part  *)
(* of an identifier: two of them without anything in between are one       *)
(* longer identifier, as letters are.                                      *)
(***************************************************************************)
EXTENDS Naturals, Sequences, SequencesExt

CONSTANT Words        \* identifiers of one character

Keywords == {"let", "const", "function", "return", "if", "else", "while", "for",
  "of", "break", "continue", "switch", "case", "try", "catch", "throw", "import",
  "export", "from", "default", "as", "typeof", "string", "number", "boolean",
  "void", "any", "type", "interface", "enum", "extends", "null", "undefined"}
Booleans == {"true", "false"}
Letters == Keywords \cup Booleans \cup Words
Digits == {"0", "1"}
Blanks == {" ", "\t", "\r", "\n"}
Singles == {"+", "-", "*", "/", "%", "(", ")", "{", "}", "[", "]", ";", ",", ":",
  ".", "?", "=", "!", "<", ">", "&", "|"}
Pairs == <<":", ":">> :> "::" @@ <<"?", "?">> :> "??" @@ <<"=", "=">> :> "==" @@
  <<"=", ">">> :> "=>" @@ <<"!", "=">> :> "!=" @@ <<"<", "=">> :> "<=" @@
  <<">", "=">> :> ">=" @@ <<"&", "&">> :> "&&" @@ <<"|", "|">> :> "||"
PairKinds == {Pairs[p] : p \in DOMAIN Pairs}
Escapes == "n" :> "\n" @@ "t" :> "\t" @@ "r" :> "\r" @@ "\\" :> "\\" @@ "\"" :> "\""

-----------------------------------------------------------------------------
(* The cursor.  A position is what advance has counted so far.             *)

Char(s, i) == IF i \in 1 .. Len(s) THEN s[i] ELSE "end of input"

\* Mutation: a new line does not start at column one again.
AdvanceWrong(at, c) ==
  IF c = "\n" THEN [at EXCEPT !.line = @ + 1] ELSE [at EXCEPT !.col = @ + 1]
Advance(at, c) ==
  IF c = "\n" THEN [line |-> at.line + 1, col |-> 1] ELSE [at EXCEPT !.col = @ + 1]

Walk(at, s, i, j) == FoldLeft(Advance, at, SubSeq(s, i, j - 1))

RECURSIVE RunEnd(_, _, _)
RunEnd(s, i, Class) == IF Char(s, i) \in Class THEN RunEnd(s, i + 1, Class) ELSE i

-----------------------------------------------------------------------------
(* The readers.  Each gives the kind and the value of the token that       *)
(* starts at i, and where it ends; end = 0 says that there is none.        *)

Read(kind, text, end) == [kind |-> kind, text |-> text, end |-> end]
NoToken == Read("error", <<>>, 0)

Ident(s, i) ==
  LET j == RunEnd(s, i, Letters \cup Digits)
      word == SubSeq(s, i, j - 1)
  IN IF Len(word) = 1 /\ word[1] \in Keywords THEN Read(word[1], <<>>, j)
     ELSE IF Len(word) = 1 /\ word[1] \in Booleans THEN Read("bool", word, j)
     ELSE Read("ident", word, j)

\* The value of a number, written with no digit that does not count.
RECURSIVE DropZeros(_)
DropZeros(ds) == IF Len(ds) > 0 /\ ds[1] = "0" THEN DropZeros(Tail(ds)) ELSE ds
Value(whole, part) ==
  LET w == DropZeros(whole)
      p == Reverse(DropZeros(Reverse(part)))
  IN (IF w = <<>> THEN <<"0">> ELSE w) \o (IF p = <<>> THEN <<>> ELSE <<".">> \o p)

Number(s, i) ==
  LET j == RunEnd(s, i, Digits)
      fraction == Char(s, j) = "." /\ Char(s, j + 1) \in Digits
      k == IF fraction THEN RunEnd(s, j + 1, Digits) ELSE j
  IN Read("num", Value(SubSeq(s, i, j - 1), SubSeq(s, j + 1, k - 1)), k)

RECURSIVE String(_, _, _)
String(s, i, read) ==
  CASE Char(s, i) = "end of input" -> NoToken
    [] Char(s, i) = "\"" -> Read("str", read, i + 1)
    [] Char(s, i) = "\\" ->
         IF Char(s, i + 1) \in DOMAIN Escapes
         THEN String(s, i + 2, Append(read, Escapes[s[i + 1]]))
         ELSE NoToken
    [] OTHER -> String(s, i + 1, Append(read, s[i]))

Punct(s, i) ==
  CASE <<s[i], Char(s, i + 1), Char(s, i + 2)>> = <<".", ".", ".">> -> Read("...", <<>>, i + 3)
    [] <<s[i], Char(s, i + 1)>> \in DOMAIN Pairs ->
         Read(Pairs[<<s[i], s[i + 1]>>], <<>>, i + 2)
    [] s[i] \in Singles -> Read(s[i], <<>>, i + 1)
    [] OTHER -> NoToken

Token(s, i) ==
  CASE s[i] \in Letters -> Ident(s, i)
    [] s[i] \in Digits -> Number(s, i)
    [] s[i] = "\"" -> String(s, i + 1, <<>>)
    [] OTHER -> Punct(s, i)

RECURSIVE BlockCommentEnd(_, _)
BlockCommentEnd(s, i) ==
  CASE Char(s, i) = "end of input" -> i
    [] s[i] = "*" /\ Char(s, i + 1) = "/" -> i + 2
    [] OTHER -> BlockCommentEnd(s, i + 1)

RECURSIVE LineEnd(_, _)
LineEnd(s, i) == IF Char(s, i) \in {"\n", "end of input"} THEN i ELSE LineEnd(s, i + 1)

-----------------------------------------------------------------------------
(* lex_with_comments.  A token keeps its lexeme by its place in the source. *)

Lexeme(s, i, j, at) == [from |-> i, to |-> j - 1, line |-> at.line, col |-> at.col]

RECURSIVE LexFrom(_, _, _, _, _)
LexFrom(s, i, at, toks, comments) ==
  LET CommentTo(j, block) ==
        LexFrom(s, j, Walk(at, s, i, j), toks,
                Append(comments, Lexeme(s, i, j, at) @@
                  [block |-> block, text |-> SubSeq(s, i, j - 1),
                   endLine |-> Walk(at, s, i, j).line]))
      t == Token(s, i)
  IN CASE i > Len(s) ->
            [ok |-> TRUE, comments |-> comments,
             tokens |-> Append(toks, Lexeme(s, i, i, at) @@ [kind |-> "eof", text |-> <<>>])]
       [] i <= Len(s) /\ Char(s, i) \in Blanks ->
            LexFrom(s, i + 1, Advance(at, s[i]), toks, comments)
       [] Char(s, i) = "/" /\ Char(s, i + 1) = "/" -> CommentTo(LineEnd(s, i), FALSE)
       [] Char(s, i) = "/" /\ Char(s, i + 1) = "*" -> CommentTo(BlockCommentEnd(s, i + 2), TRUE)
       [] OTHER ->
            IF t.end = 0 THEN [ok |-> FALSE, comments |-> comments, tokens |-> toks]
            ELSE LexFrom(s, t.end, Walk(at, s, i, t.end),
                         Append(toks, Lexeme(s, i, t.end, at) @@ [kind |-> t.kind, text |-> t.text]),
                         comments)

Lex(s) == LexFrom(s, 1, [line |-> 1, col |-> 1], <<>>, <<>>)
=============================================================================
