----------------------------- MODULE Formatter -----------------------------
(***************************************************************************)
(* The formatter (crates/arcis-fmt): tokens and comments are merged by     *)
(* position and printed one after the other.  What is printed before an    *)
(* item depends on the token before it, on the open brackets and on the    *)
(* lines of the source.                                                    *)
(***************************************************************************)
EXTENDS Lexer, Integers

-----------------------------------------------------------------------------
(* stream.rs                                                               *)

Before(a, b) == a.line < b.line \/ (a.line = b.line /\ a.col <= b.col)

TokenItem(t) ==
  [kind |-> t.kind, text |-> t.text, line |-> t.line, endLine |-> t.line]
CommentItem(c) ==
  [kind |-> IF c.block THEN "block comment" ELSE "line comment",
   text |-> c.text, line |-> c.line, endLine |-> c.endLine]

RECURSIVE Merge(_, _)
Merge(ts, cs) ==
  CASE ts = <<>> -> [n \in DOMAIN cs |-> CommentItem(cs[n])]
    [] ts # <<>> /\ (cs = <<>> \/ Before(Head(ts), Head(cs))) ->
         <<TokenItem(Head(ts))>> \o Merge(Tail(ts), cs)
    [] OTHER -> <<CommentItem(Head(cs))>> \o Merge(ts, Tail(cs))

IsComment(item) == item.kind \in {"line comment", "block comment"}

-----------------------------------------------------------------------------
(* token_text                                                              *)

PairOf(kind) == CHOOSE p \in DOMAIN Pairs : Pairs[p] = kind

Escaped(c) ==
  IF \E e \in DOMAIN Escapes : Escapes[e] = c
  THEN <<"\\", CHOOSE e \in DOMAIN Escapes : Escapes[e] = c>>
  ELSE <<c>>

EscapeString(s) == FlattenSeq([n \in DOMAIN s |-> Escaped(s[n])])

TokenText(kind, text) ==
  CASE kind \in {"ident", "num", "bool"} -> text
    [] kind = "str" -> <<"\"">> \o EscapeString(text) \o <<"\"">>
    [] kind = "..." -> <<".", ".", ".">>
    [] kind \in PairKinds -> PairOf(kind)
    [] OTHER -> <<kind>>

-----------------------------------------------------------------------------
(* separator.  Hugs(p, c): nothing is printed between a token of kind p    *)
(* and one of kind c.                                                      *)

TypeNames == {"string", "number", "boolean", "void"}
Operands == {"ident", "num", "str", "bool"}

\* Mutation: the brackets of type arguments hug what is next to them.
HugsWrong(p, c) ==
  \/ c \in {";", ",", ":", ".", "::", ")", "]", "<", ">"}
  \/ p \in {".", "::", "(", "[", "!", "<", ">"}
  \/ p \in Operands \cup {")", "]"} /\ c \in {"!", "?"}
  \/ p \in Operands /\ c = "("
  \/ p \in Operands \cup TypeNames \cup {")", "]"} /\ c = "["
Hugs(p, c) ==
  \/ c \in {";", ",", ":", ".", "::", ")", "]"}
  \/ p \in {".", "::", "(", "[", "!"}
  \/ p \in Operands \cup {")", "]"} /\ c \in {"!", "?"}
  \/ p \in Operands /\ c = "("
  \/ p \in Operands \cup TypeNames \cup {")", "]"} /\ c = "["

Top(f) == IF f.stack = <<>> THEN "none" ELSE Last(f.stack)
ClosesBlock(f, item) == item.kind = "}" /\ Top(f) = "block"

AfterSemicolon(f, item) ==
  IF f.endLine # 0 /\ item.line - f.endLine >= 2 THEN "blank" ELSE "newline"

Separator(f, item) ==
  CASE f.afterLineComment -> "newline"
    [] ~f.afterLineComment /\ IsComment(item) -> IF f.out = <<>> THEN "none" ELSE "space"
    [] ClosesBlock(f, item) -> "newline"
    [] OTHER ->
         CASE f.prev = "none" -> "none"
           [] f.prev = "{" -> IF Top(f) = "block" THEN "newline" ELSE "space"
           [] Hugs(f.prev, item.kind) -> "none"
           [] f.prev = ";" /\ Top(f) # "paren" -> AfterSemicolon(f, item)
           [] OTHER -> "space"

-----------------------------------------------------------------------------
(* run: one step of the loop of emit.rs for each item.                     *)

EndsLine(out) == out = <<>> \/ Last(out) = "\n"
EndsBlank(out) == Len(out) >= 2 /\ SubSeq(out, Len(out) - 1, Len(out)) = <<"\n", "\n">>

WithSeparator(out, sep, indent) ==
  LET line == IF EndsLine(out) THEN out ELSE Append(out, "\n")
      margin == [n \in 1 .. 2 * indent |-> " "]
  IN CASE sep = "none" -> out
       [] sep = "space" -> Append(out, " ")
       [] sep = "newline" -> line \o margin
       [] sep = "blank" ->
            (IF out = <<>> \/ EndsBlank(line) THEN line ELSE Append(line, "\n")) \o margin

BlockOpeners == {")", "else", "string", "number", "boolean", "void"}
FrameOf(f, kind) ==
  CASE kind = "{" -> IF f.prev \in BlockOpeners THEN "block" ELSE "object"
    [] kind = "(" -> "paren"
    [] kind = "[" -> "bracket"
Closed == "}" :> "object" @@ ")" :> "paren" @@ "]" :> "bracket"

\* The open brackets once the item is printed; a block's } has closed it.
StackAfter(f, item) ==
  CASE item.kind \in {"{", "(", "["} -> Append(f.stack, FrameOf(f, item.kind))
    [] item.kind \in DOMAIN Closed ->
         IF Top(f) = Closed[item.kind] THEN Front(f.stack) ELSE f.stack
    [] OTHER -> f.stack

\* Mutation: the lines of a comment count as blank.
EmitWrong(f, item) ==
  LET closes == ClosesBlock(f, item)
      sep == Separator(f, item)
      g == IF closes
           THEN [f EXCEPT !.stack = Front(f.stack),
                          !.indent = IF f.indent = 0 THEN 0 ELSE f.indent - 1]
           ELSE f
      out == WithSeparator(f.out, sep, g.indent)
  IN IF IsComment(item)
     THEN [g EXCEPT !.out = out \o item.text,
                    !.afterLineComment = item.kind = "line comment"]
     ELSE [out |-> out \o TokenText(item.kind, item.text),
           indent |-> IF item.kind = "{" /\ FrameOf(g, "{") = "block"
                      THEN g.indent + 1 ELSE g.indent,
           stack |-> StackAfter(g, item),
           prev |-> item.kind,
           afterLineComment |-> FALSE,
           endLine |-> item.endLine]
Emit(f, item) ==
  LET closes == ClosesBlock(f, item)
      sep == Separator(f, item)
      g == IF closes
           THEN [f EXCEPT !.stack = Front(f.stack),
                          !.indent = IF f.indent = 0 THEN 0 ELSE f.indent - 1]
           ELSE f
      out == WithSeparator(f.out, sep, g.indent)
  IN IF IsComment(item)
     THEN [g EXCEPT !.out = out \o item.text,
                    !.afterLineComment = item.kind = "line comment",
                    !.endLine = item.endLine]
     ELSE [out |-> out \o TokenText(item.kind, item.text),
           indent |-> IF item.kind = "{" /\ FrameOf(g, "{") = "block"
                      THEN g.indent + 1 ELSE g.indent,
           stack |-> StackAfter(g, item),
           prev |-> item.kind,
           afterLineComment |-> FALSE,
           endLine |-> item.endLine]

Printed(items) ==
  LET start == [out |-> <<>>, indent |-> 0, stack |-> <<>>, prev |-> "none",
                afterLineComment |-> FALSE, endLine |-> 0]
      out == FoldLeft(Emit, start, SelectSeq(items, LAMBDA x : x.kind # "eof")).out
  IN IF out = <<>> THEN <<"\n">> ELSE IF EndsLine(out) THEN out ELSE Append(out, "\n")

\* format, for a source without lexical errors.
Format(source) == LET l == Lex(source) IN Printed(Merge(l.tokens, l.comments))
=============================================================================
