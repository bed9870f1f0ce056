-------------------------- MODULE ShadowingProofs ---------------------------
(***************************************************************************)
(* Proofs about Shadowing and NameChecks: names that are visible together  *)
(* differ, in every program that writes none of the names the pass mints.  *)
(***************************************************************************)
EXTENDS NameChecks, SequenceTheorems, WellFoundedInduction, TLAPS

\* Minting is injective, and a minted name is neither empty nor its own source.
LEMMA MintFacts ==
    ASSUME NEW n \in Identifiers, NEW k \in Nat
    PROVE  /\ Mint(n, k) \in Identifiers
           /\ Len(Mint(n, k)) = Len(n) + 1
           /\ Mint(n, k) # n /\ Mint(n, k) # Unbound
           /\ \A m \in Identifiers, l \in Nat :
                 Mint(n, k) = Mint(m, l) => k = l /\ n = m
<1> DEFINE S == Words \cup Nat
<1>1. \A s, t \in Seq(S), d, e \in S : Append(s, d) = Append(t, e) => s = t /\ d = e
  OBVIOUS
<1>2. n \in Seq(S) /\ k \in S
  BY DEF Identifiers
<1>3. Append(n, k) \in Seq(S) /\ Len(Append(n, k)) = Len(n) + 1
  BY <1>2
<1>4. Append(n, k) # n /\ Append(n, k) # <<>>
  BY <1>2, <1>3
<1> QED BY <1>1, <1>2, <1>3, <1>4 DEF Mint, Identifiers, Unbound

\* Two plain names never mint the same one.
LEMMA PlainMint ==
    ASSUME Plain, NEW n \in Names, NEW m \in Names, NEW k \in Nat, NEW l \in Nat
    PROVE  /\ Mint(n, k) # m
           /\ Mint(n, k) = Mint(m, l) => n = m
<1>1. n \in Identifiers /\ m \in Identifiers /\ Len(n) = 1 /\ Len(m) = 1
  BY NamesAssumption DEF Plain
<1>2. Mint(n, k) # m
  BY <1>1, MintFacts
<1>3. Mint(n, k) = Mint(m, l) => n = m
  BY <1>1, MintFacts
<1> QED BY <1>2, <1>3

\* A frame whose open names are among another's is as good.
LEMMA SubFrame ==
    ASSUME NEW f, NEW g, NamesAreMinted(f), NamesAreFresh(f),
           g.own = f.own, g.counters = f.counters,
           \A i \in g.own .. Len(g.scopes) : \A n \in Names :
              g.scopes[i][n] # Unbound =>
                 i \in f.own .. Len(f.scopes) /\ g.scopes[i][n] = f.scopes[i][n]
    PROVE  NamesAreMinted(g) /\ NamesAreFresh(g)
<1>1. NamesAreMinted(g)
  <2> SUFFICES ASSUME NEW i \in g.own .. Len(g.scopes), NEW n \in Names,
                      g.scopes[i][n] # Unbound
               PROVE  g.scopes[i][n] = n \/ \E k \in 1 .. g.counters[n] : g.scopes[i][n] = Mint(n, k)
    BY DEF NamesAreMinted
  <2>1. i \in f.own .. Len(f.scopes) /\ g.scopes[i][n] = f.scopes[i][n]
    OBVIOUS
  <2> QED BY <2>1 DEF NamesAreMinted
<1>2. NamesAreFresh(g)
  <2> SUFFICES ASSUME NEW i \in g.own .. Len(g.scopes), NEW j \in g.own .. Len(g.scopes), NEW n \in Names,
                      g.scopes[i][n] # Unbound, g.scopes[i][n] = g.scopes[j][n]
               PROVE  i = j
    BY DEF NamesAreFresh
  <2>1. i \in f.own .. Len(f.scopes) /\ g.scopes[i][n] = f.scopes[i][n]
    OBVIOUS
  <2>2. j \in f.own .. Len(f.scopes) /\ g.scopes[j][n] = f.scopes[j][n]
    OBVIOUS
  <2>3. f.scopes[i][n] # Unbound /\ f.scopes[i][n] = f.scopes[j][n]
    BY <2>1, <2>2
  <2>4. \A d, e \in f.own .. Len(f.scopes) : \A m \in Names :
           f.scopes[d][m] # Unbound /\ f.scopes[d][m] = f.scopes[e][m] => d = e
    BY DEF NamesAreFresh
  <2> QED BY <2>1, <2>2, <2>3, <2>4, Zenon
<1> QED BY <1>1, <1>2

\* Frame by frame: what a new scope, a closed scope and a declaration do.
LEMMA FreshIsGood ==
    ASSUME NEW inherited \in Seq([Names -> Identifiers])
    PROVE  GoodFrame(FreshFrame(inherited))
<1> DEFINE f == FreshFrame(inherited)
<1>1. EmptyScope \in [Names -> Identifiers]
  BY DEF EmptyScope, Unbound, Identifiers
<1>2. /\ f.scopes \in Seq([Names -> Identifiers])
      /\ Len(f.scopes) = f.own /\ f.own \in Nat \ {0}
      /\ f.scopes[f.own] = EmptyScope
      /\ f.counters \in [Names -> Nat]
  BY <1>1 DEF FreshFrame
<1>3. f \in FrameType
  BY <1>2 DEF FrameType, FreshFrame
<1>4. \A i \in f.own .. Len(f.scopes) : i = f.own
  BY <1>2
<1>5. \A n \in Names : f.scopes[f.own][n] = Unbound
  BY <1>2 DEF EmptyScope
<1> QED BY <1>2, <1>3, <1>4, <1>5 DEF GoodFrame, NamesAreMinted, NamesAreFresh

LEMMA PushIsGood ==
    ASSUME NEW f, GoodFrame(f)
    PROVE  /\ GoodFrame(PushScope(f))
           /\ Len(PushScope(f).scopes) = Len(f.scopes) + 1
           /\ PushScope(f).own = f.own
<1> DEFINE g == PushScope(f)
<1>1. EmptyScope \in [Names -> Identifiers]
  BY DEF EmptyScope, Unbound, Identifiers
<1>2. f \in FrameType /\ f.own <= Len(f.scopes)
  BY DEF GoodFrame
<1>3. /\ g.scopes = Append(f.scopes, EmptyScope)
      /\ g.own = f.own /\ g.counters = f.counters
      /\ g \in FrameType
  <2>1. Append(f.scopes, EmptyScope) \in Seq([Names -> Identifiers])
    BY <1>1, <1>2 DEF FrameType
  <2>2. g = [f EXCEPT !.scopes = Append(f.scopes, EmptyScope)]
    BY DEF PushScope
  <2> QED BY <1>2, <2>1, <2>2 DEF FrameType
<1>4. /\ Len(g.scopes) = Len(f.scopes) + 1
      /\ \A i \in 1 .. Len(f.scopes) : g.scopes[i] = f.scopes[i]
      /\ \A n \in Names : g.scopes[Len(f.scopes) + 1][n] = Unbound
  BY <1>1, <1>2, <1>3 DEF FrameType, EmptyScope
<1>5. \A i \in g.own .. Len(g.scopes), n \in Names :
          g.scopes[i][n] # Unbound =>
              i \in f.own .. Len(f.scopes) /\ g.scopes[i][n] = f.scopes[i][n]
  <2> SUFFICES ASSUME NEW i \in g.own .. Len(g.scopes), NEW n \in Names,
                      g.scopes[i][n] # Unbound
               PROVE  i \in f.own .. Len(f.scopes) /\ g.scopes[i][n] = f.scopes[i][n]
    OBVIOUS
  <2>1. i # Len(f.scopes) + 1
    BY <1>4
  <2>2. i \in f.own .. Len(f.scopes) /\ i \in 1 .. Len(f.scopes)
    BY <2>1, <1>2, <1>3, <1>4 DEF FrameType
  <2> QED BY <2>2, <1>4
<1>6. NamesAreMinted(g) /\ NamesAreFresh(g)
  <2> HIDE DEF g
  <2>1. NamesAreMinted(f) /\ NamesAreFresh(f)
    BY DEF GoodFrame
  <2> QED BY <1>3, <1>5, <2>1, SubFrame
<1>7. g.own <= Len(g.scopes)
  BY <1>2, <1>3, <1>4 DEF FrameType
<1> QED BY <1>3, <1>4, <1>6, <1>7 DEF GoodFrame

\* A stack without its top.
LEMMA Shorter ==
    ASSUME NEW S, NEW s \in Seq(S), Len(s) > 0
    PROVE  /\ SubSeq(s, 1, Len(s) - 1) \in Seq(S)
           /\ Len(SubSeq(s, 1, Len(s) - 1)) = Len(s) - 1
           /\ \A i \in 1 .. Len(s) - 1 : SubSeq(s, 1, Len(s) - 1)[i] = s[i]
<1> DEFINE n == Len(s)
           t == SubSeq(s, 1, n - 1)
<1>1. n \in Nat /\ n > 0
  BY LenProperties
<1>2. n > 1 => t \in Seq(S) /\ Len(t) = n - 1 /\ \A i \in 1 .. n - 1 : t[i] = s[i]
  OBVIOUS
<1>3. SubSeq(s, 1, 0) = <<>> /\ <<>> \in Seq(S) /\ Len(<<>>) = 0
  BY SubSeqEmpty
<1> HIDE DEF n
<1>4. n > 1 \/ (n - 1 = 0 /\ ~ \E i \in Nat : i \in 1 .. n - 1)
  BY <1>1
<1>5. n - 1 = 0 => t \in Seq(S) /\ Len(t) = n - 1 /\ \A i \in 1 .. n - 1 : t[i] = s[i]
  BY <1>3, <1>4
<1> QED BY <1>2, <1>4, <1>5 DEF n

LEMMA PopIsGood ==
    ASSUME NEW f, GoodFrame(f), f.own < Len(f.scopes)
    PROVE  /\ GoodFrame(PopScope(f))
           /\ Len(PopScope(f).scopes) = Len(f.scopes) - 1
           /\ PopScope(f).own = f.own
<1> DEFINE g == PopScope(f)
<1>2. f \in FrameType
  BY DEF GoodFrame
<1>3. /\ g.scopes = SubSeq(f.scopes, 1, Len(f.scopes) - 1)
      /\ g.own = f.own /\ g.counters = f.counters
      /\ g \in FrameType
  <2>1. SubSeq(f.scopes, 1, Len(f.scopes) - 1) \in Seq([Names -> Identifiers])
    BY <1>2 DEF FrameType
  <2>2. g = [f EXCEPT !.scopes = SubSeq(f.scopes, 1, Len(f.scopes) - 1)]
    BY DEF PopScope
  <2> QED BY <1>2, <2>1, <2>2 DEF FrameType
<1>4. /\ Len(g.scopes) = Len(f.scopes) - 1
      /\ \A i \in 1 .. Len(f.scopes) - 1 : g.scopes[i] = f.scopes[i]
  BY <1>2, <1>3 DEF FrameType
<1>5. \A i \in g.own .. Len(g.scopes) :
          i \in f.own .. Len(f.scopes) /\ g.scopes[i] = f.scopes[i]
  BY <1>2, <1>3, <1>4 DEF FrameType
<1>6. NamesAreMinted(g) /\ NamesAreFresh(g)
  <2> HIDE DEF g
  <2>1. NamesAreMinted(f) /\ NamesAreFresh(f)
    BY DEF GoodFrame
  <2> QED BY <1>3, <1>5, <2>1, SubFrame
<1>7. g.own <= Len(g.scopes)
  BY <1>2, <1>3, <1>4 DEF FrameType
<1> QED BY <1>3, <1>4, <1>6, <1>7 DEF GoodFrame

\* The heart of it: the number the counter moves to is new.
LEMMA DeclareIsGood ==
    ASSUME NEW f, GoodFrame(f), NEW n \in Names
    PROVE  /\ GoodFrame(Declare(f, n))
           /\ Len(Declare(f, n).scopes) = Len(f.scopes)
           /\ Declare(f, n).own = f.own
<1> DEFINE g    == Declare(f, n)
           last == Len(f.scopes)
           c    == f.counters[n]
           new  == FinalName(f, n)
<1>1. f \in FrameType /\ f.own <= last /\ last \in Nat \ {0} /\ c \in Nat
  BY DEF GoodFrame, FrameType
<1>2. n \in Identifiers /\ n # Unbound
  BY NamesAssumption DEF Unbound
<1>3. CASE InCurrent(f, n)
  BY <1>3 DEF Declare
<1>4. CASE ~ InCurrent(f, n)
  <2>1. new \in Identifiers
    <3>1. c + 1 \in Nat
      BY <1>1
    <3>2. Mint(n, c + 1) \in Identifiers
      <4> HIDE DEF c
      <4> QED BY <3>1, <1>2, MintFacts
    <3> QED BY <3>2, <1>2 DEF FinalName
  <2>2. g = [f EXCEPT !.scopes[last][n] = new,
                      !.counters[n] = IF Renames(f, n) THEN @ + 1 ELSE @]
    BY <1>4 DEF Declare
  <2>3. /\ g.scopes = [f.scopes EXCEPT ![last][n] = new]
        /\ g.counters = [f.counters EXCEPT ![n] = IF Renames(f, n) THEN @ + 1 ELSE @]
        /\ g.own = f.own
        /\ g.scopes \in Seq([Names -> Identifiers])
        /\ g.counters \in [Names -> Nat]
        /\ Len(g.scopes) = last
    BY <1>1, <2>1, <2>2 DEF FrameType
  <2>4. g \in FrameType
    BY <1>1, <2>2, <2>3 DEF FrameType
  <2>5. /\ g.scopes[last][n] = new
        /\ \A i \in 1 .. last, m \in Names :
              i # last \/ m # n => g.scopes[i][m] = f.scopes[i][m]
        /\ \A m \in Names : g.counters[m] >= f.counters[m]
        /\ Renames(f, n) => g.counters[n] = c + 1
    BY <1>1, <2>1, <2>3 DEF FrameType
  <2>6. \A i \in f.own .. last : i \in 1 .. last
    BY <1>1 DEF FrameType
  <2>7. /\ new = n \/ new = Mint(n, g.counters[n])
        /\ \A i \in f.own .. last : i # last => f.scopes[i][n] = Unbound \/ f.scopes[i][n] # new
    <3>1. CASE Renames(f, n)
      <4>1. new = Mint(n, c + 1) /\ g.counters[n] = c + 1
        BY <3>1, <2>5 DEF FinalName
      <4>2. \A i \in f.own .. last : f.scopes[i][n] # Unbound =>
                f.scopes[i][n] = n \/ \E k \in 1 .. c : f.scopes[i][n] = Mint(n, k)
        BY DEF GoodFrame, NamesAreMinted
      <4> c + 1 \in Nat
        BY <1>1
      <4>3. Mint(n, c + 1) # n
        BY <1>2, MintFacts
      <4>4. \A k \in 1 .. c : Mint(n, k) # Mint(n, c + 1)
        <5> TAKE k \in 1 .. c
        <5>1. k \in Nat /\ k # c + 1
          BY <1>1
        <5> HIDE DEF c
        <5> QED BY <5>1, <1>2, MintFacts
      <4> QED BY <4>1, <4>2, <4>3, <4>4
    <3>2. CASE ~ Renames(f, n)
      <4>1. \A i \in 1 .. last - 1 : f.scopes[i][n] = Unbound
        BY <3>2, <1>4 DEF Renames, ShadowsAncestor
      <4>2. new = n
        BY <3>2 DEF FinalName
      <4> QED BY <4>1, <4>2, <1>1 DEF FrameType
    <3> QED BY <3>1, <3>2
  <2>8. NamesAreMinted(g)
    <3> SUFFICES ASSUME NEW i \in f.own .. last, NEW m \in Names,
                        g.scopes[i][m] # Unbound
                 PROVE  g.scopes[i][m] = m
                          \/ \E k \in 1 .. g.counters[m] : g.scopes[i][m] = Mint(m, k)
      BY <2>3 DEF NamesAreMinted
    <3>1. CASE i = last /\ m = n
      <4>1. CASE Renames(f, n)
        BY <3>1, <4>1, <2>5, <2>7, <1>1
      <4>2. CASE ~ Renames(f, n)
        BY <3>1, <4>2, <2>5 DEF FinalName
      <4> QED BY <4>1, <4>2
    <3>2. CASE i # last \/ m # n
      <4>1. g.scopes[i][m] = f.scopes[i][m]
        BY <3>2, <2>5, <2>6
      <4>2. f.scopes[i][m] = m \/ \E k \in 1 .. f.counters[m] : f.scopes[i][m] = Mint(m, k)
        BY <4>1 DEF GoodFrame, NamesAreMinted
      <4>3. \A k \in 1 .. f.counters[m] : k \in 1 .. g.counters[m]
        BY <2>3, <2>5, <1>1 DEF FrameType
      <4> QED BY <4>1, <4>2, <4>3
    <3> QED BY <3>1, <3>2
  <2>9. NamesAreFresh(g)
    <3> SUFFICES ASSUME NEW i \in f.own .. last, NEW j \in f.own .. last, NEW m \in Names,
                        g.scopes[i][m] # Unbound, g.scopes[i][m] = g.scopes[j][m], i # j
                 PROVE  FALSE
      BY <2>3 DEF NamesAreFresh
    <3>1. CASE m = n /\ i = last
      BY <3>1, <2>5, <2>6, <2>7
    <3>2. CASE m = n /\ j = last
      BY <3>2, <2>5, <2>6, <2>7
    <3>3. CASE m # n \/ (i # last /\ j # last)
      <4>1. g.scopes[i][m] = f.scopes[i][m] /\ g.scopes[j][m] = f.scopes[j][m]
        BY <3>3, <2>5, <2>6
      <4> QED BY <4>1 DEF GoodFrame, NamesAreFresh
    <3> QED BY <3>1, <3>2, <3>3
  <2> QED BY <1>1, <2>3, <2>4, <2>8, <2>9 DEF GoodFrame
<1> QED BY <1>3, <1>4

-----------------------------------------------------------------------------
\* What every step that stays in one function relies on: the top function's
\* stacks are there and have one length.
LEMMA TopFacts ==
    ASSUME ShadowIInv
    PROVE  /\ Len(frames) \in Nat \ {0} /\ Len(frames) \in 1 .. Len(frames)
           /\ frames \in Seq(FrameType)
           /\ Len(nest) = Len(frames) /\ Len(lexical) = Len(frames)
           /\ TopFrame \in FrameType /\ GoodFrame(TopFrame)
           /\ TopNest \in Seq(Kinds \cup {"main", "block"}) /\ TopNest # <<>>
           /\ TopLex \in Seq([Names -> 0 .. MaxDecls])
           /\ Len(TopNest) = Len(TopFrame.scopes) - TopFrame.own + 1
           /\ Len(TopLex) = Len(TopFrame.scopes)
           /\ Len(TopFrame.scopes) \in Nat \ {0}
           /\ TopFrame.own \in 1 .. Len(TopFrame.scopes)
           /\ decls \in 0 .. MaxDecls
<1>1. /\ Len(frames) \in Nat \ {0}
      /\ Len(nest) = Len(frames) /\ Len(lexical) = Len(frames)
  BY DEF ShadowIInv, ShadowTypeOK
<1>2. /\ TopFrame \in FrameType /\ GoodFrame(TopFrame)
      /\ TopNest \in Seq(Kinds \cup {"main", "block"}) /\ TopNest # <<>>
      /\ TopLex \in Seq([Names -> 0 .. MaxDecls])
      /\ Len(TopNest) = Len(TopFrame.scopes) - TopFrame.own + 1
      /\ Len(TopLex) = Len(TopFrame.scopes)
  BY <1>1 DEF ShadowIInv, ShadowTypeOK, TopFrame, TopNest, TopLex
<1>3. Len(TopFrame.scopes) \in Nat \ {0} /\ TopFrame.own \in 1 .. Len(TopFrame.scopes)
  BY <1>2 DEF GoodFrame, FrameType
<1> QED BY <1>1, <1>2, <1>3 DEF ShadowIInv, ShadowTypeOK

\* A step inside the top function keeps the invariant when its new frame,
\* constructs and meaning fit together.
LEMMA TopStep ==
    ASSUME ShadowIInv, NEW f, NEW lex, NEW con,
           GoodFrame(f), f.own = TopFrame.own,
           lex \in Seq([Names -> 0 .. MaxDecls]), Len(lex) = Len(f.scopes),
           con \in Seq(Kinds \cup {"main", "block"}), con # <<>>,
           Len(con) = Len(f.scopes) - f.own + 1,
           SetTop(f, lex), nest' = [nest EXCEPT ![Len(nest)] = con],
           decls' \in 0 .. MaxDecls
    PROVE  ShadowIInv'
<1> DEFINE top == Len(frames)
<1>1. /\ top \in Nat \ {0} /\ top \in 1 .. top
      /\ frames \in Seq(FrameType)
      /\ Len(nest) = top /\ Len(lexical) = top
  BY TopFacts
<1>2. /\ nest \in Seq(Seq(Kinds \cup {"main", "block"}))
      /\ lexical \in Seq(Seq([Names -> 0 .. MaxDecls]))
  BY DEF ShadowIInv, ShadowTypeOK
<1>3. /\ frames' \in Seq(FrameType) /\ Len(frames') = top /\ frames' # <<>>
      /\ frames'[top] = f /\ \A g \in 1 .. top : g # top => frames'[g] = frames[g]
  BY <1>1 DEF SetTop, GoodFrame
<1>4. /\ nest' \in Seq(Seq(Kinds \cup {"main", "block"})) /\ Len(nest') = top
      /\ nest'[top] = con /\ \A g \in 1 .. top : g # top => nest'[g] = nest[g]
  BY <1>1, <1>2
<1>5. /\ lexical' \in Seq(Seq([Names -> 0 .. MaxDecls])) /\ Len(lexical') = top
      /\ lexical'[top] = lex /\ \A g \in 1 .. top : g # top => lexical'[g] = lexical[g]
  BY <1>1, <1>2 DEF SetTop
<1>6. \A g \in 1 .. top :
          /\ GoodFrame(frames'[g])
          /\ Len(nest'[g]) = Len(frames'[g].scopes) - frames'[g].own + 1
          /\ Len(lexical'[g]) = Len(frames'[g].scopes)
          /\ nest'[g] # <<>>
  <2> TAKE g \in 1 .. top
  <2>1. CASE g = top
    BY <2>1, <1>3, <1>4, <1>5
  <2>2. CASE g # top
    <3>1. /\ GoodFrame(frames[g])
          /\ Len(nest[g]) = Len(frames[g].scopes) - frames[g].own + 1
          /\ Len(lexical[g]) = Len(frames[g].scopes)
          /\ nest[g] # <<>>
      BY DEF ShadowIInv, ShadowTypeOK
    <3> QED BY <2>2, <3>1, <1>3, <1>4, <1>5
  <2> QED BY <2>1, <2>2
<1>7. ShadowTypeOK'
  BY <1>3, <1>4, <1>5, <1>6 DEF ShadowTypeOK
<1>8. (\A g \in 1 .. Len(frames) : GoodFrame(frames[g]))'
  BY SMTT(30), <1>3, <1>6 DEF GoodFrame, NamesAreMinted, NamesAreFresh
<1> QED BY <1>7, <1>8 DEF ShadowIInv

\* Entering a function or an arrow, with the scopes it inherits.
LEMMA EnterStep ==
    ASSUME ShadowIInv, NEW inherited \in Seq([Names -> Identifiers]),
           NEW lex \in Seq([Names -> 0 .. MaxDecls]), Len(lex) = Len(inherited) + 1,
           NEW kind \in Kinds,
           frames' = Append(frames, FreshFrame(inherited)),
           nest' = Append(nest, <<kind>>), lexical' = Append(lexical, lex),
           decls' = decls
    PROVE  ShadowIInv'
<1> DEFINE top == Len(frames)
           new == FreshFrame(inherited)
<1>1. /\ top \in Nat \ {0}
      /\ frames \in Seq(FrameType)
      /\ Len(nest) = top /\ Len(lexical) = top
  BY TopFacts
<1>2. /\ nest \in Seq(Seq(Kinds \cup {"main", "block"}))
      /\ lexical \in Seq(Seq([Names -> 0 .. MaxDecls]))
      /\ decls \in 0 .. MaxDecls
  BY DEF ShadowIInv, ShadowTypeOK
<1>3. GoodFrame(new) /\ new \in FrameType
  BY FreshIsGood DEF GoodFrame
<1>4. Len(new.scopes) = Len(inherited) + 1 /\ new.own = Len(inherited) + 1
  BY DEF FreshFrame
<1> HIDE DEF new
<1>5. /\ frames' \in Seq(FrameType) /\ Len(frames') = top + 1 /\ frames' # <<>>
      /\ frames'[top + 1] = new /\ \A g \in 1 .. top : frames'[g] = frames[g]
  BY SMTT(30), <1>1, <1>3 DEF new
<1>6. <<kind>> \in Seq(Kinds \cup {"main", "block"})
  OBVIOUS
<1>7. /\ nest' \in Seq(Seq(Kinds \cup {"main", "block"})) /\ Len(nest') = top + 1
      /\ nest'[top + 1] = <<kind>> /\ \A g \in 1 .. top : nest'[g] = nest[g]
  BY <1>1, <1>2, <1>6
<1>8. /\ lexical' \in Seq(Seq([Names -> 0 .. MaxDecls])) /\ Len(lexical') = top + 1
      /\ lexical'[top + 1] = lex /\ \A g \in 1 .. top : lexical'[g] = lexical[g]
  BY <1>1, <1>2
<1>9. \A g \in 1 .. top + 1 :
          /\ GoodFrame(frames'[g])
          /\ Len(nest'[g]) = Len(frames'[g].scopes) - frames'[g].own + 1
          /\ Len(lexical'[g]) = Len(frames'[g].scopes)
          /\ nest'[g] # <<>>
  <2> TAKE g \in 1 .. top + 1
  <2>1. CASE g = top + 1
    <3>1. Len(nest'[g]) = 1 /\ nest'[g] # <<>>
      BY <2>1, <1>7
    <3>2. frames'[g] = new /\ lexical'[g] = lex /\ Len(inherited) \in Nat
      BY <2>1, <1>5, <1>8
    <3>3. Len(new.scopes) - new.own + 1 = 1
      BY <3>2, <1>4
    <3> QED BY <3>1, <3>2, <3>3, <1>3, <1>4
  <2>2. CASE g # top + 1
    <3>0. g \in 1 .. top
      BY <2>2, <1>1
    <3>1. /\ GoodFrame(frames[g])
          /\ Len(nest[g]) = Len(frames[g].scopes) - frames[g].own + 1
          /\ Len(lexical[g]) = Len(frames[g].scopes)
          /\ nest[g] # <<>>
      BY <3>0 DEF ShadowIInv, ShadowTypeOK
    <3>2. frames'[g] = frames[g] /\ nest'[g] = nest[g] /\ lexical'[g] = lexical[g]
      BY <3>0, <1>5, <1>7, <1>8
    <3> HIDE DEF top
    <3> QED BY <3>1, <3>2
  <2> QED BY <2>1, <2>2
<1>10. ShadowTypeOK'
  BY <1>2, <1>5, <1>7, <1>8, <1>9 DEF ShadowTypeOK
<1>11. (\A g \in 1 .. Len(frames) : GoodFrame(frames[g]))'
  <2>1. \A g \in 1 .. Len(frames') : GoodFrame(frames'[g])
    BY <1>5, <1>9
  <2> QED BY <2>1, Zenon DEF GoodFrame, NamesAreMinted, NamesAreFresh
<1> QED BY <1>10, <1>11 DEF ShadowIInv

LEMMA LeaveStep ==
    ASSUME ShadowIInv, CloseFunction
    PROVE  ShadowIInv'
<1> DEFINE top == Len(frames)
<1>1. /\ top \in Nat /\ top > 1
      /\ frames \in Seq(FrameType)
      /\ Len(nest) = top /\ Len(lexical) = top
  BY TopFacts DEF CloseFunction
<1>2. /\ nest \in Seq(Seq(Kinds \cup {"main", "block"}))
      /\ lexical \in Seq(Seq([Names -> 0 .. MaxDecls]))
      /\ decls \in 0 .. MaxDecls
  BY DEF ShadowIInv, ShadowTypeOK
<1>3. /\ frames' \in Seq(FrameType) /\ Len(frames') = top - 1 /\ frames' # <<>>
      /\ \A g \in 1 .. top - 1 : frames'[g] = frames[g]
  <2>1. frames' = SubSeq(frames, 1, top - 1)
    BY DEF CloseFunction
  <2>2. frames' \in Seq(FrameType) /\ Len(frames') = top - 1
        /\ \A g \in 1 .. top - 1 : frames'[g] = frames[g]
    BY <1>1, <2>1, Shorter
  <2> QED BY <1>1, <2>2
<1>4. /\ nest' \in Seq(Seq(Kinds \cup {"main", "block"})) /\ Len(nest') = top - 1
      /\ \A g \in 1 .. top - 1 : nest'[g] = nest[g]
  BY <1>1, <1>2 DEF CloseFunction
<1>5. /\ lexical' \in Seq(Seq([Names -> 0 .. MaxDecls])) /\ Len(lexical') = top - 1
      /\ \A g \in 1 .. top - 1 : lexical'[g] = lexical[g]
  BY SMTT(30), <1>1, <1>2 DEF CloseFunction
<1>6. \A g \in 1 .. top - 1 :
          /\ GoodFrame(frames[g])
          /\ Len(nest[g]) = Len(frames[g].scopes) - frames[g].own + 1
          /\ Len(lexical[g]) = Len(frames[g].scopes)
          /\ nest[g] # <<>>
  BY <1>1 DEF ShadowIInv, ShadowTypeOK
<1>7. ShadowTypeOK'
  BY <1>2, <1>3, <1>4, <1>5, <1>6 DEF ShadowTypeOK, CloseFunction
<1>8. (\A g \in 1 .. Len(frames) : GoodFrame(frames[g]))'
  <2>1. \A g \in 1 .. Len(frames') : GoodFrame(frames'[g])
    BY <1>3, <1>6
  <2> QED BY <2>1, Zenon DEF GoodFrame, NamesAreMinted, NamesAreFresh
<1> QED BY <1>7, <1>8 DEF ShadowIInv

-----------------------------------------------------------------------------
\* The scopes of meaning have one type, and a declaration keeps it.
LEMMA LexFacts ==
    ASSUME NEW lex \in Seq([Names -> 0 .. MaxDecls])
    PROVE  /\ PushLex(lex) \in Seq([Names -> 0 .. MaxDecls])
           /\ Len(PushLex(lex)) = Len(lex) + 1
           /\ Len(lex) # 0 =>
                 /\ PopLex(lex) \in Seq([Names -> 0 .. MaxDecls])
                 /\ Len(PopLex(lex)) = Len(lex) - 1
                 /\ \A n \in Names, d \in 0 .. MaxDecls :
                       /\ Denote(lex, n, d) \in Seq([Names -> 0 .. MaxDecls])
                       /\ Len(Denote(lex, n, d)) = Len(lex)
<1>1. EmptyLex \in [Names -> 0 .. MaxDecls]
  BY ShadowBounds DEF EmptyLex, NoDecl
<1>2. PushLex(lex) \in Seq([Names -> 0 .. MaxDecls]) /\ Len(PushLex(lex)) = Len(lex) + 1
  BY <1>1 DEF PushLex
<1>3. ASSUME Len(lex) # 0
      PROVE  PopLex(lex) \in Seq([Names -> 0 .. MaxDecls]) /\ Len(PopLex(lex)) = Len(lex) - 1
  BY <1>3, Shorter DEF PopLex
<1>4. ASSUME Len(lex) # 0, NEW n \in Names, NEW d \in 0 .. MaxDecls
      PROVE  /\ Denote(lex, n, d) \in Seq([Names -> 0 .. MaxDecls])
             /\ Len(Denote(lex, n, d)) = Len(lex)
  <2>1. Len(lex) \in 1 .. Len(lex)
    BY <1>4
  <2>2. [lex[Len(lex)] EXCEPT ![n] = d] \in [Names -> 0 .. MaxDecls]
    BY <2>1, <1>4
  <2>3. Denote(lex, n, d) = [lex EXCEPT ![Len(lex)] = [lex[Len(lex)] EXCEPT ![n] = d]]
    BY DEF Denote
  <2> QED BY <2>1, <2>2, <2>3
<1> QED BY <1>2, <1>3, <1>4

LEMMA ShadowInvInit == ShadowInit => ShadowIInv
<1> SUFFICES ASSUME ShadowInit PROVE ShadowIInv
  OBVIOUS
<1> DEFINE new == FreshFrame(<<>>)
<1>0. <<>> \in Seq([Names -> Identifiers])
  OBVIOUS
<1>1. GoodFrame(new) /\ new \in FrameType
  BY <1>0, FreshIsGood DEF GoodFrame
<1>2. Len(new.scopes) = 1 /\ new.own = 1
  BY DEF FreshFrame
<1>3. EmptyLex \in [Names -> 0 .. MaxDecls]
  BY ShadowBounds DEF EmptyLex, NoDecl
<1> HIDE DEF new
<1>4. frames = <<new>> /\ nest = << <<"main">> >> /\ lexical = << <<EmptyLex>> >> /\ decls = 0
  BY DEF ShadowInit, new
<1>5. ShadowTypeOK
  BY <1>1, <1>2, <1>3, <1>4, ShadowBounds DEF ShadowTypeOK
<1>6. \A g \in 1 .. Len(frames) : GoodFrame(frames[g])
  BY <1>1, <1>4
<1> QED BY <1>5, <1>6 DEF ShadowIInv

\* One step per construct.
LEMMA ShadowInvNext == ShadowIInv /\ [ShadowNext]_shadowVars => ShadowIInv'
<1> SUFFICES ASSUME ShadowIInv, [ShadowNext]_shadowVars PROVE ShadowIInv'
  OBVIOUS
<1> DEFINE K == Kinds \cup {"main", "block"}
<1>t. /\ GoodFrame(TopFrame)
      /\ TopNest \in Seq(K) /\ TopNest # <<>>
      /\ TopLex \in Seq([Names -> 0 .. MaxDecls])
      /\ Len(TopNest) = Len(TopFrame.scopes) - TopFrame.own + 1
      /\ Len(TopLex) = Len(TopFrame.scopes) /\ Len(TopLex) \in Nat \ {0}
      /\ TopFrame.own \in 1 .. Len(TopFrame.scopes)
      /\ Len(nest) \in Nat \ {0} /\ Len(TopFrame.scopes) \in Nat
      /\ decls \in 0 .. MaxDecls
      /\ TopFrame.scopes \in Seq([Names -> Identifiers])
  BY TopFacts DEF FrameType
<1>n. ASSUME NEW con, con \in Seq(K)
      PROVE  /\ TopNest \o con \in Seq(K)
             /\ Len(TopNest \o con) = Len(TopNest) + Len(con)
             /\ TopNest \o con # <<>>
             /\ Open(con) => nest' = [nest EXCEPT ![Len(nest)] = TopNest \o con]
  <2>1. TopNest \o con \in Seq(K) /\ Len(TopNest \o con) = Len(TopNest) + Len(con)
    <3>1. \A s, t \in Seq(K) : s \o t \in Seq(K) /\ Len(s \o t) = Len(s) + Len(t)
      OBVIOUS
    <3> QED BY <3>1, <1>t, <1>n
  <2>2. Len(TopNest) # 0 /\ Len(con) \in Nat
    BY <1>t, <1>n
  <2>3. Open(con) => nest' = [nest EXCEPT ![Len(nest)] = TopNest \o con]
    BY DEF Open, TopNest
  <2>4. Len(TopNest \o con) # 0
    BY <2>1, <2>2, <1>t
  <2> QED BY <2>1, <2>3, <2>4
<1>a. /\ Len(TopFrame.scopes) \in Nat /\ TopFrame.own \in Nat /\ Len(TopNest) \in Nat
      /\ Len(TopNest) = Len(TopFrame.scopes) - TopFrame.own + 1
      /\ Len(TopLex) = Len(TopFrame.scopes)
  BY <1>t
<1>d. decls < MaxDecls => decls + 1 \in 0 .. MaxDecls
  BY <1>t, ShadowBounds
<1>1. ASSUME NEW n \in Names, Let(n) PROVE ShadowIInv'
  <2> DEFINE f == Declare(TopFrame, n)
             lex == Denote(TopLex, n, decls + 1)
  <2>1. GoodFrame(f) /\ f.own = TopFrame.own /\ Len(f.scopes) = Len(TopFrame.scopes)
    BY <1>t, DeclareIsGood
  <2>2. decls + 1 \in 0 .. MaxDecls
    BY <1>1, <1>d DEF Let
  <2>3. lex \in Seq([Names -> 0 .. MaxDecls]) /\ Len(lex) = Len(TopLex)
    BY <1>t, <2>2, LexFacts
  <2>4. nest' = [nest EXCEPT ![Len(nest)] = TopNest]
    BY <1>1, TopFacts DEF Let, TopNest, ShadowIInv, ShadowTypeOK
  <2>5. SetTop(f, lex) /\ decls' = decls + 1
    BY <1>1 DEF Let
  <2> HIDE DEF f, lex
  <2> QED BY <1>t, <2>1, <2>2, <2>3, <2>4, <2>5, TopStep
<1>2. ASSUME NEW n \in Names, OpenCatch(n) PROVE ShadowIInv'
  <2> DEFINE p == PushScope(TopFrame)
             f == Declare(p, n)
             lex == Denote(PushLex(TopLex), n, decls + 1)
  <2>1. GoodFrame(p) /\ p.own = TopFrame.own /\ Len(p.scopes) = Len(TopFrame.scopes) + 1
    BY <1>t, PushIsGood
  <2>2. GoodFrame(f) /\ f.own = TopFrame.own /\ Len(f.scopes) = Len(TopFrame.scopes) + 1
    BY <2>1, DeclareIsGood
  <2>3. decls + 1 \in 0 .. MaxDecls
    BY <1>2, <1>d DEF OpenCatch
  <2>4. lex \in Seq([Names -> 0 .. MaxDecls]) /\ Len(lex) = Len(TopLex) + 1
    <3>0. /\ PushLex(TopLex) \in Seq([Names -> 0 .. MaxDecls])
          /\ Len(PushLex(TopLex)) = Len(TopLex) + 1
      BY <1>t, LexFacts
    <3>1. Len(PushLex(TopLex)) # 0
      BY <3>0, <1>t
    <3> QED BY <3>0, <3>1, <2>3, LexFacts
  <2>5. SetTop(f, lex) /\ decls' = decls + 1 /\ "catch" \in Kinds /\ Open(<<"catch">>)
    BY <1>2 DEF OpenCatch, CanOpen
  <2>6. <<"catch">> \in Seq(K) /\ Len(<<"catch">>) = 1
    BY <2>5
  <2> DEFINE con == TopNest \o <<"catch">>
  <2>7. /\ con \in Seq(K) /\ con # <<>> /\ Len(con) = Len(TopNest) + 1
        /\ nest' = [nest EXCEPT ![Len(nest)] = con]
    BY <2>5, <2>6, <1>n
  <2> HIDE DEF f, lex, con
  <2>8. Len(con) = Len(f.scopes) - f.own + 1 /\ Len(lex) = Len(f.scopes)
    <3>1. /\ Len(con) = Len(TopNest) + 1 /\ Len(f.scopes) = Len(TopFrame.scopes) + 1
          /\ Len(lex) = Len(TopLex) + 1 /\ f.own = TopFrame.own
      BY <2>2, <2>4, <2>7
    <3> QED BY <3>1, <1>a
  <2> QED BY <2>2, <2>3, <2>4, <2>5, <2>7, <2>8, TopStep
<1>3. ASSUME NEW n \in Names, NEW kind \in Kinds, OpenLoop(kind, n) PROVE ShadowIInv'
  <2> DEFINE p == PushScope(TopFrame)
             h == Declare(p, n)
             f == PushScope(h)
             outer == Denote(PushLex(TopLex), n, decls + 1)
             lex == PushLex(outer)
  <2>1. GoodFrame(p) /\ p.own = TopFrame.own /\ Len(p.scopes) = Len(TopFrame.scopes) + 1
    BY <1>t, PushIsGood
  <2>2. GoodFrame(h) /\ h.own = TopFrame.own /\ Len(h.scopes) = Len(TopFrame.scopes) + 1
    BY <2>1, DeclareIsGood
  <2>3. GoodFrame(f) /\ f.own = TopFrame.own /\ Len(f.scopes) = Len(TopFrame.scopes) + 2
    <3>1. Len(f.scopes) = Len(h.scopes) + 1 /\ f.own = h.own /\ GoodFrame(f)
      BY <2>2, PushIsGood
    <3> QED BY <3>1, <2>2, <1>t
  <2>4. decls + 1 \in 0 .. MaxDecls
    BY <1>3, <1>d DEF OpenLoop
  <2>5. lex \in Seq([Names -> 0 .. MaxDecls]) /\ Len(lex) = Len(TopLex) + 2
    <3>0. /\ PushLex(TopLex) \in Seq([Names -> 0 .. MaxDecls])
          /\ Len(PushLex(TopLex)) = Len(TopLex) + 1
      BY <1>t, LexFacts
    <3>1. Len(PushLex(TopLex)) # 0
      BY <3>0, <1>t
    <3>2. outer \in Seq([Names -> 0 .. MaxDecls]) /\ Len(outer) = Len(TopLex) + 1
      BY <3>0, <3>1, <2>4, LexFacts
    <3>3. lex \in Seq([Names -> 0 .. MaxDecls]) /\ Len(lex) = Len(outer) + 1
      BY <3>2, LexFacts
    <3> HIDE DEF outer
    <3> QED BY <3>2, <3>3, <1>t
  <2>6. SetTop(f, lex) /\ decls' = decls + 1 /\ Open(<<kind, "block">>)
    BY <1>3 DEF OpenLoop
  <2>7. <<kind, "block">> \in Seq(K) /\ Len(<<kind, "block">>) = 2
    OBVIOUS
  <2> DEFINE con == TopNest \o <<kind, "block">>
  <2>8. /\ con \in Seq(K) /\ con # <<>> /\ Len(con) = Len(TopNest) + 2
        /\ nest' = [nest EXCEPT ![Len(nest)] = con]
    BY <2>6, <2>7, <1>n
  <2> HIDE DEF f, lex, con
  <2>9. Len(con) = Len(f.scopes) - f.own + 1 /\ Len(lex) = Len(f.scopes)
    <3>1. /\ Len(con) = Len(TopNest) + 2 /\ Len(f.scopes) = Len(TopFrame.scopes) + 2
          /\ Len(lex) = Len(TopLex) + 2 /\ f.own = TopFrame.own
      BY <2>3, <2>5, <2>8
    <3> QED BY <3>1, <1>a
  <2> QED BY <2>3, <2>4, <2>5, <2>6, <2>8, <2>9, TopStep
<1>4. ASSUME OpenBlock PROVE ShadowIInv'
  <2> DEFINE f == PushScope(TopFrame)
             lex == PushLex(TopLex)
             con == TopNest \o <<"block">>
  <2>1. GoodFrame(f) /\ f.own = TopFrame.own /\ Len(f.scopes) = Len(TopFrame.scopes) + 1
    BY <1>t, PushIsGood
  <2>2. lex \in Seq([Names -> 0 .. MaxDecls]) /\ Len(lex) = Len(TopLex) + 1
    BY <1>t, LexFacts
  <2>3. SetTop(f, lex) /\ decls' = decls /\ Open(<<"block">>)
    BY <1>4 DEF OpenBlock
  <2>4. <<"block">> \in Seq(K) /\ Len(<<"block">>) = 1
    OBVIOUS
  <2>5. /\ con \in Seq(K) /\ con # <<>> /\ Len(con) = Len(TopNest) + 1
        /\ nest' = [nest EXCEPT ![Len(nest)] = con]
    BY <2>3, <2>4, <1>n
  <2> HIDE DEF f, lex, con
  <2>6. Len(con) = Len(f.scopes) - f.own + 1 /\ Len(lex) = Len(f.scopes)
    <3>1. /\ Len(con) = Len(TopNest) + 1 /\ Len(f.scopes) = Len(TopFrame.scopes) + 1
          /\ Len(lex) = Len(TopLex) + 1 /\ f.own = TopFrame.own
      BY <2>1, <2>2, <2>5
    <3> QED BY <3>1, <1>a
  <2> QED BY <1>t, <2>1, <2>2, <2>3, <2>5, <2>6, TopStep
<1>5. ASSUME CloseScope PROVE ShadowIInv'
  <2> DEFINE f == PopScope(TopFrame)
             lex == PopLex(TopLex)
             con == SubSeq(TopNest, 1, Len(TopNest) - 1)
  <2>0. Len(TopNest) > 1 /\ TopFrame.own < Len(TopFrame.scopes)
    BY <1>5, <1>t DEF CloseScope
  <2>1. GoodFrame(f) /\ f.own = TopFrame.own /\ Len(f.scopes) = Len(TopFrame.scopes) - 1
    BY <1>t, <2>0, PopIsGood
  <2>2. lex \in Seq([Names -> 0 .. MaxDecls]) /\ Len(lex) = Len(TopLex) - 1
    BY <1>t, LexFacts
  <2>3. SetTop(f, lex) /\ decls' = decls /\ nest' = [nest EXCEPT ![Len(nest)] = con]
    BY <1>5 DEF CloseScope, TopNest
  <2>4. con \in Seq(K) /\ Len(con) = Len(TopNest) - 1 /\ con # <<>>
    <3>1. con \in Seq(K) /\ Len(con) = Len(TopNest) - 1
      BY <2>0, <1>t, Shorter
    <3> HIDE DEF con
    <3>2. Len(con) # 0
      BY <3>1, <2>0, <1>t
    <3> QED BY <3>1, <3>2
  <2> HIDE DEF f, lex, con
  <2>5. Len(con) = Len(f.scopes) - f.own + 1 /\ Len(lex) = Len(f.scopes)
    <3>1. /\ Len(con) = Len(TopNest) - 1 /\ Len(f.scopes) = Len(TopFrame.scopes) - 1
          /\ Len(lex) = Len(TopLex) - 1 /\ f.own = TopFrame.own
      BY <2>1, <2>2, <2>4
    <3> QED BY <3>1, <1>a
  <2> QED BY <1>t, <2>1, <2>2, <2>3, <2>4, <2>5, TopStep
<1>6. ASSUME NEW kind \in Kinds, OpenFunction(kind) PROVE ShadowIInv'
  <2>1. EmptyLex \in [Names -> 0 .. MaxDecls]
    BY ShadowBounds DEF EmptyLex, NoDecl
  <2>2. <<EmptyLex>> \in Seq([Names -> 0 .. MaxDecls]) /\ Len(<<EmptyLex>>) = 1
    BY <2>1
  <2>3. <<>> \in Seq([Names -> Identifiers]) /\ Len(<<EmptyLex>>) = Len(<<>>) + 1
    BY <2>2
  <2>4. /\ frames' = Append(frames, FreshFrame(<<>>)) /\ nest' = Append(nest, <<kind>>)
        /\ lexical' = Append(lexical, <<EmptyLex>>) /\ decls' = decls
    BY <1>6 DEF OpenFunction
  <2> QED BY <2>2, <2>3, <2>4, EnterStep
<1>7. ASSUME OpenArrow PROVE ShadowIInv'
  <2>1. /\ PushLex(TopLex) \in Seq([Names -> 0 .. MaxDecls])
        /\ Len(PushLex(TopLex)) = Len(TopFrame.scopes) + 1
    BY <1>t, LexFacts
  <2>2. /\ frames' = Append(frames, FreshFrame(TopFrame.scopes))
        /\ nest' = Append(nest, <<"arrow">>) /\ "arrow" \in Kinds
        /\ lexical' = Append(lexical, PushLex(TopLex)) /\ decls' = decls
    BY <1>7 DEF OpenArrow
  <2>3. TopFrame.scopes \in Seq([Names -> Identifiers])
    BY <1>t
  <2> QED BY <2>1, <2>2, <2>3, EnterStep
<1>8. ASSUME CloseFunction PROVE ShadowIInv'
  BY <1>8, LeaveStep
<1>9. ASSUME UNCHANGED shadowVars PROVE ShadowIInv'
  BY <1>9 DEF shadowVars, ShadowIInv, ShadowTypeOK, GoodFrame, NamesAreMinted, NamesAreFresh
<1> QED BY <1>1, <1>2, <1>3, <1>4, <1>5, <1>6, <1>7, <1>8, <1>9 DEF ShadowNext

\* The checks only watch the pass: what they do is a behaviour of Shadowing.
LEMMA ChecksWatch == Spec => ShadowSpec
<1>1. Init => ShadowInit
  BY DEF Init
<1>2. [Next]_vars => [ShadowNext]_shadowVars
  BY DEF Next, vars, shadowVars, ShadowNext, CheckLet, CheckExportLet, CheckCatch, CheckLoop, CheckHeader,
         CheckBlock, CheckClose, CheckFunction, CheckCloseFunction
<1> QED BY <1>1, <1>2, PTL DEF Spec, ShadowSpec

\* The pass keeps its invariant in every program.
THEOREM ShadowInvariant == ShadowSpec => []ShadowIInv
BY ShadowInvInit, ShadowInvNext, PTL DEF ShadowSpec

\* If no identifier of the program looks like a minted one, bindings that are
\* visible at the same time never share a name.
THEOREM NamesDiffer ==
    ASSUME Plain
    PROVE  Spec => []VisibleNamesDiffer
<1>1. ShadowIInv => VisibleNamesDiffer
  <2> SUFFICES ASSUME ShadowIInv,
                      NEW g \in 1 .. Len(frames),
                      NEW i \in frames[g].own .. Len(frames[g].scopes),
                      NEW j \in frames[g].own .. Len(frames[g].scopes),
                      NEW n \in Names, NEW m \in Names,
                      frames[g].scopes[i][n] # Unbound,
                      frames[g].scopes[i][n] = frames[g].scopes[j][m]
               PROVE  i = j /\ n = m
    BY DEF VisibleNamesDiffer
  <2> DEFINE f == frames[g]
  <2>1. GoodFrame(f)
    BY DEF ShadowIInv
  <2>2. /\ f.scopes[i][n] = n \/ \E k \in 1 .. f.counters[n] : f.scopes[i][n] = Mint(n, k)
        /\ f.scopes[j][m] = m \/ \E l \in 1 .. f.counters[m] : f.scopes[j][m] = Mint(m, l)
    <3> HIDE DEF f
    <3> QED BY <2>1 DEF GoodFrame, NamesAreMinted, f
  <2>3. n = m
    BY <2>2, PlainMint
  <2>4. i = j
    BY <2>1, <2>3 DEF GoodFrame, NamesAreFresh
  <2> QED BY <2>3, <2>4
<1> QED BY <1>1, ShadowInvariant, ChecksWatch, PTL

-----------------------------------------------------------------------------
\* The checks: what one function's scopes, map and seen names have to do with
\* each other, operation by operation.
Lexes == Seq([Names -> 0 .. MaxDecls])

LEMMA DeclareShape ==
    ASSUME NEW f, GoodFrame(f), NEW n \in Names,
           NEW lex \in Lexes, Len(lex) = Len(f.scopes), NEW d \in 1 .. MaxDecls
    PROVE  LET g    == Declare(f, n)
               lx   == Denote(lex, n, d)
               last == Len(f.scopes)
           IN  /\ last \in Nat \ {0} /\ f.own \in 1 .. last /\ last \in 1 .. last
               /\ Len(g.scopes) = last /\ g.own = f.own /\ Len(lx) = last
               /\ g.scopes[last][n] # Unbound /\ lx[last][n] = d
               /\ ~ InCurrent(f, n) => g.scopes[last][n] = FinalName(f, n)
               /\ \A i \in 1 .. last, m \in Names :
                     i # last \/ m # n =>
                        g.scopes[i][m] = f.scopes[i][m] /\ lx[i][m] = lex[i][m]
               /\ \A m \in Names : Given(f, m) \subseteq Given(g, m)
               /\ FinalName(f, n) \in Identifiers /\ FinalName(f, n) \in Given(g, n)
<1> DEFINE g == Declare(f, n)
           lx == Denote(lex, n, d)
           last == Len(f.scopes)
           c == f.counters[n]
           new == FinalName(f, n)
<1>1. f \in FrameType /\ f.own <= last /\ last \in Nat \ {0} /\ c \in Nat
  BY DEF GoodFrame, FrameType
<1>2. n \in Identifiers /\ n # Unbound
  BY NamesAssumption DEF Unbound
<1>3. new \in Identifiers /\ new # Unbound
  <2>1. c + 1 \in Nat
    BY <1>1
  <2>2. Mint(n, c + 1) \in Identifiers /\ Mint(n, c + 1) # Unbound
    <3> HIDE DEF c
    <3> QED BY <2>1, <1>2, MintFacts
  <2> QED BY <2>2, <1>2 DEF FinalName
<1>4. /\ Len(lx) = last /\ lx[last][n] = d
      /\ \A i \in 1 .. last, m \in Names : i # last \/ m # n => lx[i][m] = lex[i][m]
  <2>1. d \in 0 .. MaxDecls
    OBVIOUS
  <2>2. lx = [lex EXCEPT ![last] = [lex[last] EXCEPT ![n] = d]]
    BY DEF Denote
  <2> QED BY <1>1, <2>1, <2>2 DEF Lexes
<1>5. CASE InCurrent(f, n)
  <2>1. g = f
    BY <1>5 DEF Declare
  <2>2. new = n
    BY <1>5 DEF FinalName, Renames
  <2> QED BY <1>1, <1>2, <1>3, <1>4, <1>5, <2>1, <2>2 DEF InCurrent, Given, FrameType
<1>6. CASE ~ InCurrent(f, n)
  <2>1. g = [f EXCEPT !.scopes[last][n] = new,
                      !.counters[n] = IF Renames(f, n) THEN @ + 1 ELSE @]
    BY <1>6 DEF Declare
  <2>2. /\ g.scopes = [f.scopes EXCEPT ![last][n] = new]
        /\ g.counters = [f.counters EXCEPT ![n] = IF Renames(f, n) THEN @ + 1 ELSE @]
        /\ g.own = f.own
        /\ Len(g.scopes) = last
    BY <1>1, <1>3, <2>1 DEF FrameType
  <2>3. /\ g.scopes[last][n] = new
        /\ \A i \in 1 .. last, m \in Names :
              i # last \/ m # n => g.scopes[i][m] = f.scopes[i][m]
    BY <1>1, <1>3, <2>2 DEF FrameType
  <2>4. \A m \in Names : f.counters[m] \in Nat /\ g.counters[m] \in Nat
                            /\ f.counters[m] <= g.counters[m]
    BY <1>1, <2>2 DEF FrameType
  <2>5. \A m \in Names : Given(f, m) \subseteq Given(g, m)
    <3> SUFFICES ASSUME NEW m \in Names, NEW k \in 1 .. f.counters[m]
                 PROVE  k \in 1 .. g.counters[m]
      BY DEF Given
    <3> QED BY <2>4
  <2>6. new \in Given(g, n)
    <3>1. CASE Renames(f, n)
      <4>1. new = Mint(n, c + 1) /\ g.counters[n] = c + 1
        BY <3>1, <1>1, <2>2 DEF FinalName, FrameType
      <4>2. c + 1 \in 1 .. g.counters[n]
        BY <4>1, <1>1
      <4> QED BY <4>1, <4>2 DEF Given
    <3>2. CASE ~ Renames(f, n)
      BY <3>2 DEF FinalName, Given
    <3> QED BY <3>1, <3>2
  <2>7. f.own \in 1 .. last /\ last \in 1 .. last
    BY <1>1 DEF FrameType
  <2> HIDE DEF g, lx, last, new
  <2> QED BY <1>1, <1>3, <1>4, <2>2, <2>3, <2>5, <2>6, <2>7 DEF g, lx, last, new
<1> QED BY <1>5, <1>6

\* Given names tell where they come from.
LEMMA GivenApart ==
    ASSUME Plain, NEW f, f \in FrameType, NEW n \in Names, NEW m \in Names,
           NEW name, name \in Given(f, m),
           name = n \/ \E k \in Nat : name = Mint(n, k)
    PROVE  n = m
<1>1. f.counters[m] \in Nat
  BY DEF FrameType
<1>2. name = m \/ \E k \in Nat : name = Mint(m, k)
  <2>1. \A k \in 1 .. f.counters[m] : k \in Nat
    BY <1>1
  <2> QED BY <2>1 DEF Given
<1> QED BY <1>2, PlainMint

LEMMA FinalNameForms ==
    ASSUME NEW f, f \in FrameType, NEW n \in Names
    PROVE  FinalName(f, n) = n \/ \E k \in Nat : FinalName(f, n) = Mint(n, k)
<1>1. f.counters[n] + 1 \in Nat
  BY DEF FrameType
<1> QED BY <1>1 DEF FinalName

\* In one function, two open declarations have two names.
LEMMA FrameNamesDiffer ==
    ASSUME Plain, NEW f, GoodFrame(f),
           NEW i \in f.own .. Len(f.scopes), NEW j \in f.own .. Len(f.scopes),
           NEW n \in Names, NEW m \in Names,
           f.scopes[i][n] # Unbound, f.scopes[i][n] = f.scopes[j][m]
    PROVE  i = j /\ n = m
<1>1. /\ f.scopes[i][n] = n \/ \E k \in 1 .. f.counters[n] : f.scopes[i][n] = Mint(n, k)
      /\ f.scopes[j][m] = m \/ \E l \in 1 .. f.counters[m] : f.scopes[j][m] = Mint(m, l)
  BY DEF GoodFrame, NamesAreMinted
<1>2. n = m
  BY <1>1, PlainMint
<1>3. i = j
  BY <1>2 DEF GoodFrame, NamesAreFresh
<1> QED BY <1>2, <1>3

LEMMA DeclareFollows ==
    ASSUME NEW f, GoodFrame(f), NEW n \in Names,
           NEW lex \in Lexes, Len(lex) = Len(f.scopes), NEW d \in 1 .. MaxDecls,
           Follows(f, lex)
    PROVE  Follows(Declare(f, n), Denote(lex, n, d))
<1> DEFINE g == Declare(f, n)
           lx == Denote(lex, n, d)
           last == Len(f.scopes)
<1> SUFFICES ASSUME NEW i \in 1 .. last, NEW m \in Names
             PROVE  g.scopes[i][m] = Unbound <=> lx[i][m] = NoDecl
  BY DeclareShape DEF Follows
<1>1. CASE i = last /\ m = n
  <2>1. g.scopes[i][m] # Unbound /\ lx[i][m] = d
    BY <1>1, DeclareShape
  <2> QED BY <2>1 DEF NoDecl
<1>2. CASE i # last \/ m # n
  <2>1. g.scopes[i][m] = f.scopes[i][m] /\ lx[i][m] = lex[i][m]
    BY <1>2, DeclareShape
  <2> QED BY <2>1 DEF Follows
<1> QED BY <1>1, <1>2

\* The heart of it: the definition of a fresh name leaves what the map says of
\* all other names in scope.
LEMMA DeclareMap ==
    ASSUME Plain, NEW f, GoodFrame(f), NEW n \in Names,
           NEW lex \in Lexes, Len(lex) = Len(f.scopes), NEW d \in 1 .. MaxDecls,
           Follows(f, lex), NEW map, MapFollows(f, lex, map),
           lex[Len(lex)][n] = NoDecl
    PROVE  MapFollows(Declare(f, n), Denote(lex, n, d), Define(map, FinalName(f, n), d))
<1> DEFINE g == Declare(f, n)
           lx == Denote(lex, n, d)
           last == Len(f.scopes)
           name == FinalName(f, n)
           new == Define(map, name, d)
<1>0. /\ last \in 1 .. last /\ f.own \in 1 .. last /\ last \in Nat
      /\ Len(g.scopes) = last /\ g.own = f.own
      /\ g.scopes[last][n] # Unbound /\ lx[last][n] = d
      /\ \A i \in 1 .. last, m \in Names :
            i # last \/ m # n => g.scopes[i][m] = f.scopes[i][m] /\ lx[i][m] = lex[i][m]
  BY DeclareShape
<1>1. f.scopes[last][n] = Unbound
  BY <1>0 DEF Follows
<1>2. g.scopes[last][n] = name
  BY <1>1, DeclareShape DEF InCurrent
<1>3. GoodFrame(g)
  BY DeclareIsGood
<1>4. DOMAIN new = DOMAIN map \cup {name} /\ new[name] = d
      /\ \A x \in DOMAIN map : x # name => new[x] = map[x]
  BY DEF Define
<1> HIDE DEF g, lx, last, name, new
<1>5. ASSUME NEW i \in f.own .. last, NEW m \in Names, lx[i][m] # NoDecl
      PROVE  g.scopes[i][m] \in DOMAIN new /\ new[g.scopes[i][m]] = lx[i][m]
  <2>0. i \in 1 .. last
    BY <1>0
  <2>1. CASE i = last /\ m = n
    BY <2>1, <1>0, <1>2, <1>4
  <2>2. CASE i # last \/ m # n
    <3>1. g.scopes[i][m] = f.scopes[i][m] /\ lx[i][m] = lex[i][m]
      BY <2>0, <2>2, <1>0
    <3>2. f.scopes[i][m] \in DOMAIN map /\ map[f.scopes[i][m]] = lex[i][m]
      BY <3>1, <1>5 DEF MapFollows, last
    <3>3. g.scopes[i][m] # name
      <4>1. i \in g.own .. Len(g.scopes) /\ last \in g.own .. Len(g.scopes)
        BY <1>0
      <4>2. g.scopes[last][n] = g.scopes[i][m] => last = i /\ n = m
        BY <4>1, <1>0, <1>3, FrameNamesDiffer
      <4> QED BY <4>2, <2>2, <1>2
    <3> QED BY <3>1, <3>2, <3>3, <1>4
  <2> QED BY <2>1, <2>2
<1> QED BY <1>0, <1>5 DEF MapFollows, g, lx, last, name, new

\* A declaration and what collect_decl has seen, with the name added or not.
LEMMA DeclareSeen ==
    ASSUME NEW f, GoodFrame(f), NEW n \in Names,
           NEW lex \in Lexes, Len(lex) = Len(f.scopes), NEW d \in 1 .. MaxDecls,
           NEW s \in Seq(SUBSET Identifiers), SeenFollows(f, s)
    PROVE  LET more == [s EXCEPT ![Len(s)] = @ \cup {FinalName(f, n)}]
           IN  /\ SeenFollows(Declare(f, n), s)
               /\ SeenFollows(Declare(f, n), more) /\ more \in Seq(SUBSET Identifiers)
<1> DEFINE g == Declare(f, n)
           last == Len(f.scopes)
           name == FinalName(f, n)
           more == [s EXCEPT ![Len(s)] = @ \cup {name}]
<1>1. /\ last \in 1 .. last /\ f.own \in 1 .. last /\ last \in Nat
      /\ Len(g.scopes) = last /\ g.own = f.own /\ Len(s) = last
      /\ g.scopes[last][n] # Unbound /\ name \in Given(g, n) /\ name \in Identifiers
      /\ \A i \in 1 .. last, m \in Names :
            i # last \/ m # n => g.scopes[i][m] = f.scopes[i][m]
      /\ \A m \in Names : Given(f, m) \subseteq Given(g, m)
  <2>1. Len(s) = last
    BY DEF SeenFollows
  <2> QED BY <2>1, DeclareShape
<1> HIDE DEF g, name, last
<1>2. /\ more \in Seq(SUBSET Identifiers) /\ Len(more) = last
      /\ more[last] = s[last] \cup {name}
      /\ \A i \in 1 .. last : i # last => more[i] = s[i]
  BY <1>1
<1>3. ASSUME NEW i \in f.own .. last, NEW x \in s[i]
      PROVE  \E m \in Names : g.scopes[i][m] # Unbound /\ x \in Given(g, m)
  <2>1. PICK m \in Names : f.scopes[i][m] # Unbound /\ x \in Given(f, m)
    BY DEF SeenFollows, last
  <2>2. i \in 1 .. last
    BY <1>1
  <2>3. g.scopes[i][m] # Unbound
    BY <1>1, <2>1, <2>2
  <2> QED BY <1>1, <2>1, <2>3
<1>4. SeenFollows(g, s)
  BY <1>1, <1>3 DEF SeenFollows
<1>5. SeenFollows(g, more)
  <2> HIDE DEF more
  <2> SUFFICES ASSUME NEW i \in f.own .. last, NEW x \in more[i]
               PROVE  \E m \in Names : g.scopes[i][m] # Unbound /\ x \in Given(g, m)
    BY <1>1, <1>2 DEF SeenFollows
  <2>1. CASE i = last /\ x = name
    BY <2>1, <1>1
  <2>2. CASE i # last \/ x # name
    <3>1. i \in 1 .. last
      BY <1>1
    <3>2. x \in s[i]
      BY <2>2, <3>1, <1>2
    <3> QED BY <3>2, <1>3
  <2> QED BY <2>1, <2>2
<1> QED BY <1>2, <1>4, <1>5 DEF g, name

\* A name collect_decl has seen was not the scope's first declaration of it.
LEMMA SeenIsDeclared ==
    ASSUME Plain, NEW f, GoodFrame(f), NEW n \in Names, NEW lex, Follows(f, lex),
           NEW s, SeenFollows(f, s), FinalName(f, n) \in s[Len(s)]
    PROVE  lex[Len(f.scopes)][n] # NoDecl
<1> DEFINE last == Len(f.scopes)
           name == FinalName(f, n)
<1>1. f \in FrameType /\ last \in 1 .. last /\ last \in f.own .. last /\ Len(s) = last
  BY DEF GoodFrame, FrameType, SeenFollows
<1>2. PICK m \in Names : f.scopes[last][m] # Unbound /\ name \in Given(f, m)
  BY <1>1 DEF SeenFollows
<1>3. name = n \/ \E k \in Nat : name = Mint(n, k)
  BY <1>1, FinalNameForms
<1>4. n = m
  BY <1>1, <1>2, <1>3, GivenApart
<1> QED BY <1>1, <1>2, <1>4 DEF Follows

\* A scope is pushed: nothing is bound in it, and nothing seen.
LEMMA PushAgrees ==
    ASSUME NEW f, GoodFrame(f), NEW lex \in Lexes, Len(lex) = Len(f.scopes),
           NEW s \in Seq(SUBSET Identifiers), Follows(f, lex), SeenFollows(f, s)
    PROVE  /\ Follows(PushScope(f), PushLex(lex))
           /\ SeenFollows(PushScope(f), Append(s, {}))
           /\ Append(s, {}) \in Seq(SUBSET Identifiers)
           /\ \A map : MapFollows(f, lex, map) => MapFollows(PushScope(f), PushLex(lex), map)
           /\ \A n \in Names : PushLex(lex)[Len(lex) + 1][n] = NoDecl
<1> DEFINE g == PushScope(f)
           lx == PushLex(lex)
           last == Len(f.scopes)
           t == Append(s, {})
<1>1. EmptyScope \in [Names -> Identifiers] /\ EmptyLex \in [Names -> 0 .. MaxDecls]
  BY ShadowBounds DEF EmptyScope, Unbound, Identifiers, EmptyLex, NoDecl
<1>2. f \in FrameType /\ last \in Nat /\ f.own \in Nat \ {0}
  BY DEF GoodFrame, FrameType
<1>3. /\ g.scopes = Append(f.scopes, EmptyScope) /\ g.own = f.own /\ g.counters = f.counters
  BY <1>2 DEF PushScope, FrameType
<1>4. /\ Len(g.scopes) = last + 1
      /\ \A i \in 1 .. last : g.scopes[i] = f.scopes[i]
      /\ \A n \in Names : g.scopes[last + 1][n] = Unbound
  BY <1>1, <1>2, <1>3 DEF FrameType, EmptyScope
<1>5. /\ Len(lx) = last + 1
      /\ \A i \in 1 .. last : lx[i] = lex[i]
      /\ \A n \in Names : lx[last + 1][n] = NoDecl
  BY <1>1, <1>2 DEF Lexes, PushLex, EmptyLex
<1>6. /\ t \in Seq(SUBSET Identifiers) /\ Len(t) = last + 1 /\ t[last + 1] = {}
      /\ \A i \in 1 .. last : t[i] = s[i]
  BY <1>2 DEF SeenFollows
<1>7. \A m \in Names : Given(g, m) = Given(f, m)
  BY <1>3 DEF Given
<1> HIDE DEF g, lx, last, t
<1>8. \A i \in 1 .. last + 1 : i \in 1 .. last \/ i = last + 1
  BY <1>2
<1>9. \A i \in f.own .. last + 1 : (i \in 1 .. last /\ i \in f.own .. last) \/ i = last + 1
  BY <1>2
<1>a. Follows(g, lx)
  BY <1>4, <1>5, <1>8 DEF Follows, last
<1>b. SeenFollows(g, t)
  <2> SUFFICES ASSUME NEW i \in f.own .. last + 1, NEW x \in t[i]
               PROVE  \E m \in Names : g.scopes[i][m] # Unbound /\ x \in Given(g, m)
    BY <1>3, <1>4, <1>6 DEF SeenFollows
  <2>1. i \in 1 .. last /\ i \in f.own .. last
    BY <1>6, <1>9
  <2>2. PICK m \in Names : f.scopes[i][m] # Unbound /\ x \in Given(f, m)
    BY <1>6, <2>1 DEF SeenFollows, last
  <2> QED BY <1>4, <1>7, <2>1, <2>2
<1>c. ASSUME NEW map, MapFollows(f, lex, map) PROVE MapFollows(g, lx, map)
  <2> SUFFICES ASSUME NEW i \in f.own .. last + 1, NEW n \in Names, lx[i][n] # NoDecl
               PROVE  g.scopes[i][n] \in DOMAIN map /\ map[g.scopes[i][n]] = lx[i][n]
    BY <1>3, <1>4 DEF MapFollows
  <2>1. i \in 1 .. last /\ i \in f.own .. last
    BY <1>5, <1>9
  <2>2. lx[i] = lex[i] /\ g.scopes[i] = f.scopes[i]
    BY <1>4, <1>5, <2>1
  <2> QED BY <2>1, <2>2, <1>c DEF MapFollows, last
<1>d. \A n \in Names : lx[Len(lex) + 1][n] = NoDecl
  BY <1>5 DEF last
<1> QED BY <1>6, <1>a, <1>b, <1>c, <1>d DEF g, lx, t

\* A scope is closed: what is left was there before.
LEMMA PopAgrees ==
    ASSUME NEW f, GoodFrame(f), f.own < Len(f.scopes),
           NEW lex \in Lexes, Len(lex) = Len(f.scopes),
           NEW s \in Seq(SUBSET Identifiers), Follows(f, lex), SeenFollows(f, s)
    PROVE  LET t == SubSeq(s, 1, Len(s) - 1)
           IN  /\ Follows(PopScope(f), PopLex(lex))
               /\ SeenFollows(PopScope(f), t) /\ t \in Seq(SUBSET Identifiers)
               /\ \A map : MapFollows(f, lex, map) => MapFollows(PopScope(f), PopLex(lex), map)
<1> DEFINE g == PopScope(f)
           lx == PopLex(lex)
           last == Len(f.scopes)
           t == SubSeq(s, 1, Len(s) - 1)
<1>1. f \in FrameType /\ last \in Nat /\ last > 0 /\ f.own \in Nat \ {0}
      /\ Len(s) = last
  BY DEF GoodFrame, FrameType, SeenFollows
<1>2. g.scopes = SubSeq(f.scopes, 1, last - 1) /\ g.own = f.own /\ g.counters = f.counters
  BY <1>1 DEF PopScope, FrameType
<1>3. /\ Len(g.scopes) = last - 1
      /\ \A i \in 1 .. last - 1 : g.scopes[i] = f.scopes[i]
  BY <1>1, <1>2, Shorter DEF FrameType
<1>4. /\ Len(lx) = last - 1
      /\ \A i \in 1 .. last - 1 : lx[i] = lex[i]
  BY <1>1, Shorter DEF Lexes, PopLex
<1>5. /\ t \in Seq(SUBSET Identifiers) /\ Len(t) = last - 1
      /\ \A i \in 1 .. last - 1 : t[i] = s[i]
  BY <1>1, Shorter
<1>6. \A m \in Names : Given(g, m) = Given(f, m)
  BY <1>2 DEF Given
<1> HIDE DEF g, lx, last, t
<1>7. \A i \in 1 .. last - 1 : i \in 1 .. last
  BY <1>1
<1>8. \A i \in f.own .. last - 1 : i \in 1 .. last - 1 /\ i \in f.own .. last
  BY <1>1
<1>a. Follows(g, lx)
  BY <1>3, <1>4, <1>7 DEF Follows, last
<1>b. SeenFollows(g, t)
  <2> SUFFICES ASSUME NEW i \in f.own .. last - 1, NEW x \in t[i]
               PROVE  \E m \in Names : g.scopes[i][m] # Unbound /\ x \in Given(g, m)
    BY <1>2, <1>3, <1>5 DEF SeenFollows
  <2>1. i \in 1 .. last - 1 /\ i \in f.own .. last
    BY <1>8
  <2>2. PICK m \in Names : f.scopes[i][m] # Unbound /\ x \in Given(f, m)
    BY <1>5, <2>1 DEF SeenFollows, last
  <2> QED BY <1>3, <1>6, <2>1, <2>2
<1>c. ASSUME NEW map, MapFollows(f, lex, map) PROVE MapFollows(g, lx, map)
  <2> SUFFICES ASSUME NEW i \in f.own .. last - 1, NEW n \in Names, lx[i][n] # NoDecl
               PROVE  g.scopes[i][n] \in DOMAIN map /\ map[g.scopes[i][n]] = lx[i][n]
    BY <1>2, <1>3 DEF MapFollows
  <2>1. i \in 1 .. last - 1 /\ i \in f.own .. last
    BY <1>8
  <2>2. lx[i] = lex[i] /\ g.scopes[i] = f.scopes[i]
    BY <1>3, <1>4, <2>1
  <2> QED BY <2>1, <2>2, <1>c DEF MapFollows, last
<1> QED BY <1>5, <1>a, <1>b, <1>c DEF g, lx, t

\* A function starts with the scopes it inherits, an empty map and nothing seen.
LEMMA FreshAgrees ==
    ASSUME NEW inherited \in Seq([Names -> Identifiers]), NEW lex \in Lexes,
           Len(lex) = Len(inherited),
           \A i \in 1 .. Len(inherited), n \in Names :
              inherited[i][n] = Unbound <=> lex[i][n] = NoDecl
    PROVE  LET f == FreshFrame(inherited)
               s == [i \in 1 .. Len(f.scopes) |-> {}]
           IN  /\ Follows(f, PushLex(lex))
               /\ SeenFollows(f, s) /\ s \in Seq(SUBSET Identifiers)
               /\ MapFollows(f, PushLex(lex), <<>>)
               /\ <<>> \in Maps
<1> DEFINE f == FreshFrame(inherited)
           lx == PushLex(lex)
           last == Len(inherited)
           s == [i \in 1 .. Len(f.scopes) |-> {}]
<1>1. EmptyScope \in [Names -> Identifiers] /\ EmptyLex \in [Names -> 0 .. MaxDecls]
  BY ShadowBounds DEF EmptyScope, Unbound, Identifiers, EmptyLex, NoDecl
<1>2. last \in Nat
  OBVIOUS
<1>3. /\ Len(f.scopes) = last + 1 /\ f.own = last + 1
      /\ \A i \in 1 .. last : f.scopes[i] = inherited[i]
      /\ \A n \in Names : f.scopes[last + 1][n] = Unbound
  BY <1>1 DEF FreshFrame, EmptyScope
<1>4. /\ Len(lx) = last + 1
      /\ \A i \in 1 .. last : lx[i] = lex[i]
      /\ \A n \in Names : lx[last + 1][n] = NoDecl
  BY <1>1 DEF Lexes, PushLex, EmptyLex
<1>5. s \in Seq(SUBSET Identifiers) /\ Len(s) = Len(f.scopes) /\ \A i \in 1 .. Len(f.scopes) : s[i] = {}
  <2> HIDE DEF f
  <2> QED BY <1>2, <1>3
<1>6. <<>> \in Maps
  <2>1. <<>> \in [{} -> Nat] /\ {} \in SUBSET Identifiers
    OBVIOUS
  <2> QED BY <2>1 DEF Maps
<1> HIDE DEF f, lx, last, s
<1>7. \A i \in 1 .. last + 1 : i \in 1 .. last \/ i = last + 1
  BY <1>2
<1>8. \A i \in last + 1 .. last + 1 : i = last + 1 /\ i \in 1 .. last + 1
  BY <1>2
<1>a. Follows(f, lx)
  BY <1>3, <1>4, <1>7 DEF Follows, last
<1>b. SeenFollows(f, s)
  BY <1>3, <1>5, <1>8 DEF SeenFollows
<1>c. MapFollows(f, lx, <<>>)
  BY <1>3, <1>4, <1>8 DEF MapFollows
<1> QED BY <1>5, <1>6, <1>a, <1>b, <1>c DEF f, lx, s

-----------------------------------------------------------------------------
\* The function being walked, as the checks see it.
LEMMA ChecksTop ==
    ASSUME ShadowIInv, ChecksTypeOK, ChecksAgree
    PROVE  /\ Len(seen) = Len(frames) /\ Len(locals) = Len(frames)
           /\ TopSeen \in Seq(SUBSET Identifiers) /\ TopMap \in Maps
           /\ Agrees(TopFrame, TopLex, TopSeen, TopMap)
           /\ TopLex \in Lexes /\ Len(TopLex) = Len(TopFrame.scopes)
           /\ GoodFrame(TopFrame)
<1>1. /\ Len(frames) \in 1 .. Len(frames) /\ Len(lexical) = Len(frames)
      /\ Len(seen) = Len(frames) /\ Len(locals) = Len(frames)
  BY TopFacts DEF ChecksTypeOK
<1>2. TopSeen \in Seq(SUBSET Identifiers) /\ TopMap \in Maps
  BY <1>1 DEF ChecksTypeOK, TopSeen, TopMap
<1>3. Agrees(TopFrame, TopLex, TopSeen, TopMap)
  BY <1>1 DEF ChecksAgree, TopFrame, TopLex, TopSeen, TopMap
<1> QED BY <1>1, <1>2, <1>3, TopFacts DEF Lexes

\* A declaration and the map: it stays one, and right if the name is new here.
LEMMA DeclareLocals ==
    ASSUME Plain, NEW f, GoodFrame(f), NEW n \in Names,
           NEW lex \in Lexes, Len(lex) = Len(f.scopes), NEW d \in 1 .. MaxDecls,
           Follows(f, lex), NEW map \in Maps
    PROVE  LET new == Define(map, FinalName(f, n), d)
           IN  /\ new \in Maps
               /\ lex[Len(lex)][n] = NoDecl /\ MapFollows(f, lex, map)
                    => MapFollows(Declare(f, n), Denote(lex, n, d), new)
<1> DEFINE name == FinalName(f, n)
<1>1. name \in Identifiers
  BY DeclareShape
<1>2. d \in Nat
  BY ShadowBounds
<1>3. Define(map, name, d) \in Maps
  <2>1. PICK S \in SUBSET Identifiers : map \in [S -> Nat]
    BY DEF Maps
  <2>2. Define(map, name, d) \in [S \cup {name} -> Nat]
    BY <2>1, <1>2 DEF Define
  <2> QED BY <2>2, <1>1 DEF Maps
<1> QED BY <1>3, DeclareMap

\* The agreement of all functions, of the next state.
LEMMA AgreesNext ==
    ASSUME \A g \in 1 .. Len(frames') :
              /\ Follows(frames'[g], lexical'[g]) /\ SeenFollows(frames'[g], seen'[g])
              /\ dups' = {} => MapFollows(frames'[g], lexical'[g], locals'[g])
    PROVE  ChecksAgree'
<1> SUFFICES ASSUME NEW g \in 1 .. Len(frames')
             PROVE  Agrees(frames[g], lexical[g], seen[g], locals[g])'
  BY DEF ChecksAgree
<1>1. Follows(frames[g], lexical[g])'
  BY DEF Follows
<1>2. SeenFollows(frames[g], seen[g])'
  <2>1. SeenFollows(frames'[g], seen'[g])
    OBVIOUS
  <2> QED BY <2>1 DEF SeenFollows, Given
<1>3. (dups = {} => MapFollows(frames[g], lexical[g], locals[g]))'
  BY DEF MapFollows
<1> QED BY <1>1, <1>2, <1>3 DEF Agrees

\* A step inside one function keeps what is known of all of them.
LEMMA TopAgreesStep ==
    ASSUME ShadowIInv, ChecksTypeOK, ChecksAgree, NEW f, NEW lex, NEW s, NEW map,
           SetTop(f, lex), seen' = SetTopOf(seen, s), locals' = SetTopOf(locals, map),
           s \in Seq(SUBSET Identifiers), map \in Maps, dups \subseteq dups',
           Follows(f, lex), SeenFollows(f, s), dups' = {} => MapFollows(f, lex, map)
    PROVE  ChecksTypeOK' /\ ChecksAgree'
<1> DEFINE top == Len(frames)
<1>1. /\ top \in Nat /\ top \in 1 .. top /\ frames \in Seq(FrameType)
      /\ Len(lexical) = top /\ Len(seen) = top /\ Len(locals) = top
      /\ seen \in Seq(Seq(SUBSET Identifiers)) /\ locals \in Seq(Maps)
      /\ lexical \in Seq(Lexes)
  BY TopFacts, ChecksTop DEF ChecksTypeOK, ShadowIInv, ShadowTypeOK, Lexes
<1>2. /\ Len(frames') = top /\ frames'[top] = f
      /\ \A g \in 1 .. top : g # top => frames'[g] = frames[g]
  BY <1>1 DEF SetTop
<1>3. lexical'[top] = lex /\ \A g \in 1 .. top : g # top => lexical'[g] = lexical[g]
  BY <1>1 DEF SetTop
<1>4. /\ seen' \in Seq(Seq(SUBSET Identifiers)) /\ Len(seen') = top
      /\ seen'[top] = s /\ \A g \in 1 .. top : g # top => seen'[g] = seen[g]
  BY <1>1 DEF SetTopOf
<1>5. /\ locals' \in Seq(Maps) /\ Len(locals') = top
      /\ locals'[top] = map /\ \A g \in 1 .. top : g # top => locals'[g] = locals[g]
  BY <1>1 DEF SetTopOf
<1>6. ASSUME NEW g \in 1 .. top
      PROVE  /\ Follows(frames'[g], lexical'[g]) /\ SeenFollows(frames'[g], seen'[g])
             /\ dups' = {} => MapFollows(frames'[g], lexical'[g], locals'[g])
  <2>1. CASE g = top
    BY <2>1, <1>2, <1>3, <1>4, <1>5
  <2>2. CASE g # top
    <3>1. /\ frames'[g] = frames[g] /\ lexical'[g] = lexical[g]
          /\ seen'[g] = seen[g] /\ locals'[g] = locals[g]
      BY <2>2, <1>2, <1>3, <1>4, <1>5
    <3>2. Agrees(frames[g], lexical[g], seen[g], locals[g])
      BY DEF ChecksAgree
    <3>3. dups' = {} => dups = {}
      OBVIOUS
    <3> QED BY <3>1, <3>2, <3>3 DEF Agrees
  <2> QED BY <2>1, <2>2
<1>7. ChecksTypeOK'
  BY <1>2, <1>4, <1>5 DEF ChecksTypeOK
<1>8. ChecksAgree'
  BY <1>2, <1>6, AgreesNext
<1> QED BY <1>7, <1>8

\* So does entering one, with the scopes it inherits, and leaving it.
LEMMA EnterAgreesStep ==
    ASSUME ShadowIInv, ChecksTypeOK, ChecksAgree,
           NEW inherited \in Seq([Names -> Identifiers]), NEW lex \in Lexes,
           Len(lex) = Len(inherited),
           \A i \in 1 .. Len(inherited), n \in Names :
              inherited[i][n] = Unbound <=> lex[i][n] = NoDecl,
           frames' = Append(frames, FreshFrame(inherited)),
           lexical' = Append(lexical, PushLex(lex)),
           seen' = Append(seen, [i \in 1 .. Len(frames'[Len(frames')].scopes) |-> {}]),
           locals' = Append(locals, <<>>), dups' = dups
    PROVE  ChecksTypeOK' /\ ChecksAgree'
<1> DEFINE top == Len(frames)
           f == FreshFrame(inherited)
           s == [i \in 1 .. Len(f.scopes) |-> {}]
           lx == PushLex(lex)
<1>1. /\ top \in Nat /\ frames \in Seq(FrameType)
      /\ Len(lexical) = top /\ Len(seen) = top /\ Len(locals) = top
      /\ seen \in Seq(Seq(SUBSET Identifiers)) /\ locals \in Seq(Maps)
      /\ lexical \in Seq(Lexes)
  BY TopFacts, ChecksTop DEF ChecksTypeOK, ShadowIInv, ShadowTypeOK, Lexes
<1>2. f \in FrameType /\ lx \in Lexes
  BY FreshIsGood, LexFacts DEF GoodFrame, Lexes
<1>3. /\ Follows(f, lx) /\ SeenFollows(f, s) /\ MapFollows(f, lx, <<>>)
      /\ s \in Seq(SUBSET Identifiers) /\ <<>> \in Maps
  BY FreshAgrees
<1>4. frames' = Append(frames, f) /\ lexical' = Append(lexical, lx)
  OBVIOUS
<1> HIDE DEF f, lx
<1>5. /\ Len(frames') = top + 1 /\ frames'[top + 1] = f
      /\ \A g \in 1 .. top : frames'[g] = frames[g]
  BY <1>1, <1>2, <1>4
<1>6. seen' = Append(seen, s)
  BY <1>5
<1> HIDE DEF s
<1>7. lexical'[top + 1] = lx /\ \A g \in 1 .. top : lexical'[g] = lexical[g]
  BY <1>1, <1>2, <1>4
<1>8. /\ seen' \in Seq(Seq(SUBSET Identifiers)) /\ Len(seen') = top + 1
      /\ seen'[top + 1] = s /\ \A g \in 1 .. top : seen'[g] = seen[g]
  BY <1>1, <1>3, <1>6
<1>9. /\ locals' \in Seq(Maps) /\ Len(locals') = top + 1
      /\ locals'[top + 1] = <<>> /\ \A g \in 1 .. top : locals'[g] = locals[g]
  BY <1>1, <1>3
<1>a. \A g \in 1 .. top + 1 : g \in 1 .. top \/ g = top + 1
  BY <1>1
<1>b. ASSUME NEW g \in 1 .. top + 1
      PROVE  /\ Follows(frames'[g], lexical'[g]) /\ SeenFollows(frames'[g], seen'[g])
             /\ dups' = {} => MapFollows(frames'[g], lexical'[g], locals'[g])
  <2>1. CASE g = top + 1
    BY <2>1, <1>3, <1>5, <1>7, <1>8, <1>9
  <2>2. CASE g \in 1 .. top
    <3>1. /\ frames'[g] = frames[g] /\ lexical'[g] = lexical[g]
          /\ seen'[g] = seen[g] /\ locals'[g] = locals[g]
      BY <2>2, <1>5, <1>7, <1>8, <1>9
    <3>2. Agrees(frames[g], lexical[g], seen[g], locals[g])
      BY <2>2 DEF ChecksAgree
    <3> QED BY <3>1, <3>2 DEF Agrees
  <2> QED BY <2>1, <2>2, <1>a
<1>c. ChecksTypeOK'
  BY <1>5, <1>8, <1>9 DEF ChecksTypeOK
<1>d. ChecksAgree'
  BY <1>5, <1>b, AgreesNext
<1> QED BY <1>c, <1>d

LEMMA LeaveAgreesStep ==
    ASSUME ShadowIInv, ChecksTypeOK, ChecksAgree, CheckCloseFunction
    PROVE  ChecksTypeOK' /\ ChecksAgree'
<1> DEFINE top == Len(frames)
<1>1. /\ top \in Nat /\ top > 1 /\ frames \in Seq(FrameType)
      /\ Len(lexical) = top /\ Len(seen) = top /\ Len(locals) = top
      /\ seen \in Seq(Seq(SUBSET Identifiers)) /\ locals \in Seq(Maps)
      /\ lexical \in Seq(Lexes)
  BY TopFacts, ChecksTop
     DEF ChecksTypeOK, ShadowIInv, ShadowTypeOK, Lexes, CheckCloseFunction, CloseFunction
<1>2. /\ frames' = SubSeq(frames, 1, top - 1) /\ lexical' = SubSeq(lexical, 1, top - 1)
      /\ seen' = SubSeq(seen, 1, top - 1) /\ locals' = SubSeq(locals, 1, top - 1)
      /\ dups' = dups
  BY <1>1 DEF CheckCloseFunction, CloseFunction
<1> HIDE DEF top
<1>3. Len(frames') = top - 1 /\ \A g \in 1 .. top - 1 : frames'[g] = frames[g]
  BY <1>1, <1>2, Shorter DEF top
<1>4. Len(lexical') = top - 1 /\ \A g \in 1 .. top - 1 : lexical'[g] = lexical[g]
  BY <1>1, <1>2, Shorter DEF top
<1>5. /\ seen' \in Seq(Seq(SUBSET Identifiers)) /\ Len(seen') = top - 1
      /\ \A g \in 1 .. top - 1 : seen'[g] = seen[g]
  BY <1>1, <1>2, Shorter
<1>6. /\ locals' \in Seq(Maps) /\ Len(locals') = top - 1
      /\ \A g \in 1 .. top - 1 : locals'[g] = locals[g]
  BY <1>1, <1>2, Shorter
<1>7. ASSUME NEW g \in 1 .. top - 1
      PROVE  /\ Follows(frames'[g], lexical'[g]) /\ SeenFollows(frames'[g], seen'[g])
             /\ dups' = {} => MapFollows(frames'[g], lexical'[g], locals'[g])
  <2>1. /\ frames'[g] = frames[g] /\ lexical'[g] = lexical[g]
        /\ seen'[g] = seen[g] /\ locals'[g] = locals[g]
    BY <1>3, <1>4, <1>5, <1>6
  <2>2. g \in 1 .. top
    BY <1>1
  <2>3. Agrees(frames[g], lexical[g], seen[g], locals[g])
    BY <2>2 DEF ChecksAgree, top
  <2> QED BY <1>2, <2>1, <2>3 DEF Agrees
<1>8. ChecksTypeOK'
  BY <1>3, <1>5, <1>6 DEF ChecksTypeOK
<1>9. ChecksAgree'
  BY <1>3, <1>7, AgreesNext
<1> QED BY <1>8, <1>9

LEMMA ChecksInvInit == Init => ChecksIInv
<1> SUFFICES ASSUME Init PROVE ChecksIInv
  OBVIOUS
<1> DEFINE f == FreshFrame(<<>>)
           lx == PushLex(<<>>)
           s == [i \in 1 .. Len(f.scopes) |-> {}]
<1>1. frames = <<f>> /\ lexical = <<lx>> /\ seen = << << {} >> >> /\ locals = << <<>> >>
      /\ reported = {} /\ dups = {}
  <2>1. lx = <<EmptyLex>>
    BY DEF PushLex
  <2> QED BY <2>1 DEF Init, ShadowInit
<1>2. Len(f.scopes) = 1
  BY DEF FreshFrame
<1>3. << {} >> = s
  <2>1. s = [i \in 1 .. 1 |-> {}]
    BY <1>2
  <2> HIDE DEF s
  <2> QED BY <2>1
<1>4. /\ Follows(f, lx) /\ SeenFollows(f, s) /\ MapFollows(f, lx, <<>>)
      /\ s \in Seq(SUBSET Identifiers) /\ <<>> \in Maps
  <2>1. <<>> \in Seq([Names -> Identifiers]) /\ <<>> \in Lexes /\ Len(<<>>) = 0
    BY DEF Lexes
  <2>2. \A i \in 1 .. 0 : FALSE
    OBVIOUS
  <2> QED BY <2>1, <2>2, FreshAgrees
<1> HIDE DEF f, lx, s
<1>5. ChecksTypeOK
  <2>1. frames = <<f>> /\ seen = <<s>>
    BY <1>1, <1>3
  <2>2. seen \in Seq(Seq(SUBSET Identifiers)) /\ Len(seen) = 1 /\ Len(frames) = 1
    BY <2>1, <1>4
  <2>3. locals \in Seq(Maps) /\ Len(locals) = 1
    BY <1>1, <1>4
  <2> QED BY <2>2, <2>3 DEF ChecksTypeOK
<1>6. ChecksAgree
  <2> SUFFICES ASSUME NEW g \in 1 .. Len(frames)
               PROVE  Agrees(frames[g], lexical[g], seen[g], locals[g])
    BY DEF ChecksAgree
  <2>1. g = 1
    BY <1>1
  <2>2. frames[g] = f /\ lexical[g] = lx /\ seen[g] = s /\ locals[g] = <<>>
    BY <2>1, <1>1, <1>3
  <2> QED BY <2>2, <1>4 DEF Agrees
<1>7. ShadowIInv
  BY ShadowInvInit DEF Init
<1> QED BY <1>1, <1>5, <1>6, <1>7 DEF ChecksIInv, OnlyDuplicatesReported

LEMMA StepWatched == [Next]_vars => [ShadowNext]_shadowVars
BY DEF Next, vars, shadowVars, ShadowNext, CheckLet, CheckExportLet, CheckCatch, CheckLoop, CheckHeader,
       CheckBlock, CheckClose, CheckFunction, CheckCloseFunction

\* A let in the top function, whatever collect_decl makes of it.
LEMMA LetAgrees ==
    ASSUME Plain, ChecksIInv, NEW n \in Names, Let(n), NEW s,
           s = TopSeen \/ s = [TopSeen EXCEPT ![Len(TopSeen)] = @ \cup {FinalName(TopFrame, n)}],
           seen' = SetTopOf(seen, s),
           locals' = SetTopOf(locals, Define(TopMap, FinalName(TopFrame, n), decls')),
           dups' = IF TopLex[Len(TopLex)][n] # NoDecl THEN dups \cup {decls'} ELSE dups
    PROVE  ChecksTypeOK' /\ ChecksAgree'
<1> DEFINE d == decls + 1
           map == Define(TopMap, FinalName(TopFrame, n), d)
<1>1. /\ ShadowIInv /\ ChecksTypeOK /\ ChecksAgree
      /\ TopSeen \in Seq(SUBSET Identifiers) /\ TopMap \in Maps
      /\ TopLex \in Lexes /\ Len(TopLex) = Len(TopFrame.scopes) /\ GoodFrame(TopFrame)
      /\ Follows(TopFrame, TopLex) /\ SeenFollows(TopFrame, TopSeen)
      /\ dups = {} => MapFollows(TopFrame, TopLex, TopMap)
  BY ChecksTop DEF ChecksIInv, Agrees
<1>2. d \in 1 .. MaxDecls /\ decls' = d
  <2>1. decls \in 0 .. MaxDecls /\ MaxDecls \in Nat
    BY <1>1, TopFacts, ShadowBounds
  <2>2. decls < MaxDecls /\ decls' = decls + 1
    BY DEF Let
  <2> QED BY <2>1, <2>2
<1>3. SetTop(Declare(TopFrame, n), Denote(TopLex, n, d))
  BY DEF Let
<1> HIDE DEF d
<1>4. Follows(Declare(TopFrame, n), Denote(TopLex, n, d))
  BY <1>1, <1>2, DeclareFollows
<1>5. SeenFollows(Declare(TopFrame, n), s) /\ s \in Seq(SUBSET Identifiers)
  <2> DEFINE more == [TopSeen EXCEPT ![Len(TopSeen)] = @ \cup {FinalName(TopFrame, n)}]
  <2>1. /\ SeenFollows(Declare(TopFrame, n), TopSeen)
        /\ SeenFollows(Declare(TopFrame, n), more) /\ more \in Seq(SUBSET Identifiers)
    BY <1>1, <1>2, DeclareSeen
  <2>2. s = TopSeen \/ s = more
    OBVIOUS
  <2> HIDE DEF more
  <2> QED BY <1>1, <2>1, <2>2
<1>6. /\ map \in Maps
      /\ TopLex[Len(TopLex)][n] = NoDecl /\ MapFollows(TopFrame, TopLex, TopMap)
           => MapFollows(Declare(TopFrame, n), Denote(TopLex, n, d), map)
  BY <1>1, <1>2, DeclareLocals
<1>7. dups \subseteq dups'
      /\ (dups' = {} => dups = {} /\ TopLex[Len(TopLex)][n] = NoDecl)
  OBVIOUS
<1>8. locals' = SetTopOf(locals, map)
  BY <1>2
<1> HIDE DEF map
<1> QED BY <1>1, <1>3, <1>4, <1>5, <1>6, <1>7, <1>8, TopAgreesStep

\* One step per construct, as the checks take part in it.
LEMMA ChecksInvNext ==
    ASSUME Plain, ChecksIInv, [Next]_vars
    PROVE  ChecksIInv'
<1>t. /\ ShadowIInv /\ ChecksTypeOK /\ ChecksAgree /\ OnlyDuplicatesReported
      /\ TopSeen \in Seq(SUBSET Identifiers) /\ TopMap \in Maps
      /\ TopLex \in Lexes /\ Len(TopLex) = Len(TopFrame.scopes) /\ GoodFrame(TopFrame)
      /\ Follows(TopFrame, TopLex) /\ SeenFollows(TopFrame, TopSeen)
      /\ dups = {} => MapFollows(TopFrame, TopLex, TopMap)
      /\ Len(seen) = Len(frames) /\ Len(locals) = Len(frames)
  BY ChecksTop DEF ChecksIInv, Agrees
<1>u. seen = SetTopOf(seen, TopSeen) /\ locals = SetTopOf(locals, TopMap)
  <2>1. seen \in Seq(Seq(SUBSET Identifiers)) /\ locals \in Seq(Maps)
    BY <1>t DEF ChecksTypeOK
  <2> QED BY <2>1, <1>t, TopFacts DEF SetTopOf, TopSeen, TopMap
<1>d. decls < MaxDecls => decls + 1 \in 1 .. MaxDecls
  BY <1>t, TopFacts, ShadowBounds
<1> DEFINE Good == ChecksTypeOK' /\ ChecksAgree' /\ OnlyDuplicatesReported'
           p == PushScope(TopFrame)
           lx == PushLex(TopLex)
           t == Append(TopSeen, {})
           d == decls + 1
<1>p. /\ GoodFrame(p) /\ lx \in Lexes /\ Len(lx) = Len(p.scopes) /\ t \in Seq(SUBSET Identifiers)
      /\ Follows(p, lx) /\ SeenFollows(p, t)
      /\ dups = {} => MapFollows(p, lx, TopMap)
      /\ \A n \in Names : lx[Len(lx)][n] = NoDecl
  <2>1. /\ GoodFrame(p) /\ lx \in Lexes /\ Len(lx) = Len(TopLex) + 1
        /\ Len(p.scopes) = Len(TopFrame.scopes) + 1
    BY <1>t, PushIsGood, LexFacts DEF Lexes
  <2> HIDE DEF p, lx, t
  <2>2. /\ Follows(p, lx) /\ SeenFollows(p, t) /\ t \in Seq(SUBSET Identifiers)
        /\ dups = {} => MapFollows(p, lx, TopMap)
        /\ \A n \in Names : lx[Len(TopLex) + 1][n] = NoDecl
    BY <1>t, PushAgrees DEF p, lx, t
  <2> QED BY <2>1, <2>2, <1>t
<1>h. ASSUME NEW n \in Names, d \in 1 .. MaxDecls
      PROVE  LET h   == Declare(p, n)
                 lh  == Denote(lx, n, d)
                 map == Define(TopMap, FinalName(p, n), d)
             IN  /\ GoodFrame(h) /\ lh \in Lexes /\ Len(lh) = Len(h.scopes)
                 /\ Follows(h, lh) /\ SeenFollows(h, t) /\ map \in Maps
                 /\ dups = {} => MapFollows(h, lh, map)
  <2> HIDE DEF p, lx, t, d
  <2> DEFINE h == Declare(p, n)
             lh == Denote(lx, n, d)
             map == Define(TopMap, FinalName(p, n), d)
  <2>1. GoodFrame(h) /\ Len(h.scopes) = Len(p.scopes)
    BY <1>p, DeclareIsGood
  <2>2. lh \in Lexes /\ Len(lh) = Len(lx)
    <3>1. Len(lx) # 0 /\ d \in 0 .. MaxDecls
      BY <1>p, <1>h DEF GoodFrame, FrameType
    <3> QED BY <3>1, <1>p, LexFacts DEF Lexes
  <2>3. Follows(h, lh)
    BY <1>p, <1>h, DeclareFollows
  <2>4. SeenFollows(h, t)
    BY <1>p, <1>h, DeclareSeen
  <2>5. map \in Maps /\ (dups = {} => MapFollows(h, lh, map))
    BY <1>p, <1>t, <1>h, DeclareLocals
  <2> HIDE DEF h, lh, map
  <2> QED BY <1>p, <2>1, <2>2, <2>3, <2>4, <2>5 DEF h, lh, map
<1>1. ASSUME NEW n \in Names, CheckLet(n) PROVE Good
  <2> DEFINE name == FinalName(TopFrame, n)
             more == [TopSeen EXCEPT ![Len(TopSeen)] = @ \cup {name}]
             s == IF Checked THEN more ELSE TopSeen
  <2>1. seen' = SetTopOf(seen, s)
    BY <1>1, <1>u DEF CheckLet
  <2>2. /\ Let(n) /\ locals' = SetTopOf(locals, Define(TopMap, name, decls'))
        /\ dups' = IF TopLex[Len(TopLex)][n] # NoDecl THEN dups \cup {decls'} ELSE dups
        /\ reported' = IF Checked /\ name \in TopSeen[Len(TopSeen)]
                       THEN reported \cup {decls'} ELSE reported
    BY <1>1 DEF CheckLet
  <2>3. s = TopSeen \/ s = more
    OBVIOUS
  <2>4. ChecksTypeOK' /\ ChecksAgree'
    <3> HIDE DEF s
    <3> QED BY <2>1, <2>2, <2>3, LetAgrees
  <2>5. OnlyDuplicatesReported'
    <3>1. CASE Checked /\ name \in TopSeen[Len(TopSeen)]
      <4>1. TopLex[Len(TopLex)][n] # NoDecl
        BY <1>t, <3>1, SeenIsDeclared
      <4> QED BY <4>1, <3>1, <2>2, <1>t DEF OnlyDuplicatesReported
    <3>2. CASE ~ (Checked /\ name \in TopSeen[Len(TopSeen)])
      BY <3>2, <2>2, <1>t DEF OnlyDuplicatesReported
    <3> QED BY <3>1, <3>2
  <2> QED BY <2>4, <2>5
<1>2. ASSUME NEW n \in Names, CheckExportLet(n) PROVE Good
  <2>1. /\ Let(n) /\ locals' = SetTopOf(locals, Define(TopMap, FinalName(TopFrame, n), decls'))
        /\ dups' = IF TopLex[Len(TopLex)][n] # NoDecl THEN dups \cup {decls'} ELSE dups
        /\ seen' = SetTopOf(seen, TopSeen) /\ reported' = reported
    BY <1>2, <1>u DEF CheckExportLet
  <2>2. ChecksTypeOK' /\ ChecksAgree'
    BY <2>1, LetAgrees
  <2> QED BY <2>1, <2>2, <1>t DEF OnlyDuplicatesReported
<1>3. ASSUME NEW n \in Names, CheckCatch(n) PROVE Good
  <2> DEFINE map == Define(TopMap, FinalName(p, n), d)
  <2>1. d \in 1 .. MaxDecls /\ decls' = d
    BY <1>3, <1>d DEF CheckCatch, CheckHeader, OpenCatch
  <2>2. TopSeen \o << {} >> = t
    BY <1>t
  <2>3. SetTop(Declare(p, n), Denote(lx, n, d)) /\ seen' = SetTopOf(seen, t)
        /\ locals' = SetTopOf(locals, map) /\ dups' = dups /\ reported' = reported
    BY <1>3, <2>1, <2>2 DEF CheckCatch, CheckHeader, OpenCatch
  <2> HIDE DEF p, lx, t, d
  <2>4. /\ Follows(Declare(p, n), Denote(lx, n, d)) /\ SeenFollows(Declare(p, n), t) /\ map \in Maps
        /\ dups = {} => MapFollows(Declare(p, n), Denote(lx, n, d), map)
    BY <2>1, <1>h
  <2> HIDE DEF map
  <2>5. ChecksTypeOK' /\ ChecksAgree'
    BY <1>t, <1>p, <2>3, <2>4, TopAgreesStep
  <2> QED BY <2>3, <2>5, <1>t DEF OnlyDuplicatesReported
<1>4. ASSUME NEW n \in Names, NEW kind \in Kinds, CheckLoop(kind, n) PROVE Good
  <2> DEFINE h == Declare(p, n)
             lh == Denote(lx, n, d)
             map == Define(TopMap, FinalName(p, n), d)
             tt == Append(t, {})
  <2>1. d \in 1 .. MaxDecls /\ decls' = d
    BY <1>4, <1>d DEF CheckLoop, CheckHeader, OpenLoop
  <2>2. TopSeen \o << {}, {} >> = tt
    <3> DEFINE S == SUBSET Identifiers
    <3>1. \A q \in Seq(S), e, g \in S : q \o <<e, g>> = Append(Append(q, e), g)
      OBVIOUS
    <3>2. {} \in S
      OBVIOUS
    <3> HIDE DEF S
    <3> QED BY <3>1, <3>2, <1>t DEF S
  <2>3. SetTop(PushScope(h), PushLex(lh)) /\ seen' = SetTopOf(seen, tt)
        /\ locals' = SetTopOf(locals, map) /\ dups' = dups /\ reported' = reported
    BY <1>4, <2>1, <2>2 DEF CheckLoop, CheckHeader, OpenLoop
  <2> HIDE DEF p, lx, t, d
  <2>4. /\ GoodFrame(h) /\ lh \in Lexes /\ Len(lh) = Len(h.scopes)
        /\ Follows(h, lh) /\ SeenFollows(h, t) /\ map \in Maps
        /\ dups = {} => MapFollows(h, lh, map)
    BY <2>1, <1>h
  <2> HIDE DEF h, lh, map
  <2>5. /\ Follows(PushScope(h), PushLex(lh)) /\ SeenFollows(PushScope(h), tt)
        /\ tt \in Seq(SUBSET Identifiers)
        /\ dups = {} => MapFollows(PushScope(h), PushLex(lh), map)
    BY <2>4, <1>p, PushAgrees
  <2> HIDE DEF tt
  <2>6. ChecksTypeOK' /\ ChecksAgree'
    BY <1>t, <2>3, <2>4, <2>5, TopAgreesStep
  <2> QED BY <2>3, <2>6, <1>t DEF OnlyDuplicatesReported
<1>5. ASSUME CheckBlock PROVE Good
  <2>1. SetTop(p, lx) /\ seen' = SetTopOf(seen, t) /\ locals' = SetTopOf(locals, TopMap)
        /\ dups' = dups /\ reported' = reported
    BY <1>5, <1>u DEF CheckBlock, OpenBlock
  <2> HIDE DEF p, lx, t
  <2>2. ChecksTypeOK' /\ ChecksAgree'
    BY <1>t, <1>p, <2>1, TopAgreesStep
  <2> QED BY <2>1, <2>2, <1>t DEF OnlyDuplicatesReported
<1>6. ASSUME CheckClose PROVE Good
  <2> DEFINE f == PopScope(TopFrame)
             l == PopLex(TopLex)
             s == SubSeq(TopSeen, 1, Len(TopSeen) - 1)
  <2>1. SetTop(f, l) /\ seen' = SetTopOf(seen, s) /\ locals' = SetTopOf(locals, TopMap)
        /\ dups' = dups /\ reported' = reported
    BY <1>6, <1>u DEF CheckClose, CloseScope
  <2>2. TopFrame.own < Len(TopFrame.scopes)
    BY <1>6, <1>t, TopFacts DEF CheckClose, CloseScope
  <2>3. /\ Follows(f, l) /\ SeenFollows(f, s) /\ s \in Seq(SUBSET Identifiers)
        /\ dups = {} => MapFollows(f, l, TopMap)
    BY <1>t, <2>2, PopAgrees
  <2> HIDE DEF f, l, s
  <2>4. ChecksTypeOK' /\ ChecksAgree'
    BY <1>t, <2>1, <2>3, TopAgreesStep
  <2> QED BY <2>1, <2>4, <1>t DEF OnlyDuplicatesReported
<1>7. ASSUME CheckFunction PROVE Good
  <2>1. /\ seen' = Append(seen, [i \in 1 .. Len(frames'[Len(frames')].scopes) |-> {}])
        /\ locals' = Append(locals, <<>>) /\ dups' = dups /\ reported' = reported
    BY <1>7 DEF CheckFunction
  <2>2. CASE OpenArrow
    <3>1. frames' = Append(frames, FreshFrame(TopFrame.scopes))
          /\ lexical' = Append(lexical, PushLex(TopLex))
      BY <2>2 DEF OpenArrow
    <3>2. TopFrame.scopes \in Seq([Names -> Identifiers])
      BY <1>t DEF GoodFrame, FrameType
    <3>3. \A i \in 1 .. Len(TopFrame.scopes), n \in Names :
             TopFrame.scopes[i][n] = Unbound <=> TopLex[i][n] = NoDecl
      BY <1>t DEF Follows
    <3>4. ChecksTypeOK' /\ ChecksAgree'
      BY <1>t, <2>1, <3>1, <3>2, <3>3, EnterAgreesStep
    <3> QED BY <3>4, <2>1, <1>t DEF OnlyDuplicatesReported
  <2>3. ASSUME NEW kind \in Kinds, OpenFunction(kind) PROVE Good
    <3>1. frames' = Append(frames, FreshFrame(<<>>)) /\ lexical' = Append(lexical, PushLex(<<>>))
      <4>1. PushLex(<<>>) = <<EmptyLex>>
        BY DEF PushLex
      <4> QED BY <4>1, <2>3 DEF OpenFunction
    <3>2. <<>> \in Seq([Names -> Identifiers]) /\ <<>> \in Lexes /\ Len(<<>>) = 0
      BY DEF Lexes
    <3>3. \A i \in 1 .. 0 : FALSE
      OBVIOUS
    <3>4. ChecksTypeOK' /\ ChecksAgree'
      BY <1>t, <2>1, <3>1, <3>2, <3>3, EnterAgreesStep
    <3> QED BY <3>4, <2>1, <1>t DEF OnlyDuplicatesReported
  <2> QED BY <1>7, <2>2, <2>3 DEF CheckFunction
<1>8. ASSUME CheckCloseFunction PROVE Good
  <2>1. dups' = dups /\ reported' = reported
    BY <1>8 DEF CheckCloseFunction
  <2> QED BY <2>1, <1>8, <1>t, LeaveAgreesStep DEF OnlyDuplicatesReported
<1>9. ASSUME UNCHANGED vars PROVE Good
  <2>1. /\ frames' = frames /\ lexical' = lexical /\ seen' = seen /\ locals' = locals
        /\ dups' = dups /\ reported' = reported
    BY <1>9 DEF vars
  <2>2. ASSUME NEW g \in 1 .. Len(frames')
        PROVE  /\ Follows(frames'[g], lexical'[g]) /\ SeenFollows(frames'[g], seen'[g])
               /\ dups' = {} => MapFollows(frames'[g], lexical'[g], locals'[g])
    BY <2>1, <1>t DEF ChecksAgree, Agrees
  <2>3. ChecksAgree'
    BY <2>2, AgreesNext
  <2>4. ChecksTypeOK'
    BY <2>1, <1>t DEF ChecksTypeOK
  <2> QED BY <2>1, <2>3, <2>4, <1>t DEF OnlyDuplicatesReported
<1>a. Good
  BY <1>1, <1>2, <1>3, <1>4, <1>5, <1>6, <1>7, <1>8, <1>9 DEF Next
<1>b. ShadowIInv'
  BY <1>t, StepWatched, ShadowInvNext
<1> QED BY <1>a, <1>b DEF ChecksIInv

-----------------------------------------------------------------------------
\* A set of numbers has a least one, and a bounded one a greatest.
LEMMA LeastNumber ==
    ASSUME NEW T, T \subseteq Nat, T # {}
    PROVE  \E x \in T : \A y \in T : x <= y
<1> DEFINE R == OpToRel(<, Nat)
<1>1. IsWellFoundedOn(R, Nat)
  BY NatLessThanWellFounded
<1>2. \A x, y \in Nat : y < x => <<y, x>> \in R
  BY DEF OpToRel
<1> HIDE DEF R
<1>3. PICK x \in T : \A y \in T : ~ (<<y, x>> \in R)
  BY <1>1, WFMin
<1>4. \A y \in T : x <= y
  <2> TAKE y \in T
  <2>1. x \in Nat /\ y \in Nat /\ ~ (y < x)
    BY <1>2, <1>3
  <2> QED BY <2>1
<1> QED BY <1>3, <1>4

LEMMA GreatestNumber ==
    ASSUME NEW b \in Nat, NEW T, T \subseteq 1 .. b, T # {}
    PROVE  \E x \in T : \A y \in T : y <= x
<1> DEFINE U == {b - x : x \in T}
<1>1. U \subseteq Nat /\ U # {}
  <2>1. \A x \in T : b - x \in Nat
    <3> TAKE x \in T
    <3>1. x \in 1 .. b
      OBVIOUS
    <3> QED BY <3>1
  <2> QED BY <2>1
<1>2. PICK u \in U : \A v \in U : u <= v
  BY <1>1, LeastNumber
<1>3. PICK x \in T : u = b - x
  BY <1>2
<1>4. \A y \in T : b - x <= b - y
  BY <1>2, <1>3
<1>5. \A y \in T : y <= x
  <2> TAKE y \in T
  <2>1. x \in Nat /\ y \in Nat /\ b - x <= b - y
    BY <1>4
  <2> QED BY <2>1
<1> QED BY <1>5

\* What a reference finds: the innermost scope that binds the name.
LEMMA LookupFinds ==
    ASSUME NEW scopes, Len(scopes) \in Nat, NEW n, NEW absent
    PROVE  /\ (\A i \in 1 .. Len(scopes) : scopes[i][n] = absent) => Lookup(scopes, n, absent) = absent
           /\ (\E i \in 1 .. Len(scopes) : scopes[i][n] # absent) =>
                \E i \in 1 .. Len(scopes) :
                    /\ scopes[i][n] # absent
                    /\ \A j \in 1 .. Len(scopes) : scopes[j][n] # absent => j <= i
                    /\ Lookup(scopes, n, absent) = scopes[i][n]
<1> DEFINE bound == {i \in 1 .. Len(scopes) : scopes[i][n] # absent}
           best == CHOOSE i \in bound : \A j \in bound : j <= i
<1>1. bound = {} => Lookup(scopes, n, absent) = absent
  BY DEF Lookup
<1>2. bound # {} => Lookup(scopes, n, absent) = scopes[best][n]
  BY DEF Lookup
<1>3. ASSUME bound # {}
      PROVE  best \in bound /\ \A j \in bound : j <= best
  <2>1. \E i \in bound : \A j \in bound : j <= i
    <3>1. bound \subseteq 1 .. Len(scopes)
      OBVIOUS
    <3> HIDE DEF bound
    <3> QED BY <1>3, <3>1, GreatestNumber
  <2> HIDE DEF bound
  <2> QED BY <2>1
<1> HIDE DEF best
<1> QED BY <1>1, <1>2, <1>3

\* One function: a reference finds a binding exactly where the program has a
\* declaration, and through the map it is that declaration.
LEMMA FrameIsRight ==
    ASSUME NEW f, GoodFrame(f), NEW lex \in Lexes, Len(lex) = Len(f.scopes),
           Follows(f, lex), NEW map, MapFollows(f, lex, map), NEW n \in Names
    PROVE  LET name  == Resolve(f, n)
               local == Denoted(SubSeq(lex, f.own, Len(lex)), n)
           IN  /\ (name = Unbound) <=> (Denoted(lex, n) = NoDecl)
               /\ local # NoDecl => name \in DOMAIN map /\ map[name] = local
<1> DEFINE last == Len(f.scopes)
           own == f.own
           part == SubSeq(lex, own, Len(lex))
           name == Resolve(f, n)
           local == Denoted(part, n)
<1>1. /\ last \in Nat /\ own \in Nat /\ 1 <= own /\ own <= last /\ Len(lex) = last
      /\ \A i \in 1 .. last : f.scopes[i][n] = Unbound <=> lex[i][n] = NoDecl
  BY DEF GoodFrame, FrameType, Follows
<1>2. /\ Len(part) = last - own + 1
      /\ \A k \in 1 .. last - own + 1 : part[k] = lex[own + k - 1]
  <2> HIDE DEF last, own
  <2> QED BY <1>1 DEF Lexes
<1> HIDE DEF last, own, part
<1>3. /\ (\A i \in 1 .. last : f.scopes[i][n] = Unbound) => name = Unbound
      /\ (\E i \in 1 .. last : f.scopes[i][n] # Unbound) =>
            \E i \in 1 .. last :
                /\ f.scopes[i][n] # Unbound
                /\ \A j \in 1 .. last : f.scopes[j][n] # Unbound => j <= i
                /\ name = f.scopes[i][n]
  <2> DEFINE sc == f.scopes
  <2>1. name = Lookup(sc, n, Unbound) /\ Len(sc) = last
    BY DEF Resolve, last
  <2> HIDE DEF sc, name
  <2>2. Len(sc) \in Nat
    BY <1>1, <2>1
  <2> QED BY <2>1, <2>2, LookupFinds DEF sc
<1>4. /\ (\A i \in 1 .. last : lex[i][n] = NoDecl) => Denoted(lex, n) = NoDecl
      /\ (\E i \in 1 .. last : lex[i][n] # NoDecl) => Denoted(lex, n) # NoDecl
  BY <1>1, LookupFinds DEF Denoted
<1>5. /\ (\A i \in 1 .. Len(part) : part[i][n] = NoDecl) => local = NoDecl
      /\ (\E i \in 1 .. Len(part) : part[i][n] # NoDecl) =>
            \E i \in 1 .. Len(part) :
                /\ part[i][n] # NoDecl
                /\ \A j \in 1 .. Len(part) : part[j][n] # NoDecl => j <= i
                /\ local = part[i][n]
  <2>1. Len(part) \in Nat
    BY <1>1, <1>2
  <2> QED BY <2>1, LookupFinds DEF Denoted
<1> HIDE DEF name, local
<1>6. (name = Unbound) <=> (Denoted(lex, n) = NoDecl)
  BY <1>1, <1>3, <1>4
<1>7. ASSUME local # NoDecl
      PROVE  name \in DOMAIN map /\ map[name] = local
  <2>1. PICK k \in 1 .. last - own + 1 :
            /\ part[k][n] # NoDecl
            /\ \A j \in 1 .. last - own + 1 : part[j][n] # NoDecl => j <= k
            /\ local = part[k][n]
    BY <1>2, <1>5, <1>7
  <2> DEFINE i == own + k - 1
  <2>2. i \in 1 .. last /\ i \in own .. last /\ k = i - own + 1
    BY <1>1
  <2>3. lex[i][n] # NoDecl /\ local = lex[i][n]
    BY <1>2, <2>1
  <2>4. ASSUME NEW j \in 1 .. last, f.scopes[j][n] # Unbound
        PROVE  j <= i
    <3>1. CASE j < own
      BY <3>1, <2>2, <1>1
    <3>2. CASE j >= own
      <4>1. /\ j - own + 1 \in 1 .. last - own + 1
            /\ own + (j - own + 1) - 1 = j
        BY <3>2, <1>1
      <4>2. part[j - own + 1][n] # NoDecl
        BY <4>1, <1>1, <1>2, <2>4
      <4>3. j - own + 1 <= k
        BY <4>1, <4>2, <2>1
      <4> QED BY <4>3, <2>2, <1>1
    <3> QED BY <3>1, <3>2, <1>1
  <2> HIDE DEF i
  <2>5. f.scopes[i][n] # Unbound
    BY <1>1, <2>2, <2>3
  <2>6. PICK m \in 1 .. last :
            /\ f.scopes[m][n] # Unbound
            /\ \A j \in 1 .. last : f.scopes[j][n] # Unbound => j <= m
            /\ name = f.scopes[m][n]
    BY <1>3, <2>2, <2>5
  <2>7. m = i
    BY <2>2, <2>4, <2>5, <2>6
  <2>8. f.scopes[i][n] \in DOMAIN map /\ map[f.scopes[i][n]] = lex[i][n]
    BY <2>2, <2>3 DEF MapFollows, own, last
  <2> QED BY <2>3, <2>6, <2>7, <2>8
<1> QED BY <1>6, <1>7 DEF name, local, part, own

\* The checks keep their invariant in every plain program.
THEOREM ChecksInvariant ==
    ASSUME Plain
    PROVE  Spec => []ChecksIInv
<1>1. Init => ChecksIInv
  BY ChecksInvInit
<1>2. ChecksIInv /\ [Next]_vars => ChecksIInv'
  BY ChecksInvNext
<1> QED BY <1>1, <1>2, PTL DEF Spec

\* If no identifier of the program looks like a minted one and no scope
\* declares a name twice, the flat map of a function (FunctionCtx.vars) gives
\* every reference the variable it has by block structure, in every function
\* the walk is inside of.
THEOREM FlatNames ==
    ASSUME Plain
    PROVE  Spec => []FlatNamesAreRight
<1>1. ChecksIInv => FlatNamesAreRight
  <2> SUFFICES ASSUME ChecksIInv, dups = {}, NEW g \in 1 .. Len(frames), NEW n \in Names
               PROVE  LET name  == Resolve(frames[g], n)
                          local == Denoted(SubSeq(lexical[g], frames[g].own, Len(lexical[g])), n)
                      IN  /\ (name = Unbound) <=> (Denoted(lexical[g], n) = NoDecl)
                          /\ local # NoDecl =>
                              name \in DOMAIN locals[g] /\ locals[g][name] = local
    BY DEF FlatNamesAreRight
  <2>1. /\ GoodFrame(frames[g]) /\ Len(lexical[g]) = Len(frames[g].scopes)
        /\ lexical[g] \in Lexes
    BY DEF ChecksIInv, ShadowIInv, ShadowTypeOK, Lexes
  <2>2. Follows(frames[g], lexical[g]) /\ MapFollows(frames[g], lexical[g], locals[g])
    BY DEF ChecksIInv, ChecksAgree, Agrees
  <2> QED BY <2>1, <2>2, FrameIsRight
<1> QED BY <1>1, ChecksInvariant, PTL

\* In such a program collect_decl reports as a duplicate only a declaration
\* whose very scope had its name already.
THEOREM RealDuplicates ==
    ASSUME Plain
    PROVE  Spec => []OnlyDuplicatesReported
<1>1. ChecksIInv => OnlyDuplicatesReported
  BY DEF ChecksIInv
<1> QED BY <1>1, ChecksInvariant, PTL
=============================================================================
