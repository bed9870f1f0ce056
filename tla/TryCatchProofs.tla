--------------------------- MODULE TryCatchProofs ---------------------------
(***************************************************************************)
(* Theorems about TryCatch for every MaxTry, MaxNesting and Tries.         *)
(***************************************************************************)
EXTENDS TryCatch, FunctionTheorems, FiniteSetTheorems, TLAPS

\* Values that ctl, open, at and jmpBufs may have together.
Shaped(c, o, a, b) ==
    /\ c \in Seq(Constructs) /\ o \in Seq(Nat) /\ a \in Seq(Nat)
    /\ b \in Seq(Tries)
    /\ Len(c) >= 1 /\ Len(o) = Len(c) /\ Len(a) = Len(c)

\* A prefix of a sequence: its type, length and elements.
LEMMA PrefixFacts ==
    ASSUME NEW S, NEW s \in Seq(S), NEW n \in 0 .. Len(s)
    PROVE  /\ SubSeq(s, 1, n) \in Seq(S)
           /\ Len(SubSeq(s, 1, n)) = n
           /\ \A i \in 1 .. n : SubSeq(s, 1, n)[i] = s[i]
  OBVIOUS

\* What the type of the four sequences says of their elements.
LEMMA ShapedFacts ==
    ASSUME NEW c, NEW o, NEW a, NEW b, Shaped(c, o, a, b)
    PROVE  /\ Len(c) \in Nat /\ Len(c) >= 1 /\ Len(o) = Len(c) /\ Len(a) = Len(c)
           /\ Len(b) \in Nat
           /\ \A i \in 1 .. Len(c) : o[i] \in Nat /\ a[i] \in Nat
  BY DEF Shaped

\* Leaving constructs: what remains is balanced with the slots that were
\* taken when the last remaining construct was entered.
LEMMA PrefixBalanced ==
    ASSUME NEW c, NEW o, NEW a, NEW b, Shaped(c, o, a, b),
           Balanced(c, o, a, b), NEW n \in 1 .. Len(c)
    PROVE  LET c1 == SubSeq(c, 1, n)
               o1 == SubSeq(o, 1, n)
               a1 == SubSeq(a, 1, n)
               b1 == SubSeq(b, 1, a[n])
           IN  /\ a[n] \in 0 .. Len(b)
               /\ Shaped(c1, o1, a1, b1)
               /\ Balanced(c1, o1, a1, b1)
<1> DEFINE c1 == SubSeq(c, 1, n)
           o1 == SubSeq(o, 1, n)
           a1 == SubSeq(a, 1, n)
           b1 == SubSeq(b, 1, a[n])
<1>0. /\ Len(c) \in Nat /\ Len(c) >= 1 /\ Len(o) = Len(c) /\ Len(a) = Len(c)
      /\ Len(b) \in Nat
      /\ \A i \in 1 .. Len(c) : o[i] \in Nat /\ a[i] \in Nat
  BY ShapedFacts
<1>1. /\ c1 \in Seq(Constructs) /\ Len(c1) = n /\ \A i \in 1 .. n : c1[i] = c[i]
      /\ o1 \in Seq(Nat) /\ Len(o1) = n /\ \A i \in 1 .. n : o1[i] = o[i]
      /\ a1 \in Seq(Nat) /\ Len(a1) = n /\ \A i \in 1 .. n : a1[i] = a[i]
  BY SMTT(30), PrefixFacts DEF Shaped
<1>2. a[n] \in 0 .. Len(b)
  <2>1. a[n] <= a[Len(c)]
    BY <1>0 DEF Balanced, DepthGrowsByTries
  <2>2. a[Len(c)] = Len(b)
    BY DEF Balanced, SlotsAreOpenTries
  <2> QED
    BY <1>0, <2>1, <2>2
<1>3. /\ b1 \in Seq(Tries) /\ Len(b1) = a[n]
      /\ \A d \in 1 .. a[n] : b1[d] = b[d]
  BY <1>2, PrefixFacts DEF Shaped
<1>4. Shaped(c1, o1, a1, b1)
  BY <1>1, <1>3 DEF Shaped
<1> HIDE DEF c1, o1, a1, b1
<1>5. CountsAgree(c1, o1, a1)
  <2> SUFFICES ASSUME NEW i \in 1 .. n, NEW j \in 1 .. i, SameActivation(c1, j, i)
               PROVE  a1[i] - a1[j] = o1[i] - o1[j]
    BY <1>1 DEF CountsAgree
  <2>1. SameActivation(c, j, i)
    BY <1>0, <1>1 DEF SameActivation
  <2>2. a[i] - a[j] = o[i] - o[j]
    BY <1>0, <2>1 DEF Balanced, CountsAgree
  <2> QED
    BY SMTT(30), <1>0, <1>1, <2>2
<1>6. CallsStartAtZero(c1, o1, a1)
  BY <1>0, <1>1 DEF Balanced, CallsStartAtZero
<1>7. DepthGrowsByTries(c1, a1)
  <2>1. ASSUME NEW i \in 1 .. n, NEW j \in 1 .. i PROVE a1[j] <= a1[i]
    <3>1. i \in 1 .. Len(c) /\ j \in 1 .. n
      BY <1>0
    <3>2. a[j] <= a[i]
      BY <3>1 DEF Balanced, DepthGrowsByTries
    <3> QED
      BY <1>1, <3>1, <3>2
  <2>2. ASSUME NEW i \in 2 .. n
        PROVE  a1[i] = a1[i-1] + (IF c1[i] \in Tries THEN 1 ELSE 0)
    <3>1. i \in 2 .. Len(c) /\ i \in 1 .. n /\ i - 1 \in 1 .. n
      BY <1>0
    <3>2. a[i] = a[i-1] + (IF c[i] \in Tries THEN 1 ELSE 0)
      BY <3>1 DEF Balanced, DepthGrowsByTries
    <3> QED
      BY <1>1, <3>1, <3>2
  <2> QED
    BY <1>1, <2>1, <2>2 DEF DepthGrowsByTries
<1>8. EachTryOnce(c1)
  BY <1>0, <1>1 DEF Balanced, EachTryOnce
<1>9. SlotsAreOpenTries(c1, a1, b1)
  <2>1. a1[Len(c1)] = Len(b1)
    BY <1>1, <1>3
  <2>2. ASSUME NEW i \in 1 .. Len(c1), c1[i] \in Tries
        PROVE  a1[i] \in 1 .. Len(b1) /\ b1[a1[i]] = c1[i]
    <3>1. i \in 1 .. n /\ i \in 1 .. Len(c) /\ c[i] \in Tries
      BY <1>0, <1>1, <2>2
    <3>2. a[i] \in 1 .. Len(b) /\ b[a[i]] = c[i]
      BY <3>1 DEF Balanced, SlotsAreOpenTries
    <3>3. a[i] <= a[n]
      BY <1>0, <3>1 DEF Balanced, DepthGrowsByTries
    <3> QED
      BY <1>0, <1>1, <1>3, <3>1, <3>2, <3>3
  <2>3. ASSUME NEW d \in 1 .. Len(b1)
        PROVE  \E i \in 1 .. Len(c1) : c1[i] \in Tries /\ a1[i] = d
    <3>1. d \in 1 .. Len(b) /\ d <= a[n]
      BY <1>0, <1>2, <1>3
    <3>2. PICK i \in 1 .. Len(c) : c[i] \in Tries /\ a[i] = d
      BY <3>1 DEF Balanced, SlotsAreOpenTries
    <3>3. i <= n
      <4> SUFFICES ASSUME i > n PROVE FALSE
        BY <1>0
      <4>1. i \in 2 .. Len(c) /\ n \in 1 .. i - 1 /\ i - 1 \in 1 .. Len(c)
        BY <1>0
      <4>2. a[i] = a[i-1] + 1 /\ a[n] <= a[i-1]
        BY <1>0, <3>2, <4>1 DEF Balanced, DepthGrowsByTries
      <4> QED
        BY SMTT(30), <1>0, <3>1, <3>2, <4>1, <4>2
    <3> QED
      BY <1>0, <1>1, <3>2, <3>3
  <2> QED
    BY <2>1, <2>2, <2>3 DEF SlotsAreOpenTries
<1> QED
  BY <1>2, <1>4, <1>5, <1>6, <1>7, <1>8, <1>9 DEF Balanced, c1, o1, a1, b1

\* A sequence with one element more: its type, length and elements.
LEMMA AppendFacts ==
    ASSUME NEW S, NEW s \in Seq(S), NEW e \in S
    PROVE  /\ Append(s, e) \in Seq(S)
           /\ Len(Append(s, e)) = Len(s) + 1
           /\ \A i \in 1 .. Len(s) : Append(s, e)[i] = s[i]
           /\ Append(s, e)[Len(s) + 1] = e
  OBVIOUS

\* Entering a construct: a call starts to count at zero, a try takes a slot
\* and counts one more, a loop or a catch body changes neither.
LEMMA PushBalanced ==
    ASSUME NEW c, NEW o, NEW a, NEW b, Shaped(c, o, a, b),
           Balanced(c, o, a, b),
           NEW e \in Constructs, NEW k \in Nat, NEW d \in Nat, NEW b2,
           \/ /\ e \notin Tries
              /\ k = IF e = "call" THEN 0 ELSE o[Len(c)]
              /\ d = a[Len(c)]
              /\ b2 = b
           \/ /\ e \in Tries /\ e \notin Range(c)
              /\ k = o[Len(c)] + 1
              /\ d = a[Len(c)] + 1
              /\ b2 = Append(b, e)
    PROVE  LET c2 == Append(c, e)
               o2 == Append(o, k)
               a2 == Append(a, d)
           IN  Shaped(c2, o2, a2, b2) /\ Balanced(c2, o2, a2, b2)
<1> DEFINE n  == Len(c)
           c2 == Append(c, e)
           o2 == Append(o, k)
           a2 == Append(a, d)
<1>0. /\ n \in Nat /\ n >= 1 /\ Len(o) = n /\ Len(a) = n
      /\ Len(b) \in Nat
      /\ \A i \in 1 .. n : o[i] \in Nat /\ a[i] \in Nat
  BY ShapedFacts
<1>1. /\ c2 \in Seq(Constructs) /\ Len(c2) = n + 1
      /\ (\A i \in 1 .. n : c2[i] = c[i]) /\ c2[n+1] = e
      /\ o2 \in Seq(Nat) /\ Len(o2) = n + 1
      /\ (\A i \in 1 .. n : o2[i] = o[i]) /\ o2[n+1] = k
      /\ a2 \in Seq(Nat) /\ Len(a2) = n + 1
      /\ (\A i \in 1 .. n : a2[i] = a[i]) /\ a2[n+1] = d
  BY <1>0, AppendFacts DEF Shaped
<1>2. /\ b2 \in Seq(Tries) /\ Len(b2) = d /\ d >= a[n]
      /\ \A p \in 1 .. Len(b) : b2[p] = b[p]
      /\ a[n] = Len(b)
      /\ e \in Tries => d = a[n] + 1 /\ b2[d] = e
      /\ e \notin Tries => b2 = b /\ d = a[n]
  <2>1. a[n] = Len(b) /\ b \in Seq(Tries)
    BY DEF Shaped, Balanced, SlotsAreOpenTries
  <2>2. CASE e \notin Tries
    BY <1>0, <2>1, <2>2
  <2>3. CASE e \in Tries
    <3>1. b2 = Append(b, e) /\ d = a[n] + 1
      BY <2>3
    <3> QED
      BY <1>0, <2>1, <2>3, <3>1, AppendFacts
  <2> QED
    BY <2>2, <2>3
<1>3. Shaped(c2, o2, a2, b2)
  BY <1>0, <1>1, <1>2 DEF Shaped
<1>4. \A i \in 1 .. n + 1 : i \in 1 .. n \/ i = n + 1
  BY <1>0
<1> HIDE DEF c2, o2, a2
<1>5. CountsAgree(c2, o2, a2)
  <2> SUFFICES ASSUME NEW i \in 1 .. n + 1, NEW j \in 1 .. i,
                      SameActivation(c2, j, i)
               PROVE  a2[i] - a2[j] = o2[i] - o2[j]
    BY <1>1 DEF CountsAgree
  <2>1. CASE i \in 1 .. n
    <3>1. SameActivation(c, j, i)
      BY SMTT(30), <1>0, <1>1, <2>1 DEF SameActivation
    <3>2. a[i] - a[j] = o[i] - o[j]
      BY <1>0, <2>1, <3>1 DEF Balanced, CountsAgree
    <3>3. j \in 1 .. n
      BY <1>0, <2>1
    <3>4. a2[i] = a[i] /\ a2[j] = a[j] /\ o2[i] = o[i] /\ o2[j] = o[j]
      BY <1>1, <2>1, <3>3
    <3> QED
      BY <3>2, <3>4
  <2>2. CASE i = n + 1 /\ j = n + 1
    BY <1>0, <1>1, <2>2
  <2>3. CASE i = n + 1 /\ j \in 1 .. n
    <3>1. e # "call"
      BY <1>0, <1>1, <2>3 DEF SameActivation
    <3>2. SameActivation(c, j, n)
      BY <1>0, <1>1, <2>3 DEF SameActivation
    <3>3. a[n] - a[j] = o[n] - o[j]
      BY <1>0, <2>3, <3>2 DEF Balanced, CountsAgree
    <3>4. d - a[n] = k - o[n]
      BY SMTT(30), <1>0, <3>1
    <3>5. a2[i] = d /\ a2[j] = a[j] /\ o2[i] = k /\ o2[j] = o[j]
      BY <1>1, <2>3
    <3>6. a[n] \in Nat /\ o[n] \in Nat /\ a[j] \in Nat /\ o[j] \in Nat
      BY <1>0, <2>3
    <3>7. d - a[j] = k - o[j]
      <4> DEFINE an == a[n]  on == o[n]  aj == a[j]  oj == o[j]
      <4>1. /\ an \in Nat /\ on \in Nat /\ aj \in Nat /\ oj \in Nat
            /\ an - aj = on - oj /\ d - an = k - on
        BY <3>3, <3>4, <3>6
      <4> HIDE DEF an, on, aj, oj
      <4>2. d - aj = k - oj
        BY <4>1
      <4> QED
        BY <4>2 DEF aj, oj
    <3> QED
      BY <3>5, <3>7
  <2> QED
    BY <1>0, <1>4, <2>1, <2>2, <2>3
<1>6. CallsStartAtZero(c2, o2, a2)
  <2>1. e = "call" => k = 0
    BY TriesAssumption
  <2>2. 1 \in 1 .. n /\ c[1] = "call" /\ a[1] = 0
    BY <1>0 DEF Balanced, CallsStartAtZero
  <2>3. \A i \in 1 .. n : c[i] = "call" => o[i] = 0
    BY DEF Balanced, CallsStartAtZero
  <2>4. ASSUME NEW i \in 1 .. n + 1, c2[i] = "call" PROVE o2[i] = 0
    BY <1>1, <1>4, <2>1, <2>3, <2>4
  <2> QED
    BY <1>1, <2>2, <2>4 DEF CallsStartAtZero
<1>7. DepthGrowsByTries(c2, a2)
  <2>1. ASSUME NEW i \in 1 .. n + 1, NEW j \in 1 .. i PROVE a2[j] <= a2[i]
    <3>0. \A p \in 1 .. n : \A q \in 1 .. p : a[q] <= a[p]
      BY DEF Balanced, DepthGrowsByTries
    <3>1. CASE i \in 1 .. n
      <4>1. j \in 1 .. n
        BY <1>0, <3>1
      <4> QED
        BY <1>1, <3>0, <3>1, <4>1
    <3>2. CASE i = n + 1 /\ j \in 1 .. n
      <4>1. a[j] <= a[n]
        BY <1>0, <3>0, <3>2
      <4> QED
        BY <1>0, <1>1, <1>2, <3>2, <4>1
    <3>3. CASE i = n + 1 /\ j = n + 1
      BY <1>0, <1>1, <3>3
    <3> QED
      BY <1>0, <1>4, <3>1, <3>2, <3>3
  <2>2. ASSUME NEW i \in 2 .. n + 1
        PROVE  a2[i] = a2[i-1] + (IF c2[i] \in Tries THEN 1 ELSE 0)
    <3>1. CASE i \in 2 .. n
      <4>1. i \in 1 .. n /\ i - 1 \in 1 .. n
        BY <1>0, <3>1
      <4>2. a[i] = a[i-1] + (IF c[i] \in Tries THEN 1 ELSE 0)
        BY <3>1 DEF Balanced, DepthGrowsByTries
      <4>3. a2[i] = a[i] /\ a2[i-1] = a[i-1] /\ c2[i] = c[i]
        BY <1>1, <4>1
      <4> QED
        BY <4>2, <4>3
    <3>2. CASE i = n + 1
      <4>1. i - 1 = n /\ n \in 1 .. n /\ a[n] \in Nat
        BY <1>0, <3>2
      <4>2. a2[i] = d /\ a2[i-1] = a[n] /\ c2[i] = e
        BY <1>1, <3>2, <4>1
      <4>3. d = a[n] + (IF e \in Tries THEN 1 ELSE 0)
        BY <1>2, <4>1
      <4> QED
        BY <4>2, <4>3
    <3> QED
      BY <1>0, <3>1, <3>2
  <2> QED
    BY <1>1, <2>1, <2>2 DEF DepthGrowsByTries
<1>8. SlotsAreOpenTries(c2, a2, b2)
  <2>1. a2[Len(c2)] = Len(b2)
    BY <1>1, <1>2
  <2>2. ASSUME NEW i \in 1 .. n + 1, c2[i] \in Tries
        PROVE  a2[i] \in 1 .. Len(b2) /\ b2[a2[i]] = c2[i]
    <3>1. CASE i \in 1 .. n
      <4>1. a[i] \in 1 .. Len(b) /\ b[a[i]] = c[i]
        BY <1>1, <2>2, <3>1 DEF Balanced, SlotsAreOpenTries
      <4> QED
        BY SMTT(30), <1>0, <1>1, <1>2, <3>1, <4>1
    <3>2. CASE i = n + 1
      BY <1>0, <1>1, <1>2, <2>2, <3>2
    <3> QED
      BY <1>4, <3>1, <3>2
  <2>3. ASSUME NEW p \in 1 .. Len(b2)
        PROVE  \E i \in 1 .. n + 1 : c2[i] \in Tries /\ a2[i] = p
    <3>1. CASE p \in 1 .. Len(b)
      <4>1. PICK i \in 1 .. n : c[i] \in Tries /\ a[i] = p
        BY <3>1 DEF Balanced, SlotsAreOpenTries
      <4> QED
        BY <1>0, <1>1, <4>1
    <3>2. CASE p \notin 1 .. Len(b)
      <4>1. e \in Tries /\ p = d
        BY <1>0, <1>2, <3>2
      <4> QED
        BY SMTT(30), <1>0, <1>1, <4>1
    <3> QED
      BY <3>1, <3>2
  <2> QED
    BY <1>1, <2>1, <2>2, <2>3 DEF SlotsAreOpenTries
<1>9. EachTryOnce(c2)
  <2>1. e \in Tries => \A i \in 1 .. n : c[i] # e
    <3>1. DOMAIN c = 1 .. n
      BY DEF Shaped
    <3> QED
      BY <3>1 DEF Range
  <2> QED
    <3>1. ASSUME NEW i \in 1 .. n + 1, NEW j \in 1 .. n + 1, c2[i] \in Tries, c2[i] = c2[j]
          PROVE  i = j
      <4>1. CASE i \in 1 .. n /\ j \in 1 .. n
        <5>1. c[i] = c[j] /\ c[i] \in Tries
          BY <1>1, <3>1, <4>1
        <5> QED
          BY <1>1, <4>1, <5>1 DEF Balanced, EachTryOnce
      <4>2. CASE i \in 1 .. n /\ j = n + 1
        BY <1>1, <2>1, <3>1, <4>2
      <4>3. CASE i = n + 1 /\ j \in 1 .. n
        BY <1>1, <2>1, <3>1, <4>3
      <4> QED
        BY <1>0, <4>1, <4>2, <4>3
    <3> QED
      BY <1>1, <3>1 DEF EachTryOnce
<1> QED
  BY <1>3, <1>5, <1>6, <1>7, <1>8, <1>9 DEF Balanced, c2, o2, a2

-----------------------------------------------------------------------------
LEMMA TypeShaped ==
    ASSUME TypeOK
    PROVE  Shaped(ctl, open, at, jmpBufs)
  BY DEF TypeOK, Shaped

LEMMA NamesAreNotTries ==
    "call" \notin Tries /\ "loop" \notin Tries /\ "catch" \notin Tries
  BY TriesAssumption

\* What IInv says of a running program, in the form the steps use it.
LEMMA RunningFacts ==
    ASSUME IInv, status = "running"
    PROVE  /\ Shaped(ctl, open, at, jmpBufs) /\ Balanced(ctl, open, at, jmpBufs)
           /\ Len(ctl) \in Nat /\ Len(ctl) >= 1 /\ DOMAIN ctl = 1 .. Len(ctl)
           /\ Len(ctl) <= MaxNesting
           /\ Len(open) = Len(ctl) /\ Len(at) = Len(ctl) /\ Len(jmpBufs) \in Nat
           /\ \A i \in 1 .. Len(ctl) : open[i] \in Nat /\ at[i] \in Nat
           /\ \A i \in 1 .. Len(ctl) : at[i] <= Len(jmpBufs)
           /\ at[Len(ctl)] = Len(jmpBufs)
           /\ ctl[1] = "call" /\ at[1] = 0
           /\ \A i \in 2 .. Len(ctl) :
                at[i] = at[i-1] + (IF ctl[i] \in Tries THEN 1 ELSE 0)
<1>1. Shaped(ctl, open, at, jmpBufs) /\ Balanced(ctl, open, at, jmpBufs)
  BY TypeShaped DEF IInv
<1>2. /\ Len(ctl) \in Nat /\ Len(ctl) >= 1 /\ DOMAIN ctl = 1 .. Len(ctl)
      /\ Len(ctl) <= MaxNesting
      /\ Len(open) = Len(ctl) /\ Len(at) = Len(ctl) /\ Len(jmpBufs) \in Nat
      /\ \A i \in 1 .. Len(ctl) : open[i] \in Nat /\ at[i] \in Nat
  <2>1. TypeOK
    BY DEF IInv
  <2>2. DOMAIN ctl = 1 .. Len(ctl)
    BY <2>1 DEF TypeOK
  <2>3. Len(ctl) <= MaxNesting
    BY <2>1, BoundsAssumption DEF TypeOK
  <2> QED
    BY <1>1, <2>2, <2>3, ShapedFacts
<1>3. at[Len(ctl)] = Len(jmpBufs)
  BY <1>1 DEF Balanced, SlotsAreOpenTries
<1>4. \A i \in 1 .. Len(ctl) : at[i] <= Len(jmpBufs)
  <2>1. \A i \in 1 .. Len(ctl) : at[i] <= at[Len(ctl)]
    BY <1>1, <1>2 DEF Balanced, DepthGrowsByTries
  <2> QED
    BY <1>3, <2>1
<1> QED
  BY <1>1, <1>2, <1>3, <1>4 DEF Balanced, DepthGrowsByTries, CallsStartAtZero

\* Leaving the constructs after position n, with the slots taken since.
LEMMA KeepPreserves ==
    ASSUME IInv, status = "running", UNCHANGED status,
           NEW n \in 1 .. Len(ctl), KeepFirst(n),
           jmpBufs' = SubSeq(jmpBufs, 1, at[n])
    PROVE  IInv'
<1>1. /\ Shaped(ctl, open, at, jmpBufs) /\ Balanced(ctl, open, at, jmpBufs)
      /\ Len(ctl) \in Nat /\ Len(ctl) <= MaxNesting
  BY RunningFacts
<1>2. /\ Shaped(ctl', open', at', jmpBufs')
      /\ Balanced(ctl', open', at', jmpBufs')
  BY <1>1, PrefixBalanced DEF KeepFirst
<1>3. Len(ctl') = n /\ n \in 1 .. MaxNesting
  BY <1>1, PrefixFacts, BoundsAssumption DEF KeepFirst, Shaped
<1>4. TypeOK'
  BY <1>2, <1>3 DEF TypeOK, Shaped, Status, IInv
<1> QED
  BY <1>2, <1>4 DEF IInv

\* Entering a construct where the program is.
LEMMA PushPreserves ==
    ASSUME IInv, status = "running", UNCHANGED status,
           NEW e \in Constructs, NEW k \in Nat, NEW d \in Nat, Push(e, k, d),
           \/ /\ e \notin Tries
              /\ k = IF e = "call" THEN 0 ELSE open[Len(ctl)]
              /\ d = at[Len(ctl)]
              /\ UNCHANGED jmpBufs
           \/ /\ e \in Tries /\ e \notin Range(ctl)
              /\ k = open[Len(ctl)] + 1
              /\ d = at[Len(ctl)] + 1
              /\ jmpBufs' = Append(jmpBufs, e)
    PROVE  IInv'
<1>1. /\ Shaped(ctl, open, at, jmpBufs) /\ Balanced(ctl, open, at, jmpBufs)
      /\ Len(ctl) \in Nat
  BY RunningFacts
<1>2. /\ Shaped(ctl', open', at', jmpBufs')
      /\ Balanced(ctl', open', at', jmpBufs')
  BY <1>1, PushBalanced DEF Push
<1>3. Len(ctl') \in 1 .. MaxNesting
  BY <1>1, AppendFacts, BoundsAssumption DEF Push, Shaped
<1>4. TypeOK'
  BY <1>2, <1>3 DEF TypeOK, Shaped, Status, IInv
<1> QED
  BY <1>2, <1>4 DEF IInv

\* The whole of a sequence is one of its prefixes.
LEMMA WholePrefix ==
    ASSUME NEW S, NEW s \in Seq(S)
    PROVE  SubSeq(s, 1, Len(s)) = s
  OBVIOUS

\* The number of arcis_try_end calls on the way from the innermost construct
\* to a position of the same activation, and the depth they lead to.
LEMMA EndsToPosition ==
    ASSUME IInv, status = "running", NEW i \in 1 .. Len(ctl),
           SameActivation(ctl, i, Len(ctl)),
           TryEnds(OpenTryCount - open[i])
    PROVE  jmpBufs' = SubSeq(jmpBufs, 1, at[i])
<1>1. /\ Len(ctl) \in Nat /\ Len(ctl) >= 1
      /\ Len(open) = Len(ctl) /\ Len(jmpBufs) \in Nat
      /\ open[i] \in Nat /\ at[i] \in Nat /\ open[Len(ctl)] \in Nat
      /\ at[i] <= Len(jmpBufs) /\ at[Len(ctl)] = Len(jmpBufs)
      /\ Balanced(ctl, open, at, jmpBufs)
  BY RunningFacts
<1>2. at[Len(ctl)] - at[i] = open[Len(ctl)] - open[i]
  BY <1>1 DEF Balanced, CountsAgree
<1>3. OpenTryCount - open[i] = Len(jmpBufs) - at[i]
  BY <1>1, <1>2 DEF OpenTryCount
<1>4. Len(jmpBufs) - at[i] <= Len(jmpBufs)
      /\ Len(jmpBufs) - (Len(jmpBufs) - at[i]) = at[i]
  BY <1>1
<1> QED
  BY <1>1, <1>3, <1>4 DEF TryEnds

-----------------------------------------------------------------------------
\* Each way out of constructs, as the lemmas above need it: which position is
\* the last to stay, and that the slots left are those it was entered with.
LEMMA LoopAndCatchEnds ==
    ASSUME IInv, EndLoop \/ EndCatch
    PROVE  IInv'
<1>1. status = "running" /\ ctl[Len(ctl)] \in {"loop", "catch"}
      /\ UNCHANGED <<status, jmpBufs>> /\ KeepFirst(Len(ctl) - 1)
  BY DEF EndLoop, EndCatch
<1>2. /\ Len(ctl) \in 2 .. Len(ctl) /\ Len(ctl) - 1 \in 1 .. Len(ctl)
      /\ ctl[Len(ctl)] \notin Tries
  BY <1>1, RunningFacts, NamesAreNotTries
<1>3. at[Len(ctl) - 1] = Len(jmpBufs)
  BY <1>1, <1>2, RunningFacts
<1>4. jmpBufs' = SubSeq(jmpBufs, 1, at[Len(ctl) - 1])
  BY <1>1, <1>3, WholePrefix, RunningFacts DEF Shaped
<1> QED
  BY <1>1, <1>2, <1>4, KeepPreserves

LEMMA TryEnd ==
    ASSUME IInv, EndTry
    PROVE  IInv'
<1>1. status = "running" /\ ctl[Len(ctl)] \in Tries
      /\ UNCHANGED status /\ KeepFirst(Len(ctl) - 1) /\ TryEnds(1)
  BY DEF EndTry, IsTry
<1>2. /\ Len(ctl) \in 2 .. Len(ctl) /\ Len(ctl) - 1 \in 1 .. Len(ctl)
      /\ Len(jmpBufs) \in Nat
  BY <1>1, RunningFacts, NamesAreNotTries
<1>3. Len(jmpBufs) = at[Len(ctl) - 1] + 1 /\ at[Len(ctl) - 1] \in Nat
  BY <1>1, <1>2, RunningFacts
<1>4. ~ (1 > Len(jmpBufs)) /\ Len(jmpBufs) - 1 = at[Len(ctl) - 1]
  BY <1>2, <1>3
<1>5. jmpBufs' = SubSeq(jmpBufs, 1, at[Len(ctl) - 1])
  BY <1>1, <1>4 DEF TryEnds
<1> QED
  BY <1>1, <1>2, <1>5, KeepPreserves

LEMMA FunctionReturns ==
    ASSUME IInv, Return
    PROVE  IInv'
<1>1. PICK i \in DOMAIN ctl :
        /\ CurrentCall(ctl, i)
        /\ TryEnds(OpenTryCount)
        /\ IF i = 1
           THEN status' = "exited" /\ UNCHANGED <<ctl, open, at>>
           ELSE UNCHANGED status /\ KeepFirst(i - 1)
  BY DEF Return
<1>2. status = "running"
  BY DEF Return
<1>3. i \in 1 .. Len(ctl) /\ ctl[i] = "call" /\ SameActivation(ctl, i, Len(ctl))
  BY <1>1, <1>2, RunningFacts DEF CurrentCall, SameActivation
<1>4. open[i] = 0 /\ OpenTryCount \in Nat
  BY <1>2, <1>3, RunningFacts DEF Balanced, CallsStartAtZero, OpenTryCount
<1>5. TryEnds(OpenTryCount - open[i])
  <2>1. OpenTryCount - open[i] = OpenTryCount
    BY <1>4
  <2> QED
    BY <1>1, <2>1
<1>6. jmpBufs' = SubSeq(jmpBufs, 1, at[i])
  BY <1>2, <1>3, <1>5, EndsToPosition
<1>7. CASE i = 1
  <2>1. jmpBufs' \in Seq(Tries)
    <3>1. at[1] = 0 /\ jmpBufs \in Seq(Tries) /\ 0 \in 0 .. Len(jmpBufs)
      BY <1>2, RunningFacts DEF Shaped
    <3> QED
      BY <1>6, <1>7, <3>1, PrefixFacts
  <2>2. status' = "exited" /\ UNCHANGED <<ctl, open, at>>
    BY <1>1, <1>7
  <2>3. TypeOK'
    BY <2>1, <2>2 DEF IInv, TypeOK, Status
  <2> QED
    BY <2>2, <2>3 DEF IInv
<1>8. CASE i # 1
  <2>1. i \in 2 .. Len(ctl) /\ i - 1 \in 1 .. Len(ctl)
    BY <1>2, <1>3, <1>8, RunningFacts
  <2>2. at[i - 1] = at[i]
    <3>1. at[i] = at[i-1] + 0
      BY <1>2, <1>3, <2>1, RunningFacts, NamesAreNotTries
    <3>2. at[i-1] \in Nat
      BY <1>2, <2>1, RunningFacts
    <3> QED
      BY <3>1, <3>2
  <2> QED
    BY <1>1, <1>2, <1>6, <1>8, <2>1, <2>2, KeepPreserves
<1> QED
  BY <1>7, <1>8

LEMMA LoopIsLeft ==
    ASSUME IInv, Break \/ Continue
    PROVE  IInv'
<1>1. PICK i \in DOMAIN ctl :
        /\ CurrentLoop(ctl, i)
        /\ TryEnds(OpenTryCount - open[i])
        /\ KeepFirst(i - 1) \/ KeepFirst(i)
  BY DEF Break, Continue
<1>2. status = "running" /\ UNCHANGED status
  BY DEF Break, Continue
<1>3. i \in 1 .. Len(ctl) /\ ctl[i] = "loop" /\ SameActivation(ctl, i, Len(ctl))
  BY <1>1, <1>2, RunningFacts DEF CurrentLoop, SameActivation
<1>4. jmpBufs' = SubSeq(jmpBufs, 1, at[i])
  BY <1>1, <1>2, <1>3, EndsToPosition
<1>5. i \in 2 .. Len(ctl) /\ i - 1 \in 1 .. Len(ctl)
  BY <1>2, <1>3, RunningFacts
<1>6. at[i - 1] = at[i]
  <2>1. at[i] = at[i-1] + 0
    BY <1>2, <1>3, <1>5, RunningFacts, NamesAreNotTries
  <2>2. at[i-1] \in Nat
    BY <1>2, <1>5, RunningFacts
  <2> QED
    BY <2>1, <2>2
<1> QED
  BY <1>1, <1>2, <1>3, <1>4, <1>5, <1>6, KeepPreserves

\* The slot a throw jumps to belongs to exactly one open try.
LEMMA TopSlot ==
    ASSUME IInv, status = "running", jmpBufs # <<>>
    PROVE  \E i \in 2 .. Len(ctl) :
              /\ ctl[i] \in Tries /\ ctl[i] = jmpBufs[arcis_try_depth]
              /\ at[i] = arcis_try_depth
              /\ at[i - 1] = arcis_try_depth - 1
              /\ \A j \in DOMAIN ctl : ctl[j] = ctl[i] => j = i
<1>1. Len(jmpBufs) \in 1 .. Len(jmpBufs)
  BY RunningFacts DEF Shaped
<1>2. PICK i \in 1 .. Len(ctl) : ctl[i] \in Tries /\ at[i] = Len(jmpBufs)
  BY <1>1, RunningFacts DEF Balanced, SlotsAreOpenTries
<1>3. ctl[i] = jmpBufs[arcis_try_depth]
  BY <1>2, RunningFacts DEF Balanced, SlotsAreOpenTries, arcis_try_depth
<1>4. i \in 2 .. Len(ctl) /\ i - 1 \in 1 .. Len(ctl)
  BY <1>2, RunningFacts, NamesAreNotTries
<1>5. at[i] = at[i-1] + 1 /\ at[i-1] \in Nat
  BY <1>2, <1>4, RunningFacts
<1>6. \A j \in DOMAIN ctl : ctl[j] = ctl[i] => j = i
  BY <1>2, RunningFacts DEF Balanced, EachTryOnce
<1>7. at[i - 1] = arcis_try_depth - 1
  BY <1>2, <1>5 DEF arcis_try_depth
<1> QED
  BY <1>2, <1>3, <1>4, <1>6, <1>7 DEF arcis_try_depth

LEMMA ThrowResumes ==
    ASSUME IInv, Throw
    PROVE  IInv'
<1>1. status = "running" /\ jmpBufs # <<>>
  BY DEF Throw
<1>2. PICK i \in 2 .. Len(ctl) :
        /\ ctl[i] \in Tries /\ ctl[i] = jmpBufs[arcis_try_depth]
        /\ at[i] = arcis_try_depth
        /\ at[i - 1] = arcis_try_depth - 1
        /\ \A j \in DOMAIN ctl : ctl[j] = ctl[i] => j = i
  BY <1>1, TopSlot
<1>3. i \in DOMAIN ctl /\ i - 1 \in 1 .. Len(ctl) /\ i \in 1 .. Len(ctl)
  BY <1>1, RunningFacts
<1>4. /\ ctl' = Append(SubSeq(ctl, 1, i - 1), "catch")
      /\ open' = Append(SubSeq(open, 1, i - 1), open[i] - 1)
      /\ at' = Append(SubSeq(at, 1, i - 1), arcis_try_depth - 1)
      /\ TryEnds(1)
      /\ UNCHANGED status
  <2> DEFINE live == {j \in DOMAIN ctl : ctl[j] = jmpBufs[arcis_try_depth]}
  <2>1. live = {i}
    BY <1>2, <1>3
  <2> QED
    BY <2>1 DEF Throw
<1> DEFINE c1 == SubSeq(ctl, 1, i - 1)
           o1 == SubSeq(open, 1, i - 1)
           a1 == SubSeq(at, 1, i - 1)
           b1 == SubSeq(jmpBufs, 1, at[i - 1])
<1>5. Shaped(c1, o1, a1, b1) /\ Balanced(c1, o1, a1, b1)
  BY <1>1, <1>3, RunningFacts, PrefixBalanced
<1>6. /\ Len(c1) = i - 1 /\ o1[i-1] = open[i-1] /\ a1[i-1] = at[i-1]
      /\ open[i-1] \in Nat /\ at[i-1] \in Nat
  <2>1. ctl \in Seq(Constructs) /\ open \in Seq(Nat) /\ at \in Seq(Nat)
    BY <1>1, RunningFacts DEF Shaped
  <2>2. Len(open) = Len(ctl) /\ Len(at) = Len(ctl) /\ Len(ctl) \in Nat
    BY <1>1, RunningFacts
  <2>3. /\ i - 1 \in 0 .. Len(ctl) /\ i - 1 \in 0 .. Len(open)
        /\ i - 1 \in 0 .. Len(at) /\ i - 1 \in 1 .. i - 1
    BY <2>2
  <2>4. Len(c1) = i - 1 /\ o1[i-1] = open[i-1] /\ a1[i-1] = at[i-1]
    BY <2>1, <2>3, PrefixFacts
  <2> QED
    BY <1>1, <1>3, <2>4, RunningFacts
<1>7. b1 = jmpBufs'
  <2>1. Len(jmpBufs) \in Nat /\ ~ (1 > Len(jmpBufs))
    BY <1>1, RunningFacts DEF Shaped
  <2> QED
    BY <1>2, <1>4, <2>1 DEF TryEnds, arcis_try_depth
<1>8. open[i] - 1 = open[i-1]
  <2>1. SameActivation(ctl, i-1, i)
    <3>1. \A k \in (i-1)+1 .. i : k = i
      BY <1>3
    <3> QED
      BY <1>2, <3>1, NamesAreNotTries DEF SameActivation
  <2>2. at[i] - at[i-1] = open[i] - open[i-1]
    <3>1. i - 1 \in 1 .. i
      BY <1>3
    <3> QED
      BY <1>1, <1>3, <2>1, <3>1, RunningFacts DEF Balanced, CountsAgree
  <2>3. /\ open[i] \in Nat /\ open[i-1] \in Nat /\ arcis_try_depth \in Nat
    BY <1>1, <1>3, RunningFacts DEF arcis_try_depth
  <2> QED
    BY <1>2, <2>2, <2>3
<1>9. arcis_try_depth - 1 = a1[Len(c1)] /\ open[i] - 1 = o1[Len(c1)]
  BY <1>2, <1>6, <1>8
<1>10. /\ Shaped(ctl', open', at', jmpBufs')
       /\ Balanced(ctl', open', at', jmpBufs')
  <2>1. "catch" \in Constructs /\ "catch" \notin Tries /\ "catch" # "call"
    BY NamesAreNotTries DEF Constructs
  <2>2. open[i] - 1 \in Nat /\ arcis_try_depth - 1 \in Nat
    BY <1>2, <1>6, <1>8
  <2> HIDE DEF c1, o1, a1, b1
  <2>3. /\ Shaped(Append(c1, "catch"), Append(o1, open[i] - 1),
                  Append(a1, arcis_try_depth - 1), b1)
        /\ Balanced(Append(c1, "catch"), Append(o1, open[i] - 1),
                    Append(a1, arcis_try_depth - 1), b1)
    BY <1>5, <1>9, <2>1, <2>2, PushBalanced
  <2> QED
    BY <1>4, <1>7, <2>3 DEF c1, o1, a1
<1>11. Len(ctl') \in 1 .. MaxNesting
  <2>1. c1 \in Seq(Constructs) /\ "catch" \in Constructs /\ Len(c1) = i - 1
    BY <1>5, <1>6 DEF Shaped, Constructs
  <2>2. Len(ctl') = i
    BY <1>3, <1>4, <2>1, AppendFacts
  <2> QED
    BY <1>1, <1>3, <2>2, RunningFacts, BoundsAssumption
<1>12. TypeOK'
  BY <1>1, <1>4, <1>10, <1>11 DEF TypeOK, Shaped, Status
<1> QED
  BY <1>1, <1>4, <1>10, <1>12 DEF IInv

-----------------------------------------------------------------------------
LEMMA InvInit == Init => IInv
<1> SUFFICES ASSUME Init PROVE IInv
  OBVIOUS
<1>1. TypeOK
  BY BoundsAssumption DEF Init, TypeOK, Constructs, Status
<1>2. Balanced(ctl, open, at, jmpBufs)
  BY NamesAreNotTries
  DEF Init, Balanced, CountsAgree, CallsStartAtZero, DepthGrowsByTries,
      SlotsAreOpenTries, EachTryOnce
<1> QED
  BY <1>1, <1>2 DEF Init, IInv

LEMMA InvNext == IInv /\ [Next]_vars => IInv'
<1> SUFFICES ASSUME IInv, [Next]_vars PROVE IInv'
  OBVIOUS
<1>1. CASE Call
  <2>1. "call" \in Constructs /\ arcis_try_depth \in Nat
    BY <1>1, RunningFacts DEF Call, Constructs, arcis_try_depth
  <2> QED
    BY <1>1, <2>1, NamesAreNotTries, RunningFacts, PushPreserves
    DEF Call, arcis_try_depth
<1>2. CASE EnterLoop
  <2>1. "loop" \in Constructs /\ arcis_try_depth \in Nat /\ OpenTryCount \in Nat
        /\ OpenTryCount = open[Len(ctl)]
    BY <1>2, RunningFacts DEF EnterLoop, Constructs, arcis_try_depth, OpenTryCount
  <2> QED
    BY <1>2, <2>1, NamesAreNotTries, RunningFacts, PushPreserves
    DEF EnterLoop, arcis_try_depth
<1>3. ASSUME NEW t \in Tries, Try(t) PROVE IInv'
  <2>1. t \in Constructs /\ arcis_try_depth + 1 \in Nat /\ OpenTryCount + 1 \in Nat
        /\ OpenTryCount = open[Len(ctl)]
    BY <1>3, RunningFacts DEF Try, Constructs, arcis_try_depth, OpenTryCount
  <2> QED
    BY <1>3, <2>1, RunningFacts, PushPreserves DEF Try, arcis_try_depth
<1>4. CASE TryTooDeep \/ UncaughtThrow
  BY <1>4 DEF TryTooDeep, UncaughtThrow, IInv, TypeOK, Status
<1>5. CASE UNCHANGED vars
  BY <1>5 DEF vars, IInv, TypeOK
<1> QED
  BY <1>1, <1>2, <1>3, <1>4, <1>5, LoopAndCatchEnds, TryEnd, FunctionReturns,
     LoopIsLeft, ThrowResumes
  DEF Next, Ended

\* The compiler's count and the runtime's depth agree in every reachable
\* state, for any number of slots, any nesting and any program.
THEOREM InductiveInvariant == Spec => []IInv
  BY InvInit, InvNext, PTL DEF Spec

\* Type correctness.
THEOREM TypeCorrect == Spec => []TypeOK
<1>1. IInv => TypeOK
  BY DEF IInv
<1> QED
  BY <1>1, InductiveInvariant, PTL

\* The top slot of a balanced runtime is the innermost open try.
LEMMA RightThrow == IInv => NextThrowIsRight
<1> SUFFICES ASSUME IInv, status = "running"
             PROVE  IF jmpBufs = <<>>
                    THEN NoTry(ctl)
                    ELSE \E i \in DOMAIN ctl :
                           /\ InnermostTry(ctl, i)
                           /\ ctl[i] = jmpBufs[arcis_try_depth]
  BY DEF NextThrowIsRight, IInv
<1>1. CASE jmpBufs = <<>>
  <2>1. ASSUME NEW i \in DOMAIN ctl, ctl[i] \in Tries PROVE FALSE
    <3>1. at[i] \in 1 .. Len(jmpBufs)
      BY <2>1, RunningFacts DEF Balanced, SlotsAreOpenTries
    <3> QED
      BY <1>1, <3>1
  <2> QED
    BY <1>1, <2>1 DEF NoTry, IsTry
<1>2. CASE jmpBufs # <<>>
  <2>1. PICK i \in 2 .. Len(ctl) :
          /\ ctl[i] \in Tries /\ ctl[i] = jmpBufs[arcis_try_depth]
          /\ at[i] = arcis_try_depth
    BY <1>2, TopSlot
  <2>2. i \in DOMAIN ctl /\ i \in 1 .. Len(ctl)
    BY RunningFacts
  <2>3. ASSUME NEW j \in i+1 .. Len(ctl), ctl[j] \in Tries PROVE FALSE
    <3>1. j \in 2 .. Len(ctl) /\ j \in 1 .. Len(ctl) /\ j - 1 \in 1 .. Len(ctl)
          /\ i \in 1 .. j - 1
      BY RunningFacts
    <3>2. at[j] = at[j-1] + 1 /\ at[i] <= at[j-1]
      BY <2>3, <3>1, RunningFacts DEF Balanced, DepthGrowsByTries
    <3>3. at[j] <= Len(jmpBufs) /\ at[j-1] \in Nat /\ Len(jmpBufs) \in Nat
      BY <3>1, RunningFacts
    <3> QED
      BY <2>1, <3>2, <3>3 DEF arcis_try_depth
  <2> QED
    BY <1>2, <2>1, <2>2, <2>3 DEF InnermostTry, IsTry
<1> QED
  BY <1>1, <1>2

\* arcis_throw always resumes the innermost open try of a live activation,
\* and reports an exception as uncaught only outside every try.
THEOREM ThrowsReachTheirHandler == Spec => []NextThrowIsRight
  BY RightThrow, InductiveInvariant, PTL

-----------------------------------------------------------------------------
\* The same definitions, as Exceptions sees them.
LEMMA SameStack ==
    /\ \A i : Language!CurrentCall(ctl, i) <=> CurrentCall(ctl, i)
    /\ \A i : Language!CurrentLoop(ctl, i) <=> CurrentLoop(ctl, i)
    /\ \A i : Language!InnermostTry(ctl, i) <=> InnermostTry(ctl, i)
    /\ Language!NoTry(ctl) <=> NoTry(ctl)
    /\ \A i : Language!Leave(ctl, i) = SubSeq(ctl, 1, i - 1)
    /\ Language!Constructs = Constructs
  BY DEF Language!CurrentCall, CurrentCall, Language!CurrentLoop, CurrentLoop,
         Language!InnermostTry, InnermostTry, Language!NoTry, NoTry,
         Language!IsTry, IsTry, Language!Leave, Language!Constructs, Constructs

\* Every step of the backend and its runtime is a step of the language.
LEMMA StepRefines ==
    ASSUME IInv, [Next]_vars
    PROVE  [Language!AbsNext]_(Language!absVars)
<1> USE SameStack
<1>1. ASSUME NEW e \in Constructs \ {"catch"}, status = "running",
             UNCHANGED status, ctl' = Append(ctl, e)
      PROVE  Language!AbsNext
  BY <1>1 DEF Language!AbsNext, Language!Enter, Language!Running
<1>2. CASE Call \/ EnterLoop
  BY <1>1, <1>2 DEF Call, EnterLoop, Push, Constructs
<1>3. ASSUME NEW t \in Tries, Try(t) PROVE Language!AbsNext
  BY <1>1, <1>3, NamesAreNotTries DEF Try, Push, Constructs
<1>4. CASE EndLoop \/ EndTry \/ EndCatch
  BY <1>4 DEF EndLoop, EndTry, EndCatch, IsTry, KeepFirst,
              Language!AbsNext, Language!LeaveTop, Language!Running
<1>5. CASE Return
  BY <1>5 DEF Return, KeepFirst, Language!AbsNext, Language!AbsReturn
<1>6. CASE Break
  BY <1>6 DEF Break, KeepFirst, Language!AbsNext, Language!AbsBreak,
              Language!Running
<1>7. CASE Continue
  <2>1. PICK i \in DOMAIN ctl : CurrentLoop(ctl, i) /\ KeepFirst(i)
    BY <1>7 DEF Continue
  <2>2. status = "running" /\ UNCHANGED status
    BY <1>7 DEF Continue
  <2>3. ctl' = SubSeq(ctl, 1, (i + 1) - 1)
    BY <2>1, <2>2, RunningFacts DEF KeepFirst
  <2> QED
    BY <2>1, <2>2, <2>3 DEF Language!AbsNext, Language!AbsContinue,
                            Language!Running
<1>8. CASE Throw
  <2>1. status = "running" /\ jmpBufs # <<>>
    BY <1>8 DEF Throw
  <2>2. PICK i \in DOMAIN ctl :
          InnermostTry(ctl, i) /\ ctl[i] = jmpBufs[arcis_try_depth]
    BY <2>1, RightThrow DEF NextThrowIsRight
  <2>3. PICK p \in 2 .. Len(ctl) :
          /\ ctl[p] = jmpBufs[arcis_try_depth]
          /\ \A j \in DOMAIN ctl : ctl[j] = ctl[p] => j = p
    BY <2>1, TopSlot
  <2>4. {j \in DOMAIN ctl : ctl[j] = jmpBufs[arcis_try_depth]} = {i}
    BY <2>2, <2>3
  <2>5. ctl' = Append(SubSeq(ctl, 1, i - 1), "catch") /\ UNCHANGED status
    BY <1>8, <2>4 DEF Throw
  <2> QED
    BY <2>1, <2>2, <2>5 DEF Language!AbsNext, Language!AbsThrow,
                            Language!Running
<1>9. CASE UncaughtThrow
  <2>1. jmpBufs = <<>> /\ status = "running"
    BY <1>9 DEF UncaughtThrow, arcis_try_depth, IInv, TypeOK
  <2>2. NoTry(ctl)
    BY <2>1, RightThrow DEF NextThrowIsRight
  <2> QED
    BY <1>9, <2>2 DEF UncaughtThrow, Language!AbsNext, Language!AbsUncaught
<1>10. CASE TryTooDeep
  BY <1>10 DEF TryTooDeep, Language!AbsNext, Language!AbsTooDeep
<1>11. CASE UNCHANGED vars
  BY <1>11 DEF vars, Language!absVars
<1> QED
  BY <1>2, <1>3, <1>4, <1>5, <1>6, <1>7, <1>8, <1>9, <1>10, <1>11
  DEF Next, Ended

\* The Cranelift backend with its C runtime implements try / catch / throw as
\* the language promises it, up to running out of slots at a try.
THEOREM ImplementsTheLanguage == Spec => ImplementsExceptions
<1>1. Init => Language!AbsInit
  BY DEF Init, Language!AbsInit
<1>2. IInv /\ [Next]_vars => [Language!AbsNext]_(Language!absVars)
  BY StepRefines
<1> QED
  BY <1>1, <1>2, InductiveInvariant, PTL
  DEF Spec, ImplementsExceptions, Language!AbsSpec

-----------------------------------------------------------------------------
(***************************************************************************)
(* The slots, counted.                                                     *)
(***************************************************************************)

\* at numbers the open tries from one to the number of slots taken.
LEMMA TriesAreSlots ==
    ASSUME NEW c, NEW o, NEW a, NEW b, Shaped(c, o, a, b), Balanced(c, o, a, b)
    PROVE  Cardinality({i \in 1 .. Len(c) : c[i] \in Tries}) = Len(b)
<1> DEFINE T == {i \in 1 .. Len(c) : c[i] \in Tries}
           f == [i \in T |-> a[i]]
<1>1. Len(b) \in Nat
  BY ShapedFacts
<1>2. /\ \A i \in T : a[i] \in 1 .. Len(b) /\ b[a[i]] = c[i]
      /\ \A d \in 1 .. Len(b) : \E i \in T : a[i] = d
  BY DEF Balanced, SlotsAreOpenTries
<1>3. \A i, j \in T : c[i] = c[j] => i = j
  BY DEF Balanced, EachTryOnce
<1> HIDE DEF T
<1>4. f \in [T -> 1 .. Len(b)]
  BY <1>2
<1>5. \A i, j \in T : f[i] = f[j] => i = j
  BY <1>2, <1>3
<1>6. \A d \in 1 .. Len(b) : \E i \in T : f[i] = d
  BY <1>2
<1> HIDE DEF f
<1>7. f \in Bijection(T, 1 .. Len(b))
  <2>1. f \in Injection(T, 1 .. Len(b))
    BY Zenon, <1>4, <1>5 DEF Injection, IsInjective
  <2>2. f \in Surjection(T, 1 .. Len(b))
    BY Zenon, <1>4, <1>6 DEF Surjection
  <2> QED
    BY <2>1, <2>2 DEF Bijection
<1>8. ExistsBijection(1 .. Len(b), T)
  BY <1>7, Fun_ExistsBijSymmetric DEF ExistsBijection
<1>9. Cardinality(T) = Len(b)
  BY <1>1, <1>8, FS_CountingElements
<1> QED
  BY <1>9 DEF T

\* The depth at which a construct was entered counts the tries open up to it.
LEMMA DepthCountsTries ==
    ASSUME IInv, status = "running", NEW n \in 1 .. Len(ctl)
    PROVE  OpenTries(n) = at[n]
<1> DEFINE c == SubSeq(ctl, 1, n)
           o == SubSeq(open, 1, n)
           a == SubSeq(at, 1, n)
           b == SubSeq(jmpBufs, 1, at[n])
<1>1. Shaped(ctl, open, at, jmpBufs) /\ Balanced(ctl, open, at, jmpBufs)
  BY RunningFacts
<1>2. at[n] \in 0 .. Len(jmpBufs) /\ Shaped(c, o, a, b) /\ Balanced(c, o, a, b)
  BY <1>1, PrefixBalanced
<1>3. Len(b) = at[n]
  BY <1>1, <1>2, PrefixFacts DEF Shaped
<1>4. Len(c) = n /\ \A i \in 1 .. n : c[i] = ctl[i]
  <2>1. ctl \in Seq(Constructs) /\ n \in 0 .. Len(ctl)
    BY <1>1 DEF Shaped
  <2> QED
    BY <2>1, PrefixFacts
<1> HIDE DEF c, o, a, b
<1>5. Cardinality({i \in 1 .. Len(c) : c[i] \in Tries}) = Len(b)
  BY <1>2, TriesAreSlots
<1>6. {i \in 1 .. Len(c) : c[i] \in Tries} = {i \in 1 .. n : IsTry(ctl, i)}
  BY <1>4 DEF IsTry
<1> QED
  BY <1>3, <1>5, <1>6 DEF OpenTries

LEMMA MatchingHandlers == IInv => HandlersMatch
<1> SUFFICES ASSUME IInv, status = "running"
             PROVE  /\ Len(jmpBufs) = OpenTries(Len(ctl))
                    /\ \A i \in DOMAIN ctl :
                          IsTry(ctl, i) => jmpBufs[OpenTries(i)] = ctl[i]
  BY DEF HandlersMatch
<1>1. /\ Len(ctl) \in 1 .. Len(ctl) /\ DOMAIN ctl = 1 .. Len(ctl)
      /\ at[Len(ctl)] = Len(jmpBufs)
  BY RunningFacts
<1>2. Len(jmpBufs) = OpenTries(Len(ctl))
  BY <1>1, DepthCountsTries
<1>3. \A i \in 1 .. Len(ctl) : ctl[i] \in Tries => jmpBufs[at[i]] = ctl[i]
  BY RunningFacts DEF Balanced, SlotsAreOpenTries
<1>4. ASSUME NEW i \in DOMAIN ctl, IsTry(ctl, i)
      PROVE  jmpBufs[OpenTries(i)] = ctl[i]
  BY <1>1, <1>3, <1>4, DepthCountsTries DEF IsTry
<1> QED
  BY <1>2, <1>4

\* arcis_try_stack holds the open tries in their order, for any number of
\* slots, whatever the program does: the open-try counter is balanced.
THEOREM HandlersAlwaysMatch == Spec => []HandlersMatch
  BY MatchingHandlers, InductiveInvariant, PTL

\* Leaving constructs takes no slot.
LEMMA LeavingTakesNoSlot ==
    ASSUME IInv, IInv', status = "running", UNCHANGED status,
           NEW n \in 1 .. Len(ctl), KeepFirst(n)
    PROVE  Len(jmpBufs') <= Len(jmpBufs)
<1>1. at'[Len(ctl')] = Len(jmpBufs')
  BY DEF IInv, Balanced, SlotsAreOpenTries
<1>2. at[n] <= Len(jmpBufs)
  BY RunningFacts
<1>3. Len(ctl') = n /\ at'[n] = at[n]
  <2>1. /\ ctl \in Seq(Constructs) /\ at \in Seq(Nat) /\ Len(at) = Len(ctl)
        /\ n \in 0 .. Len(ctl) /\ n \in 1 .. n
    BY RunningFacts DEF Shaped
  <2> QED
    BY <2>1, PrefixFacts DEF KeepFirst
<1> QED
  BY <1>1, <1>2, <1>3

\* No more slots are taken than there are, and how the program ended tells
\* which are left.
SlotsAccounted ==
    /\ status = "running" => Len(jmpBufs) <= MaxTry
    /\ NoSlotLeak

LEMMA SlotsNext == IInv /\ IInv' /\ SlotsAccounted /\ [Next]_vars => SlotsAccounted'
<1> SUFFICES ASSUME IInv, IInv', SlotsAccounted, [Next]_vars PROVE SlotsAccounted'
  OBVIOUS
<1>1. ASSUME status = "running", UNCHANGED status, Len(jmpBufs') <= Len(jmpBufs)
      PROVE  SlotsAccounted'
  <2>1. Len(jmpBufs) <= MaxTry /\ Len(jmpBufs) \in Nat /\ Len(jmpBufs') \in Nat
    BY <1>1 DEF SlotsAccounted, IInv, TypeOK
  <2> QED
    BY <1>1, <2>1, BoundsAssumption DEF SlotsAccounted, NoSlotLeak
<1>2. ASSUME status = "running", UNCHANGED status,
             NEW n \in 1 .. Len(ctl), KeepFirst(n)
      PROVE  SlotsAccounted'
  BY <1>1, <1>2, LeavingTakesNoSlot
<1>3. CASE Call \/ EnterLoop
  <2>1. status = "running" /\ UNCHANGED <<status, jmpBufs>> /\ Len(jmpBufs) <= Len(jmpBufs)
    BY <1>3, RunningFacts DEF Call, EnterLoop
  <2> QED
    BY <1>1, <2>1
<1>4. CASE EndLoop \/ EndTry \/ EndCatch
  <2>1. /\ status = "running" /\ UNCHANGED status /\ KeepFirst(Len(ctl) - 1)
        /\ ctl[Len(ctl)] # "call"
    BY <1>4, NamesAreNotTries DEF EndLoop, EndTry, EndCatch, IsTry
  <2>2. Len(ctl) - 1 \in 1 .. Len(ctl)
    BY <2>1, RunningFacts
  <2> QED
    BY <1>2, <2>1, <2>2
<1>5. ASSUME NEW t \in Tries, Try(t) PROVE SlotsAccounted'
  <2>1. /\ status = "running" /\ UNCHANGED status
        /\ Len(jmpBufs) < MaxTry /\ jmpBufs' = Append(jmpBufs, t)
    BY <1>5 DEF Try, arcis_try_depth
  <2>2. Len(jmpBufs') = Len(jmpBufs) + 1 /\ Len(jmpBufs) \in Nat
    BY <2>1 DEF IInv, TypeOK
  <2>3. Len(jmpBufs') <= MaxTry
    BY <2>1, <2>2, BoundsAssumption
  <2> QED
    BY <2>1, <2>3 DEF SlotsAccounted, NoSlotLeak
<1>6. CASE TryTooDeep
  <2>1. /\ status = "running" /\ status' = "tooDeep" /\ UNCHANGED <<ctl, jmpBufs>>
        /\ Len(jmpBufs) >= MaxTry /\ Len(jmpBufs) <= MaxTry
    BY <1>6 DEF TryTooDeep, arcis_try_depth, SlotsAccounted
  <2>2. Len(jmpBufs) = MaxTry
    BY <2>1, BoundsAssumption DEF IInv, TypeOK
  <2>3. OpenTries(Len(ctl)) = MaxTry
    BY <2>1, <2>2, MatchingHandlers DEF HandlersMatch
  <2>4. OpenTries(Len(ctl))' = OpenTries(Len(ctl))
    BY <2>1 DEF OpenTries
  <2> QED
    BY <2>1, <2>3, <2>4 DEF SlotsAccounted, NoSlotLeak
<1>7. CASE Return
  <2>1. PICK i \in DOMAIN ctl :
          /\ CurrentCall(ctl, i)
          /\ TryEnds(OpenTryCount)
          /\ IF i = 1
             THEN status' = "exited" /\ UNCHANGED <<ctl, open, at>>
             ELSE UNCHANGED status /\ KeepFirst(i - 1)
    BY <1>7 DEF Return
  <2>2. status = "running"
    BY <1>7 DEF Return
  <2>3. CASE i = 1
    <3>1. /\ 1 \in 1 .. Len(ctl) /\ SameActivation(ctl, 1, Len(ctl))
          /\ open[1] = 0 /\ at[1] = 0 /\ OpenTryCount \in Nat
      BY <2>1, <2>2, <2>3, RunningFacts
      DEF CurrentCall, SameActivation, OpenTryCount, Balanced, CallsStartAtZero
    <3>2. TryEnds(OpenTryCount - open[1])
      <4>1. OpenTryCount - open[1] = OpenTryCount
        BY <3>1
      <4> QED
        BY <2>1, <4>1
    <3>3. jmpBufs' = SubSeq(jmpBufs, 1, 0)
      BY <2>2, <3>1, <3>2, EndsToPosition
    <3>4. jmpBufs' = <<>>
      BY <3>3
    <3> QED
      BY <2>1, <2>3, <3>4 DEF SlotsAccounted, NoSlotLeak
  <2>4. CASE i # 1
    <3>1. i - 1 \in 1 .. Len(ctl)
      BY <2>1, <2>2, <2>4, RunningFacts
    <3> QED
      BY <1>2, <2>1, <2>2, <2>4, <3>1
  <2> QED
    BY <2>3, <2>4
<1>8. CASE Break \/ Continue
  <2>1. PICK i \in DOMAIN ctl : CurrentLoop(ctl, i) /\ (KeepFirst(i - 1) \/ KeepFirst(i))
    BY <1>8 DEF Break, Continue
  <2>2. status = "running" /\ UNCHANGED status
    BY <1>8 DEF Break, Continue
  <2>3. i \in 1 .. Len(ctl) /\ i - 1 \in 1 .. Len(ctl)
    <3>1. i \in 1 .. Len(ctl) /\ ctl[i] = "loop" /\ ctl[1] = "call"
      BY <2>1, <2>2, RunningFacts DEF CurrentLoop
    <3> QED
      BY <3>1
  <2> QED
    BY <1>2, <2>1, <2>2, <2>3
<1>9. CASE Throw
  <2>1. status = "running" /\ jmpBufs # <<>>
    BY <1>9 DEF Throw
  <2>2. status' # "wild"
    BY DEF IInv
  <2>3. PICK i \in DOMAIN ctl :
          /\ ctl' = Append(SubSeq(ctl, 1, i - 1), "catch")
          /\ at' = Append(SubSeq(at, 1, i - 1), arcis_try_depth - 1)
          /\ UNCHANGED status
    BY <1>9, <2>2 DEF Throw
  <2>4. Len(ctl') = i /\ at'[i] = Len(jmpBufs) - 1
    <3>1. /\ i - 1 \in 0 .. Len(ctl) /\ ctl \in Seq(Constructs) /\ at \in Seq(Nat)
          /\ Len(at) = Len(ctl) /\ i \in 1 .. Len(ctl)
      BY SMTT(30), <2>1, <2>3, RunningFacts DEF Shaped
    <3>2. /\ SubSeq(ctl, 1, i - 1) \in Seq(Constructs) /\ Len(SubSeq(ctl, 1, i - 1)) = i - 1
          /\ SubSeq(at, 1, i - 1) \in Seq(Nat) /\ Len(SubSeq(at, 1, i - 1)) = i - 1
      BY <3>1, PrefixFacts
    <3>3. Len(ctl') = (i - 1) + 1 /\ at'[(i - 1) + 1] = arcis_try_depth - 1
      BY <2>3, <3>2
    <3> QED
      BY <3>1, <3>3 DEF arcis_try_depth
  <2>5. at'[Len(ctl')] = Len(jmpBufs')
    BY <2>1, <2>3 DEF IInv, Balanced, SlotsAreOpenTries
  <2>6. Len(jmpBufs') <= Len(jmpBufs)
    BY <2>1, <2>4, <2>5, RunningFacts
  <2> QED
    BY <1>1, <2>1, <2>3, <2>6
<1>10. CASE UncaughtThrow
  BY <1>10 DEF UncaughtThrow, SlotsAccounted, NoSlotLeak
<1>11. CASE UNCHANGED vars
  BY <1>11 DEF vars, SlotsAccounted, NoSlotLeak, OpenTries
<1> QED
  BY <1>3, <1>4, <1>5, <1>6, <1>7, <1>8, <1>9, <1>10, <1>11 DEF Next, Ended

\* arcis_try_push aborts only when MaxTry tries really are open, and no slot is
\* left taken when arcis_main returns.
THEOREM NoSlotIsEverLeaked == Spec => []NoSlotLeak
<1>1. Init => SlotsAccounted
  BY BoundsAssumption DEF Init, SlotsAccounted, NoSlotLeak
<1>2. IInv /\ IInv' /\ SlotsAccounted /\ [Next]_vars => SlotsAccounted'
  BY SlotsNext
<1>3. SlotsAccounted => NoSlotLeak
  BY DEF SlotsAccounted
<1> QED
  BY <1>1, <1>2, <1>3, InductiveInvariant, PTL DEF Spec

-----------------------------------------------------------------------------
\* Calls of arcis_try_end leave the slots below as they are.
LEMMA EndsKeepElements ==
    ASSUME jmpBufs \in Seq(Tries), NEW m \in Int, TryEnds(m)
    PROVE  \A d \in 1 .. Len(jmpBufs') : jmpBufs'[d] = jmpBufs[d]
<1> DEFINE k == IF m > Len(jmpBufs) THEN 0 ELSE Len(jmpBufs) - m
<1>1. Len(jmpBufs) \in Nat
  OBVIOUS
<1>2. k \in Nat
  BY <1>1
<1>3. jmpBufs' = SubSeq(jmpBufs, 1, k)
  BY DEF TryEnds
<1> HIDE DEF k
<1>4. Len(SubSeq(jmpBufs, 1, k)) = k /\ \A d \in 1 .. k : SubSeq(jmpBufs, 1, k)[d] = jmpBufs[d]
  BY <1>2
<1> QED
  BY <1>3, <1>4

\* Slots that a construct of both states was entered with are the same in both
\* when those that exist in both are.
LEMMA SlotsOfConstructStay ==
    ASSUME IInv, IInv', status = "running", status' = "running",
           \A d \in 1 .. Len(jmpBufs) :
               d \in 1 .. Len(jmpBufs') => jmpBufs'[d] = jmpBufs[d],
           NEW i \in DOMAIN ctl, i \in DOMAIN ctl', at'[i] = at[i]
    PROVE  \A d \in 1 .. at[i] : d \in DOMAIN jmpBufs' /\ jmpBufs'[d] = jmpBufs[d]
<1>1. /\ i \in 1 .. Len(ctl) /\ at[i] \in Nat /\ at[i] <= Len(jmpBufs)
      /\ Len(jmpBufs) \in Nat
  BY RunningFacts
<1>2. /\ Len(ctl') \in Nat /\ i \in 1 .. Len(ctl')
      /\ Len(jmpBufs') \in Nat /\ DOMAIN jmpBufs' = 1 .. Len(jmpBufs')
  BY DEF IInv, TypeOK
<1>3. at'[i] <= at'[Len(ctl')] /\ at'[Len(ctl')] = Len(jmpBufs')
  <2>1. Balanced(ctl', open', at', jmpBufs') /\ Len(ctl') \in 1 .. Len(ctl')
    BY <1>2 DEF IInv
  <2> QED
    BY <1>2, <2>1 DEF Balanced, DepthGrowsByTries, SlotsAreOpenTries
<1>4. at[i] <= Len(jmpBufs')
  BY <1>3
<1> QED
  BY <1>1, <1>2, <1>4

\* What OuterHandlersKept says of a step.
KeepsOuterHandlers ==
    \A i \in DOMAIN ctl :
        (status' = "running" /\ i \in DOMAIN ctl' /\ \A j \in 1 .. i : ctl'[j] = ctl[j])
          => \A d \in 1 .. at[i] : d \in DOMAIN jmpBufs' /\ jmpBufs'[d] = jmpBufs[d]

LEMMA OuterHandlersNext == IInv /\ IInv' /\ Next => KeepsOuterHandlers \/ UNCHANGED vars
<1> SUFFICES ASSUME IInv, IInv', Next, ~ UNCHANGED vars, status' = "running",
                    NEW i \in DOMAIN ctl, i \in DOMAIN ctl',
                    \A j \in 1 .. i : ctl'[j] = ctl[j]
             PROVE  \A d \in 1 .. at[i] :
                       d \in DOMAIN jmpBufs' /\ jmpBufs'[d] = jmpBufs[d]
  BY DEF KeepsOuterHandlers
<1>1. status = "running"
  BY DEF Next, Call, EnterLoop, EndLoop, Try, TryTooDeep, EndTry, EndCatch, Return,
         Break, Continue, Throw, UncaughtThrow, Ended
<1>2. /\ DOMAIN ctl = 1 .. Len(ctl) /\ i \in 1 .. Len(ctl) /\ i \in 1 .. i
      /\ Len(ctl) \in Nat /\ Len(open) = Len(ctl) /\ Len(at) = Len(ctl)
      /\ ctl \in Seq(Constructs) /\ at \in Seq(Nat) /\ jmpBufs \in Seq(Tries)
      /\ \A n \in 1 .. Len(ctl) : open[n] \in Nat
      /\ OpenTryCount \in Nat
  <2>1. DOMAIN ctl = 1 .. Len(ctl) /\ Len(ctl) \in 1 .. Len(ctl)
    BY <1>1, RunningFacts
  <2>2. i \in 1 .. Len(ctl) /\ i \in 1 .. i
    BY <2>1
  <2> QED
    BY <1>1, <2>1, <2>2, RunningFacts DEF Shaped, OpenTryCount
<1>3. ASSUME \A d \in 1 .. Len(jmpBufs) :
                 d \in 1 .. Len(jmpBufs') => jmpBufs'[d] = jmpBufs[d],
             at'[i] = at[i]
      PROVE  \A d \in 1 .. at[i] : d \in DOMAIN jmpBufs' /\ jmpBufs'[d] = jmpBufs[d]
  BY <1>1, <1>3, SlotsOfConstructStay
<1>4. ASSUME NEW e, NEW k, NEW d, Push(e, k, d) PROVE at'[i] = at[i]
  BY <1>2, <1>4 DEF Push
<1>5. ASSUME NEW n \in 1 .. Len(ctl), KeepFirst(n) PROVE at'[i] = at[i]
  <2>1. n \in 0 .. Len(ctl) /\ n \in 0 .. Len(at)
    BY <1>2
  <2>2. /\ Len(SubSeq(ctl, 1, n)) = n /\ SubSeq(ctl, 1, n) \in Seq(Constructs)
        /\ \A j \in 1 .. n : SubSeq(at, 1, n)[j] = at[j]
    BY <1>2, <2>1, PrefixFacts
  <2>3. i \in 1 .. n
    BY <1>5, <2>2 DEF KeepFirst
  <2> QED
    BY <1>5, <2>2, <2>3 DEF KeepFirst
<1>6. CASE Call \/ EnterLoop
  <2>1. UNCHANGED jmpBufs /\ \E e, k, d : Push(e, k, d)
    BY <1>6 DEF Call, EnterLoop
  <2> QED
    BY <1>3, <1>4, <2>1
<1>7. ASSUME NEW t \in Tries, Try(t)
      PROVE  \A d \in 1 .. at[i] : d \in DOMAIN jmpBufs' /\ jmpBufs'[d] = jmpBufs[d]
  <2>1. jmpBufs' = Append(jmpBufs, t) /\ \E e, k, d : Push(e, k, d)
    BY <1>7 DEF Try
  <2>2. \A d \in 1 .. Len(jmpBufs) : jmpBufs'[d] = jmpBufs[d]
    BY <1>2, <2>1, AppendFacts
  <2> QED
    BY <1>3, <1>4, <2>1, <2>2
<1>8. ASSUME NEW n \in 1 .. Len(ctl), KeepFirst(n), NEW m \in Int,
             TryEnds(m) \/ UNCHANGED jmpBufs
      PROVE  \A d \in 1 .. at[i] : d \in DOMAIN jmpBufs' /\ jmpBufs'[d] = jmpBufs[d]
  <2>1. \A d \in 1 .. Len(jmpBufs') : jmpBufs'[d] = jmpBufs[d]
    BY <1>2, <1>8, EndsKeepElements
  <2>2. at'[i] = at[i]
    BY <1>5, <1>8
  <2> QED
    BY <1>3, <2>1, <2>2
<1>9. CASE EndLoop \/ EndTry \/ EndCatch
  <2>1. /\ KeepFirst(Len(ctl) - 1) /\ ctl[Len(ctl)] # "call"
        /\ TryEnds(1) \/ UNCHANGED jmpBufs
    BY <1>9, NamesAreNotTries DEF EndLoop, EndTry, EndCatch, IsTry
  <2>2. Len(ctl) - 1 \in 1 .. Len(ctl)
    BY <1>1, <2>1, RunningFacts
  <2>3. 1 \in Int
    OBVIOUS
  <2> QED
    BY <1>8, <2>1, <2>2, <2>3
<1>10. CASE Return
  <2>1. PICK p \in DOMAIN ctl :
          /\ TryEnds(OpenTryCount)
          /\ IF p = 1 THEN status' = "exited" ELSE KeepFirst(p - 1)
    BY <1>10 DEF Return
  <2>2. p # 1 /\ KeepFirst(p - 1)
    BY <2>1
  <2>3. p - 1 \in 1 .. Len(ctl) /\ OpenTryCount \in Int
    BY <1>2, <2>2
  <2> QED
    BY <1>8, <2>1, <2>2, <2>3
<1>11. CASE Break \/ Continue
  <2>1. PICK p \in DOMAIN ctl :
          /\ CurrentLoop(ctl, p) /\ TryEnds(OpenTryCount - open[p])
          /\ KeepFirst(p - 1) \/ KeepFirst(p)
    BY <1>11 DEF Break, Continue
  <2>2. p \in 1 .. Len(ctl) /\ p - 1 \in 1 .. Len(ctl)
    <3>1. p \in 1 .. Len(ctl) /\ ctl[p] = "loop" /\ ctl[1] = "call"
      BY <1>1, <2>1, RunningFacts DEF CurrentLoop
    <3> QED
      BY <3>1
  <2>3. OpenTryCount - open[p] \in Int
    BY <1>2, <2>2
  <2> QED
    BY <1>8, <2>1, <2>2, <2>3
<1>12. CASE Throw
  <2>1. PICK p \in DOMAIN ctl :
          /\ ctl[p] = jmpBufs[arcis_try_depth]
          /\ ctl' = Append(SubSeq(ctl, 1, p - 1), "catch")
          /\ at' = Append(SubSeq(at, 1, p - 1), arcis_try_depth - 1)
          /\ TryEnds(1)
    BY <1>12 DEF Throw, IInv
  <2>2. jmpBufs # <<>> /\ ctl[p] \in Tries
    <3>1. jmpBufs # <<>>
      BY <1>12 DEF Throw
    <3>2. arcis_try_depth \in 1 .. Len(jmpBufs)
      BY <1>2, <3>1 DEF arcis_try_depth
    <3> QED
      BY <1>2, <2>1, <3>1, <3>2
  <2>3. /\ p \in 1 .. Len(ctl) /\ p - 1 \in 0 .. Len(ctl) /\ p - 1 \in 0 .. Len(at)
    BY <1>2
  <2>4. /\ SubSeq(ctl, 1, p - 1) \in Seq(Constructs) /\ Len(SubSeq(ctl, 1, p - 1)) = p - 1
        /\ SubSeq(at, 1, p - 1) \in Seq(Nat) /\ Len(SubSeq(at, 1, p - 1)) = p - 1
        /\ \A j \in 1 .. p - 1 : SubSeq(at, 1, p - 1)[j] = at[j]
    BY <1>2, <2>3, PrefixFacts
  <2>5. Len(ctl') = p /\ ctl'[p] = "catch" /\ i \in 1 .. p
    <3>1. "catch" \in Constructs
      BY DEF Constructs
    <3>2. /\ Len(ctl') = (p - 1) + 1 /\ ctl'[(p - 1) + 1] = "catch"
          /\ ctl' \in Seq(Constructs)
      BY <2>1, <2>4, <3>1, AppendFacts
    <3> QED
      BY <2>3, <3>2
  <2>6. i # p
    BY <1>2, <2>2, <2>5, NamesAreNotTries
  <2>7. i \in 1 .. p - 1
    BY <2>3, <2>5, <2>6
  <2>8. at'[i] = at[i]
    BY <2>1, <2>4, <2>7
  <2>9. \A d \in 1 .. Len(jmpBufs') : jmpBufs'[d] = jmpBufs[d]
    <3>1. 1 \in Int
      OBVIOUS
    <3> QED
      BY <1>2, <2>1, <3>1, EndsKeepElements
  <2> QED
    BY <1>3, <2>8, <2>9
<1>13. CASE TryTooDeep \/ UncaughtThrow \/ Ended
  BY <1>13 DEF TryTooDeep, UncaughtThrow, Ended
<1> QED
  BY <1>6, <1>7, <1>9, <1>10, <1>11, <1>12, <1>13 DEF Next

\* A construct that stays open keeps the handlers it was entered with, at
\* every way out of what it contains.
THEOREM OuterHandlersAlwaysKept == Spec => OuterHandlersKept
<1>1. IInv /\ IInv' /\ [Next]_vars => [KeepsOuterHandlers]_vars
  BY OuterHandlersNext
<1>2. Spec => [][KeepsOuterHandlers]_vars
  BY <1>1, InductiveInvariant, PTL DEF Spec
<1> QED
  BY <1>2 DEF OuterHandlersKept, KeepsOuterHandlers
=============================================================================
