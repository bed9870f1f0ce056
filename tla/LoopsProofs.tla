----------------------------- MODULE LoopsProofs -----------------------------
(***************************************************************************)
(* Theorems about the two models of loops, for every number of loops,      *)
(* every length of array, every set of constructs and every depth of       *)
(* nesting.  Loops: which loops of a program visit their elements in       *)
(* order, each once and none skipped.  LoopContext: the check of break and *)
(* continue and the jumps that are compiled agree with each other and with *)
(* the program.                                                            *)
(***************************************************************************)
EXTENDS LoopContext, Loops, SequenceTheorems, WellFoundedInduction, TLAPS

\* A sequence with one element more, and one with the last element gone.
LEMMA AppendFacts ==
    ASSUME NEW S, NEW s \in Seq(S), NEW e \in S
    PROVE  /\ Append(s, e) \in Seq(S)
           /\ Len(Append(s, e)) = Len(s) + 1
           /\ \A i \in 1 .. Len(s) : Append(s, e)[i] = s[i]
           /\ Append(s, e)[Len(s) + 1] = e
  OBVIOUS

LEMMA PrefixFacts ==
    ASSUME NEW S, NEW s \in Seq(S), NEW n \in 0 .. Len(s)
    PROVE  /\ SubSeq(s, 1, n) \in Seq(S)
           /\ Len(SubSeq(s, 1, n)) = n
           /\ \A i \in 1 .. n : SubSeq(s, 1, n)[i] = s[i]
  OBVIOUS

LEMMA FrontFacts ==
    ASSUME NEW S, NEW s \in Seq(S), s # <<>>
    PROVE  /\ Len(s) \in Nat /\ Len(s) >= 1
           /\ SubSeq(s, 1, Len(s) - 1) \in Seq(S)
           /\ Len(SubSeq(s, 1, Len(s) - 1)) = Len(s) - 1
           /\ \A i \in 1 .. Len(s) - 1 : SubSeq(s, 1, Len(s) - 1)[i] = s[i]
<1>1. Len(s) \in Nat /\ Len(s) # 0
  BY EmptySeq, LenProperties
<1>2. Len(s) - 1 \in 0 .. Len(s)
  BY <1>1
<1>3. \A n \in 0 .. Len(s) :
        /\ SubSeq(s, 1, n) \in Seq(S) /\ Len(SubSeq(s, 1, n)) = n
        /\ \A i \in 1 .. n : SubSeq(s, 1, n)[i] = s[i]
  BY PrefixFacts
<1>4. Len(s) >= 1
  BY <1>1
<1> QED
  BY <1>1, <1>2, <1>3, <1>4

-----------------------------------------------------------------------------
(*                                  Loops                                  *)

\* A set of loops has a last one in source order.
LEMMA LastLoop ==
    ASSUME NEW T, T \subseteq Loops, T # {}
    PROVE  Max(T) \in T
<1> DEFINE R == OpToRel(<, Nat)
           U == {LoopCount - x : x \in T}
<1>1. /\ LoopCount \in Nat
      /\ \A x \in T : x \in 1 .. LoopCount /\ x \in Nat /\ LoopCount - x \in Nat
  BY LoopsAssumption DEF Loops
<1>2. U \subseteq Nat /\ U # {}
  BY <1>1
<1>3. /\ IsWellFoundedOn(R, Nat)
      /\ \A x, y \in Nat : y < x => <<y, x>> \in R
  BY NatLessThanWellFounded DEF OpToRel
<1> HIDE DEF R
<1>4. PICK u \in U : \A v \in U : ~ (<<v, u>> \in R)
  BY <1>2, <1>3, WFMin
<1>5. PICK x \in T : u = LoopCount - x
  BY <1>4
<1>6. \A y \in T : x >= y
  <2> TAKE y \in T
  <2>1. LoopCount - x \in Nat /\ LoopCount - y \in U /\ LoopCount - y \in Nat
    BY <1>1
  <2>2. ~ (LoopCount - y < LoopCount - x)
    BY <1>3, <1>4, <1>5, <2>1
  <2> QED BY <1>1, <2>2
<1> QED BY <1>6 DEF Max

\* An increment block writes the index of its own loop or of a later one.
LEMMA IncrementFacts ==
    ASSUME LoopsTypeOK, NEW i \in Loops
    PROVE  IncrementOf(i) \in Loops /\ IncrementOf(i) >= i
<1>1. CASE kind[i] = "for"
  BY <1>1 DEF IncrementOf, Loops
<1>2. CASE kind[i] # "for"
  <2> DEFINE T == {j \in ForOfs : Inside(j, i)}
  <2>1. kind[i] = "forOf" /\ i \in Int /\ LoopCount \in Int
    BY <1>2, LoopsAssumption DEF LoopsTypeOK, Loops
  <2>2. i \in T /\ T \subseteq Loops
    BY <2>1 DEF ForOfs, Inside
  <2>3. Max(T) \in T /\ IncrementOf(i) = Max(T)
    BY <1>2, <2>2, LastLoop DEF IncrementOf
  <2> QED BY <2>3 DEF ForOfs, Inside
<1> QED BY <1>1, <1>2

\* Where no for-of is inside another, every loop writes its own index.
LEMMA FlatLoops ==
    ASSUME LoopsTypeOK, ProgramOK, ~ NestedForOf, NEW i \in Loops
    PROVE  OwnIndex(i)
<1>1. CASE kind[i] = "for"
  BY <1>1 DEF OwnIndex, IncrementOf
<1>2. CASE kind[i] # "for"
  <2> DEFINE T == {j \in ForOfs : Inside(j, i)}
  <2>1. kind[i] = "forOf" /\ i \in Int
    BY <1>2, LoopsAssumption DEF LoopsTypeOK, Loops
  <2>2. i \in ForOfs /\ Inside(i, i)
    BY <2>1 DEF ForOfs, Inside
  <2>3. T = {i}
    BY <2>2 DEF ProgramOK
  <2>4. Max({i}) = i
    <3>1. {i} \subseteq Loops /\ {i} # {}
      OBVIOUS
    <3> QED BY <3>1, LastLoop
  <2> QED BY <1>2, <2>3, <2>4 DEF OwnIndex, IncrementOf
<1> QED BY <1>1, <1>2

\* Which index a loop writes is a matter of the program alone.
LEMMA SameIncrements ==
    ASSUME UNCHANGED program
    PROVE  /\ ProgramOK => ProgramOK'
           /\ \A i \in Loops : IncrementOf(i)' = IncrementOf(i)
<1>1. parent' = parent /\ kind' = kind
  BY DEF program
<1>2. ForOfs' = ForOfs
  BY <1>1 DEF ForOfs
<1>3. \A j, i : Inside(j, i)' <=> Inside(j, i)
  BY <1>1 DEF Inside
<1>4. \A i : {j \in ForOfs : Inside(j, i)}' = {j \in ForOfs : Inside(j, i)}
  BY <1>2, <1>3
<1>5. \A i \in Loops : IncrementOf(i)' = IncrementOf(i)
  BY <1>1, <1>4 DEF IncrementOf
<1>6. ProgramOK => ProgramOK'
  BY <1>1, <1>2, <1>3 DEF ProgramOK, SourceOrder
<1> QED BY <1>5, <1>6

\* A loop that is run as before writes the index that it wrote before.
LEMMA SameOwnIndex ==
    ASSUME UNCHANGED program, NEW k, active'[k] = active[k], active[k] \in Loops, OwnIndex(active[k])'
    PROVE  OwnIndex(active[k])
BY SameIncrements DEF OwnIndex, IncrementOf

-----------------------------------------------------------------------------
\* The loops being run.
LEMMA ActiveFacts ==
    ASSUME LoopsTypeOK
    PROVE  /\ Len(active) \in Nat /\ DOMAIN active = 1 .. Len(active)
           /\ \A k \in 1 .. Len(active) :
                 /\ active[k] \in Loops /\ active[k] \in Nat /\ k \in Nat
                 /\ seen[active[k]] \in Seq(Nat) /\ Len(seen[active[k]]) \in Nat
                 /\ idx[active[k]] \in Nat /\ len[active[k]] \in 0 .. MaxLen
           /\ active = <<>> => Body = Main
           /\ active # <<>> => Len(active) \in 1 .. Len(active) /\ Body = active[Len(active)]
           /\ Body \in Main .. LoopCount
<1>1. Len(active) \in Nat /\ DOMAIN active = 1 .. Len(active)
  BY DEF LoopsTypeOK
<1>2. ASSUME NEW k \in 1 .. Len(active)
      PROVE  /\ active[k] \in Loops /\ active[k] \in Nat /\ k \in Nat
             /\ seen[active[k]] \in Seq(Nat) /\ Len(seen[active[k]]) \in Nat
             /\ idx[active[k]] \in Nat /\ len[active[k]] \in 0 .. MaxLen
  <2>1. active[k] \in Loops /\ k \in Nat
    BY <1>1, <1>2 DEF LoopsTypeOK
  <2>2. seen[active[k]] \in Seq(Nat)
    BY <2>1 DEF LoopsTypeOK
  <2> QED BY <2>1, <2>2 DEF LoopsTypeOK, Loops
<1>3. active # <<>> => Len(active) \in 1 .. Len(active) /\ Body = active[Len(active)]
  BY <1>1 DEF LoopsTypeOK, Body
<1>4. active = <<>> => Body = Main
  BY DEF Body
<1>5. Body \in Main .. LoopCount
  BY <1>2, <1>3, <1>4, LoopsAssumption DEF Loops, Main
<1> QED BY <1>1, <1>2, <1>3, <1>4, <1>5

\* A loop is left: the loops around it are in the iterations they were in.
LEMMA LeaveFacts ==
    ASSUME LoopsIInv, active # <<>>, Leave, UNCHANGED <<parent, kind, passed, idx, len, seen>>
    PROVE  LoopsIInv'
<1> DEFINE n == Len(active)
<1>1. LoopsTypeOK /\ ProgramOK /\ OutsideIn /\ IndicesInStep /\ CondInLoop
  BY DEF LoopsIInv
<1>2. n \in Nat /\ n >= 1 /\ n - 1 \in 0 .. n /\ active \in Seq(Loops)
  BY <1>1, ActiveFacts DEF LoopsTypeOK
<1>3. /\ active' \in Seq(Loops) /\ Len(active') = n - 1
      /\ \A k \in 1 .. n - 1 : active'[k] = active[k] /\ k \in 1 .. n /\ k # n
  <2>1. active' = SubSeq(active, 1, n - 1)
    BY DEF Leave
  <2> HIDE DEF n
  <2>2. /\ SubSeq(active, 1, n - 1) \in Seq(Loops) /\ Len(SubSeq(active, 1, n - 1)) = n - 1
        /\ \A k \in 1 .. n - 1 : SubSeq(active, 1, n - 1)[k] = active[k]
    BY <1>2 DEF n
  <2> QED BY <1>2, <2>1, <2>2
<1>4. LoopsTypeOK'
  BY <1>1, <1>3 DEF LoopsTypeOK, Leave
<1>5. ProgramOK'
  BY <1>1, SameIncrements DEF program
<1>6. OutsideIn'
  BY <1>1, <1>3 DEF OutsideIn
<1>7. IndicesInStep'
  <2> SUFFICES ASSUME NEW k \in 1 .. Len(active'), OwnIndex(active[k])'
               PROVE  InStep(k)'
    BY DEF IndicesInStep
  <2>1. k \in 1 .. n /\ k # n /\ active'[k] = active[k]
    BY <1>3
  <2>2. OwnIndex(active[k])
    BY <1>1, <2>1, ActiveFacts, SameOwnIndex DEF program
  <2>3. InStep(k)
    BY <1>1, <2>1, <2>2 DEF IndicesInStep
  <2> QED BY <2>1, <2>3 DEF InStep, Leave
<1>8. CondInLoop'
  BY DEF CondInLoop, Leave
<1> QED BY <1>4, <1>5, <1>6, <1>7, <1>8 DEF LoopsIInv

\* Enter: the loop comes after those around it, so it is not among them.
LEMMA EnterFacts ==
    ASSUME LoopsIInv, NEW i \in Loops, Enter(i)
    PROVE  LoopsIInv'
<1> DEFINE n == Len(active)
<1>1. LoopsTypeOK /\ ProgramOK /\ OutsideIn /\ IndicesInStep /\ CondInLoop
  BY DEF LoopsIInv
<1>2. n \in Nat /\ active \in Seq(Loops) /\ i \in Nat /\ LoopCount \in Nat
  BY <1>1, ActiveFacts, LoopsAssumption DEF LoopsTypeOK, Loops
<1>3. /\ active' \in Seq(Loops) /\ Len(active') = n + 1 /\ active'[n + 1] = i
      /\ \A k \in 1 .. n : active'[k] = active[k]
  BY <1>2 DEF Enter
<1>4. PICK m \in 0 .. MaxLen : len' = [len EXCEPT ![i] = m]
  BY DEF Enter
<1>5. /\ idx'[i] = 0 /\ seen'[i] = <<>> /\ len'[i] = m
      /\ \A j \in Loops : j # i => idx'[j] = idx[j] /\ seen'[j] = seen[j] /\ len'[j] = len[j]
  BY <1>1, <1>4 DEF LoopsTypeOK, Enter
<1>6. LoopsTypeOK'
  <2>1. /\ parent' \in [Loops -> Main .. LoopCount - 1]
        /\ kind' \in [Loops -> {"forOf", "for"}]
        /\ at' \in {"body", "cond", "done"}
    BY <1>1 DEF LoopsTypeOK, Enter, program
  <2>2. passed' \in [Main .. LoopCount -> Main .. LoopCount]
    <3>1. passed' = [passed EXCEPT ![Body] = i] /\ i \in Main .. LoopCount
      BY <1>2 DEF Enter, Loops, Main
    <3> QED BY <1>1, <3>1 DEF LoopsTypeOK
  <2>3. idx' \in [Loops -> Nat] /\ len' \in [Loops -> 0 .. MaxLen]
    BY <1>1, <1>4 DEF LoopsTypeOK, Enter
  <2>4. seen' \in [Loops -> Seq(Nat)]
    BY <1>1 DEF LoopsTypeOK, Enter
  <2> QED BY <1>3, <2>1, <2>2, <2>3, <2>4 DEF LoopsTypeOK
<1>7. ProgramOK'
  BY <1>1, SameIncrements DEF Enter
<1>8. \A k \in 1 .. n : active[k] < i
  <2> SUFFICES ASSUME NEW k \in 1 .. n PROVE active[k] < i
    OBVIOUS
  <2>1. n \in 1 .. n /\ active[n] = parent[i] /\ active[n] \in Nat /\ active[k] \in Nat
        /\ active[n] # Main /\ k \in Nat
    BY <1>1, <1>2, ActiveFacts DEF Enter, Main, Loops
  <2>2. active[n] < i
    BY <1>1, <2>1 DEF ProgramOK, SourceOrder
  <2>3. active[k] <= active[n]
    BY <1>1, <2>1 DEF OutsideIn
  <2> QED BY <1>2, <2>1, <2>2, <2>3
<1>9. OutsideIn'
  <2> SUFFICES ASSUME NEW j \in 1 .. n + 1, NEW k \in 1 .. n + 1, j < k
               PROVE  active'[j] < active'[k]
    BY <1>3 DEF OutsideIn
  <2>1. j \in 1 .. n /\ (k \in 1 .. n \/ k = n + 1)
    BY <1>2
  <2> QED BY <1>1, <1>3, <1>8, <2>1 DEF OutsideIn
<1>10. IndicesInStep'
  <2> SUFFICES ASSUME NEW k \in 1 .. n + 1, OwnIndex(active[k])'
               PROVE  InStep(k)'
    BY <1>3 DEF IndicesInStep
  <2>1. CASE k = n + 1
    BY <1>2, <1>3, <1>5, <2>1 DEF InStep, Enter
  <2>2. CASE k \in 1 .. n
    <3>1. active'[k] = active[k] /\ active[k] \in Loops /\ active[k] # i
      BY <1>1, <1>3, <1>8, <2>2, ActiveFacts
    <3>2. OwnIndex(active[k])
      BY <3>1, SameOwnIndex DEF Enter
    <3>3. InStep(k)
      BY <1>1, <2>2, <3>2 DEF IndicesInStep
    <3>4. k # Len(active') /\ at = "body"
      BY <1>2, <1>3, <2>2 DEF Enter
    <3> QED BY <1>5, <3>1, <3>3, <3>4 DEF InStep
  <2> QED BY <1>2, <2>1, <2>2
<1>11. CondInLoop'
  BY <1>2, <1>3 DEF CondInLoop
<1> QED BY <1>6, <1>7, <1>9, <1>10, <1>11 DEF LoopsIInv

\* Iterate: the element at the index is visited.
LEMMA IterateFacts ==
    ASSUME LoopsIInv, active # <<>>, Iterate
    PROVE  LoopsIInv'
<1> DEFINE n == Len(active)
           b == active[n]
<1>1. LoopsTypeOK /\ ProgramOK /\ OutsideIn /\ IndicesInStep /\ CondInLoop
  BY DEF LoopsIInv
<1>2. /\ n \in 1 .. n /\ n \in Nat /\ Body = b /\ b \in Loops
      /\ seen[b] \in Seq(Nat) /\ Len(seen[b]) \in Nat /\ idx[b] \in Nat /\ len[b] \in 0 .. MaxLen
  BY <1>1, ActiveFacts
<1>3. /\ seen' = [seen EXCEPT ![b] = IF Len(@) <= MaxLen THEN Append(@, idx[b]) ELSE @]
      /\ idx[b] < len[b] /\ at = "cond" /\ at' = "body"
      /\ passed' = [passed EXCEPT ![b] = b]
      /\ UNCHANGED <<parent, kind, active, idx, len>>
  BY <1>2 DEF Iterate
<1> HIDE DEF b
<1>4. /\ \A j \in Loops : j # b => seen'[j] = seen[j]
      /\ seen'[b] = IF Len(seen[b]) <= MaxLen THEN Append(seen[b], idx[b]) ELSE seen[b]
  BY <1>1, <1>2, <1>3 DEF LoopsTypeOK
<1>5. LoopsTypeOK'
  <2>1. seen' \in [Loops -> Seq(Nat)]
    BY <1>1, <1>2, <1>3 DEF LoopsTypeOK
  <2>2. passed' \in [Main .. LoopCount -> Main .. LoopCount]
    BY <1>1, <1>2, <1>3, LoopsAssumption DEF LoopsTypeOK, Loops, Main
  <2> QED BY <1>1, <1>3, <2>1, <2>2 DEF LoopsTypeOK
<1>6. ProgramOK' /\ OutsideIn'
  BY <1>1, <1>3, SameIncrements DEF OutsideIn, program
<1>7. IndicesInStep'
  <2> SUFFICES ASSUME NEW k \in 1 .. n, OwnIndex(active[k])'
               PROVE  InStep(k)'
    BY <1>3 DEF IndicesInStep
  <2>1. active'[k] = active[k] /\ active[k] \in Loops /\ active[k] \in Nat /\ k \in Nat
    BY <1>1, <1>3, ActiveFacts
  <2>2. OwnIndex(active[k])
    BY <1>3, <2>1, SameOwnIndex DEF program
  <2>3. InStep(k)
    BY <1>1, <2>2 DEF IndicesInStep
  <2>4. CASE k = n
    <3>1. Len(seen[b]) = idx[b] /\ \A v \in 1 .. Len(seen[b]) : seen[b][v] = v - 1
      BY <1>3, <2>3, <2>4 DEF InStep, b
    <3>2. seen'[b] = Append(seen[b], idx[b]) /\ idx[b] + 1 <= len[b]
      <4>1. len[b] \in Nat /\ len[b] <= MaxLen /\ MaxLen \in Nat
        BY <1>2, LoopsAssumption
      <4>2. Len(seen[b]) <= MaxLen /\ idx[b] + 1 <= len[b]
        BY <1>2, <1>3, <3>1, <4>1
      <4> QED BY <1>4, <4>2
    <3>3. /\ Len(seen'[b]) = idx[b] + 1
          /\ \A v \in 1 .. idx[b] + 1 : seen'[b][v] = v - 1
      <4>1. /\ Len(Append(seen[b], idx[b])) = idx[b] + 1
            /\ Append(seen[b], idx[b])[idx[b] + 1] = idx[b]
            /\ \A v \in 1 .. idx[b] : Append(seen[b], idx[b])[v] = seen[b][v]
        BY <1>2, <3>1
      <4>2. \A v \in 1 .. idx[b] + 1 : v \in 1 .. idx[b] \/ v = idx[b] + 1
        BY <1>2
      <4> QED BY <1>2, <3>1, <3>2, <4>1, <4>2
    <3> QED BY <1>3, <2>1, <2>4, <3>2, <3>3 DEF InStep, b
  <2>5. CASE k # n
    <3>1. active[k] # b
      BY <1>1, <1>2, <2>1, <2>5 DEF OutsideIn, b
    <3> QED BY <1>3, <1>4, <2>1, <2>3, <2>5, <3>1 DEF InStep
  <2> QED BY <2>4, <2>5
<1>8. CondInLoop'
  BY <1>3 DEF CondInLoop
<1> QED BY <1>5, <1>6, <1>7, <1>8 DEF LoopsIInv

\* Advance: of the loops being run, the write can reach the innermost only.
LEMMA AdvanceFacts ==
    ASSUME LoopsIInv, Advance
    PROVE  LoopsIInv'
<1> DEFINE n == Len(active)
           b == active[n]
           w == IncrementOf(b)
<1>1. LoopsTypeOK /\ ProgramOK /\ OutsideIn /\ IndicesInStep /\ CondInLoop
  BY DEF LoopsIInv
<1>2. /\ n \in 1 .. n /\ n \in Nat /\ Body = b /\ b \in Loops /\ b \in Nat /\ idx[b] \in Nat
  BY <1>1, ActiveFacts DEF Advance
<1>3. /\ idx' = [idx EXCEPT ![w] = idx[b] + 1] /\ at = "body" /\ at' = "cond"
      /\ UNCHANGED <<parent, kind, active, passed, len, seen>>
  BY <1>2 DEF Advance
<1>4. w \in Loops /\ w >= b /\ w \in Nat
  BY <1>1, <1>2, IncrementFacts DEF Loops
<1> HIDE DEF b, w
<1>5. LoopsTypeOK'
  <2>1. idx' \in [Loops -> Nat]
    BY <1>1, <1>2, <1>3, <1>4 DEF LoopsTypeOK
  <2> QED BY <1>1, <1>3, <2>1 DEF LoopsTypeOK
<1>6. ProgramOK' /\ OutsideIn'
  BY <1>1, <1>3, SameIncrements DEF OutsideIn, program
<1>7. idx'[w] = idx[b] + 1 /\ \A j \in Loops : j # w => idx'[j] = idx[j]
  BY <1>1, <1>3, <1>4 DEF LoopsTypeOK
<1>8. IndicesInStep'
  <2> SUFFICES ASSUME NEW k \in 1 .. n, OwnIndex(active[k])'
               PROVE  InStep(k)'
    BY <1>3 DEF IndicesInStep
  <2>1. active'[k] = active[k] /\ active[k] \in Loops /\ active[k] \in Nat /\ k \in Nat
    BY <1>1, <1>3, ActiveFacts
  <2>2. OwnIndex(active[k])
    BY <1>3, <2>1, SameOwnIndex DEF program
  <2>3. InStep(k)
    BY <1>1, <2>2 DEF IndicesInStep
  <2>4. CASE k = n
    <3>1. active[k] = b /\ w = b
      BY <2>2, <2>4 DEF b, w, OwnIndex
    <3> QED BY <1>3, <1>7, <2>1, <2>3, <2>4, <3>1 DEF InStep
  <2>5. CASE k # n
    <3>1. active[k] < b
      BY <1>1, <1>2, <2>1, <2>5 DEF OutsideIn, b
    <3>2. active[k] # w
      BY <1>2, <1>4, <2>1, <3>1
    <3> QED BY <1>3, <1>7, <2>1, <2>3, <2>5, <3>2 DEF InStep
  <2> QED BY <2>4, <2>5
<1>9. CondInLoop'
  BY <1>3 DEF CondInLoop, Advance
<1> QED BY <1>5, <1>6, <1>8, <1>9 DEF LoopsIInv

\* The function is over, or nothing happens.
LEMMA IdleFacts ==
    ASSUME LoopsIInv, UNCHANGED <<parent, kind, active, passed, idx, len, seen>>,
           at' = at \/ (active = <<>> /\ at' = "done")
    PROVE  LoopsIInv'
<1>1. LoopsTypeOK /\ ProgramOK /\ OutsideIn /\ IndicesInStep /\ CondInLoop
  BY DEF LoopsIInv
<1>2. LoopsTypeOK' /\ ProgramOK' /\ OutsideIn' /\ CondInLoop'
  BY <1>1, SameIncrements DEF LoopsTypeOK, OutsideIn, CondInLoop, program
<1>3. IndicesInStep'
  <2> SUFFICES ASSUME NEW k \in 1 .. Len(active'), OwnIndex(active[k])'
               PROVE  InStep(k)'
    BY DEF IndicesInStep
  <2>1. k \in 1 .. Len(active) /\ at' = at /\ active'[k] = active[k] /\ active[k] \in Loops
    BY <1>1, ActiveFacts
  <2>2. OwnIndex(active[k])
    BY <2>1, SameOwnIndex DEF program
  <2>3. InStep(k)
    BY <1>1, <2>1, <2>2 DEF IndicesInStep
  <2> QED BY <2>1, <2>3 DEF InStep
<1> QED BY <1>2, <1>3 DEF LoopsIInv

-----------------------------------------------------------------------------
\* Whatever the loops do: they run from the outside in, and a loop that writes
\* its own index has visited as many elements, in order, as the index says.
\* That holds for nested for-ofs too, where the outer ones do not write theirs.
THEOREM LoopsInvariant == LoopsSpec => []LoopsIInv
<1>1. LoopsInit => LoopsIInv
  <2> SUFFICES ASSUME LoopsInit PROVE LoopsIInv
    OBVIOUS
  <2>1. LoopsTypeOK
    <3>1. /\ active \in Seq(Loops) /\ seen \in [Loops -> Seq(Nat)]
          /\ idx \in [Loops -> Nat] /\ len \in [Loops -> 0 .. MaxLen]
      BY LoopsAssumption DEF LoopsInit
    <3> QED BY <3>1 DEF LoopsInit, LoopsTypeOK, Main
  <2>2. ProgramOK
    BY DEF LoopsInit, ProgramOK
  <2>3. Len(active) = 0
    BY DEF LoopsInit
  <2> QED BY <2>1, <2>2, <2>3 DEF LoopsIInv, OutsideIn, IndicesInStep, CondInLoop, LoopsInit
<1>2. LoopsIInv /\ [LoopsNext]_loopsVars => LoopsIInv'
  <2> SUFFICES ASSUME LoopsIInv, [LoopsNext]_loopsVars PROVE LoopsIInv'
    OBVIOUS
  <2>1. LoopsTypeOK /\ (at = "cond" => active # <<>>)
    BY DEF LoopsIInv, CondInLoop
  <2>2. CASE \E i \in Loops : Enter(i)
    BY <2>2, EnterFacts
  <2>3. CASE Iterate
    BY <2>1, <2>3, IterateFacts DEF Iterate
  <2>4. CASE Exhausted
    BY <2>1, <2>4, LeaveFacts DEF Exhausted
  <2>5. CASE Advance
    BY <2>5, AdvanceFacts
  <2>6. CASE BreakLoop
    BY <2>6, LeaveFacts DEF BreakLoop
  <2>7. CASE Finish
    BY <2>7, IdleFacts DEF Finish
  <2>8. CASE UNCHANGED loopsVars
    BY <2>8, IdleFacts DEF loopsVars
  <2> QED BY <2>2, <2>3, <2>4, <2>5, <2>6, <2>7, <2>8 DEF LoopsNext, Done
<1> QED BY <1>1, <1>2, PTL DEF LoopsSpec

\* With no for-of inside another, however the loops iterate, continue and break,
\* each has visited its elements in order from the first (Stmt::ForOf, emit_for).
THEOREM LoopsVisitInOrder ==
    ASSUME ~ NestedForOf PROVE LoopsSpec => []ElementsInOrder
<1>1. LoopsIInv => ElementsInOrder
  <2> SUFFICES ASSUME LoopsIInv, NEW k \in 1 .. Len(active) PROVE InStep(k)
    BY DEF ElementsInOrder, InStep
  <2>1. OwnIndex(active[k])
    BY ActiveFacts, FlatLoops DEF LoopsIInv
  <2> QED BY <2>1 DEF LoopsIInv, IndicesInStep
<1> QED BY <1>1, LoopsInvariant, PTL

\* Nested or not: a loop that writes its own index, so any counted for and any
\* for-of without another inside, is left by its condition only when it has
\* visited every element.
THEOREM OwnersSkipNone ==
    LoopsSpec => [][at = "cond" /\ Len(active') < Len(active) /\ OwnIndex(Body)
                 => Len(seen[Body]) = len[Body]]_loopsVars
<1> DEFINE A == at = "cond" /\ Len(active') < Len(active) /\ OwnIndex(Body)
                  => Len(seen[Body]) = len[Body]
<1>1. LoopsIInv /\ [LoopsNext]_loopsVars => [A]_loopsVars
  <2> SUFFICES ASSUME LoopsIInv, LoopsNext, at = "cond", Len(active') < Len(active), OwnIndex(Body)
               PROVE  Len(seen[Body]) = len[Body]
    OBVIOUS
  <2>1. LoopsTypeOK /\ active # <<>> /\ Len(active) \in Nat
    BY ActiveFacts DEF LoopsIInv, CondInLoop
  <2>2. Exhausted
    <3>1. ~ (active' = active)
      BY <2>1
    <3>2. \A i \in Loops : ~ Enter(i)
      BY DEF Enter
    <3>3. ~ Iterate /\ ~ Advance /\ ~ BreakLoop /\ ~ Finish /\ ~ Done
      BY <3>1 DEF Iterate, Advance, BreakLoop, Finish, Done, loopsVars
    <3> QED BY <3>2, <3>3 DEF LoopsNext
  <2> DEFINE n == Len(active)
  <2>3. /\ n \in 1 .. n /\ Body = active[n] /\ active[n] \in Loops
        /\ idx[active[n]] \in Nat /\ len[active[n]] \in Nat
    BY <2>1, ActiveFacts, LoopsAssumption
  <2>4. InStep(n)
    BY <2>3 DEF LoopsIInv, IndicesInStep
  <2>5. Len(seen[Body]) = idx[Body] /\ idx[Body] <= len[Body]
    BY <2>3, <2>4 DEF InStep
  <2>6. idx[Body] >= len[Body]
    BY <2>2 DEF Exhausted
  <2> QED BY <2>3, <2>5, <2>6
<1> QED BY <1>1, LoopsInvariant, PTL DEF LoopsSpec

\* With no for-of inside another, no loop that its condition ends skipped any.
THEOREM LoopsSkipNone ==
    ASSUME ~ NestedForOf PROVE LoopsSpec => NoneSkipped
<1> DEFINE A == at = "cond" /\ Len(active') < Len(active) /\ OwnIndex(Body)
                  => Len(seen[Body]) = len[Body]
           B == at = "cond" /\ Len(active') < Len(active) => Len(seen[Body]) = len[Body]
<1>1. LoopsIInv /\ [A]_loopsVars => [B]_loopsVars
  <2> SUFFICES ASSUME LoopsIInv, A PROVE B
    OBVIOUS
  <2>1. at = "cond" => OwnIndex(Body)
    BY ActiveFacts, FlatLoops DEF LoopsIInv, CondInLoop
  <2> QED BY <2>1
<1>2. LoopsSpec => [][A]_loopsVars
  BY OwnersSkipNone
<1>3. NoneSkipped <=> [][B]_loopsVars
  BY DEF NoneSkipped
<1> QED BY <1>1, <1>2, <1>3, LoopsInvariant, PTL

-----------------------------------------------------------------------------
\* A set of numbers has a least one.
LEMMA LeastNumber ==
    ASSUME NEW U \in SUBSET Nat, U # {}
    PROVE  \E u \in U : \A v \in U : u <= v
<1> DEFINE R == OpToRel(<, Nat)
<1>1. /\ IsWellFoundedOn(R, Nat)
      /\ \A x, y \in Nat : y < x => <<y, x>> \in R
  BY NatLessThanWellFounded DEF OpToRel
<1> HIDE DEF R
<1>2. PICK u \in U : \A v \in U : ~ (<<v, u>> \in R)
  BY <1>1, WFMin
<1>3. \A v \in U : u <= v
  <2> TAKE v \in U
  <2>1. u \in Nat /\ v \in Nat /\ ~ (v < u)
    BY <1>1, <1>2
  <2> QED BY <2>1
<1> QED BY <1>3

\* Lower is well founded: among the ranks that are least in the first bodies there
\* is one that is least in the next body as well.
LEMMA LowestRank ==
    ASSUME NEW T \in SUBSET Ranks, T # {}
    PROVE  \E r \in T : \A s \in T : ~ Lower(s, r)
<1> DEFINE Before(b, s, r) == \A c \in Main .. b - 1 : s[c] = r[c]
           Least(b, r) == \A s \in T : \A c \in Main .. b - 1 : ~ (LowerAt(c, s, r) /\ Before(c, s, r))
           Stuck == {b \in Main .. LoopCount + 1 : ~ \E r \in T : Least(b, r)}
<1>1. LoopCount \in Nat /\ Main = 0 /\ Bodies = 0 .. LoopCount
  BY LoopsAssumption DEF Main, Bodies
<1>2. Stuck = {}
  <2> SUFFICES ASSUME Stuck # {} PROVE FALSE
    OBVIOUS
  <2>1. Stuck \in SUBSET Nat
    BY <1>1
  <2>2. PICK e \in Stuck : \A d \in Stuck : e <= d
    BY <2>1, LeastNumber
  <2>3. e \in 0 .. LoopCount + 1 /\ ~ \E r \in T : Least(e, r)
    BY <1>1, <2>2
  <2>4. e # 0
    <3>1. \A c \in Main .. 0 - 1 : FALSE
      BY <1>1
    <3>2. \A r \in T : Least(0, r)
      BY <3>1
    <3> QED BY <2>3, <3>2
  <2> DEFINE b == e - 1
  <2>5. /\ b \in 0 .. LoopCount /\ b \in Bodies /\ b \in Nat /\ b + 1 = e
        /\ b \in Main .. LoopCount + 1 /\ ~ (e <= b)
    BY <1>1, <2>3, <2>4
  <2>6. PICK r \in T : Least(b, r)
    BY <2>2, <2>5
  <2> HIDE DEF b, Stuck
  <2> DEFINE A == {s \in T : Before(b, s, r)}
  <2>7. r \in A /\ \A s \in A : s \in T /\ s[b].left \in Nat /\ s[b].ahead \in Nat
    BY <2>5 DEF Ranks
  <2>8. PICK p \in A : \A s \in A : p[b].left <= s[b].left
    <3> DEFINE U == {s[b].left : s \in A}
    <3>1. U \in SUBSET Nat /\ U # {}
      BY <2>7
    <3>2. PICK u \in U : \A v \in U : u <= v
      BY <3>1, LeastNumber
    <3> QED BY <3>2
  <2> DEFINE B == {s \in A : s[b].left = p[b].left}
  <2>9. PICK q \in B : \A s \in B : q[b].ahead <= s[b].ahead
    <3> DEFINE U == {s[b].ahead : s \in B}
    <3>1. U \in SUBSET Nat /\ U # {}
      BY <2>7, <2>8
    <3>2. PICK u \in U : \A v \in U : u <= v
      BY <3>1, LeastNumber
    <3> QED BY <3>2
  <2>10. Least(e, q)
    <3> SUFFICES ASSUME NEW s \in T, NEW c \in Main .. e - 1, LowerAt(c, s, q), Before(c, s, q)
                 PROVE  FALSE
      OBVIOUS
    <3>1. q \in A /\ q \in T /\ q[b].left = p[b].left /\ \A d \in Main .. b - 1 : q[d] = r[d]
      BY <2>9
    <3>2. CASE c = b
      <4>1. s \in A
        BY <3>1, <3>2
      <4>2. q[b].left <= s[b].left /\ (s[b].left = q[b].left => q[b].ahead <= s[b].ahead)
        BY <2>8, <2>9, <3>1, <4>1
      <4>3. /\ s[b].left \in Nat /\ s[b].ahead \in Nat /\ q[b].left \in Nat /\ q[b].ahead \in Nat
        BY <2>7, <3>1, <4>1
      <4> QED BY <3>2, <4>2, <4>3 DEF LowerAt
    <3>3. CASE c # b
      <4>1. c \in Main .. b - 1 /\ \A d \in Main .. c - 1 : d \in Main .. b - 1
        BY <1>1, <2>5, <3>3
      <4>2. LowerAt(c, s, r) /\ Before(c, s, r)
        BY <3>1, <4>1 DEF LowerAt
      <4> QED BY <2>6, <4>1, <4>2
    <3> QED BY <3>2, <3>3
  <2> QED BY <2>3, <2>9, <2>10
<1>3. PICK r \in T : Least(LoopCount + 1, r)
  <2>1. LoopCount + 1 \in Main .. LoopCount + 1
    BY <1>1
  <2> QED BY <1>2, <2>1
<1>4. \A s \in T : ~ Lower(s, r)
  <2>1. \A b \in Bodies : b \in Main .. (LoopCount + 1) - 1
    BY <1>1
  <2> QED BY <1>3, <2>1 DEF Lower
<1> QED BY <1>4

\* Ranks are as said where every loop being run writes its own index.
LEMMA RankFacts ==
    ASSUME LoopsIInv, \A i \in Loops : OwnIndex(i)
    PROVE  /\ Rank \in Ranks
           /\ Body # Main => /\ Body \in Loops /\ Body \in Running
                             /\ idx[Body] \in Nat /\ len[Body] \in Nat
                             /\ IF at = "cond" THEN idx[Body] <= len[Body] ELSE idx[Body] < len[Body]
<1>1. LoopsTypeOK /\ IndicesInStep /\ CondInLoop
  BY DEF LoopsIInv
<1>2. ASSUME NEW k \in 1 .. Len(active)
      PROVE  /\ active[k] \in Loops /\ idx[active[k]] \in Nat /\ len[active[k]] \in Nat
             /\ IF k = Len(active) /\ at = "cond" THEN idx[active[k]] <= len[active[k]]
                                                  ELSE idx[active[k]] < len[active[k]]
  <2>1. /\ active[k] \in Loops /\ idx[active[k]] \in Nat /\ len[active[k]] \in 0 .. MaxLen
    BY <1>1, ActiveFacts
  <2>2. InStep(k)
    BY <1>1, <2>1 DEF IndicesInStep
  <2>3. len[active[k]] \in Nat
    BY <2>1, LoopsAssumption
  <2> QED BY <2>1, <2>2, <2>3 DEF InStep
<1>3. Body # Main => Len(active) \in 1 .. Len(active) /\ Body = active[Len(active)]
  BY <1>1, ActiveFacts
<1>4. ASSUME NEW b \in Bodies
      PROVE  IterationsLeft(b) \in Nat /\ Ahead(b) \in Nat
  <2>1. Ahead(b) \in Nat
    <3>1. passed[b] \in Main .. LoopCount
      BY <1>1, <1>4 DEF LoopsTypeOK, Bodies
    <3> QED BY <3>1, LoopsAssumption DEF Ahead, Main
  <2>2. b = Main \/ b \notin Running => IterationsLeft(b) \in Nat
    BY DEF IterationsLeft
  <2>3. ASSUME b # Main, b \in Running PROVE IterationsLeft(b) \in Nat
    <3>1. PICK k \in 1 .. Len(active) : b = active[k]
      BY <2>3 DEF Running
    <3>2. idx[b] \in Nat /\ len[b] \in Nat /\ idx[b] <= len[b]
      BY <1>2, <3>1
    <3>3. 2 * (len[b] - idx[b]) + 2 \in Nat /\ 2 * (len[b] - idx[b]) + 1 \in Nat
      BY <3>2
    <3> QED BY <2>3, <3>3 DEF IterationsLeft
  <2> QED BY <2>1, <2>2, <2>3
<1>5. Rank \in Ranks
  BY <1>4 DEF Rank, Ranks
<1> QED BY <1>2, <1>3, <1>5 DEF Running

\* A step that leaves a body with less, and the bodies before it as they are.
LEMMA LowerHere ==
    ASSUME NEW b \in Bodies,
           \/ IterationsLeft(b)' < IterationsLeft(b)
           \/ IterationsLeft(b)' = IterationsLeft(b) /\ Ahead(b)' < Ahead(b),
           \A c \in Main .. b - 1 : IterationsLeft(c)' = IterationsLeft(c) /\ Ahead(c)' = Ahead(c)
    PROVE  Lower(Rank', Rank)
<1>1. /\ Rank = [c \in Bodies |-> [left |-> IterationsLeft(c), ahead |-> Ahead(c)]]
      /\ Rank' = [c \in Bodies |-> [left |-> IterationsLeft(c)', ahead |-> Ahead(c)']]
  BY DEF Rank
<1>2. \A c \in Main .. b - 1 : c \in Bodies
  BY LoopsAssumption DEF Bodies, Main
<1>3. LowerAt(b, Rank', Rank)
  BY <1>1 DEF LowerAt
<1>4. \A c \in Main .. b - 1 : Rank'[c] = Rank[c]
  BY <1>1, <1>2
<1> QED BY <1>3, <1>4 DEF Lower

-----------------------------------------------------------------------------
\* Entering a loop: the body around it has fewer statements ahead.
LEMMA EnterDescends ==
    ASSUME LoopsIInv, \A i \in Loops : OwnIndex(i), NEW i \in Loops, Enter(i)
    PROVE  Lower(Rank', Rank)
<1> DEFINE n == Len(active)
<1> PICK b : b = Body
  OBVIOUS
<1>1. LoopsTypeOK /\ LoopCount \in Nat /\ n \in Nat /\ i \in 1 .. LoopCount
  BY ActiveFacts, LoopsAssumption DEF LoopsIInv, Loops
<1>2. b \in Bodies /\ b \in Nat /\ b < i /\ b = parent[i]
  <2>1. b \in Main .. LoopCount /\ b = parent[i]
    BY <1>1, ActiveFacts DEF Enter
  <2>2. parent[i] = Main \/ parent[i] < i
    BY DEF LoopsIInv, ProgramOK, SourceOrder
  <2> QED BY <1>1, <2>1, <2>2 DEF Main, Bodies
<1>3. /\ active' = Append(active, i) /\ Len(active') = n + 1 /\ active'[n + 1] = i
      /\ \A k \in 1 .. n : active'[k] = active[k]
      /\ Body' = i /\ active' # <<>>
  <2>1. active \in Seq(Loops)
    BY <1>1 DEF LoopsTypeOK
  <2>2. /\ active' = Append(active, i) /\ Len(active') = n + 1 /\ active'[n + 1] = i
        /\ \A k \in 1 .. n : active'[k] = active[k]
    BY <2>1 DEF Enter
  <2> QED BY <1>1, <2>2 DEF Body
<1>4. \A c : c # i => (c \in Running' <=> c \in Running)
  <2>1. \A k \in 1 .. n + 1 : k \in 1 .. n \/ k = n + 1
    BY <1>1
  <2>2. \A k \in 1 .. n : k \in 1 .. n + 1
    BY <1>1
  <2> QED BY <1>3, <2>1, <2>2 DEF Running
<1> HIDE DEF n
<1>5. ASSUME NEW c \in Main .. b
      PROVE  /\ c \in Bodies /\ c # i /\ c # Body'
             /\ c # Main => idx'[c] = idx[c] /\ len'[c] = len[c]
             /\ c # b => passed'[c] = passed[c]
  <2>1. c \in Bodies /\ c # i /\ (c # Main => c \in Loops)
    BY <1>1, <1>2 DEF Bodies, Main, Loops
  <2>2. c # Main => idx'[c] = idx[c] /\ len'[c] = len[c]
    BY <1>1, <2>1 DEF LoopsTypeOK, Enter
  <2>3. c # b => passed'[c] = passed[c]
    BY <1>1, <2>1 DEF LoopsTypeOK, Enter, Bodies
  <2> QED BY <1>3, <2>1, <2>2, <2>3
<1>6. at = "body" /\ at' = "cond" /\ passed'[b] = i /\ passed[b] < i /\ passed[b] \in Nat
  BY <1>1, <1>2 DEF Enter, LoopsTypeOK, Bodies, Main
<1>7. b \in Main .. b
  BY <1>2 DEF Main
<1>8. IterationsLeft(b)' = IterationsLeft(b)
  BY <1>4, <1>5, <1>6, <1>7 DEF IterationsLeft
<1>9. Ahead(b)' < Ahead(b)
  BY <1>1, <1>6 DEF Ahead
<1>10. ASSUME NEW c \in Main .. b - 1
       PROVE  IterationsLeft(c)' = IterationsLeft(c) /\ Ahead(c)' = Ahead(c)
  <2>1. c \in Main .. b /\ c # b
    BY <1>2 DEF Main
  <2> QED BY <1>4, <1>5, <1>6, <2>1 DEF IterationsLeft, Ahead
<1> QED BY <1>2, <1>8, <1>9, <1>10, LowerHere

\* A loop is left: it has nothing left.
LEMMA LeaveDescends ==
    ASSUME LoopsIInv, \A i \in Loops : OwnIndex(i), active # <<>>, at # "done",
           Leave, UNCHANGED <<passed, idx, len>>
    PROVE  Lower(Rank', Rank)
<1> DEFINE n == Len(active)
<1> PICK b : b = Body
  OBVIOUS
<1>1. /\ LoopsTypeOK /\ n \in Nat /\ n \in 1 .. n /\ b = active[n] /\ b \in 1 .. LoopCount
      /\ LoopCount \in Nat
  BY ActiveFacts, LoopsAssumption DEF LoopsIInv, Loops
<1>2. Len(active') = n - 1 /\ \A k \in 1 .. n - 1 : active'[k] = active[k]
  BY <1>1, FrontFacts DEF Leave, LoopsTypeOK
<1>3. \A k \in 1 .. n - 1 : active[k] < b
  BY <1>1 DEF LoopsIInv, OutsideIn
<1>4. b \notin Running' /\ \A c : c # b => (c \in Running' <=> c \in Running)
  <2>1. \A k \in 1 .. n : k \in 1 .. n - 1 \/ k = n
    BY <1>1
  <2>2. \A k \in 1 .. n - 1 : k \in 1 .. n /\ active[k] # b
    <3> TAKE k \in 1 .. n - 1
    <3>1. k \in 1 .. n
      BY <1>1
    <3>2. active[k] \in Nat
      BY <1>1, <3>1, ActiveFacts
    <3> QED BY <1>1, <1>3, <3>1, <3>2
  <2>3. n - 1 \in Nat /\ n \notin 1 .. n - 1 /\ b = active[n] /\ n \in 1 .. n
    BY <1>1
  <2> QED BY <1>2, <2>1, <2>2, <2>3 DEF Running
<1> HIDE DEF n
<1>5. b # Main /\ b \in Bodies /\ \A c \in Main .. b - 1 : c \in Bodies /\ c # b
  BY <1>1 DEF Main, Bodies
<1>6. IterationsLeft(b)' = 0 /\ IterationsLeft(b) > 0
  <2>1. IterationsLeft(b)' = 0
    BY <1>4, <1>5 DEF IterationsLeft
  <2>2. b \in Running /\ idx[b] \in Nat /\ len[b] \in Nat /\ idx[b] <= len[b]
    BY <1>1, <1>5, RankFacts
  <2> QED BY <1>1, <1>5, <2>1, <2>2 DEF IterationsLeft
<1>7. ASSUME NEW c \in Main .. b - 1
      PROVE  IterationsLeft(c)' = IterationsLeft(c) /\ Ahead(c)' = Ahead(c)
  <2>1. c # b /\ c # Body /\ at' = "body" /\ (c \in Running' <=> c \in Running)
    BY <1>1, <1>4, <1>5 DEF Leave
  <2> QED BY <2>1 DEF IterationsLeft, Ahead
<1> QED BY <1>5, <1>6, <1>7, LowerHere

\* A step of the innermost loop, to its body or to its condition.
LEMMA WithinDescends ==
    ASSUME LoopsIInv, \A i \in Loops : OwnIndex(i), Iterate \/ Advance
    PROVE  Lower(Rank', Rank)
<1> PICK b : b = Body
  OBVIOUS
<1>1. LoopsTypeOK /\ CondInLoop /\ active # <<>> /\ LoopCount \in Nat
  BY LoopsAssumption DEF LoopsIInv, CondInLoop, Iterate, Advance
<1>2. /\ b \in Loops /\ b \in 1 .. LoopCount /\ b # Main /\ b \in Bodies /\ b \in Running
      /\ idx[b] \in Nat /\ len[b] \in Nat
      /\ IF at = "cond" THEN idx[b] <= len[b] ELSE idx[b] < len[b]
  <2>1. b \in Loops /\ b # Main
    BY <1>1, ActiveFacts DEF Loops, Main
  <2> QED BY <2>1, RankFacts DEF Loops, Bodies, Main
<1>3. /\ active' = active /\ Body' = Body /\ Running' = Running /\ len' = len
      /\ at # "done" /\ at' # "done"
  BY DEF Iterate, Advance, Body, Running
<1>4. IterationsLeft(b)' < IterationsLeft(b)
  <2>1. CASE Iterate
    <3>1. at = "cond" /\ at' = "body" /\ idx' = idx
      BY <2>1 DEF Iterate
    <3>2. /\ IterationsLeft(b) = 2 * (len[b] - idx[b]) + 2
          /\ IterationsLeft(b)' = 2 * (len[b] - idx[b]) + 1
      BY <1>2, <1>3, <3>1 DEF IterationsLeft
    <3> QED BY <1>2, <3>2
  <2>2. CASE Advance
    <3>1. at = "body" /\ at' = "cond" /\ idx'[b] = idx[b] + 1
      BY <1>1, <1>2, <2>2 DEF Advance, OwnIndex, LoopsTypeOK
    <3>2. /\ IterationsLeft(b) = 2 * (len[b] - idx[b]) + 1
          /\ IterationsLeft(b)' = 2 * (len[b] - (idx[b] + 1)) + 2
      BY <1>2, <1>3, <3>1 DEF IterationsLeft
    <3> QED BY <1>2, <3>2
  <2> QED BY <2>1, <2>2
<1>5. ASSUME NEW c \in Main .. b - 1
      PROVE  IterationsLeft(c)' = IterationsLeft(c) /\ Ahead(c)' = Ahead(c)
  <2>1. c # b /\ c \in Bodies /\ (c # Main => c \in Loops)
    BY <1>1, <1>2 DEF Main, Bodies, Loops
  <2>2. passed'[c] = passed[c]
    BY <1>1, <2>1 DEF Iterate, Advance, LoopsTypeOK, Bodies
  <2>3. c # Main => idx'[c] = idx[c]
    BY <1>1, <1>2, <2>1 DEF Iterate, Advance, LoopsTypeOK, OwnIndex
  <2> QED BY <1>3, <2>1, <2>2, <2>3 DEF IterationsLeft, Ahead
<1> QED BY <1>2, <1>4, <1>5, LowerHere

LEMMA FinishDescends ==
    ASSUME Finish PROVE Lower(Rank', Rank)
<1>1. Main \in Bodies /\ \A c \in Main .. Main - 1 : FALSE
  BY LoopsAssumption DEF Main, Bodies
<1>2. IterationsLeft(Main)' = 0 /\ IterationsLeft(Main) = 1
  BY DEF Finish, IterationsLeft
<1> QED BY <1>1, <1>2, LowerHere

\* No sequence of ranks goes down for ever.
LEMMA RanksComeToAnEnd ==
    ASSUME NEW ranks \in [Nat -> Ranks]
    PROVE  ~ \A n \in Nat : Lower(ranks[n + 1], ranks[n])
<1> DEFINE T == {ranks[n] : n \in Nat}
<1>1. T \in SUBSET Ranks /\ T # {}
  <2>1. ranks[0] \in T /\ \A n \in Nat : ranks[n] \in Ranks
    OBVIOUS
  <2> QED BY <2>1
<1>2. PICK r \in T : \A s \in T : ~ Lower(s, r)
  BY <1>1, LowestRank
<1>3. PICK n \in Nat : r = ranks[n]
  BY <1>2
<1>4. n + 1 \in Nat /\ ranks[n + 1] \in T
  BY <1>3
<1> QED BY <1>2, <1>3, <1>4

\* With no for-of inside another, whatever is entered, continued and left, every
\* step of the program lowers a rank, for any number of loops and any lengths
\* (the increment block of Stmt::ForOf, the update of emit_for), in an order in
\* which nothing goes down for ever.
THEOREM EveryStepDescends ==
    ASSUME ~ NestedForOf
    PROVE  /\ LoopsSpec => [](Rank \in Ranks) /\ Descends
           /\ \A ranks \in [Nat -> Ranks] : ~ \A n \in Nat : Lower(ranks[n + 1], ranks[n])
<1>1. LoopsIInv => \A i \in Loops : OwnIndex(i)
  BY FlatLoops DEF LoopsIInv
<1>2. LoopsIInv => Rank \in Ranks
  BY <1>1, RankFacts
<1>3. LoopsIInv /\ [LoopsNext]_loopsVars => [Lower(Rank', Rank)]_loopsVars
  <2> SUFFICES ASSUME LoopsIInv, LoopsNext, ~ UNCHANGED loopsVars PROVE Lower(Rank', Rank)
    OBVIOUS
  <2>1. at = "cond" => active # <<>>
    BY DEF LoopsIInv, CondInLoop
  <2>2. CASE \E i \in Loops : Enter(i)
    BY <1>1, <2>2, EnterDescends
  <2>3. CASE Iterate \/ Advance
    BY <1>1, <2>3, WithinDescends
  <2>4. CASE Exhausted \/ BreakLoop
    BY <1>1, <2>1, <2>4, LeaveDescends DEF Exhausted, BreakLoop
  <2>5. CASE Finish
    BY <2>5, FinishDescends
  <2> QED BY <2>2, <2>3, <2>4, <2>5 DEF LoopsNext, Done
<1>4. LoopsSpec => [](Rank \in Ranks) /\ Descends
  BY <1>2, <1>3, LoopsInvariant, PTL DEF LoopsSpec, Descends
<1> QED BY <1>4, RanksComeToAnEnd

-----------------------------------------------------------------------------
(*                               LoopContext                               *)

\* What the types say of the sequences and their elements.
LEMMA TypeFacts ==
    ASSUME TypeOK
    PROVE  /\ Len(nest) \in Nat /\ DOMAIN nest = 1 .. Len(nest)
           /\ Len(loops) \in Nat /\ DOMAIN loops = 1 .. Len(loops)
           /\ \A k \in 1 .. Len(loops) : loops[k] \in Nat \ {0}
           /\ Len(depths) = Len(nest) + 1
           /\ \A n \in 0 .. Len(nest) : depths[n + 1] \in {Unwalked} \cup Nat
           /\ Depth = depths[Len(nest) + 1]
           /\ Emitted <=> EmittedAt(Len(nest))
<1>1. /\ Len(nest) \in Nat /\ DOMAIN nest = 1 .. Len(nest)
      /\ Len(loops) \in Nat /\ DOMAIN loops = 1 .. Len(loops)
      /\ \A k \in 1 .. Len(loops) : loops[k] \in Nat \ {0}
      /\ Len(depths) = Len(nest) + 1
  BY DEF TypeOK
<1>2. \A n \in 0 .. Len(nest) : depths[n + 1] \in {Unwalked} \cup Nat
  BY <1>1 DEF TypeOK
<1> QED
  BY <1>1, <1>2 DEF Depth, Emitted, EmittedAt

\* What FramesAreLoops says, with the positions spelled out.
LEMMA FrameFacts ==
    ASSUME TypeOK, FramesAreLoops
    PROVE  /\ \A k \in 1 .. Len(loops) :
                /\ loops[k] \in 1 .. Len(nest) /\ nest[loops[k]] = "loop"
                /\ \A j \in 2 .. loops[k] : nest[j] \notin Functions
           /\ \A k, m \in 1 .. Len(loops) : k < m => loops[k] < loops[m]
           /\ \A i \in 1 .. Len(nest) :
                nest[i] = "loop" /\ (\A j \in 2 .. i : nest[j] \notin Functions) =>
                    \E k \in 1 .. Len(loops) : loops[k] = i
  BY TypeFacts DEF FramesAreLoops, EmittedAt

-----------------------------------------------------------------------------
\* The loop whose frame is on top is the innermost one: a loop inside it would
\* have a frame, and a function inside it would not be compiled.
LEMMA TopFrameIsInnermost ==
    ASSUME TypeOK, FramesAreLoops, Emitted, loops # <<>>
    PROVE  InnermostLoop = {loops[Len(loops)]}
<1> DEFINE top == loops[Len(loops)]
           n   == Len(nest)
<1>0. /\ n \in Nat /\ DOMAIN nest = 1 .. n
      /\ Len(loops) \in Nat /\ DOMAIN loops = 1 .. Len(loops)
      /\ EmittedAt(n)
  BY TypeFacts
<1>1. Len(loops) \in DOMAIN loops
  BY <1>0 DEF TypeOK
<1>2. top \in 1 .. n /\ nest[top] = "loop"
  BY <1>0, <1>1 DEF FramesAreLoops
<1> HIDE DEF top
<1>3. ASSUME NEW j \in top + 1 .. n PROVE nest[j] \notin {"loop"} \cup Functions
  <2>1. j \in 2 .. n /\ j \in 1 .. n /\ j > top
    BY <1>0, <1>2
  <2>2. nest[j] \notin Functions
    BY <1>0, <2>1 DEF EmittedAt
  <2>3. ASSUME nest[j] = "loop" PROVE FALSE
    <3>1. EmittedAt(j)
      BY <1>0, <2>1 DEF EmittedAt
    <3>2. PICK k \in DOMAIN loops : loops[k] = j
      BY <1>0, <2>1, <2>3, <3>1 DEF FramesAreLoops
    <3>3. k = Len(loops) \/ k < Len(loops)
      BY <1>0
    <3>4. j <= top
      BY <1>0, <1>1, <1>2, <2>1, <3>2, <3>3 DEF FramesAreLoops, top
    <3> QED
      BY <1>0, <1>2, <2>1, <3>4
  <2> QED
    BY <2>2, <2>3
<1>4. top \in InnermostLoop
  BY <1>0, <1>2, <1>3 DEF InnermostLoop
<1>5. ASSUME NEW i \in InnermostLoop PROVE i = top
  <2>1. /\ i \in 1 .. n /\ nest[i] = "loop"
        /\ \A j \in i + 1 .. n : nest[j] # "loop"
    BY <1>0 DEF InnermostLoop
  <2>2. ~ (i < top)
    BY <1>0, <1>2, <2>1
  <2>3. ~ (i > top)
    BY <1>0, <1>2, <1>3, <2>1
  <2> QED
    BY <1>0, <1>2, <2>1, <2>2, <2>3
<1> QED
  BY <1>4, <1>5 DEF top

\* Where the check has depth zero there is no loop around the walk.
LEMMA ZeroIsOutside ==
    ASSUME TypeOK, DepthSeesLoops, Depth = 0
    PROVE  InnermostLoop = {}
<1>0. /\ Len(nest) \in Nat /\ DOMAIN nest = 1 .. Len(nest)
      /\ Depth = depths[Len(nest) + 1]
  BY TypeFacts
<1> SUFFICES ASSUME NEW i \in InnermostLoop PROVE FALSE
  OBVIOUS
<1>1. /\ i \in 1 .. Len(nest) /\ nest[i] = "loop"
      /\ \A j \in i + 1 .. Len(nest) : nest[j] \notin Functions
  BY <1>0 DEF InnermostLoop
<1>2. Len(nest) \in 0 .. Len(nest)
  BY <1>0
<1> QED
  BY <1>0, <1>1, <1>2 DEF DepthSeesLoops

\* Where both walk, the depth is the number of frames.
LEMMA DepthCountsFrames ==
    ASSUME TypeOK, FramesAreLoops, DepthNumbersFrames
    PROVE  DepthsAgree
<1>0. /\ Len(nest) \in Nat /\ DOMAIN nest = 1 .. Len(nest)
      /\ Len(loops) \in Nat /\ DOMAIN loops = 1 .. Len(loops)
      /\ Depth = depths[Len(nest) + 1]
      /\ Emitted <=> EmittedAt(Len(nest))
  BY TypeFacts
<1> SUFFICES ASSUME Depth # Unwalked, Emitted PROVE Depth = Len(loops)
  BY DEF DepthsAgree
<1>1. Len(nest) \in 0 .. Len(nest)
  BY <1>0
<1>2. /\ Depth \in 0 .. Len(loops)
      /\ \A k \in 1 .. Len(loops) : loops[k] <= Len(nest) <=> k <= Depth
  BY <1>0, <1>1 DEF DepthNumbersFrames
<1>3. \A k \in 1 .. Len(loops) : loops[k] <= Len(nest)
  BY <1>0 DEF FramesAreLoops
<1>4. CASE Len(loops) = 0
  BY <1>2, <1>4
<1>5. CASE Len(loops) # 0
  <2>1. Len(loops) \in 1 .. Len(loops)
    BY <1>0, <1>5
  <2>2. Len(loops) <= Depth
    BY <1>2, <1>3, <2>1
  <2> QED
    BY <1>0, <1>2, <2>2
<1> QED
  BY <1>4, <1>5

-----------------------------------------------------------------------------
LEMMA InitInvariant == Init => IInv
<1> SUFFICES ASSUME Init PROVE IInv
  OBVIOUS
<1>1. /\ nest = <<>> /\ depths = <<0>> /\ loops = <<>> /\ ~ Met
      /\ Len(nest) = 0 /\ Len(depths) = 1 /\ depths[1] = 0
      /\ DOMAIN nest = {} /\ DOMAIN loops = {} /\ Len(loops) = 0
  BY DEF Init, Met
<1>2. TypeOK
  <2>1. nest \in Seq(Constructs) /\ depths \in Seq({Unwalked} \cup Nat)
        /\ loops \in Seq(Nat \ {0})
    BY <1>1
  <2> QED
    BY <1>1, <2>1, LoopContextAssumption DEF TypeOK
<1>3. FramesAreLoops
  BY <1>1 DEF FramesAreLoops
<1>4. DepthNumbersFrames
  <2>1. \A n \in 0 .. 0 : n = 0
    OBVIOUS
  <2> QED
    BY <1>1, <2>1 DEF DepthNumbersFrames
<1>5. DepthSeesLoops
  <2>1. \A n \in 0 .. 0 : 1 .. n = {}
    OBVIOUS
  <2> QED
    BY <1>1, <2>1 DEF DepthSeesLoops
<1> QED
  BY <1>1, <1>2, <1>3, <1>4, <1>5 DEF IInv, NoFalseAlarm, JumpsToOwnLoop

\* Entering a construct.
LEMMA OpenPreserves ==
    ASSUME IInv, NEW c \in Constructs, Open(c)
    PROVE  IInv'
<1> DEFINE n == Len(nest)
           d == DepthIn(c)
           EmittedThen(m) == \A i \in 2 .. m : nest'[i] \notin Functions
<1>0. /\ n \in Nat /\ DOMAIN nest = 1 .. n
      /\ Len(loops) \in Nat /\ DOMAIN loops = 1 .. Len(loops)
      /\ \A k \in 1 .. Len(loops) : loops[k] \in Nat \ {0}
      /\ Len(depths) = n + 1
      /\ \A m \in 0 .. n : depths[m + 1] \in {Unwalked} \cup Nat
      /\ Depth = depths[n + 1] /\ Depth \in {Unwalked} \cup Nat
      /\ Emitted <=> EmittedAt(n)
  BY TypeFacts DEF IInv
<1>1. d \in {Unwalked} \cup Nat
  BY <1>0 DEF DepthIn, Unwalked
<1>2. /\ nest' \in Seq(Constructs) /\ Len(nest') = n + 1
      /\ (\A i \in 1 .. n : nest'[i] = nest[i]) /\ nest'[n + 1] = c
      /\ DOMAIN nest' = 1 .. n + 1
  <2>1. nest \in Seq(Constructs) /\ nest' = Append(nest, c)
    BY DEF Open, IInv, TypeOK
  <2> QED
    BY <1>0, <2>1, AppendFacts
<1>3. /\ depths' \in Seq({Unwalked} \cup Nat) /\ Len(depths') = n + 2
      /\ (\A m \in 0 .. n : depths'[m + 1] = depths[m + 1]) /\ depths'[n + 2] = d
  <2>1. depths \in Seq({Unwalked} \cup Nat) /\ depths' = Append(depths, d)
    BY DEF Open, IInv, TypeOK
  <2>2. /\ depths' \in Seq({Unwalked} \cup Nat) /\ Len(depths') = (n + 1) + 1
        /\ (\A i \in 1 .. n + 1 : depths'[i] = depths[i]) /\ depths'[(n + 1) + 1] = d
    BY <1>0, <1>1, <2>1, AppendFacts
  <2> QED
    BY <1>0, <2>2
<1>4. \/ c = "loop" /\ Emitted /\ loops' = Append(loops, n + 1)
      \/ ~ (c = "loop" /\ Emitted) /\ loops' = loops
  BY DEF Open
<1> DEFINE framed == c = "loop" /\ Emitted
<1>5. loops' \in Seq(Nat \ {0}) /\ DOMAIN loops' = 1 .. Len(loops')
  <2>1. loops \in Seq(Nat \ {0}) /\ n + 1 \in Nat \ {0}
    BY <1>0 DEF IInv, TypeOK
  <2>2. loops' \in Seq(Nat \ {0})
    BY <1>4, <2>1, AppendFacts
  <2> QED
    BY <2>2
<1>6. /\ Len(loops) \in Nat /\ Len(loops') \in Nat
      /\ \A k \in 1 .. Len(loops) : loops'[k] = loops[k]
      /\ framed => Len(loops') = Len(loops) + 1 /\ loops'[Len(loops) + 1] = n + 1
      /\ ~ framed => Len(loops') = Len(loops)
  <2>1. loops \in Seq(Nat \ {0}) /\ n + 1 \in Nat \ {0}
    BY <1>0 DEF IInv, TypeOK
  <2>2. CASE framed
    <3>1. loops' = Append(loops, n + 1)
      BY <1>4, <2>2
    <3>2. /\ Len(loops') = Len(loops) + 1
          /\ \A k \in 1 .. Len(loops) : loops'[k] = loops[k]
          /\ loops'[Len(loops) + 1] = n + 1
      BY <2>1, <3>1, AppendFacts
    <3> HIDE DEF framed
    <3>3. Len(loops) \in Nat /\ Len(loops') \in Nat
      BY <1>0, <3>2
    <3> QED
      BY <2>2, <3>2, <3>3
  <2>3. CASE ~ framed
    <3>1. loops' = loops
      BY <1>4, <2>3
    <3> HIDE DEF framed
    <3>2. Len(loops) \in Nat /\ Len(loops') = Len(loops)
      BY <1>0, <3>1
    <3>3. \A k \in 1 .. Len(loops) : loops'[k] = loops[k]
      BY <3>1
    <3> QED
      BY Zenon, <2>3, <3>2, <3>3
  <2> QED
    BY <2>2, <2>3
<1> HIDE DEF framed
\* The frames of the new state: the old ones, and that of c if it has one.
<1>7. /\ Len(loops) <= Len(loops')
      /\ \A k \in 1 .. Len(loops) : k \in 1 .. Len(loops')
      /\ \A k \in 1 .. Len(loops') : k \in 1 .. Len(loops) \/ (framed /\ k = Len(loops) + 1)
      /\ framed => Len(loops) + 1 \in 1 .. Len(loops')
  <2>1. CASE framed
    <3>1. Len(loops) \in Nat /\ Len(loops') = Len(loops) + 1
      BY <1>0, <1>6, <2>1
    <3> QED
      BY <2>1, <3>1
  <2>2. CASE ~ framed
    <3>1. Len(loops) \in Nat /\ Len(loops') = Len(loops)
      BY <1>0, <1>6, <2>2
    <3> QED
      BY <2>2, <3>1
  <2> QED
    BY <2>1, <2>2
<1>8. framed <=> c = "loop" /\ Emitted
  BY DEF framed
<1>9. /\ \A m \in 0 .. n : EmittedThen(m) <=> EmittedAt(m)
      /\ EmittedThen(n + 1) <=> EmittedAt(n) /\ (n = 0 \/ c \notin Functions)
  <2>1. ASSUME NEW m \in 0 .. n PROVE EmittedThen(m) <=> EmittedAt(m)
    <3>1. \A i \in 2 .. m : nest'[i] = nest[i]
      BY <1>0, <1>2
    <3> QED
      BY <3>1 DEF EmittedAt
  <2>2. \A i \in 2 .. n + 1 : (i \in 2 .. n /\ nest'[i] = nest[i]) \/ (i = n + 1 /\ nest'[i] = c)
    BY <1>0, <1>2
  <2>3. \A i \in 2 .. n : i \in 2 .. n + 1
    BY <1>0
  <2>4. n = 0 \/ n + 1 \in 2 .. n + 1
    BY <1>0
  <2>5. n = 0 => 2 .. n + 1 = {} /\ 2 .. n = {}
    BY <1>0
  <2>6. (\A i \in 2 .. n + 1 : nest'[i] \notin Functions) <=>
            (\A i \in 2 .. n : nest[i] \notin Functions) /\ (n = 0 \/ c \notin Functions)
    <3>1. \A i \in 2 .. n : nest'[i] = nest[i]
      BY <1>0, <1>2
    <3> QED
      BY <2>2, <2>3, <2>4, <2>5, <3>1, <1>2
  <2>7. EmittedThen(n + 1) <=> EmittedAt(n) /\ (n = 0 \/ c \notin Functions)
    BY <2>6 DEF EmittedAt
  <2> QED
    BY <2>1, <2>7
<1>10. \A k \in 1 .. Len(loops) :
        /\ loops[k] \in 1 .. n /\ nest[loops[k]] = "loop"
        /\ \A j \in 2 .. loops[k] : nest[j] \notin Functions
  BY FrameFacts DEF IInv
<1>11. \A k, m \in 1 .. Len(loops) : k < m => loops[k] < loops[m]
  BY FrameFacts DEF IInv
<1>12. \A i \in 1 .. n :
         nest[i] = "loop" /\ (\A j \in 2 .. i : nest[j] \notin Functions) =>
             \E k \in 1 .. Len(loops) : loops[k] = i
  BY FrameFacts DEF IInv
<1> HIDE DEF d, n, EmittedThen
<1>13. TypeOK'
  <2>1. Met' <=> Met
    BY DEF Open, Met
  <2>2. n + 1 <= MaxNesting
    BY <1>0, LoopContextAssumption DEF Open, n
  <2> QED
    <3>1. Len(nest') <= MaxNesting /\ Len(depths') = Len(nest') + 1
      BY <1>0, <1>2, <1>3, <2>2
    <3>2. last' = last /\ TypeOK
      BY DEF Open, IInv
    <3>3. Met' => /\ last'.reported \in BOOLEAN
                  /\ last'.target \in {NotEmitted, Refused, NoJump} \cup Nat
      BY <2>1, <3>2 DEF TypeOK
    <3> QED
      BY <1>2, <1>3, <1>5, <3>1, <3>3 DEF TypeOK
<1>14. FramesAreLoops'
  <2>1. ASSUME NEW k \in 1 .. Len(loops')
        PROVE  /\ loops'[k] \in 1 .. n + 1 /\ nest'[loops'[k]] = "loop"
               /\ \A j \in 2 .. loops'[k] : nest'[j] \notin Functions
    <3>1. CASE k \in 1 .. Len(loops)
      <4> DEFINE p == loops[k]
      <4>1. /\ p \in 1 .. n /\ nest[p] = "loop"
            /\ \A j \in 2 .. p : nest[j] \notin Functions
        BY <1>10, <3>1
      <4>2. loops'[k] = p
        BY <1>6, <3>1
      <4> HIDE DEF p
      <4>3. p \in 1 .. n + 1 /\ nest'[p] = "loop"
        BY <1>0, <1>2, <4>1
      <4>4. \A j \in 2 .. p : j \in 1 .. n
        BY <1>0, <4>1
      <4> QED
        BY <1>2, <4>1, <4>2, <4>3, <4>4
    <3>2. CASE k \notin 1 .. Len(loops)
      <4>1. c = "loop" /\ Emitted /\ loops'[k] = n + 1
        BY <1>6, <1>7, <1>8, <3>2
      <4>2. n + 1 \in 1 .. n + 1 /\ \A j \in 2 .. n + 1 : j \in 2 .. n + 1
        BY <1>0
      <4>3. EmittedThen(n + 1)
        BY <1>0, <1>9, <4>1 DEF Functions
      <4> QED
        BY <1>2, <4>1, <4>2, <4>3 DEF EmittedThen
    <3> QED
      BY <3>1, <3>2
  <2>2. ASSUME NEW k \in 1 .. Len(loops'), NEW m \in 1 .. Len(loops'), k < m
        PROVE  loops'[k] < loops'[m]
    <3>1. k \in 1 .. Len(loops)
      <4>1. ASSUME k = Len(loops) + 1 PROVE FALSE
        <5>1. k \notin 1 .. Len(loops)
          BY <1>0, <4>1
        <5>2. Len(loops') = Len(loops) + 1
          BY <1>6, <1>7, <5>1
        <5> QED
          BY <1>0, <2>2, <4>1, <5>2
      <4>2. k \in 1 .. Len(loops) \/ k = Len(loops) + 1
        BY <1>7
      <4> QED
        BY <4>1, <4>2
    <3>2. CASE m \in 1 .. Len(loops)
      <4>1. loops[k] < loops[m]
        BY <1>11, <2>2, <3>1, <3>2
      <4> QED
        BY <1>6, <3>1, <3>2, <4>1
    <3>3. CASE m \notin 1 .. Len(loops)
      <4>1. loops'[m] = n + 1
        BY <1>6, <1>7, <3>3
      <4>2. loops'[k] \in 1 .. n
        BY <1>6, <1>10, <3>1
      <4> QED
        BY <1>0, <4>1, <4>2
    <3> QED
      BY <3>2, <3>3
  <2>3. ASSUME NEW i \in 1 .. n + 1, nest'[i] = "loop",
               \A j \in 2 .. i : nest'[j] \notin Functions
        PROVE  \E k \in 1 .. Len(loops') : loops'[k] = i
    <3>1. CASE i \in 1 .. n
      <4>1. \A j \in 2 .. i : j \in 1 .. n
        BY <1>0, <3>1
      <4>2. nest[i] = "loop" /\ \A j \in 2 .. i : nest[j] \notin Functions
        BY <1>2, <2>3, <3>1, <4>1
      <4>3. PICK k \in 1 .. Len(loops) : loops[k] = i
        BY <1>12, <3>1, <4>2
      <4> QED
        BY <1>6, <1>7, <4>3
    <3>2. CASE i = n + 1
      <4>1. EmittedThen(n + 1)
        BY <2>3, <3>2 DEF EmittedThen
      <4>2. c = "loop" /\ Emitted
        BY <1>0, <1>2, <1>9, <2>3, <3>2, <4>1
      <4> QED
        BY <1>6, <1>7, <1>8, <3>2, <4>2
    <3> QED
      BY <1>0, <3>1, <3>2
  <2> QED
    <3>1. /\ \A k \in DOMAIN loops' :
                loops'[k] \in DOMAIN nest' /\ nest'[loops'[k]] = "loop"
                /\ \A j \in 2 .. loops'[k] : nest'[j] \notin Functions
          /\ \A k, m \in DOMAIN loops' : k < m => loops'[k] < loops'[m]
      BY Zenon, <1>2, <1>5, <2>1, <2>2
    <3>2. \A i \in DOMAIN nest' :
                nest'[i] = "loop" /\ (\A j \in 2 .. i : nest'[j] \notin Functions) =>
                    \E k \in DOMAIN loops' : loops'[k] = i
      BY Zenon, <1>2, <1>5, <2>3
    <3> QED
      BY <3>1, <3>2 DEF FramesAreLoops, EmittedAt
<1>15. DepthNumbersFrames'
  <2> SUFFICES ASSUME NEW m \in 0 .. n + 1, depths'[m + 1] # Unwalked, EmittedAt(m)'
               PROVE  /\ depths'[m + 1] \in 0 .. Len(loops')
                      /\ \A k \in 1 .. Len(loops') : loops'[k] <= m <=> k <= depths'[m + 1]
    BY Zenon, <1>2, <1>5 DEF DepthNumbersFrames
  <2>1. CASE m \in 0 .. n
    <3>1. depths'[m + 1] = depths[m + 1] /\ EmittedAt(m)
      <4>1. EmittedThen(m)
        BY DEF EmittedAt, EmittedThen
      <4> QED
        BY <1>3, <1>9, <2>1, <4>1
    <3>2. /\ depths[m + 1] \in 0 .. Len(loops)
          /\ \A k \in 1 .. Len(loops) : loops[k] <= m <=> k <= depths[m + 1]
      BY <1>0, <2>1, <3>1 DEF IInv, DepthNumbersFrames, n
    <3>3. ASSUME NEW k \in 1 .. Len(loops')
          PROVE  loops'[k] <= m <=> k <= depths[m + 1]
      <4>1. CASE k \in 1 .. Len(loops)
        BY <1>6, <3>2, <4>1
      <4>2. CASE k \notin 1 .. Len(loops)
        <5>1. loops'[k] = n + 1 /\ k = Len(loops) + 1
          BY <1>6, <1>7, <4>2
        <5> QED
          BY <1>0, <2>1, <3>2, <5>1
      <4> QED
        BY <4>1, <4>2
    <3>4. depths[m + 1] \in 0 .. Len(loops')
      <4>1. Len(loops) \in Nat /\ Len(loops') \in Nat /\ Len(loops) <= Len(loops')
        BY <1>0, <1>6, <1>7
      <4> QED
        BY <3>2, <4>1
    <3> QED
      BY <3>1, <3>3, <3>4
  <2>2. CASE m = n + 1
    <3>1. depths'[m + 1] = d /\ d # Unwalked
      BY <1>0, <1>3, <2>2
    <3>2. Emitted /\ (n = 0 \/ c \notin Functions)
      <4>1. EmittedThen(n + 1)
        BY <2>2 DEF EmittedAt, EmittedThen
      <4> QED
        BY <1>0, <1>9, <4>1
    <3>3. \A k \in 1 .. Len(loops') : loops'[k] <= m
      <4>1. \A k \in 1 .. Len(loops') : loops'[k] \in 1 .. n \/ loops'[k] = n + 1
        BY <1>6, <1>7, <1>10
      <4> QED
        BY <1>0, <2>2, <4>1
    <3>4. d = Len(loops')
      <4>1. Depth # Unwalked
        BY <3>1 DEF d, DepthIn
      <4>2. Depth = Len(loops)
        BY <3>2, <4>1, DepthCountsFrames DEF IInv, DepthsAgree
      <4>3. CASE c = "loop"
        <5>1. framed /\ Len(loops') = Len(loops) + 1
          BY <1>6, <1>8, <3>2, <4>3
        <5>2. d = Depth + 1
          BY <3>1, <4>3 DEF d, DepthIn
        <5> QED
          BY <4>2, <5>1, <5>2
      <4>4. CASE c = "function"
        <5>1. n = 0 /\ d = 0
          BY <3>1, <3>2, <4>4 DEF Functions, d, DepthIn
        <5>2. Len(loops) = 0
          BY <1>0, <1>10, <5>1
        <5>3. ~ framed
          BY <1>8, <4>4
        <5> QED
          BY <1>6, <5>1, <5>2, <5>3
      <4>5. CASE c \notin {"loop", "function"}
        <5>1. Len(loops') = Len(loops)
          BY <1>6, <1>8, <4>5
        <5>2. d = Depth
          BY <3>1, <4>5 DEF d, DepthIn
        <5> QED
          BY <4>2, <5>1, <5>2
      <4> QED
        BY <4>3, <4>4, <4>5
    <3>5. /\ Len(loops') \in 0 .. Len(loops')
          /\ \A k \in 1 .. Len(loops') : k <= Len(loops')
      <4>1. Len(loops') \in Nat
        BY <1>6
      <4> QED
        BY <4>1
    <3> QED
      BY <3>1, <3>3, <3>4, <3>5
  <2> QED
    BY <1>0, <2>1, <2>2
<1>16. DepthSeesLoops'
  <2> SUFFICES ASSUME NEW m \in 0 .. n + 1, NEW i \in 1 .. m, nest'[i] = "loop",
                      \A j \in i + 1 .. m : nest'[j] \notin Functions
               PROVE  depths'[m + 1] # 0
    BY <1>2 DEF DepthSeesLoops
  <2>1. CASE m \in 0 .. n
    <3>1. nest[i] = "loop" /\ \A j \in i + 1 .. m : nest[j] \notin Functions
      BY <1>0, <1>2, <2>1
    <3>2. depths[m + 1] # 0
      BY <1>0, <2>1, <3>1 DEF IInv, DepthSeesLoops, n
    <3> QED
      BY <1>3, <2>1, <3>2
  <2>2. CASE m = n + 1 /\ i = n + 1
    <3>1. c = "loop" /\ depths'[m + 1] = d
      BY <1>0, <1>2, <1>3, <2>2
    <3> QED
      BY <1>0, <3>1 DEF d, DepthIn, Unwalked
  <2>3. CASE m = n + 1 /\ i \in 1 .. n
    <3>1. c \notin Functions
      BY <1>0, <1>2, <2>3
    <3>2. nest[i] = "loop" /\ \A j \in i + 1 .. n : nest[j] \notin Functions
      BY <1>0, <1>2, <2>3
    <3>3. Depth # 0
      <4>1. n \in 0 .. n
        BY <1>0
      <4> QED
        BY <1>0, <2>3, <3>2, <4>1 DEF IInv, DepthSeesLoops, n
    <3>4. depths'[m + 1] = d
      BY <1>0, <1>3, <2>3
    <3> QED
      BY <1>0, <3>1, <3>3, <3>4 DEF d, DepthIn, Unwalked, Functions
  <2> QED
    BY <1>0, <2>1, <2>2, <2>3
<1>17. NoFalseAlarm' /\ JumpsToOwnLoop'
  BY DEF Open, IInv, NoFalseAlarm, JumpsToOwnLoop, Met
<1> QED
  BY <1>13, <1>14, <1>15, <1>16, <1>17 DEF IInv

\* Leaving a construct, and its frame if it has one.
LEMMA ClosePreserves ==
    ASSUME IInv, Close
    PROVE  IInv'
<1> DEFINE n == Len(nest)
           own == loops # <<>> /\ loops[Len(loops)] = n
<1>0. /\ n \in Nat /\ DOMAIN nest = 1 .. n
      /\ Len(loops) \in Nat /\ DOMAIN loops = 1 .. Len(loops)
      /\ \A k \in 1 .. Len(loops) : loops[k] \in Nat \ {0}
      /\ Len(depths) = n + 1
  BY TypeFacts DEF IInv
<1>1. /\ n >= 1
      /\ nest' \in Seq(Constructs) /\ Len(nest') = n - 1
      /\ \A i \in 1 .. n - 1 : nest'[i] = nest[i]
      /\ DOMAIN nest' = 1 .. n - 1
  <2>1. nest \in Seq(Constructs) /\ nest # <<>> /\ nest' = SubSeq(nest, 1, n - 1)
    BY DEF Close, IInv, TypeOK
  <2> QED
    BY <2>1, FrontFacts
<1>2. /\ depths' \in Seq({Unwalked} \cup Nat) /\ Len(depths') = n
      /\ \A m \in 0 .. n - 1 : depths'[m + 1] = depths[m + 1]
  <2>1. /\ depths \in Seq({Unwalked} \cup Nat) /\ depths # <<>>
        /\ depths' = SubSeq(depths, 1, Len(depths) - 1)
    BY <1>0, <1>1 DEF Close, IInv, TypeOK
  <2>2. /\ depths' \in Seq({Unwalked} \cup Nat) /\ Len(depths') = Len(depths) - 1
        /\ \A i \in 1 .. Len(depths) - 1 : depths'[i] = depths[i]
    BY <2>1, FrontFacts
  <2> QED
    BY <1>0, <2>2
<1>3. loops' \in Seq(Nat \ {0}) /\ DOMAIN loops' = 1 .. Len(loops')
  <2>1. loops \in Seq(Nat \ {0})
    BY DEF IInv, TypeOK
  <2>2. loops' \in Seq(Nat \ {0})
    <3>1. CASE own
      BY <2>1, <3>1, FrontFacts DEF Close
    <3>2. CASE ~ own
      BY <2>1, <3>2 DEF Close
    <3> QED
      BY <3>1, <3>2
  <2> QED
    BY <2>2
<1>4. /\ Len(loops) \in Nat /\ Len(loops') \in Nat
      /\ Len(loops') = IF own THEN Len(loops) - 1 ELSE Len(loops)
      /\ own => Len(loops) >= 1 /\ loops[Len(loops)] = n
      /\ \A k \in 1 .. Len(loops') : k \in 1 .. Len(loops) /\ loops'[k] = loops[k]
  <2>1. loops \in Seq(Nat \ {0})
    BY DEF IInv, TypeOK
  <2>2. CASE own
    <3>1. loops # <<>> /\ loops' = SubSeq(loops, 1, Len(loops) - 1)
      BY <2>2 DEF Close
    <3>2. /\ Len(loops) \in Nat /\ Len(loops) >= 1 /\ Len(loops') = Len(loops) - 1
          /\ \A i \in 1 .. Len(loops) - 1 : loops'[i] = loops[i]
      BY <2>1, <3>1, FrontFacts
    <3>3. /\ Len(loops') \in Nat
          /\ \A k \in 1 .. Len(loops') : k \in 1 .. Len(loops) /\ loops'[k] = loops[k]
      BY <3>2
    <3> QED
      BY <2>2, <3>2, <3>3
  <2>3. CASE ~ own
    <3>1. loops' = loops
      BY <2>3 DEF Close
    <3>2. Len(loops) \in Nat /\ Len(loops') = Len(loops)
      BY <1>0, <3>1
    <3>3. \A k \in 1 .. Len(loops') : k \in 1 .. Len(loops) /\ loops'[k] = loops[k]
      BY <3>1
    <3> QED
      BY <2>3, <3>2, <3>3
  <2> QED
    BY <2>2, <2>3
<1>5. \A k \in 1 .. Len(loops) :
         /\ loops[k] \in 1 .. n /\ nest[loops[k]] = "loop"
         /\ \A j \in 2 .. loops[k] : nest[j] \notin Functions
  BY FrameFacts DEF IInv
<1>6. \A k, m \in 1 .. Len(loops) : k < m => loops[k] < loops[m]
  BY FrameFacts DEF IInv
<1>7. \A i \in 1 .. n :
         nest[i] = "loop" /\ (\A j \in 2 .. i : nest[j] \notin Functions) =>
             \E k \in 1 .. Len(loops) : loops[k] = i
  BY FrameFacts DEF IInv
<1>8. \A k \in 1 .. Len(loops') : loops'[k] \in 1 .. n - 1
  <2> SUFFICES ASSUME NEW k \in 1 .. Len(loops') PROVE loops[k] \in 1 .. n - 1
    BY <1>4
  <2>1. k \in 1 .. Len(loops) /\ loops[k] \in 1 .. n
    BY <1>4, <1>5
  <2>2. loops[k] # n
    <3>0. /\ k \in 1 .. Len(loops) /\ Len(loops) \in 1 .. Len(loops)
          /\ k = Len(loops) \/ k < Len(loops)
      <4>1. Len(loops) \in Nat
        BY <1>0
      <4> QED
        BY <2>1, <4>1
    <3>1. CASE k = Len(loops)
      <4>1. Len(loops') # Len(loops) - 1
        <5>1. Len(loops) \in Nat /\ Len(loops') \in Nat /\ Len(loops) \in 1 .. Len(loops')
          BY <1>4, <3>1
        <5> QED
          BY <5>1
      <4>2. ~ own
        BY <1>4, <4>1
      <4>3. loops # <<>>
        BY <2>1
      <4> QED
        BY <3>1, <4>2, <4>3
    <3>2. CASE k < Len(loops)
      <4>1. loops[Len(loops)] \in 1 .. n /\ loops[k] < loops[Len(loops)]
        BY <1>5, <1>6, <3>0, <3>2
      <4> QED
        BY <1>0, <2>1, <4>1
    <3> QED
      BY <3>0, <3>1, <3>2
  <2> QED
    BY <1>0, <2>1, <2>2
<1>9. \A m \in 0 .. n - 1 : EmittedAt(m)' <=> EmittedAt(m)
  <2> SUFFICES ASSUME NEW m \in 0 .. n - 1 PROVE EmittedAt(m)' <=> EmittedAt(m)
    OBVIOUS
  <2>1. \A i \in 2 .. m : nest'[i] = nest[i]
    BY <1>0, <1>1
  <2> QED
    BY <2>1 DEF EmittedAt
<1> HIDE DEF n, own
<1>10. TypeOK'
  <2>1. Met' <=> Met
    BY DEF Close, Met
  <2>2. n - 1 <= MaxNesting
    BY <1>0, LoopContextAssumption DEF IInv, TypeOK, n
  <2> QED
    BY <1>0, <1>1, <1>2, <1>3, <2>1, <2>2 DEF Close, IInv, TypeOK
<1>11. FramesAreLoops'
  <2>1. ASSUME NEW k \in 1 .. Len(loops')
        PROVE  /\ loops'[k] \in 1 .. n - 1 /\ nest'[loops'[k]] = "loop"
               /\ \A j \in 2 .. loops'[k] : nest'[j] \notin Functions
    <3> DEFINE p == loops[k]
    <3>1. /\ p \in 1 .. n - 1 /\ loops'[k] = p /\ nest[p] = "loop"
          /\ \A j \in 2 .. p : nest[j] \notin Functions
      BY <1>4, <1>8, <1>5
    <3> HIDE DEF p
    <3>2. \A j \in 2 .. p : j \in 1 .. n - 1
      BY <1>0, <3>1
    <3> QED
      BY <1>1, <3>1, <3>2
  <2>2. ASSUME NEW k \in 1 .. Len(loops'), NEW m \in 1 .. Len(loops'), k < m
        PROVE  loops'[k] < loops'[m]
    BY <1>4, <1>6, <2>2
  <2>3. ASSUME NEW i \in 1 .. n - 1, nest'[i] = "loop",
               \A j \in 2 .. i : nest'[j] \notin Functions
        PROVE  \E k \in 1 .. Len(loops') : loops'[k] = i
    <3>1. i \in 1 .. n /\ i < n /\ \A j \in 2 .. i : j \in 1 .. n - 1
      BY <1>0
    <3>2. nest[i] = "loop" /\ \A j \in 2 .. i : nest[j] \notin Functions
      BY <1>1, <2>3, <3>1
    <3>3. PICK k \in 1 .. Len(loops) : loops[k] = i
      BY <1>7, <3>1, <3>2
    <3>4. k \in 1 .. Len(loops')
      <4>1. CASE own
        <5>1. loops[Len(loops)] = n /\ Len(loops') = Len(loops) - 1
          BY <1>4, <4>1
        <5>2. k # Len(loops)
          BY <3>1, <3>3, <5>1
        <5>3. Len(loops) \in Nat /\ k \in 1 .. Len(loops)
          BY <1>0
        <5> QED
          BY <5>1, <5>2, <5>3
      <4>2. CASE ~ own
        BY <1>4, <4>2
      <4> QED
        BY <4>1, <4>2
    <3> QED
      BY <1>4, <3>3, <3>4
  <2> QED
    <3>1. /\ \A k \in DOMAIN loops' :
                loops'[k] \in DOMAIN nest' /\ nest'[loops'[k]] = "loop"
                /\ \A j \in 2 .. loops'[k] : nest'[j] \notin Functions
          /\ \A k, m \in DOMAIN loops' : k < m => loops'[k] < loops'[m]
      BY Zenon, <1>1, <1>3, <2>1, <2>2
    <3>2. \A i \in DOMAIN nest' :
                nest'[i] = "loop" /\ (\A j \in 2 .. i : nest'[j] \notin Functions) =>
                    \E k \in DOMAIN loops' : loops'[k] = i
      BY Zenon, <1>1, <1>3, <2>3
    <3> QED
      BY <3>1, <3>2 DEF FramesAreLoops, EmittedAt
<1>12. DepthNumbersFrames'
  <2> SUFFICES ASSUME NEW m \in 0 .. n - 1, depths'[m + 1] # Unwalked, EmittedAt(m)'
               PROVE  /\ depths'[m + 1] \in 0 .. Len(loops')
                      /\ \A k \in 1 .. Len(loops') : loops'[k] <= m <=> k <= depths'[m + 1]
    BY Zenon, <1>1, <1>3 DEF DepthNumbersFrames
  <2>1. m \in 0 .. n /\ depths'[m + 1] = depths[m + 1] /\ EmittedAt(m)
    BY <1>0, <1>2, <1>9
  <2>2. /\ depths[m + 1] \in 0 .. Len(loops)
        /\ \A k \in 1 .. Len(loops) : loops[k] <= m <=> k <= depths[m + 1]
    BY <1>0, <2>1 DEF IInv, DepthNumbersFrames, n
  <2>3. depths[m + 1] \in 0 .. Len(loops')
    <3>1. CASE own
      <4>1. Len(loops) \in 1 .. Len(loops) /\ ~ (loops[Len(loops)] <= m)
        BY <1>0, <1>4, <3>1
      <4>2. ~ (Len(loops) <= depths[m + 1])
        BY <2>2, <4>1
      <4> QED
        BY <1>0, <1>4, <2>2, <3>1, <4>2
    <3>2. CASE ~ own
      BY <1>4, <2>2, <3>2
    <3> QED
      BY <3>1, <3>2
  <2> QED
    BY <1>4, <2>1, <2>2, <2>3
<1>13. DepthSeesLoops'
  <2> SUFFICES ASSUME NEW m \in 0 .. n - 1, NEW i \in 1 .. m, nest'[i] = "loop",
                      \A j \in i + 1 .. m : nest'[j] \notin Functions
               PROVE  depths'[m + 1] # 0
    BY <1>1 DEF DepthSeesLoops
  <2>1. nest[i] = "loop" /\ \A j \in i + 1 .. m : nest[j] \notin Functions
    BY <1>0, <1>1
  <2>2. m \in 0 .. n
    BY <1>0
  <2>3. depths[m + 1] # 0
    BY <2>1, <2>2 DEF IInv, DepthSeesLoops, n
  <2> QED
    BY <1>2, <2>3
<1>14. NoFalseAlarm' /\ JumpsToOwnLoop'
  BY DEF Close, IInv, NoFalseAlarm, JumpsToOwnLoop, Met
<1> QED
  BY <1>10, <1>11, <1>12, <1>13, <1>14 DEF IInv

\* Meeting a break or a continue, whatever it is compiled to, if that is no jump
\* or a jump to the loop of the top frame.
\* With no frame there is no loop around a word that is compiled.
LEMMA NoFrameNoLoop ==
    ASSUME TypeOK, FramesAreLoops, Emitted, loops = <<>>
    PROVE  InnermostLoop = {}
<1> SUFFICES ASSUME NEW i \in InnermostLoop PROVE FALSE
  OBVIOUS
<1>1. i \in DOMAIN nest /\ nest[i] = "loop" /\ i \in 1 .. Len(nest) /\ Len(nest) \in Nat
  BY TypeFacts DEF InnermostLoop
<1>2. EmittedAt(i)
  BY <1>1 DEF Emitted, EmittedAt
<1> QED BY <1>1, <1>2 DEF FramesAreLoops

\* A word that is compiled and not buried goes where it is meant to.
LEMMA TargetIsMeant ==
    ASSUME TypeOK, FramesAreLoops, Emitted,
           NEW word \in {"break", "continue"}, ~ Buried(word),
           NEW target, target = IF word = "break" THEN BreakTarget ELSE ContinueTarget
    PROVE  Meant(word) = IF target > 0 THEN {target} ELSE {}
<1>1. CASE word = "break" /\ InCase
  <2>1. nest # <<>> /\ nest[Len(nest)] = "case"
    BY <1>1, TypeFacts DEF Buried, InCase
  <2>2. target = NoJump
    BY <1>1, <2>1 DEF BreakTarget
  <2> QED BY <1>1, <2>2 DEF Meant, NoJump
<1>2. CASE ~ (word = "break" /\ InCase)
  <2>1. Meant(word) = InnermostLoop
    BY <1>2 DEF Meant
  <2>2. target = CurrentLoop
    <3>1. word = "break" => ~ (nest # <<>> /\ nest[Len(nest)] = "case")
      <4> SUFFICES ASSUME word = "break", nest # <<>>, nest[Len(nest)] = "case" PROVE InCase
        BY <1>2
      <4>1. Len(nest) \in DOMAIN nest /\ \A j \in Len(nest) + 1 .. Len(nest) : FALSE
        BY TypeFacts DEF TypeOK
      <4> QED BY <4>1 DEF InCase
    <3> QED BY <3>1 DEF BreakTarget, ContinueTarget
  <2>3. CASE loops = <<>>
    BY <2>1, <2>2, <2>3, NoFrameNoLoop DEF CurrentLoop, Refused
  <2>4. CASE loops # <<>>
    <3>1. loops[Len(loops)] > 0
      BY <2>4, TypeFacts
    <3> QED BY <2>1, <2>2, <2>4, <3>1, TopFrameIsInnermost DEF CurrentLoop
  <2> QED BY <2>3, <2>4
<1> QED BY <1>1, <1>2

LEMMA JumpPreserves ==
    ASSUME IInv, NEW word \in {"break", "continue"}, NEW target, Jump(word, target),
           target = IF word = "break" THEN BreakTarget ELSE ContinueTarget
    PROVE  IInv'
<1>1. /\ Met' /\ last'.reported = (Depth = 0) /\ last'.target = target
      /\ last'.inLoop = InnermostLoop
      /\ last'.meant = Meant(word) /\ last'.buried = Buried(word)
      /\ UNCHANGED <<nest, depths, loops>>
  BY DEF Jump, Met
<1>2. target \in {NotEmitted, Refused, NoJump} \cup Nat
  BY TypeFacts DEF IInv, TypeOK, BreakTarget, ContinueTarget, CurrentLoop
<1>3. TypeOK'
  BY <1>1, <1>2 DEF IInv, TypeOK
<1>4. NoFalseAlarm'
  BY <1>1, ZeroIsOutside DEF IInv, NoFalseAlarm
<1>5. JumpsToOwnLoop'
  <2>1. target # NotEmitted => Emitted
    BY DEF BreakTarget, ContinueTarget
  <2> QED
    BY <1>1, <2>1, TargetIsMeant DEF IInv, JumpsToOwnLoop
<1>6. FramesAreLoops' /\ DepthNumbersFrames' /\ DepthSeesLoops'
  BY <1>1 DEF IInv, FramesAreLoops, DepthNumbersFrames, DepthSeesLoops, EmittedAt
<1> QED
  BY <1>3, <1>4, <1>5, <1>6 DEF IInv

LEMMA NextInvariant == IInv /\ [Next]_vars => IInv'
<1> SUFFICES ASSUME IInv, [Next]_vars PROVE IInv'
  OBVIOUS
<1>1. ASSUME NEW c \in Constructs, Open(c) PROVE IInv'
  BY <1>1, OpenPreserves
<1>2. CASE Close
  BY <1>2, ClosePreserves
<1>3. CASE Break
  BY <1>3, JumpPreserves DEF Break
<1>4. CASE Continue
  BY <1>4, JumpPreserves DEF Continue
<1>5. CASE UNCHANGED vars
  BY <1>5 DEF vars, IInv, TypeOK, FramesAreLoops, DepthNumbersFrames, DepthSeesLoops,
     EmittedAt, NoFalseAlarm, JumpsToOwnLoop, Met
<1> QED
  BY <1>1, <1>2, <1>3, <1>4, <1>5 DEF Next

\* The frames of the backend are the compiled loops around the walk and the
\* depths of check_loop_context number them, in every program.
THEOREM FramesStayLoops == Spec => []IInv
<1>1. Init => IInv
  BY InitInvariant
<1>2. IInv /\ [Next]_vars => IInv'
  BY NextInvariant
<1> QED
  BY <1>1, <1>2, PTL DEF Spec

\* loop_ctx.rs and FunctionCtx.loops take the same words to be outside of a
\* loop wherever both look, however deep the program nests.
THEOREM DepthsAlwaysAgree == Spec => []DepthsAgree
<1>1. IInv => DepthsAgree
  BY DepthCountsFrames DEF IInv
<1> QED
  BY <1>1, FramesStayLoops, PTL

\* check_loop_context never reports a break or a continue that stands in a loop.
THEOREM NeverAFalseAlarm == Spec => []NoFalseAlarm
<1>1. IInv => NoFalseAlarm
  BY DEF IInv
<1> QED
  BY <1>1, FramesStayLoops, PTL

\* Stmt::Break and Stmt::Continue jump to the innermost loop of their own
\* function, and nowhere if there is none or the break is a case's.
THEOREM JumpsStayInOwnLoop == Spec => []JumpsToOwnLoop
<1>1. IInv => JumpsToOwnLoop
  BY DEF IInv
<1> QED
  BY <1>1, FramesStayLoops, PTL
=============================================================================
