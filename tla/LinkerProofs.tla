---------------------------- MODULE LinkerProofs ----------------------------
(***************************************************************************)
(* What the linker hands to the pipeline, for any number of files, paths,  *)
(* imports and changes to the files while it runs.                         *)
(***************************************************************************)
EXTENDS Linker, SequenceTheorems, TLAPS

\* What pushing a new element makes of a sequence.
LEMMA Pushed ==
    ASSUME NEW S, NEW s \in Seq(S), NEW e \in S, IsInjective(s), e \notin ToSet(s)
    PROVE  /\ Append(s, e) \in Seq(S) /\ Append(s, e) # <<>>
           /\ Len(Append(s, e)) = Len(s) + 1
           /\ \A i \in 1 .. Len(s) : Append(s, e)[i] = s[i]
           /\ Last(Append(s, e)) = e
           /\ ToSet(Append(s, e)) = ToSet(s) \cup {e}
           /\ IsInjective(Append(s, e))
<1> DEFINE t == Append(s, e)
           n == Len(s)
<1>1. t \in Seq(S) /\ Len(t) = n + 1 /\ n \in Nat
  BY LenProperties, AppendProperties
<1>2. (\A i \in 1 .. n : t[i] = s[i]) /\ t[n + 1] = e
  BY AppendProperties
<1>3. DOMAIN s = 1 .. n /\ DOMAIN t = 1 .. n + 1
  BY <1>1, LenProperties
<1>4. t # <<>>
  BY AppendProperties
<1> HIDE DEF t, n
<1>5. 1 .. n + 1 = (1 .. n) \cup {n + 1} /\ n + 1 \notin 1 .. n
  BY <1>1
<1>6. ToSet(t) = ToSet(s) \cup {e}
  BY <1>2, <1>3, <1>5 DEF ToSet
<1>7. \A i \in 1 .. n : s[i] # e
  BY <1>3 DEF ToSet
<1>8. IsInjective(t)
  <2> SUFFICES ASSUME NEW i \in 1 .. n + 1, NEW j \in 1 .. n + 1, t[i] = t[j]
               PROVE  i = j
    BY <1>3 DEF IsInjective
  <2>1. CASE i \in 1 .. n /\ j \in 1 .. n
    BY <2>1, <1>2, <1>3 DEF IsInjective
  <2>2. CASE i = n + 1 \/ j = n + 1
    BY <2>2, <1>2, <1>5, <1>7
  <2> QED BY <2>1, <2>2, <1>5
<1>9. Last(t) = e
  BY <1>1, <1>2 DEF Last
<1> QED BY <1>1, <1>2, <1>4, <1>6, <1>8, <1>9 DEF t, n

\* What popping the last element makes of a sequence.
LEMMA Popped ==
    ASSUME NEW S, NEW s \in Seq(S), s # <<>>, IsInjective(s)
    PROVE  /\ Len(s) \in Nat \ {0}
           /\ Last(s) \in S /\ Last(s) \in ToSet(s)
           /\ Front(s) \in Seq(S)
           /\ Len(Front(s)) = Len(s) - 1
           /\ \A i \in 1 .. Len(s) - 1 : Front(s)[i] = s[i]
           /\ ToSet(Front(s)) = ToSet(s) \ {Last(s)}
           /\ IsInjective(Front(s))
<1> DEFINE t == Front(s)
           n == Len(s)
<1>1. n \in Nat \ {0} /\ DOMAIN s = 1 .. n
  BY EmptySeq, LenProperties
<1>2. \A i \in 1 .. n : s[i] \in S
  BY ElementOfSeq
<1>3. t = SubSeq(s, 1, n - 1)
  BY DEF Front
<1> HIDE DEF t, n
<1>4. t \in Seq(S)
  <2>1. \A i \in 1 .. n - 1 : s[i] \in S
    BY <1>1, <1>2
  <2>2. 1 \in Int /\ n - 1 \in Int
    BY <1>1
  <2> QED BY <2>1, <2>2, <1>3, SubSeqProperties
<1>5. Len(t) = n - 1 /\ \A i \in 1 .. n - 1 : t[i] = s[i]
  <2>1. \A i \in 1 .. n - 1 : s[i] \in S
    BY <1>1, <1>2
  <2>2. 1 \in Int /\ n - 1 \in Int
    BY <1>1
  <2>3. /\ Len(t) = IF 1 <= n - 1 THEN n - 1 - 1 + 1 ELSE 0
        /\ \A i \in 1 .. n - 1 - 1 + 1 : t[i] = s[1 + i - 1]
    BY <2>1, <2>2, <1>3, SubSeqProperties
  <2>4. n - 1 - 1 + 1 = n - 1 /\ \A i \in 1 .. n - 1 : 1 + i - 1 = i
    BY <1>1
  <2>5. Len(t) = n - 1
    BY <2>3, <2>4, <1>1
  <2>6. \A i \in 1 .. n - 1 : t[i] = s[i]
    BY <2>3, <2>4
  <2> QED BY <2>5, <2>6
<1>6. DOMAIN t = 1 .. n - 1
  BY <1>4, <1>5, LenProperties
<1>7. 1 .. n = (1 .. n - 1) \cup {n} /\ n \notin 1 .. n - 1
  BY <1>1
<1>8. Last(s) = s[n]
  BY DEF Last, n
<1>9. ToSet(t) = ToSet(s) \ {Last(s)}
  <2>1. \A i \in 1 .. n - 1 : s[i] # s[n]
    BY <1>1, <1>7 DEF IsInjective
  <2>2. ToSet(s) = {s[i] : i \in 1 .. n} /\ ToSet(t) = {t[i] : i \in 1 .. n - 1}
    BY <1>1, <1>6 DEF ToSet
  <2> QED BY <2>1, <2>2, <1>5, <1>7, <1>8
<1>10. IsInjective(t)
  BY <1>1, <1>5, <1>6, <1>7 DEF IsInjective
<1>11. Last(s) \in S /\ Last(s) \in ToSet(s)
  BY <1>1, <1>2, <1>7, <1>8 DEF ToSet
<1> QED BY <1>1, <1>4, <1>5, <1>9, <1>10, <1>11 DEF t, n

-----------------------------------------------------------------------------
core == <<calling, stack, order, modules, deps, id>>

\* IInv, but for what it says of phase and result.
Walked ==
    /\ calling \in Files \cup {None}
    /\ stack \in Seq(Files) /\ order \in Seq(Files) /\ modules \subseteq Files
    /\ deps \in [Files -> SUBSET Files]
    /\ IsInjective(order) /\ ToSet(order) = modules \cup ToSet(stack)
    /\ IsInjective(stack) /\ ToSet(stack) \cap modules = {}
    /\ DependenciesFirst
    /\ \A k \in 1 .. Len(stack) - 1 : deps[stack[k]] \subseteq modules \cup {stack[k + 1]}
    /\ stack # <<>> => deps[Last(stack)] \subseteq modules \cup {calling}
    /\ \A f \in Files \ ToSet(order) : deps[f] = {}
    /\ \A S \in SUBSET modules : ~ Cyclic(S)
    /\ \A S \in SUBSET Files :
          order # <<>> /\ order[1] \in S /\ Closed(S) =>
              ToSet(order) \subseteq S /\ calling \in S \cup {None}

Judged ==
    /\ phase = "entry" => order = <<>>
    /\ phase \in {"ids", "imports"} \/ result = "ok" => stack = <<>> /\ order # <<>>
    /\ phase = "imports" \/ result = "ok" => ~ SharedId
    /\ phase # "done" => result = "none"

DiskTyped == disk \in [Paths -> Files \cup {None}]

LEMMA InParts == IInv <=> DiskTyped /\ Walked /\ Judged
BY DEF IInv, DiskTyped, Walked, Judged

LEMMA WalkedStands == ASSUME Walked, UNCHANGED core PROVE Walked'
BY DEF Walked, core, DependenciesFirst, Cyclic, Closed

\* A step that leaves the walk alone, and goes on or fails.
LEMMA JudgedStands ==
    ASSUME Judged, UNCHANGED core,
           \/ phase' = phase /\ result' = result
           \/ phase' = "done" /\ result' \notin {"none", "ok"}
    PROVE  Judged'
BY DEF Judged, core, SharedId

LEMMA InitIInv == Init => IInv
<1> SUFFICES ASSUME Init PROVE DiskTyped /\ Walked /\ Judged
  BY InParts
<1> USE DEF Init
<1>1. ToSet(<<>>) = {} /\ IsInjective(<<>>) /\ <<>> \in Seq(Files) /\ Len(<<>>) = 0
  <2>1. <<>> \in Seq(Files) /\ Len(<<>>) = 0
    BY EmptySeq
  <2>2. DOMAIN <<>> = {}
    <3>1. DOMAIN <<>> = 1 .. 0
      BY <2>1, LenProperties
    <3> QED BY <3>1
  <2> QED BY <2>1, <2>2 DEF ToSet, IsInjective
<1>2. deps \in [Files -> SUBSET Files] /\ \A f \in Files : deps[f] = {}
  OBVIOUS
<1>3. \A S \in SUBSET modules : ~ Cyclic(S)
  BY DEF Cyclic
<1>4. \A k \in 1 .. Len(stack) - 1 : deps[stack[k]] \subseteq modules \cup {stack[k + 1]}
  BY <1>1
<1>5. Walked
  BY <1>1, <1>2, <1>3, <1>4 DEF Walked, DependenciesFirst
<1>6. DiskTyped /\ Judged
  BY DEF DiskTyped, Judged
<1> QED BY <1>5, <1>6

\* Only files whose imports are all recorded are recorded: a cycle among the
\* modules would have to be there before its last file came.
LEMMA NoCycleCloses ==
    ASSUME Walked, NEW f \in Files \ modules, deps[f] \subseteq modules
    PROVE  \A S \in SUBSET (modules \cup {f}) : ~ Cyclic(S)
<1> SUFFICES ASSUME NEW S \in SUBSET (modules \cup {f}), Cyclic(S) PROVE FALSE
  OBVIOUS
<1> DEFINE T == S \ {f}
<1>1. T \in SUBSET modules
  OBVIOUS
<1>2. CASE f \notin S
  BY <1>2 DEF Walked
<1>3. CASE f \in S
  <2>1. PICK g \in deps[f] : g \in S
    BY <1>3 DEF Cyclic
  <2>2. g \in T
    BY <2>1
  <2>3. ASSUME NEW h \in T PROVE deps[h] \cap T # {}
    <3>1. PICK d \in deps[h] : d \in S
      BY <2>3 DEF Cyclic
    <3>2. d \in modules
      BY <1>1, <2>3, <3>1 DEF Walked, DependenciesFirst
    <3> QED BY <3>1, <3>2
  <2>4. Cyclic(T)
    BY <2>2, <2>3 DEF Cyclic
  <2> QED BY <1>1, <2>4 DEF Walked
<1> QED BY <1>2, <1>3

LEMMA DiskStaysTyped == ASSUME DiskTyped, [Next]_vars PROVE DiskTyped'
<1>1. CASE Change
  <2>1. \A p \in Paths, f \in Files \cup {None} : Relink(p, f) => DiskTyped'
    BY DEF Relink, DiskTyped
  <2>2. \A f \in Files : Delete(f) => DiskTyped'
    BY DEF Delete, DiskTyped
  <2> QED BY <1>1, <2>1, <2>2 DEF Change
<1>2. CASE UNCHANGED disk
  BY <1>2 DEF DiskTyped
<1>3. [Next]_vars => Change \/ UNCHANGED disk
  BY DEF Next, Load, Validate, ResolveEntry, AlreadyLoaded, Cycle, Unusable, Enter,
         ImportFile, ImportNothing, ImportExternal, ImportBadCrate, Meet, Record,
         CheckIds, PickModule, CheckImport, ModuleChecked, Succeed, Done, vars, files
<1> QED BY <1>1, <1>2, <1>3

\* A path leads to a file or to nothing.
LEMMA CanonicalTyped ==
    ASSUME DiskTyped, NEW p \in Paths
    PROVE  Canonical(p) \in Files \cup {None}
BY LinkerAssumption DEF DiskTyped, Canonical

LEMMA NothingMet == ASSUME Walked, order = <<>> PROVE stack = <<>> /\ ToSet(order) = {}
<1>1. DOMAIN order = {}
  <2>1. DOMAIN order = 1 .. Len(order) /\ Len(order) = 0
    BY EmptySeq, LenProperties DEF Walked
  <2> QED BY <2>1
<1>2. ToSet(order) = {}
  BY <1>1 DEF ToSet
<1>3. stack # <<>> => Last(stack) \in ToSet(stack)
  BY Popped DEF Walked
<1> QED BY <1>2, <1>3 DEF Walked

LEMMA ResolveEntryKeeps == ASSUME IInv, ResolveEntry PROVE Walked' /\ Judged'
<1> USE InParts
<1>1. order = <<>> /\ stack = <<>>
  BY NothingMet DEF Judged, ResolveEntry
<1>2. UNCHANGED <<stack, order, modules, deps>> /\ calling' \in Files \cup {None}
  BY CanonicalTyped, LinkerAssumption DEF ResolveEntry, loaded, graph
<1>3. Walked'
  BY <1>1, <1>2 DEF Walked, DependenciesFirst, Cyclic, Closed
<1>4. Judged'
  BY <1>1 DEF Judged, ResolveEntry, Fail, loaded
<1> QED BY <1>3, <1>4

LEMMA AlreadyLoadedKeeps == ASSUME IInv, AlreadyLoaded PROVE Walked' /\ Judged'
<1> USE InParts
<1>1. UNCHANGED <<stack, order, modules, deps>> /\ calling' = None /\ calling \in modules
  BY DEF AlreadyLoaded, loaded, graph
<1>2. Walked'
  BY <1>1 DEF Walked, DependenciesFirst, Cyclic, Closed
<1>3. Judged'
  BY DEF Judged, AlreadyLoaded, loaded, SharedId
<1> QED BY <1>2, <1>3

LEMMA EnterKeeps == ASSUME IInv, Enter PROVE Walked' /\ Judged'
<1> USE InParts
<1> DEFINE f == calling
           n == Len(stack)
<1>1. /\ f \in Files /\ f \notin modules /\ f \notin ToSet(stack) /\ f \notin ToSet(order)
      /\ stack' = Append(stack, f) /\ order' = Append(order, f)
      /\ UNCHANGED <<modules, deps>> /\ calling' = None
  BY DEF Enter, Walked, graph
<1>2. /\ stack' \in Seq(Files) /\ stack' # <<>> /\ Len(stack') = n + 1
      /\ \A i \in 1 .. n : stack'[i] = stack[i]
      /\ Last(stack') = f /\ ToSet(stack') = ToSet(stack) \cup {f}
      /\ IsInjective(stack')
  BY <1>1, Pushed DEF Walked
<1>3. /\ order' \in Seq(Files) /\ order' # <<>> /\ Len(order') = Len(order) + 1
      /\ \A i \in 1 .. Len(order) : order'[i] = order[i]
      /\ Last(order') = f /\ ToSet(order') = ToSet(order) \cup {f}
      /\ IsInjective(order')
  BY <1>1, Pushed DEF Walked
<1>4. n \in Nat /\ (stack # <<>> => n \in Nat \ {0})
  BY EmptySeq, LenProperties DEF Walked
<1>5. ASSUME NEW k \in 1 .. Len(stack') - 1
      PROVE  deps'[stack'[k]] \subseteq modules' \cup {stack'[k + 1]}
  <2>1. k \in 1 .. n
    BY <1>2, <1>4
  <2>2. stack'[k] = stack[k]
    BY <1>2, <2>1
  <2>3. CASE k = n
    <3>1. stack # <<>>
      <4>1. n # 0
        BY <2>1, <2>3, <1>4
      <4> QED BY <4>1, EmptySeq
    <3>2. stack[k] = Last(stack) /\ stack'[k + 1] = f
      BY <1>2, <2>3 DEF Last
    <3> QED BY <3>1, <3>2, <2>2, <1>1 DEF Walked
  <2>4. CASE k # n
    <3>1. k \in 1 .. n - 1 /\ k + 1 \in 1 .. n
      BY <2>1, <2>4, <1>4
    <3>2. stack'[k + 1] = stack[k + 1]
      BY <3>1, <1>2
    <3> QED BY <3>1, <3>2, <2>2, <1>1 DEF Walked
  <2> QED BY <2>3, <2>4
<1>6. deps'[Last(stack')] = {}
  BY <1>1, <1>2 DEF Walked
<1>7. ASSUME NEW S \in SUBSET Files, order'[1] \in S, Closed(S)'
      PROVE  ToSet(order') \subseteq S /\ calling' \in S \cup {None}
  <2>1. Closed(S)
    BY <1>1, <1>7 DEF Closed
  <2>2. CASE order = <<>>
    <3>1. ToSet(order) = {}
      BY <2>2, NothingMet
    <3>2. order'[1] = f
      <4>1. Len(order') = 1
        BY <2>2, <1>3, EmptySeq
      <4> QED BY <4>1, <1>3 DEF Last
    <3> QED BY <3>1, <3>2, <1>1, <1>3, <1>7
  <2>3. CASE order # <<>>
    <3>1. 1 \in 1 .. Len(order)
      <4>1. Len(order) \in Nat \ {0}
        BY <2>3, EmptySeq DEF Walked
      <4> QED BY <4>1
    <3>2. order[1] \in S
      BY <3>1, <1>3, <1>7
    <3>3. ToSet(order) \subseteq S /\ f \in S
      BY <2>1, <2>3, <3>2, <1>1, LinkerAssumption DEF Walked
    <3> QED BY <3>3, <1>1, <1>3
  <2> QED BY <2>2, <2>3
<1>8. Walked'
  BY SMTT(30), <1>1, <1>2, <1>3, <1>5, <1>6, <1>7 DEF Walked, DependenciesFirst, Cyclic
<1>9. Judged'
  BY <1>1, <1>3 DEF Judged, Enter
<1> QED BY <1>8, <1>9

LEMMA ImportFileKeeps ==
    ASSUME IInv, NEW i \in Import, ImportFile(i)
    PROVE  Walked' /\ Judged'
<1> USE InParts
<1> DEFINE f == Last(stack)
           g == calling'
<1>1. /\ stack # <<>> /\ calling = None /\ g \in Files
      /\ UNCHANGED <<stack, order, modules, id, phase, result>>
      /\ deps' = [deps EXCEPT ![f] = @ \cup {g}]
  BY CanonicalTyped DEF ImportFile, Meet, Walking, loaded
<1>2. f \in Files /\ f \in ToSet(stack) /\ f \notin modules /\ f \in ToSet(order)
  BY <1>1, Popped DEF Walked
<1>3. /\ deps' \in [Files -> SUBSET Files]
      /\ deps'[f] = deps[f] \cup {g}
      /\ \A h \in Files \ {f} : deps'[h] = deps[h]
      /\ \A h \in Files : deps[h] \subseteq deps'[h]
  BY <1>1, <1>2 DEF Walked
<1>4. deps[f] \subseteq modules
  BY <1>1, <1>2, LinkerAssumption DEF Walked
<1> HIDE DEF f, g
<1>5. ASSUME NEW k \in 1 .. Len(stack) - 1
      PROVE  deps'[stack[k]] \subseteq modules \cup {stack[k + 1]}
  <2>1. stack[k] \in Files /\ stack[k] # f
    <3>1. Len(stack) \in Nat /\ DOMAIN stack = 1 .. Len(stack)
      BY LenProperties DEF Walked
    <3>2. k \in 1 .. Len(stack) /\ Len(stack) \in 1 .. Len(stack) /\ k # Len(stack)
      <4> DEFINE n == Len(stack)
      <4>1. n \in Nat /\ k \in 1 .. n - 1
        BY <3>1
      <4> HIDE DEF n
      <4>2. k \in 1 .. n /\ n \in 1 .. n /\ k # n
        BY <4>1
      <4> QED BY <4>2 DEF n
    <3>3. stack[k] \in Files
      BY <3>2, ElementOfSeq DEF Walked
    <3> QED BY <3>1, <3>2, <3>3 DEF Walked, IsInjective, f, Last
  <2> QED BY <2>1, <1>3 DEF Walked
<1>6. ASSUME NEW S \in SUBSET modules PROVE ~ Cyclic(S)'
  <2>1. \A h \in S : deps'[h] = deps[h]
    BY <1>2, <1>3 DEF Walked
  <2> QED BY <2>1 DEF Walked, Cyclic
<1>7. ASSUME NEW S \in SUBSET Files, order # <<>>, order[1] \in S, Closed(S)'
      PROVE  ToSet(order) \subseteq S /\ g \in S
  <2>1. Closed(S)
    BY <1>3, <1>7 DEF Closed
  <2>2. ToSet(order) \subseteq S
    BY <2>1, <1>7 DEF Walked
  <2> QED BY <2>2, <1>2, <1>3, <1>7 DEF Closed
<1>8. \A h \in modules : deps'[h] \subseteq modules
  BY <1>2, <1>3 DEF Walked, DependenciesFirst
<1>9. \A h \in Files \ ToSet(order) : deps'[h] = {}
  BY <1>2, <1>3 DEF Walked
<1>10. deps'[f] \subseteq modules \cup {g}
  BY <1>3, <1>4
<1>11. UNCHANGED <<stack, order, modules>> /\ g = calling' /\ f = Last(stack) /\ f = Last(stack')
  BY <1>1 DEF f, g
<1>12. Walked'
  BY <1>1, <1>3, <1>5, <1>6, <1>7, <1>8, <1>9, <1>10, <1>11 DEF Walked, DependenciesFirst
<1>13. Judged'
  BY <1>1 DEF Judged, SharedId
<1> QED BY <1>12, <1>13

LEMMA RecordKeeps == ASSUME IInv, Record PROVE Walked' /\ Judged'
<1> USE InParts
<1> DEFINE f == Last(stack)
           n == Len(stack)
<1>1. /\ stack # <<>> /\ calling = None /\ phase = "load"
      /\ stack' = Front(stack) /\ modules' = modules \cup {f}
      /\ phase' = IF n = 1 THEN "ids" ELSE "load"
      /\ UNCHANGED <<order, deps, calling, id, result>>
  BY DEF Record, Walking, graph
<1>2. /\ n \in Nat \ {0} /\ f \in Files /\ f \in ToSet(stack)
      /\ stack' \in Seq(Files) /\ Len(stack') = n - 1
      /\ \A k \in 1 .. n - 1 : stack'[k] = stack[k]
      /\ ToSet(stack') = ToSet(stack) \ {f} /\ IsInjective(stack')
  BY <1>1, Popped DEF Walked
<1>3. f \notin modules /\ f \in ToSet(order) /\ deps[f] \subseteq modules
  BY <1>1, <1>2, LinkerAssumption DEF Walked
<1>4. stack[n] = f
  BY DEF Last
<1> HIDE DEF f, n
<1>5. ASSUME NEW k \in 1 .. Len(stack') - 1
      PROVE  deps[stack'[k]] \subseteq modules' \cup {stack'[k + 1]}
  <2>1. k \in 1 .. n - 1 /\ k + 1 \in 1 .. n - 1
    BY <1>2
  <2>2. stack'[k] = stack[k] /\ stack'[k + 1] = stack[k + 1]
    BY <2>1, <1>2
  <2>3. deps[stack[k]] \subseteq modules \cup {stack[k + 1]}
    BY <2>1 DEF Walked, n
  <2> QED BY <2>2, <2>3, <1>1
<1>6. ASSUME stack' # <<>> PROVE deps[Last(stack')] \subseteq modules'
  <2>1. n - 1 # 0
    BY <1>6, <1>2, EmptySeq
  <2>2. n - 1 \in 1 .. n - 1 /\ (n - 1) + 1 = n
    BY <2>1, <1>2
  <2>3. Last(stack') = stack[n - 1]
    BY <2>2, <1>2 DEF Last
  <2>4. deps[stack[n - 1]] \subseteq modules \cup {stack[(n - 1) + 1]}
    BY <2>2 DEF Walked, n
  <2> QED BY <2>2, <2>3, <2>4, <1>1, <1>4
<1>7. \A S \in SUBSET modules' : ~ Cyclic(S)
  BY <1>1, <1>2, <1>3, NoCycleCloses
<1>8. \A h \in modules' : deps[h] \subseteq modules'
  BY <1>1, <1>3 DEF Walked, DependenciesFirst
<1>9. ToSet(order) = modules' \cup ToSet(stack') /\ ToSet(stack') \cap modules' = {}
  BY <1>1, <1>2, <1>3 DEF Walked
<1>10. \A S \in SUBSET modules' : ~ Cyclic(S)'
  BY <1>1, <1>7 DEF Cyclic
<1>11. \A S : Closed(S)' = Closed(S)
  BY <1>1 DEF Closed
<1>12. Walked'
  BY <1>1, <1>2, <1>3, <1>5, <1>6, <1>8, <1>9, <1>10, <1>11 DEF Walked, DependenciesFirst
<1>13. Judged'
  <2>1. phase' = "ids" => stack' = <<>>
    <3>1. n = 1 => Len(stack') = 0
      BY <1>2
    <3> QED BY <3>1, <1>1, <1>2, EmptySeq
  <2>2. order # <<>>
    BY <1>1, NothingMet
  <2>3. result' = "none"
    BY <1>1 DEF Judged
  <2> QED BY <2>1, <2>2, <2>3, <1>1 DEF Judged
<1> QED BY <1>12, <1>13

LEMMA CheckIdsKeeps == ASSUME IInv, CheckIds PROVE Walked' /\ Judged'
<1> USE InParts
<1>1. UNCHANGED core
  BY DEF CheckIds, core, loaded, graph
<1>2. CASE SharedId
  BY <1>1, <1>2, WalkedStands, JudgedStands DEF CheckIds, Fail
<1>3. CASE ~ SharedId
  BY <1>1, <1>3, WalkedStands DEF CheckIds, Judged, core, SharedId
<1> QED BY <1>2, <1>3

LEMMA SucceedKeeps == ASSUME IInv, Succeed PROVE Walked' /\ Judged'
<1> USE InParts
<1>1. UNCHANGED core
  BY DEF Succeed, core, loaded, graph
<1>2. Judged'
  BY <1>1 DEF Succeed, Judged, core, SharedId
<1> QED BY <1>1, <1>2, WalkedStands

\* The steps that leave the walk alone.
LEMMA OthersKeep ==
    ASSUME IInv,
           \/ Cycle \/ Unusable
           \/ \E i \in Import : ImportNothing(i) \/ ImportExternal(i) \/ ImportBadCrate(i)
           \/ CheckImport \/ ModuleChecked \/ \E f \in Files : PickModule(f)
           \/ Change \/ Done \/ UNCHANGED vars
    PROVE  Walked' /\ Judged'
<1> USE InParts
<1>1. CASE Cycle \/ Unusable
  <2>1. UNCHANGED core /\ phase' = "done" /\ result' \notin {"none", "ok"}
    BY <1>1 DEF Cycle, Unusable, Fail, core, loaded, graph
  <2> QED BY <2>1, WalkedStands, JudgedStands
<1>2. CASE \E i \in Import : ImportNothing(i) \/ ImportExternal(i) \/ ImportBadCrate(i)
  <2>1. /\ UNCHANGED core
        /\ \/ phase' = phase /\ result' = result
           \/ phase' = "done" /\ result' \notin {"none", "ok"}
    BY <1>2 DEF ImportNothing, ImportExternal, ImportBadCrate, Fail, core, loaded
  <2> QED BY <2>1, WalkedStands, JudgedStands
<1>3. CASE CheckImport
  <2>1. Why(TheImport) \in {"none", "not found", "internal error", "not exported"}
    BY DEF Why
  <2>2. /\ UNCHANGED core
        /\ \/ phase' = phase /\ result' = result
           \/ phase' = "done" /\ result' \notin {"none", "ok"}
    BY <1>3, <2>1 DEF CheckImport, Fail, core, loaded, graph
  <2> QED BY <2>2, WalkedStands, JudgedStands
<1>4. CASE \/ ModuleChecked \/ \E f \in Files : PickModule(f)
           \/ Change \/ Done \/ UNCHANGED vars
  <2>1. UNCHANGED core /\ phase' = phase /\ result' = result
    BY <1>4 DEF ModuleChecked, PickModule, Change, Done, vars, core, loaded, graph
  <2> QED BY <2>1, WalkedStands, JudgedStands
<1> QED BY <1>1, <1>2, <1>3, <1>4

LEMMA StepIInv == IInv /\ [Next]_vars => IInv'
<1> SUFFICES ASSUME IInv, [Next]_vars PROVE IInv'
  OBVIOUS
<1>1. DiskTyped'
  BY DiskStaysTyped, InParts
<1>2. Walked' /\ Judged'
  <2>1. CASE ResolveEntry
    BY <2>1, ResolveEntryKeeps
  <2>2. CASE AlreadyLoaded
    BY <2>2, AlreadyLoadedKeeps
  <2>3. CASE Enter
    BY <2>3, EnterKeeps
  <2>4. CASE Record
    BY <2>4, RecordKeeps
  <2>5. CASE \E i \in Import : ImportFile(i)
    BY <2>5, ImportFileKeeps
  <2>6. CASE CheckIds
    BY <2>6, CheckIdsKeeps
  <2>7. CASE Succeed
    BY <2>7, SucceedKeeps
  <2> QED BY <2>1, <2>2, <2>3, <2>4, <2>5, <2>6, <2>7, OthersKeep
          DEF Next, Load, Validate
<1> QED BY <1>1, <1>2 DEF IInv, DiskTyped, Walked, Judged

-----------------------------------------------------------------------------
\* The walk is sound at every moment, for any number of files and changes.
THEOREM InductiveInvariant == Spec => []IInv
<1>1. Init => IInv
  BY InitIInv
<1>2. IInv /\ [Next]_vars => IInv'
  BY StepIInv
<1> QED BY <1>1, <1>2, PTL DEF Spec

\* Once the linker is through, the files of the order are those the entry needs.
LEMMA WalkedAll ==
    ASSUME IInv, stack = <<>>, order # <<>>
    PROVE  ToSet(order) = modules /\ modules = Needed
<1>1. ToSet(order) = modules
  <2>1. DOMAIN stack = {}
    <3>1. DOMAIN stack = 1 .. Len(stack) /\ Len(stack) = 0
      BY EmptySeq, LenProperties DEF IInv
    <3> QED BY <3>1
  <2> QED BY <2>1 DEF IInv, ToSet
<1>2. order[1] \in modules
  <2>1. 1 \in DOMAIN order
    <3>1. Len(order) \in Nat \ {0} /\ DOMAIN order = 1 .. Len(order)
      BY EmptySeq, LenProperties DEF IInv
    <3> QED BY <3>1
  <2> QED BY <2>1, <1>1 DEF ToSet
<1>3. Needed \subseteq modules
  BY <1>2 DEF Needed, IInv, DependenciesFirst, Closed
<1>4. modules \subseteq Needed
  BY <1>1 DEF Needed, IInv
<1> QED BY <1>1, <1>3, <1>4

\* What a successful link returns (resolve): the files the entry needs, each
\* once, without a cycle or a shared id among them.
THEOREM LinkIsComplete == Spec => []SuccessIsComplete
<1>1. IInv => SuccessIsComplete
  BY WalkedAll DEF SuccessIsComplete, IInv
<1> QED BY <1>1, InductiveInvariant, PTL

-----------------------------------------------------------------------------
LEMMA InitStillInv == Init => StillInv
<1> SUFFICES ASSUME Init PROVE StillInv
  OBVIOUS
<1> USE DEF Init
<1>1. Len(<<>>) = 0 /\ <<>> \in Seq(Import)
  BY EmptySeq
<1>2. Chain
  BY <1>1 DEF Chain
<1>3. ChecksTyped
  BY <1>1 DEF ChecksTyped
<1>4. Still
  BY <1>1 DEF Still, Resolved
<1>5. FailureHasReason
  BY DEF FailureHasReason
<1> QED BY <1>2, <1>3, <1>4, <1>5 DEF StillInv

\* The linker does not go on once it has its result, and nobody looks.
LEMMA DoneStands == ASSUME phase = "done", [Next]_vars PROVE UNCHANGED vars
BY DEF Next, Load, Validate, ResolveEntry, AlreadyLoaded, Cycle, Unusable, Enter,
       ImportFile, ImportNothing, ImportExternal, ImportBadCrate, Meet, Walking, Record,
       CheckIds, PickModule, CheckImport, Validating, ModuleChecked, Succeed, Change,
       Done

LEMMA ChainStands ==
    ASSUME Chain, UNCHANGED <<stack, deps>>, UNCHANGED calling \/ calling' = None
    PROVE  Chain'
BY DEF Chain

LEMMA ChainKeeps == ASSUME IInv, Chain, [Next]_vars PROVE Chain'
<1> USE InParts
<1>1. CASE ResolveEntry
  <2>1. stack = <<>> /\ Len(stack) = 0 /\ stack' = stack
    BY <1>1, NothingMet, EmptySeq DEF Judged, ResolveEntry, loaded
  <2> QED BY <2>1 DEF Chain
<1>2. CASE Enter
  <2> DEFINE n == Len(stack)
  <2>1. /\ calling \in Files /\ calling \notin ToSet(stack) /\ calling # None
        /\ stack' = Append(stack, calling) /\ UNCHANGED deps /\ calling' = None
    BY <1>2, LinkerAssumption DEF Enter, graph
  <2>2. /\ Len(stack') = n + 1 /\ stack'[n + 1] = calling
        /\ \A i \in 1 .. n : stack'[i] = stack[i]
    BY <2>1, Pushed DEF Walked, Last
  <2>3. n \in Nat
    BY LenProperties DEF Walked
  <2>4. ASSUME NEW k \in 1 .. Len(stack') - 1
        PROVE  stack'[k + 1] \in deps[stack'[k]]
    <3>1. k \in 1 .. n /\ stack'[k] = stack[k]
      BY <2>2, <2>3
    <3>2. CASE k = n
      <4>1. stack # <<>> /\ stack[k] = Last(stack)
        BY <3>1, <3>2, <2>3, EmptySeq DEF Last
      <4> QED BY <4>1, <3>1, <3>2, <2>1, <2>2 DEF Chain
    <3>3. CASE k # n
      <4>1. k \in 1 .. n - 1 /\ k + 1 \in 1 .. n
        BY <3>1, <3>3, <2>3
      <4> QED BY <4>1, <3>1, <2>2 DEF Chain
    <3> QED BY <3>2, <3>3
  <2> QED BY <2>1, <2>4 DEF Chain
<1>3. CASE Record
  <2> DEFINE n == Len(stack)
  <2>1. stack # <<>> /\ stack' = Front(stack) /\ UNCHANGED deps /\ calling' = None
    BY <1>3 DEF Record, Walking, graph
  <2>2. n \in Nat \ {0} /\ Len(stack') = n - 1 /\ \A k \in 1 .. n - 1 : stack'[k] = stack[k]
    BY <2>1, Popped DEF Walked
  <2> HIDE DEF n
  <2>3. ASSUME NEW k \in 1 .. Len(stack') - 1
        PROVE  stack'[k + 1] \in deps[stack'[k]]
    <3>1. k \in 1 .. n - 1 /\ k + 1 \in 1 .. n - 1
      BY <2>2
    <3>2. stack'[k] = stack[k] /\ stack'[k + 1] = stack[k + 1]
      BY <3>1, <2>2
    <3> QED BY <3>1, <3>2 DEF Chain, n
  <2> QED BY <2>1, <2>3 DEF Chain
<1>4. ASSUME NEW i \in Import, ImportFile(i) PROVE Chain'
  <2> DEFINE f == Last(stack)
  <2>1. /\ stack # <<>> /\ stack' = stack
        /\ deps' = [deps EXCEPT ![f] = @ \cup {calling'}]
    BY <1>4 DEF ImportFile, Meet, Walking, loaded
  <2>2. f \in Files
    BY <2>1, Popped DEF Walked
  <2>3. calling' \in deps'[f] /\ \A h \in Files : deps[h] \subseteq deps'[h]
    BY <2>1, <2>2 DEF Walked
  <2>4. ASSUME NEW k \in 1 .. Len(stack) - 1 PROVE stack[k] \in Files
    <3>1. Len(stack) \in Nat
      BY LenProperties DEF Walked
    <3>2. k \in 1 .. Len(stack)
      BY <3>1
    <3> QED BY <3>2, ElementOfSeq DEF Walked
  <2> QED BY <2>1, <2>3, <2>4 DEF Chain
<1>5. CASE \/ AlreadyLoaded \/ Cycle \/ Unusable
           \/ \E i \in Import : ImportNothing(i) \/ ImportExternal(i) \/ ImportBadCrate(i)
           \/ Validate \/ Change \/ Done \/ UNCHANGED vars
  <2>1. UNCHANGED <<stack, deps>> /\ (UNCHANGED calling \/ calling' = None)
    BY <1>5 DEF AlreadyLoaded, Cycle, Unusable, ImportNothing, ImportExternal, ImportBadCrate,
           Validate, CheckIds, PickModule, CheckImport, ModuleChecked, Succeed, Change, Done,
           vars, loaded, graph
  <2> QED BY <2>1, ChainStands
<1> QED BY <1>1, <1>2, <1>3, <1>4, <1>5 DEF Next, Load

\* A file being walked gets one more import.
LEMMA MeetGrows ==
    ASSUME IInv, ChecksTyped, NEW i \in Import, Meet(i)
    PROVE  LET f == Last(stack)
               n == Len(imports[f])
           IN  /\ f \in Files /\ f \notin modules /\ n \in Nat
               /\ imports' \in [Files -> Seq(Import)]
               /\ \A g \in Files \ {f} : imports'[g] = imports[g]
               /\ Len(imports'[f]) = n + 1
               /\ imports'[f][n + 1] = i
               /\ \A k \in 1 .. n : imports'[f][k] = imports[f][k]
<1> DEFINE f == Last(stack)
           n == Len(imports[f])
<1>1. f \in Files /\ f \in ToSet(stack) /\ f \notin modules
  BY Popped DEF Meet, Walking, IInv
<1>2. imports' = [imports EXCEPT ![f] = Append(@, i)]
  BY DEF Meet
<1> HIDE DEF f
<1>3. imports[f] \in Seq(Import)
  BY <1>1 DEF ChecksTyped
<1>4. /\ Append(imports[f], i) \in Seq(Import) /\ n \in Nat
      /\ Len(Append(imports[f], i)) = n + 1 /\ Append(imports[f], i)[n + 1] = i
      /\ \A k \in 1 .. n : Append(imports[f], i)[k] = imports[f][k]
  BY <1>3, AppendProperties, LenProperties
<1>5. imports'[f] = Append(imports[f], i) /\ \A g \in Files \ {f} : imports'[g] = imports[g]
  BY <1>1, <1>2 DEF ChecksTyped
<1>6. imports' \in [Files -> Seq(Import)]
  BY <1>1, <1>2, <1>4 DEF ChecksTyped
<1> QED BY <1>1, <1>4, <1>5, <1>6 DEF f

LEMMA ChecksStayTyped == ASSUME IInv, ChecksTyped, [Next]_vars PROVE ChecksTyped'
<1>1. CASE \E i \in Import :
              ImportFile(i) \/ ImportNothing(i) \/ ImportExternal(i) \/ ImportBadCrate(i)
  <2>1. PICK i \in Import :
              ImportFile(i) \/ ImportNothing(i) \/ ImportExternal(i) \/ ImportBadCrate(i)
    BY <1>1
  <2>2. Meet(i)
    BY <2>1 DEF ImportFile, ImportNothing, ImportExternal, ImportBadCrate
  <2>3. imports' \in [Files -> Seq(Import)]
    BY <2>2, MeetGrows
  <2>4. /\ UNCHANGED <<checked, checking, next, modules>> /\ phase = "load"
        /\ phase' \in {"load", "done"} /\ result' # "ok"
    BY <2>1, <2>2 DEF ImportFile, ImportNothing, ImportExternal, ImportBadCrate, Fail,
           Meet, Walking, IInv, loaded, walk
  <2> QED BY <2>3, <2>4 DEF ChecksTyped
<1>2. CASE Record
  <2>1. UNCHANGED <<imports, checked, checking, next, result>>
        /\ phase = "load" /\ modules \subseteq modules' /\ result # "ok"
    BY <1>2 DEF Record, Walking, IInv, graph, walk
  <2>2. phase' \in {"load", "ids"}
    BY <1>2 DEF Record
  <2> QED BY <2>1, <2>2 DEF ChecksTyped
<1>3. CASE ResolveEntry \/ AlreadyLoaded \/ Cycle \/ Unusable \/ Enter \/ CheckIds
  <2>1. /\ UNCHANGED <<imports, checked, checking, next, modules>> /\ result' # "ok"
        /\ phase \in {"entry", "load", "ids"}
    BY <1>3 DEF ResolveEntry, AlreadyLoaded, Cycle, Unusable, Enter, CheckIds, Fail, IInv,
           graph, loaded, walk
  <2> QED BY <2>1 DEF ChecksTyped
<1>4. CASE (\E f \in Files : PickModule(f)) \/ ModuleChecked \/ CheckImport
  <2>1. /\ UNCHANGED <<imports, modules>> /\ phase = "imports"
        /\ phase' \in {"imports", "done"} /\ result' # "ok"
    <3>1. Why(TheImport) # "ok"
      BY DEF Why
    <3> QED BY <1>4, <3>1 DEF PickModule, ModuleChecked, CheckImport, Validating, Fail, IInv,
               graph, loaded
  <2>2. /\ checked' \subseteq modules /\ checking' \in modules \cup {None}
        /\ next' \in Nat \ {0}
    BY <1>4 DEF PickModule, ModuleChecked, CheckImport, ChecksTyped, walk
  <2> QED BY <2>1, <2>2 DEF ChecksTyped
<1>5. CASE Succeed
  BY <1>5 DEF Succeed, ChecksTyped, graph, loaded, walk
<1>6. CASE Change \/ Done \/ UNCHANGED vars
  <2>1. UNCHANGED <<imports, checked, checking, next, modules, phase, result>>
    BY <1>6 DEF Change, Done, vars, graph, loaded, walk
  <2> QED BY <2>1 DEF ChecksTyped
<1> QED BY <1>1, <1>2, <1>3, <1>4, <1>5, <1>6 DEF Next, Load, Validate

-----------------------------------------------------------------------------
\* What an import is told depends on the files, the modules and their exports.
LEMMA WhyStands ==
    ASSUME UNCHANGED <<disk, gone, modules, exports>>, NEW i
    PROVE  Why(i)' = Why(i)
BY DEF Why, Canonical

LEMMA NobodyChanged ==
    ASSUME StillInv, [Next]_vars, changes' = 0
    PROVE  changes = 0 /\ UNCHANGED <<disk, gone>> /\ ~ Change
<1>1. ~ Change
  BY DEF Change, StillInv
<1> QED BY <1>1 DEF Next, Load, Validate, ResolveEntry, AlreadyLoaded, Cycle, Unusable,
           Enter, ImportFile, ImportNothing, ImportExternal, ImportBadCrate, Record,
           CheckIds, PickModule, CheckImport, ModuleChecked, Succeed, Done, vars, files

LEMMA StillKeeps ==
    ASSUME IInv, StillInv, [Next]_vars, changes' = 0
    PROVE  Still'
<1>1. changes = 0 /\ UNCHANGED <<disk, gone>> /\ ~ Change
  BY NobodyChanged
<1>2. Still /\ ChecksTyped
  BY <1>1 DEF StillInv
<1>3. \A p : Canonical(p)' = Canonical(p)
  BY <1>1 DEF Canonical
<1>4. CASE \E i \in Import :
              ImportFile(i) \/ ImportNothing(i) \/ ImportExternal(i) \/ ImportBadCrate(i)
  <2>1. PICK i \in Import :
              ImportFile(i) \/ ImportNothing(i) \/ ImportExternal(i) \/ ImportBadCrate(i)
    BY <1>4
  <2>2. Meet(i)
    BY <2>1 DEF ImportFile, ImportNothing, ImportExternal, ImportBadCrate
  <2> DEFINE f == Last(stack)
             n == Len(imports[f])
  <2>3. /\ f \in Files /\ n \in Nat
        /\ \A g \in Files \ {f} : imports'[g] = imports[g]
        /\ Len(imports'[f]) = n + 1 /\ imports'[f][n + 1] = i
        /\ \A k \in 1 .. n : imports'[f][k] = imports[f][k]
    BY <2>2, <1>2, MeetGrows
  <2>4. checked' = {} /\ checking' = None /\ phase = "load"
    BY <2>1, <2>2, <1>2 DEF ImportFile, ImportNothing, ImportExternal, ImportBadCrate,
           Meet, Walking, ChecksTyped, walk
  <2>5. CASE ImportNothing(i) \/ ImportBadCrate(i)
    <3>1. phase' = "done" /\ result' # "ok"
      BY <2>5 DEF ImportNothing, ImportBadCrate, Fail
    <3> QED BY <3>1, <2>4 DEF Still
  <2>6. CASE ImportFile(i) \/ ImportExternal(i)
    <3>1. /\ \A g \in Files : deps[g] \subseteq deps'[g]
          /\ i.path \in Paths => Canonical(i.path) \in deps'[f]
      <4>1. CASE ImportFile(i)
        BY <4>1, <2>3 DEF ImportFile, IInv
      <4>2. CASE ImportExternal(i)
        BY <4>2, TargetAssumption DEF ImportExternal
      <4> QED BY <4>1, <4>2, <2>6
    <3>2. \A g \in Files : Resolved(g)
      BY <1>2, <2>4 DEF Still
    <3> HIDE DEF f, n
    <3>3. ASSUME NEW g \in Files, NEW k \in 1 .. Len(imports'[g]), imports'[g][k].path \in Paths
          PROVE  Canonical(imports'[g][k].path) \in deps'[g]
      <4>1. CASE g # f
        BY <4>1, <2>3, <3>1, <3>2, <3>3 DEF Resolved
      <4>2. CASE g = f /\ k = n + 1
        BY <4>2, <2>3, <3>1, <3>3
      <4>3. CASE g = f /\ k # n + 1
        <5>1. k \in 1 .. n
          BY <4>3, <2>3
        <5>2. k \in 1 .. Len(imports[f]) /\ imports'[g][k] = imports[f][k]
          BY <5>1, <4>3, <2>3 DEF n
        <5> QED BY <5>2, <4>3, <2>3, <3>1, <3>2, <3>3 DEF Resolved
      <4> QED BY <4>1, <4>2, <4>3
    <3>4. \A g \in Files : Resolved(g)'
      BY <3>3, <1>3 DEF Resolved
    <3> QED BY <3>4, <2>4 DEF Still
  <2> QED BY <2>1, <2>5, <2>6
<1>5. CASE ResolveEntry \/ AlreadyLoaded \/ Cycle \/ Unusable \/ Enter \/ Record \/ CheckIds
  <2>1. UNCHANGED <<imports, deps, checked, checking>> /\ phase \in {"entry", "load", "ids"}
    BY <1>5 DEF ResolveEntry, AlreadyLoaded, Cycle, Unusable, Enter, Record, Walking, CheckIds,
           graph, walk
  <2>2. checked' = {} /\ checking' = None
    BY <2>1, <1>2 DEF ChecksTyped
  <2>3. \A f \in Files : Resolved(f)'
    BY <2>1, <1>2, <1>3 DEF Still, Resolved
  <2> QED BY <2>2, <2>3 DEF Still
<1>6. CASE (\E f \in Files : PickModule(f)) \/ ModuleChecked \/ CheckImport \/ Succeed
  <2>1. UNCHANGED <<imports, deps, modules, exports>> /\ phase = "imports"
    BY <1>6 DEF PickModule, ModuleChecked, CheckImport, Validating, Succeed, graph, loaded
  <2>2. \A f \in Files : Resolved(f)'
    BY <2>1, <1>2, <1>3 DEF Still, Resolved
  <2>3. \A f, n : Passed(f, n) => Passed(f, n)'
    BY <2>1, <1>1, WhyStands DEF Passed
  <2>4. \A f \in checked : Passed(f, Len(imports[f]))'
    BY <2>1, <2>3, <1>2 DEF Still
  <2>5. CASE \E f \in Files : PickModule(f)
    <3>1. checked' = checked /\ next' = 1
      BY <2>5 DEF PickModule
    <3>2. Passed(checking, next - 1)'
      BY <3>1 DEF Passed
    <3> QED BY <3>1, <3>2, <2>1, <2>2, <2>4 DEF Still
  <2>6. CASE ModuleChecked
    <3>1. /\ checking # None /\ checked' = checked \cup {checking} /\ checking' = None
          /\ next > Len(imports[checking])
      BY <2>6 DEF ModuleChecked
    <3>2. next \in Nat /\ Len(imports[checking]) \in Nat
      <4>1. imports[checking] \in Seq(Import)
        BY <3>1, <1>2 DEF ChecksTyped, IInv
      <4> QED BY <4>1, <1>2, LenProperties DEF ChecksTyped
    <3>3. Passed(checking, next - 1)
      BY <3>1, <1>2 DEF Still
    <3>4. 1 .. Len(imports[checking]) \subseteq 1 .. next - 1
      BY <3>1, <3>2
    <3>5. Passed(checking, Len(imports[checking]))
      BY <3>3, <3>4 DEF Passed
    <3>6. \A f \in checked' : Passed(f, Len(imports[f]))'
      BY <3>1, <3>5, <2>1, <2>3, <2>4
    <3> QED BY <3>1, <3>6, <2>1, <2>2 DEF Still
  <2>7. CASE CheckImport
    <3>1. checked' = checked /\ checking' = checking /\ checking # None
      BY <2>7 DEF CheckImport, Validating
    <3>2. Passed(checking, next - 1)
      BY <3>1, <1>2 DEF Still
    <3>3. Passed(checking, next' - 1)
      <4>1. CASE Why(TheImport) = "none"
        <5>1. next' = next + 1 /\ next \in Nat \ {0}
          BY <2>7, <4>1, <1>2 DEF CheckImport, ChecksTyped
        <5>2. \A k \in 1 .. next' - 1 : k \in 1 .. next - 1 \/ k = next
          BY <5>1
        <5> QED BY <5>2, <4>1, <3>2 DEF Passed, TheImport
      <4>2. CASE Why(TheImport) # "none"
        BY <2>7, <4>2, <3>2 DEF CheckImport
      <4> QED BY <4>1, <4>2
    <3>4. Passed(checking, next - 1)'
      BY <3>1, <3>3, <2>1, <1>1, WhyStands DEF Passed
    <3> QED BY <3>1, <3>4, <2>1, <2>2, <2>4 DEF Still
  <2>8. CASE Succeed
    <3>1. checked' = checked /\ checking' = None
      BY <2>8 DEF Succeed, walk
    <3> QED BY <3>1, <2>1, <2>2, <2>4 DEF Still
  <2> QED BY <1>6, <2>5, <2>6, <2>7, <2>8
<1>7. CASE Done \/ UNCHANGED vars
  <2>1. UNCHANGED <<imports, deps, modules, exports, checked, checking, next, phase, result>>
    BY <1>7 DEF Done, vars, graph, loaded, walk
  <2>2. \A f, n : Passed(f, n)' = Passed(f, n)
    BY <2>1, <1>1, WhyStands DEF Passed
  <2> QED BY <2>1, <2>2, <1>2, <1>3 DEF Still, Resolved
<1> QED BY <1>1, <1>4, <1>5, <1>6, <1>7 DEF Next, Load, Validate

\* A file of the stack that is called for again closes a cycle: from where it
\* stands, each file imports the next, and the last one imports it.
LEMMA StackCloses ==
    ASSUME IInv, Chain, stack # <<>>, calling \in ToSet(stack)
    PROVE  \E S \in SUBSET ToSet(stack) : Cyclic(S)
<1> DEFINE n == Len(stack)
<1>1. n \in Nat \ {0} /\ DOMAIN stack = 1 .. n
  BY EmptySeq, LenProperties DEF IInv
<1>2. PICK m \in 1 .. n : stack[m] = calling
  BY <1>1 DEF ToSet
<1>3. calling # None
  <2>1. calling \in Files
    BY <1>2, ElementOfSeq DEF IInv
  <2> QED BY <2>1, LinkerAssumption
<1> DEFINE S == {stack[k] : k \in m .. n}
<1>4. S \in SUBSET ToSet(stack)
  <2>1. m .. n \subseteq 1 .. n
    BY <1>1, <1>2
  <2> QED BY <2>1, <1>1 DEF ToSet
<1>5. ASSUME NEW k \in m .. n PROVE deps[stack[k]] \cap S # {}
  <2>1. CASE k = n
    <3>1. calling \in deps[stack[k]]
      BY <2>1, <1>3 DEF Chain, Last
    <3>2. m \in m .. n
      BY <1>1, <1>2
    <3> QED BY <3>1, <3>2, <1>2
  <2>2. CASE k # n
    <3>1. k \in 1 .. n - 1 /\ k + 1 \in m .. n
      <4> HIDE DEF n
      <4> QED BY <2>2, <1>1, <1>2
    <3>2. stack[k + 1] \in deps[stack[k]]
      BY <3>1 DEF Chain
    <3> QED BY <3>1, <3>2
  <2> QED BY <2>1, <2>2
<1>6. S # {}
  <2>1. m \in m .. n
    BY <1>1, <1>2
  <2> QED BY <2>1
<1>7. Cyclic(S)
  BY <1>5, <1>6 DEF Cyclic
<1> QED BY <1>4, <1>7

LEMMA FailureKeeps == ASSUME IInv, StillInv, [Next]_vars PROVE FailureHasReason'
<1> SUFFICES ASSUME changes' = 0 PROVE FailureHasReason'
  BY DEF FailureHasReason
<1>1. changes = 0 /\ UNCHANGED <<disk, gone>>
  BY NobodyChanged
<1>2. Still /\ ChecksTyped /\ Chain
  BY <1>1 DEF StillInv
<1>3. CASE phase = "done"
  <2>1. UNCHANGED vars
    BY <1>3, DoneStands
  <2>2. FailureHasReason
    BY DEF StillInv
  <2> QED BY <2>1, <2>2 DEF FailureHasReason, Needed, Closed, Cyclic, Exported, Canonical,
             vars, files, graph, loaded, walk
<1>4. CASE phase # "done" /\ Cycle
  <2>1. /\ result' = "cycle" /\ UNCHANGED <<stack, deps>>
        /\ phase = "load" /\ calling \in ToSet(stack)
    BY <1>4 DEF Cycle, Fail, loaded, graph
  <2>2. stack # <<>>
    <3>1. DOMAIN stack # {} /\ DOMAIN stack = 1 .. Len(stack)
      BY <2>1, LenProperties DEF ToSet, IInv
    <3>2. Len(stack) # 0
      BY <3>1
    <3> QED BY <3>2, EmptySeq
  <2>3. \E S \in SUBSET ToSet(stack) : Cyclic(S)
    BY <2>1, <2>2, <1>2, StackCloses
  <2>4. \E S \in SUBSET ToSet(stack') : Cyclic(S)'
    BY <2>1, <2>3 DEF Cyclic
  <2> QED BY <2>1, <2>4 DEF FailureHasReason
<1>5. CASE phase # "done" /\ CheckIds
  <2>1. /\ phase = "ids" /\ UNCHANGED <<modules, id, deps, order>>
        /\ SharedId => result' = "same name"
        /\ ~ SharedId => result' = "none"
    BY <1>5 DEF CheckIds, Fail, IInv, loaded, graph
  <2>2. CASE SharedId
    <3>1. modules = Needed
      BY <2>1, WalkedAll DEF IInv
    <3>2. \E f, g \in Needed : f # g /\ id[f] = id[g]
      BY <3>1, <2>2 DEF SharedId
    <3>3. Needed' = Needed
      BY <2>1 DEF Needed, Closed
    <3> QED BY <3>2, <3>3, <2>1, <2>2 DEF FailureHasReason
  <2>3. CASE ~ SharedId
    BY <2>1, <2>3 DEF FailureHasReason
  <2> QED BY <2>2, <2>3
<1>6. CASE phase # "done" /\ CheckImport
  <2> DEFINE f == checking
             i == TheImport
  <2>1. /\ phase = "imports" /\ f # None /\ next <= Len(imports[f])
        /\ UNCHANGED <<imports, exports, modules, deps, order>>
        /\ result = "none" /\ result' = Why(i)
    BY <1>6 DEF CheckImport, Validating, Fail, IInv, loaded, graph
  <2>2. f \in modules /\ f \in Files /\ modules = Needed
    BY <2>1, <1>2, WalkedAll DEF ChecksTyped, IInv
  <2>3. next \in 1 .. Len(imports[f]) /\ i \in Import
    <3>1. imports[f] \in Seq(Import)
      BY <2>2, <1>2 DEF ChecksTyped
    <3>2. Len(imports[f]) \in Nat
      BY <3>1, LenProperties
    <3>3. next \in 1 .. Len(imports[f])
      BY <3>2, <2>1, <1>2 DEF ChecksTyped
    <3> QED BY <3>1, <3>3, ElementOfSeq DEF TheImport
  <2>4. Needed' = Needed
    BY <2>1 DEF Needed, Closed
  <2>5. i.path \in Paths => Canonical(i.path) \in modules
    BY <2>1, <2>2, <2>3, <1>2 DEF Still, Resolved, IInv, DependenciesFirst, TheImport
  <2>6. i.path \in Paths \/ i.name = Whole
    BY <2>3 DEF Import
  <2>7. Why(i) # "internal error"
    BY <2>5, <2>6 DEF Why
  <2>8. ASSUME Why(i) = "not exported"
        PROVE  \E g \in Needed' : \E k \in 1 .. Len(imports'[g]) : ~ Exported(g, imports[g][k])'
    <3>1. i.path \in Paths /\ i.name # Whole /\ i.name \notin exports[Canonical(i.path)]
      BY <2>8, <2>6 DEF Why
    <3>2. ~ Exported(f, imports[f][next])
      BY <3>1 DEF Exported, TheImport
    <3>3. \E g \in Needed : \E k \in 1 .. Len(imports[g]) : ~ Exported(g, imports[g][k])
      BY <3>2, <2>2, <2>3
    <3> QED BY <3>3, <2>1, <2>4, <1>1 DEF Exported, Canonical
  <2>9. result' \notin {"cycle", "same name"}
    BY <2>1 DEF Why
  <2> QED BY <2>1, <2>7, <2>8, <2>9 DEF FailureHasReason
<1>7. CASE /\ phase # "done"
           /\ ~ (Cycle \/ CheckIds \/ CheckImport)
  <2>1. result' \notin {"cycle", "same name", "not exported", "internal error"}
    BY <1>7 DEF Next, Load, Validate, ResolveEntry, AlreadyLoaded, Unusable, Enter,
           ImportFile, ImportNothing, ImportExternal, ImportBadCrate, Record, Fail,
           PickModule, ModuleChecked, Succeed, Change, Done, vars, IInv
  <2> QED BY <2>1 DEF FailureHasReason
<1> QED BY <1>3, <1>4, <1>5, <1>6, <1>7

LEMMA StepStillInv == IInv /\ StillInv /\ [Next]_vars => StillInv'
<1> SUFFICES ASSUME IInv, StillInv, [Next]_vars PROVE StillInv'
  OBVIOUS
<1>1. changes' \in Nat
  <2>1. changes' = changes \/ changes' = changes + 1
    BY DEF Next, Load, Validate, ResolveEntry, AlreadyLoaded, Cycle, Unusable, Enter,
           ImportFile, ImportNothing, ImportExternal, ImportBadCrate, Record, CheckIds,
           PickModule, CheckImport, ModuleChecked, Succeed, Change, Done, vars, files
  <2> QED BY <2>1 DEF StillInv
<1>2. Chain' /\ ChecksTyped'
  BY ChainKeeps, ChecksStayTyped DEF StillInv
<1>3. changes' = 0 => Still'
  BY StillKeeps
<1>4. FailureHasReason'
  BY FailureKeeps
<1> QED BY <1>1, <1>2, <1>3, <1>4 DEF StillInv

LEMMA BothStand == Spec => [](IInv /\ StillInv)
<1>1. Init => IInv /\ StillInv
  BY InitIInv, InitStillInv
<1>2. (IInv /\ StillInv) /\ [Next]_vars => (IInv /\ StillInv)'
  BY StepIInv, StepStillInv
<1> QED BY <1>1, <1>2, PTL DEF Spec

\* When a link fails (detect_cycle of load, check_unique_ids, validate_imports)
\* and no file changed meanwhile, what it names is there: a cycle on the stack,
\* two needed files of one id, an import of a name that is not exported; and the
\* lookup that validate_imports takes for granted succeeds.
THEOREM FailureIsJustified == Spec => []FailureHasReason
<1>1. StillInv => FailureHasReason
  BY DEF StillInv
<1> QED BY <1>1, BothStand, PTL

\* When a link succeeds and no file changed meanwhile, each name that a module
\* imports is exported by a module of the program (validate_imports).
THEOREM ImportsAlwaysExist == Spec => []ImportsExist
<1>1. IInv /\ StillInv => ImportsExist
  <2> SUFFICES ASSUME IInv, StillInv, result = "ok", changes = 0,
                      NEW f \in modules, NEW k \in 1 .. Len(imports[f])
               PROVE  Exported(f, imports[f][k])
    BY DEF ImportsExist
  <2> DEFINE i == imports[f][k]
  <2>1. f \in Files /\ Resolved(f) /\ Passed(f, Len(imports[f])) /\ deps[f] \subseteq modules
    BY DEF IInv, DependenciesFirst, StillInv, ChecksTyped, Still
  <2>2. Why(i) = "none"
    BY <2>1 DEF Passed
  <2>3. i.path \in Paths => Canonical(i.path) \in modules
    BY <2>1 DEF Resolved
  <2>4. i.path \in Paths /\ i.name # Whole => i.name \in exports[Canonical(i.path)]
    BY <2>2, TargetAssumption DEF Why
  <2> QED BY <2>3, <2>4 DEF Exported
<1> QED BY <1>1, BothStand, PTL
=============================================================================
