-------------------------- MODULE InterfacesProofs --------------------------
(***************************************************************************)
(* Theorems about Interfaces for every finite set of interfaces, cycles of *)
(* `extends` included: what an interface inherits is a matter of the       *)
(* declarations alone.  The first part is about the graph and about        *)
(* Inherited, which is defined by recursion over it.                       *)
(***************************************************************************)
EXTENDS Interfaces, SequenceTheorems, FiniteSetTheorems, WellFoundedInduction, TLAPS

-----------------------------------------------------------------------------
(* The graph of `extends`.                                                 *)

\* The ancestors of an ancestor are ancestors.
LEMMA AncestorFacts ==
    ASSUME NEW n
    PROVE  /\ Ancestors(n) \subseteq DOMAIN raw
           /\ Bases(n) \subseteq Ancestors(n)
           /\ \A a \in Ancestors(n) : Bases(a) \subseteq Ancestors(n)
           /\ \A a \in Ancestors(n) : Ancestors(a) \subseteq Ancestors(n)
<1>1. \A b \in Bases(n) : b \in DOMAIN raw
  BY DEF Bases
<1>2. ASSUME NEW a \in Ancestors(n) PROVE Bases(a) \subseteq Ancestors(n)
  <2> SUFFICES ASSUME NEW b \in Bases(a), NEW S \in SUBSET DOMAIN raw,
                      Bases(n) \subseteq S, ClosedUp(S)
               PROVE  b \in S
    BY DEF Ancestors, Bases
  <2> QED BY DEF Ancestors, ClosedUp
<1>3. ASSUME NEW a \in Ancestors(n) PROVE Ancestors(a) \subseteq Ancestors(n)
  <2> SUFFICES ASSUME NEW b \in Ancestors(a), NEW S \in SUBSET DOMAIN raw,
                      Bases(n) \subseteq S, ClosedUp(S)
               PROVE  b \in S
    BY DEF Ancestors
  <2>1. a \in S
    BY DEF Ancestors
  <2>2. Bases(a) \subseteq S
    BY <2>1 DEF ClosedUp
  <2> QED BY <2>2 DEF Ancestors
<1> QED BY <1>1, <1>2, <1>3 DEF Ancestors

\* What is off every cycle has its bases off every cycle.
LEMMA OffCycleFacts ==
    ASSUME NEW n \in OffCycle
    PROVE  /\ n \in DOMAIN raw /\ n \notin Ancestors(n)
           /\ \A a \in Ancestors(n) : a \in OffCycle /\ a # n
           /\ Bases(n) \subseteq OffCycle
<1>1. n \in DOMAIN raw /\ \A a \in {n} \cup Ancestors(n) : a \notin Ancestors(a)
  BY DEF OffCycle
<1>2. ASSUME NEW a \in Ancestors(n) PROVE a \in OffCycle /\ a # n
  <2>1. a \in DOMAIN raw /\ Ancestors(a) \subseteq Ancestors(n)
    BY AncestorFacts
  <2>2. \A b \in {a} \cup Ancestors(a) : b \notin Ancestors(b)
    BY <1>1, <2>1
  <2> QED BY <1>1, <2>1, <2>2 DEF OffCycle
<1> QED BY <1>1, <1>2, AncestorFacts

\* A base has fewer ancestors.
LEMMA AncestorsDecrease ==
    ASSUME IsFiniteSet(DOMAIN raw), NEW n \in OffCycle, NEW b \in Bases(n)
    PROVE  /\ Cardinality(Ancestors(n)) \in Nat /\ Cardinality(Ancestors(b)) \in Nat
           /\ Cardinality(Ancestors(b)) < Cardinality(Ancestors(n))
           /\ Cardinality(Ancestors(n)) <= Cardinality(DOMAIN raw)
<1>1. /\ b \in Ancestors(n) /\ Ancestors(b) \subseteq Ancestors(n)
      /\ Ancestors(n) \subseteq DOMAIN raw
  BY AncestorFacts
<1>2. b \notin Ancestors(b)
  BY <1>1, OffCycleFacts DEF OffCycle
<1>3. IsFiniteSet(Ancestors(n)) /\ IsFiniteSet(Ancestors(b))
  BY <1>1, FS_Subset
<1>4. Ancestors(b) # Ancestors(n)
  BY <1>1, <1>2
<1> QED BY <1>1, <1>3, <1>4, FS_Subset, FS_CardinalityType

-----------------------------------------------------------------------------
(* Inherited is well defined.                                              *)

\* A set of numbers has a least one.
LEMMA LeastNumber ==
    ASSUME NEW U \in SUBSET Nat, U # {}
    PROVE  \E u \in U : \A v \in U : u <= v
<1> DEFINE R == OpToRel(<, Nat)
<1>1. /\ IsWellFoundedOn(R, Nat)
      /\ \A x, y \in Nat : y < x => <<y, x>> \in R
  BY NatLessThanWellFounded DEF OpToRel
<1> HIDE DEF R
<1>2. PICK u \in U : \A v \in U : ~ (<<v, u>> \in R)
  BY <1>1, WFMin
<1>3. \A v \in U : u <= v
  <2> TAKE v \in U
  <2>1. u \in Nat /\ v \in Nat /\ ~ (v < u)
    BY <1>1, <1>2
  <2> QED BY <2>1
<1> QED BY <1>3

\* Induction on the natural numbers, for a set of them.
LEMMA NumbersByInduction ==
    ASSUME NEW S, 0 \in S, \A m \in Nat : m \in S => m + 1 \in S
    PROVE  \A m \in Nat : m \in S
<1> DEFINE R == OpToRel(<, Nat)
<1>1. /\ IsWellFoundedOn(R, Nat)
      /\ \A x, y \in Nat : y < x => <<y, x>> \in R
  BY NatLessThanWellFounded DEF OpToRel
<1> HIDE DEF R
<1> SUFFICES ASSUME Nat \ S # {} PROVE FALSE
  OBVIOUS
<1>2. PICK m \in Nat \ S : \A k \in Nat \ S : ~ (<<k, m>> \in R)
  BY <1>1, WFMin
<1>3. m # 0 /\ m - 1 \in Nat /\ m - 1 < m
  BY <1>2
<1>4. m - 1 \in S
  BY <1>1, <1>2, <1>3
<1>5. (m - 1) + 1 \in S /\ (m - 1) + 1 = m
  BY <1>3, <1>4
<1> QED BY <1>2, <1>5

\* A set of positions has a last one.
LEMMA LatestFacts ==
    ASSUME NEW upto \in Nat, NEW T, T \subseteq 1 .. upto, T # {}
    PROVE  Latest(T) \in T /\ \A j \in T : j <= Latest(T)
<1> DEFINE R == OpToRel(<, Nat)
           U == {upto - x : x \in T}
<1>1. /\ U \subseteq Nat /\ U # {}
      /\ \A x \in T : x \in Nat /\ upto - x \in U /\ upto - x \in Nat
  <2>1. \A x \in T : x \in Nat /\ upto - x \in Nat
    OBVIOUS
  <2> QED BY <2>1
<1>2. /\ IsWellFoundedOn(R, Nat)
      /\ \A x, y \in Nat : y < x => <<y, x>> \in R
  BY NatLessThanWellFounded DEF OpToRel
<1> HIDE DEF R
<1>3. PICK u \in U : \A v \in U : ~ (<<v, u>> \in R)
  BY <1>1, <1>2, WFMin
<1>4. PICK x \in T : u = upto - x
  BY <1>3
<1>5. \A y \in T : y <= x
  <2> TAKE y \in T
  <2>1. ~ (upto - y < upto - x)
    BY <1>1, <1>2, <1>3, <1>4
  <2> QED BY <1>1, <2>1
<1> QED BY <1>5 DEF Latest

Combined(n, f) == Override(FromBases(n, Len(Extends(n)), f), raw[n].fields)

LEMMA ExtendsFacts ==
    ASSUME AreInterfaces(raw), NEW n \in DOMAIN raw
    PROVE  /\ Len(Extends(n)) \in Nat /\ DOMAIN Extends(n) = 1 .. Len(Extends(n))
           /\ \A i \in 1 .. Len(Extends(n)) : Extends(n)[i] \in DOMAIN raw => Extends(n)[i] \in Bases(n)
<1> DEFINE S == {raw[n].extends[i] : i \in DOMAIN raw[n].extends}
<1>1. raw[n].extends \in Seq(S)
  BY DEF AreInterfaces
<1> QED BY <1>1 DEF Extends, Bases

\* The fields of an interface depend on those of its bases only.
LEMMA FromBasesDepends ==
    ASSUME AreInterfaces(raw), NEW n \in DOMAIN raw, NEW f, NEW g, \A b \in Bases(n) : f[b] = g[b],
           NEW upto \in 0 .. Len(Extends(n))
    PROVE  FromBases(n, upto, f) = FromBases(n, upto, g)
<1> DEFINE E == Extends(n)
           I == {i \in 1 .. upto : E[i] \in DOMAIN raw}
<1>1. upto \in Nat /\ \A i \in I : f[E[i]] = g[E[i]]
  BY ExtendsFacts
<1>2. UNION {DOMAIN f[E[i]] : i \in I} = UNION {DOMAIN g[E[i]] : i \in I}
  BY <1>1
<1>3. ASSUME NEW key \in UNION {DOMAIN f[E[i]] : i \in I}
      PROVE  f[E[Latest(Giving(n, upto, key, f))]][key] = g[E[Latest(Giving(n, upto, key, g))]][key]
  <2>1. Giving(n, upto, key, f) = Giving(n, upto, key, g)
    BY <1>1 DEF Giving
  <2>2. Giving(n, upto, key, f) # {} /\ Giving(n, upto, key, f) \subseteq 1 .. upto
    BY <1>3 DEF Giving
  <2>3. Latest(Giving(n, upto, key, f)) \in Giving(n, upto, key, f)
    BY <1>1, <2>2, LatestFacts
  <2>4. Latest(Giving(n, upto, key, f)) \in I
    BY <2>3 DEF Giving
  <2> QED BY <1>1, <2>1, <2>4
<1> QED BY <1>2, <1>3 DEF FromBases

LEMMA CombinedDepends ==
    ASSUME AreInterfaces(raw), NEW n \in DOMAIN raw, NEW f, NEW g, \A b \in Bases(n) : f[b] = g[b]
    PROVE  Combined(n, f) = Combined(n, g)
<1>1. Len(Extends(n)) \in 0 .. Len(Extends(n))
  BY ExtendsFacts
<1> QED BY <1>1, FromBasesDepends DEF Combined

\* Fields of all interfaces with fewer than m ancestors, each from its bases.
Layer(m) == {n \in OffCycle : Cardinality(Ancestors(n)) < m}
Solves(f, m) == f = [n \in Layer(m) |-> Combined(n, f)]

LEMMA BasesAreLower ==
    ASSUME AreInterfaces(raw), NEW m \in Nat, NEW n \in Layer(m + 1)
    PROVE  n \in DOMAIN raw /\ Bases(n) \subseteq Layer(m)
<1>1. IsFiniteSet(DOMAIN raw)
  BY DEF AreInterfaces
<1>2. n \in OffCycle /\ n \in DOMAIN raw /\ Cardinality(Ancestors(n)) < m + 1
  BY OffCycleFacts DEF Layer
<1>3. ASSUME NEW b \in Bases(n) PROVE b \in Layer(m)
  BY <1>1, <1>2, AncestorsDecrease, OffCycleFacts DEF Layer
<1> QED BY <1>2, <1>3

LEMMA LayersCanBeSolved ==
    ASSUME AreInterfaces(raw), NEW m \in Nat
    PROVE  \E f : Solves(f, m)
<1> DEFINE S == {k \in Nat : \E f : Solves(f, k)}
<1>1. 0 \in S
  <2>1. Layer(0) = {}
    <3> SUFFICES ASSUME NEW n \in Layer(0) PROVE FALSE
      OBVIOUS
    <3>1. IsFiniteSet(Ancestors(n))
      BY AncestorFacts, FS_Subset DEF AreInterfaces
    <3>2. Cardinality(Ancestors(n)) \in Nat
      BY <3>1, FS_CardinalityType
    <3> QED BY <3>2 DEF Layer
  <2>2. \E f : f = [n \in {} |-> Combined(n, f)]
    <3>1. [n \in {} |-> 0] = [n \in {} |-> Combined(n, [p \in {} |-> 0])]
      OBVIOUS
    <3> QED BY <3>1
  <2> QED BY <2>1, <2>2 DEF Solves
<1>2. ASSUME NEW k \in Nat, k \in S PROVE k + 1 \in S
  <2>1. PICK f : Solves(f, k)
    BY <1>2
  <2> DEFINE g == [n \in Layer(k + 1) |-> Combined(n, f)]
  <2>2. \A n \in Layer(k) : n \in Layer(k + 1) /\ g[n] = f[n]
    <3> TAKE n \in Layer(k)
    <3>1. IsFiniteSet(Ancestors(n))
      BY AncestorFacts, FS_Subset DEF AreInterfaces
    <3>2. Cardinality(Ancestors(n)) \in Nat
      BY <3>1, FS_CardinalityType
    <3>3. n \in Layer(k + 1)
      BY <3>2 DEF Layer
    <3>4. f[n] = Combined(n, f)
      BY <2>1 DEF Solves
    <3> QED BY <3>3, <3>4
  <2>3. ASSUME NEW n \in Layer(k + 1) PROVE Combined(n, f) = Combined(n, g)
    <3>1. n \in DOMAIN raw /\ \A b \in Bases(n) : f[b] = g[b]
      BY <2>2, BasesAreLower
    <3> HIDE DEF g
    <3> QED BY <3>1, CombinedDepends
  <2>4. Solves(g, k + 1)
    BY <2>3 DEF Solves
  <2> QED BY <2>4
<1> HIDE DEF S
<1>3. \A k \in Nat : k \in S
  BY <1>1, <1>2, NumbersByInduction
<1> QED BY <1>3 DEF S

\* What the recursive definition defines.
LEMMA InheritedFacts ==
    ASSUME AreInterfaces(raw)
    PROVE  \A n \in OffCycle : Inherited[n] = Combined(n, Inherited)
<1> DEFINE m == Cardinality(DOMAIN raw) + 1
<1>1. IsFiniteSet(DOMAIN raw) /\ Cardinality(DOMAIN raw) \in Nat /\ m \in Nat
  BY FS_CardinalityType DEF AreInterfaces
<1>2. Layer(m) = OffCycle
  <2> SUFFICES ASSUME NEW n \in OffCycle PROVE Cardinality(Ancestors(n)) < m
    BY DEF Layer
  <2>1. Ancestors(n) \subseteq DOMAIN raw
    BY AncestorFacts
  <2>2. Cardinality(Ancestors(n)) <= Cardinality(DOMAIN raw) /\ Cardinality(Ancestors(n)) \in Nat
    BY <1>1, <2>1, FS_Subset, FS_CardinalityType
  <2> QED BY <1>1, <2>2, SMT
<1>3. \E f : f = [n \in OffCycle |-> Combined(n, f)]
  BY <1>1, <1>2, LayersCanBeSolved DEF Solves
<1>4. Inherited = CHOOSE f : f = [n \in OffCycle |-> Combined(n, f)]
  BY DEF Inherited, Combined
<1>5. Inherited = [n \in OffCycle |-> Combined(n, Inherited)]
  BY <1>3, <1>4
<1> QED BY <1>5

-----------------------------------------------------------------------------
(* One base.                                                               *)

\* The next base adds its fields, and a name of no interface adds nothing.
LEMMA FromBasesNext ==
    ASSUME AreInterfaces(raw), NEW n \in DOMAIN raw, NEW f,
           NEW upto \in Nat, upto + 1 <= Len(Extends(n))
    PROVE  LET base == Extends(n)[upto + 1]
           IN FromBases(n, upto + 1, f) =
                Override(FromBases(n, upto, f), IF base \in DOMAIN raw THEN f[base] ELSE NoFields)
<1> DEFINE E == Extends(n)
           base == E[upto + 1]
           I(u) == {i \in 1 .. u : E[i] \in DOMAIN raw}
           More == IF base \in DOMAIN raw THEN f[base] ELSE NoFields
           D(u) == UNION {DOMAIN f[E[i]] : i \in I(u)}
<1>1. I(upto + 1) = I(upto) \cup (IF base \in DOMAIN raw THEN {upto + 1} ELSE {})
  OBVIOUS
<1>2. D(upto + 1) = D(upto) \cup DOMAIN More
  <2>1. CASE base \in DOMAIN raw
    BY <1>1, <2>1
  <2>2. CASE base \notin DOMAIN raw
    BY <1>1, <2>2 DEF NoFields
  <2> QED BY <2>1, <2>2
<1>3. ASSUME NEW key \in D(upto + 1), key \in DOMAIN More
      PROVE  f[E[Latest(Giving(n, upto + 1, key, f))]][key] = More[key]
  <2>1. base \in DOMAIN raw /\ More = f[base]
    BY <1>3 DEF NoFields
  <2>2. upto + 1 \in Giving(n, upto + 1, key, f) /\ Giving(n, upto + 1, key, f) \subseteq 1 .. upto + 1
    BY <1>3, <2>1 DEF Giving
  <2>3. /\ Latest(Giving(n, upto + 1, key, f)) \in Giving(n, upto + 1, key, f)
        /\ upto + 1 <= Latest(Giving(n, upto + 1, key, f))
    BY <2>2, LatestFacts
  <2>4. Latest(Giving(n, upto + 1, key, f)) = upto + 1
    BY <2>2, <2>3
  <2> QED BY <2>1, <2>4
<1>4. ASSUME NEW key \in D(upto + 1), key \notin DOMAIN More
      PROVE  Giving(n, upto + 1, key, f) = Giving(n, upto, key, f)
  BY <1>4 DEF Giving
<1>5. FromBases(n, upto + 1, f) =
        [key \in D(upto + 1) |-> f[E[Latest(Giving(n, upto + 1, key, f))]][key]]
  BY DEF FromBases
<1>6. FromBases(n, upto, f) = [key \in D(upto) |-> f[E[Latest(Giving(n, upto, key, f))]][key]]
  BY DEF FromBases
<1>7. Override(FromBases(n, upto, f), More) =
        [key \in D(upto + 1) |-> IF key \in DOMAIN More THEN More[key]
                                 ELSE f[E[Latest(Giving(n, upto, key, f))]][key]]
  <2> HIDE DEF More, D
  <2> QED BY <1>2, <1>6 DEF Override
<1>8. ASSUME NEW key \in D(upto + 1)
      PROVE  f[E[Latest(Giving(n, upto + 1, key, f))]][key] =
               IF key \in DOMAIN More THEN More[key] ELSE f[E[Latest(Giving(n, upto, key, f))]][key]
  BY <1>3, <1>4
<1> HIDE DEF D, More, E
<1> QED BY <1>5, <1>7, <1>8 DEF More, E

LEMMA FromNoBases ==
    ASSUME NEW n, NEW f
    PROVE  FromBases(n, 0, f) = NoFields
  BY DEF FromBases, NoFields

LEMMA FieldFacts ==
    ASSUME AreInterfaces(raw)
    PROVE  /\ NoFields \in FieldMaps
           /\ \A n \in DOMAIN raw : raw[n].fields \in FieldMaps
           /\ \A f, g \in FieldMaps : Override(f, g) \in FieldMaps
<1>1. \A f : f \in FieldMaps <=> \E S \in SUBSET Keys : f \in [S -> FieldTypes]
  BY DEF FieldMaps
<1>2. NoFields \in [{} -> FieldTypes] /\ {} \in SUBSET Keys
  BY DEF NoFields
<1>3. ASSUME NEW n \in DOMAIN raw PROVE raw[n].fields \in FieldMaps
  <2> DEFINE f == raw[n].fields
  <2>1. f = [key \in DOMAIN f |-> f[key]]
    BY DEF AreInterfaces
  <2>2. DOMAIN f \in SUBSET Keys /\ \A key \in DOMAIN f : f[key] \in FieldTypes
    BY DEF Keys, FieldTypes
  <2> HIDE DEF f
  <2>3. f \in [DOMAIN f -> FieldTypes]
    BY <2>1, <2>2
  <2> QED BY <1>1, <2>2, <2>3 DEF f
<1>4. ASSUME NEW f \in FieldMaps, NEW g \in FieldMaps PROVE Override(f, g) \in FieldMaps
  <2>1. PICK S \in SUBSET Keys : f \in [S -> FieldTypes]
    BY <1>1
  <2>2. PICK T \in SUBSET Keys : g \in [T -> FieldTypes]
    BY <1>1
  <2>3. Override(f, g) \in [S \cup T -> FieldTypes] /\ S \cup T \in SUBSET Keys
    BY <2>1, <2>2 DEF Override
  <2> QED BY <1>1, <2>3
<1> QED BY <1>1, <1>2, <1>3, <1>4

LEMMA PendingFacts ==
    ASSUME InterfacesTypeOK, pending # <<>>
    PROVE  /\ Len(pending) \in Nat \ {0} /\ DOMAIN pending = 1 .. Len(pending)
           /\ \A i \in DOMAIN pending : pending[i] \in PendingCalls
           /\ Top \in PendingCalls /\ Len(pending) \in DOMAIN pending
           /\ Len(Extends(Top.name)) \in Nat
           /\ Top.at <= Len(Extends(Top.name)) /\ Base \in DOMAIN raw => Base \in Bases(Top.name)
<1>1. /\ Len(pending) \in Nat \ {0} /\ DOMAIN pending = 1 .. Len(pending)
      /\ \A i \in DOMAIN pending : pending[i] \in PendingCalls
  BY DEF InterfacesTypeOK
<1>2. Top \in PendingCalls /\ Len(pending) \in DOMAIN pending
  BY <1>1 DEF Top
<1>3. Top.name \in DOMAIN raw /\ Top.at \in Nat \ {0}
  BY <1>2 DEF PendingCalls
<1> QED BY <1>1, <1>2, <1>3, ExtendsFacts DEF InterfacesTypeOK, Base

\* The fields of a finished interface.
MergedRight(n) ==
    /\ \A key \in DOMAIN raw[n].fields :
         key \in DOMAIN merged[n] /\ merged[n][key] = raw[n].fields[key]
    /\ \A key \in DOMAIN merged[n] :
         \E a \in {n} \cup Ancestors(n) :
           key \in DOMAIN raw[a].fields /\ merged[n][key] = raw[a].fields[key]
    /\ n \in OffCycle => merged[n] = Inherited[n]

\* A name that the walk comes back to is on a cycle.
LEMMA ComesBackOnCycles ==
    ASSUME InterfacesTypeOK, CallsAscend, pending # <<>>, Top.name \in OffCycle,
           Top.at <= Len(Extends(Top.name)), Base \in DOMAIN raw
    PROVE  Base \in OffCycle /\ Base \notin Visiting
<1>1. Base \in Bases(Top.name) /\ Base \in OffCycle
  BY PendingFacts, OffCycleFacts
<1>2. ASSUME NEW i \in DOMAIN pending, pending[i].name = Base PROVE FALSE
  <2>1. Top.name = Base \/ Top.name \in Ancestors(Base)
    BY <1>2, PendingFacts DEF CallsAscend, Top
  <2>2. Base \in Ancestors(Base)
    BY <1>1, <2>1, AncestorFacts
  <2> QED BY <1>1, <2>2, OffCycleFacts
<1> QED BY <1>1, <1>2 DEF Visiting

-----------------------------------------------------------------------------
(* The steps.                                                              *)

LEMMA SameGraph ==
    ASSUME raw' = raw
    PROVE  /\ \A n : Ancestors(n)' = Ancestors(n)
           /\ \A n : Extends(n)' = Extends(n)
           /\ OffCycle' = OffCycle
           /\ \A n, upto : FromBases(n, upto, Inherited)' = FromBases(n, upto, Inherited)
           /\ Inherited' = Inherited
           /\ FieldMaps' = FieldMaps /\ PendingCalls' = PendingCalls
<1>1. \A n : Extends(n)' = Extends(n) /\ Bases(n)' = Bases(n)
  BY DEF Bases, Extends
<1>2. \A n : Ancestors(n)' = Ancestors(n)
  BY <1>1 DEF Ancestors, ClosedUp
<1>3. OffCycle' = OffCycle
  BY <1>2 DEF OffCycle
<1>4. Inherited' = Inherited
  BY DEF Inherited, OffCycle, Ancestors, ClosedUp, Bases, Extends, FromBases, Latest, Giving, Override
<1>5. \A n, upto : FromBases(n, upto, Inherited)' = FromBases(n, upto, Inherited)
  <2> TAKE n, upto
  <2>1. Extends(n)' = Extends(n)
    BY <1>1
  <2> QED BY <2>1, <1>4 DEF FromBases, Latest, Giving
<1>6. FieldMaps' = FieldMaps
  BY DEF FieldMaps, FieldTypes, Keys
<1>7. PendingCalls' = PendingCalls
  BY <1>6 DEF PendingCalls
<1> QED BY <1>1, <1>2, <1>3, <1>4, <1>5, <1>6, <1>7

\* A new call has passed no base.
LEMMA AscendPreserves ==
    ASSUME InterfacesIInv, NEW n \in DOMAIN raw, Ascend(n),
           n \notin DOMAIN merged \cup Visiting,
           \A i \in DOMAIN pending : n \in Ancestors(pending[i].name)
    PROVE  InterfacesIInv'
<1> DEFINE call == [name |-> n, at |-> 1, fields |-> NoFields]
           m == Len(pending)
<1>1. /\ raw' = raw /\ merged' = merged /\ pending' = Append(pending, call)
      /\ pending \in Seq(PendingCalls) /\ AreInterfaces(raw)
  BY DEF Ascend, InterfacesIInv, InterfacesTypeOK
<1>2. call \in PendingCalls
  BY <1>1, FieldFacts DEF PendingCalls
<1>3. /\ m \in Nat /\ DOMAIN pending = 1 .. m /\ DOMAIN pending' = 1 .. m + 1
      /\ \A i \in 1 .. m : pending'[i] = pending[i]
      /\ pending'[m + 1] = call
      /\ pending' \in Seq(PendingCalls)
  BY <1>1, <1>2
<1> HIDE DEF call
<1>4. InterfacesTypeOK'
  BY <1>1, <1>3, SameGraph DEF InterfacesIInv, InterfacesTypeOK
<1>5. call.name = n /\ call.at = 1 /\ call.fields = NoFields
  BY DEF call
<1>6. CallsAscend'
  <2> SUFFICES ASSUME NEW i \in 1 .. m + 1, NEW j \in 1 .. m + 1, i < j
               PROVE  pending'[j].name \in Ancestors(pending'[i].name)
    BY <1>1, <1>3, SameGraph DEF CallsAscend
  <2>1. CASE j = m + 1
    <3>1. i \in 1 .. m
      BY <1>3, <2>1
    <3> QED BY <1>3, <1>5, <2>1, <3>1
  <2>2. CASE j # m + 1
    <3>1. i \in 1 .. m /\ j \in 1 .. m
      BY <1>3, <2>2
    <3> QED BY <1>3, <3>1 DEF InterfacesIInv, CallsAscend
  <2> QED BY <2>1, <2>2
<1>7. FromAncestors'
  <2> SUFFICES ASSUME NEW i \in 1 .. m + 1, NEW key \in DOMAIN pending'[i].fields
               PROVE  \E a \in Ancestors(pending'[i].name) :
                        key \in DOMAIN raw[a].fields /\ pending'[i].fields[key] = raw[a].fields[key]
    BY <1>1, <1>3, SameGraph DEF FromAncestors
  <2>1. i \in 1 .. m
    BY <1>3, <1>5 DEF NoFields
  <2> QED BY <1>3, <2>1 DEF InterfacesIInv, FromAncestors
<1>8. PassedBases'
  <2> SUFFICES ASSUME NEW i \in 1 .. m + 1
               PROVE  /\ pending'[i].at <= Len(Extends(pending'[i].name)) + 1
                      /\ pending'[i].name \in OffCycle =>
                           pending'[i].fields =
                             FromBases(pending'[i].name, pending'[i].at - 1, Inherited)
    BY <1>1, <1>3, SameGraph DEF PassedBases
  <2>1. CASE i = m + 1
    <3>1. Len(Extends(n)) \in Nat
      BY <1>1, ExtendsFacts
    <3> QED BY <1>3, <1>5, <2>1, <3>1, FromNoBases
  <2>2. CASE i \in 1 .. m
    BY <1>3, <2>2 DEF InterfacesIInv, PassedBases
  <2> QED BY <1>3, <2>1, <2>2
<1>9. InterfacesInherit'
  BY <1>1, SameGraph DEF InterfacesIInv, InterfacesInherit
<1>10. PendingApart'
  <2>1. ASSUME NEW i \in 1 .. m + 1 PROVE pending'[i].name = IF i = m + 1 THEN n ELSE pending[i].name
    BY <1>3, <1>5
  <2>2. \A i \in 1 .. m + 1 : i = m + 1 \/ i \in 1 .. m
    BY <1>3
  <2>3. Visiting' \subseteq Visiting \cup {n}
    BY <1>3, <2>1, <2>2 DEF Visiting
  <2>4. \A i \in 1 .. m : pending[i].name # n
    BY <1>3 DEF Visiting
  <2>5. \A i, j \in 1 .. m : i # j => pending[i].name # pending[j].name
    BY <1>3 DEF InterfacesIInv, PendingApart
  <2>6. \A i, j \in 1 .. m + 1 : i # j => pending'[i].name # pending'[j].name
    BY <2>1, <2>2, <2>4, <2>5
  <2> QED BY <1>1, <1>3, <2>3, <2>6 DEF InterfacesIInv, PendingApart
<1> QED BY <1>4, <1>6, <1>7, <1>8, <1>9, <1>10 DEF InterfacesIInv

\* What a base adds to the fields of a call.
LEMMA AnswerFacts ==
    ASSUME InterfacesIInv, TakeBase
    PROVE  /\ Answer(Base) \in FieldMaps
           /\ \A key \in DOMAIN Answer(Base) :
                \E a \in Ancestors(Top.name) :
                  key \in DOMAIN raw[a].fields /\ Answer(Base)[key] = raw[a].fields[key]
           /\ Top.name \in OffCycle =>
                Answer(Base) = IF Base \in DOMAIN raw THEN Inherited[Base] ELSE NoFields
<1>1. /\ InterfacesTypeOK /\ CallsAscend /\ InterfacesInherit /\ AreInterfaces(raw)
      /\ pending # <<>> /\ Top.at <= Len(Extends(Top.name))
      /\ Base \notin DOMAIN raw \ (DOMAIN merged \cup Visiting)
  BY DEF InterfacesIInv, InterfacesTypeOK, TakeBase
<1>2. DOMAIN merged \subseteq DOMAIN raw /\ \A n \in DOMAIN merged : merged[n] \in FieldMaps
  BY <1>1 DEF InterfacesTypeOK
<1>3. CASE Base \in DOMAIN merged
  <2>1. Base \in DOMAIN raw /\ Answer(Base) = merged[Base]
    BY <1>2, <1>3 DEF Answer
  <2>2. Base \in Bases(Top.name)
    BY <1>1, <2>1, PendingFacts
  <2>3. Base \in Ancestors(Top.name) /\ Ancestors(Base) \subseteq Ancestors(Top.name)
    BY <2>2, AncestorFacts
  <2>4. MergedRight(Base)
    BY <1>1, <1>3 DEF InterfacesInherit, MergedRight
  <2>5. Top.name \in OffCycle => Base \in OffCycle
    BY <2>2, OffCycleFacts
  <2> QED BY <1>2, <1>3, <2>1, <2>3, <2>4, <2>5 DEF MergedRight
<1>4. CASE Base \notin DOMAIN merged /\ Base \in DOMAIN raw
  <2>1. Base \in Visiting /\ Answer(Base) = raw[Base].fields
    BY <1>1, <1>4 DEF Answer
  <2>2. Top.name \notin OffCycle
    BY <1>1, <1>4, <2>1, ComesBackOnCycles
  <2>3. Base \in Ancestors(Top.name)
    BY <1>1, <1>4, PendingFacts, AncestorFacts
  <2> QED BY <1>1, <1>4, <2>1, <2>2, <2>3, FieldFacts
<1>5. CASE Base \notin DOMAIN raw
  <2>1. Answer(Base) = NoFields
    BY <1>2, <1>5 DEF Answer
  <2> QED BY <1>1, <1>5, <2>1, FieldFacts DEF NoFields
<1> QED BY <1>3, <1>4, <1>5

LEMMA TakeBasePreserves ==
    ASSUME InterfacesIInv, TakeBase
    PROVE  InterfacesIInv'
<1> DEFINE m == Len(pending)
           more == Answer(Base)
           call == [name |-> Top.name, at |-> Top.at + 1, fields |-> Override(Top.fields, more)]
<1>1. /\ raw' = raw /\ merged' = merged /\ pending' = [pending EXCEPT ![m] = call]
      /\ InterfacesTypeOK /\ AreInterfaces(raw) /\ pending # <<>>
      /\ Top.at <= Len(Extends(Top.name)) /\ pending \in Seq(PendingCalls)
  BY DEF TakeBase, InterfacesIInv, InterfacesTypeOK, Top
<1>2. /\ m \in Nat \ {0} /\ DOMAIN pending = 1 .. m /\ m \in DOMAIN pending
      /\ Top \in PendingCalls /\ Top = pending[m]
      /\ Len(Extends(Top.name)) \in Nat
  BY <1>1, PendingFacts DEF Top
<1>3. Top.name \in DOMAIN raw /\ Top.at \in Nat \ {0} /\ Top.fields \in FieldMaps
  BY <1>2 DEF PendingCalls
<1>4. call \in PendingCalls
  BY <1>1, <1>3, AnswerFacts, FieldFacts DEF PendingCalls
<1>5. call.name = Top.name /\ call.at = Top.at + 1 /\ call.fields = Override(Top.fields, more)
  OBVIOUS
<1> HIDE DEF call, more
<1>6. /\ DOMAIN pending' = 1 .. m /\ pending'[m] = call
      /\ \A i \in 1 .. m : i # m => pending'[i] = pending[i]
      /\ pending' \in Seq(PendingCalls)
  BY <1>1, <1>2, <1>4
<1> HIDE DEF m
<1>same. raw' = raw /\ DOMAIN pending' = 1 .. m
  BY <1>1, <1>6
<1>7. InterfacesTypeOK'
  BY <1>1, <1>6, SameGraph DEF InterfacesTypeOK
<1>8. \A i \in 1 .. m : pending'[i].name = pending[i].name
  BY <1>2, <1>5, <1>6
<1>9. CallsAscend'
  <2> SUFFICES ASSUME NEW i \in 1 .. m, NEW j \in 1 .. m, i < j
               PROVE  pending'[j].name \in Ancestors(pending'[i].name)
    BY <1>same, SameGraph DEF CallsAscend
  <2>1. pending[j].name \in Ancestors(pending[i].name)
    BY <1>2 DEF InterfacesIInv, CallsAscend
  <2> QED BY <1>8, <2>1
<1>10. FromAncestors'
  <2> SUFFICES ASSUME NEW i \in 1 .. m, NEW key \in DOMAIN pending'[i].fields
               PROVE  \E a \in Ancestors(pending'[i].name) :
                        key \in DOMAIN raw[a].fields /\ pending'[i].fields[key] = raw[a].fields[key]
    BY <1>same, SameGraph DEF FromAncestors
  <2>1. CASE i # m
    <3>1. pending'[i] = pending[i] /\ i \in DOMAIN pending
      BY <1>2, <1>6, <2>1
    <3> QED BY <3>1 DEF InterfacesIInv, FromAncestors
  <2>2. CASE i = m
    <3> pending'[i].name = Top.name
      BY <1>5, <1>6, <2>2
    <3>1. key \in DOMAIN Top.fields \cup DOMAIN more
          /\ pending'[i].fields[key] = IF key \in DOMAIN more THEN more[key] ELSE Top.fields[key]
      BY <1>5, <1>6, <2>2 DEF Override
    <3>2. CASE key \in DOMAIN more
      BY <1>2, <2>2, <3>1, <3>2, AnswerFacts DEF more
    <3>3. CASE key \notin DOMAIN more
      BY <1>2, <2>2, <3>1, <3>3 DEF InterfacesIInv, FromAncestors
    <3> QED BY <3>2, <3>3
  <2> QED BY <2>1, <2>2
<1>11. PassedBases'
  <2> SUFFICES ASSUME NEW i \in 1 .. m
               PROVE  /\ pending'[i].at <= Len(Extends(pending'[i].name)) + 1
                      /\ pending'[i].name \in OffCycle =>
                           pending'[i].fields =
                             FromBases(pending'[i].name, pending'[i].at - 1, Inherited)
    BY <1>same, SameGraph DEF PassedBases
  <2>1. CASE i # m
    <3>1. pending'[i] = pending[i] /\ i \in DOMAIN pending
      BY <1>2, <1>6, <2>1
    <3> QED BY <3>1 DEF InterfacesIInv, PassedBases
  <2>2. CASE i = m
    <3> pending'[i].name = Top.name /\ pending'[i].at = Top.at + 1
      BY <1>5, <1>6, <2>2
    <3>1. pending'[i].at <= Len(Extends(Top.name)) + 1
      <4>1. Top.at \in Nat /\ Len(Extends(Top.name)) \in Nat /\ Top.at <= Len(Extends(Top.name))
        BY <1>1, <1>2, <1>3
      <4> QED BY <4>1
    <3>2. ASSUME Top.name \in OffCycle
          PROVE  pending'[i].fields = FromBases(Top.name, pending'[i].at - 1, Inherited)
      <4>1. Top.fields = FromBases(Top.name, Top.at - 1, Inherited)
        BY <1>2, <3>2 DEF InterfacesIInv, PassedBases
      <4>2. more = IF Base \in DOMAIN raw THEN Inherited[Base] ELSE NoFields
        BY <3>2, AnswerFacts DEF more
      <4>3. Top.at - 1 \in Nat /\ (Top.at - 1) + 1 = Top.at /\ pending'[i].at - 1 = Top.at
        BY <1>3, <1>5, <1>6, <2>2
      <4>4. FromBases(Top.name, Top.at, Inherited) = Override(Top.fields, more)
        BY <1>1, <1>3, <4>1, <4>2, <4>3, FromBasesNext DEF Base
      <4> QED BY <1>5, <1>6, <2>2, <4>3, <4>4
    <3> QED BY <3>1, <3>2
  <2> QED BY <2>1, <2>2
<1>12. InterfacesInherit'
  BY <1>1, SameGraph DEF InterfacesIInv, InterfacesInherit
<1>13. PendingApart'
  <2>1. Visiting' = Visiting
    BY <1>2, <1>6, <1>8 DEF Visiting
  <2> QED BY <1>1, <1>2, <1>6, <1>8, <2>1 DEF InterfacesIInv, PendingApart
<1> QED BY <1>7, <1>9, <1>10, <1>11, <1>12, <1>13 DEF InterfacesIInv

LEMMA FinishPreserves ==
    ASSUME InterfacesIInv, Finish
    PROVE  InterfacesIInv'
<1> DEFINE m == Len(pending)
           result == Override(Top.fields, raw[Top.name].fields)
<1>1. /\ raw' = raw /\ pending' = SubSeq(pending, 1, m - 1)
      /\ merged' = [n \in DOMAIN merged \cup {Top.name} |->
                      IF n = Top.name THEN Override(Top.fields, raw[n].fields) ELSE merged[n]]
      /\ InterfacesTypeOK /\ AreInterfaces(raw) /\ pending # <<>>
      /\ Top.at > Len(Extends(Top.name)) /\ pending \in Seq(PendingCalls)
  BY DEF Finish, InterfacesIInv, InterfacesTypeOK
<1>2. /\ m \in Nat \ {0} /\ DOMAIN pending = 1 .. m /\ m \in DOMAIN pending
      /\ Top \in PendingCalls /\ Top = pending[m]
      /\ Len(Extends(Top.name)) \in Nat
  BY <1>1, PendingFacts DEF Top
<1>3. Top.name \in DOMAIN raw /\ Top.at \in Nat \ {0} /\ Top.fields \in FieldMaps
  BY <1>2 DEF PendingCalls
<1>4. /\ DOMAIN pending' = 1 .. m - 1
      /\ \A i \in 1 .. m - 1 : pending'[i] = pending[i] /\ i \in 1 .. m
      /\ pending' \in Seq(PendingCalls)
  BY <1>1, <1>2
<1>5. result \in FieldMaps
  BY <1>1, <1>3, FieldFacts
<1>6. InterfacesTypeOK'
  <2>1. PICK S \in SUBSET DOMAIN raw : merged \in [S -> FieldMaps]
    BY <1>1 DEF InterfacesTypeOK
  <2>2. merged' \in [S \cup {Top.name} -> FieldMaps] /\ S \cup {Top.name} \in SUBSET DOMAIN raw
    BY <1>1, <1>3, <1>5, <2>1
  <2>3. merged' \in UNION {[T -> FieldMaps] : T \in SUBSET DOMAIN raw}
    BY <2>2
  <2> QED BY <1>1, <1>4, <2>3, SameGraph DEF InterfacesTypeOK
<1>7. CallsAscend'
  BY <1>1, <1>2, <1>4, SameGraph DEF InterfacesIInv, CallsAscend
<1>8. FromAncestors'
  BY <1>1, <1>2, <1>4, SameGraph DEF InterfacesIInv, FromAncestors
<1>9. PassedBases'
  BY <1>1, <1>2, <1>4, SameGraph DEF InterfacesIInv, PassedBases
<1>10. ASSUME NEW n \in DOMAIN merged'
       PROVE  /\ \A key \in DOMAIN raw[n].fields :
                   key \in DOMAIN merged'[n] /\ merged'[n][key] = raw[n].fields[key]
              /\ \A key \in DOMAIN merged'[n] :
                   \E a \in {n} \cup Ancestors(n) :
                     key \in DOMAIN raw[a].fields /\ merged'[n][key] = raw[a].fields[key]
              /\ n \in OffCycle => merged'[n] = Inherited[n]
  <2>1. CASE n # Top.name
    <3>1. n \in DOMAIN merged /\ merged'[n] = merged[n]
      BY <1>1, <1>10, <2>1
    <3> QED BY <3>1 DEF InterfacesIInv, InterfacesInherit
  <2>2. CASE n = Top.name
    <3>1. merged'[n] = result
      BY <1>1, <2>2
    <3>2. /\ DOMAIN result = DOMAIN Top.fields \cup DOMAIN raw[n].fields
          /\ \A key \in DOMAIN result :
               result[key] = IF key \in DOMAIN raw[n].fields THEN raw[n].fields[key] ELSE Top.fields[key]
      BY <2>2 DEF Override
    <3>3. \A key \in DOMAIN Top.fields :
            \E a \in Ancestors(n) :
              key \in DOMAIN raw[a].fields /\ Top.fields[key] = raw[a].fields[key]
      BY <1>2, <2>2 DEF InterfacesIInv, FromAncestors
    <3>4. ASSUME n \in OffCycle PROVE result = Inherited[n]
      <4>1. /\ Top.at - 1 = Len(Extends(n))
            /\ Top.fields = FromBases(n, Top.at - 1, Inherited)
        BY <1>1, <1>2, <1>3, <2>2, <3>4 DEF InterfacesIInv, PassedBases
      <4> QED BY <1>1, <2>2, <3>4, <4>1, InheritedFacts DEF Combined
    <3> HIDE DEF result
    <3> QED BY <3>1, <3>2, <3>3, <3>4
  <2> QED BY <2>1, <2>2
<1>11. InterfacesInherit'
  <2> SUFFICES ASSUME NEW n \in DOMAIN merged' PROVE MergedRight(n)'
    BY DEF InterfacesInherit, MergedRight
  <2>1. Ancestors(n)' = Ancestors(n) /\ OffCycle' = OffCycle /\ Inherited' = Inherited
    BY <1>1, SameGraph
  <2>2. raw' = raw
    BY <1>1
  <2> QED BY <1>10, <2>1, <2>2 DEF MergedRight
<1>12. PendingApart'
  <2>1. \A i, j \in 1 .. m : i # j => pending[i].name # pending[j].name
    BY <1>2 DEF InterfacesIInv, PendingApart
  <2>2. ASSUME NEW i \in 1 .. m - 1
        PROVE  pending'[i].name = pending[i].name /\ pending[i].name # Top.name /\ i \in 1 .. m
    BY <1>2, <1>4, <2>1
  <2>3. Visiting' \subseteq Visiting \ {Top.name}
    BY <1>2, <1>4, <2>2 DEF Visiting
  <2>4. \A i, j \in 1 .. m - 1 : i # j => pending'[i].name # pending'[j].name
    BY <2>1, <2>2
  <2>5. DOMAIN merged' = DOMAIN merged \cup {Top.name}
    BY <1>1
  <2> QED BY <1>4, <2>3, <2>4, <2>5 DEF InterfacesIInv, PendingApart
<1> QED BY <1>6, <1>7, <1>8, <1>9, <1>11, <1>12 DEF InterfacesIInv

-----------------------------------------------------------------------------
(* Theorems.                                                               *)

\* Whatever interfaces a program declares and in whatever order they are
\* merged, a call that is pending has the fields of the bases it has passed
\* and the calls go up the graph of `extends`.
THEOREM InterfacesInvariant == InterfacesSpec => []InterfacesIInv
<1>1. InterfacesInit => InterfacesIInv
  <2> SUFFICES ASSUME InterfacesInit PROVE InterfacesIInv
    OBVIOUS
  <2>1. InterfacesTypeOK
    <3>1. merged \in [{} -> FieldMaps] /\ {} \in SUBSET DOMAIN raw
      BY DEF InterfacesInit
    <3>2. merged \in UNION {[S -> FieldMaps] : S \in SUBSET DOMAIN raw}
      BY <3>1
    <3> QED BY <3>2, SourcesAssumption DEF InterfacesInit, InterfacesTypeOK
  <2> QED BY <2>1 DEF InterfacesInit, InterfacesIInv, CallsAscend, FromAncestors, PassedBases,
                      PendingApart, Visiting, InterfacesInherit
<1>2. InterfacesIInv /\ [InterfacesNext]_interfaceVars => InterfacesIInv'
  <2> SUFFICES ASSUME InterfacesIInv, [InterfacesNext]_interfaceVars PROVE InterfacesIInv'
    OBVIOUS
  <2>1. CASE MergeInterface
    BY <2>1, AscendPreserves DEF MergeInterface, Visiting
  <2>2. CASE EnterBase
    <3>1. /\ InterfacesTypeOK /\ CallsAscend /\ pending # <<>> /\ Base \in DOMAIN raw
          /\ Base \notin DOMAIN merged \cup Visiting
          /\ Top.at <= Len(Extends(Top.name)) /\ Ascend(Base)
      BY <2>2 DEF EnterBase, InterfacesIInv
    <3>2. Base \in Bases(Top.name)
      BY <3>1, PendingFacts
    <3>3. ASSUME NEW i \in DOMAIN pending PROVE Base \in Ancestors(pending[i].name)
      <4>1. Top.name = pending[i].name \/ Top.name \in Ancestors(pending[i].name)
        BY <3>1, PendingFacts DEF CallsAscend, Top
      <4> QED BY <3>2, <4>1, AncestorFacts
    <3> QED BY <3>1, <3>3, AscendPreserves
  <2>3. CASE TakeBase
    BY <2>3, TakeBasePreserves
  <2>4. CASE Finish
    BY <2>4, FinishPreserves
  <2>5. CASE UNCHANGED interfaceVars
    BY <2>5, SameGraph DEF interfaceVars, InterfacesIInv, InterfacesTypeOK, CallsAscend, FromAncestors,
                           PassedBases, PendingApart, Visiting, InterfacesInherit
  <2> QED BY <2>1, <2>2, <2>3, <2>4, <2>5 DEF InterfacesNext
<1> QED BY <1>1, <1>2, PTL DEF InterfacesSpec

\* Merged interfaces have their own fields and their ancestors', and off every
\* cycle exactly those that the declarations give them: neither the order of
\* the hash map nor what the memo holds at the time can be told from them.
THEOREM FieldsAreInherited == InterfacesSpec => []InterfacesInherit
<1>1. InterfacesIInv => InterfacesInherit
  BY DEF InterfacesIInv
<1> QED BY <1>1, InterfacesInvariant, PTL

-----------------------------------------------------------------------------
(* The end of the walk.                                                    *)

\* What is not visited is less by an interface that is now.
LEMMA OneLess ==
    ASSUME NEW S, IsFiniteSet(S), NEW T, NEW U, NEW n \in S, n \notin T, n \in U, T \subseteq U
    PROVE  Cardinality(S \ U) < Cardinality(S \ T)
<1>1. S \ U \subseteq S \ T /\ S \ U # S \ T /\ S \ T \subseteq S
  OBVIOUS
<1>2. IsFiniteSet(S \ T)
  BY <1>1, FS_Subset
<1> QED BY <1>1, <1>2, FS_Subset, FS_CardinalityType

LEMMA AscendDescends ==
    ASSUME InterfacesIInv, NEW n \in DOMAIN raw, Ascend(n), n \notin Visiting
    PROVE  RanksLower(WalkRank', WalkRank)
<1> DEFINE call == [name |-> n, at |-> 1, fields |-> NoFields]
           m == Len(pending)
<1>1. /\ raw' = raw /\ merged' = merged /\ pending' = Append(pending, call)
      /\ pending \in Seq(PendingCalls) /\ AreInterfaces(raw)
  BY DEF Ascend, InterfacesIInv, InterfacesTypeOK
<1>2. call \in PendingCalls /\ call.name = n
  BY <1>1, FieldFacts DEF PendingCalls
<1> HIDE DEF call
<1>3. /\ m \in Nat /\ DOMAIN pending = 1 .. m /\ DOMAIN pending' = 1 .. m + 1
      /\ \A i \in 1 .. m : pending'[i] = pending[i] /\ i \in 1 .. m + 1
      /\ pending'[m + 1] = call /\ m + 1 \in 1 .. m + 1
  BY <1>1, <1>2
<1>4. n \in Visiting' /\ Visiting \subseteq Visiting'
  BY <1>2, <1>3 DEF Visiting
<1>5. Cardinality(DOMAIN raw \ Visiting)' < Cardinality(DOMAIN raw \ Visiting)
  BY <1>1, <1>4, OneLess DEF AreInterfaces
<1> QED BY <1>1, <1>5 DEF RanksLower, WalkRank

LEMMA TakeBaseDescends ==
    ASSUME InterfacesIInv, TakeBase
    PROVE  RanksLower(WalkRank', WalkRank)
<1> DEFINE m == Len(pending)
           call == [name |-> Top.name, at |-> Top.at + 1, fields |-> Override(Top.fields, Answer(Base))]
<1>1. /\ raw' = raw /\ merged' = merged /\ pending' = [pending EXCEPT ![m] = call]
      /\ InterfacesTypeOK /\ pending # <<>> /\ pending \in Seq(PendingCalls)
  BY DEF TakeBase, InterfacesIInv, InterfacesTypeOK, Top
<1>2. /\ m \in Nat \ {0} /\ DOMAIN pending = 1 .. m /\ m \in DOMAIN pending
      /\ Top \in PendingCalls /\ Top = pending[m] /\ Len(Extends(Top.name)) \in Nat
  BY <1>1, PendingFacts DEF Top
<1>3. Top.at \in Nat /\ Top.name \in DOMAIN raw /\ Top.fields \in FieldMaps
  BY <1>2 DEF PendingCalls
<1>4. call.name = Top.name /\ call.at = Top.at + 1 /\ call \in PendingCalls
  BY <1>1, <1>3, AnswerFacts, FieldFacts DEF PendingCalls, InterfacesTypeOK
<1> HIDE DEF call
<1>5. /\ DOMAIN pending' = 1 .. m /\ Len(pending') = m /\ pending'[m] = call
      /\ \A i \in 1 .. m : i # m => pending'[i] = pending[i]
  BY <1>1, <1>2, <1>4
<1>6. \A i \in 1 .. m : pending'[i].name = pending[i].name
  BY <1>2, <1>4, <1>5
<1>7. Visiting' = Visiting
  BY <1>2, <1>5, <1>6 DEF Visiting
<1>8. Top' = call /\ pending' # <<>>
  BY <1>2, <1>5 DEF Top
<1>9. Len(Extends(Top.name))' = Len(Extends(Top.name))
  BY <1>1, <1>4, <1>8 DEF Extends
<1>10. WalkRank'.bases < WalkRank.bases
  BY <1>1, <1>2, <1>3, <1>4, <1>8, <1>9 DEF WalkRank
<1>11. WalkRank'.unmerged = WalkRank.unmerged /\ WalkRank'.unvisited = WalkRank.unvisited
  BY <1>1, <1>7 DEF WalkRank
<1> QED BY <1>10, <1>11 DEF RanksLower

LEMMA FinishDescends ==
    ASSUME InterfacesIInv, Finish
    PROVE  RanksLower(WalkRank', WalkRank)
<1>1. /\ raw' = raw /\ DOMAIN merged' = DOMAIN merged \cup {Top.name}
      /\ InterfacesTypeOK /\ pending # <<>> /\ IsFiniteSet(DOMAIN raw)
  BY DEF Finish, InterfacesIInv, InterfacesTypeOK, AreInterfaces
<1>2. /\ Top \in PendingCalls /\ Len(pending) \in DOMAIN pending
  BY <1>1, PendingFacts
<1>3. Top.name \in DOMAIN raw /\ Top.name \notin DOMAIN merged
  BY <1>2 DEF PendingCalls, InterfacesIInv, PendingApart, Visiting, Top
<1>4. Cardinality(DOMAIN raw \ DOMAIN merged)' < Cardinality(DOMAIN raw \ DOMAIN merged)
  BY <1>1, <1>3, OneLess
<1> QED BY <1>4 DEF RanksLower, WalkRank

LEMMA WalkRankIsTyped ==
    ASSUME InterfacesIInv PROVE WalkRank \in WalkRanks
<1>1. InterfacesTypeOK /\ IsFiniteSet(DOMAIN raw)
  BY DEF InterfacesIInv, InterfacesTypeOK, AreInterfaces
<1>2. \A S : Cardinality(DOMAIN raw \ S) \in Nat
  <2> TAKE S
  <2>1. IsFiniteSet(DOMAIN raw \ S)
    BY <1>1, FS_Subset
  <2> QED BY <2>1, FS_CardinalityType
<1>3. pending # <<>> => Len(Extends(Top.name)) + 1 - Top.at \in Nat
  <2> SUFFICES ASSUME pending # <<>> PROVE Len(Extends(Top.name)) + 1 - Top.at \in Nat
    OBVIOUS
  <2>1. Top \in PendingCalls /\ Len(Extends(Top.name)) \in Nat /\ Len(pending) \in DOMAIN pending
    BY <1>1, PendingFacts
  <2>2. Top.at \in Nat /\ Top.at <= Len(Extends(Top.name)) + 1
    BY <2>1 DEF PendingCalls, InterfacesIInv, PassedBases, Top
  <2> QED BY <2>1, <2>2
<1> QED BY <1>2, <1>3 DEF WalkRank, WalkRanks

\* No sequence of ranks goes down for ever.
LEMMA WalkEnds ==
    ASSUME NEW ranks \in [Nat -> WalkRanks]
    PROVE  ~ \A n \in Nat : RanksLower(ranks[n + 1], ranks[n])
<1> SUFFICES ASSUME \A n \in Nat : RanksLower(ranks[n + 1], ranks[n]) PROVE FALSE
  OBVIOUS
<1>1. \A n \in Nat : /\ n + 1 \in Nat /\ ranks[n].unmerged \in Nat
                     /\ ranks[n].unvisited \in Nat /\ ranks[n].bases \in Nat
  <2>1. \A n \in Nat : n + 1 \in Nat /\ ranks[n] \in WalkRanks
    OBVIOUS
  <2>2. \A r \in WalkRanks : r.unmerged \in Nat /\ r.unvisited \in Nat /\ r.bases \in Nat
    BY DEF WalkRanks
  <2> QED BY <2>1, <2>2
<1>2. PICK a \in Nat : \A n \in Nat : ranks[a].unmerged <= ranks[n].unmerged
  <2> DEFINE U == {ranks[n].unmerged : n \in Nat}
  <2>1. U \in SUBSET Nat /\ ranks[0].unmerged \in U
    BY <1>1
  <2>2. PICK u \in U : \A v \in U : u <= v
    BY <2>1, LeastNumber
  <2> QED BY <2>2
<1> DEFINE A == {n \in Nat : ranks[n].unmerged = ranks[a].unmerged}
<1>3. PICK b \in A : \A n \in A : ranks[b].unvisited <= ranks[n].unvisited
  <2> DEFINE U == {ranks[n].unvisited : n \in A}
  <2>1. U \in SUBSET Nat /\ ranks[a].unvisited \in U
    BY <1>1, <1>2
  <2>2. PICK u \in U : \A v \in U : u <= v
    BY <2>1, LeastNumber
  <2> QED BY <2>2
<1> DEFINE B == {n \in A : ranks[n].unvisited = ranks[b].unvisited}
<1>4. PICK c \in B : \A n \in B : ranks[c].bases <= ranks[n].bases
  <2> DEFINE U == {ranks[n].bases : n \in B}
  <2>1. U \in SUBSET Nat /\ ranks[b].bases \in U
    BY <1>1, <1>3
  <2>2. PICK u \in U : \A v \in U : u <= v
    BY <2>1, LeastNumber
  <2> QED BY <2>2
<1> DEFINE r == ranks[c]
           s == ranks[c + 1]
<1>5. /\ c \in Nat /\ c + 1 \in Nat /\ RanksLower(s, r)
      /\ r.unmerged \in Nat /\ r.unvisited \in Nat /\ r.bases \in Nat
      /\ s.unmerged \in Nat /\ s.unvisited \in Nat /\ s.bases \in Nat
      /\ r.unmerged = ranks[a].unmerged /\ r.unvisited = ranks[b].unvisited
  BY <1>1
<1>6. r.unmerged <= s.unmerged
  BY <1>2, <1>5
<1>7. s.unmerged = r.unmerged => r.unvisited <= s.unvisited
  BY <1>3, <1>5
<1>8. s.unmerged = r.unmerged /\ s.unvisited = r.unvisited => r.bases <= s.bases
  BY <1>4, <1>5
<1> QED BY <1>5, <1>6, <1>7, <1>8 DEF RanksLower

\* collect_interfaces gets nearer to its end with every base it looks at, every
\* call and every return, with cycles of `extends` too, in an order in which
\* nothing goes down for ever.
THEOREM WalkGetsNearer ==
    /\ InterfacesSpec => [](WalkRank \in WalkRanks) /\ WalkDescends
    /\ \A ranks \in [Nat -> WalkRanks] : ~ \A n \in Nat : RanksLower(ranks[n + 1], ranks[n])
<1>1. InterfacesIInv => WalkRank \in WalkRanks
  BY WalkRankIsTyped
<1>2. InterfacesIInv /\ [InterfacesNext]_interfaceVars => [RanksLower(WalkRank', WalkRank)]_interfaceVars
  <2> SUFFICES ASSUME InterfacesIInv, InterfacesNext PROVE RanksLower(WalkRank', WalkRank)
    OBVIOUS
  <2>1. CASE MergeInterface
    BY <2>1, AscendDescends DEF MergeInterface, Visiting
  <2>2. CASE EnterBase
    BY <2>2, AscendDescends DEF EnterBase
  <2>3. CASE TakeBase
    BY <2>3, TakeBaseDescends
  <2>4. CASE Finish
    BY <2>4, FinishDescends
  <2> QED BY <2>1, <2>2, <2>3, <2>4 DEF InterfacesNext
<1>3. InterfacesSpec => [](WalkRank \in WalkRanks) /\ WalkDescends
  BY <1>1, <1>2, InterfacesInvariant, PTL DEF InterfacesSpec, WalkDescends
<1> QED BY <1>3, WalkEnds
=============================================================================
