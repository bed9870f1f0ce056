---------------------------- MODULE RuntimeProofs ----------------------------
(***************************************************************************)
(* Theorems about Runtime for every bound, value, field name and first     *)
(* capacity.                                                               *)
(***************************************************************************)
EXTENDS Runtime, SequenceTheorems, TLAPS

Cells == Values \cup {Junk}
Fields == [key : Keys, value : Values]
FieldCells == Fields \cup {Junk}

Blocks(S) == UNION {[1 .. c -> S] : c \in Nat}

Vectors ==
  {v \in [elements : Blocks(Cells), len : Nat, cap : Nat] :
     /\ v.len <= v.cap
     /\ v.elements \in [1 .. v.cap -> Cells]
     /\ \A n \in 1 .. v.len : v.elements[n] \in Values}

Objects ==
  {o \in [fields : Blocks(FieldCells), count : Nat, cap : Nat] :
     /\ o.count <= o.cap
     /\ o.fields \in [1 .. o.cap -> FieldCells]
     /\ \A n \in 1 .. o.count : o.fields[n] \in Fields
     /\ \A m, n \in 1 .. o.count : o.fields[m].key = o.fields[n].key => m = n}

\* A spread has appended the first i elements of its source ...
Extending ==
  /\ loop \in [kind : {"extend"}, dest : 1 .. Len(vecs), src : 1 .. Len(vecs),
               i : Nat, before : Nat]
  /\ loop.dest # loop.src
  /\ loop.i <= vecs[loop.src].len
  /\ vecs[loop.dest].len = loop.before + loop.i
  /\ \A n \in 1 .. loop.i :
       vecs[loop.dest].elements[loop.before + n] = vecs[loop.src].elements[n]

\* ... or has set the first i fields of its source.
Merging ==
  /\ loop \in [kind : {"merge"}, dest : 1 .. Len(objs), src : 1 .. Len(objs),
               i : Nat, before : Objects]
  /\ loop.i <= objs[loop.src].count
  /\ loop.dest = loop.src => objs[loop.dest] = loop.before
  /\ \A k \in Keys :
       FieldMap(objs[loop.dest])[k] =
         IF \E n \in 1 .. loop.i : objs[loop.src].fields[n].key = k
         THEN FieldMap(objs[loop.src])[k] ELSE FieldMap(loop.before)[k]

IInv ==
  /\ vecs \in Seq(Vectors)
  /\ objs \in Seq(Objects)
  /\ loop = Idle \/ Extending \/ Merging

-----------------------------------------------------------------------------
(* What a call does to one block.                                          *)

\* A new block keeps the cells of the old one and has Junk in the others.
LEMMA ReallocFacts ==
  ASSUME NEW S, Junk \in S, NEW c \in Nat, NEW d \in Nat, c <= d, NEW b \in [1 .. c -> S]
  PROVE  /\ Realloc(b, c, d) \in [1 .. d -> S]
         /\ \A n \in 1 .. c : Realloc(b, c, d)[n] = b[n]
  BY DEF Realloc

LEMMA DoubledFacts ==
  ASSUME NEW c \in Nat, NEW f \in Nat \ {0}
  PROVE  Doubled(c, f) \in Nat /\ Doubled(c, f) > c
  BY DEF Doubled

\* The fields of a vector that VectorsAreSound and the mapping look at.
LEMMA VectorFacts ==
  ASSUME NEW v \in Vectors
  PROVE  /\ v.cap \in Nat /\ v.len \in 0 .. v.cap
         /\ v.elements \in [1 .. v.cap -> Cells]
         /\ \A n \in 1 .. v.len : v.elements[n] \in Values
  BY DEF Vectors

\* A record with such fields is a vector.
LEMMA VectorIntro ==
  ASSUME NEW e, NEW l, NEW c, c \in Nat, l \in 0 .. c, e \in [1 .. c -> Cells],
         \A n \in 1 .. l : e[n] \in Values
  PROVE  [elements |-> e, len |-> l, cap |-> c] \in Vectors
<1>1. e \in Blocks(Cells)
  BY DEF Blocks
<1> QED
  BY <1>1 DEF Vectors

LEMMA VectorRecord ==
  ASSUME NEW v \in Vectors
  PROVE  v = [elements |-> v.elements, len |-> v.len, cap |-> v.cap]
  BY DEF Vectors

\* After the growth there is room for one more element.
LEMMA GrownSound ==
  ASSUME NEW v \in Vectors
  PROVE  /\ Grown(v) = [elements |-> Grown(v).elements, len |-> v.len, cap |-> Grown(v).cap]
         /\ Grown(v).cap \in Nat /\ v.len < Grown(v).cap
         /\ Grown(v).elements \in [1 .. Grown(v).cap -> Cells]
         /\ \A n \in 1 .. v.len : Grown(v).elements[n] = v.elements[n]
<1>0. /\ v = [elements |-> v.elements, len |-> v.len, cap |-> v.cap]
      /\ v.cap \in Nat /\ v.len \in 0 .. v.cap
      /\ v.elements \in [1 .. v.cap -> Cells]
  BY VectorFacts, VectorRecord
<1>1. CASE v.len < v.cap
  BY <1>0, <1>1 DEF Grown
<1>2. CASE v.len >= v.cap
  <2> DEFINE d == Doubled(v.cap, FirstVecCap)
             b == Realloc(v.elements, v.cap, d)
  <2>1. d \in Nat /\ d > v.cap
    BY <1>0, DoubledFacts, RuntimeAssumption
  <2>2. Grown(v) = [elements |-> b, len |-> v.len, cap |-> d]
    BY <1>0, <1>2 DEF Grown
  <2> HIDE DEF d
  <2>3. /\ b \in [1 .. d -> Cells]
        /\ \A n \in 1 .. v.cap : b[n] = v.elements[n]
    <3>1. Junk \in Cells
      BY DEF Cells
    <3> QED
      BY <1>0, <2>1, <3>1, ReallocFacts
  <2> HIDE DEF b
  <2> QED
    BY <1>0, <1>2, <2>1, <2>2, <2>3
<1> QED
  BY <1>0, <1>1, <1>2

\* A push adds its element behind the others.
LEMMA PushedSound ==
  ASSUME NEW v \in Vectors, NEW x \in Values
  PROVE  /\ Pushed(v, x) \in Vectors
         /\ Pushed(v, x).len = v.len + 1
         /\ \A n \in 1 .. v.len : Pushed(v, x).elements[n] = v.elements[n]
         /\ Pushed(v, x).elements[v.len + 1] = x
<1> DEFINE g == Grown(v)
           e == [g.elements EXCEPT ![g.len + 1] = x]
<1>1. /\ g = [elements |-> g.elements, len |-> v.len, cap |-> g.cap]
      /\ g.cap \in Nat /\ v.len < g.cap
      /\ g.elements \in [1 .. g.cap -> Cells]
      /\ \A n \in 1 .. v.len : g.elements[n] = v.elements[n]
  BY GrownSound
<1>2. v.len \in Nat /\ \A n \in 1 .. v.len : v.elements[n] \in Values
  BY VectorFacts
<1>3. Pushed(v, x) = [elements |-> e, len |-> v.len + 1, cap |-> g.cap]
  BY <1>1 DEF Pushed
<1>4. g.len = v.len
  BY <1>1
<1> HIDE DEF g
<1>5. /\ e \in [1 .. g.cap -> Cells] /\ e[v.len + 1] = x
      /\ \A n \in 1 .. v.len : e[n] = v.elements[n]
  BY <1>1, <1>2, <1>4 DEF Cells
<1> HIDE DEF e
<1>6. [elements |-> e, len |-> v.len + 1, cap |-> g.cap] \in Vectors
  <2>1. v.len + 1 \in 0 .. g.cap
    BY <1>1, <1>2
  <2>2. \A n \in 1 .. v.len + 1 : e[n] \in Values
    BY <1>2, <1>5
  <2> QED
    BY <1>1, <1>5, <2>1, <2>2, VectorIntro
<1> QED
  BY <1>3, <1>5, <1>6

\* An unshift adds its element before the others.
LEMMA UnshiftedSound ==
  ASSUME NEW v \in Vectors, NEW x \in Values
  PROVE  /\ Unshifted(v, x) \in Vectors
         /\ Unshifted(v, x).len = v.len + 1
         /\ \A n \in 1 .. v.len : Unshifted(v, x).elements[n + 1] = v.elements[n]
         /\ Unshifted(v, x).elements[1] = x
<1> DEFINE g == Grown(v)
           moved == [n \in 1 .. g.cap |->
                       IF n \in 2 .. g.len + 1 THEN g.elements[n - 1] ELSE g.elements[n]]
           e == [moved EXCEPT ![1] = x]
<1>1. /\ g = [elements |-> g.elements, len |-> v.len, cap |-> g.cap]
      /\ g.cap \in Nat /\ v.len < g.cap
      /\ g.elements \in [1 .. g.cap -> Cells]
      /\ \A n \in 1 .. v.len : g.elements[n] = v.elements[n]
  BY GrownSound
<1>2. v.len \in Nat /\ \A n \in 1 .. v.len : v.elements[n] \in Values
  BY VectorFacts
<1>3. Unshifted(v, x) = [elements |-> e, len |-> g.len + 1, cap |-> g.cap]
  BY DEF Unshifted
<1>4. g.len = v.len
  BY <1>1
<1> HIDE DEF g
<1>5. /\ moved \in [1 .. g.cap -> Cells]
      /\ \A n \in 1 .. v.len : moved[n + 1] = v.elements[n]
  BY <1>1, <1>2, <1>4
<1> HIDE DEF moved
<1>6. /\ e \in [1 .. g.cap -> Cells] /\ e[1] = x
      /\ \A n \in 1 .. v.len : e[n + 1] = v.elements[n]
  BY <1>1, <1>2, <1>5 DEF Cells
<1> HIDE DEF e
<1>7. [elements |-> e, len |-> v.len + 1, cap |-> g.cap] \in Vectors
  <2>1. v.len + 1 \in 0 .. g.cap
    BY <1>1, <1>2
  <2>2. ASSUME NEW n \in 1 .. v.len + 1 PROVE e[n] \in Values
    <3>1. CASE n = 1
      BY <1>6, <3>1
    <3>2. CASE n # 1
      <4>1. n - 1 \in 1 .. v.len /\ (n - 1) + 1 = n
        BY <1>2, <3>2
      <4> QED
        BY <1>2, <1>6, <4>1
    <3> QED
      BY <3>1, <3>2
  <2> QED
    BY <1>1, <1>6, <2>1, <2>2, VectorIntro
<1> QED
  BY <1>3, <1>4, <1>6, <1>7

-----------------------------------------------------------------------------
(* What a call does to one object.                                         *)

LEMMA ObjectFacts ==
  ASSUME NEW o \in Objects
  PROVE  /\ o = [fields |-> o.fields, count |-> o.count, cap |-> o.cap]
         /\ o.cap \in Nat /\ o.count \in 0 .. o.cap
         /\ o.fields \in [1 .. o.cap -> FieldCells]
         /\ \A n \in 1 .. o.count : o.fields[n] \in Fields
         /\ \A m, n \in 1 .. o.count : o.fields[m].key = o.fields[n].key => m = n
  BY DEF Objects

LEMMA ObjectIntro ==
  ASSUME NEW f, NEW t, NEW c, c \in Nat, t \in 0 .. c, f \in [1 .. c -> FieldCells],
         \A n \in 1 .. t : f[n] \in Fields,
         \A m, n \in 1 .. t : f[m].key = f[n].key => m = n
  PROVE  [fields |-> f, count |-> t, cap |-> c] \in Objects
<1>1. f \in Blocks(FieldCells)
  BY DEF Blocks
<1> QED
  BY <1>1 DEF Objects

\* The one slot that carries a key is the first one.
LEMMA FirstFacts ==
  ASSUME NEW o \in Objects, NEW k \in Keys, NEW n \in 1 .. o.count, o.fields[n].key = k
  PROVE  Carriers(o, k) # {} /\ First(o, k) = n
<1>1. Carriers(o, k) = {n}
  BY ObjectFacts DEF Carriers
<1>2. \A m \in {n} : n <= m
  BY ObjectFacts
<1> QED
  BY <1>1, <1>2 DEF First

\* The map that a table stands for, key by key.
LEMMA FieldMapFacts ==
  ASSUME NEW o \in Objects
  PROVE  /\ FieldMap(o) \in [Keys -> Values \cup {Absent}]
         /\ \A n \in 1 .. o.count : FieldMap(o)[o.fields[n].key] = o.fields[n].value
         /\ \A k \in Keys : (\A n \in 1 .. o.count : o.fields[n].key # k) => FieldMap(o)[k] = Absent
<1>1. ASSUME NEW n \in 1 .. o.count
      PROVE  /\ o.fields[n].key \in Keys /\ o.fields[n].value \in Values
             /\ FieldMap(o)[o.fields[n].key] = o.fields[n].value
  <2>1. o.fields[n] \in Fields
    BY ObjectFacts
  <2>2. o.fields[n].key \in Keys /\ o.fields[n].value \in Values
    BY <2>1 DEF Fields
  <2>3. Carriers(o, o.fields[n].key) # {} /\ First(o, o.fields[n].key) = n
    BY <2>2, FirstFacts
  <2> QED
    BY <2>2, <2>3 DEF FieldMap
<1>2. ASSUME NEW k \in Keys, \A n \in 1 .. o.count : o.fields[n].key # k
      PROVE  FieldMap(o)[k] = Absent
  <2>1. Carriers(o, k) = {}
    BY <1>2 DEF Carriers
  <2> QED
    BY <2>1 DEF FieldMap
<1>3. ASSUME NEW k \in Keys PROVE FieldMap(o)[k] \in Values \cup {Absent}
  <2>1. CASE \E n \in 1 .. o.count : o.fields[n].key = k
    BY <1>1, <2>1
  <2>2. CASE \A n \in 1 .. o.count : o.fields[n].key # k
    BY <1>2, <2>2
  <2> QED
    BY <2>1, <2>2
<1>4. FieldMap(o) = [k \in Keys |-> FieldMap(o)[k]]
  BY DEF FieldMap
<1> HIDE DEF FieldMap
<1>5. FieldMap(o) \in [Keys -> Values \cup {Absent}]
  BY <1>3, <1>4
<1> QED
  BY <1>1, <1>2, <1>5

LEMMA FieldMapIs ==
  ASSUME NEW o \in Objects, NEW f \in [Keys -> Values \cup {Absent}],
         \A n \in 1 .. o.count : f[o.fields[n].key] = o.fields[n].value,
         \A k \in Keys : (\A n \in 1 .. o.count : o.fields[n].key # k) => f[k] = Absent
  PROVE  FieldMap(o) = f
<1>1. ASSUME NEW k \in Keys PROVE FieldMap(o)[k] = f[k]
  <2>1. CASE \E n \in 1 .. o.count : o.fields[n].key = k
    BY <2>1, FieldMapFacts
  <2>2. CASE \A n \in 1 .. o.count : o.fields[n].key # k
    BY <2>2, FieldMapFacts
  <2> QED
    BY <2>1, <2>2
<1> QED
  BY <1>1, FieldMapFacts

\* A set stores under its key and nowhere else; what is stored already stays.
LEMMA FieldSetSound ==
  ASSUME NEW o \in Objects, NEW k \in Keys, NEW x \in Values
  PROVE  /\ FieldSet(o, k, x) \in Objects
         /\ FieldMap(FieldSet(o, k, x)) = [FieldMap(o) EXCEPT ![k] = x]
         /\ (\E n \in 1 .. o.count : o.fields[n] = [key |-> k, value |-> x]) => FieldSet(o, k, x) = o
<1> DEFINE f == [key |-> k, value |-> x]
           s == FieldSet(o, k, x)
           map == [FieldMap(o) EXCEPT ![k] = x]
<1>0. f \in Fields /\ f.key = k /\ f.value = x
  BY DEF Fields
<1> HIDE DEF f
<1>1. map \in [Keys -> Values \cup {Absent}] /\ map[k] = x
      /\ \A l \in Keys \ {k} : map[l] = FieldMap(o)[l]
  BY FieldMapFacts
<1>2. \A n \in 1 .. o.count : o.fields[n].key \in Keys
  BY ObjectFacts DEF Fields
<1>3. ASSUME NEW n \in 1 .. o.count, o.fields[n].key = k
      PROVE  /\ s \in Objects
             /\ FieldMap(s) = map
             /\ o.fields[n] = f => s = o
  <2> DEFINE b == [o.fields EXCEPT ![n] = f]
  <2>1. s = [fields |-> b, count |-> o.count, cap |-> o.cap]
    BY <1>3, FirstFacts DEF FieldSet, f
  <2>2. /\ b \in [1 .. o.cap -> FieldCells]
        /\ b[n] = f
        /\ \A m \in 1 .. o.count : m # n => b[m] = o.fields[m]
    BY <1>0, ObjectFacts DEF FieldCells
  <2>3. o.fields[n] = f => b = o.fields
    BY ObjectFacts
  <2> HIDE DEF b, s, map
  <2>4. /\ \A m \in 1 .. o.count : b[m] \in Fields /\ b[m].key = o.fields[m].key
    BY <1>0, <1>3, <2>2, ObjectFacts
  <2>5. s \in Objects
    <3>1. \A l, m \in 1 .. o.count : b[l].key = b[m].key => l = m
      BY <2>4, ObjectFacts
    <3> QED
      BY <2>1, <2>2, <2>4, <3>1, ObjectFacts, ObjectIntro
  <2>6. s.fields = b /\ s.count = o.count
    BY <2>1
  <2>7. ASSUME NEW m \in 1 .. s.count PROVE map[s.fields[m].key] = s.fields[m].value
    <3>1. CASE m = n
      BY <1>0, <1>1, <2>2, <2>6, <3>1
    <3>2. CASE m # n
      <4>1. o.fields[m].key # k /\ o.fields[m].key \in Keys
        BY <1>2, <1>3, <2>6, <3>2, ObjectFacts
      <4>2. s.fields[m] = o.fields[m]
        BY <2>2, <2>6, <3>2
      <4> QED
        BY <1>1, <2>6, <4>1, <4>2, FieldMapFacts
    <3> QED
      BY <3>1, <3>2
  <2>8. ASSUME NEW l \in Keys, \A m \in 1 .. s.count : s.fields[m].key # l
        PROVE  map[l] = Absent
    <3>1. \A m \in 1 .. o.count : o.fields[m].key # l
      BY <2>4, <2>6, <2>8
    <3>2. l # k
      BY <1>3, <3>1
    <3> QED
      BY <1>1, <3>1, <3>2, FieldMapFacts
  <2>9. FieldMap(s) = map
    BY <1>1, <2>5, <2>7, <2>8, FieldMapIs
  <2>10. o.fields[n] = f => s = o
    BY <2>1, <2>3, ObjectFacts
  <2> QED
    BY <2>5, <2>9, <2>10
<1>4. ASSUME \A n \in 1 .. o.count : o.fields[n].key # k
      PROVE  s \in Objects /\ FieldMap(s) = map
  <2> DEFINE c == IF o.count >= o.cap THEN Doubled(o.cap, FirstObjCap) ELSE o.cap
             r == Realloc(o.fields, o.cap, c)
             t == o.count + 1
             b == [r EXCEPT ![t] = f]
  <2>1. Carriers(o, k) = {}
    BY <1>4 DEF Carriers
  <2>2. s = [fields |-> b, count |-> t, cap |-> c]
    BY <2>1 DEF FieldSet, f
  <2>3. c \in Nat /\ o.count < c /\ o.cap <= c
    BY ObjectFacts, DoubledFacts, RuntimeAssumption
  <2> HIDE DEF c
  <2>4. r \in [1 .. c -> FieldCells] /\ \A n \in 1 .. o.cap : r[n] = o.fields[n]
    <3>1. Junk \in FieldCells
      BY DEF FieldCells
    <3> QED
      BY <2>3, <3>1, ObjectFacts, ReallocFacts
  <2> HIDE DEF r
  <2>5. t \in 1 .. c /\ o.count \in Nat
    BY <2>3, ObjectFacts
  <2>6. /\ b \in [1 .. c -> FieldCells] /\ b[t] = f
        /\ \A n \in 1 .. o.count : b[n] = o.fields[n]
    BY <1>0, <2>3, <2>4, <2>5, ObjectFacts DEF FieldCells
  <2> HIDE DEF b, s, map
  <2>7. \A n \in 1 .. t : n = t \/ n \in 1 .. o.count
    BY <2>5
  <2>8. s \in Objects
    <3>1. \A n \in 1 .. t : b[n] \in Fields
      BY <1>0, <2>6, <2>7, ObjectFacts
    <3>2. \A n \in 1 .. o.count : b[n].key # b[t].key
      BY <1>0, <1>4, <2>6
    <3>3. \A m, n \in 1 .. o.count : b[m].key = b[n].key => m = n
      BY <2>6, ObjectFacts
    <3>4. \A m, n \in 1 .. t : b[m].key = b[n].key => m = n
      BY <2>7, <3>2, <3>3
    <3>5. t \in 0 .. c
      BY <2>5
    <3> QED
      BY <2>2, <2>3, <2>6, <3>1, <3>4, <3>5, ObjectIntro
  <2>9. s.fields = b /\ s.count = t
    BY <2>2
  <2>10. ASSUME NEW m \in 1 .. s.count PROVE map[s.fields[m].key] = s.fields[m].value
    <3>1. CASE m = t
      BY <1>0, <1>1, <2>6, <2>9, <3>1
    <3>2. CASE m \in 1 .. o.count
      <4>1. o.fields[m].key # k /\ o.fields[m].key \in Keys
        BY <1>2, <1>4, <3>2
      <4> QED
        BY <1>1, <2>6, <2>9, <3>2, <4>1, FieldMapFacts
    <3> QED
      BY <2>7, <2>9, <3>1, <3>2
  <2>11. ASSUME NEW l \in Keys, \A m \in 1 .. s.count : s.fields[m].key # l
         PROVE  map[l] = Absent
    <3>1. l # k
      BY <1>0, <2>5, <2>6, <2>9, <2>11
    <3>2. \A m \in 1 .. o.count : m \in 1 .. t
      BY <2>5
    <3>3. \A m \in 1 .. o.count : o.fields[m].key # l
      BY <2>6, <2>9, <2>11, <3>2
    <3> QED
      BY <1>1, <3>1, <3>3, FieldMapFacts
  <2> QED
    BY <1>1, <2>8, <2>10, <2>11, FieldMapIs
<1>5. ASSUME NEW n \in 1 .. o.count, o.fields[n] = f
      PROVE  s = o
  <2>1. o.fields[n].key = k
    BY <1>0, <1>5
  <2> QED
    BY <1>3, <1>5, <2>1
<1> QED
  BY <1>3, <1>4, <1>5 DEF f

-----------------------------------------------------------------------------
(* The sequence that a vector stands for.                                  *)

LEMMA FunctionIsSeq ==
  ASSUME NEW S, NEW n \in Nat, NEW f \in [1 .. n -> S]
  PROVE  f \in Seq(S) /\ Len(f) = n
<1>1. f \in Seq(S)
  BY SeqDef
<1>2. DOMAIN f = 1 .. n /\ DOMAIN f = 1 .. Len(f) /\ Len(f) \in Nat
  BY <1>1, LenProperties
<1> QED
  BY <1>1, <1>2

LEMMA AppendFacts ==
  ASSUME NEW S, NEW s \in Seq(S), NEW e \in S
  PROVE  /\ Append(s, e) \in Seq(S) /\ Len(Append(s, e)) = Len(s) + 1
         /\ \A i \in 1 .. Len(s) : Append(s, e)[i] = s[i]
         /\ Append(s, e)[Len(s) + 1] = e
  OBVIOUS

LEMMA ElementsFacts ==
  ASSUME NEW v \in Vectors, NEW n \in 0 .. v.len
  PROVE  /\ Elements(v, n) \in Seq(Values) /\ Len(Elements(v, n)) = n
         /\ \A m \in 1 .. n : Elements(v, n)[m] = v.elements[m]
<1>1. n \in Nat /\ Elements(v, n) \in [1 .. n -> Values]
  BY VectorFacts DEF Elements
<1>2. \A m \in 1 .. n : Elements(v, n)[m] = v.elements[m]
  BY DEF Elements
<1> QED
  BY <1>1, <1>2, FunctionIsSeq

\* Two vectors that agree below n stand for the same n elements.
LEMMA ElementsEqual ==
  ASSUME NEW v, NEW w, NEW n \in Nat, \A m \in 1 .. n : v.elements[m] = w.elements[m]
  PROVE  Elements(v, n) = Elements(w, n)
  BY DEF Elements

LEMMA PushedElements ==
  ASSUME NEW v \in Vectors, NEW x \in Values
  PROVE  Elements(Pushed(v, x), v.len + 1) = Append(Elements(v, v.len), x)
<1> DEFINE w == Pushed(v, x)
           e == Elements(w, v.len + 1)
           a == Append(Elements(v, v.len), x)
<1>1. v.len \in Nat /\ v.len \in 0 .. v.len
  BY VectorFacts
<1>2. /\ w \in Vectors /\ w.len = v.len + 1
      /\ \A n \in 1 .. v.len : w.elements[n] = v.elements[n]
      /\ w.elements[v.len + 1] = x
  BY PushedSound
<1>3. /\ e \in Seq(Values) /\ Len(e) = v.len + 1
      /\ \A m \in 1 .. v.len + 1 : e[m] = w.elements[m]
  <2>1. w \in Vectors /\ v.len + 1 \in 0 .. w.len
    BY <1>1, <1>2
  <2> QED
    BY <2>1, ElementsFacts
<1>4. /\ Elements(v, v.len) \in Seq(Values) /\ Len(Elements(v, v.len)) = v.len
      /\ \A m \in 1 .. v.len : Elements(v, v.len)[m] = v.elements[m]
  BY <1>1, ElementsFacts
<1>5. /\ a \in Seq(Values) /\ Len(a) = v.len + 1 /\ a[v.len + 1] = x
      /\ \A m \in 1 .. v.len : a[m] = v.elements[m]
  BY <1>1, <1>4
<1> HIDE DEF w, e, a
<1>6. \A m \in 1 .. v.len + 1 : e[m] = a[m]
  BY <1>1, <1>2, <1>3, <1>5
<1>7. e = a
  BY <1>3, <1>5, <1>6, SeqEqual
<1> QED
  BY <1>7 DEF w, e, a

LEMMA UnshiftedElements ==
  ASSUME NEW v \in Vectors, NEW x \in Values
  PROVE  Elements(Unshifted(v, x), v.len + 1) = <<x>> \o Elements(v, v.len)
<1> DEFINE w == Unshifted(v, x)
           e == Elements(w, v.len + 1)
           a == <<x>> \o Elements(v, v.len)
<1>1. v.len \in Nat /\ v.len \in 0 .. v.len
  BY VectorFacts
<1>2. /\ w \in Vectors /\ w.len = v.len + 1
      /\ \A n \in 1 .. v.len : w.elements[n + 1] = v.elements[n]
      /\ w.elements[1] = x
  BY UnshiftedSound
<1>3. /\ e \in Seq(Values) /\ Len(e) = v.len + 1
      /\ \A m \in 1 .. v.len + 1 : e[m] = w.elements[m]
  BY <1>1, <1>2, ElementsFacts
<1>4. /\ Elements(v, v.len) \in Seq(Values) /\ Len(Elements(v, v.len)) = v.len
      /\ \A m \in 1 .. v.len : Elements(v, v.len)[m] = v.elements[m]
  BY <1>1, ElementsFacts
<1>5. /\ a \in Seq(Values) /\ Len(a) = v.len + 1 /\ a[1] = x
      /\ \A m \in 1 .. v.len : a[m + 1] = v.elements[m]
  <2>1. <<x>> \in Seq(Values) /\ Len(<<x>>) = 1 /\ <<x>>[1] = x
    OBVIOUS
  <2> QED
    BY <1>1, <1>4, <2>1, ConcatProperties
<1> HIDE DEF w, e, a
<1>6. ASSUME NEW m \in 1 .. v.len + 1 PROVE e[m] = a[m]
  <2>1. CASE m = 1
    BY <1>2, <1>3, <1>5, <2>1
  <2>2. CASE m # 1
    <3>1. m - 1 \in 1 .. v.len /\ (m - 1) + 1 = m
      BY <1>1, <2>2
    <3> QED
      BY <1>2, <1>3, <1>5, <3>1
  <2> QED
    BY <2>1, <2>2
<1>7. e = a
  BY <1>3, <1>5, <1>6, SeqEqual
<1> QED
  BY <1>7 DEF w, e, a

\* A pop shortens the sequence by its last element.
LEMMA PoppedElements ==
  ASSUME NEW v \in Vectors, v.len # 0
  PROVE  /\ [v EXCEPT !.len = v.len - 1] \in Vectors
         /\ Elements([v EXCEPT !.len = v.len - 1], v.len - 1)
              = SubSeq(Elements(v, v.len), 1, Len(Elements(v, v.len)) - 1)
         /\ Elements(v, v.len)[Len(Elements(v, v.len))] = v.elements[v.len]
<1> DEFINE w == [v EXCEPT !.len = v.len - 1]
           s == Elements(v, v.len)
           e == Elements(w, v.len - 1)
           t == SubSeq(s, 1, v.len - 1)
<1>1. v.len \in Nat /\ v.len - 1 \in Nat /\ v.len \in 0 .. v.len /\ v.len - 1 \in 0 .. v.len - 1
  BY VectorFacts
<1>2. w \in Vectors /\ w.elements = v.elements /\ w.len = v.len - 1
  <2>1. w = [elements |-> v.elements, len |-> v.len - 1, cap |-> v.cap]
    BY VectorRecord
  <2> HIDE DEF w
  <2>2. v.len - 1 \in 0 .. v.cap
    BY <1>1, VectorFacts
  <2>3. \A n \in 1 .. v.len - 1 : v.elements[n] \in Values
    BY <1>1, VectorFacts
  <2> QED
    BY <2>1, <2>2, <2>3, VectorFacts, VectorIntro
<1> HIDE DEF w
<1>3. /\ s \in Seq(Values) /\ Len(s) = v.len
      /\ \A m \in 1 .. v.len : s[m] = v.elements[m]
  BY <1>1, ElementsFacts
<1>4. /\ e \in Seq(Values) /\ Len(e) = v.len - 1
      /\ \A m \in 1 .. v.len - 1 : e[m] = v.elements[m]
  <2>1. w \in Vectors /\ v.len - 1 \in 0 .. w.len
    BY <1>1, <1>2
  <2>2. /\ e \in Seq(Values) /\ Len(e) = v.len - 1
        /\ \A m \in 1 .. v.len - 1 : e[m] = w.elements[m]
    BY <2>1, ElementsFacts
  <2> QED
    BY <1>2, <2>2
<1> HIDE DEF s, e
<1>5. /\ t \in Seq(Values) /\ Len(t) = v.len - 1
      /\ \A m \in 1 .. v.len - 1 : t[m] = s[m]
  BY <1>1, <1>3
<1> HIDE DEF t
<1>6. \A m \in 1 .. v.len - 1 : e[m] = t[m]
  BY <1>1, <1>3, <1>4, <1>5
<1>7. e = t
  BY <1>4, <1>5, <1>6, SeqEqual
<1>8. s[Len(s)] = v.elements[v.len]
  BY <1>1, <1>3
<1> QED
  BY <1>2, <1>3, <1>7, <1>8 DEF w, s, e, t

\* A write inside the array replaces one element.
LEMMA SetElements ==
  ASSUME NEW v \in Vectors, NEW n \in 1 .. v.len, NEW x \in Values,
         NEW w, w = [elements |-> [v.elements EXCEPT ![n] = x], len |-> v.len, cap |-> v.cap]
  PROVE  /\ w \in Vectors /\ w.len = v.len
         /\ Elements(w, v.len) = [Elements(v, v.len) EXCEPT ![n] = x]
<1> DEFINE b == [v.elements EXCEPT ![n] = x]
<1>1. v.len \in Nat /\ n \in 1 .. v.cap
  BY VectorFacts
<1>2. w = [elements |-> b, len |-> v.len, cap |-> v.cap]
  OBVIOUS
<1>3. /\ b \in [1 .. v.cap -> Cells]
      /\ \A m \in 1 .. v.len : b[m] = IF m = n THEN x ELSE v.elements[m]
  BY <1>1, VectorFacts DEF Cells
<1> HIDE DEF b
<1>4. \A m \in 1 .. v.len : b[m] \in Values
  BY <1>3, VectorFacts
<1>5. w \in Vectors /\ w.len = v.len /\ w.elements = b
  <2>1. v.cap \in Nat /\ v.len \in 0 .. v.cap /\ b \in [1 .. v.cap -> Cells]
    BY <1>3, VectorFacts
  <2>2. [elements |-> b, len |-> v.len, cap |-> v.cap] \in Vectors
    BY <1>4, <2>1, VectorIntro, Zenon
  <2>3. w \in Vectors
    BY <1>2, <2>2, Zenon
  <2>4. w.len = v.len /\ w.elements = b
    BY <1>2
  <2> QED
    BY <2>3, <2>4
<1>6. Elements(w, v.len) = [Elements(v, v.len) EXCEPT ![n] = x]
  BY <1>3, <1>5 DEF Elements
<1> QED
  BY <1>5, <1>6

-----------------------------------------------------------------------------
(* The state: what the handles stand for, and the steps that change one    *)
(* block.                                                                  *)

\* Between calls every handle shows its own block.
LEMMA ShownCalm ==
  ASSUME IInv, Calm
  PROVE  /\ Len(vecs) \in Nat /\ Len(objs) \in Nat
         /\ Arr = [h \in 1 .. Len(vecs) |-> Elements(vecs[h], vecs[h].len)]
         /\ Obj = [o \in 1 .. Len(objs) |-> FieldMap(objs[o])]
<1>1. loop.kind # "extend" /\ loop.kind # "merge"
  BY DEF Calm, Idle
<1>2. Len(vecs) \in Nat /\ Len(objs) \in Nat
  BY DEF IInv
<1> QED
  BY <1>1, <1>2 DEF Arr, Obj, ShownArray, ShownObject

\* The handles of the mapped state are those of the runtime.
LEMMA ShownHandles ==
  ASSUME IInv
  PROVE  /\ Len(vecs) \in Nat /\ Len(objs) \in Nat
         /\ Arr \in Seq({Arr[h] : h \in 1 .. Len(vecs)}) /\ Len(Arr) = Len(vecs)
         /\ Obj \in Seq({Obj[o] : o \in 1 .. Len(objs)}) /\ Len(Obj) = Len(objs)
<1>1. Len(vecs) \in Nat /\ Len(objs) \in Nat
  BY DEF IInv
<1>2. Arr \in [1 .. Len(vecs) -> {Arr[h] : h \in 1 .. Len(vecs)}]
  BY DEF Arr
<1>3. Obj \in [1 .. Len(objs) -> {Obj[o] : o \in 1 .. Len(objs)}]
  BY DEF Obj
<1> QED
  BY <1>1, <1>2, <1>3, FunctionIsSeq

LEMMA BlocksOf ==
  ASSUME IInv
  PROVE  /\ \A h \in 1 .. Len(vecs) : vecs[h] \in Vectors
         /\ \A o \in 1 .. Len(objs) : objs[o] \in Objects
  BY DEF IInv

\* A call that changes the block of one array.
LEMMA VectorChanges ==
  ASSUME IInv, Calm, NEW h \in 1 .. Len(vecs), NEW w \in Vectors,
         vecs' = [vecs EXCEPT ![h] = w], UNCHANGED <<objs, loop>>
  PROVE  /\ IInv'
         /\ Arr' = [Arr EXCEPT ![h] = Elements(w, w.len)]
         /\ Obj' = Obj
<1>1. /\ vecs' \in Seq(Vectors) /\ Len(vecs') = Len(vecs)
      /\ \A g \in 1 .. Len(vecs) : vecs'[g] = IF g = h THEN w ELSE vecs[g]
  BY ExceptSeq DEF IInv
<1>2. IInv' /\ Calm'
  BY <1>1 DEF IInv, Calm, Idle
<1>3. Arr' = [g \in 1 .. Len(vecs) |-> Elements(vecs'[g], vecs'[g].len)]
  <2>1. loop'.kind # "extend"
    BY <1>2 DEF Calm, Idle
  <2> QED
    BY <1>1, <2>1 DEF Arr, ShownArray
<1>4. Arr' = [Arr EXCEPT ![h] = Elements(w, w.len)]
  <2>1. Arr = [g \in 1 .. Len(vecs) |-> Elements(vecs[g], vecs[g].len)]
    BY ShownCalm
  <2> QED
    BY <1>1, <1>3, <2>1
<1>5. Obj' = Obj
  BY DEF Obj, ShownObject
<1> QED
  BY <1>2, <1>4, <1>5

\* A call that changes the table of one object.
LEMMA ObjectChanges ==
  ASSUME IInv, Calm, NEW o \in 1 .. Len(objs), NEW w \in Objects,
         objs' = [objs EXCEPT ![o] = w], UNCHANGED <<vecs, loop>>
  PROVE  /\ IInv'
         /\ Obj' = [Obj EXCEPT ![o] = FieldMap(w)]
         /\ Arr' = Arr
<1>1. /\ objs' \in Seq(Objects) /\ Len(objs') = Len(objs)
      /\ \A p \in 1 .. Len(objs) : objs'[p] = IF p = o THEN w ELSE objs[p]
  BY ExceptSeq DEF IInv
<1>2. IInv' /\ Calm'
  BY <1>1 DEF IInv, Calm, Idle
<1>3. Obj' = [p \in 1 .. Len(objs) |-> FieldMap(objs'[p])]
  <2>1. loop'.kind # "merge"
    BY <1>2 DEF Calm, Idle
  <2> QED
    BY <1>1, <2>1 DEF Obj, ShownObject
<1>4. Obj' = [Obj EXCEPT ![o] = FieldMap(w)]
  <2>1. Obj = [p \in 1 .. Len(objs) |-> FieldMap(objs[p])]
    BY ShownCalm
  <2> QED
    BY <1>1, <1>3, <2>1
<1>5. Arr' = Arr
  BY DEF Arr, ShownArray
<1> QED
  BY <1>2, <1>4, <1>5

\* A call that changes neither.
LEMMA NothingChanges ==
  ASSUME IInv, UNCHANGED <<vecs, objs, loop>>
  PROVE  IInv' /\ Arr' = Arr /\ Obj' = Obj
<1>1. IInv'
  BY DEF IInv, Extending, Merging, Idle
<1>2. Arr' = Arr
  BY DEF Arr, ShownArray
<1>3. Obj' = Obj
  BY DEF Obj, ShownObject
<1> QED
  BY <1>1, <1>2, <1>3

-----------------------------------------------------------------------------
(* The invariant and the refinement, call by call.                         *)

\* A new array is empty.
LEMMA NewVector ==
  ASSUME IInv, VecNew
  PROVE  IInv' /\ Arr' = Append(Arr, <<>>) /\ Obj' = Obj
<1>1. EmptyVec \in Vectors /\ EmptyVec.len = 0
  <2>1. 0 \in Nat /\ 0 \in 0 .. 0 /\ <<>> \in [1 .. 0 -> Cells]
    BY EmptySeq, LenProperties
  <2>2. \A n \in 1 .. 0 : <<>>[n] \in Values
    OBVIOUS
  <2>3. [elements |-> <<>>, len |-> 0, cap |-> 0] \in Vectors
    BY <2>1, <2>2, VectorIntro, Zenon
  <2> QED
    BY <2>3 DEF EmptyVec
<1>2. vecs \in Seq(Vectors) /\ Calm /\ vecs' = Append(vecs, EmptyVec) /\ UNCHANGED <<objs, loop>>
  BY DEF IInv, VecNew
<1>3. /\ vecs' \in Seq(Vectors) /\ Len(vecs') = Len(vecs) + 1 /\ Len(vecs) \in Nat
      /\ \A h \in 1 .. Len(vecs) : vecs'[h] = vecs[h]
      /\ vecs'[Len(vecs) + 1] = EmptyVec
  BY <1>1, <1>2
<1>4. IInv' /\ Calm'
  BY <1>2, <1>3 DEF IInv, Calm, Idle
<1>5. Obj' = Obj
  BY <1>2 DEF Obj, ShownObject
<1>6. Arr = [h \in 1 .. Len(vecs) |-> Elements(vecs[h], vecs[h].len)]
  BY <1>2, ShownCalm
<1>7. Arr' = [h \in 1 .. Len(vecs) + 1 |-> Elements(vecs'[h], vecs'[h].len)]
  <2>1. loop'.kind # "extend"
    BY <1>4 DEF Calm, Idle
  <2> QED
    BY <1>3, <2>1 DEF Arr, ShownArray
<1>8. Elements(EmptyVec, 0) = <<>>
  <2>1. Elements(EmptyVec, 0) \in Seq(Values) /\ Len(Elements(EmptyVec, 0)) = 0
    BY <1>1, ElementsFacts
  <2> QED
    BY <2>1, EmptySeq
<1>9. Arr \in Seq(Seq(Values)) /\ Arr' \in Seq(Seq(Values)) /\ Len(Arr) = Len(vecs) /\ Len(Arr') = Len(vecs) + 1
  <2>1. \A h \in 1 .. Len(vecs) : Elements(vecs[h], vecs[h].len) \in Seq(Values)
    BY <1>2, BlocksOf, ElementsFacts, VectorFacts
  <2>2. \A h \in 1 .. Len(vecs) + 1 : Elements(vecs'[h], vecs'[h].len) \in Seq(Values)
    <3>1. ASSUME NEW h \in 1 .. Len(vecs) + 1 PROVE Elements(vecs'[h], vecs'[h].len) \in Seq(Values)
      <4>1. vecs'[h] \in Vectors
        BY <1>3
      <4>2. vecs'[h].len \in 0 .. vecs'[h].len
        BY <4>1, VectorFacts
      <4> QED
        BY <4>1, <4>2, ElementsFacts
    <3> QED
      BY <3>1
  <2>3. Arr \in [1 .. Len(vecs) -> Seq(Values)] /\ Arr' \in [1 .. Len(vecs) + 1 -> Seq(Values)]
    BY <1>6, <1>7, <2>1, <2>2
  <2>4. Len(vecs) + 1 \in Nat
    BY <1>3
  <2> QED
    BY <1>3, <2>3, <2>4, FunctionIsSeq
<1>10. /\ Append(Arr, <<>>) \in Seq(Seq(Values)) /\ Len(Append(Arr, <<>>)) = Len(vecs) + 1
       /\ \A h \in 1 .. Len(vecs) : Append(Arr, <<>>)[h] = Arr[h]
       /\ Append(Arr, <<>>)[Len(vecs) + 1] = <<>>
  BY <1>9, EmptySeq, AppendFacts
<1>11. ASSUME NEW h \in 1 .. Len(vecs) + 1 PROVE Arr'[h] = Append(Arr, <<>>)[h]
  <2>0. Arr'[h] = Elements(vecs'[h], vecs'[h].len)
    BY <1>7
  <2>1. CASE h \in 1 .. Len(vecs)
    <3>1. Arr[h] = Elements(vecs[h], vecs[h].len)
      BY <1>6, <2>1
    <3> QED
      BY <1>3, <1>10, <2>0, <2>1, <3>1
  <2>2. CASE h = Len(vecs) + 1
    BY <1>1, <1>3, <1>8, <1>10, <2>0, <2>2, Zenon
  <2>3. h \in 1 .. Len(vecs) \/ h = Len(vecs) + 1
    BY <1>3
  <2> QED
    BY <2>1, <2>2, <2>3, Zenon
<1>12. Arr' = Append(Arr, <<>>)
  BY <1>9, <1>10, <1>11, SeqEqual
<1> QED
  BY <1>4, <1>5, <1>12

\* A new object has no field.
LEMMA NewTable ==
  ASSUME IInv, ObjectNew
  PROVE  IInv' /\ Obj' = Append(Obj, [k \in Keys |-> Absent]) /\ Arr' = Arr
<1> DEFINE none == [k \in Keys |-> Absent]
           Maps == [Keys -> Values \cup {Absent}]
<1>1. EmptyObject \in Objects
  <2>1. 0 \in Nat /\ 0 \in 0 .. 0 /\ <<>> \in [1 .. 0 -> FieldCells]
    BY EmptySeq, LenProperties
  <2>2. /\ \A n \in 1 .. 0 : <<>>[n] \in Fields
        /\ \A m, n \in 1 .. 0 : <<>>[m].key = <<>>[n].key => m = n
    OBVIOUS
  <2>3. [fields |-> <<>>, count |-> 0, cap |-> 0] \in Objects
    BY <2>1, <2>2, ObjectIntro, Zenon
  <2> QED
    BY <2>3 DEF EmptyObject
<1>2. objs \in Seq(Objects) /\ Calm /\ objs' = Append(objs, EmptyObject) /\ UNCHANGED <<vecs, loop>>
  BY DEF IInv, ObjectNew
<1>3. /\ objs' \in Seq(Objects) /\ Len(objs') = Len(objs) + 1 /\ Len(objs) \in Nat
      /\ \A o \in 1 .. Len(objs) : objs'[o] = objs[o]
      /\ objs'[Len(objs) + 1] = EmptyObject
  BY <1>1, <1>2
<1>4. IInv' /\ Calm'
  BY <1>2, <1>3 DEF IInv, Calm, Idle
<1>5. Arr' = Arr
  BY <1>2 DEF Arr, ShownArray
<1>6. Obj = [o \in 1 .. Len(objs) |-> FieldMap(objs[o])]
  BY <1>2, ShownCalm
<1>7. Obj' = [o \in 1 .. Len(objs) + 1 |-> FieldMap(objs'[o])]
  <2>1. loop'.kind # "merge"
    BY <1>4 DEF Calm, Idle
  <2> QED
    BY <1>3, <2>1 DEF Obj, ShownObject
<1>8. FieldMap(EmptyObject) = none
  BY DEF FieldMap, Carriers, EmptyObject
<1>9. Obj \in Seq(Maps) /\ Obj' \in Seq(Maps) /\ Len(Obj) = Len(objs) /\ Len(Obj') = Len(objs) + 1
  <2>1. /\ \A o \in 1 .. Len(objs) : FieldMap(objs[o]) \in Maps
        /\ \A o \in 1 .. Len(objs) + 1 : FieldMap(objs'[o]) \in Maps
    BY <1>2, <1>3, FieldMapFacts
  <2> HIDE DEF Maps
  <2>2. Obj \in [1 .. Len(objs) -> Maps] /\ Obj' \in [1 .. Len(objs) + 1 -> Maps]
    BY <1>6, <1>7, <2>1
  <2>3. Len(objs) + 1 \in Nat
    BY <1>3
  <2> QED
    BY <1>3, <2>2, <2>3, FunctionIsSeq
<1>10. none \in Maps
  OBVIOUS
<1> HIDE DEF none, Maps
<1>11. /\ Append(Obj, none) \in Seq(Maps) /\ Len(Append(Obj, none)) = Len(objs) + 1
       /\ \A o \in 1 .. Len(objs) : Append(Obj, none)[o] = Obj[o]
       /\ Append(Obj, none)[Len(objs) + 1] = none
  BY <1>9, <1>10, AppendFacts
<1>12. ASSUME NEW o \in 1 .. Len(objs) + 1 PROVE Obj'[o] = Append(Obj, none)[o]
  <2>0. Obj'[o] = FieldMap(objs'[o])
    BY <1>7
  <2>1. CASE o \in 1 .. Len(objs)
    <3>1. Obj[o] = FieldMap(objs[o])
      BY <1>6, <2>1
    <3> QED
      BY <1>3, <1>11, <2>0, <2>1, <3>1
  <2>2. CASE o = Len(objs) + 1
    BY <1>3, <1>8, <1>11, <2>0, <2>2, Zenon
  <2>3. o \in 1 .. Len(objs) \/ o = Len(objs) + 1
    BY <1>3
  <2> QED
    BY <2>1, <2>2, <2>3, Zenon
<1>13. Obj' = Append(Obj, none)
  BY <1>9, <1>11, <1>12, SeqEqual
<1> QED
  BY <1>4, <1>5, <1>13 DEF none

\* What an array handle stands for between calls.
LEMMA ArrayIs ==
  ASSUME IInv, Calm, NEW h \in VecHandles
  PROVE  /\ h \in A!ArrayHandles
         /\ h = Null => A!Array(h) = <<>> /\ Len(A!Array(h)) = 0
         /\ h # Null => /\ h \in 1 .. Len(vecs) /\ vecs[h] \in Vectors
                        /\ vecs[h].len \in Nat
                        /\ A!Array(h) = Arr[h]
                        /\ Arr[h] = Elements(vecs[h], vecs[h].len)
                        /\ Len(A!Array(h)) = vecs[h].len
<1>1. Len(vecs) \in Nat /\ Len(Arr) = Len(vecs)
  BY ShownHandles
<1>2. h \in A!ArrayHandles
  BY <1>1 DEF VecHandles, A!ArrayHandles
<1>3. CASE h = Null
  BY <1>2, <1>3, EmptySeq DEF A!Array, A!Null, Null
<1>4. CASE h # Null
  <2>1. h \in 1 .. Len(vecs)
    BY <1>1, <1>4 DEF VecHandles, Null
  <2>2. vecs[h] \in Vectors
    BY <2>1, BlocksOf
  <2>3. Arr[h] = Elements(vecs[h], vecs[h].len)
    BY <2>1, ShownCalm
  <2>4. A!Array(h) = Arr[h]
    BY <1>4 DEF A!Array, A!Null, Null
  <2>5. vecs[h].len \in Nat /\ vecs[h].len \in 0 .. vecs[h].len
    BY <2>2, VectorFacts
  <2>6. Len(Arr[h]) = vecs[h].len
    BY <2>2, <2>3, <2>5, ElementsFacts
  <2> QED
    BY <1>2, <1>4, <2>1, <2>2, <2>3, <2>4, <2>5, <2>6
<1> QED
  BY <1>3, <1>4

LEMMA VecNewStep ==
  ASSUME IInv, VecNew
  PROVE  IInv' /\ A!Next
<1>1. IInv' /\ Arr' = Append(Arr, <<>>) /\ Obj' = Obj
  BY NewVector
<1>2. Len(Arr) = Len(vecs)
  BY ShownHandles
<1>3. A!NewArray
  BY <1>1, <1>2 DEF VecNew, A!NewArray
<1> QED
  BY <1>1, <1>3 DEF A!Next

LEMMA ObjectNewStep ==
  ASSUME IInv, ObjectNew
  PROVE  IInv' /\ A!Next
<1>1. IInv' /\ Obj' = Append(Obj, [k \in Keys |-> Absent]) /\ Arr' = Arr
  BY NewTable
<1>2. Len(Obj) = Len(objs)
  BY ShownHandles
<1>3. A!NewObject
  BY <1>1, <1>2 DEF ObjectNew, A!NewObject
<1> QED
  BY <1>1, <1>3 DEF A!Next

LEMMA VecPushStep ==
  ASSUME IInv, NEW h \in VecHandles, NEW x \in Values, VecPush(h, x)
  PROVE  IInv' /\ A!Next
<1>0. Calm /\ UNCHANGED <<objs, loop, res>>
  BY DEF VecPush
<1>1. CASE h = Null
  <2>1. vecs' = vecs
    BY <1>1 DEF VecPush
  <2>2. IInv' /\ Arr' = Arr /\ Obj' = Obj
    BY <1>0, <2>1, NothingChanges
  <2>3. A!Room(h)
    BY <1>0, <1>1, ArrayIs DEF VecPush, Room, A!Room
  <2>4. A!Push(h, x)
    BY <1>0, <1>1, <2>2, <2>3 DEF A!Push, A!SetArray, A!Null, Null
  <2> QED
    BY <1>0, <2>2, <2>4, ArrayIs DEF A!Next
<1>2. CASE h # Null
  <2> DEFINE w == Pushed(vecs[h], x)
  <2>1. /\ h \in 1 .. Len(vecs) /\ vecs[h] \in Vectors
        /\ A!Array(h) = Elements(vecs[h], vecs[h].len)
        /\ Len(A!Array(h)) = vecs[h].len
    BY <1>0, <1>2, ArrayIs
  <2>2. w \in Vectors /\ w.len = vecs[h].len + 1
    BY <2>1, PushedSound
  <2>3. Elements(w, w.len) = Append(A!Array(h), x)
    BY <2>1, <2>2, PushedElements
  <2>4. vecs' = [vecs EXCEPT ![h] = w]
    BY <1>2 DEF VecPush
  <2> HIDE DEF w
  <2>5. IInv' /\ Arr' = [Arr EXCEPT ![h] = Append(A!Array(h), x)] /\ Obj' = Obj
    BY <1>0, <2>1, <2>2, <2>3, <2>4, VectorChanges
  <2>6. A!Room(h)
    BY <1>2, <2>1 DEF VecPush, Room, A!Room
  <2>7. A!Push(h, x)
    BY <1>0, <1>2, <2>5, <2>6 DEF A!Push, A!SetArray, A!Null, Null
  <2> QED
    BY <1>0, <2>5, <2>7, ArrayIs DEF A!Next
<1> QED
  BY <1>1, <1>2

LEMMA VecUnshiftStep ==
  ASSUME IInv, NEW h \in VecHandles, NEW x \in Values, VecUnshift(h, x)
  PROVE  IInv' /\ A!Next
<1>0. Calm /\ UNCHANGED <<objs, loop, res>>
  BY DEF VecUnshift
<1>1. CASE h = Null
  <2>1. vecs' = vecs
    BY <1>1 DEF VecUnshift
  <2>2. IInv' /\ Arr' = Arr /\ Obj' = Obj
    BY <1>0, <2>1, NothingChanges
  <2>3. A!Room(h)
    BY <1>0, <1>1, ArrayIs DEF VecUnshift, Room, A!Room
  <2>4. A!Unshift(h, x)
    BY <1>0, <1>1, <2>2, <2>3 DEF A!Unshift, A!SetArray, A!Null, Null
  <2> QED
    BY <1>0, <2>2, <2>4, ArrayIs DEF A!Next
<1>2. CASE h # Null
  <2> DEFINE w == Unshifted(vecs[h], x)
  <2>1. /\ h \in 1 .. Len(vecs) /\ vecs[h] \in Vectors
        /\ A!Array(h) = Elements(vecs[h], vecs[h].len)
        /\ Len(A!Array(h)) = vecs[h].len
    BY <1>0, <1>2, ArrayIs
  <2>2. w \in Vectors /\ w.len = vecs[h].len + 1
    BY <2>1, UnshiftedSound
  <2>3. Elements(w, w.len) = <<x>> \o A!Array(h)
    BY <2>1, <2>2, UnshiftedElements
  <2>4. vecs' = [vecs EXCEPT ![h] = w]
    BY <1>2 DEF VecUnshift
  <2> HIDE DEF w
  <2>5. IInv' /\ Arr' = [Arr EXCEPT ![h] = <<x>> \o A!Array(h)] /\ Obj' = Obj
    BY <1>0, <2>1, <2>2, <2>3, <2>4, VectorChanges
  <2>6. A!Room(h)
    BY <1>2, <2>1 DEF VecUnshift, Room, A!Room
  <2>7. A!Unshift(h, x)
    BY <1>0, <1>2, <2>5, <2>6 DEF A!Unshift, A!SetArray, A!Null, Null
  <2> QED
    BY <1>0, <2>5, <2>7, ArrayIs DEF A!Next
<1> QED
  BY <1>1, <1>2

LEMMA VecPopStep ==
  ASSUME IInv, NEW h \in VecHandles, VecPop(h)
  PROVE  IInv' /\ A!Next
<1>0. Calm /\ UNCHANGED <<objs, loop>>
  BY DEF VecPop
<1>1. CASE h = Null
  <2>1. vecs' = vecs /\ res' = Zero
    BY <1>1 DEF VecPop
  <2>2. IInv' /\ Arr' = Arr /\ Obj' = Obj
    BY <1>0, <2>1, NothingChanges
  <2>3. A!Array(h) = <<>>
    BY <1>0, <1>1, ArrayIs
  <2>4. A!Pop(h)
    BY <1>1, <2>1, <2>2, <2>3 DEF A!Pop, A!SetArray, A!Null, Null
  <2> QED
    BY <1>0, <2>2, <2>4, ArrayIs DEF A!Next
<1>2. CASE h # Null /\ vecs[h].len = 0
  <2>1. vecs' = vecs /\ res' = Zero
    BY <1>2 DEF VecPop
  <2>2. IInv' /\ Arr' = Arr /\ Obj' = Obj
    BY <1>0, <2>1, NothingChanges
  <2>3. /\ h \in 1 .. Len(vecs) /\ vecs[h] \in Vectors
        /\ A!Array(h) = Arr[h] /\ A!Array(h) = Elements(vecs[h], 0)
    BY <1>0, <1>2, ArrayIs
  <2>4. A!Array(h) = <<>>
    <3>1. 0 \in 0 .. vecs[h].len
      BY <1>2
    <3>2. Elements(vecs[h], 0) \in Seq(Values) /\ Len(Elements(vecs[h], 0)) = 0
      BY <2>3, <3>1, ElementsFacts
    <3> QED
      BY <2>3, <3>2, EmptySeq
  <2>5. Arr' = [Arr EXCEPT ![h] = <<>>]
    <3>1. Arr = [g \in 1 .. Len(vecs) |-> Arr[g]]
      BY DEF Arr
    <3> HIDE DEF Arr
    <3>2. Arr[h] = <<>>
      BY <2>3, <2>4
    <3> QED
      BY <2>2, <2>3, <3>1, <3>2
  <2>6. A!Pop(h)
    BY <1>2, <2>1, <2>2, <2>4, <2>5 DEF A!Pop, A!SetArray, A!Null, Null
  <2> QED
    BY <1>0, <2>2, <2>6, ArrayIs DEF A!Next
<1>3. CASE h # Null /\ vecs[h].len # 0
  <2> DEFINE w == [vecs[h] EXCEPT !.len = vecs[h].len - 1]
             a == A!Array(h)
  <2>1. /\ h \in 1 .. Len(vecs) /\ vecs[h] \in Vectors
        /\ a = Elements(vecs[h], vecs[h].len)
        /\ Len(a) = vecs[h].len
    BY <1>0, <1>3, ArrayIs
  <2>2. /\ w \in Vectors
        /\ Elements(w, vecs[h].len - 1) = SubSeq(a, 1, Len(a) - 1)
        /\ a[Len(a)] = vecs[h].elements[vecs[h].len]
    BY <1>3, <2>1, PoppedElements
  <2>3. w.len = vecs[h].len - 1
    BY <2>1, VectorRecord
  <2>4. /\ vecs' = [vecs EXCEPT ![h] = w]
        /\ res' = a[Len(a)]
    BY <1>3, <2>2 DEF VecPop
  <2>5. a # <<>>
    BY <1>3, <2>1, EmptySeq
  <2> HIDE DEF w, a
  <2>6. IInv' /\ Arr' = [Arr EXCEPT ![h] = SubSeq(a, 1, Len(a) - 1)] /\ Obj' = Obj
    <3>1. Elements(w, w.len) = SubSeq(a, 1, Len(a) - 1)
      BY <2>2, <2>3
    <3>2. h \in 1 .. Len(vecs) /\ w \in Vectors /\ vecs' = [vecs EXCEPT ![h] = w]
      BY <2>1, <2>2, <2>4
    <3>3. IInv' /\ Arr' = [Arr EXCEPT ![h] = Elements(w, w.len)] /\ Obj' = Obj
      BY <1>0, <3>2, VectorChanges
    <3> QED
      BY <3>1, <3>3
  <2>7. A!Pop(h)
    BY <1>3, <2>4, <2>5, <2>6 DEF A!Pop, A!SetArray, A!Null, Null, a
  <2> QED
    BY <1>0, <2>6, <2>7, ArrayIs DEF A!Next
<1> QED
  BY <1>1, <1>2, <1>3

LEMMA VecLenStep ==
  ASSUME IInv, NEW h \in VecHandles, VecLen(h)
  PROVE  IInv' /\ A!Next
<1>1. Calm /\ IInv' /\ Arr' = Arr /\ Obj' = Obj
  BY NothingChanges DEF VecLen
<1>2. A!Length(h)
  BY <1>1, ArrayIs DEF VecLen, A!Length
<1> QED
  BY <1>1, <1>2, ArrayIs DEF A!Next

\* Inside means the same for the block and for the sequence.
LEMMA InsideIs ==
  ASSUME IInv, Calm, NEW h \in VecHandles, NEW i \in Int
  PROVE  /\ Inside(h, i) <=> A!Has(h, i + 1)
         /\ Inside(h, i) => /\ i + 1 \in 1 .. vecs[h].len
                            /\ A!Array(h)[i + 1] = vecs[h].elements[i + 1]
<1>1. CASE h = Null
  <2>1. Len(A!Array(h)) = 0
    BY <1>1, ArrayIs
  <2>2. ~ Inside(h, i)
    BY <1>1 DEF Inside
  <2>3. ~ A!Has(h, i + 1)
    BY <2>1 DEF A!Has
  <2> QED
    BY <2>2, <2>3
<1>2. CASE h # Null
  <2>1. /\ vecs[h] \in Vectors /\ vecs[h].len \in Nat
        /\ A!Array(h) = Elements(vecs[h], vecs[h].len)
        /\ Len(A!Array(h)) = vecs[h].len
    BY <1>2, ArrayIs
  <2>2. Inside(h, i) <=> i + 1 \in 1 .. vecs[h].len
    BY <1>2, <2>1 DEF Inside
  <2>3. A!Has(h, i + 1) <=> i + 1 \in 1 .. vecs[h].len
    BY <2>1 DEF A!Has
  <2>4. ASSUME i + 1 \in 1 .. vecs[h].len
        PROVE  A!Array(h)[i + 1] = vecs[h].elements[i + 1]
    <3>1. vecs[h].len \in 0 .. vecs[h].len
      BY <2>1
    <3> QED
      BY <2>1, <2>4, <3>1, ElementsFacts
  <2> QED
    BY <2>2, <2>3, <2>4
<1> QED
  BY <1>1, <1>2

LEMMA VecGetStep ==
  ASSUME IInv, NEW h \in VecHandles, NEW i \in -1 .. MaxLen, VecGet(h, i)
  PROVE  IInv' /\ A!Next
<1>1. Calm /\ IInv' /\ Arr' = Arr /\ Obj' = Obj
  BY NothingChanges DEF VecGet
<1>2. i \in Int
  OBVIOUS
<1>3. res' = IF A!Has(h, i + 1) THEN A!Array(h)[i + 1] ELSE Zero
  BY <1>1, <1>2, InsideIs DEF VecGet
<1>4. A!Get(h, i)
  BY <1>1, <1>3 DEF A!Get
<1> QED
  BY <1>1, <1>4, ArrayIs DEF A!Next

LEMMA VecSetStep ==
  ASSUME IInv, NEW h \in VecHandles, NEW i \in -1 .. MaxLen, NEW x \in Values, VecSet(h, i, x)
  PROVE  IInv' /\ A!Next
<1>0. Calm /\ i \in Int /\ UNCHANGED <<objs, loop, res>>
  BY DEF VecSet
<1>1. CASE ~ Inside(h, i)
  <2>1. vecs' = vecs
    BY <1>1 DEF VecSet
  <2>2. IInv' /\ Arr' = Arr /\ Obj' = Obj
    BY <1>0, <2>1, NothingChanges
  <2>3. ~ A!Has(h, i + 1)
    BY <1>0, <1>1, InsideIs
  <2>4. Arr' = IF h = Null THEN Arr ELSE [Arr EXCEPT ![h] = A!Array(h)]
    <3>1. CASE h = Null
      BY <2>2, <3>1
    <3>2. CASE h # Null
      <4>1. h \in 1 .. Len(vecs) /\ A!Array(h) = Arr[h]
        BY <1>0, <3>2, ArrayIs
      <4>2. Arr = [g \in 1 .. Len(vecs) |-> Arr[g]]
        BY DEF Arr
      <4> QED
        BY <2>2, <3>2, <4>1, <4>2
    <3> QED
      BY <3>1, <3>2
  <2>5. A!Put(h, i, x)
    BY <1>0, <2>2, <2>3, <2>4 DEF A!Put, A!SetArray, A!Null, Null
  <2> QED
    BY <1>0, <2>2, <2>5, ArrayIs DEF A!Next
<1>2. CASE Inside(h, i)
  <2> DEFINE b == [vecs[h].elements EXCEPT ![i + 1] = x]
             w == [vecs[h] EXCEPT !.elements = b]
             a == [A!Array(h) EXCEPT ![i + 1] = x]
  <2>0. h # Null
    BY <1>2 DEF Inside
  <2>1. /\ h \in 1 .. Len(vecs) /\ vecs[h] \in Vectors
        /\ A!Array(h) = Elements(vecs[h], vecs[h].len)
    BY <1>0, <2>0, ArrayIs
  <2>2. A!Has(h, i + 1) /\ i + 1 \in 1 .. vecs[h].len
    BY <1>0, <1>2, InsideIs
  <2>3. w \in Vectors /\ w.len = vecs[h].len /\ Elements(w, vecs[h].len) = a
    <3> DEFINE v == vecs[h]
               n == i + 1
    <3>1. v \in Vectors /\ n \in 1 .. v.len /\ A!Array(h) = Elements(v, v.len)
      BY <2>1, <2>2
    <3> HIDE DEF v, n
    <3>2. w = [elements |-> [v.elements EXCEPT ![n] = x], len |-> v.len, cap |-> v.cap]
      BY <2>1, VectorRecord DEF v, n
    <3> HIDE DEF w
    <3>3. /\ w \in Vectors /\ w.len = v.len
          /\ Elements(w, v.len) = [Elements(v, v.len) EXCEPT ![n] = x]
      BY <3>1, <3>2, SetElements
    <3> QED
      BY <3>1, <3>3 DEF v, n
  <2>4. vecs' = [vecs EXCEPT ![h] = w]
    BY <1>2, <2>1 DEF VecSet
  <2> HIDE DEF w, a
  <2>5. IInv' /\ Arr' = [Arr EXCEPT ![h] = a] /\ Obj' = Obj
    BY <1>0, <2>1, <2>3, <2>4, VectorChanges
  <2>6. A!Put(h, i, x)
    BY <1>0, <2>0, <2>2, <2>5 DEF A!Put, A!SetArray, A!Null, Null, a
  <2> QED
    BY <1>0, <2>5, <2>6, ArrayIs DEF A!Next
<1> QED
  BY <1>1, <1>2

\* What an object handle stands for between calls.
LEMMA ObjectIs ==
  ASSUME IInv, Calm, NEW o \in ObjHandles
  PROVE  /\ o \in A!ObjectHandles
         /\ o # Null => /\ o \in 1 .. Len(objs) /\ objs[o] \in Objects
                        /\ Obj[o] = FieldMap(objs[o])
<1>1. Len(objs) \in Nat /\ Len(Obj) = Len(objs)
  BY ShownHandles
<1>2. o \in A!ObjectHandles
  BY <1>1 DEF ObjHandles, A!ObjectHandles
<1>3. CASE o # Null
  <2>1. o \in 1 .. Len(objs)
    BY <1>1, <1>3 DEF ObjHandles, Null
  <2> QED
    BY <1>2, <2>1, BlocksOf, ShownCalm
<1> QED
  BY <1>2, <1>3

\* A key is absent from the map if no slot carries it.
LEMMA AbsentIs ==
  ASSUME NEW o \in Objects, NEW k \in Keys
  PROVE  /\ Carriers(o, k) = {} <=> FieldMap(o)[k] = Absent
         /\ (\E n \in 1 .. o.count : o.fields[n].key = k) <=> FieldMap(o)[k] # Absent
         /\ Carriers(o, k) # {} => FieldMap(o)[k] = o.fields[First(o, k)].value
<1>1. CASE Carriers(o, k) = {}
  BY <1>1, FieldMapFacts DEF Carriers
<1>2. CASE Carriers(o, k) # {}
  <2>1. PICK n \in 1 .. o.count : o.fields[n].key = k
    BY <1>2 DEF Carriers
  <2>2. First(o, k) = n
    BY <2>1, FirstFacts
  <2>3. FieldMap(o)[k] = o.fields[n].value
    BY <2>1, FieldMapFacts
  <2>4. o.fields[n].value # Absent
    BY ObjectFacts, RuntimeAssumption DEF Fields
  <2> QED
    BY <1>2, <2>1, <2>2, <2>3, <2>4
<1> QED
  BY <1>1, <1>2

LEMMA ObjectGetStep ==
  ASSUME IInv, NEW o \in ObjHandles, NEW k \in Keys, ObjectGet(o, k)
  PROVE  IInv' /\ A!Next
<1>1. Calm /\ IInv' /\ Arr' = Arr /\ Obj' = Obj
  BY NothingChanges DEF ObjectGet
<1>2. res' = IF o = Null \/ Obj[o][k] = Absent THEN Zero ELSE Obj[o][k]
  <2>1. CASE o = Null
    BY <2>1 DEF ObjectGet
  <2>2. CASE o # Null
    BY <1>1, <2>2, ObjectIs, AbsentIs DEF ObjectGet
  <2> QED
    BY <2>1, <2>2
<1>3. A!GetField(o, k)
  BY <1>1, <1>2 DEF A!GetField, A!Null, Null
<1> QED
  BY <1>1, <1>3, ObjectIs DEF A!Next

LEMMA ObjectSetStep ==
  ASSUME IInv, NEW o \in ObjHandles, NEW k \in Keys, NEW x \in Values, ObjectSet(o, k, x)
  PROVE  IInv' /\ A!Next
<1>0. Calm /\ UNCHANGED <<vecs, loop, res>>
  BY DEF ObjectSet
<1>1. CASE o = Null
  <2>1. objs' = objs
    BY <1>1 DEF ObjectSet
  <2>2. IInv' /\ Arr' = Arr /\ Obj' = Obj
    BY <1>0, <2>1, NothingChanges
  <2>3. A!SetField(o, k, x)
    BY <1>0, <1>1, <2>2 DEF A!SetField, A!Null, Null
  <2> QED
    BY <1>0, <2>2, <2>3, ObjectIs DEF A!Next
<1>2. CASE o # Null
  <2> DEFINE w == FieldSet(objs[o], k, x)
  <2>1. o \in 1 .. Len(objs) /\ objs[o] \in Objects /\ Obj[o] = FieldMap(objs[o])
    BY <1>0, <1>2, ObjectIs
  <2>2. w \in Objects /\ FieldMap(w) = [Obj[o] EXCEPT ![k] = x]
    <3>1. w \in Objects /\ FieldMap(w) = [FieldMap(objs[o]) EXCEPT ![k] = x]
      <4>1. \A t \in Objects : /\ FieldSet(t, k, x) \in Objects
                               /\ FieldMap(FieldSet(t, k, x)) = [FieldMap(t) EXCEPT ![k] = x]
        BY FieldSetSound
      <4> QED
        BY <2>1, <4>1, Zenon
    <3> QED
      BY <2>1, <3>1
  <2>3. objs' = [objs EXCEPT ![o] = w]
    BY <1>2 DEF ObjectSet
  <2> HIDE DEF w
  <2>4. IInv' /\ Obj' = [Obj EXCEPT ![o] = FieldMap(w)] /\ Arr' = Arr
    BY <1>0, <2>1, <2>2, <2>3, ObjectChanges
  <2>5. Obj' = [Obj EXCEPT ![o][k] = x]
    BY <2>2, <2>4
  <2>6. A!SetField(o, k, x)
    BY <1>0, <1>2, <2>4, <2>5 DEF A!SetField, A!Null, Null
  <2> QED
    BY <1>0, <2>4, <2>6, ObjectIs DEF A!Next
<1> QED
  BY <1>1, <1>2

-----------------------------------------------------------------------------
(* The spreads.  Only their last step is a step of Arrays.                 *)

\* What the handles show while an array is extended.
LEMMA ShownExtending ==
  ASSUME IInv, loop.kind = "extend"
  PROVE  /\ Extending
         /\ Arr = [h \in 1 .. Len(vecs) |->
                     Elements(vecs[h], IF h = loop.dest THEN loop.before ELSE vecs[h].len)]
         /\ Obj = [o \in 1 .. Len(objs) |-> FieldMap(objs[o])]
         /\ loop = [kind |-> "extend", dest |-> loop.dest, src |-> loop.src,
                    i |-> loop.i, before |-> loop.before]
         /\ loop.dest \in 1 .. Len(vecs) /\ loop.src \in 1 .. Len(vecs)
         /\ loop.i \in Nat /\ loop.before \in Nat
         /\ vecs[loop.dest] \in Vectors /\ vecs[loop.src] \in Vectors
         /\ vecs[loop.dest].len \in Nat /\ vecs[loop.src].len \in Nat
<1>1. Extending
  BY DEF IInv, Merging, Idle
<1>2. Arr = [h \in 1 .. Len(vecs) |->
               Elements(vecs[h], IF h = loop.dest THEN loop.before ELSE vecs[h].len)]
  BY DEF Arr, ShownArray
<1>3. Obj = [o \in 1 .. Len(objs) |-> FieldMap(objs[o])]
  BY DEF Obj, ShownObject
<1>4. /\ loop.dest \in 1 .. Len(vecs) /\ loop.src \in 1 .. Len(vecs)
      /\ loop.i \in Nat /\ loop.before \in Nat
      /\ loop = [kind |-> "extend", dest |-> loop.dest, src |-> loop.src,
                 i |-> loop.i, before |-> loop.before]
  BY <1>1 DEF Extending
<1>5. /\ vecs[loop.dest] \in Vectors /\ vecs[loop.src] \in Vectors
  BY <1>4, BlocksOf
<1>6. vecs[loop.dest].len \in Nat /\ vecs[loop.src].len \in Nat
  BY <1>5, VectorFacts
<1> QED
  BY <1>1, <1>2, <1>3, <1>4, <1>5, <1>6

LEMMA VecExtendStep ==
  ASSUME IInv, NEW d \in VecHandles, NEW s \in VecHandles, VecExtend(d, s)
  PROVE  IInv' /\ UNCHANGED A!avars
<1>0. Calm /\ UNCHANGED <<vecs, objs, res>>
  BY DEF VecExtend
<1>1. CASE s = Null
  <2>1. loop' = loop
    BY <1>0, <1>1 DEF VecExtend, Calm
  <2>2. IInv' /\ Arr' = Arr /\ Obj' = Obj
    BY <1>0, <2>1, NothingChanges
  <2> QED
    BY <1>0, <2>2 DEF A!avars
<1>2. CASE s # Null
  <2>1. /\ d \in 1 .. Len(vecs) /\ s \in 1 .. Len(vecs) /\ d # s
        /\ vecs[d].len \in Nat /\ vecs[s].len \in Nat
    BY <1>0, <1>2, ArrayIs DEF VecExtend
  <2>2. loop' = [kind |-> "extend", dest |-> d, src |-> s, i |-> 0, before |-> vecs[d].len]
    BY <1>2 DEF VecExtend
  <2>3. Extending'
    BY <1>0, <2>1, <2>2 DEF Extending
  <2>4. IInv'
    BY <1>0, <2>3 DEF IInv
  <2>5. Arr' = Arr
    <3>1. Arr = [h \in 1 .. Len(vecs) |-> Elements(vecs[h], vecs[h].len)]
      BY <1>0, ShownCalm
    <3>2. Arr' = [h \in 1 .. Len(vecs) |->
                    Elements(vecs[h], IF d = h THEN vecs[d].len ELSE vecs[h].len)]
      BY <1>0, <2>2 DEF Arr, ShownArray
    <3> QED
      BY <3>1, <3>2
  <2>6. Obj' = Obj
    <3>1. Obj = [o \in 1 .. Len(objs) |-> FieldMap(objs[o])]
      BY <1>0, ShownCalm
    <3> QED
      BY <1>0, <2>2, <3>1 DEF Obj, ShownObject
  <2> QED
    BY <1>0, <2>4, <2>5, <2>6 DEF A!avars
<1> QED
  BY <1>1, <1>2

LEMMA ExtendStepStep ==
  ASSUME IInv, ExtendStep
  PROVE  IInv' /\ UNCHANGED A!avars
<1> DEFINE d == loop.dest
           s == loop.src
           i == loop.i
           b == loop.before
           v == vecs[d]
           x == vecs[s].elements[i + 1]
           w == Pushed(v, x)
<1>0. /\ loop.kind = "extend" /\ i < vecs[s].len /\ UNCHANGED <<objs, res>>
      /\ vecs' = [vecs EXCEPT ![d] = w]
      /\ loop' = [loop EXCEPT !.i = i + 1]
  BY DEF ExtendStep
<1>1. /\ Extending /\ d \in 1 .. Len(vecs) /\ s \in 1 .. Len(vecs) /\ i \in Nat /\ b \in Nat
      /\ v \in Vectors /\ vecs[s] \in Vectors /\ v.len \in Nat /\ vecs[s].len \in Nat
      /\ loop = [kind |-> "extend", dest |-> d, src |-> s, i |-> i, before |-> b]
      /\ Arr = [h \in 1 .. Len(vecs) |-> Elements(vecs[h], IF h = d THEN b ELSE vecs[h].len)]
      /\ Obj = [o \in 1 .. Len(objs) |-> FieldMap(objs[o])]
  BY <1>0, ShownExtending
<1>2. d # s /\ v.len = b + i /\ \A n \in 1 .. i : v.elements[b + n] = vecs[s].elements[n]
  BY <1>1 DEF Extending
<1>3. loop' = [kind |-> "extend", dest |-> d, src |-> s, i |-> i + 1, before |-> b]
  BY <1>0, <1>1
<1>4. i + 1 \in 1 .. vecs[s].len /\ x \in Values
  <2>1. i + 1 \in 1 .. vecs[s].len
    BY <1>0, <1>1
  <2>2. vecs[s] \in Vectors
    BY <1>1
  <2> QED
    BY <2>1, <2>2, VectorFacts
<1>5. /\ w \in Vectors /\ w.len = v.len + 1
      /\ \A n \in 1 .. v.len : w.elements[n] = v.elements[n]
      /\ w.elements[v.len + 1] = x
  BY <1>1, <1>4, PushedSound
<1> HIDE DEF w, x
<1>6. /\ vecs' \in Seq(Vectors) /\ Len(vecs') = Len(vecs)
      /\ \A g \in 1 .. Len(vecs) : vecs'[g] = IF g = d THEN w ELSE vecs[g]
  BY <1>0, <1>1, <1>5, ExceptSeq DEF IInv
<1>7. vecs'[d] = w /\ vecs'[s] = vecs[s]
  BY <1>1, <1>2, <1>6
<1> HIDE DEF d, s, i, b, v
<1>8. Extending'
  <2>1. \A n \in 1 .. i + 1 : w.elements[b + n] = vecs[s].elements[n]
    <3>1. ASSUME NEW n \in 1 .. i + 1 PROVE w.elements[b + n] = vecs[s].elements[n]
      <4>1. CASE n = i + 1
        <5>1. b + n = v.len + 1
          BY <1>1, <1>2, <4>1
        <5> QED
          BY <1>5, <4>1, <5>1 DEF x
      <4>2. CASE n # i + 1
        <5>1. n \in 1 .. i /\ b + n \in 1 .. v.len
          BY <1>1, <1>2, <4>2
        <5> QED
          BY <1>2, <1>5, <5>1
      <4> QED
        BY <4>1, <4>2
    <3> QED
      BY <3>1
  <2>2. w.len = b + (i + 1)
    BY <1>1, <1>2, <1>5
  <2>3. loop' \in [kind : {"extend"}, dest : 1 .. Len(vecs'), src : 1 .. Len(vecs'),
                   i : Nat, before : Nat]
    BY <1>1, <1>3, <1>6
  <2>4. loop'.dest = d /\ loop'.src = s /\ loop'.i = i + 1 /\ loop'.before = b
    BY <1>3
  <2>5. i + 1 <= vecs[s].len
    BY <1>1, <1>4
  <2> QED
    BY <1>2, <1>7, <2>1, <2>2, <2>3, <2>4, <2>5 DEF Extending
<1>9. IInv'
  BY <1>0, <1>6, <1>8 DEF IInv
<1>10. Arr' = Arr
  <2>1. Arr' = [h \in 1 .. Len(vecs) |-> Elements(vecs'[h], IF d = h THEN b ELSE vecs'[h].len)]
    BY <1>3, <1>6 DEF Arr, ShownArray
  <2>2. Elements(w, b) = Elements(v, b)
    <3>1. \A m \in 1 .. b : w.elements[m] = v.elements[m]
      BY <1>1, <1>2, <1>5
    <3> QED
      BY <1>1, <3>1, ElementsEqual
  <2>3. ASSUME NEW h \in 1 .. Len(vecs)
        PROVE  Elements(vecs'[h], IF d = h THEN b ELSE vecs'[h].len)
                 = Elements(vecs[h], IF h = d THEN b ELSE vecs[h].len)
    <3>1. CASE h = d
      BY <1>7, <2>2, <3>1 DEF v
    <3>2. CASE h # d
      BY <1>6, <3>2
    <3> QED
      BY <3>1, <3>2
  <2> QED
    BY <1>1, <2>1, <2>3
<1>11. Obj' = Obj
  BY <1>0, <1>1, <1>3 DEF Obj, ShownObject
<1> QED
  BY <1>0, <1>9, <1>10, <1>11 DEF A!avars

\* A vector that holds the elements of another one behind its first b.
LEMMA ExtendedElements ==
  ASSUME NEW v \in Vectors, NEW u \in Vectors, NEW b \in Nat, v.len = b + u.len,
         \A n \in 1 .. u.len : v.elements[b + n] = u.elements[n]
  PROVE  Elements(v, v.len) = Elements(v, b) \o Elements(u, u.len)
<1> DEFINE e == Elements(v, v.len)
           p == Elements(v, b)
           q == Elements(u, u.len)
<1>1. /\ v.len \in Nat /\ u.len \in Nat
      /\ v.len \in 0 .. v.len /\ u.len \in 0 .. u.len /\ b \in 0 .. v.len
  BY VectorFacts
<1>2. e \in Seq(Values) /\ Len(e) = v.len /\ \A m \in 1 .. v.len : e[m] = v.elements[m]
  BY <1>1, ElementsFacts
<1>3. p \in Seq(Values) /\ Len(p) = b /\ \A m \in 1 .. b : p[m] = v.elements[m]
  BY <1>1, ElementsFacts
<1>4. q \in Seq(Values) /\ Len(q) = u.len /\ \A m \in 1 .. u.len : q[m] = u.elements[m]
  BY <1>1, ElementsFacts
<1> HIDE DEF e, p, q
<1>5. /\ p \o q \in Seq(Values) /\ Len(p \o q) = v.len
      /\ \A m \in 1 .. b : (p \o q)[m] = p[m]
      /\ \A m \in 1 .. u.len : (p \o q)[b + m] = q[m]
  <2>1. p \o q \in Seq(Values) /\ Len(p \o q) = b + u.len
    <3>1. p \o q \in Seq(Values) /\ Len(p \o q) = Len(p) + Len(q)
      BY <1>3, <1>4, ConcatProperties, Zenon
    <3> QED
      BY <1>3, <1>4, <3>1
  <2>2. \A m \in 1 .. b + u.len : (p \o q)[m] = IF m <= Len(p) THEN p[m] ELSE q[m - Len(p)]
    BY <1>3, <1>4, ConcatProperties
  <2>3. ASSUME NEW m \in 1 .. b PROVE (p \o q)[m] = p[m]
    BY <1>1, <1>3, <2>2
  <2>4. ASSUME NEW m \in 1 .. u.len PROVE (p \o q)[b + m] = q[m]
    <3>1. b + m \in 1 .. b + u.len /\ ~ b + m <= b /\ (b + m) - b = m
      BY <1>1
    <3> QED
      BY <1>3, <2>2, <3>1
  <2> QED
    BY <2>1, <2>3, <2>4
<1>6. ASSUME NEW m \in 1 .. v.len PROVE e[m] = (p \o q)[m]
  <2>1. CASE m <= b
    <3>1. m \in 1 .. b
      BY <1>1, <2>1
    <3> QED
      BY <1>2, <1>3, <1>5, <3>1
  <2>2. CASE ~ m <= b
    <3>1. m - b \in 1 .. u.len /\ b + (m - b) = m
      BY <1>1, <2>2
    <3> QED
      BY <1>2, <1>4, <1>5, <2>2, <3>1
  <2> QED
    BY <2>1, <2>2
<1>7. e = p \o q
  BY <1>2, <1>5, <1>6, SeqEqual
<1> QED
  BY <1>7 DEF e, p, q

LEMMA ExtendDoneStep ==
  ASSUME IInv, ExtendDone
  PROVE  IInv' /\ A!Next
<1> DEFINE d == loop.dest
           s == loop.src
           b == loop.before
<1>0. loop.kind = "extend" /\ loop.i >= vecs[s].len /\ loop' = Idle /\ UNCHANGED <<vecs, objs, res>>
  BY DEF ExtendDone
<1>1. /\ Extending /\ d \in 1 .. Len(vecs) /\ s \in 1 .. Len(vecs) /\ loop.i \in Nat /\ b \in Nat
      /\ vecs[d] \in Vectors /\ vecs[s] \in Vectors /\ vecs[s].len \in Nat
      /\ Arr = [h \in 1 .. Len(vecs) |-> Elements(vecs[h], IF h = d THEN b ELSE vecs[h].len)]
      /\ Obj = [o \in 1 .. Len(objs) |-> FieldMap(objs[o])]
  BY <1>0, ShownExtending
<1> HIDE DEF d, s, b
<1>2. /\ d # s /\ vecs[d].len = b + vecs[s].len
      /\ \A n \in 1 .. vecs[s].len : vecs[d].elements[b + n] = vecs[s].elements[n]
  <2>1. loop.i = vecs[s].len
    BY <1>0, <1>1 DEF Extending, s
  <2> QED
    BY <1>1, <2>1 DEF Extending, d, s, b
<1>3. IInv'
  BY <1>0 DEF IInv
<1>4. /\ Arr' = [h \in 1 .. Len(vecs) |-> Elements(vecs[h], vecs[h].len)]
      /\ Obj' = Obj
  <2>1. Calm'
    BY <1>0 DEF Calm, Idle
  <2>2. loop'.kind # "extend" /\ loop'.kind # "merge"
    BY <1>0 DEF Idle
  <2> QED
    BY <1>0, <1>1, <2>2 DEF Arr, Obj, ShownArray, ShownObject
<1>5. /\ Arr[d] = Elements(vecs[d], b)
      /\ Arr[s] = Elements(vecs[s], vecs[s].len)
  BY <1>1, <1>2
<1>6. Elements(vecs[d], vecs[d].len) = Arr[d] \o Arr[s]
  BY <1>1, <1>2, <1>5, ExtendedElements
<1>7. Arr' = [Arr EXCEPT ![d] = Arr[d] \o Arr[s]]
  BY <1>1, <1>4, <1>6
<1>8. d # Null /\ s # Null
  BY <1>1 DEF Null
<1>9. A!Extend(d, s)
  BY <1>0, <1>4, <1>7, <1>8 DEF A!Extend, A!SetArray, A!Array, A!Null, Null
<1>10. d \in A!ArrayHandles /\ s \in A!ArrayHandles
  BY <1>1, ShownHandles DEF A!ArrayHandles
<1> QED
  BY <1>3, <1>9, <1>10 DEF A!Next

\* What the handles show while an object is merged.
LEMMA ShownMerging ==
  ASSUME IInv, loop.kind = "merge"
  PROVE  /\ Merging
         /\ Obj = [o \in 1 .. Len(objs) |->
                     FieldMap(IF o = loop.dest THEN loop.before ELSE objs[o])]
         /\ Arr = [h \in 1 .. Len(vecs) |-> Elements(vecs[h], vecs[h].len)]
         /\ loop = [kind |-> "merge", dest |-> loop.dest, src |-> loop.src,
                    i |-> loop.i, before |-> loop.before]
         /\ loop.dest \in 1 .. Len(objs) /\ loop.src \in 1 .. Len(objs)
         /\ loop.i \in Nat /\ loop.before \in Objects
         /\ objs[loop.dest] \in Objects /\ objs[loop.src] \in Objects
         /\ objs[loop.src].count \in Nat
<1>1. Merging
  BY DEF IInv, Extending, Idle
<1>2. Obj = [o \in 1 .. Len(objs) |->
               FieldMap(IF o = loop.dest THEN loop.before ELSE objs[o])]
  BY DEF Obj, ShownObject
<1>3. Arr = [h \in 1 .. Len(vecs) |-> Elements(vecs[h], vecs[h].len)]
  BY DEF Arr, ShownArray
<1>4. /\ loop.dest \in 1 .. Len(objs) /\ loop.src \in 1 .. Len(objs)
      /\ loop.i \in Nat /\ loop.before \in Objects
      /\ loop = [kind |-> "merge", dest |-> loop.dest, src |-> loop.src,
                 i |-> loop.i, before |-> loop.before]
  BY <1>1 DEF Merging
<1>5. objs[loop.dest] \in Objects /\ objs[loop.src] \in Objects
  BY <1>4, BlocksOf
<1>6. objs[loop.src].count \in Nat
  BY <1>5, ObjectFacts
<1> QED
  BY <1>1, <1>2, <1>3, <1>4, <1>5, <1>6

LEMMA ObjectMergeStep ==
  ASSUME IInv, NEW d \in ObjHandles, NEW s \in ObjHandles, ObjectMerge(d, s)
  PROVE  IInv' /\ UNCHANGED A!avars
<1>0. Calm /\ UNCHANGED <<vecs, objs, res>>
  BY DEF ObjectMerge
<1>1. CASE s = Null
  <2>1. loop' = loop
    BY <1>0, <1>1 DEF ObjectMerge, Calm
  <2>2. IInv' /\ Arr' = Arr /\ Obj' = Obj
    BY <1>0, <2>1, NothingChanges
  <2> QED
    BY <1>0, <2>2 DEF A!avars
<1>2. CASE s # Null
  <2>1. /\ d \in 1 .. Len(objs) /\ s \in 1 .. Len(objs)
        /\ objs[d] \in Objects /\ objs[s].count \in Nat
    <3>1. d # Null
      BY DEF ObjectMerge
    <3> QED
      BY <1>0, <1>2, <3>1, ObjectIs, ObjectFacts
  <2>2. loop' = [kind |-> "merge", dest |-> d, src |-> s, i |-> 0, before |-> objs[d]]
    BY <1>2 DEF ObjectMerge
  <2>3. Merging'
    <3>1. loop' \in [kind : {"merge"}, dest : 1 .. Len(objs), src : 1 .. Len(objs),
                     i : Nat, before : Objects]
      BY <2>1, <2>2
    <3>2. /\ loop'.dest = d /\ loop'.src = s /\ loop'.i = 0 /\ loop'.before = objs[d]
      BY <2>2
    <3> QED
      BY <1>0, <2>1, <3>1, <3>2 DEF Merging, FieldMap, Carriers, First
  <2>4. IInv'
    BY <1>0, <2>3 DEF IInv
  <2>5. Obj' = Obj
    <3>1. Obj = [o \in 1 .. Len(objs) |-> FieldMap(objs[o])]
      BY <1>0, ShownCalm
    <3>2. Obj' = [o \in 1 .. Len(objs) |-> FieldMap(IF d = o THEN objs[d] ELSE objs[o])]
      BY <1>0, <2>2 DEF Obj, ShownObject
    <3> QED
      BY <3>1, <3>2
  <2>6. Arr' = Arr
    <3>1. Arr = [h \in 1 .. Len(vecs) |-> Elements(vecs[h], vecs[h].len)]
      BY <1>0, ShownCalm
    <3> QED
      BY <1>0, <2>2, <3>1 DEF Arr, ShownArray
  <2> QED
    BY <1>0, <2>4, <2>5, <2>6 DEF A!avars
<1> QED
  BY <1>1, <1>2

\* What is left of Merging once the loop record is looked through.
LEMMA MergingFacts ==
  ASSUME IInv, loop.kind = "merge"
  PROVE  /\ loop.i <= objs[loop.src].count
         /\ loop.dest = loop.src => objs[loop.dest] = loop.before
         /\ \A k \in Keys :
              FieldMap(objs[loop.dest])[k] =
                IF \E n \in 1 .. loop.i : objs[loop.src].fields[n].key = k
                THEN FieldMap(objs[loop.src])[k] ELSE FieldMap(loop.before)[k]
<1>1. Merging
  BY ShownMerging
<1> QED
  BY <1>1 DEF Merging

LEMMA MergeStepStep ==
  ASSUME IInv, MergeStep
  PROVE  IInv' /\ UNCHANGED A!avars
<1> DEFINE d == loop.dest
           s == loop.src
           i == loop.i
           b == loop.before
           f == objs[s].fields[i + 1]
           w == FieldSet(objs[d], f.key, f.value)
           Before(k) == \E n \in 1 .. i : objs[s].fields[n].key = k
           After(k) == \E n \in 1 .. i + 1 : objs[s].fields[n].key = k
<1>0. /\ loop.kind = "merge" /\ i < objs[s].count /\ UNCHANGED <<vecs, res>>
      /\ objs' = [objs EXCEPT ![d] = w]
      /\ loop' = [loop EXCEPT !.i = i + 1]
  BY DEF MergeStep
<1>1. /\ d \in 1 .. Len(objs) /\ s \in 1 .. Len(objs) /\ i \in Nat /\ b \in Objects
      /\ objs[d] \in Objects /\ objs[s] \in Objects /\ objs[s].count \in Nat
      /\ loop = [kind |-> "merge", dest |-> d, src |-> s, i |-> i, before |-> b]
      /\ Obj = [o \in 1 .. Len(objs) |-> FieldMap(IF o = d THEN b ELSE objs[o])]
      /\ Arr = [h \in 1 .. Len(vecs) |-> Elements(vecs[h], vecs[h].len)]
  BY <1>0, ShownMerging
<1>2. /\ d = s => objs[d] = b
      /\ \A k \in Keys : FieldMap(objs[d])[k] =
           IF Before(k) THEN FieldMap(objs[s])[k] ELSE FieldMap(b)[k]
  BY <1>0, MergingFacts
<1>3. loop' = [kind |-> "merge", dest |-> d, src |-> s, i |-> i + 1, before |-> b]
  BY <1>0, <1>1
<1> HIDE DEF d, s, i, b
<1>4. i + 1 \in 1 .. objs[s].count
  BY <1>0, <1>1
<1>5. /\ f.key \in Keys /\ f.value \in Values /\ f = [key |-> f.key, value |-> f.value]
      /\ FieldMap(objs[s])[f.key] = f.value
  <2>1. f \in Fields
    BY <1>1, <1>4, ObjectFacts
  <2> QED
    BY <1>1, <1>4, <2>1, FieldMapFacts DEF Fields
<1>6. \A k \in Keys : After(k) <=> (Before(k) \/ f.key = k)
  <2>1. \A n : n \in 1 .. i + 1 <=> (n \in 1 .. i \/ n = i + 1)
    BY <1>1
  <2> QED
    BY <2>1
<1>7. /\ w \in Objects /\ FieldMap(w) = [FieldMap(objs[d]) EXCEPT ![f.key] = f.value]
      /\ (\E n \in 1 .. objs[d].count : objs[d].fields[n] = [key |-> f.key, value |-> f.value])
           => w = objs[d]
  BY <1>1, <1>5, FieldSetSound
<1>8. d = s => w = b
  BY <1>2, <1>4, <1>5, <1>7
<1>9. FieldMap(objs[d]) \in [Keys -> Values \cup {Absent}]
  BY <1>1, FieldMapFacts
<1> HIDE DEF f, w, Before, After
<1>10. ASSUME NEW k \in Keys
       PROVE  FieldMap(w)[k] = IF After(k) THEN FieldMap(objs[s])[k] ELSE FieldMap(b)[k]
  <2>1. CASE k = f.key
    BY <1>5, <1>6, <1>7, <1>9, <2>1
  <2>2. CASE k # f.key
    <3>1. FieldMap(w)[k] = FieldMap(objs[d])[k]
      BY <1>7, <1>9, <2>2
    <3> QED
      BY <1>2, <1>6, <2>2, <3>1
  <2> QED
    BY <2>1, <2>2
<1>11. /\ objs' \in Seq(Objects) /\ Len(objs') = Len(objs)
       /\ \A o \in 1 .. Len(objs) : objs'[o] = IF o = d THEN w ELSE objs[o]
  BY <1>0, <1>1, <1>7, ExceptSeq DEF IInv
<1>12. objs'[d] = w /\ objs'[s] = objs[s]
  <2>1. CASE d = s
    BY <1>1, <1>2, <1>8, <1>11, <2>1
  <2>2. CASE d # s
    BY <1>1, <1>11, <2>2
  <2> QED
    BY <2>1, <2>2
<1>13. Merging'
  <2>1. loop' \in [kind : {"merge"}, dest : 1 .. Len(objs'), src : 1 .. Len(objs'),
                   i : Nat, before : Objects]
    BY <1>1, <1>3, <1>11
  <2>2. loop'.dest = d /\ loop'.src = s /\ loop'.i = i + 1 /\ loop'.before = b
    BY <1>3
  <2>3. i + 1 <= objs[s].count
    BY <1>0, <1>1
  <2>4. /\ FieldMap(objs[loop.dest])' = FieldMap(w)
        /\ FieldMap(objs[loop.src])' = FieldMap(objs[s])
        /\ FieldMap(loop.before)' = FieldMap(b)
    <3>1. objs'[loop'.dest] = w /\ objs'[loop'.src] = objs[s] /\ loop'.before = b
      BY <1>12, <2>2
    <3>2. FieldMap(objs[loop.dest])' = FieldMap(w)
      BY <3>1 DEF FieldMap, Carriers, First
    <3>3. FieldMap(objs[loop.src])' = FieldMap(objs[s])
      BY <3>1 DEF FieldMap, Carriers, First
    <3>4. FieldMap(loop.before)' = FieldMap(b)
      BY <3>1 DEF FieldMap, Carriers, First
    <3> QED
      BY <3>2, <3>3, <3>4
  <2>5. \A k \in Keys : FieldMap(w)[k] =
          IF \E n \in 1 .. loop'.i : objs'[loop'.src].fields[n].key = k
          THEN FieldMap(objs[s])[k] ELSE FieldMap(b)[k]
    BY <1>10, <1>12, <2>2 DEF After
  <2> QED
    BY <1>8, <1>12, <2>1, <2>2, <2>3, <2>4, <2>5 DEF Merging
<1>14. IInv'
  BY <1>0, <1>11, <1>13 DEF IInv
<1>15. Obj' = Obj
  <2>1. Obj' = [o \in 1 .. Len(objs) |-> FieldMap(IF d = o THEN b ELSE objs'[o])]
    BY <1>3, <1>11 DEF Obj, ShownObject
  <2>2. \A o \in 1 .. Len(objs) :
          (IF d = o THEN b ELSE objs'[o]) = (IF o = d THEN b ELSE objs[o])
    BY <1>11
  <2> QED
    BY <1>1, <2>1, <2>2
<1>16. Arr' = Arr
  BY <1>0, <1>1, <1>3 DEF Arr, ShownArray
<1> QED
  BY <1>0, <1>14, <1>15, <1>16 DEF A!avars

LEMMA MergeDoneStep ==
  ASSUME IInv, MergeDone
  PROVE  IInv' /\ A!Next
<1> DEFINE d == loop.dest
           s == loop.src
           b == loop.before
           merged == [k \in Keys |-> IF Obj[s][k] = Absent THEN Obj[d][k] ELSE Obj[s][k]]
<1>0. loop.kind = "merge" /\ loop.i >= objs[s].count /\ loop' = Idle /\ UNCHANGED <<vecs, objs, res>>
  BY DEF MergeDone
<1>1. /\ d \in 1 .. Len(objs) /\ s \in 1 .. Len(objs) /\ loop.i \in Nat /\ b \in Objects
      /\ objs[d] \in Objects /\ objs[s] \in Objects /\ objs[s].count \in Nat
      /\ Obj = [o \in 1 .. Len(objs) |-> FieldMap(IF o = d THEN b ELSE objs[o])]
      /\ Arr = [h \in 1 .. Len(vecs) |-> Elements(vecs[h], vecs[h].len)]
  BY <1>0, ShownMerging
<1>2. /\ d = s => objs[d] = b
      /\ \A k \in Keys : FieldMap(objs[d])[k] =
           IF \E n \in 1 .. objs[s].count : objs[s].fields[n].key = k
           THEN FieldMap(objs[s])[k] ELSE FieldMap(b)[k]
  <2>1. loop.i = objs[s].count
    BY <1>0, <1>1, MergingFacts
  <2> QED
    BY <1>0, <2>1, MergingFacts
<1> HIDE DEF d, s, b
<1>3. IInv'
  BY <1>0 DEF IInv
<1>4. /\ Obj' = [o \in 1 .. Len(objs) |-> FieldMap(objs[o])]
      /\ Arr' = Arr
  <2>1. loop'.kind # "extend" /\ loop'.kind # "merge"
    BY <1>0 DEF Idle
  <2> QED
    BY <1>0, <1>1, <2>1 DEF Arr, Obj, ShownArray, ShownObject
<1>5. Obj[d] = FieldMap(b) /\ Obj[s] = FieldMap(objs[s])
  <2>1. CASE d = s
    BY <1>1, <1>2, <2>1
  <2>2. CASE d # s
    BY <1>1, <2>2
  <2> QED
    BY <2>1, <2>2
<1>6. FieldMap(objs[d]) = merged
  <2>1. ASSUME NEW k \in Keys PROVE FieldMap(objs[d])[k] = merged[k]
    <3>1. /\ merged[k] = IF Obj[s][k] = Absent THEN Obj[d][k] ELSE Obj[s][k]
          /\ Obj[d] = FieldMap(b) /\ Obj[s] = FieldMap(objs[s])
      BY <1>5
    <3> HIDE DEF merged
    <3>2. (\E n \in 1 .. objs[s].count : objs[s].fields[n].key = k)
            <=> FieldMap(objs[s])[k] # Absent
      BY <1>1, AbsentIs
    <3> QED
      BY <1>2, <3>1, <3>2
  <2>2. FieldMap(objs[d]) \in [Keys -> Values \cup {Absent}]
    BY <1>1, FieldMapFacts
  <2> HIDE DEF merged
  <2>3. merged = [k \in Keys |-> merged[k]]
    BY DEF merged
  <2> QED
    BY <2>1, <2>2, <2>3
<1> HIDE DEF merged
<1>7. Obj' = [Obj EXCEPT ![d] = merged]
  <2>1. ASSUME NEW o \in 1 .. Len(objs)
        PROVE  FieldMap(objs[o]) = IF o = d THEN merged ELSE Obj[o]
    BY <1>1, <1>6, <2>1
  <2> QED
    BY <1>1, <1>4, <2>1
<1>8. d # Null /\ s # Null
  BY <1>1 DEF Null
<1>9. A!Merge(d, s)
  BY <1>0, <1>4, <1>7, <1>8 DEF A!Merge, A!Null, Null, merged
<1>10. d \in A!ObjectHandles /\ s \in A!ObjectHandles
  BY <1>1, ShownHandles DEF A!ObjectHandles
<1> QED
  BY <1>3, <1>9, <1>10 DEF A!Next

-----------------------------------------------------------------------------
(* The theorems.                                                           *)

LEMMA Begins ==
  ASSUME Init
  PROVE  IInv /\ A!Init
<1>1. Len(vecs) = 0 /\ Len(objs) = 0
  BY EmptySeq DEF Init
<1>2. vecs \in Seq(Vectors) /\ objs \in Seq(Objects)
  BY EmptySeq DEF Init
<1>3. IInv
  BY <1>2 DEF Init, IInv
<1>4. Arr = <<>> /\ Obj = <<>>
  BY <1>1, <1>3, ShownHandles, EmptySeq
<1> QED
  BY <1>3, <1>4 DEF Init, A!Init

\* Every step of the runtime keeps IInv and is a step of Arrays or changes
\* nothing that Arrays can see.
LEMMA EveryStep ==
  ASSUME IInv, [Next]_vars
  PROVE  IInv' /\ [A!Next]_(A!avars)
<1>1. CASE VecNew
  BY <1>1, VecNewStep
<1>2. CASE ObjectNew
  BY <1>2, ObjectNewStep
<1>3. ASSUME NEW h \in VecHandles, VecPop(h) \/ VecLen(h) PROVE IInv' /\ A!Next
  BY <1>3, VecPopStep, VecLenStep
<1>4. ASSUME NEW h \in VecHandles, NEW x \in Values, VecPush(h, x) \/ VecUnshift(h, x)
      PROVE  IInv' /\ A!Next
  BY <1>4, VecPushStep, VecUnshiftStep
<1>5. ASSUME NEW h \in VecHandles, NEW i \in -1 .. MaxLen,
             VecGet(h, i) \/ \E x \in Values : VecSet(h, i, x)
      PROVE  IInv' /\ A!Next
  BY <1>5, VecGetStep, VecSetStep
<1>6. ASSUME NEW h \in VecHandles, NEW s \in VecHandles, VecExtend(h, s)
      PROVE  IInv' /\ UNCHANGED A!avars
  BY <1>6, VecExtendStep
<1>7. CASE ExtendStep
  BY <1>7, ExtendStepStep
<1>8. CASE ExtendDone
  BY <1>8, ExtendDoneStep
<1>9. ASSUME NEW o \in ObjHandles, NEW k \in Keys,
             ObjectGet(o, k) \/ \E x \in Values : ObjectSet(o, k, x)
      PROVE  IInv' /\ A!Next
  BY <1>9, ObjectGetStep, ObjectSetStep
<1>10. ASSUME NEW o \in ObjHandles, NEW s \in ObjHandles, ObjectMerge(o, s)
       PROVE  IInv' /\ UNCHANGED A!avars
  BY <1>10, ObjectMergeStep
<1>11. CASE MergeStep
  BY <1>11, MergeStepStep
<1>12. CASE MergeDone
  BY <1>12, MergeDoneStep
<1>13. CASE UNCHANGED vars
  BY <1>13, NothingChanges DEF vars, A!avars
<1> QED
  BY <1>1, <1>2, <1>3, <1>4, <1>5, <1>6, <1>7, <1>8, <1>9, <1>10, <1>11, <1>12, <1>13
  DEF Next

\* The inductive invariant: every block is a vector or a table as defined
\* above, and a running spread has done exactly its first i elements.
THEOREM BlocksAreTyped == Spec => []IInv
<1>1. Init => IInv
  BY Begins
<1>2. IInv /\ [Next]_vars => IInv'
  BY EveryStep
<1> QED
  BY <1>1, <1>2, PTL DEF Spec

\* No array ever shows memory that was never written (runtime.rs,
\* arcis_vec_*), for every first capacity and every number of calls.
THEOREM VectorsStaySound == Spec => []VectorsAreSound
<1>1. IInv => VectorsAreSound
  BY VectorFacts DEF IInv, VectorsAreSound, BlockOf, Cells
<1> QED
  BY <1>1, BlocksAreTyped, PTL

\* No object ever holds a key twice (runtime.rs, arcis_object_*).
THEOREM ObjectsStaySound == Spec => []ObjectsAreSound
<1>1. IInv => ObjectsAreSound
  <2> SUFFICES ASSUME IInv, NEW o \in 1 .. Len(objs)
               PROVE  /\ objs[o].cap \in Nat
                      /\ objs[o].count \in 0 .. objs[o].cap
                      /\ DOMAIN objs[o].fields = 1 .. objs[o].cap
                      /\ \A n \in 1 .. objs[o].count :
                           objs[o].fields[n] \in [key : Keys, value : Values]
                      /\ \A m, n \in 1 .. objs[o].count :
                           objs[o].fields[m].key = objs[o].fields[n].key => m = n
    BY DEF ObjectsAreSound
  <2>1. objs[o] \in Objects
    BY BlocksOf
  <2> QED
    BY <2>1, ObjectFacts DEF Fields
<1> QED
  BY <1>1, BlocksAreTyped, PTL

\* The C runtime implements Arrays: with blocks, doubling, moved slots and
\* spreads that run element by element, a handle behaves as a sequence or a
\* map on which every call is one step.
THEOREM RuntimeImplementsArrays == Spec => IsArrays
<1>1. Init => A!Init
  BY Begins
<1>2. IInv /\ [Next]_vars => [A!Next]_(A!avars)
  BY EveryStep
<1> QED
  BY <1>1, <1>2, BlocksAreTyped, PTL DEF Spec, IsArrays, A!Spec
=============================================================================
