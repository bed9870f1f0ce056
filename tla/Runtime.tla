------------------------------- MODULE Runtime -------------------------------
(***************************************************************************)
(* Arrays and objects of the C runtime (arcis-codegen-cranelift,           *)
(* runtime.rs): a vector is a block of slots with a length and a capacity, *)
(* an object a table of fields searched from the front.  The blocks grow   *)
(* by doubling, memory that was never written holds Junk, and the two      *)
(* spreads are loops that call push and set once per element.              *)
(*                                                                         *)
(* Handles are never freed by compiled code (no call of arcis_vec_drop or  *)
(* arcis_object_drop is emitted), so a handle is the number of its block.  *)
(* Out of memory ends the process and is left out, as is the overflow of   *)
(* the doubled 32-bit capacity, 2^30 slots away.                           *)
(***************************************************************************)
EXTENDS Integers, Sequences

CONSTANTS Values, Zero, Keys, Absent, MaxArrays, MaxObjects, MaxLen,
          Junk,          \* what malloc and realloc leave in a block
          FirstVecCap,   \* 8 in the code
          FirstObjCap    \* 4 in the code

ASSUME RuntimeAssumption ==
  /\ Zero \in Values
  /\ Absent \notin Values
  /\ Junk \notin Values
  /\ MaxArrays \in Nat
  /\ MaxObjects \in Nat
  /\ MaxLen \in Nat
  /\ FirstVecCap \in Nat \ {0}
  /\ FirstObjCap \in Nat \ {0}

VARIABLES vecs,    \* handle |-> ArcisVec
          objs,    \* handle |-> ArcisObject
          loop,    \* the spread that is running, if any
          res      \* what the last call returned

vars == <<vecs, objs, loop, res>>

Null == 0
Idle == [kind |-> "idle"]
Calm == loop = Idle

VecHandles == 0 .. Len(vecs)
ObjHandles == 0 .. Len(objs)

-----------------------------------------------------------------------------
(* Blocks.  A block is a function on 1 .. cap; C's index i is slot i + 1.  *)

EmptyVec == [elements |-> <<>>, len |-> 0, cap |-> 0]
EmptyObject == [fields |-> <<>>, count |-> 0, cap |-> 0]

Doubled(cap, first) == IF cap = 0 THEN first ELSE cap * 2

Realloc(block, cap, newCap) ==
  [n \in 1 .. newCap |-> IF n <= cap THEN block[n] ELSE Junk]

\* Mutation: a full vector is not grown.
GrownWrong(v) ==
  IF v.len > v.cap
  THEN LET newCap == Doubled(v.cap, FirstVecCap)
       IN [elements |-> Realloc(v.elements, v.cap, newCap), len |-> v.len, cap |-> newCap]
  ELSE v
Grown(v) ==
  IF v.len >= v.cap
  THEN LET newCap == Doubled(v.cap, FirstVecCap)
       IN [elements |-> Realloc(v.elements, v.cap, newCap), len |-> v.len, cap |-> newCap]
  ELSE v

Pushed(v, x) ==
  LET g == Grown(v) IN
  [elements |-> [g.elements EXCEPT ![g.len + 1] = x], len |-> g.len + 1, cap |-> g.cap]

\* Mutation: the new element is stored before the others are moved.
UnshiftedWrong(v, x) ==
  LET g == Grown(v)
      stored == [g.elements EXCEPT ![1] = x]
      moved == [n \in 1 .. g.cap |->
                  IF n \in 2 .. g.len + 1 THEN stored[n - 1] ELSE stored[n]]
  IN [elements |-> moved, len |-> g.len + 1, cap |-> g.cap]
Unshifted(v, x) ==
  LET g == Grown(v)
      moved == [n \in 1 .. g.cap |->
                  IF n \in 2 .. g.len + 1 THEN g.elements[n - 1] ELSE g.elements[n]]
  IN [elements |-> [moved EXCEPT ![1] = x], len |-> g.len + 1, cap |-> g.cap]

\* The slots of o that carry key k.
Carriers(o, k) == {n \in 1 .. o.count : o.fields[n].key = k}
First(o, k) == CHOOSE n \in Carriers(o, k) : \A m \in Carriers(o, k) : n <= m

\* Mutation: the table is not searched before a field is added.
FieldSetWrong(o, k, x) ==
  LET newCap == IF o.count >= o.cap THEN Doubled(o.cap, FirstObjCap) ELSE o.cap
      block == Realloc(o.fields, o.cap, newCap)
  IN [fields |-> [block EXCEPT ![o.count + 1] = [key |-> k, value |-> x]],
      count |-> o.count + 1, cap |-> newCap]
FieldSet(o, k, x) ==
  IF Carriers(o, k) # {}
  THEN [fields |-> [o.fields EXCEPT ![First(o, k)] = [key |-> k, value |-> x]],
        count |-> o.count, cap |-> o.cap]
  ELSE LET newCap == IF o.count >= o.cap THEN Doubled(o.cap, FirstObjCap) ELSE o.cap
           block == Realloc(o.fields, o.cap, newCap)
       IN [fields |-> [block EXCEPT ![o.count + 1] = [key |-> k, value |-> x]],
           count |-> o.count + 1, cap |-> newCap]

-----------------------------------------------------------------------------
(* The calls.  Each one is atomic, since a program has one thread, except  *)
(* the spreads, whose loops are stepped so that what they call is the same *)
(* code that the program calls.                                            *)

Init == vecs = <<>> /\ objs = <<>> /\ loop = Idle /\ res = Zero

VecNew ==
  /\ Calm
  /\ Len(vecs) < MaxArrays
  /\ vecs' = Append(vecs, EmptyVec)
  /\ res' = Len(vecs) + 1
  /\ UNCHANGED <<objs, loop>>

Room(h) == (IF h = Null THEN 0 ELSE vecs[h].len) < MaxLen

VecPush(h, x) ==
  /\ Calm
  /\ Room(h)
  /\ vecs' = IF h = Null THEN vecs ELSE [vecs EXCEPT ![h] = Pushed(vecs[h], x)]
  /\ UNCHANGED <<objs, loop, res>>

VecUnshift(h, x) ==
  /\ Calm
  /\ Room(h)
  /\ vecs' = IF h = Null THEN vecs ELSE [vecs EXCEPT ![h] = Unshifted(vecs[h], x)]
  /\ UNCHANGED <<objs, loop, res>>

VecPop(h) ==
  /\ Calm
  /\ IF h = Null \/ vecs[h].len = 0
     THEN res' = Zero /\ UNCHANGED vecs
     ELSE /\ res' = vecs[h].elements[vecs[h].len]
          /\ vecs' = [vecs EXCEPT ![h].len = vecs[h].len - 1]
  /\ UNCHANGED <<objs, loop>>

VecLen(h) ==
  /\ Calm
  /\ res' = IF h = Null THEN 0 ELSE vecs[h].len
  /\ UNCHANGED <<vecs, objs, loop>>

Inside(h, i) == h # Null /\ i >= 0 /\ i < vecs[h].len

VecGet(h, i) ==
  /\ Calm
  /\ res' = IF Inside(h, i) THEN vecs[h].elements[i + 1] ELSE Zero
  /\ UNCHANGED <<vecs, objs, loop>>

VecSet(h, i, x) ==
  /\ Calm
  /\ vecs' = IF Inside(h, i)
             THEN [vecs EXCEPT ![h].elements = [vecs[h].elements EXCEPT ![i + 1] = x]]
             ELSE vecs
  /\ UNCHANGED <<objs, loop, res>>

\* arcis_vec_extend(dest, src).  The compiled code only extends the vector
\* it has just created for a literal, so dest is neither null nor src; with
\* dest = src the loop would chase the length it increases.
\* `before` is a history variable for the refinement, not part of the code.
VecExtend(dest, src) ==
  /\ Calm
  /\ dest # Null
  /\ dest # src
  /\ vecs[dest].len + (IF src = Null THEN 0 ELSE vecs[src].len) <= MaxLen
  /\ loop' = IF src = Null THEN Idle
             ELSE [kind |-> "extend", dest |-> dest, src |-> src, i |-> 0,
                   before |-> vecs[dest].len]
  /\ UNCHANGED <<vecs, objs, res>>

ExtendStep ==
  /\ loop.kind = "extend"
  /\ loop.i < vecs[loop.src].len
  /\ vecs' = [vecs EXCEPT ![loop.dest] =
                Pushed(vecs[loop.dest], vecs[loop.src].elements[loop.i + 1])]
  /\ loop' = [loop EXCEPT !.i = loop.i + 1]
  /\ UNCHANGED <<objs, res>>

ExtendDone ==
  /\ loop.kind = "extend"
  /\ loop.i >= vecs[loop.src].len
  /\ loop' = Idle
  /\ UNCHANGED <<vecs, objs, res>>

ObjectNew ==
  /\ Calm
  /\ Len(objs) < MaxObjects
  /\ objs' = Append(objs, EmptyObject)
  /\ res' = Len(objs) + 1
  /\ UNCHANGED <<vecs, loop>>

ObjectSet(o, k, x) ==
  /\ Calm
  /\ objs' = IF o = Null THEN objs ELSE [objs EXCEPT ![o] = FieldSet(objs[o], k, x)]
  /\ UNCHANGED <<vecs, loop, res>>

ObjectGet(o, k) ==
  /\ Calm
  /\ res' = IF o = Null \/ Carriers(objs[o], k) = {} THEN Zero
            ELSE objs[o].fields[First(objs[o], k)].value
  /\ UNCHANGED <<vecs, objs, loop>>

\* arcis_object_merge(dest, src).
ObjectMerge(dest, src) ==
  /\ Calm
  /\ dest # Null
  /\ loop' = IF src = Null THEN Idle
             ELSE [kind |-> "merge", dest |-> dest, src |-> src, i |-> 0,
                   before |-> objs[dest]]
  /\ UNCHANGED <<vecs, objs, res>>

MergeStep ==
  /\ loop.kind = "merge"
  /\ loop.i < objs[loop.src].count
  /\ LET f == objs[loop.src].fields[loop.i + 1] IN
     objs' = [objs EXCEPT ![loop.dest] = FieldSet(objs[loop.dest], f.key, f.value)]
  /\ loop' = [loop EXCEPT !.i = loop.i + 1]
  /\ UNCHANGED <<vecs, res>>

MergeDone ==
  /\ loop.kind = "merge"
  /\ loop.i >= objs[loop.src].count
  /\ loop' = Idle
  /\ UNCHANGED <<vecs, objs, res>>

Next ==
  \/ VecNew
  \/ ObjectNew
  \/ \E h \in VecHandles :
       \/ VecPop(h) \/ VecLen(h)
       \/ \E x \in Values : VecPush(h, x) \/ VecUnshift(h, x)
       \/ \E i \in -1 .. MaxLen : VecGet(h, i) \/ \E x \in Values : VecSet(h, i, x)
       \/ \E s \in VecHandles : VecExtend(h, s)
  \/ ExtendStep
  \/ ExtendDone
  \/ \E o \in ObjHandles :
       \/ \E k \in Keys : ObjectGet(o, k) \/ \E x \in Values : ObjectSet(o, k, x)
       \/ \E s \in ObjHandles : ObjectMerge(o, s)
  \/ MergeStep
  \/ MergeDone

Spec == Init /\ [][Next]_vars

-----------------------------------------------------------------------------
(* Correctness.                                                            *)

BlockOf(v) ==
  /\ v.cap \in Nat
  /\ v.len \in 0 .. v.cap
  /\ v.elements \in [1 .. v.cap -> Values \cup {Junk}]

\* Every vector is a block with its length inside its capacity, and no slot
\* below the length holds memory that was never written: whatever sequence
\* of pushes, pops, unshifts and spreads the program runs, a read inside the
\* array returns something the program stored (runtime.rs, arcis_vec_*).
VectorsAreSound ==
  \A h \in 1 .. Len(vecs) :
    /\ BlockOf(vecs[h])
    /\ \A n \in 1 .. vecs[h].len : vecs[h].elements[n] \in Values

\* Every object is a table with its count inside its capacity whose used
\* slots hold fields with different keys: arcis_object_get returns the first
\* slot that carries a key, so a second one would be a value that was
\* stored and can never be read (runtime.rs, arcis_object_*).
ObjectsAreSound ==
  \A o \in 1 .. Len(objs) :
    /\ objs[o].cap \in Nat
    /\ objs[o].count \in 0 .. objs[o].cap
    /\ DOMAIN objs[o].fields = 1 .. objs[o].cap
    /\ \A n \in 1 .. objs[o].count :
         objs[o].fields[n] \in [key : Keys, value : Values]
    /\ \A m, n \in 1 .. objs[o].count :
         objs[o].fields[m].key = objs[o].fields[n].key => m = n

(* The refinement.  While a spread runs its target still shows the value   *)
(* it had when the spread began: compiled code cannot look in between.     *)

Elements(v, n) == [m \in 1 .. n |-> v.elements[m]]
FieldMap(o) ==
  [k \in Keys |-> IF Carriers(o, k) = {} THEN Absent ELSE o.fields[First(o, k)].value]

ShownArray(h) ==
  Elements(vecs[h],
           IF loop.kind = "extend" /\ loop.dest = h THEN loop.before ELSE vecs[h].len)
ShownObject(o) ==
  FieldMap(IF loop.kind = "merge" /\ loop.dest = o THEN loop.before ELSE objs[o])

Arr == [h \in 1 .. Len(vecs) |-> ShownArray(h)]
Obj == [o \in 1 .. Len(objs) |-> ShownObject(o)]

A == INSTANCE Arrays WITH arr <- Arr, obj <- Obj

\* The C runtime implements Arrays: under every sequence of calls a handle
\* behaves as a growable sequence or as a map, the spreads append and merge
\* in one step, popped and reallocated memory is never seen, out of range
\* reads answer Zero and out of range writes change nothing.
IsArrays == A!Spec
=============================================================================
