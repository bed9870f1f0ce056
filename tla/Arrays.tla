------------------------------- MODULE Arrays -------------------------------
(***************************************************************************)
(* What compiled programs are promised about the values behind a handle:   *)
(* an array is a sequence of slots and an object a map from field names to *)
(* slots, both shared by every copy of the handle.  Nothing is said about  *)
(* capacity, about memory or about how many steps a spread takes.          *)
(* Runtime.tla, the model of the C runtime, implements this module.        *)
(***************************************************************************)
EXTENDS Integers, Sequences

CONSTANTS Values,     \* what a slot can hold (any 64 bits)
          Zero,       \* the slot value 0: number 0, false, the null handle
          Keys,       \* field names
          Absent,     \* marks a field an object does not have
          MaxArrays, MaxObjects, MaxLen   \* bounds, for TLC

VARIABLES arr,   \* handle of an array |-> its elements
          obj,   \* handle of an object |-> field |-> slot, or Absent
          res    \* what the last call returned

avars == <<arr, obj, res>>

Null == 0
Array(h) == IF h = Null THEN <<>> ELSE arr[h]
Has(h, n) == n \in 1 .. Len(Array(h))
Room(h) == Len(Array(h)) < MaxLen
SetArray(h, s) ==
  arr' = IF h = Null THEN arr ELSE [arr EXCEPT ![h] = s]

ArrayHandles == 0 .. Len(arr)
ObjectHandles == 0 .. Len(obj)

Init == arr = <<>> /\ obj = <<>> /\ res = Zero

NewArray ==
  /\ Len(arr) < MaxArrays
  /\ arr' = Append(arr, <<>>)
  /\ res' = Len(arr) + 1
  /\ UNCHANGED obj

Push(h, v) ==
  /\ Room(h)
  /\ SetArray(h, Append(Array(h), v))
  /\ UNCHANGED <<obj, res>>

Unshift(h, v) ==
  /\ Room(h)
  /\ SetArray(h, <<v>> \o Array(h))
  /\ UNCHANGED <<obj, res>>

Pop(h) ==
  /\ SetArray(h, IF Array(h) = <<>> THEN <<>>
                 ELSE SubSeq(Array(h), 1, Len(Array(h)) - 1))
  /\ res' = IF Array(h) = <<>> THEN Zero ELSE Array(h)[Len(Array(h))]
  /\ UNCHANGED obj

Length(h) ==
  /\ res' = Len(Array(h))
  /\ UNCHANGED <<arr, obj>>

\* Indices count from 0; outside the array a read answers Zero ...
Get(h, i) ==
  /\ res' = IF Has(h, i + 1) THEN Array(h)[i + 1] ELSE Zero
  /\ UNCHANGED <<arr, obj>>

\* ... and a write does nothing.
Put(h, i, v) ==
  /\ SetArray(h, IF Has(h, i + 1) THEN [Array(h) EXCEPT ![i + 1] = v] ELSE Array(h))
  /\ UNCHANGED <<obj, res>>

\* `[...src]`: all elements of src, in one step, at the end of dest.
Extend(dest, src) ==
  /\ dest # Null
  /\ SetArray(dest, Array(dest) \o Array(src))
  /\ UNCHANGED <<obj, res>>

NewObject ==
  /\ Len(obj) < MaxObjects
  /\ obj' = Append(obj, [k \in Keys |-> Absent])
  /\ res' = Len(obj) + 1
  /\ UNCHANGED arr

SetField(o, k, v) ==
  /\ obj' = IF o = Null THEN obj ELSE [obj EXCEPT ![o][k] = v]
  /\ UNCHANGED <<arr, res>>

GetField(o, k) ==
  /\ res' = IF o = Null \/ obj[o][k] = Absent THEN Zero ELSE obj[o][k]
  /\ UNCHANGED <<arr, obj>>

\* `{...src}`: the fields of src replace those of dest, in one step.
Merge(dest, src) ==
  /\ dest # Null
  /\ obj' = IF src = Null THEN obj
            ELSE [obj EXCEPT ![dest] =
                   [k \in Keys |-> IF obj[src][k] = Absent THEN obj[dest][k] ELSE obj[src][k]]]
  /\ UNCHANGED <<arr, res>>

Next ==
  \/ NewArray
  \/ NewObject
  \/ \E h \in ArrayHandles :
       \/ Pop(h) \/ Length(h)
       \/ \E v \in Values : Push(h, v) \/ Unshift(h, v)
       \/ \E i \in -1 .. MaxLen : Get(h, i) \/ \E v \in Values : Put(h, i, v)
       \/ \E s \in ArrayHandles : Extend(h, s)
  \/ \E o \in ObjectHandles :
       \/ \E k \in Keys : GetField(o, k) \/ \E v \in Values : SetField(o, k, v)
       \/ \E s \in ObjectHandles : Merge(o, s)

Spec == Init /\ [][Next]_avars
=============================================================================
