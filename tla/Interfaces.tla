----------------------------- MODULE Interfaces -----------------------------
(* collect_interfaces of crates/arcis-codegen/src/collect.rs: the fields of  *)
(* every interface merged with those of the interfaces that it extends.  The *)
(* names are taken in the order of a hash map; resolve_interface_fields goes *)
(* up from a name to its bases, remembers the fields of each name that it     *)
(* has finished and cuts off a name that it comes back to.  A step is one     *)
(* look at a base, one call or one return.                                   *)
(*                                                                         *)
(* The fields of an interface are a function from keys to types: their order *)
(* is of no account, for a struct is written with the names of its fields.   *)
EXTENDS Naturals, Sequences, FiniteSets

CONSTANT Sources    \* the sets of interface declarations a program may have

\* Names with the names they extend, in order, and their own fields.
AreInterfaces(decls) ==
  /\ IsFiniteSet(DOMAIN decls)
  /\ \A n \in DOMAIN decls :
       LET bases == decls[n].extends
           fields == decls[n].fields
       IN /\ bases \in Seq({bases[i] : i \in DOMAIN bases})
          /\ fields = [key \in DOMAIN fields |-> fields[key]]

ASSUME SourcesAssumption == \A decls \in Sources : AreInterfaces(decls)

VARIABLES raw,      \* the declarations, by name
          merged,   \* `resolved`: the fields of the names that are finished
          pending   \* the calls of resolve_interface_fields, outermost first

interfaceVars == <<raw, merged, pending>>

-----------------------------------------------------------------------------
(* The walk.                                                               *)

\* Mutation: a key that is there already keeps its type.
OverrideWrong(fields, more) ==
  [k \in DOMAIN fields \cup DOMAIN more |-> IF k \in DOMAIN fields THEN fields[k] ELSE more[k]]

\* `retain` and `push` for each of more: a key that is there already is replaced.
Override(fields, more) ==
  [k \in DOMAIN fields \cup DOMAIN more |-> IF k \in DOMAIN more THEN more[k] ELSE fields[k]]

NoFields == [key \in {} |-> key]

Extends(n) == raw[n].extends
Visiting == {pending[i].name : i \in DOMAIN pending}
Top == pending[Len(pending)]
\* The base that the innermost call comes to next.
Base == Extends(Top.name)[Top.at]

Ascend(n) ==
  /\ pending' = Append(pending, [name |-> n, at |-> 1, fields |-> NoFields])
  /\ UNCHANGED <<raw, merged>>

InterfacesInit ==
  /\ raw \in Sources
  /\ merged = <<>>
  /\ pending = <<>>

\* The loop over the names, in any order.
MergeInterface ==
  /\ pending = <<>>
  /\ \E n \in DOMAIN raw \ DOMAIN merged : Ascend(n)

\* The base needs a call of its own.
EnterBase ==
  /\ pending # <<>> /\ Top.at <= Len(Extends(Top.name))
  /\ Base \in DOMAIN raw \ (DOMAIN merged \cup Visiting)
  /\ Ascend(Base)

\* What resolve_interface_fields answers at once: from its memo, nothing for a
\* name that no interface has, own fields only where `extends` has come back.
Answer(n) ==
  IF n \in DOMAIN merged THEN merged[n]
  ELSE IF n \in DOMAIN raw THEN raw[n].fields ELSE NoFields

TakeBase ==
  /\ pending # <<>> /\ Top.at <= Len(Extends(Top.name))
  /\ Base \notin DOMAIN raw \ (DOMAIN merged \cup Visiting)
  /\ pending' = [pending EXCEPT ![Len(pending)] =
                   [name |-> @.name, at |-> @.at + 1, fields |-> Override(@.fields, Answer(Base))]]
  /\ UNCHANGED <<raw, merged>>

\* Own fields come last.  The caller finds the result in the memo.
Finish ==
  /\ pending # <<>> /\ Top.at > Len(Extends(Top.name))
  /\ merged' = [n \in DOMAIN merged \cup {Top.name} |->
                  IF n = Top.name THEN Override(Top.fields, raw[n].fields) ELSE merged[n]]
  /\ pending' = SubSeq(pending, 1, Len(pending) - 1)
  /\ UNCHANGED raw

InterfacesNext == MergeInterface \/ EnterBase \/ TakeBase \/ Finish

InterfacesSpec == InterfacesInit /\ [][InterfacesNext]_interfaceVars

AllMerged == pending = <<>> /\ DOMAIN merged = DOMAIN raw

-----------------------------------------------------------------------------
(* What the declarations say.                                              *)

Bases(n) == {Extends(n)[i] : i \in DOMAIN Extends(n)} \cap DOMAIN raw

\* The interfaces that n extends, and those that they extend, and so on: what
\* is in every set that has the bases of n and of all its members.
ClosedUp(S) == \A a \in S : Bases(a) \subseteq S
Ancestors(n) ==
  {a \in DOMAIN raw : \A S \in SUBSET DOMAIN raw : Bases(n) \subseteq S /\ ClosedUp(S) => a \in S}

\* The interfaces from which no way up leads to a cycle of `extends`.
OffCycle == {n \in DOMAIN raw : \A a \in {n} \cup Ancestors(n) : a \notin Ancestors(a)}

\* The fields that n has from its first `upto` bases, if f gives the fields of
\* each interface: a key has the type that the last base with the key gives it.
Giving(n, upto, key, f) == {i \in 1 .. upto : Extends(n)[i] \in DOMAIN raw /\ key \in DOMAIN f[Extends(n)[i]]}
Latest(S) == CHOOSE i \in S : \A j \in S : j <= i
FromBases(n, upto, f) ==
  [key \in UNION {DOMAIN f[Extends(n)[i]] : i \in {j \in 1 .. upto : Extends(n)[j] \in DOMAIN raw}} |->
     f[Extends(n)[Latest(Giving(n, upto, key, f))]][key]]

\* The fields of an interface off every cycle, from its declaration and those
\* of its ancestors alone.
Inherited[n \in OffCycle] == Override(FromBases(n, Len(Extends(n)), Inherited), raw[n].fields)

-----------------------------------------------------------------------------
\* In whatever order interfaces are merged, and whatever other merges have put
\* into the memo by then, an interface has its own fields as declared, and
\* none that neither it nor an ancestor declares; off every cycle of `extends`
\* it has exactly the fields that the declarations give it.
InterfacesInherit ==
  \A n \in DOMAIN merged :
    /\ \A key \in DOMAIN raw[n].fields :
         key \in DOMAIN merged[n] /\ merged[n][key] = raw[n].fields[key]
    /\ \A key \in DOMAIN merged[n] :
         \E a \in {n} \cup Ancestors(n) :
           key \in DOMAIN raw[a].fields /\ merged[n][key] = raw[a].fields[key]
    /\ n \in OffCycle => merged[n] = Inherited[n]

-----------------------------------------------------------------------------
(* What keeps it: a call that is pending has the fields of the bases it has  *)
(* passed, and each call stands at the base that the next one is for, so a   *)
(* name that the walk comes back to is on a cycle.                          *)

Keys == UNION {DOMAIN raw[n].fields : n \in DOMAIN raw}
FieldTypes == UNION {{raw[n].fields[key] : key \in DOMAIN raw[n].fields} : n \in DOMAIN raw}
FieldMaps == UNION {[S -> FieldTypes] : S \in SUBSET Keys}
PendingCalls == [name : DOMAIN raw, at : Nat \ {0}, fields : FieldMaps]

InterfacesTypeOK ==
  /\ AreInterfaces(raw)
  /\ merged \in UNION {[S -> FieldMaps] : S \in SUBSET DOMAIN raw}
  /\ pending \in Seq(PendingCalls)

\* Calls go up.
CallsAscend ==
  \A i, j \in DOMAIN pending : i < j => pending[j].name \in Ancestors(pending[i].name)

\* The fields of a pending call are those of its ancestors.
FromAncestors ==
  \A i \in DOMAIN pending : \A key \in DOMAIN pending[i].fields :
    \E a \in Ancestors(pending[i].name) :
      key \in DOMAIN raw[a].fields /\ pending[i].fields[key] = raw[a].fields[key]

PassedBases ==
  \A i \in DOMAIN pending :
    /\ pending[i].at <= Len(Extends(pending[i].name)) + 1
    /\ pending[i].name \in OffCycle =>
         pending[i].fields = FromBases(pending[i].name, pending[i].at - 1, Inherited)

\* What is pending is not finished, and no name is pending twice.
PendingApart ==
  /\ Visiting \cap DOMAIN merged = {}
  /\ \A i, j \in DOMAIN pending : i # j => pending[i].name # pending[j].name

InterfacesIInv ==
  /\ InterfacesTypeOK /\ CallsAscend /\ FromAncestors /\ PassedBases /\ PendingApart
  /\ InterfacesInherit

-----------------------------------------------------------------------------
(* Why the walk ends, on cycles too: every step lowers its rank.            *)

WalkRank == [unmerged  |-> Cardinality(DOMAIN raw \ DOMAIN merged),
             unvisited |-> Cardinality(DOMAIN raw \ Visiting),
             bases     |-> IF pending = <<>> THEN 0 ELSE Len(Extends(Top.name)) + 1 - Top.at]

WalkRanks == [unmerged : Nat, unvisited : Nat, bases : Nat]

\* The lexicographic order.
RanksLower(r, s) ==
  \/ r.unmerged < s.unmerged
  \/ r.unmerged = s.unmerged /\ r.unvisited < s.unvisited
  \/ r.unmerged = s.unmerged /\ r.unvisited = s.unvisited /\ r.bases < s.bases

WalkDescends == [][RanksLower(WalkRank', WalkRank)]_interfaceVars
=============================================================================
