-------------------------- MODULE NarrowingProofs ---------------------------
(***************************************************************************)
(* Proofs about Narrowing, for every set of variables and values and every *)
(* depth of blocks and copies.                                             *)
(***************************************************************************)
EXTENDS Narrowing, TLAPS

\* A prefix of a sequence, and a prefix with one element more.
LEMMA PrefixFacts ==
    ASSUME NEW S, NEW s \in Seq(S), NEW n \in 0 .. Len(s), NEW e \in S
    PROVE  /\ SubSeq(s, 1, n) \in Seq(S)
           /\ Len(SubSeq(s, 1, n)) = n
           /\ \A i \in 1 .. n : SubSeq(s, 1, n)[i] = s[i]
           /\ Append(SubSeq(s, 1, n), e) \in Seq(S)
           /\ Len(Append(SubSeq(s, 1, n), e)) = n + 1
           /\ \A i \in 1 .. n : Append(SubSeq(s, 1, n), e)[i] = s[i]
           /\ Append(SubSeq(s, 1, n), e)[n + 1] = e
  OBVIOUS

LEMMA BlockFacts ==
    ASSUME NEW b \in Block
    PROVE  /\ b.recorded \in [Names -> Types \cup {"unknown"}]
           /\ b.copy \in [Names -> 0 .. MaxCopies]
           /\ b.size \in 0 .. MaxCopies
           /\ b.guarded \subseteq Names /\ b.proven \subseteq Names
           /\ b.test \in Names \cup {NoName} /\ b.loopVar \in Names \cup {NoName}
           /\ b.exits \in BOOLEAN /\ b.header \in BOOLEAN
  BY DEF Block

\* What the invariant says of the blocks, and of the block that knows what the
\* top one knows.
LEMMA Shape ==
    ASSUME IInv
    PROVE  /\ blocks \in Seq(Block) /\ Len(blocks) \in 1 .. MaxBlocks
           /\ \A i \in 1 .. Len(blocks) : blocks[i] \in Block
           /\ Top \in Block
           /\ copies \in Seq(Values) /\ Len(copies) = Top.size
           /\ \A j \in 1 .. Len(copies) : copies[j] \in Values
  BY NarrowingAssumption DEF IInv, TypeOK, Top

LEMMA InnerFacts ==
    ASSUME IInv
    PROVE  /\ Inner \in Block
           /\ Inner.copy = Top.copy /\ Inner.size = Top.size
           /\ Inner.guarded = Top.guarded /\ Inner.recorded = Top.recorded
           /\ \A n \in Names, exits \in BOOLEAN :
                 LET b == [Inner EXCEPT !.test = n, !.exits = exits]
                 IN  b \in Block /\ b.copy = Top.copy /\ b.size = Top.size
           /\ \A n \in Names :
                 LET b == [Inner EXCEPT !.loopVar = n]
                 IN  b \in Block /\ b.copy = Top.copy /\ b.size = Top.size
           /\ \A n \in Names :
                 LET b == [Inner EXCEPT !.loopVar = n, !.header = TRUE]
                 IN  b \in Block /\ b.copy = Top.copy /\ b.size = Top.size
<1>1. Top \in Block
  BY Shape
<1>2. /\ Inner \in Block /\ Inner.copy = Top.copy /\ Inner.size = Top.size
      /\ Inner.guarded = Top.guarded /\ Inner.recorded = Top.recorded
  BY <1>1 DEF Inner, Block
<1> QED BY <1>2 DEF Block

-----------------------------------------------------------------------------
\* What a name stands for is a value, and present where its type says so.
LEMMA HeldFacts ==
    ASSUME IInv, NEW i \in 1 .. Len(blocks), NEW n \in Names
    PROVE  /\ blocks[i].copy[n] \in 0 .. blocks[i].size
           /\ blocks[i].size \in 0 .. Len(copies)
           /\ Held(blocks[i], n) \in Values \cup {Null}
           /\ blocks[i].copy[n] # 0 => Held(blocks[i], n) \in Values
<1>1. blocks[i] \in Block /\ Len(copies) = blocks[Len(blocks)].size /\ Len(blocks) \in Nat
  BY Shape, NarrowingAssumption DEF Top
<1>2. blocks[i].copy[n] \in Nat /\ blocks[i].size \in Nat /\ blocks[i].copy[n] <= blocks[i].size
  BY <1>1, BlockFacts, NarrowingAssumption DEF IInv, TypeOK
<1>3. blocks[i].size <= blocks[Len(blocks)].size
  BY <1>1 DEF IInv, CopiesInScope
<1>4. Len(copies) \in Nat
  BY Shape
<1>5. blocks[i].copy[n] # 0 => blocks[i].copy[n] \in 1 .. Len(copies)
  BY <1>1, <1>2, <1>3, <1>4
<1>6. cell[n] \in Values \cup {Null}
  BY DEF IInv, TypeOK
<1> QED BY <1>1, <1>2, <1>3, <1>4, <1>5, <1>6, Shape DEF Held

LEMMA CompiledFacts ==
    ASSUME IInv, NEW n \in Names
    PROVE  /\ Compiled(n) \in Values \cup {Null}
           /\ Visible(n) /\ TypeOf(n) = "T" => Compiled(n) \in Values
           /\ (LossyAssign \/ ReadsAgree) /\ Visible(n) => LossyAssign \/ Compiled(n) = value[n]
<1>1. Len(blocks) \in 1 .. Len(blocks) /\ Top = blocks[Len(blocks)]
  BY Shape, NarrowingAssumption DEF Top
<1>2. Compiled(n) \in Values \cup {Null} /\ (Top.copy[n] # 0 => Compiled(n) \in Values)
  BY <1>1, HeldFacts DEF Compiled
<1>3. Visible(n) /\ type[n] = "T" => cell[n] # Null
  BY DEF IInv, DefinitePresent
<1>4. Top.copy[n] = 0 => Compiled(n) = cell[n]
  BY DEF Compiled, Held
<1>5. Visible(n) => level[n] \in 1 .. Len(blocks)
  BY Shape DEF IInv, TypeOK, Visible
<1>6. ReadsAgree /\ Visible(n) => Compiled(n) = value[n]
  BY <1>1, <1>5 DEF ReadsAgree, Compiled
<1> QED BY <1>2, <1>3, <1>4, <1>6 DEF TypeOf

\* The forms of an expression.
LEMMA ExprForms ==
    ASSUME NEW e \in Expr
    PROVE  \/ e.form = "value" /\ e.of \in Values
           \/ e.form = "null"
           \/ e.form \in {"name", "assert"} /\ e.of \in Names /\ NamesIn(e) = {e.of}
           \/ /\ e.form = "or" /\ e.of \in Names /\ e.other \in Names \cup Values
              /\ e.of \in NamesIn(e)
              /\ e.other \notin Values => e.other \in Names \cap NamesIn(e)
<1>1. CASE e \in [form : {"value"}, of : Values]
  BY <1>1
<1>2. CASE e \in [form : {"null"}]
  BY <1>2
<1>3. CASE e \in [form : {"name", "assert"}, of : Names]
  BY <1>3 DEF NamesIn
<1>4. CASE e \in [form : {"or"}, of : Names, other : Names \cup Values]
  BY <1>4 DEF NamesIn
<1> QED BY <1>1, <1>2, <1>3, <1>4 DEF Expr

\* The compiled program computes a value, one that is present where
\* check_null_safety has accepted it as definite, and the value that is meant.
LEMMA ComputedFacts ==
    ASSUME IInv, NEW e \in Expr, Evaluates(e)
    PROVE  /\ Computed(e) \in Values \cup {Null} /\ Meaning(e) \in Values \cup {Null}
           /\ Checked(e) /\ Definite(e) /\ e.form # "null" => Computed(e) \in Values
           /\ LossyAssign \/ Computed(e) = Meaning(e)
<1>1. /\ \A n \in NamesIn(e) : Visible(n)
      /\ e.form = "assert" => Computed(e) # Null
  BY DEF Evaluates
<1>2. LossyAssign \/ ReadsAgree
  BY DEF IInv
<1>3. \A n \in Names : /\ Compiled(n) \in Values \cup {Null}
                       /\ Visible(n) /\ TypeOf(n) = "T" => Compiled(n) \in Values
                       /\ Visible(n) => LossyAssign \/ Compiled(n) = value[n]
                       /\ value[n] \in Values \cup {Null}
  BY <1>2, CompiledFacts DEF IInv, TypeOK
<1>4. CASE e.form = "value" /\ e.of \in Values
  BY <1>4 DEF Computed, Meaning, Eval
<1>5. CASE e.form = "null"
  BY <1>5 DEF Computed, Meaning, Eval, Definite
<1>6. CASE e.form \in {"name", "assert"} /\ e.of \in Names /\ NamesIn(e) = {e.of}
  <2>1. Computed(e) = Compiled(e.of) /\ Meaning(e) = value[e.of] /\ Visible(e.of)
    BY <1>1, <1>6 DEF Computed, Meaning, Eval, Written
  <2> QED BY <1>1, <1>3, <1>6, <2>1 DEF Definite
<1>7. CASE /\ e.form = "or" /\ e.of \in Names /\ e.other \in Names \cup Values
           /\ e.of \in NamesIn(e)
           /\ e.other \notin Values => e.other \in Names \cap NamesIn(e)
  <2>1. Computed(e) = IF Compiled(e.of) # Null THEN Compiled(e.of)
                      ELSE IF e.other \in Values THEN e.other ELSE Compiled(e.other)
    BY <1>7 DEF Computed, Eval
  <2>2. Meaning(e) = IF value[e.of] # Null THEN value[e.of]
                     ELSE IF e.other \in Values THEN e.other ELSE value[e.other]
    BY <1>7 DEF Meaning, Eval, Written
  <2>3. Checked(e) /\ e.other \notin Values => TypeOf(e.other) = "T"
    BY <1>7 DEF Checked
  <2> QED BY <1>1, <1>3, <1>7, <2>1, <2>2, <2>3
<1> QED BY <1>4, <1>5, <1>6, <1>7, ExprForms

-----------------------------------------------------------------------------
(***************************************************************************)
(* What every step that opens, ends or narrows a block has in common: the  *)
(* outer p blocks stay, and above them comes block B, which is block q     *)
(* with no copy or one copy more.                                          *)
(***************************************************************************)
Rebuilt(p, q, B) ==
    /\ p \in Nat /\ q \in 1 .. Len(blocks)
    /\ q = p + 1 \/ (q = p /\ p = Len(blocks))
    /\ p + 1 <= MaxBlocks
    /\ B \in Block
    /\ blocks' \in Seq(Block) /\ Len(blocks') = p + 1
    /\ \A i \in 1 .. p : blocks'[i] = blocks[i]
    /\ blocks'[p + 1] = B
    /\ \A m \in Names :
        \/ level'[m] = level[m] /\ level[m] \in 0 .. q
           /\ value'[m] = value[m] /\ cell'[m] = cell[m]
        \/ level[m] \notin 1 .. q /\ level'[m] = 0
        \/ level[m] \notin 1 .. q /\ level'[m] = p + 1 /\ (LossyAssign \/ value'[m] = cell'[m])

NoCopyMore(q, B) ==
    /\ B.copy = blocks[q].copy /\ B.size = blocks[q].size
    /\ copies' \in Seq(Values) /\ Len(copies') = blocks[q].size
    /\ \A j \in 1 .. blocks[q].size : copies'[j] = copies[j]

OneCopyMore(n, q, B) ==
    /\ n \in Names /\ level'[n] = level[n] /\ level[n] \in 1 .. q
    /\ Held(blocks[q], n) # Null
    /\ B.copy = [blocks[q].copy EXCEPT ![n] = blocks[q].size + 1]
    /\ B.size = blocks[q].size + 1
    /\ copies' = Append(SubSeq(copies, 1, blocks[q].size), Held(blocks[q], n))

\* The old copies that are still in scope, and the new one.
LEMMA CopiesKept ==
    ASSUME IInv, NEW p, NEW q, NEW B, Rebuilt(p, q, B),
           NoCopyMore(q, B) \/ \E n \in Names : OneCopyMore(n, q, B)
    PROVE  /\ copies' \in Seq(Values) /\ Len(copies') = B.size
           /\ blocks[q].size \in Nat
           /\ \A j \in 1 .. blocks[q].size : copies'[j] = copies[j]
           /\ blocks[q].size <= B.size
           /\ \A m \in Names : B.copy[m] \in 0 .. B.size
           /\ \A m \in Names : \/ B.copy[m] = blocks[q].copy[m]
                               \/ /\ B.copy[m] = blocks[q].size + 1
                                  /\ OneCopyMore(m, q, B)
           /\ \A m, n \in Names : OneCopyMore(m, q, B) /\ OneCopyMore(n, q, B) => m = n
<1>1. /\ q \in 1 .. Len(blocks) /\ blocks[q] \in Block /\ copies \in Seq(Values)
      /\ Len(copies) \in Nat
  BY Shape DEF Rebuilt
<1>2. \A m \in Names : /\ blocks[q].copy[m] \in 0 .. blocks[q].size
                       /\ blocks[q].size \in 0 .. Len(copies)
                       /\ Held(blocks[q], m) \in Values \cup {Null}
  BY <1>1, HeldFacts
<1>3. blocks[q].copy \in [Names -> 0 .. MaxCopies]
  BY <1>1, BlockFacts
<1>4. blocks[q].size \in Nat /\ blocks[q].size \in 0 .. Len(copies)
  <2>1. Len(copies) = blocks[Len(blocks)].size /\ Len(blocks) \in Nat
    BY Shape, NarrowingAssumption DEF Top
  <2>2. blocks[q].size <= blocks[Len(blocks)].size
    BY <1>1, <2>1 DEF IInv, CopiesInScope
  <2>3. blocks[q].size \in Nat
    BY <1>1, BlockFacts, NarrowingAssumption
  <2> QED BY <1>1, <2>1, <2>2, <2>3
<1>5. CASE NoCopyMore(q, B)
  <2>1. \A m \in Names : ~ OneCopyMore(m, q, B)
    BY <1>4, <1>5 DEF NoCopyMore, OneCopyMore
  <2>2. /\ copies' \in Seq(Values) /\ Len(copies') = blocks[q].size
        /\ \A j \in 1 .. blocks[q].size : copies'[j] = copies[j]
    BY <1>5 DEF NoCopyMore
  <2> QED BY <1>2, <1>4, <1>5, <2>1, <2>2 DEF NoCopyMore
<1>6. ASSUME NEW n \in Names, OneCopyMore(n, q, B)
      PROVE  /\ copies' \in Seq(Values) /\ Len(copies') = B.size
             /\ \A j \in 1 .. blocks[q].size : copies'[j] = copies[j]
             /\ blocks[q].size <= B.size
             /\ \A m \in Names : B.copy[m] \in 0 .. B.size
             /\ \A m \in Names : B.copy[m] = blocks[q].copy[m] \/ m = n
             /\ B.copy[n] = blocks[q].size + 1
             /\ \A m \in Names : OneCopyMore(m, q, B) => m = n
  <2>1. Held(blocks[q], n) \in Values
    BY <1>2, <1>6 DEF OneCopyMore
  <2>2. /\ copies' \in Seq(Values) /\ Len(copies') = blocks[q].size + 1
        /\ \A j \in 1 .. blocks[q].size : copies'[j] = copies[j]
    <3>1. copies' = Append(SubSeq(copies, 1, blocks[q].size), Held(blocks[q], n))
      BY <1>6 DEF OneCopyMore
    <3> QED BY <1>1, <1>4, <2>1, <3>1, PrefixFacts
  <2>3. /\ B.copy = [blocks[q].copy EXCEPT ![n] = blocks[q].size + 1]
        /\ B.size = blocks[q].size + 1
    BY <1>6 DEF OneCopyMore
  <2>4. \A m \in Names : B.copy[m] = IF m = n THEN blocks[q].size + 1 ELSE blocks[q].copy[m]
    BY <1>3, <2>3
  <2>5. \A m \in Names : OneCopyMore(m, q, B) => B.copy[m] = blocks[q].size + 1
    BY <1>3 DEF OneCopyMore
  <2>6. ASSUME NEW m \in Names PROVE blocks[q].copy[m] # blocks[q].size + 1
    <3>1. blocks[q].copy[m] \in 0 .. blocks[q].size
      BY <1>2
    <3> QED BY <1>4, <3>1
  <2>7. blocks[q].size <= B.size
    BY <1>4, <2>3
  <2>8. ASSUME NEW m \in Names PROVE B.copy[m] \in 0 .. B.size
    <3>1. blocks[q].copy[m] \in 0 .. blocks[q].size
      BY <1>2
    <3>2. CASE m = n
      BY <1>4, <2>3, <2>4, <3>2
    <3>3. CASE m # n
      <4>1. B.copy[m] = blocks[q].copy[m]
        BY <2>4, <3>3
      <4> QED BY <1>4, <2>3, <3>1, <4>1
    <3> QED BY <3>2, <3>3
  <2>9. \A m \in Names : B.copy[m] = blocks[q].copy[m] \/ m = n
    BY <2>4
  <2>10. B.copy[n] = blocks[q].size + 1
    BY <1>6, <2>4
  <2>11. ASSUME NEW m \in Names, OneCopyMore(m, q, B) PROVE m = n
    BY <2>5, <2>6, <2>9, <2>11
  <2> QED BY <2>2, <2>3, <2>7, <2>8, <2>9, <2>10, <2>11
<1>7. CASE \E n \in Names : OneCopyMore(n, q, B)
  <2>1. PICK n \in Names : OneCopyMore(n, q, B)
    BY <1>7
  <2> QED BY <1>4, <1>6, <2>1
<1> QED BY <1>5, <1>7

\* The parts of the invariant about blocks and copies are kept by such a step.
LEMMA RebuiltIsSound ==
    ASSUME IInv, NEW p, NEW q, NEW B, Rebuilt(p, q, B),
           NoCopyMore(q, B) \/ \E n \in Names : OneCopyMore(n, q, B)
    PROVE  /\ copies' \in Seq(Values)
           /\ blocks' \in Seq(Block) /\ Len(blocks') \in 1 .. MaxBlocks
           /\ Len(copies') = Top'.size
           /\ \A i \in 1 .. Len(blocks') : \A n \in Names : blocks'[i].copy[n] <= blocks'[i].size
           /\ \A n \in Names : level'[n] \in 0 .. Len(blocks')
           /\ CopiesInScope' /\ CopiesGrow' /\ CopiesApart' /\ NoCopyBefore'
           /\ (LossyAssign \/ ReadsAgree)'
<1> DEFINE size(i) == blocks[i].size
           copy(i, n) == blocks[i].copy[n]
<1>1. /\ p \in Nat /\ q \in 1 .. Len(blocks) /\ (q = p + 1 \/ q = p) /\ Len(blocks) \in Nat
      /\ Len(blocks') = p + 1 /\ p + 1 <= MaxBlocks /\ blocks' \in Seq(Block)
      /\ \A i \in 1 .. p : blocks'[i] = blocks[i]
      /\ blocks'[p + 1] = B
      /\ 1 .. p \subseteq 1 .. q /\ 1 .. q \subseteq 1 .. Len(blocks)
      /\ MaxBlocks \in Nat
  BY Shape, NarrowingAssumption DEF Rebuilt
<1>2. /\ copies' \in Seq(Values) /\ Len(copies') = B.size
      /\ size(q) \in Nat
      /\ \A j \in 1 .. size(q) : copies'[j] = copies[j]
      /\ size(q) <= B.size
      /\ \A m \in Names : B.copy[m] \in 0 .. B.size
      /\ \A m \in Names : \/ B.copy[m] = copy(q, m)
                          \/ B.copy[m] = size(q) + 1 /\ OneCopyMore(m, q, B)
      /\ \A m, n \in Names : OneCopyMore(m, q, B) /\ OneCopyMore(n, q, B) => m = n
  BY CopiesKept
<1>3. \A i \in 1 .. Len(blocks) : /\ size(i) \in Nat
                                 /\ \A n \in Names : copy(i, n) \in 0 .. size(i)
  <2> SUFFICES ASSUME NEW i \in 1 .. Len(blocks)
               PROVE size(i) \in Nat /\ \A n \in Names : copy(i, n) \in 0 .. size(i)
    OBVIOUS
  <2>1. size(i) \in Nat
    BY Shape, BlockFacts, NarrowingAssumption
  <2> QED BY <2>1, HeldFacts
<1>4. B.size \in Nat
  BY NarrowingAssumption, BlockFacts DEF Rebuilt
<1>5. \A i, j \in 1 .. Len(blocks) : i <= j =>
          size(i) <= size(j) /\ \A n \in Names : copy(i, n) <= copy(j, n)
  BY DEF IInv, CopiesInScope, CopiesGrow
<1>6. \A i \in 1 .. p : /\ size(i) <= size(q) /\ size(i) <= B.size
                       /\ \A n \in Names : copy(i, n) <= copy(q, n) /\ copy(i, n) \in 0 .. size(q)
  <2> SUFFICES ASSUME NEW i \in 1 .. p
               PROVE  /\ size(i) <= size(q) /\ size(i) <= B.size
                      /\ \A n \in Names : copy(i, n) <= copy(q, n) /\ copy(i, n) \in 0 .. size(q)
    OBVIOUS
  <2>1. i \in 1 .. Len(blocks) /\ q \in 1 .. Len(blocks) /\ i <= q
    BY <1>1
  <2>2. size(i) <= size(q) /\ \A n \in Names : copy(i, n) <= copy(q, n)
    BY <1>5, <2>1
  <2>3. size(i) \in Nat /\ \A n \in Names : copy(i, n) \in 0 .. size(i)
    BY <1>3, <2>1
  <2> QED BY <1>2, <1>4, <2>2, <2>3
<1>7. \A n \in Names : copy(q, n) \in 0 .. size(q)
  BY <1>1, <1>3
<1>8. \A i \in 1 .. p + 1 : i \in 1 .. p \/ i = p + 1
  BY <1>1
<1>9. Top' = B
  BY <1>1 DEF Top
<1> HIDE DEF size, copy
<1>10. \A i \in 1 .. Len(blocks') : \A n \in Names : blocks'[i].copy[n] <= blocks'[i].size
  <2> SUFFICES ASSUME NEW i \in 1 .. p + 1, NEW n \in Names PROVE blocks'[i].copy[n] <= blocks'[i].size
    BY <1>1
  <2>1. CASE i \in 1 .. p
    BY <1>1, <1>3, <2>1 DEF size, copy
  <2>2. CASE i = p + 1
    BY <1>1, <1>2, <1>4, <2>2
  <2> QED BY <1>8, <2>1, <2>2
<1>11. CopiesInScope'
  <2> SUFFICES ASSUME NEW i \in 1 .. p + 1, NEW j \in 1 .. p + 1, i <= j
               PROVE  blocks'[i].size <= blocks'[j].size
    BY <1>1 DEF CopiesInScope
  <2>1. CASE j \in 1 .. p
    <3>1. i \in 1 .. p
      BY <1>1, <2>1
    <3> QED BY <1>1, <1>5, <2>1, <3>1 DEF size
  <2>2. CASE j = p + 1 /\ i \in 1 .. p
    BY <1>1, <1>6, <2>2 DEF size
  <2>3. CASE j = p + 1 /\ i = p + 1
    BY <1>1, <1>4, <2>3
  <2> QED BY <1>8, <2>1, <2>2, <2>3
<1>12. CopiesGrow'
  <2> SUFFICES ASSUME NEW i \in 1 .. p + 1, NEW j \in 1 .. p + 1, i <= j, NEW n \in Names
               PROVE  blocks'[i].copy[n] <= blocks'[j].copy[n]
    BY <1>1 DEF CopiesGrow
  <2>1. CASE j \in 1 .. p
    <3>1. i \in 1 .. p
      BY <1>1, <2>1
    <3> QED BY <1>1, <1>5, <2>1, <3>1 DEF copy
  <2>2. CASE j = p + 1 /\ i \in 1 .. p
    <3>1. copy(i, n) <= copy(q, n) /\ copy(i, n) \in 0 .. size(q)
      BY <1>6, <2>2
    <3>2. B.copy[n] = copy(q, n) \/ B.copy[n] = size(q) + 1
      BY <1>2
    <3>3. copy(i, n) <= B.copy[n]
      BY <1>2, <3>1, <3>2
    <3> QED BY <1>1, <2>2, <3>3 DEF copy
  <2>3. CASE j = p + 1 /\ i = p + 1
    BY <1>1, <1>2, <1>4, <2>3
  <2> QED BY <1>8, <2>1, <2>2, <2>3
<1>13. \A i, j \in 1 .. Len(blocks) : \A n, m \in Names :
          n # m /\ copy(i, n) = copy(j, m) => copy(i, n) = 0
  BY DEF IInv, CopiesApart, copy
<1>14. ASSUME NEW i \in 1 .. p, NEW n \in Names, NEW m \in Names, n # m,
              copy(i, n) = B.copy[m]
       PROVE  copy(i, n) = 0
  <2>1. copy(i, n) \in 0 .. size(q)
    BY <1>6
  <2>2. B.copy[m] # size(q) + 1
    BY <1>2, <1>14, <2>1
  <2>3. copy(i, n) = copy(q, m)
    BY <1>2, <1>14, <2>2
  <2> QED BY <1>1, <1>13, <1>14, <2>3
<1>15. ASSUME NEW n \in Names, NEW m \in Names, n # m, B.copy[n] = B.copy[m]
       PROVE  B.copy[n] = 0
  <2>1. CASE B.copy[n] = copy(q, n) /\ B.copy[m] = copy(q, m)
    BY <1>1, <1>13, <1>15, <2>1
  <2>0. size(q) \in Nat /\ copy(q, n) \in 0 .. size(q) /\ copy(q, m) \in 0 .. size(q)
    BY <1>2, <1>7
  <2>2. ~ (B.copy[n] = copy(q, n) /\ B.copy[m] = size(q) + 1)
    BY <1>15, <2>0
  <2>3. ~ (B.copy[n] = size(q) + 1 /\ B.copy[m] = copy(q, m))
    BY <1>15, <2>0
  <2>4. CASE OneCopyMore(n, q, B) /\ OneCopyMore(m, q, B)
    BY <1>2, <1>15, <2>4
  <2> QED BY <1>2, <2>1, <2>2, <2>3, <2>4
<1>16. CopiesApart'
  <2> SUFFICES ASSUME NEW i \in 1 .. p + 1, NEW j \in 1 .. p + 1,
                      NEW n \in Names, NEW m \in Names, n # m,
                      blocks'[i].copy[n] = blocks'[j].copy[m]
               PROVE  blocks'[i].copy[n] = 0
    BY <1>1 DEF CopiesApart
  <2>1. CASE i \in 1 .. p /\ j \in 1 .. p
    BY <1>1, <1>13, <2>1 DEF copy
  <2>2. CASE i \in 1 .. p /\ j = p + 1
    BY <1>1, <1>14, <2>2 DEF copy
  <2>3. CASE i = p + 1 /\ j \in 1 .. p
    <3>1. copy(j, m) = B.copy[n]
      BY <1>1, <2>3 DEF copy
    <3>2. copy(j, m) = 0
      BY <1>14, <2>3, <3>1
    <3> QED BY <1>1, <2>3, <3>1, <3>2
  <2>4. CASE i = p + 1 /\ j = p + 1
    BY <1>1, <1>15, <2>4
  <2> QED BY <1>8, <2>1, <2>2, <2>3, <2>4

<1>17. \A n \in Names : level[n] \notin 1 .. q =>
          B.copy[n] = 0 /\ \A i \in 1 .. p : copy(i, n) = 0
  <2> SUFFICES ASSUME NEW n \in Names, level[n] \notin 1 .. q
               PROVE  B.copy[n] = 0 /\ \A i \in 1 .. p : copy(i, n) = 0
    OBVIOUS
  <2>1. \A i \in 1 .. Len(blocks) : level[n] \notin 1 .. i => copy(i, n) = 0
    BY DEF IInv, NoCopyBefore, copy
  <2>2. copy(q, n) = 0
    BY <1>1, <2>1
  <2>3. \A i \in 1 .. p : level[n] \notin 1 .. i
    BY <1>1
  <2>4. ~ OneCopyMore(n, q, B)
    BY DEF OneCopyMore
  <2> QED BY <1>1, <1>2, <2>1, <2>2, <2>3, <2>4
<1>18. \A n \in Names :
        \/ level'[n] = level[n] /\ level[n] \in 0 .. q
           /\ value'[n] = value[n] /\ cell'[n] = cell[n]
        \/ level[n] \notin 1 .. q /\ level'[n] = 0
        \/ level[n] \notin 1 .. q /\ level'[n] = p + 1 /\ (LossyAssign \/ value'[n] = cell'[n])
  BY DEF Rebuilt
<1>19. \A n \in Names : level'[n] \in 0 .. Len(blocks')
  BY <1>1, <1>18
<1>20. NoCopyBefore'
  <2> SUFFICES ASSUME NEW i \in 1 .. p + 1, NEW n \in Names, level'[n] \notin 1 .. i
               PROVE  blocks'[i].copy[n] = 0
    BY <1>1 DEF NoCopyBefore
  <2>1. CASE level[n] \notin 1 .. q
    BY <1>1, <1>8, <1>17, <2>1 DEF copy
  <2>2. CASE level'[n] = level[n] /\ level[n] \in 1 .. q
    <3>1. i \in 1 .. p
      BY <1>1, <2>2
    <3>2. \A k \in 1 .. Len(blocks) : level[n] \notin 1 .. k => copy(k, n) = 0
      BY DEF IInv, NoCopyBefore, copy
    <3> QED BY <1>1, <2>2, <3>1, <3>2 DEF copy
  <2> QED BY <1>1, <1>18, <2>1, <2>2
<1>21. (LossyAssign \/ ReadsAgree)'
  <2> SUFFICES ASSUME ~ LossyAssign, NEW i \in 1 .. p + 1, NEW n \in Names, level'[n] \in 1 .. i
               PROVE  Held(blocks[i], n)' = value'[n]
    BY <1>1 DEF ReadsAgree
  <2>0. \A k \in 1 .. Len(blocks) : level[n] \in 1 .. k => Held(blocks[k], n) = value[n]
    BY DEF IInv, ReadsAgree
  <2>1. CASE level'[n] = level[n] /\ level[n] \in 0 .. q /\ value'[n] = value[n] /\ cell'[n] = cell[n]
    <3>1. CASE i \in 1 .. p
      <4>1. Held(blocks[i], n) = value[n] /\ copy(i, n) \in 0 .. size(q)
        BY <1>1, <1>6, <2>0, <2>1, <3>1
      <4>2. copy(i, n) # 0 => copies'[copy(i, n)] = copies[copy(i, n)]
        BY <1>2, <4>1
      <4>3. blocks'[i].copy[n] = copy(i, n)
        BY <1>1, <3>1 DEF copy
      <4> QED BY <2>1, <4>1, <4>2, <4>3 DEF Held, copy
    <3>2. CASE i = p + 1
      <4>1. level[n] \in 1 .. q
        BY <1>1, <2>1, <3>2
      <4>2. Held(blocks[q], n) = value[n] /\ copy(q, n) \in 0 .. size(q)
        BY <1>1, <1>7, <2>0, <4>1
      <4>3. copy(q, n) # 0 => copies'[copy(q, n)] = copies[copy(q, n)]
        BY <1>2, <4>2
      <4>4. CASE B.copy[n] = copy(q, n)
        BY <1>1, <2>1, <3>2, <4>2, <4>3, <4>4 DEF Held, copy
      <4>5. CASE B.copy[n] = size(q) + 1 /\ OneCopyMore(n, q, B)
        <5>1. copies' = Append(SubSeq(copies, 1, size(q)), Held(blocks[q], n))
          BY <4>5 DEF OneCopyMore, size
        <5>2. copies'[size(q) + 1] = Held(blocks[q], n)
          <6>1. size(q) \in 0 .. Len(copies) /\ Held(blocks[q], n) \in Values
            BY <1>1, <4>5, HeldFacts DEF OneCopyMore, size
          <6> QED BY <5>1, <6>1, PrefixFacts, Shape
        <5>3. size(q) + 1 # 0
          BY <1>2
        <5> QED BY <1>1, <2>1, <3>2, <4>2, <4>5, <5>2, <5>3 DEF Held
      <4> QED BY <1>2, <4>4, <4>5
    <3> QED BY <1>8, <3>1, <3>2
  <2>2. CASE level[n] \notin 1 .. q /\ level'[n] = p + 1 /\ value'[n] = cell'[n]
    <3>1. i = p + 1
      BY <1>1, <2>2
    <3> QED BY <1>1, <1>17, <2>2, <3>1 DEF Held
  <2> QED BY <1>1, <1>18, <2>1, <2>2
<1> QED BY <1>1, <1>2, <1>9, <1>10, <1>11, <1>12, <1>16, <1>19, <1>20, <1>21

\* A step of that kind keeps the whole invariant when it keeps the types, and
\* gives definite variables values that are present.
LEMMA RebuiltKeeps ==
    ASSUME IInv, NEW p, NEW q, NEW B, Rebuilt(p, q, B),
           NoCopyMore(q, B) \/ \E n \in Names : OneCopyMore(n, q, B),
           value' \in [Names -> Values \cup {Null}], cell' \in [Names -> Values \cup {Null}],
           type' \in [Names -> Types], level' \in [Names -> Nat],
           DefinitePresent', status' = status
    PROVE  IInv'
<1>1. /\ copies' \in Seq(Values)
      /\ blocks' \in Seq(Block) /\ Len(blocks') \in 1 .. MaxBlocks
      /\ Len(copies') = Top'.size
      /\ \A i \in 1 .. Len(blocks') : \A n \in Names : blocks'[i].copy[n] <= blocks'[i].size
      /\ \A n \in Names : level'[n] \in 0 .. Len(blocks')
      /\ CopiesInScope' /\ CopiesGrow' /\ CopiesApart' /\ NoCopyBefore'
      /\ (LossyAssign \/ ReadsAgree)'
  BY RebuiltIsSound
<1>2. level' \in [Names -> 0 .. Len(blocks')]
  BY <1>1
<1>3. status' \in {"running", "returned", "asserted", "unguarded", "misused"}
  BY DEF IInv, TypeOK
<1>4. TypeOK'
  BY <1>1, <1>2, <1>3 DEF TypeOK
<1> QED BY <1>1, <1>4 DEF IInv

\* What TypeOK says of the variables, with Top as block Len(blocks).
LEMMA StateFacts ==
    ASSUME IInv
    PROVE  /\ value \in [Names -> Values \cup {Null}] /\ cell \in [Names -> Values \cup {Null}]
           /\ type \in [Names -> Types] /\ level \in [Names -> Nat]
           /\ \A m \in Names : level[m] \in 0 .. Len(blocks)
           /\ Len(blocks) \in Nat /\ Len(blocks) >= 1 /\ Len(blocks) <= MaxBlocks
           /\ Len(blocks) \in 1 .. Len(blocks) /\ MaxBlocks \in Nat /\ MaxCopies \in Nat
           /\ Top = blocks[Len(blocks)] /\ Top \in Block
           /\ blocks \in Seq(Block) /\ Len(copies) = Top.size
           /\ copies \in Seq(Values)
           /\ DefinitePresent
  BY Shape, NarrowingAssumption DEF IInv, TypeOK, Top

LEMMA LetKeeps ==
    ASSUME IInv, NEW n \in Names, NEW t \in Types, NEW e \in Expr, Let(n, t, e)
    PROVE  IInv'
<1> DEFINE B == [Top EXCEPT !.recorded[n] = t]
<1>1. /\ status' = status /\ level[n] = 0 /\ Evaluates(e) /\ Fits(e, t)
      /\ value' = [value EXCEPT ![n] = Meaning(e)]
      /\ cell' = [cell EXCEPT ![n] = Computed(e)]
      /\ type' = [type EXCEPT ![n] = t]
      /\ level' = [level EXCEPT ![n] = Len(blocks)]
      /\ blocks' = [blocks EXCEPT ![Len(blocks)] = B]
      /\ copies' = copies
  BY StateFacts DEF Let, InList, Running, SetTop, Visible
<1>2. B \in Block /\ B.copy = Top.copy /\ B.size = Top.size
  BY StateFacts DEF Block
<1> HIDE DEF B
<1>3. /\ Computed(e) \in Values \cup {Null} /\ Meaning(e) \in Values \cup {Null}
      /\ t = "T" => Computed(e) \in Values
      /\ LossyAssign \/ Computed(e) = Meaning(e)
  BY <1>1, ComputedFacts DEF Fits
<1>4. /\ value' \in [Names -> Values \cup {Null}] /\ cell' \in [Names -> Values \cup {Null}]
      /\ type' \in [Names -> Types] /\ level' \in [Names -> Nat]
  BY <1>1, <1>3, StateFacts
<1>5. Rebuilt(Len(blocks) - 1, Len(blocks), B)
  <2>1. /\ blocks' \in Seq(Block) /\ Len(blocks') = Len(blocks)
        /\ \A i \in 1 .. Len(blocks) - 1 : blocks'[i] = blocks[i]
        /\ blocks'[Len(blocks)] = B
    BY <1>1, <1>2, StateFacts
  <2>2. \A m \in Names :
        \/ level'[m] = level[m] /\ level[m] \in 0 .. Len(blocks)
           /\ value'[m] = value[m] /\ cell'[m] = cell[m]
        \/ level[m] \notin 1 .. Len(blocks) /\ level'[m] = Len(blocks)
           /\ (LossyAssign \/ value'[m] = cell'[m])
    BY <1>1, <1>3, StateFacts
  <2>3. Len(blocks) - 1 + 1 = Len(blocks) /\ Len(blocks) - 1 \in Nat
    BY StateFacts
  <2> QED BY <1>2, <2>1, <2>2, <2>3, StateFacts DEF Rebuilt
<1>6. NoCopyMore(Len(blocks), B)
  BY <1>1, <1>2, StateFacts DEF NoCopyMore
<1>7. DefinitePresent'
  BY <1>1, <1>3, NarrowingAssumption, StateFacts DEF DefinitePresent, Visible
<1> QED BY <1>1, <1>4, <1>5, <1>6, <1>7, RebuiltKeeps

\* An assignment reaches the one place that every name of n stands for: no
\* block between the declaration and the assignment has gone over to a copy.
LEMMA AssignKeeps ==
    ASSUME IInv, NEW n \in Names, NEW e \in Expr, Assign(n, e)
    PROVE  IInv'
<1> DEFINE k == Top.copy[n]
<1>1. /\ status' = status /\ Visible(n) /\ (LossyAssign \/ ~ Lossy(n))
      /\ Evaluates(e) /\ Fits(e, TypeOf(n))
      /\ value' = [value EXCEPT ![n] = Meaning(e)]
      /\ type' = type /\ level' = level /\ blocks' = blocks
      /\ k = 0 => cell' = [cell EXCEPT ![n] = Computed(e)] /\ copies' = copies
      /\ k # 0 => copies' = [copies EXCEPT ![k] = Computed(e)] /\ cell' = cell
  BY DEF Assign, Running
<1>2. /\ Computed(e) \in Values \cup {Null} /\ Meaning(e) \in Values \cup {Null}
      /\ TypeOf(n) = "T" => Computed(e) \in Values
      /\ LossyAssign \/ Computed(e) = Meaning(e)
  BY <1>1, ComputedFacts DEF Fits
<1>3. k \in 0 .. Len(copies) /\ Len(copies) \in Nat
  <2>1. Len(copies) = Top.size /\ Top = blocks[Len(blocks)] /\ Len(blocks) \in 1 .. Len(blocks)
    BY StateFacts
  <2> QED BY <2>1, HeldFacts, Shape
<1>4. k # 0 => Computed(e) \in Values
  BY <1>2 DEF TypeOf
<1> HIDE DEF k
<1>5. /\ copies' \in Seq(Values) /\ Len(copies') = Len(copies)
      /\ \A j \in 1 .. Len(copies) : copies'[j] = IF k # 0 /\ j = k THEN Computed(e) ELSE copies[j]
  <2>1. copies \in Seq(Values)
    BY StateFacts
  <2>2. CASE k = 0
    BY <1>1, <2>1, <2>2
  <2>3. CASE k # 0
    <3>1. copies' = [copies EXCEPT ![k] = Computed(e)] /\ Computed(e) \in Values
      BY <1>1, <1>4, <2>3
    <3>2. k \in 1 .. Len(copies)
      BY <1>3, <2>3
    <3>3. [copies EXCEPT ![k] = Computed(e)] \in Seq(Values)
      BY <2>1, <3>1, <3>2
    <3>4. Len([copies EXCEPT ![k] = Computed(e)]) = Len(copies)
      BY <2>1, <3>1, <3>2
    <3>5. \A j \in 1 .. Len(copies) :
             [copies EXCEPT ![k] = Computed(e)][j] = IF j = k THEN Computed(e) ELSE copies[j]
      BY <2>1, <3>2
    <3> QED BY <2>3, <3>1, <3>3, <3>4, <3>5
  <2> QED BY <2>2, <2>3
<1>6. /\ cell' \in [Names -> Values \cup {Null}]
      /\ \A m \in Names : cell'[m] = IF k = 0 /\ m = n THEN Computed(e) ELSE cell[m]
  BY <1>1, <1>2, StateFacts
<1>7. Top' = Top
  BY <1>1 DEF Top
<1>8. TypeOK'
  BY <1>1, <1>2, <1>5, <1>6, <1>7 DEF IInv, TypeOK
<1>9. CopiesInScope' /\ CopiesGrow' /\ CopiesApart' /\ NoCopyBefore'
  BY <1>1 DEF IInv, CopiesInScope, CopiesGrow, CopiesApart, NoCopyBefore
<1>10. DefinitePresent'
  <2> SUFFICES ASSUME NEW m \in Names, Visible(m), type[m] = "T"
               PROVE  cell'[m] # Null
    BY <1>1 DEF DefinitePresent, Visible
  <2>1. cell[m] # Null
    BY StateFacts DEF DefinitePresent
  <2>2. k = 0 /\ m = n => TypeOf(n) = "T"
    BY DEF TypeOf, k
  <2> QED BY <1>2, <1>6, <2>1, <2>2, NarrowingAssumption
<1>11. (LossyAssign \/ ReadsAgree)'
  <2> SUFFICES ASSUME ~ LossyAssign, NEW i \in 1 .. Len(blocks), NEW m \in Names, level[m] \in 1 .. i
               PROVE  Held(blocks[i], m)' = value'[m]
    BY <1>1 DEF ReadsAgree
  <2>1. Held(blocks[i], m) = value[m]
    BY DEF IInv, ReadsAgree
  <2>2. blocks[i].copy[m] \in 0 .. Len(copies)
    BY <1>3, HeldFacts
  <2>3. CASE m = n
    <3>1. k = blocks[level[n]].copy[n]
      BY <1>1 DEF Lossy, k
    <3>2. /\ level[n] \in 1 .. Len(blocks) /\ Len(blocks) \in 1 .. Len(blocks)
          /\ level[n] <= i /\ i <= Len(blocks)
      BY <2>3, StateFacts
    <3>3. blocks[level[n]].copy[n] <= blocks[i].copy[n] /\ blocks[i].copy[n] <= blocks[Len(blocks)].copy[n]
      BY <3>2 DEF IInv, CopiesGrow
    <3>4. k = blocks[Len(blocks)].copy[n]
      BY StateFacts DEF k
    <3>5. blocks[i].copy[n] = k
      BY <1>3, <2>2, <2>3, <3>1, <3>3, <3>4
    <3>6. Held(blocks[i], n)' = Computed(e)
      BY <1>1, <1>3, <1>5, <1>6, <3>5 DEF Held
    <3> QED BY <1>1, <1>2, <2>3, <3>6, StateFacts
  <2>4. CASE m # n
    <3>1. blocks[i].copy[m] # k \/ k = 0
      <4>1. Len(blocks) \in 1 .. Len(blocks) /\ k = blocks[Len(blocks)].copy[n]
        BY StateFacts DEF k
      <4>2. blocks[i].copy[m] = blocks[Len(blocks)].copy[n] => blocks[i].copy[m] = 0
        BY <2>4, <4>1 DEF IInv, CopiesApart
      <4> QED BY <4>1, <4>2
    <3>2. Held(blocks[i], m)' = Held(blocks[i], m)
      BY <1>1, <1>5, <1>6, <2>2, <2>4, <3>1 DEF Held
    <3> QED BY <1>1, <2>1, <2>4, <3>2, StateFacts
  <2> QED BY <2>3, <2>4
<1>12. status' # "misused"
  BY <1>1 DEF IInv
<1> QED BY <1>8, <1>9, <1>10, <1>11, <1>12 DEF IInv

\* A value is present where it is accepted, but for the two cases let through.
LEMMA UseKeeps ==
    ASSUME IInv, NEW place \in Places, NEW e \in Expr, Use(place, e)
    PROVE  IInv'
<1>1. /\ Evaluates(e) /\ AcceptedAt(place, e)
      /\ status = "running"
      /\ status' = IF Computed(e) # Null THEN status
                   ELSE IF Unguarded(place, e) THEN "unguarded" ELSE "misused"
      /\ UNCHANGED <<value, cell, copies, type, level, blocks>>
  BY DEF Use
<1>2. Unguarded(place, e) \/ Computed(e) # Null
  <2> SUFFICES ASSUME place # "unary", e.form # "null"
               PROVE  Computed(e) # Null
    BY DEF Unguarded
  <2>1. Checked(e) /\ Definite(e)
    BY <1>1 DEF AcceptedAt, Fits, Places
  <2> QED BY <1>1, <2>1, ComputedFacts, NarrowingAssumption
<1>3. Top' = Top
  BY <1>1 DEF Top
<1>4. TypeOK'
  BY <1>1, <1>3 DEF IInv, TypeOK
<1>5. CopiesInScope' /\ CopiesGrow' /\ CopiesApart' /\ NoCopyBefore' /\ DefinitePresent'
  BY <1>1 DEF IInv, CopiesInScope, CopiesGrow, CopiesApart, NoCopyBefore, DefinitePresent, Visible
<1>6. (LossyAssign \/ ReadsAgree)'
  BY <1>1 DEF IInv, ReadsAgree, Held
<1>7. status' # "misused"
  BY <1>1, <1>2
<1> QED BY <1>4, <1>5, <1>6, <1>7 DEF IInv

\* The program ends, or does nothing.
LEMMA StopKeeps ==
    ASSUME IInv, UNCHANGED <<value, cell, copies, type, level, blocks>>,
           status' \in {status, "returned", "asserted"}
    PROVE  IInv'
<1>1. Top' = Top
  BY DEF Top
<1>2. TypeOK'
  BY <1>1 DEF IInv, TypeOK
<1>3. CopiesInScope' /\ CopiesGrow' /\ CopiesApart' /\ NoCopyBefore' /\ DefinitePresent'
  BY DEF IInv, CopiesInScope, CopiesGrow, CopiesApart, NoCopyBefore, DefinitePresent, Visible
<1>4. (LossyAssign \/ ReadsAgree)' /\ status' # "misused"
  BY DEF IInv, ReadsAgree, Held
<1> QED BY <1>2, <1>3, <1>4 DEF IInv

\* A block B on top of the others.
LEMMA AppendKeeps ==
    ASSUME IInv, NEW B \in Block, Len(blocks) < MaxBlocks, blocks' = Append(blocks, B),
           status' = status, type' = type, level' = level, value' = value, cell' = cell,
           NoCopyMore(Len(blocks), B) \/ \E n \in Names : OneCopyMore(n, Len(blocks), B)
    PROVE  IInv'
<1>1. Rebuilt(Len(blocks), Len(blocks), B)
  <2>1. /\ blocks' \in Seq(Block) /\ Len(blocks') = Len(blocks) + 1
        /\ \A i \in 1 .. Len(blocks) : blocks'[i] = blocks[i]
        /\ blocks'[Len(blocks) + 1] = B
    BY StateFacts
  <2>2. Len(blocks) + 1 <= MaxBlocks
    BY StateFacts
  <2> QED BY <2>1, <2>2, StateFacts DEF Rebuilt
<1>2. DefinitePresent'
  BY DEF IInv, DefinitePresent, Visible
<1> QED BY <1>1, <1>2, StateFacts, RebuiltKeeps

\* The copy that narrow_block makes of a name that is present.
LEMMA NarrowedFacts ==
    ASSUME IInv, NEW n \in Names, NEW b \in Block,
           Visible(n), Room(n), Compiled(n) # Null, level' = level,
           b.copy = Top.copy, b.size = Top.size, b.guarded = Top.guarded, b.recorded = Top.recorded
    PROVE  /\ Narrowed(b, n) \in Block
           /\ copies' = CopiesOf(Top, n) =>
                \/ NoCopyMore(Len(blocks), Narrowed(b, n))
                \/ OneCopyMore(n, Len(blocks), Narrowed(b, n))
<1> DEFINE B == Narrowed(b, n)
<1>1. Mints(b, n) <=> Mints(Top, n)
  BY DEF Mints
<1>2. CASE Mints(Top, n)
  <2>1. Top.size < MaxCopies
    BY <1>2, StateFacts DEF Room
  <2>2. Top.size \in Nat /\ Top.size + 1 \in 0 .. MaxCopies
    BY <2>1, StateFacts, BlockFacts
  <2>3. B = [b EXCEPT !.copy[n] = b.size + 1, !.size = @ + 1, !.proven = @ \cup {n}]
    BY <1>1, <1>2 DEF Narrowed
  <2>4. b.copy \in [Names -> 0 .. MaxCopies] /\ b.proven \subseteq Names
    BY BlockFacts
  <2>5. B \in Block /\ B.copy = [b.copy EXCEPT ![n] = b.size + 1] /\ B.size = b.size + 1
    <3> DEFINE c == [b.copy EXCEPT ![n] = b.size + 1]
               r == b.proven \cup {n}
    <3>1. c \in [Names -> 0 .. MaxCopies] /\ r \subseteq Names
      BY <2>2, <2>4
    <3>2. B = [b EXCEPT !.copy = c, !.size = b.size + 1, !.proven = r]
      BY <2>3 DEF Block
    <3> HIDE DEF c, r, B
    <3>3. B \in Block /\ B.copy = c /\ B.size = b.size + 1
      BY <2>2, <3>1, <3>2 DEF Block
    <3> QED BY <3>3 DEF c
  <2>6. copies' = CopiesOf(Top, n) =>
           copies' = Append(SubSeq(copies, 1, Top.size), Held(Top, n))
    BY <1>2 DEF CopiesOf
  <2>7. level[n] \in 1 .. Len(blocks) /\ Top = blocks[Len(blocks)]
    BY StateFacts DEF Visible
  <2> QED BY <2>5, <2>6, <2>7 DEF OneCopyMore, Compiled
<1>3. CASE ~ Mints(Top, n)
  <2>1. B = [b EXCEPT !.proven = @ \cup {n}]
    BY <1>1, <1>3 DEF Narrowed
  <2>2. B \in Block /\ B.copy = b.copy /\ B.size = b.size
    BY <2>1, BlockFacts DEF Block
  <2>3. ASSUME copies' = CopiesOf(Top, n) PROVE NoCopyMore(Len(blocks), B)
    <3>1. Top.size \in 0 .. Len(copies) /\ Top = blocks[Len(blocks)] /\ copies \in Seq(Values)
      BY StateFacts, BlockFacts
    <3>2. copies' = SubSeq(copies, 1, Top.size)
      BY <1>3, <2>3 DEF CopiesOf
    <3> HIDE DEF B
    <3> QED BY <2>2, <3>1, <3>2, PrefixFacts, NarrowingAssumption DEF NoCopyMore
  <2> QED BY <2>2, <2>3
<1> QED BY <1>2, <1>3

LEMMA EnterPresentKeeps ==
    ASSUME IInv, NEW n \in Names, EnterPresent(n)
    PROVE  IInv'
<1>1. /\ Inner \in Block /\ Inner.copy = Top.copy /\ Inner.size = Top.size
      /\ Inner.guarded = Top.guarded /\ Inner.recorded = Top.recorded
  BY InnerFacts
<1>2. /\ Visible(n) /\ Room(n) /\ Compiled(n) # Null /\ level' = level
      /\ Len(blocks) < MaxBlocks /\ status' = status
      /\ copies' = CopiesOf(Top, n) /\ blocks' = Append(blocks, Narrowed(Inner, n))
      /\ value' = value /\ cell' = cell /\ type' = type
  BY DEF EnterPresent, InList, Running
<1>3. /\ Narrowed(Inner, n) \in Block
      /\ \/ NoCopyMore(Len(blocks), Narrowed(Inner, n))
         \/ OneCopyMore(n, Len(blocks), Narrowed(Inner, n))
  BY <1>1, <1>2, NarrowedFacts
<1> QED BY <1>2, <1>3, AppendKeeps

LEMMA IfNullKeeps ==
    ASSUME IInv, NEW n \in Names, NEW exits \in BOOLEAN, IfNull(n, exits)
    PROVE  IInv'
<1> DEFINE B == [Inner EXCEPT !.test = n, !.exits = exits]
<1>1. B \in Block /\ B.copy = Top.copy /\ B.size = Top.size
  BY InnerFacts
<1>2. blocks' = Append(blocks, B) /\ Len(blocks) < MaxBlocks
  BY DEF IfNull
<1> HIDE DEF B
<1>3. NoCopyMore(Len(blocks), B)
  BY <1>1, StateFacts DEF NoCopyMore, IfNull
<1> QED BY <1>1, <1>2, <1>3, AppendKeeps DEF IfNull, InList, Running

LEMMA EnterKeeps ==
    ASSUME IInv, Enter
    PROVE  IInv'
<1>1. Inner \in Block /\ Inner.copy = Top.copy /\ Inner.size = Top.size
  BY InnerFacts
<1>2. NoCopyMore(Len(blocks), Inner)
  BY <1>1, StateFacts DEF NoCopyMore, Enter
<1> QED BY <1>1, <1>2, AppendKeeps DEF Enter, Running

LEMMA SkipNullKeeps ==
    ASSUME IInv, NEW n \in Names, NEW exits \in BOOLEAN, SkipNull(n, exits)
    PROVE  IInv'
<1> DEFINE B == AfterGuard(Top, n, exits)
<1>1. /\ Visible(n) /\ Room(n) /\ Compiled(n) # Null /\ level' = level
      /\ status' = status /\ copies' = CopiesAfter(Top, n, exits)
      /\ blocks' = [blocks EXCEPT ![Len(blocks)] = B]
      /\ value' = value /\ cell' = cell /\ type' = type
  BY DEF SkipNull, InList, Running, SetTop
<1>2. B \in Block /\ (NoCopyMore(Len(blocks), B) \/ OneCopyMore(n, Len(blocks), B))
  <2>1. CASE ~ exits
    <3>1. B = Top /\ copies' = SubSeq(copies, 1, Top.size)
      BY <1>1, <2>1 DEF AfterGuard, CopiesAfter, DefinitelyExits
    <3>2. Top.size \in 0 .. Len(copies) /\ Top = blocks[Len(blocks)] /\ copies \in Seq(Values)
          /\ Top \in Block
      BY StateFacts, BlockFacts
    <3> QED BY <3>1, <3>2, PrefixFacts, NarrowingAssumption DEF NoCopyMore
  <2>2. CASE exits
    <3> DEFINE N == Narrowed(Top, n)
    <3>1. copies' = CopiesOf(Top, n)
      BY <1>1, <2>2 DEF CopiesAfter, DefinitelyExits
    <3>2. N \in Block /\ (NoCopyMore(Len(blocks), N) \/ OneCopyMore(n, Len(blocks), N))
      BY <1>1, <3>1, NarrowedFacts, StateFacts
    <3>3. B = [N EXCEPT !.guarded = IF Mints(Top, n) THEN @ \cup {n} ELSE @]
      BY <2>2 DEF AfterGuard, DefinitelyExits
    <3> HIDE DEF B, N
    <3>4. B \in Block /\ B.copy = N.copy /\ B.size = N.size
      BY <3>2, <3>3, BlockFacts DEF Block
    <3> QED BY <3>2, <3>4 DEF NoCopyMore, OneCopyMore
  <2> QED BY <2>1, <2>2
<1> HIDE DEF B
<1>3. Rebuilt(Len(blocks) - 1, Len(blocks), B)
  <2>1. /\ blocks' \in Seq(Block) /\ Len(blocks') = Len(blocks)
        /\ \A i \in 1 .. Len(blocks) - 1 : blocks'[i] = blocks[i]
        /\ blocks'[Len(blocks)] = B
    BY <1>1, <1>2, StateFacts
  <2>2. Len(blocks) - 1 + 1 = Len(blocks) /\ Len(blocks) - 1 \in Nat
    BY StateFacts
  <2> QED BY <1>1, <1>2, <2>1, <2>2, StateFacts DEF Rebuilt
<1>4. DefinitePresent'
  BY <1>1 DEF IInv, DefinitePresent, Visible
<1> QED BY <1>1, <1>2, <1>3, <1>4, RebuiltKeeps, StateFacts

\* A loop of either kind: variable n comes with the block B of the loop.
LEMMA LoopKeeps ==
    ASSUME IInv, NEW n \in Names, NEW t \in Types,
           NEW v \in Values \cup {Null}, NEW c \in Values \cup {Null},
           LossyAssign \/ v = c, t = "T" => c # Null,
           NEW B \in Block, B.copy = Top.copy, B.size = Top.size,
           status' = status, ~ Visible(n), Len(blocks) < MaxBlocks,
           value' = [value EXCEPT ![n] = v], cell' = [cell EXCEPT ![n] = c],
           type' = [type EXCEPT ![n] = t],
           level' = [level EXCEPT ![n] = Len(blocks) + 1],
           blocks' = Append(blocks, B), copies' = copies
    PROVE  IInv'
<1>1. level[n] = 0
  BY StateFacts DEF Visible
<1>2. /\ value' \in [Names -> Values \cup {Null}] /\ cell' \in [Names -> Values \cup {Null}]
      /\ type' \in [Names -> Types] /\ level' \in [Names -> Nat]
  BY StateFacts
<1>3. Rebuilt(Len(blocks), Len(blocks), B)
  <2>1. /\ blocks' \in Seq(Block) /\ Len(blocks') = Len(blocks) + 1
        /\ \A i \in 1 .. Len(blocks) : blocks'[i] = blocks[i]
        /\ blocks'[Len(blocks) + 1] = B
    BY StateFacts
  <2>2. \A m \in Names :
        \/ level'[m] = level[m] /\ level[m] \in 0 .. Len(blocks)
           /\ value'[m] = value[m] /\ cell'[m] = cell[m]
        \/ level[m] \notin 1 .. Len(blocks) /\ level'[m] = Len(blocks) + 1
           /\ (LossyAssign \/ value'[m] = cell'[m])
    BY <1>1, StateFacts
  <2>3. Len(blocks) + 1 <= MaxBlocks
    BY StateFacts
  <2> QED BY <2>1, <2>2, <2>3, StateFacts DEF Rebuilt
<1>4. NoCopyMore(Len(blocks), B)
  BY StateFacts DEF NoCopyMore
<1>5. DefinitePresent'
  BY StateFacts DEF DefinitePresent, Visible
<1> QED BY <1>2, <1>3, <1>4, <1>5, RebuiltKeeps

LEMMA ForOfKeeps ==
    ASSUME IInv, NEW n \in Names, NEW t \in Types, NEW v \in Values \cup {Null}, ForOf(n, t, v)
    PROVE  IInv'
<1> DEFINE B == [Inner EXCEPT !.loopVar = n]
<1>1. B \in Block /\ B.copy = Top.copy /\ B.size = Top.size
  BY InnerFacts
<1>2. t = "T" => v # Null
  BY DEF ForOf
<1>3. blocks' = Append(blocks, B)
  BY DEF ForOf
<1> HIDE DEF B
<1> QED BY <1>1, <1>2, <1>3, LoopKeeps DEF ForOf, InList, Running

LEMMA ForLetKeeps ==
    ASSUME IInv, NEW n \in Names, NEW t \in Types, NEW e \in Expr, ForLet(n, t, e)
    PROVE  IInv'
<1> DEFINE B == [Inner EXCEPT !.loopVar = n, !.header = TRUE]
<1>1. B \in Block /\ B.copy = Top.copy /\ B.size = Top.size
  BY InnerFacts
<1>2. Evaluates(e) /\ Fits(e, t)
  BY DEF ForLet
<1>3. /\ Computed(e) \in Values \cup {Null} /\ Meaning(e) \in Values \cup {Null}
      /\ t = "T" => Computed(e) # Null
      /\ LossyAssign \/ Meaning(e) = Computed(e)
  BY <1>2, ComputedFacts, NarrowingAssumption DEF Fits
<1>4. blocks' = Append(blocks, B)
  BY DEF ForLet
<1> HIDE DEF B
<1> QED BY <1>1, <1>3, <1>4, LoopKeeps DEF ForLet, InList, Running

\* Blocks are left, by a jump or at their end.
LEMMA LeaveKeeps ==
    ASSUME IInv, NEW k \in 1 .. Len(blocks) - 1, Forget(k), status' = status,
           copies' = SubSeq(copies, 1, blocks[k].size),
           blocks' = Append(SubSeq(blocks, 1, k - 1), Recorded(k))
    PROVE  IInv'
<1> DEFINE B == Recorded(k)
<1>0. k \in 1 .. Len(blocks) /\ k + 1 \in 1 .. Len(blocks) /\ k - 1 \in 0 .. Len(blocks) /\ k \in Nat
  BY StateFacts
<1>1. B \in Block /\ B.copy = blocks[k].copy /\ B.size = blocks[k].size
  <2>1. blocks[k] \in Block /\ blocks[k + 1] \in Block
    BY <1>0, Shape
  <2>2. blocks[k].recorded \in [Names -> Types \cup {"unknown"}]
    BY <2>1, BlockFacts
  <2>3. blocks[k + 1].loopVar \in Names \cup {NoName}
    BY <2>1, BlockFacts
  <2>4. CASE blocks[k + 1].loopVar = NoName \/ blocks[k + 1].header
    BY <2>1, <2>4 DEF Recorded
  <2>5. CASE blocks[k + 1].loopVar # NoName /\ ~ blocks[k + 1].header
    <3> DEFINE n == blocks[k + 1].loopVar
               r == [blocks[k].recorded EXCEPT ![n] = type[n]]
    <3>1. r \in [Names -> Types \cup {"unknown"}]
      BY <2>2, <2>3, <2>5, StateFacts
    <3>2. B = [blocks[k] EXCEPT !.recorded = r]
      BY <2>1, <2>5 DEF Recorded, Block
    <3> HIDE DEF r
    <3> QED BY <2>1, <3>1, <3>2 DEF Block
  <2> QED BY <2>4, <2>5
<1> HIDE DEF B
<1>2. /\ blocks' \in Seq(Block) /\ Len(blocks') = k
      /\ \A i \in 1 .. k - 1 : blocks'[i] = blocks[i]
      /\ blocks'[k] = B
  <2>1. /\ Append(SubSeq(blocks, 1, k - 1), B) \in Seq(Block)
        /\ Len(Append(SubSeq(blocks, 1, k - 1), B)) = k - 1 + 1
        /\ \A i \in 1 .. k - 1 : Append(SubSeq(blocks, 1, k - 1), B)[i] = blocks[i]
        /\ Append(SubSeq(blocks, 1, k - 1), B)[k - 1 + 1] = B
    BY <1>0, <1>1, StateFacts, PrefixFacts
  <2>2. blocks' = Append(SubSeq(blocks, 1, k - 1), B)
    BY DEF B
  <2>3. k - 1 + 1 = k
    BY <1>0
  <2> QED BY <2>1, <2>2, <2>3
<1>3. blocks[k].size \in 0 .. Len(copies)
  <2>1. blocks[k].size <= blocks[Len(blocks)].size
    BY <1>0, StateFacts DEF IInv, CopiesInScope
  <2>2. blocks[k].size \in Nat /\ blocks[Len(blocks)].size \in Nat
    BY <1>0, Shape, StateFacts, BlockFacts
  <2> QED BY <2>1, <2>2, StateFacts
<1>4. NoCopyMore(k, B)
  BY <1>1, <1>3, StateFacts, PrefixFacts, NarrowingAssumption DEF NoCopyMore
<1>5. \A m \in Names : IF level[m] > k
                       THEN level'[m] = 0 /\ value'[m] = Null /\ cell'[m] = Null /\ type'[m] = "T?"
                       ELSE /\ level'[m] = level[m] /\ value'[m] = value[m]
                            /\ cell'[m] = cell[m] /\ type'[m] = type[m]
  BY StateFacts DEF Forget
<1>6. /\ value' \in [Names -> Values \cup {Null}] /\ cell' \in [Names -> Values \cup {Null}]
      /\ type' \in [Names -> Types] /\ level' \in [Names -> Nat]
  BY StateFacts DEF Forget, Types
<1>7. Rebuilt(k - 1, k, B)
  <2>1. \A m \in Names :
        \/ level'[m] = level[m] /\ level[m] \in 0 .. k
           /\ value'[m] = value[m] /\ cell'[m] = cell[m]
        \/ level[m] \notin 1 .. k /\ level'[m] = 0
    BY <1>0, <1>5, StateFacts
  <2>2. k - 1 \in Nat /\ k = k - 1 + 1 /\ k - 1 + 1 <= MaxBlocks
    BY <1>0, StateFacts
  <2> QED BY <1>0, <1>1, <1>2, <2>1, <2>2 DEF Rebuilt
<1>8. DefinitePresent'
  BY <1>5, StateFacts DEF DefinitePresent, Visible
<1> QED BY <1>4, <1>6, <1>7, <1>8, RebuiltKeeps

LEMMA JumpKeeps ==
    ASSUME IInv, NEW k, Jump(k)
    PROVE  IInv'
  BY LeaveKeeps DEF Jump, Running

\* A block that ends does so without an exit, so it proves nothing.
LEMMA EndBlockKeeps ==
    ASSUME IInv, EndBlock
    PROVE  IInv'
<1> DEFINE k == Len(blocks) - 1
<1>1. k \in 1 .. Len(blocks) - 1 /\ Forget(k) /\ status' = status /\ ~ Top.exits
  BY StateFacts DEF EndBlock, Running
<1>2. CASE Top.test = NoName
  BY <1>1, <1>2, LeaveKeeps DEF EndBlock
<1>3. CASE Top.test # NoName
  <2>1. /\ copies' = SubSeq(copies, 1, blocks[k].size)
        /\ blocks' = Append(SubSeq(blocks, 1, k - 1), Recorded(k))
    BY <1>1, <1>3 DEF EndBlock, CopiesAfter, AfterGuard, DefinitelyExits
  <2> QED BY <1>1, <2>1, LeaveKeeps
<1> QED BY <1>2, <1>3

-----------------------------------------------------------------------------
LEMMA InitIInv ==
    ASSUME Init
    PROVE  IInv
<1>1. /\ type \in [Names -> Types] /\ level \in [Names -> {0, 1}]
      /\ value \in [Names -> Values \cup {Null}] /\ cell = value
      /\ \A n \in Names : level[n] = 1 /\ type[n] = "T" => value[n] # Null
      /\ copies = <<>> /\ status = "running"
  BY DEF Init
<1> DEFINE b == [recorded |-> [n \in Names |-> IF level[n] = 0 THEN "unknown" ELSE type[n]],
                 copy |-> [n \in Names |-> 0], guarded |-> {}, proven |-> {}, size |-> 0,
                 test |-> NoName, exits |-> FALSE, loopVar |-> NoName,
                 header |-> FALSE]
<1>2. blocks = <<b>>
  BY DEF Init
<1>3. b \in Block /\ b.size = 0 /\ b.copy = [n \in Names |-> 0]
  <2>1. [n \in Names |-> IF level[n] = 0 THEN "unknown" ELSE type[n]] \in [Names -> Types \cup {"unknown"}]
    BY <1>1
  <2>2. 0 \in 0 .. MaxCopies
    BY NarrowingAssumption
  <2> QED BY <2>1, <2>2 DEF Block
<1> HIDE DEF b
<1>4. blocks \in Seq(Block) /\ Len(blocks) = 1 /\ blocks[1] = b /\ Top = b
  BY <1>2, <1>3 DEF Top
<1>5. Len(blocks) \in 1 .. MaxBlocks /\ level \in [Names -> 0 .. Len(blocks)]
  BY <1>1, <1>4, NarrowingAssumption
<1>6. TypeOK
  BY <1>1, <1>3, <1>4, <1>5 DEF TypeOK
<1>7. CopiesInScope /\ CopiesGrow /\ CopiesApart /\ NoCopyBefore
  BY <1>3, <1>4 DEF CopiesInScope, CopiesGrow, CopiesApart, NoCopyBefore
<1>8. DefinitePresent /\ ReadsAgree
  BY <1>1, <1>3, <1>4 DEF DefinitePresent, ReadsAgree, Visible, Held
<1> QED BY <1>1, <1>6, <1>7, <1>8 DEF IInv

LEMMA NextIInv ==
    ASSUME IInv, [Next]_vars
    PROVE  IInv'
<1> USE DEF Running
<1>1. CASE \E n \in Names, e \in Expr :
              \/ \E t \in Types : Let(n, t, e) \/ ForLet(n, t, e)
              \/ Assign(n, e)
  BY <1>1, LetKeeps, ForLetKeeps, AssignKeeps
<1>2. CASE \E place \in Places, e \in Expr : Use(place, e)
  BY <1>2, UseKeeps
<1>3. CASE AssertFails
  BY <1>3, StopKeeps DEF AssertFails
<1>4. CASE \E n \in Names :
              \/ EnterPresent(n)
              \/ \E exits \in BOOLEAN : IfNull(n, exits) \/ SkipNull(n, exits)
              \/ \E t \in Types, v \in Values \cup {Null} : ForOf(n, t, v)
  BY <1>4, EnterPresentKeeps, IfNullKeeps, SkipNullKeeps, ForOfKeeps
<1>5. CASE Enter
  BY <1>5, EnterKeeps
<1>6. CASE EndBlock
  BY <1>6, EndBlockKeeps
<1>7. CASE Return
  BY <1>7, StopKeeps DEF Return
<1>8. CASE \E k \in 1 .. MaxBlocks : Jump(k)
  BY <1>8, JumpKeeps
<1>9. CASE Ended \/ UNCHANGED vars
  BY <1>9, StopKeeps DEF Ended, vars
<1> QED BY <1>1, <1>2, <1>3, <1>4, <1>5, <1>6, <1>7, <1>8, <1>9 DEF Next, Statement, Control

-----------------------------------------------------------------------------
\* Each block sees the copies of the one around it and perhaps more, names do
\* not share copies, and what is definite is present.
THEOREM InductiveInvariant == Spec => []IInv
<1>1. Init => IInv
  BY InitIInv
<1>2. IInv /\ [Next]_vars => IInv'
  BY NextIInv
<1> QED BY <1>1, <1>2, PTL DEF Spec

\* Types, for every set of variables and every bound.
THEOREM TypeCorrect == Spec => []TypeOK
<1>1. IInv => TypeOK
  BY DEF IInv
<1> QED BY <1>1, InductiveInvariant, PTL

\* No variable or copy of definite type is ever null, and the null of a variable
\* gets to no sink, operand or receiver: check_null_safety accepts no program,
\* however its tests, guard clauses, assignments, loops and jumps are arranged,
\* in which narrowing has unwrapped a missing value.  (It does accept a null that
\* is itself written as an operand, and any operand of a unary minus: Unguarded.)
THEOREM NullStaysOut == Spec => []NullStaysOptional
<1>1. IInv => NullStaysOptional
  <2> SUFFICES ASSUME IInv PROVE NullStaysOptional
    OBVIOUS
  <2>1. status # "misused"
    BY DEF IInv
  <2>2. \A n \in Names : Visible(n) /\ TypeOf(n) = "T" => Compiled(n) # Null
    BY CompiledFacts, NarrowingAssumption
  <2>3. \A k \in 1 .. Len(copies) : copies[k] # Null
    BY Shape, NarrowingAssumption
  <2> QED BY <2>1, <2>2, <2>3 DEF NullStaysOptional
<1> QED BY <1>1, InductiveInvariant, PTL

\* In a program that makes no assignment in a region that ends before the
\* variable does, a name always stands for the value that the program gave the
\* variable, through any number of copies of copies.
THEOREM NamesStandForTheirVariable ==
    ASSUME ~ LossyAssign
    PROVE  Spec => []ReadsAgree
<1>1. IInv => ReadsAgree
  BY DEF IInv
<1> QED BY <1>1, InductiveInvariant, PTL

-----------------------------------------------------------------------------
(***************************************************************************)
(* What blocks have proven.  Every step that opens, ends or changes a      *)
(* block leaves the outer p blocks, and block B above them; variables of   *)
(* the first q old blocks stay, and perhaps one is declared in B.          *)
(***************************************************************************)
Above(p, q, B) ==
    /\ p \in Nat /\ q \in 1 .. Len(blocks) /\ (q = p + 1 \/ q = p)
    /\ Len(blocks') = p + 1 /\ blocks'[p + 1] = B
    /\ \A i \in 1 .. p : blocks'[i] = blocks[i]
    /\ \A m \in Names :
        \/ level'[m] = level[m] /\ level[m] \in 0 .. q /\ type'[m] = type[m]
        \/ level[m] \notin 1 .. q /\ level'[m] \in {0, p + 1}

Knows(B, p) ==
    /\ \A m \in B.proven : level'[m] \in 1 .. p + 1
    /\ \A m \in Names :
          level'[m] \in 1 .. p + 1 /\ blocks'[level'[m]].loopVar # m => B.recorded[m] = type'[m]
    /\ \A m \in B.guarded : B.copy[m] # 0
    /\ \A m \in B.proven :
          B.copy[m] # 0 \/ type'[m] = "T" \/ blocks'[level'[m]].loopVar = m

LEMMA AboveKeeps ==
    ASSUME IInv, ProvenIInv, NEW p, NEW q, NEW B \in Block, Above(p, q, B), Knows(B, p),
           B.loopVar # NoName => level'[B.loopVar] = p + 1
    PROVE  ProvenIInv'
<1>1. /\ p \in Nat /\ q \in 1 .. Len(blocks) /\ Len(blocks') = p + 1 /\ blocks'[p + 1] = B
      /\ \A i \in 1 .. p : blocks'[i] = blocks[i]
      /\ \A i \in 1 .. p + 1 : i \in 1 .. p \/ i = p + 1
      /\ \A i \in 1 .. p : i \in 1 .. Len(blocks) /\ i \in 1 .. q /\ i # p + 1
  BY StateFacts DEF Above
<1>2. \A i \in 1 .. p, m \in Names :
          /\ level'[m] \in 1 .. i => level'[m] \in 1 .. p
          /\ (level[m] \in 1 .. i \/ level'[m] \in 1 .. i) =>
                level'[m] = level[m] /\ type'[m] = type[m]
  <2> TAKE i \in 1 .. p, m \in Names
  <2>1. 1 .. i \subseteq 1 .. p /\ 1 .. i \subseteq 1 .. q /\ 0 \notin 1 .. i /\ p + 1 \notin 1 .. i
    BY <1>1
  <2> QED BY <2>1 DEF Above
<1>3. ASSUME NEW i \in 1 .. p
      PROVE  /\ \A m \in blocks[i].proven : m \in Names /\ level[m] \in 1 .. i
             /\ blocks[i].loopVar # NoName =>
                   blocks[i].loopVar \in Names /\ level[blocks[i].loopVar] = i
             /\ \A m \in Names : level[m] \in 1 .. i /\ blocks[level[m]].loopVar # m =>
                   blocks[i].recorded[m] = type[m]
             /\ \A m \in blocks[i].guarded : blocks[i].copy[m] # 0
             /\ \A m \in blocks[i].proven :
                   blocks[i].copy[m] # 0 \/ type[m] = "T" \/ blocks[level[m]].loopVar = m
  <2>1. i \in 1 .. Len(blocks) /\ blocks[i] \in Block
    BY <1>1, Shape
  <2>2. blocks[i].proven \subseteq Names /\ blocks[i].loopVar \in Names \cup {NoName}
    BY <2>1, BlockFacts
  <2> QED BY <2>1, <2>2 DEF ProvenIInv, ProvenVisible, LoopVariablesHere, TypesRecorded,
                            GuardedHaveCopies, ProvenHaveCopies
<1>4. ProvenVisible'
  <2> SUFFICES ASSUME NEW i \in 1 .. p + 1, NEW m \in blocks'[i].proven
               PROVE  level'[m] \in 1 .. i
    BY <1>1 DEF ProvenVisible
  <2>1. CASE i \in 1 .. p
    BY <1>1, <1>2, <1>3, <2>1
  <2>2. CASE i = p + 1
    BY <1>1, <2>2 DEF Knows
  <2> QED BY <1>1, <2>1, <2>2
<1>5. LoopVariablesHere'
  <2> SUFFICES ASSUME NEW i \in 1 .. p + 1, blocks'[i].loopVar # NoName
               PROVE  level'[blocks'[i].loopVar] = i
    BY <1>1 DEF LoopVariablesHere
  <2>1. CASE i \in 1 .. p
    <3>1. blocks'[i] = blocks[i] /\ i \in 1 .. i
      BY <1>1, <2>1
    <3> QED BY <1>2, <1>3, <2>1, <3>1
  <2>2. CASE i = p + 1
    BY <1>1, <2>2
  <2> QED BY <1>1, <2>1, <2>2
<1>6. TypesRecorded'
  <2> SUFFICES ASSUME NEW i \in 1 .. p + 1, NEW m \in Names,
                      level'[m] \in 1 .. i, blocks'[level'[m]].loopVar # m
               PROVE  blocks'[i].recorded[m] = type'[m]
    BY <1>1 DEF TypesRecorded
  <2>1. CASE i \in 1 .. p
    BY <1>1, <1>2, <1>3, <2>1
  <2>2. CASE i = p + 1
    BY <1>1, <2>2 DEF Knows
  <2> QED BY <1>1, <2>1, <2>2
<1>7. GuardedHaveCopies'
  <2> SUFFICES ASSUME NEW i \in 1 .. p + 1, NEW m \in blocks'[i].guarded
               PROVE  blocks'[i].copy[m] # 0
    BY <1>1 DEF GuardedHaveCopies
  <2> QED BY <1>1, <1>3 DEF Knows
<1>8. ProvenHaveCopies'
  <2> SUFFICES ASSUME NEW i \in 1 .. p + 1, NEW m \in blocks'[i].proven
               PROVE  blocks'[i].copy[m] # 0 \/ type'[m] = "T" \/ blocks'[level'[m]].loopVar = m
    BY <1>1 DEF ProvenHaveCopies
  <2>1. CASE i \in 1 .. p
    <3>1. m \in Names /\ level[m] \in 1 .. i
      BY <1>1, <1>3, <2>1
    <3>2. level'[m] = level[m] /\ type'[m] = type[m] /\ level'[m] \in 1 .. p
      BY <1>2, <2>1, <3>1
    <3> QED BY <1>1, <1>3, <2>1, <3>2
  <2>2. CASE i = p + 1
    BY <1>1, <2>2 DEF Knows
  <2> QED BY <1>1, <2>1, <2>2
<1> QED BY <1>4, <1>5, <1>6, <1>7, <1>8 DEF ProvenIInv

\* A block that knows what the top one knows, as it is and narrowed.
LEMMA NarrowedKnows ==
    ASSUME IInv, ProvenIInv, NEW b \in Block,
           b.copy = Top.copy, b.guarded = Top.guarded, b.recorded = Top.recorded,
           b.proven = Top.proven, b.size = Top.size,
           level' = level, type' = type, NEW p \in Nat, Len(blocks) <= p + 1,
           \A i \in 1 .. Len(blocks) : blocks'[i].loopVar = blocks[i].loopVar
    PROVE  /\ Knows(b, p)
           /\ \A n \in Names : Visible(n) =>
                 /\ Knows(Narrowed(b, n), p) /\ Narrowed(b, n).loopVar = b.loopVar
                 /\ Knows(AfterGuard(b, n, TRUE), p) /\ AfterGuard(b, n, TRUE).loopVar = b.loopVar
<1>1. /\ Len(blocks) \in 1 .. Len(blocks) /\ Len(blocks) \in Nat /\ Top = blocks[Len(blocks)]
      /\ \A m \in Names : level[m] \in 0 .. Len(blocks)
      /\ \A m \in Names : level[m] \in 1 .. p + 1 => level[m] \in 1 .. Len(blocks)
      /\ 1 .. Len(blocks) \subseteq 1 .. p + 1
      /\ \A m \in Names : Visible(m) => level[m] \in 1 .. Len(blocks)
  BY StateFacts DEF Visible
<1>2. /\ \A m \in b.proven : m \in Names /\ level[m] \in 1 .. Len(blocks)
      /\ \A m \in Names : level[m] \in 1 .. Len(blocks) /\ blocks[level[m]].loopVar # m =>
            b.recorded[m] = type[m]
      /\ \A m \in b.guarded : b.copy[m] # 0
      /\ \A m \in b.proven :
            b.copy[m] # 0 \/ type[m] = "T" \/ blocks[level[m]].loopVar = m
  <2>1. b.proven \subseteq Names
    BY BlockFacts
  <2> QED BY <1>1, <2>1 DEF ProvenIInv, ProvenVisible, TypesRecorded,
                            GuardedHaveCopies, ProvenHaveCopies
<1>3. Knows(b, p)
  BY <1>1, <1>2 DEF Knows
<1>4. ASSUME NEW n \in Names, Visible(n)
      PROVE  /\ Knows(Narrowed(b, n), p) /\ Narrowed(b, n).loopVar = b.loopVar
             /\ Knows(AfterGuard(b, n, TRUE), p) /\ AfterGuard(b, n, TRUE).loopVar = b.loopVar
  <2> DEFINE N == Narrowed(b, n)
             G == AfterGuard(b, n, TRUE)
  <2>1. CASE Mints(b, n)
    <3> DEFINE c == [b.copy EXCEPT ![n] = b.size + 1]
    <3>0. b.copy \in [Names -> 0 .. MaxCopies] /\ b.size \in Nat /\ b.size + 1 # 0
      BY BlockFacts, StateFacts
    <3>1. c[n] = b.size + 1 /\ \A m \in Names : m # n => c[m] = b.copy[m]
      BY <3>0
    <3>2. N = [b EXCEPT !.copy = c, !.size = b.size + 1, !.proven = b.proven \cup {n}]
      BY <2>1 DEF Narrowed, Block
    <3>3. /\ N.copy = c /\ N.proven = b.proven \cup {n} /\ N.guarded = b.guarded
          /\ N.recorded = b.recorded /\ N.loopVar = b.loopVar
      BY <3>2 DEF Block
    <3>4. G = [N EXCEPT !.guarded = b.guarded \cup {n}]
      BY <2>1, <3>2 DEF AfterGuard, DefinitelyExits, Block
    <3>5. /\ G.copy = c /\ G.proven = b.proven \cup {n} /\ G.guarded = b.guarded \cup {n}
          /\ G.recorded = b.recorded /\ G.loopVar = b.loopVar
      BY <3>2, <3>4 DEF Block
    <3>6. b.guarded \subseteq Names
      BY BlockFacts
    <3>7. /\ \A m \in b.proven \cup {n} : m \in Names /\ level[m] \in 1 .. Len(blocks)
          /\ \A m \in b.guarded \cup {n} : c[m] # 0
          /\ \A m \in b.proven \cup {n} :
                c[m] # 0 \/ type[m] = "T" \/ blocks[level[m]].loopVar = m
      <4> HIDE DEF c
      <4> QED BY <1>1, <1>2, <1>4, <3>0, <3>1, <3>6
    <3> HIDE DEF N, G, c
    <3>8. Knows(N, p)
      BY <1>1, <1>2, <3>3, <3>7 DEF Knows
    <3>9. Knows(G, p)
      BY <1>1, <1>2, <3>5, <3>7 DEF Knows
    <3> QED BY <3>3, <3>5, <3>8, <3>9 DEF N, G
  <2>2. CASE ~ Mints(b, n)
    <3>1. N = [b EXCEPT !.proven = b.proven \cup {n}]
      BY <2>2 DEF Narrowed
    <3>2. /\ N.copy = b.copy /\ N.proven = b.proven \cup {n} /\ N.guarded = b.guarded
          /\ N.recorded = b.recorded /\ N.loopVar = b.loopVar
      BY <3>1 DEF Block
    <3>3. G = N
      BY <2>2, <3>1 DEF AfterGuard, DefinitelyExits, Block
    <3>4. b.copy[n] # 0 \/ type[n] = "T" \/ blocks[level[n]].loopVar = n
      <4>1. CASE n \in b.guarded
        BY <1>2, <4>1
      <4>2. CASE n \notin b.guarded
        <5>1. b.recorded[n] # "T?"
          BY <2>2, <4>2 DEF Mints
        <5>2. type[n] \in {"T", "T?"}
          BY StateFacts DEF Types
        <5> QED BY <1>1, <1>2, <1>4, <5>1, <5>2
      <4> QED BY <4>1, <4>2
    <3>5. /\ \A m \in b.proven \cup {n} : m \in Names /\ level[m] \in 1 .. Len(blocks)
          /\ \A m \in b.proven \cup {n} :
                b.copy[m] # 0 \/ type[m] = "T" \/ blocks[level[m]].loopVar = m
      BY <1>1, <1>2, <1>4, <3>4
    <3> HIDE DEF N
    <3>6. Knows(N, p)
      BY <1>1, <1>2, <3>2, <3>5 DEF Knows
    <3> QED BY <3>2, <3>3, <3>6 DEF N
  <2> QED BY <2>1, <2>2
<1> QED BY <1>3, <1>4

\* A block is appended that knows what the top one does; no variable comes.
LEMMA AppendProven ==
    ASSUME IInv, ProvenIInv, NEW B \in Block, blocks' = Append(blocks, B),
           level' = level, type' = type, Knows(B, Len(blocks)), B.loopVar = NoName
    PROVE  ProvenIInv'
<1>1. /\ Len(blocks') = Len(blocks) + 1 /\ blocks'[Len(blocks) + 1] = B
      /\ \A i \in 1 .. Len(blocks) : blocks'[i] = blocks[i]
  BY StateFacts
<1>2. Above(Len(blocks), Len(blocks), B)
  BY <1>1, StateFacts DEF Above
<1> QED BY <1>2, AboveKeeps

\* A variable that is not in scope is spoken of nowhere.
LEMMA Unspoken ==
    ASSUME IInv, ProvenIInv, NEW n \in Names, ~ Visible(n)
    PROVE  /\ level[n] = 0 /\ n \notin Top.proven
           /\ Top.loopVar # NoName => Top.loopVar # n
<1>1. level[n] = 0 /\ Len(blocks) \in 1 .. Len(blocks) /\ Top = blocks[Len(blocks)]
  BY StateFacts DEF Visible
<1>2. n \notin Top.proven
  BY <1>1 DEF ProvenIInv, ProvenVisible
<1>3. Top.loopVar # NoName => level[Top.loopVar] = Len(blocks)
  BY <1>1 DEF ProvenIInv, LoopVariablesHere
<1> QED BY <1>1, <1>2, <1>3

\* Let: the declaration is recorded in the block it stands in.
LEMMA LetProven ==
    ASSUME IInv, ProvenIInv, NEW n \in Names, NEW t \in Types, NEW e \in Expr, Let(n, t, e)
    PROVE  ProvenIInv'
<1> DEFINE B == [Top EXCEPT !.recorded[n] = t]
           q == Len(blocks)
           p == Len(blocks) - 1
<1>1. /\ type' = [type EXCEPT ![n] = t] /\ level' = [level EXCEPT ![n] = q]
      /\ blocks' = [blocks EXCEPT ![q] = B] /\ ~ Visible(n)
  BY DEF Let, SetTop
<1>2. level[n] = 0 /\ n \notin Top.proven /\ (Top.loopVar # NoName => Top.loopVar # n)
  BY <1>1, Unspoken
<1>3. /\ Top \in Block /\ Top = blocks[q] /\ q \in 1 .. q /\ p \in Nat /\ q = p + 1 /\ q \in Nat
      /\ blocks \in Seq(Block) /\ type \in [Names -> Types] /\ level \in [Names -> Nat]
      /\ \A m \in Names : level[m] \in 0 .. q
  BY StateFacts
<1>4. /\ B \in Block /\ B.copy = Top.copy /\ B.guarded = Top.guarded /\ B.proven = Top.proven
      /\ B.loopVar = Top.loopVar /\ B.recorded[n] = t
      /\ \A m \in Names : m # n => B.recorded[m] = Top.recorded[m]
  BY <1>3 DEF Block
<1>5. Top.proven \subseteq Names /\ Top.guarded \subseteq Names /\ Top.loopVar \in Names \cup {NoName}
  BY <1>3, BlockFacts
<1> HIDE DEF B, p, q
<1>6. /\ Len(blocks') = q /\ blocks'[q] = B /\ Len(blocks) = q
      /\ \A i \in 1 .. p : blocks'[i] = blocks[i]
      /\ \A i \in 1 .. q : blocks'[i].loopVar = blocks[i].loopVar
  BY <1>1, <1>3, <1>4 DEF q
<1>7. /\ level'[n] = q /\ type'[n] = t
      /\ \A m \in Names : m # n => level'[m] = level[m] /\ type'[m] = type[m]
  BY <1>1, <1>3
<1>8. Above(p, q, B)
  BY <1>2, <1>3, <1>6, <1>7 DEF Above
<1>9. Knows(B, p)
  <2>1. /\ \A m \in Top.proven : level[m] \in 1 .. q
        /\ \A m \in Names : level[m] \in 1 .. q /\ blocks[level[m]].loopVar # m =>
              Top.recorded[m] = type[m]
        /\ \A m \in Top.guarded : Top.copy[m] # 0
        /\ \A m \in Top.proven :
              Top.copy[m] # 0 \/ type[m] = "T" \/ blocks[level[m]].loopVar = m
    BY <1>3, <1>6 DEF ProvenIInv, ProvenVisible, TypesRecorded, GuardedHaveCopies, ProvenHaveCopies
  <2>2. \A m \in B.proven : m \in Names /\ m # n /\ level'[m] \in 1 .. q
    BY <1>2, <1>4, <1>5, <1>7, <2>1
  <2>3. ASSUME NEW m \in Names, level'[m] \in 1 .. q, blocks'[level'[m]].loopVar # m
        PROVE  B.recorded[m] = type'[m]
    <3>1. CASE m = n
      BY <1>4, <1>7, <3>1
    <3>2. CASE m # n
      <4>1. level[m] \in 1 .. q /\ level'[m] = level[m] /\ type'[m] = type[m]
        BY <1>7, <2>3, <3>2
      <4>2. blocks[level[m]].loopVar # m
        BY <1>6, <2>3, <4>1
      <4> QED BY <1>4, <2>1, <3>2, <4>1, <4>2
    <3> QED BY <3>1, <3>2
  <2>4. ASSUME NEW m \in B.proven
        PROVE  B.copy[m] # 0 \/ type'[m] = "T" \/ blocks'[level'[m]].loopVar = m
    <3>1. m \in Top.proven /\ m \in Names /\ level'[m] = level[m] /\ type'[m] = type[m]
          /\ level[m] \in 1 .. q
      BY <1>4, <1>7, <2>1, <2>2
    <3>2. blocks'[level'[m]].loopVar = blocks[level[m]].loopVar
      BY <1>6, <3>1
    <3> QED BY <1>4, <2>1, <3>1, <3>2
  <2>5. \A m \in B.guarded : B.copy[m] # 0
    BY <1>4, <2>1
  <2>6. p + 1 = q
    BY <1>3
  <2> QED BY <2>2, <2>3, <2>4, <2>5, <2>6 DEF Knows
<1>10. B.loopVar # NoName => level'[B.loopVar] = p + 1
  <2>1. Top.loopVar # NoName => level[Top.loopVar] = q
    BY <1>3, <1>6 DEF ProvenIInv, LoopVariablesHere
  <2> QED BY <1>2, <1>3, <1>4, <1>5, <1>7, <2>1
<1> QED BY <1>4, <1>8, <1>9, <1>10, AboveKeeps

LEMMA EnterPresentProven ==
    ASSUME IInv, ProvenIInv, NEW n \in Names, EnterPresent(n)
    PROVE  ProvenIInv'
<1> DEFINE B == Narrowed(Inner, n)
<1>1. /\ Visible(n) /\ Room(n) /\ Compiled(n) # Null /\ level' = level /\ type' = type
      /\ blocks' = Append(blocks, B)
  BY DEF EnterPresent
<1>2. /\ Inner \in Block /\ Inner.copy = Top.copy /\ Inner.size = Top.size
      /\ Inner.guarded = Top.guarded /\ Inner.recorded = Top.recorded
      /\ Inner.proven = Top.proven /\ Inner.loopVar = NoName
  BY InnerFacts, StateFacts DEF Inner, Block
<1>3. B \in Block
  BY <1>1, <1>2, NarrowedFacts
<1>4. \A i \in 1 .. Len(blocks) : blocks'[i].loopVar = blocks[i].loopVar
  <2> HIDE DEF B
  <2> QED BY <1>1, <1>3, StateFacts
<1>5. Knows(B, Len(blocks)) /\ B.loopVar = NoName
  <2>1. Len(blocks) \in Nat /\ Len(blocks) <= Len(blocks) + 1
    BY StateFacts
  <2> QED BY <1>1, <1>2, <1>4, <2>1, NarrowedKnows
<1> HIDE DEF B
<1> QED BY <1>1, <1>3, <1>5, AppendProven

\* A block that proves nothing new.
LEMMA PlainBlockProven ==
    ASSUME IInv, ProvenIInv, NEW B \in Block, blocks' = Append(blocks, B),
           B.copy = Top.copy, B.size = Top.size, B.guarded = Top.guarded,
           B.recorded = Top.recorded, B.proven = Top.proven, B.loopVar = NoName,
           level' = level, type' = type
    PROVE  ProvenIInv'
<1>1. \A i \in 1 .. Len(blocks) : blocks'[i].loopVar = blocks[i].loopVar
  BY StateFacts
<1>2. Len(blocks) \in Nat /\ Len(blocks) <= Len(blocks) + 1
  BY StateFacts
<1>3. Knows(B, Len(blocks))
  BY <1>1, <1>2, NarrowedKnows
<1> QED BY <1>3, AppendProven

LEMMA IfNullProven ==
    ASSUME IInv, ProvenIInv, NEW n \in Names, NEW exits \in BOOLEAN, IfNull(n, exits)
    PROVE  ProvenIInv'
<1> DEFINE B == [Inner EXCEPT !.test = n, !.exits = exits]
<1>0. /\ Inner \in Block
      /\ Inner.guarded = Top.guarded /\ Inner.recorded = Top.recorded
      /\ Inner.proven = Top.proven /\ Inner.loopVar = NoName
  BY InnerFacts, StateFacts DEF Inner, Block
<1>1. /\ B \in Block /\ B.copy = Top.copy /\ B.size = Top.size
      /\ B.guarded = Top.guarded /\ B.recorded = Top.recorded
      /\ B.proven = Top.proven /\ B.loopVar = NoName
  <2>1. B \in Block /\ B.copy = Top.copy /\ B.size = Top.size
    BY InnerFacts
  <2>2. /\ B.guarded = Inner.guarded /\ B.recorded = Inner.recorded
        /\ B.proven = Inner.proven /\ B.loopVar = Inner.loopVar
    BY <1>0 DEF Block
  <2> QED BY <1>0, <2>1, <2>2
<1>2. blocks' = Append(blocks, B) /\ level' = level /\ type' = type
  BY DEF IfNull
<1> HIDE DEF B
<1> QED BY <1>1, <1>2, PlainBlockProven

LEMMA EnterProven ==
    ASSUME IInv, ProvenIInv, Enter
    PROVE  ProvenIInv'
<1>1. /\ Inner \in Block /\ Inner.copy = Top.copy /\ Inner.size = Top.size
      /\ Inner.guarded = Top.guarded /\ Inner.recorded = Top.recorded
      /\ Inner.proven = Top.proven /\ Inner.loopVar = NoName
  BY InnerFacts, StateFacts DEF Inner, Block
<1> QED BY <1>1, PlainBlockProven DEF Enter

\* A guard clause: the rest of the block knows one name more.
LEMMA SkipNullProven ==
    ASSUME IInv, ProvenIInv, NEW n \in Names, NEW exits \in BOOLEAN, SkipNull(n, exits)
    PROVE  ProvenIInv'
<1> DEFINE B == AfterGuard(Top, n, exits)
           q == Len(blocks)
           p == Len(blocks) - 1
<1>1. /\ Visible(n) /\ Room(n) /\ Compiled(n) # Null /\ level' = level /\ type' = type
      /\ blocks' = [blocks EXCEPT ![q] = B]
  BY DEF SkipNull, SetTop
<1>2. /\ Top \in Block /\ Top = blocks[q] /\ q \in 1 .. q /\ p \in Nat /\ q = p + 1 /\ q \in Nat
      /\ blocks \in Seq(Block) /\ \A m \in Names : level[m] \in 0 .. q
  BY StateFacts
<1>3. B \in Block /\ B.loopVar = Top.loopVar
  <2>1. CASE ~ exits
    <3>1. B = Top
      BY <2>1 DEF AfterGuard, DefinitelyExits
    <3> QED BY <1>2, <3>1
  <2>2. CASE exits
    <3> DEFINE N == Narrowed(Top, n)
    <3>1. N \in Block
      BY <1>1, <1>2, NarrowedFacts
    <3>2. N.loopVar = Top.loopVar
      BY <1>2 DEF Narrowed, Block
    <3>3. B = [N EXCEPT !.guarded = IF Mints(Top, n) THEN @ \cup {n} ELSE @]
      BY <2>2 DEF AfterGuard, DefinitelyExits
    <3> HIDE DEF B, N
    <3>4. N.guarded \subseteq Names
      BY <3>1, BlockFacts
    <3> QED BY <3>1, <3>2, <3>3, <3>4 DEF Block
  <2> QED BY <2>1, <2>2
<1> HIDE DEF B, p, q
<1>4. /\ Len(blocks') = q /\ blocks'[q] = B /\ Len(blocks) = q
      /\ \A i \in 1 .. p : blocks'[i] = blocks[i]
      /\ \A i \in 1 .. q : blocks'[i].loopVar = blocks[i].loopVar
  BY <1>1, <1>2, <1>3 DEF q
<1>5. Knows(B, p)
  <2>1. Len(blocks) <= p + 1 /\ \A i \in 1 .. Len(blocks) : blocks'[i].loopVar = blocks[i].loopVar
    BY <1>2, <1>4
  <2>2. Knows(Top, p) /\ Knows(AfterGuard(Top, n, TRUE), p)
    BY <1>1, <1>2, <2>1, NarrowedKnows
  <2>3. CASE ~ exits
    BY <2>2, <2>3 DEF B, AfterGuard, DefinitelyExits
  <2>4. CASE exits
    <3>1. exits = TRUE
      BY <2>4
    <3> QED BY <2>2, <3>1 DEF B
  <2> QED BY <2>3, <2>4
<1>6. B.loopVar # NoName => level'[B.loopVar] = p + 1
  BY <1>1, <1>2, <1>3, <1>4 DEF ProvenIInv, LoopVariablesHere
<1>7. Above(p, q, B)
  BY <1>1, <1>2, <1>4 DEF Above
<1> QED BY <1>3, <1>5, <1>6, <1>7, AboveKeeps

\* The block of a loop's body is b with the variable of the loop, whatever the
\* kind of the loop.
Body(b, n, h) == [b EXCEPT !.loopVar = n, !.header = h]
LEMMA BodyFacts ==
    ASSUME NEW b \in Block, NEW n \in Names, NEW h \in BOOLEAN
    PROVE  /\ Body(b, n, h) \in Block /\ Body(b, n, h).copy = b.copy
           /\ Body(b, n, h).guarded = b.guarded /\ Body(b, n, h).proven = b.proven
           /\ Body(b, n, h).loopVar = n /\ Body(b, n, h).recorded = b.recorded
<1>1. PICK B : B = [b EXCEPT !.loopVar = n, !.header = h]
  OBVIOUS
<1>2. B = [recorded |-> b.recorded, copy |-> b.copy, guarded |-> b.guarded, proven |-> b.proven,
           size |-> b.size, test |-> b.test, exits |-> b.exits, loopVar |-> n, header |-> h]
  BY <1>1 DEF Block
<1>3. /\ b.recorded \in [Names -> Types \cup {"unknown"}] /\ b.copy \in [Names -> 0 .. MaxCopies]
      /\ b.guarded \in SUBSET Names /\ b.proven \in SUBSET Names /\ b.size \in 0 .. MaxCopies
      /\ b.test \in Names \cup {NoName} /\ b.exits \in BOOLEAN
  BY DEF Block
<1>4. /\ B \in Block /\ B.copy = b.copy /\ B.guarded = b.guarded /\ B.proven = b.proven
      /\ B.loopVar = n /\ B.recorded = b.recorded
  BY <1>2, <1>3 DEF Block
<1>5. B = Body(b, n, h)
  BY <1>1 DEF Body
<1> QED BY <1>4, <1>5

\* A loop of either kind: its variable is not recorded for the body.
LEMMA LoopProven ==
    ASSUME IInv, ProvenIInv, NEW n \in Names, NEW t \in Types, ~ Visible(n),
           NEW B, B \in {[Inner EXCEPT !.loopVar = n],
                         [Inner EXCEPT !.loopVar = n, !.header = TRUE]},
           type' = [type EXCEPT ![n] = t], level' = [level EXCEPT ![n] = Len(blocks) + 1],
           blocks' = Append(blocks, B)
    PROVE  ProvenIInv'
<1> DEFINE q == Len(blocks)
<1>1. /\ type' = [type EXCEPT ![n] = t] /\ level' = [level EXCEPT ![n] = q + 1]
      /\ blocks' = Append(blocks, B) /\ ~ Visible(n)
  OBVIOUS
<1>2. level[n] = 0 /\ n \notin Top.proven
  BY <1>1, Unspoken
<1>3. /\ Top \in Block /\ Top = blocks[q] /\ q \in 1 .. q /\ q \in Nat
      /\ blocks \in Seq(Block) /\ type \in [Names -> Types] /\ level \in [Names -> Nat]
      /\ \A m \in Names : level[m] \in 0 .. q
  BY StateFacts
<1>4. /\ B \in Block /\ B.copy = Top.copy /\ B.guarded = Top.guarded /\ B.proven = Top.proven
      /\ B.loopVar = n /\ B.recorded = Top.recorded
  <2>1. /\ Inner \in Block /\ Inner.copy = Top.copy /\ Inner.guarded = Top.guarded
        /\ Inner.proven = Top.proven /\ Inner.recorded = Top.recorded
    <3> HIDE DEF q
    <3>1. PICK b \in Block : b = Top
      BY <1>3
    <3>2. Inner = [b EXCEPT !.test = NoName, !.exits = FALSE, !.loopVar = NoName, !.header = FALSE]
      BY <3>1 DEF Inner
    <3> QED BY <3>1, <3>2 DEF Block
  <2>2. PICK b \in Block : b = Inner
    BY <2>1
  <2>3. PICK h \in BOOLEAN : B = Body(b, n, h)
    <3>1. CASE B = [Inner EXCEPT !.loopVar = n, !.header = TRUE]
      BY <2>2, <3>1 DEF Body
    <3>2. CASE B = [Inner EXCEPT !.loopVar = n]
      <4>1. b.header \in BOOLEAN /\ [b EXCEPT !.loopVar = n] = [b EXCEPT !.loopVar = n, !.header = b.header]
        BY <2>2 DEF Block
      <4> QED BY <2>2, <3>2, <4>1 DEF Body
    <3> QED BY <3>1, <3>2
  <2>4. /\ B \in Block /\ B.copy = b.copy /\ B.guarded = b.guarded /\ B.proven = b.proven
        /\ B.loopVar = n /\ B.recorded = b.recorded
    BY <2>2, <2>3, BodyFacts
  <2> QED BY <2>1, <2>2, <2>4
<1>5. Top.proven \subseteq Names /\ Top.guarded \subseteq Names
  BY <1>3, BlockFacts
<1> HIDE DEF q
<1>6. /\ Len(blocks') = q + 1 /\ blocks'[q + 1] = B /\ Len(blocks) = q
      /\ \A i \in 1 .. q : blocks'[i] = blocks[i]
  BY <1>1, <1>3, <1>4 DEF q
<1>7. /\ level'[n] = q + 1 /\ type'[n] = t
      /\ \A m \in Names : m # n => level'[m] = level[m] /\ type'[m] = type[m]
  BY <1>1, <1>3
<1>8. Above(q, q, B)
  BY <1>2, <1>3, <1>6, <1>7 DEF Above
<1>9. Knows(B, q)
  <2>1. /\ \A m \in Top.proven : level[m] \in 1 .. q
        /\ \A m \in Names : level[m] \in 1 .. q /\ blocks[level[m]].loopVar # m =>
              Top.recorded[m] = type[m]
        /\ \A m \in Top.guarded : Top.copy[m] # 0
        /\ \A m \in Top.proven :
              Top.copy[m] # 0 \/ type[m] = "T" \/ blocks[level[m]].loopVar = m
    BY <1>3, <1>6 DEF ProvenIInv, ProvenVisible, TypesRecorded, GuardedHaveCopies, ProvenHaveCopies
  <2>2. \A m \in Names : m # n /\ level'[m] \in 1 .. q + 1 => level[m] \in 1 .. q
    BY <1>3, <1>7
  <2>3. \A i \in 1 .. q : i \in 1 .. q + 1
    BY <1>3
  <2>4. \A m \in B.proven : m \in Names /\ m # n /\ level'[m] \in 1 .. q + 1
    BY <1>2, <1>4, <1>5, <1>7, <2>1, <2>3
  <2>5. ASSUME NEW m \in Names, level'[m] \in 1 .. q + 1, blocks'[level'[m]].loopVar # m
        PROVE  B.recorded[m] = type'[m]
    <3>1. m # n
      BY <1>4, <1>6, <1>7, <2>5
    <3>2. level[m] \in 1 .. q /\ level'[m] = level[m] /\ type'[m] = type[m]
      BY <1>7, <2>2, <2>5, <3>1
    <3>3. blocks[level[m]].loopVar # m
      BY <1>6, <2>5, <3>2
    <3> QED BY <1>4, <2>1, <3>2, <3>3
  <2>6. \A m \in B.proven :
           B.copy[m] # 0 \/ type'[m] = "T" \/ blocks'[level'[m]].loopVar = m
    BY <1>4, <1>6, <1>7, <2>1, <2>4
  <2> QED BY <1>4, <2>1, <2>4, <2>5, <2>6 DEF Knows
<1> QED BY <1>4, <1>7, <1>8, <1>9, AboveKeeps

\* Blocks are left; the for-of that ends leaves its variable's type behind in
\* the block around it, where the name is no longer in scope.
LEMMA LeaveProven ==
    ASSUME IInv, ProvenIInv, NEW k \in 1 .. Len(blocks) - 1, Forget(k),
           blocks' = Append(SubSeq(blocks, 1, k - 1), Recorded(k))
    PROVE  ProvenIInv'
<1> DEFINE B == Recorded(k)
<1>0. k \in 1 .. Len(blocks) /\ k + 1 \in 1 .. Len(blocks) /\ k - 1 \in 0 .. Len(blocks) /\ k \in Nat
      /\ k - 1 \in Nat /\ k = k - 1 + 1
  BY StateFacts
<1>1. /\ blocks[k] \in Block /\ blocks[k + 1] \in Block
      /\ blocks[k + 1].loopVar \in Names \cup {NoName}
      /\ blocks[k].recorded \in [Names -> Types \cup {"unknown"}]
      /\ blocks[k].proven \subseteq Names /\ blocks[k].guarded \subseteq Names
      /\ blocks[k].loopVar \in Names \cup {NoName}
  <2>1. blocks[k] \in Block /\ blocks[k + 1] \in Block
    BY <1>0, Shape
  <2> QED BY <2>1, BlockFacts
<1>2. /\ B \in Block /\ B.copy = blocks[k].copy /\ B.guarded = blocks[k].guarded
      /\ B.proven = blocks[k].proven /\ B.loopVar = blocks[k].loopVar
      /\ \A m \in Names : level[m] # k + 1 => B.recorded[m] = blocks[k].recorded[m]
  <2>1. CASE blocks[k + 1].loopVar = NoName \/ blocks[k + 1].header
    BY <1>1, <2>1 DEF Recorded
  <2>2. CASE blocks[k + 1].loopVar # NoName /\ ~ blocks[k + 1].header
    <3> DEFINE n == blocks[k + 1].loopVar
               r == [blocks[k].recorded EXCEPT ![n] = type[n]]
    <3>1. r \in [Names -> Types \cup {"unknown"}] /\ level[n] = k + 1
          /\ \A m \in Names : m # n => r[m] = blocks[k].recorded[m]
      BY <1>0, <1>1, <2>2, StateFacts DEF ProvenIInv, LoopVariablesHere
    <3>2. B = [blocks[k] EXCEPT !.recorded = r]
      BY <1>1, <2>2 DEF Recorded, Block
    <3> HIDE DEF r, n
    <3> QED BY <1>1, <3>1, <3>2 DEF Block
  <2> QED BY <2>1, <2>2
<1> HIDE DEF B
<1>3. /\ Len(blocks') = k /\ blocks'[k] = B
      /\ \A i \in 1 .. k - 1 : blocks'[i] = blocks[i]
  <2>1. /\ Len(Append(SubSeq(blocks, 1, k - 1), B)) = k - 1 + 1
        /\ \A i \in 1 .. k - 1 : Append(SubSeq(blocks, 1, k - 1), B)[i] = blocks[i]
        /\ Append(SubSeq(blocks, 1, k - 1), B)[k - 1 + 1] = B
    BY <1>0, <1>2, StateFacts, PrefixFacts
  <2>2. blocks' = Append(SubSeq(blocks, 1, k - 1), B)
    BY DEF B
  <2> QED BY <1>0, <2>1, <2>2
<1>4. \A m \in Names : IF level[m] > k THEN level'[m] = 0 /\ type'[m] = "T?"
                       ELSE level'[m] = level[m] /\ type'[m] = type[m]
  BY StateFacts DEF Forget
<1>5. \A m \in Names : \/ level[m] \in 0 .. k /\ level'[m] = level[m] /\ type'[m] = type[m]
                       \/ level[m] \notin 0 .. k /\ level'[m] = 0
  BY <1>0, <1>4, StateFacts
<1>6. Above(k - 1, k, B)
  <2>1. \A m \in Names : level[m] \notin 0 .. k => level[m] \notin 1 .. k
    BY <1>0
  <2> QED BY <1>0, <1>3, <1>5, <2>1 DEF Above
<1>7. /\ \A m \in blocks[k].proven : level[m] \in 1 .. k
      /\ \A m \in Names : level[m] \in 1 .. k /\ blocks[level[m]].loopVar # m =>
            blocks[k].recorded[m] = type[m]
      /\ \A m \in blocks[k].guarded : blocks[k].copy[m] # 0
      /\ \A m \in blocks[k].proven :
            blocks[k].copy[m] # 0 \/ type[m] = "T" \/ blocks[level[m]].loopVar = m
      /\ blocks[k].loopVar # NoName => level[blocks[k].loopVar] = k
  BY <1>0 DEF ProvenIInv, ProvenVisible, LoopVariablesHere, TypesRecorded,
              GuardedHaveCopies, ProvenHaveCopies
<1>8. /\ \A m \in Names : level'[m] \in 1 .. k \/ level[m] \in 1 .. k =>
            level'[m] = level[m] /\ type'[m] = type[m] /\ level[m] # k + 1
      /\ \A i \in 1 .. k : blocks'[i].loopVar = blocks[i].loopVar
  <2>1. \A i \in 1 .. k : i \in 0 .. k /\ i # 0 /\ i # k + 1 /\ (i \in 1 .. k - 1 \/ i = k)
    BY <1>0
  <2> QED BY <1>2, <1>3, <1>5, <2>1
<1>9. Knows(B, k - 1)
  <2>1. \A m \in B.proven : m \in Names /\ level'[m] = level[m] /\ type'[m] = type[m] /\ level[m] \in 1 .. k
    BY <1>1, <1>2, <1>7, <1>8
  <2>2. ASSUME NEW m \in Names, level'[m] \in 1 .. k, blocks'[level'[m]].loopVar # m
        PROVE  B.recorded[m] = type'[m]
    BY <1>2, <1>7, <1>8, <2>2
  <2>3. ASSUME NEW m \in B.proven
        PROVE  B.copy[m] # 0 \/ type'[m] = "T" \/ blocks'[level'[m]].loopVar = m
    <3>1. m \in blocks[k].proven /\ level'[m] = level[m] /\ type'[m] = type[m]
          /\ level[m] \in 1 .. k
      BY <1>2, <2>1
    <3>2. blocks'[level'[m]].loopVar = blocks[level[m]].loopVar
      BY <1>8, <3>1
    <3> QED BY <1>2, <1>7, <3>1, <3>2
  <2> QED BY <1>0, <1>2, <1>7, <2>1, <2>2, <2>3 DEF Knows
<1>10. B.loopVar # NoName => level'[B.loopVar] = k - 1 + 1
  <2>1. k \in 1 .. k
    BY <1>0
  <2> QED BY <1>0, <1>1, <1>2, <1>7, <1>8, <2>1
<1> QED BY <1>2, <1>6, <1>9, <1>10, AboveKeeps

LEMMA EndBlockProven ==
    ASSUME IInv, ProvenIInv, EndBlock
    PROVE  ProvenIInv'
<1> DEFINE k == Len(blocks) - 1
<1>1. k \in 1 .. Len(blocks) - 1 /\ Forget(k) /\ ~ Top.exits
  BY StateFacts DEF EndBlock
<1>2. blocks' = Append(SubSeq(blocks, 1, k - 1), Recorded(k))
  BY <1>1 DEF EndBlock, AfterGuard, DefinitelyExits
<1> QED BY <1>1, <1>2, LeaveProven

LEMMA SameProven ==
    ASSUME ProvenIInv, UNCHANGED <<type, level, blocks>>
    PROVE  ProvenIInv'
BY DEF ProvenIInv, ProvenVisible, LoopVariablesHere, TypesRecorded, GuardedHaveCopies, ProvenHaveCopies

LEMMA InitProven ==
    ASSUME Init
    PROVE  ProvenIInv
<1>1. /\ Len(blocks) = 1 /\ blocks[1].proven = {} /\ blocks[1].guarded = {}
      /\ blocks[1].loopVar = NoName
      /\ \A n \in Names : blocks[1].recorded[n] = IF level[n] = 0 THEN "unknown" ELSE type[n]
  BY DEF Init
<1> QED BY <1>1 DEF ProvenIInv, ProvenVisible, LoopVariablesHere, TypesRecorded,
                    GuardedHaveCopies, ProvenHaveCopies

LEMMA NextProven ==
    ASSUME IInv, ProvenIInv, [Next]_vars
    PROVE  ProvenIInv'
<1>1. CASE \E n \in Names, e \in Expr, t \in Types : Let(n, t, e) \/ ForLet(n, t, e)
  BY <1>1, LetProven, LoopProven DEF ForLet
<1>2. CASE \/ \E n \in Names, e \in Expr : Assign(n, e)
           \/ \E place \in Places, e \in Expr : Use(place, e)
           \/ AssertFails \/ Return \/ Ended \/ UNCHANGED vars
  BY <1>2, SameProven DEF Assign, Use, AssertFails, Return, Ended, vars
<1>3. CASE \E n \in Names :
              \/ EnterPresent(n)
              \/ \E exits \in BOOLEAN : IfNull(n, exits) \/ SkipNull(n, exits)
              \/ \E t \in Types, v \in Values \cup {Null} : ForOf(n, t, v)
  BY <1>3, EnterPresentProven, IfNullProven, SkipNullProven, LoopProven DEF ForOf
<1>4. CASE Enter
  BY <1>4, EnterProven
<1>5. CASE EndBlock
  BY <1>5, EndBlockProven
<1>6. CASE \E k \in 1 .. MaxBlocks : Jump(k)
  BY <1>6, LeaveProven DEF Jump
<1> QED BY <1>1, <1>2, <1>3, <1>4, <1>5, <1>6 DEF Next, Statement, Control

\* A name that a test has proven present may be used as it stands in the rest
\* of the block: it has a copy of the definite type or is of that type itself,
\* unless it is the variable of a for, of either kind, which narrow_block does
\* not record for the body.
THEOREM ProvenNamesAreDefinite == Spec => []ProvenIsDefinite
<1>1. Init => ProvenIInv
  BY InitProven
<1>2. IInv /\ ProvenIInv /\ [Next]_vars => ProvenIInv'
  BY NextProven
<1>3. IInv /\ ProvenIInv => ProvenIsDefinite
  <2> SUFFICES ASSUME IInv, ProvenIInv, NEW n \in Top.proven, Visible(n)
               PROVE  TypeOf(n) = "T" \/ IsLoopVariable(n)
    BY DEF ProvenIsDefinite
  <2>1. Top.copy[n] # 0 \/ type[n] = "T" \/ blocks[level[n]].loopVar = n
    BY StateFacts DEF ProvenIInv, ProvenHaveCopies
  <2> QED BY <2>1 DEF TypeOf, IsLoopVariable
<1> QED BY <1>1, <1>2, <1>3, InductiveInvariant, PTL DEF Spec
=============================================================================
