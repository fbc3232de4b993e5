---------------------------- MODULE ValuesProofs ----------------------------
(***************************************************************************)
(* Proofs about the parts that turn values into other values: onnx_predict *)
(* (Onnx), a column of a table (Columns), the declaration of a source      *)
(* (Sources) and a directory of documents (Documents).                     *)
(***************************************************************************)
EXTENDS Columns, Onnx, Documents, Sources, FiniteSetTheorems, TLAPS

-----------------------------------------------------------------------------
(* Induction over the natural numbers, for a set: a number it leaves out     *)
(* would leave more numbers below it than it has successors there.           *)

LEMMA SetInduction ==
    ASSUME NEW S, 0 \in S, \A n \in Nat : n \in S => n + 1 \in S
    PROVE  Nat \subseteq S
<1> SUFFICES ASSUME NEW n \in Nat, n \notin S PROVE FALSE
  OBVIOUS
<1> DEFINE A == S \cap (0..n)
           f == [x \in A |-> x + 1]
<1>1. IsFiniteSet(A) /\ 0 \in A
  <2>1. IsFiniteSet(0..n)
    BY FS_Interval
  <2> QED
    BY <2>1, FS_Subset
<1>2. f \in [A -> A \ {0}]
  <2>1. ASSUME NEW x \in A PROVE x + 1 \in A \ {0}
    <3>1. x \in Nat /\ x <= n /\ x # n /\ x \in S
      OBVIOUS
    <3>2. x + 1 \in S
      BY <3>1
    <3> QED
      BY <3>1, <3>2
  <2> QED
    BY <2>1
<1>3. IsFiniteSet(A \ {0}) /\ Cardinality(A \ {0}) = Cardinality(A) - 1
  <2> HIDE DEF A
  <2> QED
    BY <1>1, FS_RemoveElement
<1>4. Cardinality(A \ {0}) < Cardinality(A)
  <2> HIDE DEF A
  <2>1. Cardinality(A) \in Nat
    BY <1>1, FS_CardinalityType
  <2> QED
    BY <1>3, <2>1
<1>5. \E x, y \in A : x # y /\ f[x] = f[y]
  <2> HIDE DEF A, f
  <2> QED
    BY <1>1, <1>2, <1>3, <1>4, FS_PigeonHole
<1> QED
  BY <1>5

\* A set of natural numbers that is not empty has a least one.
LEMMA LeastExists ==
    ASSUME NEW S \in SUBSET Nat, S # {}
    PROVE  \E i \in S : \A j \in S : i <= j
<1> SUFFICES ASSUME \A i \in S : \E j \in S : j < i PROVE FALSE
  OBVIOUS
<1> DEFINE T == {n \in Nat : \A i \in S : n < i}
<1>1. 0 \in T
  <2>1. 0 \notin S
    OBVIOUS
  <2> QED
    BY <2>1
<1>2. ASSUME NEW n \in Nat, n \in T PROVE n + 1 \in T
  <2>1. n + 1 \notin S
    <3> SUFFICES ASSUME n + 1 \in S PROVE FALSE
      OBVIOUS
    <3>1. PICK j \in S : j < n + 1
      OBVIOUS
    <3> QED
      BY <1>2, <3>1
  <2> QED
    BY <1>2, <2>1
<1>3. Nat \subseteq T
  <2> HIDE DEF T
  <2> QED
    BY <1>1, <1>2, SetInduction
<1>4. PICK s \in S : TRUE
  OBVIOUS
<1>5. s \in T
  BY <1>3
<1> QED
  BY <1>5

-----------------------------------------------------------------------------
(* Onnx.  What is predicted depends on no other batch, so what is there      *)
(* stays true and the rows of one more batch join it.                        *)

USE DEF Arguments, Form, Whole, ListMode, AllLiterals

Query ==
    /\ asked.integers \in BOOLEAN
    /\ IsSequence(asked.forms) /\ asked.forms # <<>>
    /\ \A a \in Arguments : Form(a) \in {"column", "list", "literal"}
    /\ IsSequence(asked.rows)
    /\ \A i \in DOMAIN asked.rows : \A a \in Arguments : IsSequence(asked.rows[i].args[a])
    /\ \A i, j \in DOMAIN asked.rows : \A a \in Arguments :
          Form(a) = "literal" => asked.rows[i].args[a][1] = asked.rows[j].args[a][1]
    /\ asked.literalPath => \A i, j \in DOMAIN asked.rows : asked.rows[i].path = asked.rows[j].path

OnnxInv == Query /\ IsSequence(predicted) /\ PredictionsAreTheirRows

\* A batch: the rows after the ones that are predicted.
Batch(rows, n) ==
    /\ n \in 1..Len(asked.rows) /\ Len(predicted) + n <= Len(asked.rows)
    /\ rows = SubSeq(asked.rows, Len(predicted) + 1, Len(predicted) + n)

LEMMA BatchRows ==
    ASSUME Query, IsSequence(predicted), NEW n, NEW rows, Batch(rows, n)
    PROVE  /\ IsSequence(rows) /\ Len(rows) = n /\ n \in Nat \ {0} /\ DOMAIN rows = 1..n
           /\ \A k \in 1..n : /\ Len(predicted) + k \in DOMAIN asked.rows
                              /\ rows[k] = asked.rows[Len(predicted) + k]
           /\ \A a \in Arguments : \A k \in 1..n : IsSequence(rows[k].args[a])
           /\ \A a \in Arguments : \A k, l \in 1..n :
                 Form(a) = "literal" => rows[k].args[a][1] = rows[l].args[a][1]
<1> DEFINE S == {asked.rows[i] : i \in DOMAIN asked.rows}
           p == Len(predicted)
<1>1. asked.rows \in Seq(S) /\ p \in Nat /\ n \in Nat /\ n # 0 /\ p + n <= Len(asked.rows)
  BY DEF Query, IsSequence, Batch
<1>2. rows \in Seq(S) /\ Len(rows) = n /\ DOMAIN rows = 1..n
      /\ \A k \in 1..n : rows[k] = asked.rows[p + k]
  <2> HIDE DEF S, p
  <2>1. rows = SubSeq(asked.rows, p + 1, p + n)
    BY DEF Batch, p
  <2> QED
    BY <1>1, <2>1
<1>3. \A k \in 1..n : p + k \in DOMAIN asked.rows
  <2> HIDE DEF S, p
  <2> QED
    BY <1>1
<1>4. IsSequence(rows)
  <2> HIDE DEF S, p
  <2> QED
    BY <1>2 DEF IsSequence
<1>5. \A a \in Arguments : \A k \in 1..n : IsSequence(rows[k].args[a])
  <2> HIDE DEF S, p
  <2> QED
    BY <1>2, <1>3 DEF Query
<1>6. \A a \in Arguments : \A k, l \in 1..n :
         Form(a) = "literal" => rows[k].args[a][1] = rows[l].args[a][1]
  <2> HIDE DEF S, p
  <2> SUFFICES ASSUME NEW a \in Arguments, NEW k \in 1..n, NEW l \in 1..n, Form(a) = "literal"
               PROVE  rows[k].args[a][1] = rows[l].args[a][1]
    OBVIOUS
  <2>1. rows[k] = asked.rows[p + k] /\ p + k \in DOMAIN asked.rows
        /\ rows[l] = asked.rows[p + l] /\ p + l \in DOMAIN asked.rows
    BY <1>2, <1>3
  <2>2. asked.rows[p + k].args[a][1] = asked.rows[p + l].args[a][1]
    BY <2>1 DEF Query
  <2> QED
    BY <2>1, <2>2
<1> QED
  BY <1>1, <1>2, <1>3, <1>4, <1>5, <1>6 DEF p

\* The arguments are numbered from 1.
LEMMA ArgumentNumbers ==
    ASSUME Query
    PROVE  Len(asked.forms) \in Nat \ {0} /\ Arguments = 1..Len(asked.forms) /\ 1 \in Arguments
<1>1. asked.forms \in Seq({asked.forms[i] : i \in DOMAIN asked.forms})
  BY DEF Query, IsSequence
<1>2. Len(asked.forms) \in Nat /\ DOMAIN asked.forms = 1..Len(asked.forms)
  BY <1>1
<1>3. Len(asked.forms) # 0
  BY <1>1 DEF Query
<1> QED
  BY <1>2, <1>3

\* Rows that are there have a number of rows.
LEMMA RowCounts ==
    ASSUME Query, NEW rows, IsSequence(rows), Len(rows) # 0,
           \A a \in Arguments : \A k \in DOMAIN rows : IsSequence(rows[k].args[a])
    PROVE  /\ RowCount(rows) \in Nat
           /\ (\A a \in Arguments : Form(a) = "literal") => RowCount(rows) = 1
           /\ ~ListMode /\ ~(\A a \in Arguments : Form(a) = "literal") => RowCount(rows) = Len(rows)
<1>1. Len(rows) \in Nat /\ DOMAIN rows = 1..Len(rows)
  BY DEF IsSequence
<1>2. CASE \A a \in Arguments : Form(a) = "literal"
  BY <1>2 DEF RowCount
<1>3. CASE ~\A a \in Arguments : Form(a) = "literal"
  <2> DEFINE First(a) == Form(a) # "literal" /\ \A b \in 1..(a - 1) : Form(b) = "literal"
             first == CHOOSE a \in Arguments : First(a)
             T == {a \in Arguments : Form(a) # "literal"}
  <2>1. \E a \in Arguments : First(a)
    <3>1. T \in SUBSET Nat /\ T # {}
      BY <1>3, ArgumentNumbers
    <3>2. PICK a \in T : \A b \in T : a <= b
      <4> HIDE DEF T
      <4> QED
        BY <3>1, LeastExists
    <3>3. ASSUME NEW b \in 1..(a - 1) PROVE Form(b) = "literal"
      BY <3>2, ArgumentNumbers
    <3> QED
      BY <3>2, <3>3
  <2>2. first \in Arguments
    BY <2>1
  <2>3. RowCount(rows) = IF Form(first) = "list" /\ Len(rows) = 1 THEN Len(rows[1].args[first])
                         ELSE Len(rows)
    BY <1>3 DEF RowCount
  <2>4. Len(rows) = 1 => Len(rows[1].args[first]) \in Nat
    <3> HIDE DEF first
    <3> SUFFICES ASSUME Len(rows) = 1 PROVE Len(rows[1].args[first]) \in Nat
      OBVIOUS
    <3>1. IsSequence(rows[1].args[first])
      BY <1>1, <2>2
    <3> QED
      BY <3>1 DEF IsSequence
  <2> HIDE DEF first
  <2> QED
    BY <1>1, <1>3, <2>2, <2>3, <2>4
<1> QED
  BY <1>2, <1>3

\* A batch, as the lemmas above leave it.
Good(rows) ==
    /\ IsSequence(rows) /\ Len(rows) \in Nat \ {0} /\ DOMAIN rows = 1..Len(rows)
    /\ \A a \in Arguments : \A k \in DOMAIN rows : IsSequence(rows[k].args[a])
    /\ \A a \in Arguments : \A k, l \in DOMAIN rows :
          Form(a) = "literal" => rows[k].args[a][1] = rows[l].args[a][1]

LEMMA LengthOfFunction ==
    ASSUME NEW n \in Nat, NEW f, DOMAIN f = 1..n, IsSequence(f)
    PROVE  Len(f) = n
BY DEF IsSequence

\* The array of each form of argument, and how long it is.
LEMMA Arrays ==
    ASSUME Query, NEW rows, Good(rows), NEW a \in Arguments
    PROVE  /\ Form(a) = "literal" =>
                 /\ Array(rows, a) = [i \in 1..RowCount(rows) |-> rows[1].args[a][1]]
                 /\ Len(Array(rows, a)) = RowCount(rows)
           /\ Form(a) = "list" /\ Len(rows) = 1 => Array(rows, a) = rows[1].args[a]
           /\ Form(a) = "column" \/ (Form(a) = "list" /\ Len(rows) # 1) =>
                 /\ Array(rows, a) = [i \in DOMAIN rows |-> rows[i].args[a][1]]
                 /\ Len(Array(rows, a)) = Len(rows)
           /\ IsSequence(Array(rows, a))
<1>1. Form(a) \in {"column", "list", "literal"} /\ Len(rows) \in Nat \ {0} /\ DOMAIN rows = 1..Len(rows)
  BY DEF Query, Good
<1>2. RowCount(rows) \in Nat
  BY RowCounts DEF Good
<1>3. CASE Form(a) = "literal"
  <2>1. Array(rows, a) = [i \in 1..RowCount(rows) |-> rows[1].args[a][1]]
    BY <1>3 DEF Array
  <2>2. IsSequence(Array(rows, a)) /\ Len(Array(rows, a)) = RowCount(rows)
    BY <1>2, <2>1 DEF IsSequence
  <2> QED
    BY <1>3, <2>1, <2>2
<1>4. CASE Form(a) = "list" /\ Len(rows) = 1
  <2>1. Array(rows, a) = rows[1].args[a]
    BY <1>4 DEF Array
  <2>2. IsSequence(rows[1].args[a])
    BY <1>1 DEF Good
  <2> QED
    BY <1>4, <2>1, <2>2
<1>5. CASE Form(a) = "column" \/ (Form(a) = "list" /\ Len(rows) # 1)
  <2>1. Array(rows, a) = [i \in DOMAIN rows |-> rows[i].args[a][1]]
    BY <1>5 DEF Array
  <2>2. IsSequence(Array(rows, a)) /\ Len(Array(rows, a)) = Len(rows)
    BY <1>1, <2>1 DEF IsSequence
  <2> QED
    BY <1>5, <2>1, <2>2
<1> QED
  BY <1>1, <1>3, <1>4, <1>5

\* A batch of one row becomes the tensor of that row alone.
LEMMA AloneTensor ==
    ASSUME Query, NEW rows, Good(rows), Len(rows) = 1, Convertible(rows),
           NEW i \in DOMAIN asked.rows, rows[1] = asked.rows[i]
    PROVE  Tensor(rows) = Own(i) /\ IsSequence(Tensor(rows))
<1> DEFINE row == asked.rows[i]
           long == IF Form(1) = "list" THEN Len(row.args[1])
                   ELSE IF Form(1) = "literal" /\ ListMode THEN RowCount(<<row>>) ELSE 1
           own(a, j) == row.args[a][IF Form(a) = "list" THEN j ELSE 1]
<1>1. DOMAIN rows = 1..1 /\ 1 \in DOMAIN rows /\ 1 \in Arguments
  BY ArgumentNumbers DEF Good
<1>2. rows = <<row>>
  BY <1>1 DEF Good, IsSequence
<1>3. RowCount(rows) \in Nat /\ (~ListMode => RowCount(rows) = 1)
  BY RowCounts DEF Good
<1>4. DOMAIN Array(rows, 1) = 1..long /\ Len(Array(rows, 1)) = long /\ long \in Nat
  <2>1. Form(1) \in {"column", "list", "literal"}
    BY <1>1 DEF Query
  <2>2. CASE Form(1) = "list"
    <3>1. Array(rows, 1) = row.args[1]
      BY <1>1, <2>2, Arrays
    <3>2. IsSequence(row.args[1])
      BY <1>1 DEF Query
    <3> QED
      BY <2>2, <3>1, <3>2 DEF IsSequence
  <2>3. CASE Form(1) = "literal"
    <3>1. Array(rows, 1) = [k \in 1..RowCount(rows) |-> rows[1].args[1][1]]
          /\ Len(Array(rows, 1)) = RowCount(rows)
      BY <1>1, <2>3, Arrays
    <3>2. long = RowCount(rows)
      BY <1>2, <1>3, <2>3
    <3> QED
      BY <1>3, <3>1, <3>2
  <2>4. CASE Form(1) = "column"
    <3>1. Array(rows, 1) = [k \in DOMAIN rows |-> rows[k].args[1][1]] /\ Len(Array(rows, 1)) = 1
      BY <1>1, <2>4, Arrays
    <3> QED
      BY <1>1, <2>4, <3>1
  <2> QED
    BY <2>1, <2>2, <2>3, <2>4
<1>5. ASSUME NEW j \in 1..long, NEW a \in Arguments
      PROVE  Array(rows, a)[j] = own(a, j)
  <2>1. Form(a) \in {"column", "list", "literal"} /\ Len(Array(rows, a)) >= Len(Array(rows, 1))
    BY DEF Query, Convertible
  <2>2. CASE Form(a) = "list"
    BY <2>2, Arrays
  <2>3. CASE Form(a) = "literal"
    <3>1. Array(rows, a) = [k \in 1..RowCount(rows) |-> rows[1].args[a][1]]
          /\ Len(Array(rows, a)) = RowCount(rows)
      BY <2>3, Arrays
    <3>2. j \in 1..RowCount(rows)
      <4> HIDE DEF long
      <4> QED
        BY <1>3, <1>4, <2>1, <3>1
    <3> QED
      BY <2>3, <3>1, <3>2
  <2>4. CASE Form(a) = "column"
    <3>1. Array(rows, a) = [k \in DOMAIN rows |-> rows[k].args[a][1]] /\ Len(Array(rows, a)) = 1
      BY <2>4, Arrays
    <3>2. j = 1
      <4> HIDE DEF long
      <4> QED
        BY <1>4, <2>1, <3>1
    <3> QED
      BY <1>1, <2>4, <3>1, <3>2
  <2> QED
    BY <2>1, <2>2, <2>3, <2>4
<1>6. Own(i) = [j \in 1..long |-> [a \in Arguments |-> Read(own(a, j))]]
  BY DEF Own
<1>7. Tensor(rows) = [j \in 1..long |-> [a \in Arguments |-> Read(Array(rows, a)[j])]]
  BY <1>4 DEF Tensor
<1> HIDE DEF long, own, row
<1>8. Tensor(rows) = Own(i)
  BY <1>5, <1>6, <1>7
<1>9. IsSequence(Tensor(rows))
  <2> DEFINE cell(j) == [a \in Arguments |-> Read(Array(rows, a)[j])]
  <2>1. Tensor(rows) = [j \in 1..long |-> cell(j)]
    BY <1>7
  <2> HIDE DEF cell
  <2> QED
    BY <1>4, <2>1 DEF IsSequence
<1> QED
  BY <1>8, <1>9

\* Without lists, row k of the tensor is the one that row k of the batch has alone.
LEMMA RowOfTensor ==
    ASSUME Query, NEW rows, Good(rows), ~ListMode, Convertible(rows),
           NEW k \in DOMAIN rows, NEW j \in DOMAIN Tensor(rows),
           k = j \/ (\A a \in Arguments : Form(a) = "literal"),
           NEW i \in DOMAIN asked.rows, rows[k] = asked.rows[i]
    PROVE  Tensor(rows)[j] = Own(i)[1] /\ Own(i) = [l \in 1..1 |-> Own(i)[1]]
<1> DEFINE row == asked.rows[i]
<1>1. 1 \in Arguments /\ 1 \in DOMAIN rows
  BY ArgumentNumbers DEF Good
<1>2. Form(1) # "list" /\ \A a \in Arguments : Form(a) \in {"column", "literal"}
  BY <1>1 DEF Query
<1>3. Own(i) = [l \in 1..1 |-> [a \in Arguments |-> Read(row.args[a][1])]]
  BY <1>2 DEF Own
<1>4. j \in DOMAIN Array(rows, 1) /\ Tensor(rows)[j] = [a \in Arguments |-> Read(Array(rows, a)[j])]
  BY DEF Tensor
<1>5. ASSUME NEW a \in Arguments PROVE Array(rows, a)[j] = row.args[a][1]
  <2>1. j \in DOMAIN Array(rows, a)
    <3>1. Len(Array(rows, a)) >= Len(Array(rows, 1))
      BY DEF Convertible
    <3>2. IsSequence(Array(rows, a)) /\ IsSequence(Array(rows, 1))
      BY <1>1, Arrays
    <3> QED
      BY <1>4, <3>1, <3>2 DEF IsSequence
  <2>2. CASE Form(a) = "literal"
    <3>1. Array(rows, a) = [l \in 1..RowCount(rows) |-> rows[1].args[a][1]]
      BY <2>2, Arrays
    <3>2. rows[1].args[a][1] = rows[k].args[a][1]
      BY <1>1, <2>2 DEF Good
    <3> QED
      BY <2>1, <3>1, <3>2
  <2>3. CASE Form(a) = "column"
    <3>1. Array(rows, a) = [l \in DOMAIN rows |-> rows[l].args[a][1]]
      BY <2>3, Arrays
    <3>2. k = j
      BY <2>3
    <3> QED
      BY <2>1, <3>1, <3>2
  <2> QED
    BY <1>2, <2>2, <2>3
<1>6. Tensor(rows)[j] = Own(i)[1]
  <2> HIDE DEF row
  <2> QED
    BY <1>3, <1>4, <1>5
<1>7. Own(i) = [l \in 1..1 |-> Own(i)[1]]
  BY <1>3
<1> QED
  BY <1>6, <1>7

LEMMA TensorLength ==
    ASSUME Query, NEW rows, Good(rows)
    PROVE  /\ Len(Tensor(rows)) \in Nat /\ DOMAIN Tensor(rows) = 1..Len(Tensor(rows))
           /\ Tensor(rows) = [j \in 1..Len(Tensor(rows)) |-> Tensor(rows)[j]]
           /\ ~ListMode => Len(Tensor(rows)) = IF AllLiterals THEN 1 ELSE Len(rows)
<1> DEFINE cell(j) == [a \in Arguments |-> Read(Array(rows, a)[j])]
           n == Len(Array(rows, 1))
<1>1. 1 \in Arguments /\ Len(rows) \in Nat \ {0}
  BY ArgumentNumbers DEF Good
<1>2. n \in Nat /\ DOMAIN Array(rows, 1) = 1..n
  BY <1>1, Arrays DEF IsSequence
<1>3. Tensor(rows) = [j \in 1..n |-> cell(j)]
  BY <1>2 DEF Tensor
<1>4. Len(Tensor(rows)) = n /\ DOMAIN Tensor(rows) = 1..n /\ Tensor(rows) = [j \in 1..n |-> Tensor(rows)[j]]
  <2> HIDE DEF cell, n
  <2> QED
    BY <1>2, <1>3
<1>5. ~ListMode => n = IF AllLiterals THEN 1 ELSE Len(rows)
  <2>1. ~ListMode => RowCount(rows) = IF AllLiterals THEN 1 ELSE Len(rows)
    BY <1>1, RowCounts DEF Good
  <2>2. ~ListMode => Form(1) \in {"column", "literal"}
    BY <1>1 DEF Query
  <2>3. Form(1) = "literal" => n = RowCount(rows)
    BY <1>1, Arrays
  <2>4. Form(1) = "column" => n = Len(rows)
    BY <1>1, Arrays
  <2> QED
    BY <1>1, <2>1, <2>2, <2>3, <2>4
<1> QED
  BY <1>2, <1>4, <1>5

\* What a model answers: a run for each row of the tensor, or one for all of it.
LEMMA OutputValues ==
    ASSUME Query, NEW rows, Good(rows), ~ListsLeft(rows), NEW out \in Outputs(rows)
    PROVE  /\ Convertible(rows) /\ DOMAIN out = 1..Len(out) /\ Len(out) \in Nat
           /\ asked.integers =>
                 out = [j \in DOMAIN Tensor(rows) |-> [of |-> <<Paired(Tensor(rows)[j])>>, at |-> 1]]
           /\ ~asked.integers => \A j \in DOMAIN out : out[j] = [of |-> Tensor(rows), at |-> j]
<1> DEFINE tensor == Tensor(rows)
<1>1. Len(tensor) \in Nat /\ DOMAIN tensor = 1..Len(tensor)
  BY TensorLength
<1>2. CASE asked.integers /\ IntegersFit(rows)
  <2>1. out = [j \in DOMAIN tensor |-> [of |-> <<Paired(tensor[j])>>, at |-> 1]]
    BY <1>2 DEF Outputs, PredictIntegers
  <2>2. Convertible(rows)
    BY <1>2 DEF IntegersFit
  <2> DEFINE cell(j) == [of |-> <<Paired(tensor[j])>>, at |-> 1]
  <2>3. out = [j \in DOMAIN tensor |-> cell(j)]
    BY <2>1
  <2> HIDE DEF tensor, cell
  <2>4. Len(out) = Len(tensor) /\ DOMAIN out = 1..Len(tensor)
    BY <1>1, <2>3
  <2> QED
    BY <1>1, <1>2, <2>1, <2>2, <2>4 DEF tensor
<1>3. CASE ~asked.integers /\ FloatsFit(rows)
  <2>1. out \in PredictFloats(rows) /\ Convertible(rows)
    BY <1>3 DEF Outputs, FloatsFit
  <2>2. PICK m \in Emitted : out = [j \in 1..m |-> [of |-> tensor, at |-> j]]
    BY <2>1 DEF PredictFloats
  <2> HIDE DEF tensor
  <2>3. m \in Nat
    BY OnnxAssumption
  <2>4. DOMAIN out = 1..m /\ Len(out) = m
    BY <2>2, <2>3
  <2>5. \A j \in DOMAIN out : out[j] = [of |-> tensor, at |-> j]
    BY <2>2
  <2> QED
    BY <1>3, <2>1, <2>3, <2>4, <2>5 DEF tensor
<1> QED
  BY <1>2, <1>3 DEF Outputs

\* A batch that follows the first p rows of the query.
Follows(rows, p) ==
    /\ p \in Nat /\ Good(rows)
    /\ \A k \in 1..Len(rows) : p + k \in DOMAIN asked.rows /\ rows[k] = asked.rows[p + k]

\* In list mode, only a batch of one row is answered.
LEMMA ListAnswered ==
    ASSUME Query, NEW rows, NEW p, Follows(rows, p), ListMode, NEW out \in Outputs(rows),
           Fits(rows, Returned(rows, out)), NEW k \in 1..Len(rows)
    PROVE  MadeOf(Spread(rows, Returned(rows, out))[k], p + k, p + 1, p + Len(rows))
<1> DEFINE one == [path |-> rows[1].path, from |-> out]
<1>1. Returned(rows, out) = <<one>>
  BY DEF Returned, Path0
<1>2. Len(rows) = 1 /\ DOMAIN rows = 1..1 /\ Good(rows)
  <2>1. ~\A a \in Arguments : Form(a) = "literal"
    OBVIOUS
  <2>2. Len(<<one>>) = 1
    OBVIOUS
  <2> HIDE DEF one
  <2>3. Len(rows) = 1
    BY <1>1, <2>1, <2>2 DEF Fits
  <2> QED
    BY <2>3 DEF Follows, Good
<1>3. k = 1 /\ ~ListsLeft(rows)
  BY <1>2 DEF ListsLeft
<1>4. Spread(rows, Returned(rows, out))[k] = one
  <2> HIDE DEF one
  <2>1. Spread(rows, <<one>>)[k] = <<one>>[1]
    BY <1>2, <1>3 DEF Spread
  <2> QED
    BY <1>1, <2>1
<1>5. /\ Convertible(rows) /\ DOMAIN out = 1..Len(out)
      /\ asked.integers =>
            out = [j \in DOMAIN Tensor(rows) |-> [of |-> <<Paired(Tensor(rows)[j])>>, at |-> 1]]
      /\ ~asked.integers => \A j \in DOMAIN out : out[j] = [of |-> Tensor(rows), at |-> j]
  BY <1>2, <1>3, OutputValues
<1>6. p + 1 \in DOMAIN asked.rows /\ rows[1] = asked.rows[p + 1]
  BY <1>2 DEF Follows
<1>7. Tensor(rows) = Own(p + 1)
  BY <1>2, <1>5, <1>6, AloneTensor
<1>8. one.path = asked.rows[p + 1].path /\ one.from = out
  BY <1>6
<1> HIDE DEF one
<1>9. asked.integers =>
         one.from = [j \in DOMAIN Own(p + 1) |-> [of |-> <<Paired(Own(p + 1)[j])>>, at |-> 1]]
  BY <1>5, <1>7, <1>8
<1>10. ~asked.integers => \A j \in DOMAIN one.from : one.from[j] = [of |-> Own(p + 1), at |-> j]
  BY <1>5, <1>7, <1>8
<1>11. asked.integers \in BOOLEAN
  BY DEF Query
<1>12. MadeOf(one, p + 1, p + 1, p + Len(rows))
  BY <1>8, <1>9, <1>10, <1>11 DEF MadeOf
<1> QED
  BY <1>3, <1>4, <1>12

\* Without lists, the tensor of a batch is its rows in their order.
LEMMA TensorLaid ==
    ASSUME Query, NEW rows, NEW p, Follows(rows, p), ~ListMode, Convertible(rows)
    PROVE  /\ Tensor(rows) = Laid(p + 1, p + Len(rows))
           /\ AllLiterals => \A k \in 1..Len(rows) : Tensor(rows) = Own(p + k)
<1>1. PICK n \in Nat : n = Len(rows) /\ n # 0 /\ DOMAIN rows = 1..n /\ p \in Nat /\ Good(rows)
  BY DEF Follows, Good
<1>2. PICK tensor : tensor = Tensor(rows)
  OBVIOUS
<1>3. PICK m \in Nat : /\ m = Len(tensor) /\ DOMAIN tensor = 1..m /\ tensor = [j \in 1..m |-> tensor[j]]
                       /\ m = IF AllLiterals THEN 1 ELSE n
  BY <1>1, <1>2, TensorLength
<1>4. CASE AllLiterals
  <2>1. ASSUME NEW k \in 1..n PROVE tensor = Own(p + k)
    <3>1. m = 1 /\ 1 \in DOMAIN tensor /\ k \in DOMAIN rows
      BY <1>1, <1>3, <1>4
    <3>2. p + k \in DOMAIN asked.rows /\ rows[k] = asked.rows[p + k]
      BY <1>1 DEF Follows
    <3>3. tensor[1] = Own(p + k)[1] /\ Own(p + k) = [l \in 1..1 |-> Own(p + k)[1]]
      BY <1>1, <1>2, <1>4, <3>1, <3>2, RowOfTensor
    <3>4. tensor = [l \in 1..1 |-> tensor[1]]
      BY <1>3, <3>1
    <3> QED
      BY <3>3, <3>4
  <2>2. Laid(p + 1, p + Len(rows)) = Own(p + 1)
    BY <1>4 DEF Laid
  <2>3. 1 \in 1..n
    BY <1>1
  <2> QED
    BY <1>1, <1>2, <2>1, <2>2, <2>3
<1>5. CASE ~AllLiterals
  <2>1. ASSUME NEW k \in 1..n PROVE tensor[k] = Own(p + 1 + k - 1)[1]
    <3>1. k \in DOMAIN tensor /\ k \in DOMAIN rows
      BY <1>1, <1>3, <1>5
    <3>2. p + k \in DOMAIN asked.rows /\ rows[k] = asked.rows[p + k]
      BY <1>1 DEF Follows
    <3>3. tensor[k] = Own(p + k)[1]
      BY <1>1, <1>2, <3>1, <3>2, RowOfTensor
    <3>4. p + 1 + k - 1 = p + k
      BY <1>1
    <3> QED
      BY <3>3, <3>4
  <2>2. Laid(p + 1, p + n) = [k \in 1..(p + n) - (p + 1) + 1 |-> Own(p + 1 + k - 1)[1]]
    BY <1>5 DEF Laid
  <2>3. (p + n) - (p + 1) + 1 = n
    BY <1>1
  <2>4. tensor = [k \in 1..n |-> tensor[k]]
    BY <1>3, <1>5
  <2>5. Laid(p + 1, p + n) = tensor
    BY <2>1, <2>2, <2>3, <2>4
  <2> QED
    BY <1>1, <1>2, <1>5, <2>5
<1> QED
  BY <1>4, <1>5

\* Otherwise each row has an output of its own, or they all have the one of the literals.
LEMMA BatchAnswered ==
    ASSUME Query, NEW rows, NEW p, Follows(rows, p), ~ListMode, NEW out \in Outputs(rows),
           Fits(rows, Returned(rows, out))
    PROVE  \/ \A k \in 1..Len(rows) : MadeOf(Spread(rows, Returned(rows, out))[k], p + k, p + 1, p + Len(rows))
           \/ \A k \in 1..Len(rows) : MadeOf(Spread(rows, Returned(rows, out))[k], p + k, p + k, p + k)
<1> DEFINE one(j) == [path |-> rows[1].path, from |-> <<out[j]>>]
           answers == [j \in DOMAIN out |-> one(j)]
           new == Spread(rows, Returned(rows, out))
           place(k) == IF Len(answers) = Len(rows) THEN k ELSE 1
<1>1. PICK n \in Nat : n = Len(rows) /\ n # 0 /\ DOMAIN rows = 1..n /\ p \in Nat /\ Good(rows)
  BY DEF Follows, Good
<1>2. Returned(rows, out) = answers
  BY DEF Returned, Path0
<1>3. /\ Convertible(rows) /\ DOMAIN out = 1..Len(out) /\ Len(out) \in Nat
      /\ asked.integers =>
            out = [j \in DOMAIN Tensor(rows) |-> [of |-> <<Paired(Tensor(rows)[j])>>, at |-> 1]]
      /\ ~asked.integers => \A j \in DOMAIN out : out[j] = [of |-> Tensor(rows), at |-> j]
  BY <1>1, OutputValues DEF ListsLeft
<1>4. Len(answers) = Len(out) /\ DOMAIN answers = 1..Len(out)
  <2> HIDE DEF one
  <2> QED
    BY <1>3
<1>5. Len(answers) = n \/ (Len(answers) = 1 /\ asked.literalPath /\ AllLiterals)
  BY <1>1, <1>2 DEF Fits
<1>6. ASSUME NEW k \in 1..n
      PROVE  place(k) \in DOMAIN out /\ new[k] = one(place(k)) /\ (k = place(k) \/ AllLiterals)
  <2> HIDE DEF one
  <2>1. new[k] = answers[place(k)]
    BY <1>1, <1>2 DEF Spread
  <2>2. place(k) \in DOMAIN out /\ (k = place(k) \/ AllLiterals)
    <3> HIDE DEF answers
    <3>1. CASE Len(answers) = n
      <4>1. place(k) = k /\ DOMAIN out = 1..n
        BY <1>1, <1>3, <1>4, <3>1
      <4> QED
        BY <4>1
    <3>2. CASE Len(answers) # n
      <4>1. place(k) = 1 /\ Len(out) = 1 /\ AllLiterals
        BY <1>1, <1>4, <1>5, <3>2
      <4> QED
        BY <1>3, <4>1
    <3> QED
      BY <3>1, <3>2
  <2>3. answers[place(k)] = one(place(k))
    <3> HIDE DEF place
    <3> QED
      BY <2>2
  <2> QED
    BY <2>1, <2>2, <2>3
<1>7. /\ rows[1].path = asked.rows[p + 1].path
      /\ asked.literalPath => \A k \in 1..n : rows[1].path = asked.rows[p + k].path
  <2>1. 1 \in 1..n /\ \A k \in 1..n : p + k \in DOMAIN asked.rows /\ rows[k] = asked.rows[p + k]
    BY <1>1 DEF Follows
  <2> QED
    BY <2>1 DEF Query
<1>8. asked.integers \in BOOLEAN
  BY DEF Query
<1>9. CASE asked.integers
  <2>1. ASSUME NEW k \in 1..n PROVE MadeOf(new[k], p + k, p + 1, p + n)
    <3>1. PICK j : j = place(k)
      OBVIOUS
    <3>2. j \in DOMAIN out /\ new[k] = one(j) /\ (k = j \/ AllLiterals)
      BY <1>6, <3>1
    <3>3. j \in DOMAIN Tensor(rows) /\ out[j] = [of |-> <<Paired(Tensor(rows)[j])>>, at |-> 1]
      BY <1>3, <1>9, <3>2
    <3>4. p + k \in DOMAIN asked.rows /\ rows[k] = asked.rows[p + k] /\ k \in DOMAIN rows
      BY <1>1 DEF Follows
    <3>5. PICK x : x = Own(p + k)
      OBVIOUS
    <3>6. Tensor(rows)[j] = x[1] /\ x = [l \in 1..1 |-> x[1]]
      BY <1>1, <1>3, <3>2, <3>3, <3>4, <3>5, RowOfTensor
    <3>7. new[k].path = rows[1].path /\ new[k].from = <<[of |-> <<Paired(x[1])>>, at |-> 1]>>
      BY <3>2, <3>3, <3>6
    <3>8. [l \in DOMAIN x |-> [of |-> <<Paired(x[l])>>, at |-> 1]] = <<[of |-> <<Paired(x[1])>>, at |-> 1]>>
      <4> DEFINE run(y) == [of |-> <<Paired(y)>>, at |-> 1]
      <4>1. DOMAIN x = 1..1
        BY <3>6
      <4> HIDE DEF run
      <4>2. [l \in DOMAIN x |-> run(x[l])] = <<run(x[1])>>
        BY <4>1
      <4> QED
        BY <4>2 DEF run
    <3> HIDE DEF new
    <3> QED
      BY <1>7, <1>9, <3>5, <3>7, <3>8 DEF MadeOf
  <2> HIDE DEF new
  <2>2. \A k \in 1..n : MadeOf(new[k], p + k, p + 1, p + n)
    BY <2>1
  <2> QED
    BY <1>1, <2>2 DEF new
<1>10. CASE ~asked.integers /\ Len(answers) = n
  <2>1. ASSUME NEW k \in 1..n PROVE MadeOf(new[k], p + k, p + 1, p + n)
    <3>1. place(k) = k
      BY <1>1, <1>10
    <3>2. k \in DOMAIN out /\ new[k] = one(k)
      BY <1>6, <3>1
    <3>3. out[k] = [of |-> Tensor(rows), at |-> k]
      BY <1>3, <1>10, <3>2
    <3>4. Tensor(rows) = Laid(p + 1, p + n)
      BY <1>1, <1>3, TensorLaid
    <3>5. (p + k) - (p + 1) + 1 = k
      BY <1>1
    <3>6. new[k].path = rows[1].path /\ new[k].from = <<out[k]>>
      BY <3>2
    <3> HIDE DEF new
    <3> QED
      BY <1>7, <1>10, <3>3, <3>4, <3>5, <3>6 DEF MadeOf
  <2> HIDE DEF new
  <2>2. \A k \in 1..n : MadeOf(new[k], p + k, p + 1, p + n)
    BY <2>1
  <2> QED
    BY <1>1, <2>2 DEF new
<1>11. CASE ~asked.integers /\ Len(answers) # n
  <2>a. AllLiterals /\ asked.literalPath
    BY <1>5, <1>11
  <2>1. ASSUME NEW k \in 1..n PROVE MadeOf(new[k], p + k, p + k, p + k)
    <3>1. place(k) = 1
      BY <1>1, <1>11
    <3>2. 1 \in DOMAIN out /\ new[k] = one(1)
      BY <1>6, <3>1
    <3>3. out[1] = [of |-> Tensor(rows), at |-> 1]
      BY <1>3, <1>11, <3>2
    <3>4. Tensor(rows) = Own(p + k)
      BY <1>1, <1>3, <2>a, TensorLaid
    <3>5. Laid(p + k, p + k) = Own(p + k)
      BY <2>a DEF Laid
    <3>6. (p + k) - (p + k) + 1 = 1
      BY <1>1
    <3>7. new[k].path = rows[1].path /\ new[k].from = <<out[1]>>
      BY <3>2
    <3>8. rows[1].path = asked.rows[p + k].path
      BY <1>7, <2>a
    <3> HIDE DEF new
    <3> QED
      BY <1>11, <3>3, <3>4, <3>5, <3>6, <3>7, <3>8 DEF MadeOf
  <2> HIDE DEF new
  <2>2. \A k \in 1..n : MadeOf(new[k], p + k, p + k, p + k)
    BY <2>1
  <2> QED
    BY <1>1, <2>2 DEF new
<1> QED
  BY <1>8, <1>9, <1>10, <1>11

LEMMA SequenceOf ==
    ASSUME NEW S, NEW s \in Seq(S)
    PROVE  IsSequence(s)
<1>1. s = [i \in 1..Len(s) |-> s[i]] /\ Len(s) \in Nat
  OBVIOUS
<1> QED
  BY <1>1 DEF IsSequence

\* What an answer should be made of depends on the query alone.
LEMMA MadeOfStays ==
    ASSUME UNCHANGED asked, NEW got, NEW k, NEW first, NEW last
    PROVE  MadeOf(got, k, first, last)' <=> MadeOf(got, k, first, last)
<1>1. \A i : Own(i)' = Own(i)
  BY DEF Own, RowCount
<1>2. Laid(first, last)' = Laid(first, last)
  BY <1>1 DEF Laid
<1>3. \A x : Paired(x)' = Paired(x)
  BY DEF Paired
<1> QED
  BY <1>1, <1>2, <1>3 DEF MadeOf

\* One more batch: what was predicted stays, and its rows are answered with their own.
LEMMA BatchPredicted ==
    ASSUME OnnxInv, NEW n, NEW rows, Batch(rows, n), NEW out \in Outputs(rows),
           Fits(rows, Returned(rows, out)), UNCHANGED asked,
           predicted' = predicted \o Spread(rows, Returned(rows, out))
    PROVE  IsSequence(predicted') /\ PredictionsAreTheirRows'
<1> DEFINE new == Spread(rows, Returned(rows, out))
           p   == Len(predicted)
<1>1. Query /\ IsSequence(predicted) /\ PredictionsAreTheirRows
  BY DEF OnnxInv
<1>2. Good(rows) /\ Len(rows) = n /\ n \in Nat \ {0} /\ DOMAIN rows = 1..n
      /\ \A k \in 1..n : p + k \in DOMAIN asked.rows /\ rows[k] = asked.rows[p + k]
  BY <1>1, BatchRows DEF Good
<1>3. IsSequence(new) /\ Len(new) = n /\ DOMAIN new = 1..n
  <2> DEFINE chosen(i) == Returned(rows, out)[IF Len(Returned(rows, out)) = Len(rows) THEN i ELSE 1]
  <2>1. new = [i \in 1..n |-> chosen(i)]
    BY <1>2 DEF Spread
  <2> HIDE DEF chosen, new
  <2>2. n \in Nat
    BY <1>2
  <2>3. Len(new) = n /\ DOMAIN new = 1..n
    BY <2>1, <2>2
  <2> DEFINE S == {new[i] : i \in DOMAIN new}
  <2>4. \A i \in 1..n : chosen(i) \in S
    BY <2>1, <2>3
  <2> HIDE DEF S
  <2>5. new \in Seq(S)
    BY <2>1, <2>2, <2>4
  <2> QED
    BY <2>3, <2>5 DEF IsSequence, S
<1>4. \/ \A k \in 1..n : MadeOf(new[k], p + k, p + 1, p + n)
      \/ \A k \in 1..n : MadeOf(new[k], p + k, p + k, p + k)
  <2>1. Follows(rows, p)
    <3>1. p \in Nat
      BY <1>1 DEF IsSequence
    <3> QED
      BY <1>2, <3>1 DEF Follows
  <2>2. CASE ListMode
    <3>1. \A k \in 1..Len(rows) : MadeOf(new[k], p + k, p + 1, p + Len(rows))
      BY <1>1, <2>1, <2>2, ListAnswered
    <3> HIDE DEF new
    <3> QED
      BY <1>2, <3>1
  <2>3. CASE ~ListMode
    <3>1. \/ \A k \in 1..Len(rows) : MadeOf(new[k], p + k, p + 1, p + Len(rows))
          \/ \A k \in 1..Len(rows) : MadeOf(new[k], p + k, p + k, p + k)
      BY <1>1, <2>1, <2>3, BatchAnswered
    <3> HIDE DEF new
    <3> QED
      BY <1>2, <3>1
  <2> QED
    BY <2>2, <2>3
<1>6. IsSequence(predicted') /\ DOMAIN predicted' = 1..(p + n) /\ p \in Nat
      /\ DOMAIN predicted = 1..p /\ Len(predicted') = p + n
      /\ \A i \in 1..(p + n) : predicted'[i] = IF i <= p THEN predicted[i] ELSE new[i - p]
  <2> DEFINE S == {predicted[i] : i \in DOMAIN predicted} \cup {new[i] : i \in DOMAIN new}
  <2>1. predicted \in Seq(S)
    <3>1. predicted \in Seq({predicted[i] : i \in DOMAIN predicted})
      BY <1>1 DEF IsSequence
    <3> HIDE DEF new
    <3> QED
      BY <3>1
  <2>2. new \in Seq(S)
    <3>1. new \in Seq({new[i] : i \in DOMAIN new})
      BY <1>3 DEF IsSequence
    <3> HIDE DEF new
    <3> QED
      BY <3>1
  <2>3. predicted' = predicted \o new
    OBVIOUS
  <2> HIDE DEF S, new
  <2>4. predicted' \in Seq(S) /\ Len(predicted') = p + n /\ p \in Nat
    <3>1. Len(new) = n /\ n \in Nat
      BY <1>2, <1>3
    <3> QED
      BY <2>1, <2>2, <2>3, <3>1
  <2>5. \A i \in 1..(p + n) : predicted'[i] = IF i <= p THEN predicted[i] ELSE new[i - p]
    BY <1>2, <1>3, <2>1, <2>2, <2>3
  <2>6. DOMAIN predicted' = 1..(p + n) /\ DOMAIN predicted = 1..p
    BY <2>1, <2>4
  <2> HIDE DEF p
  <2>7. IsSequence(predicted')
    BY <2>4, SequenceOf
  <2> QED
    BY <2>4, <2>5, <2>6, <2>7
<1>7. \A i \in 1..(p + n) : \E first \in 1..i, last \in i..(p + n) :
          \A k \in first..last : MadeOf(predicted'[k], k, first, last)
  <2> HIDE DEF new
  <2> TAKE i \in 1..(p + n)
  <2>0. p \in Nat /\ n \in Nat
    BY <1>2, <1>6
  <2>1. CASE i <= p
    <3>0. i \in DOMAIN predicted /\ Len(predicted) = p
      BY <1>6, <2>0, <2>1
    <3>1. PICK first \in 1..i, last \in i..p : \A k \in first..last : MadeOf(predicted[k], k, first, last)
      <4>1. PredictionsAreTheirRows
        BY <1>1
      <4> QED
        BY <3>0, <4>1 DEF PredictionsAreTheirRows
    <3>2. \A k \in first..last : k \in 1..(p + n) /\ k <= p
      BY <2>0, <2>1
    <3>3. \A k \in first..last : MadeOf(predicted'[k], k, first, last)
      BY <1>6, <3>1, <3>2
    <3>4. last \in i..(p + n)
      BY <2>0, <2>1
    <3> QED
      BY <3>3, <3>4
  <2>2. CASE ~(i <= p) /\ \A k \in 1..n : MadeOf(new[k], p + k, p + 1, p + n)
    <3>1. p + 1 \in 1..i /\ p + n \in i..(p + n)
      BY <2>0, <2>2
    <3>2. ASSUME NEW k \in p + 1..p + n PROVE MadeOf(predicted'[k], k, p + 1, p + n)
      <4>1. PICK j \in 1..n : k = p + j
        <5>1. k - p \in 1..n /\ k = p + (k - p)
          BY <2>0
        <5> QED
          BY <5>1
      <4>2. k \in 1..(p + n) /\ ~(k <= p) /\ k - p = j
        BY <2>0, <4>1
      <4>3. predicted'[k] = new[j]
        BY <1>6, <4>2
      <4> QED
        BY <2>2, <4>1, <4>3
    <3> QED
      BY <3>1, <3>2
  <2>3. CASE ~(i <= p) /\ \A k \in 1..n : MadeOf(new[k], p + k, p + k, p + k)
    <3>1. PICK j \in 1..n : i = p + j
      <4>1. i - p \in 1..n /\ i = p + (i - p)
        BY <2>0, <2>3
      <4> QED
        BY <4>1
    <3>2. predicted'[i] = new[j]
      <4>1. ~(i <= p) /\ i - p = j
        BY <2>0, <3>1
      <4> QED
        BY <1>6, <4>1
    <3>3. MadeOf(predicted'[i], i, i, i)
      BY <2>3, <3>1, <3>2
    <3>4. i \in 1..i /\ i \in i..(p + n) /\ \A k \in i..i : k = i
      BY <2>0
    <3> QED
      BY <3>3, <3>4
  <2> QED
    BY <1>4, <2>1, <2>2, <2>3
<1>8. PredictionsAreTheirRows'
  <2>1. \A got, k, first, last : MadeOf(got, k, first, last)' <=> MadeOf(got, k, first, last)
    BY MadeOfStays
  <2>2. \A i \in DOMAIN predicted' : \E first \in 1..i, last \in i..Len(predicted') :
           \A k \in first..last : MadeOf(predicted'[k], k, first, last)
    <3> HIDE DEF p, new
    <3> SUFFICES ASSUME NEW i \in 1..(p + n)
                 PROVE  \E first \in 1..i, last \in i..(p + n) :
                            \A k \in first..last : MadeOf(predicted'[k], k, first, last)
      <4>1. DOMAIN predicted' = 1..(p + n) /\ Len(predicted') = p + n
        BY <1>6
      <4> QED
        BY <4>1
    <3> QED
      BY <1>7
  <2> QED
    BY <2>1, <2>2 DEF PredictionsAreTheirRows
<1> QED
  BY <1>6, <1>8

LEMMA QueryStays ==
    ASSUME Query, UNCHANGED asked PROVE Query'
BY DEF Query

LEMMA OnnxInitial == OnnxInit => OnnxInv
<1> SUFFICES ASSUME OnnxInit PROVE OnnxInv
  OBVIOUS
<1>1. Query
  BY OnnxAssumption DEF OnnxInit, Query
<1>2. predicted = <<>> /\ DOMAIN predicted = {}
  BY DEF OnnxInit
<1>3. IsSequence(predicted)
  BY <1>2 DEF IsSequence
<1>4. PredictionsAreTheirRows
  BY <1>2 DEF PredictionsAreTheirRows
<1> QED
  BY <1>1, <1>3, <1>4 DEF OnnxInv

LEMMA OnnxKeeps ==
    ASSUME OnnxInv, UNCHANGED <<asked, predicted>>
    PROVE  OnnxInv'
<1>1. Query' /\ IsSequence(predicted)'
  BY QueryStays DEF OnnxInv
<1>2. PredictionsAreTheirRows'
  <2>1. asked' = asked /\ predicted' = predicted
    OBVIOUS
  <2>2. \A got, k, first, last : MadeOf(got, k, first, last)' <=> MadeOf(got, k, first, last)
    BY <2>1, MadeOfStays
  <2>3. PredictionsAreTheirRows
    BY DEF OnnxInv
  <2> QED
    BY <2>1, <2>2, <2>3 DEF PredictionsAreTheirRows
<1> QED
  BY <1>1, <1>2 DEF OnnxInv

LEMMA OnnxStep == OnnxInv /\ [OnnxNext]_onnxVars => OnnxInv'
<1> SUFFICES ASSUME OnnxInv, [OnnxNext]_onnxVars PROVE OnnxInv'
  OBVIOUS
<1>1. ASSUME NEW n \in 1..Len(asked.rows), Predict(n) PROVE OnnxInv'
  <2> DEFINE rows == SubSeq(asked.rows, Len(predicted) + 1, Len(predicted) + n)
  <2>1. Batch(rows, n)
    BY <1>1 DEF Predict, Batch
  <2>2. CASE UNCHANGED predicted
    BY <1>1, <2>2, OnnxKeeps DEF Predict
  <2>3. ASSUME NEW out \in Outputs(rows), Fits(rows, Returned(rows, out)),
               predicted' = predicted \o Spread(rows, Returned(rows, out))
        PROVE  OnnxInv'
    <3>1. UNCHANGED asked
      BY <1>1 DEF Predict
    <3> HIDE DEF rows
    <3>2. IsSequence(predicted') /\ PredictionsAreTheirRows'
      BY <2>1, <2>3, <3>1, BatchPredicted
    <3>3. Query'
      BY <3>1, QueryStays DEF OnnxInv
    <3> QED
      BY <3>2, <3>3 DEF OnnxInv
  <2> QED
    BY <1>1, <2>2, <2>3 DEF Predict
<1>2. CASE UNCHANGED onnxVars
  BY <1>2, OnnxKeeps DEF onnxVars
<1> QED
  BY <1>1, <1>2 DEF OnnxNext

\* Whatever the query, its rows and the batches they come in: onnx_predict answers a row with what
\* a model of integers, or of lists, makes of the row's own arguments alone, and with the output
\* at the row's own place in one run on exactly the rows of its batch where the model is one of
\* floats and no lists; or the query fails.
THEOREM OnnxPredicts == OnnxSpec => []PredictionsAreTheirRows
<1>1. OnnxInv => PredictionsAreTheirRows
  BY DEF OnnxInv
<1> QED
  BY OnnxInitial, OnnxStep, <1>1, PTL DEF OnnxSpec

-----------------------------------------------------------------------------
(* Columns.  A row that was INSERTed here went through the registered type,  *)
(* and one of another client is what its database admits; from there, each   *)
(* database is a case of its own.                                            *)

USE DEF Val, Nil, Missing

\* What the values of each set look like.
LEMMA Shapes ==
    /\ \A x \in Ints : x.is = "int" /\ x.v \in Number /\ x.v % 2 = 0
    /\ \A x \in Reals : x.is = "real" /\ x.v \in Number
    /\ \A x \in AllTexts : x.is = "text" /\ x.v \in Number \cup Word
    /\ \A x \in Bools : x.is = "bool" /\ x.v \in {0, 2}
    /\ \A x \in Blobs : x.is = "blob" /\ x.v \in Word
    /\ \A x \in Dates : x.is = "date" /\ x.v \in Word
    /\ \A x \in Ints32 : x.is = "int32" /\ x.v \in Number
BY DEF Ints, Reals, AllTexts, Bools, Blobs, Dates, Ints32

LEMMA Written ==
    ASSUME NEW x \in Ints \cup Reals \cup AllTexts \cup Bools \cup Blobs \cup Dates \cup Ints32
    PROVE  x = Val(x.is, x.v) /\ x # Nil /\ x # Missing
BY DEF Ints, Reals, AllTexts, Bools, Blobs, Dates, Ints32

\* No number is a text that is read as one.
LEMMA NumbersAreUsual ==
    /\ \A n \in Number \cup {0, 2} : n \notin DOMAIN Reads
    /\ \A t \in DOMAIN Reads : Reads[t] \in Number
    /\ Number \subseteq Int
BY ColumnsAssumption

\* What SQLite makes of a number: an integer if it is one.
LEMMA AffineNumbers ==
    ASSUME NEW x, x = Val(x.is, x.v), x.is \in {"int", "real"}, x.v \in Number \cup {0, 2}, NEW t
    PROVE  Affine(t, x) = CASE t \in {"INT", "BOOL", "DATE"} ->
                                  Val(IF x.v % 2 = 0 THEN "int" ELSE "real", x.v)
                            [] t = "REAL" -> Val("real", x.v)
                            [] t = "TEXT" -> Val("text", x.v)
                            [] OTHER -> x
<1>1. x.v \notin DOMAIN Reads /\ x.is \in Numeric
  BY NumbersAreUsual DEF Numeric
<1> QED
  BY <1>1 DEF Affine

LEMMA AffineTexts ==
    ASSUME NEW x \in AllTexts, NEW t
    PROVE  LET n == IF x.v \in DOMAIN Reads THEN Reads[x.v] ELSE x.v
           IN  Affine(t, x) = CASE t \in {"INT", "BOOL", "DATE"} /\ n \in Number ->
                                        Val(IF n % 2 = 0 THEN "int" ELSE "real", n)
                                [] t = "REAL" /\ n \in Number -> Val("real", n)
                                [] OTHER -> x
<1>1. x.is = "text" /\ x.is \notin Numeric
  BY Shapes DEF Numeric
<1> QED
  BY <1>1 DEF Affine

LEMMA AffineOthers ==
    ASSUME NEW x, x.is \notin {"int", "real", "int32", "text"}, NEW t
    PROVE  Affine(t, x) = x
<1>1. x.is \notin Numeric /\ x.is # "text"
  BY DEF Numeric
<1> QED
  BY <1>1 DEF Affine

\* The types of SQLite's columns, by the registered type.
LEMMA SqliteTypes ==
    ASSUME NEW t \in Types("sqlite")
    PROVE  LET type == SqliteType(t)
           IN  \/ t \in {"rowid", "INT"} /\ type = "Int64"
               \/ t = "REAL" /\ type = "Float64"
               \/ t \in {"untyped", "BLOB"} /\ type = "Binary"
               \/ t = "BOOL" /\ type = "Boolean"
               \/ t \in {"fts", "TEXT", "DATE"} /\ type = "Utf8"
BY DEF Types, SqliteType

\* A value INSERTed into SQLite: it is shown, and as it was but for a text that is read as a number.
LEMMA SqliteGiven ==
    ASSUME NEW t \in Types("sqlite"), NEW x \in Given(SqliteType(t))
    PROVE  LET y == SqliteShows(SqliteType(t), Affine(t, SqliteEncoded(x)))
           IN  /\ y # Nil /\ x \notin {Nil, Missing}
               /\ y.v = x.v \/ (t = "DATE" /\ x.v \in DOMAIN Reads /\ y.v = Reads[x.v])
<1> DEFINE held == Affine(t, SqliteEncoded(x))
           y    == SqliteShows(SqliteType(t), held)
<1>1. CASE t \in {"rowid", "INT"} /\ SqliteType(t) = "Int64"
  <2>1. x \in Ints
    BY <1>1 DEF Given
  <2>2. x = Val("int", x.v) /\ x.v \in Number /\ x.v % 2 = 0 /\ x # Nil /\ x # Missing
    BY <2>1, Shapes, Written
  <2>3. held = x
    BY <1>1, <2>2, AffineNumbers DEF SqliteEncoded
  <2>4. y = x
    BY <1>1, <2>2, <2>3 DEF SqliteShows
  <2> QED
    BY <2>2, <2>4
<1>2. CASE t = "REAL" /\ SqliteType(t) = "Float64"
  <2>1. x \in Reals
    BY <1>2 DEF Given
  <2>2. x = Val("real", x.v) /\ x.v \in Number /\ x # Nil /\ x # Missing
    BY <2>1, Shapes, Written
  <2>3. held = x
    BY <1>2, <2>2, AffineNumbers DEF SqliteEncoded
  <2>4. y = x
    BY <1>2, <2>2, <2>3 DEF SqliteShows
  <2> QED
    BY <2>2, <2>4
<1>3. CASE t \in {"untyped", "BLOB"} /\ SqliteType(t) = "Binary"
  <2>1. x \in Blobs
    BY <1>3 DEF Given
  <2>2. x = Val("blob", x.v) /\ x # Nil /\ x # Missing
    BY <2>1, Shapes, Written
  <2>3. held = x
    BY <2>2, AffineOthers DEF SqliteEncoded
  <2>4. y = x
    BY <1>3, <2>2, <2>3 DEF SqliteShows
  <2> QED
    BY <2>2, <2>4
<1>4. CASE t = "BOOL" /\ SqliteType(t) = "Boolean"
  <2>1. x \in Bools
    BY <1>4 DEF Given
  <2>2. x = Val("bool", x.v) /\ x.v \in {0, 2} /\ x # Nil /\ x # Missing
    BY <2>1, Shapes, Written
  <2>3. SqliteEncoded(x) = Val("int", x.v)
    BY <2>2 DEF SqliteEncoded
  <2>4. held = Val("int", x.v)
    BY <1>4, <2>2, <2>3, AffineNumbers
  <2>5. y = Val("bool", x.v)
    BY <1>4, <2>2, <2>4 DEF SqliteShows
  <2> QED
    BY <2>2, <2>5
<1>5. CASE t \in {"fts", "TEXT", "DATE"} /\ SqliteType(t) = "Utf8"
  <2> DEFINE n == IF x.v \in DOMAIN Reads THEN Reads[x.v] ELSE x.v
  <2>1. x \in AllTexts
    BY <1>5 DEF Given
  <2>2. x = Val("text", x.v) /\ x # Nil /\ x # Missing
    BY <2>1, Shapes, Written
  <2>3. SqliteEncoded(x) = x
    BY <2>2 DEF SqliteEncoded
  <2>4. held = x \/ (t = "DATE" /\ \E c \in {"int", "real"} : held = Val(c, n))
    BY <1>5, <2>1, <2>3, AffineTexts
  <2>5. CASE held = x
    <3>1. y = x
      BY <1>5, <2>2, <2>5 DEF SqliteShows
    <3> QED
      BY <2>2, <3>1
  <2>6. CASE t = "DATE" /\ \E c \in {"int", "real"} : held = Val(c, n)
    <3>1. y = Val("text", n)
      <4> HIDE DEF n
      <4> QED
        BY <1>5, <2>6 DEF SqliteShows
    <3> QED
      BY <2>2, <2>6, <3>1
  <2> QED
    BY <2>4, <2>5, <2>6
<1> QED
  BY <1>1, <1>2, <1>3, <1>4, <1>5, SqliteTypes

LEMMA SqliteNull ==
    ASSUME NEW t \in Types("sqlite")
    PROVE  SqliteShows(SqliteType(t), Affine(t, SqliteEncoded(Nil))) = Nil
<1>1. SqliteEncoded(Nil) = Nil /\ Affine(t, Nil) = Nil
  BY AffineOthers DEF SqliteEncoded
<1> QED
  BY <1>1 DEF SqliteShows

\* What another client may have SQLite hold in a column.
SqliteHolds(t) ==
    CASE t = "rowid" -> Ints
      [] t = "untyped" -> Blobs
      [] OTHER -> {Affine(t, x) : x \in Ints \cup Reals \cup AllTexts \cup Blobs}

LEMMA SqliteKinds ==
    ASSUME NEW t \in Types("sqlite"), NEW x \in SqliteHolds(t)
    PROVE  x.is \in {"int", "real", "text", "blob"} /\ x = Val(x.is, x.v)
<1> DEFINE Fine(y) == y.is \in {"int", "real", "text", "blob"} /\ y = Val(y.is, y.v)
<1>1. CASE t \in {"rowid", "untyped"}
  <2>1. x \in Ints \cup Blobs
    BY <1>1 DEF SqliteHolds
  <2> QED
    BY <2>1, Shapes, Written
<1>2. CASE t \notin {"rowid", "untyped"}
  <2>1. PICK g \in Ints \cup Reals \cup AllTexts \cup Blobs : x = Affine(t, g)
    BY <1>2 DEF SqliteHolds
  <2>2. g = Val(g.is, g.v)
    BY Written
  <2>3. CASE g \in Ints \cup Reals
    <3>1. g.is \in {"int", "real"} /\ g.v \in Number
      BY <2>3, Shapes
    <3>2. Affine(t, g) = CASE t \in {"INT", "BOOL", "DATE"} ->
                                 Val(IF g.v % 2 = 0 THEN "int" ELSE "real", g.v)
                           [] t = "REAL" -> Val("real", g.v)
                           [] t = "TEXT" -> Val("text", g.v)
                           [] OTHER -> g
      BY <2>2, <3>1, AffineNumbers
    <3>3. Fine(Affine(t, g))
      BY <2>2, <3>1, <3>2
    <3> QED
      BY <2>1, <3>3
  <2>4. CASE g \in AllTexts
    <3> DEFINE n == IF g.v \in DOMAIN Reads THEN Reads[g.v] ELSE g.v
    <3>1. g.is = "text"
      BY <2>4, Shapes
    <3>2. Affine(t, g) = CASE t \in {"INT", "BOOL", "DATE"} /\ n \in Number ->
                                        Val(IF n % 2 = 0 THEN "int" ELSE "real", n)
                                [] t = "REAL" /\ n \in Number -> Val("real", n)
                                [] OTHER -> g
      BY <2>4, AffineTexts
    <3> HIDE DEF n
    <3>3. Fine(Affine(t, g))
      BY <2>2, <3>1, <3>2
    <3> QED
      BY <2>1, <3>3
  <2>5. CASE g \in Blobs
    <3>1. g.is = "blob"
      BY <2>5, Shapes
    <3>2. Affine(t, g) = g
      BY <3>1, AffineOthers
    <3> QED
      BY <2>1, <2>2, <3>1, <3>2
  <2> QED
    BY <2>3, <2>4, <2>5
<1> QED
  BY <1>1, <1>2

\* The classes a value INSERTed here can have in SQLite.
LEMMA SqliteClasses ==
    ASSUME NEW t \in Types("sqlite"), NEW g \in Given(SqliteType(t))
    PROVE  LET is == Affine(t, SqliteEncoded(g)).is
               type == SqliteType(t)
           IN  \/ type \in {"Int64", "Boolean"} /\ is = "int"
               \/ type = "Float64" /\ is = "real"
               \/ type = "Binary" /\ is = "blob"
               \/ type = "Utf8" /\ is \in {"text", "int", "real"}
<1> DEFINE held == Affine(t, SqliteEncoded(g))
<1>1. CASE t \in {"rowid", "INT"} /\ SqliteType(t) = "Int64"
  <2>1. g = Val("int", g.v) /\ g.v \in Number /\ g.v % 2 = 0
    BY <1>1, Shapes, Written DEF Given
  <2>2. held = g
    BY <1>1, <2>1, AffineNumbers DEF SqliteEncoded
  <2> QED
    BY <1>1, <2>1, <2>2
<1>2. CASE t = "REAL" /\ SqliteType(t) = "Float64"
  <2>1. g = Val("real", g.v) /\ g.v \in Number
    BY <1>2, Shapes, Written DEF Given
  <2>2. held = g
    BY <1>2, <2>1, AffineNumbers DEF SqliteEncoded
  <2> QED
    BY <1>2, <2>1, <2>2
<1>3. CASE t \in {"untyped", "BLOB"} /\ SqliteType(t) = "Binary"
  <2>1. g = Val("blob", g.v)
    BY <1>3, Shapes, Written DEF Given
  <2>2. held = g
    BY <2>1, AffineOthers DEF SqliteEncoded
  <2> QED
    BY <1>3, <2>1, <2>2
<1>4. CASE t = "BOOL" /\ SqliteType(t) = "Boolean"
  <2>1. g = Val("bool", g.v) /\ g.v \in {0, 2}
    BY <1>4, Shapes, Written DEF Given
  <2>2. SqliteEncoded(g) = Val("int", g.v)
    BY <2>1 DEF SqliteEncoded
  <2>3. held = Val("int", g.v)
    BY <1>4, <2>1, <2>2, AffineNumbers
  <2> QED
    BY <1>4, <2>3
<1>5. CASE t \in {"fts", "TEXT", "DATE"} /\ SqliteType(t) = "Utf8"
  <2> DEFINE n == IF g.v \in DOMAIN Reads THEN Reads[g.v] ELSE g.v
  <2>1. g \in AllTexts /\ g.is = "text"
    BY <1>5, Shapes DEF Given
  <2>2. SqliteEncoded(g) = g
    BY <2>1 DEF SqliteEncoded
  <2>3. held = g \/ (t = "DATE" /\ \E c \in {"int", "real"} : held = Val(c, n))
    BY <1>5, <2>1, <2>2, AffineTexts
  <2> HIDE DEF n
  <2> QED
    BY <1>5, <2>1, <2>3
<1> QED
  BY <1>1, <1>2, <1>3, <1>4, <1>5, SqliteTypes

\* A value of another client in SQLite: shown as it is, as NULL if it is of a class that no value
\* INSERTed here has, or as TRUE.
LEMMA SqliteHeld ==
    ASSUME NEW t \in Types("sqlite"), NEW x \in SqliteHolds(t)
    PROVE  LET type == SqliteType(t)
               y == SqliteShows(type, x)
           IN  /\ x \notin {Nil, Missing}
               /\ \/ y # Nil /\ y.v = x.v
                  \/ y = Nil /\ SqliteEncoded(x) \notin {Affine(t, SqliteEncoded(g)) : g \in Given(type)}
                  \/ type = "Boolean" /\ y = Val("bool", 2)
<1> DEFINE type == SqliteType(t)
           y == SqliteShows(type, x)
<1>1. x.is \in {"int", "real", "text", "blob"} /\ x = Val(x.is, x.v)
  BY SqliteKinds
<1>2. SqliteEncoded(x) = x /\ x # Nil /\ x # Missing
  BY <1>1 DEF SqliteEncoded
<1>3. type \in {"Int64", "Float64", "Binary", "Boolean", "Utf8"}
  BY SqliteTypes
<1> DEFINE Fits1 == \/ type \in {"Int64", "Boolean"} /\ x.is = "int"
                    \/ type = "Float64" /\ x.is \in {"int", "real"}
                    \/ type = "Binary" /\ x.is = "blob"
                    \/ type = "Utf8" /\ x.is \in {"text", "int", "real"}
<1>4. CASE Fits1
  <2> HIDE DEF type
  <2>1. \/ y # Nil /\ y.v = x.v
        \/ type = "Boolean" /\ y = Val("bool", 2)
    BY <1>1, <1>4 DEF SqliteShows
  <2> QED
    BY <1>2, <2>1 DEF type
<1>5. CASE ~Fits1
  <2>1. y = Nil
    <3> HIDE DEF type
    <3> QED
      BY <1>1, <1>3, <1>5 DEF SqliteShows
  <2>2. \A g \in Given(type) : Affine(t, SqliteEncoded(g)) # x
    BY <1>5, SqliteClasses
  <2>3. SqliteEncoded(x) \notin {Affine(t, SqliteEncoded(g)) : g \in Given(type)}
    <3> HIDE DEF type
    <3> QED
      BY <1>2, <2>2
  <2> QED
    BY <1>2, <2>1, <2>3
<1> QED
  BY <1>4, <1>5

-----------------------------------------------------------------------------
(* Mongo, Redis and llm_extract.                                            *)

MongoTypes == {"Int32", "Int64", "Float64", "Boolean", "Utf8"}

\* A value INSERTed into Mongo is shown as it was given.
LEMMA MongoGiven ==
    ASSUME NEW type \in MongoTypes, NEW x \in Given(type)
    PROVE  /\ x \notin {Nil, Missing}
           /\ MongoShows(type, MongoEncoded(type, x)) # Nil
           /\ MongoShows(type, MongoEncoded(type, x)).v = x.v
<1> DEFINE held == MongoEncoded(type, x)
           y == MongoShows(type, held)
<1>1. \/ type \in {"Int32", "Int64"} /\ x = Val("int", x.v)
      \/ type = "Float64" /\ x = Val("real", x.v)
      \/ type = "Boolean" /\ x = Val("bool", x.v)
      \/ type = "Utf8" /\ x = Val("text", x.v)
  BY Shapes, Written DEF MongoTypes, Given
<1>2. x # Nil /\ x # Missing
  BY <1>1
<1>3. held = IF type = "Int32" THEN Val("int32", x.v) ELSE x
  BY <1>2 DEF MongoEncoded
<1>4. held # Missing /\ held # Nil
  BY <1>1, <1>3
<1>5. y = x
  <2> HIDE DEF held
  <2> QED
    BY <1>1, <1>3, <1>4 DEF MongoShows, Numeric
<1> QED
  BY <1>2, <1>5

LEMMA MongoNull ==
    ASSUME NEW type
    PROVE  MongoShows(type, MongoEncoded(type, Nil)) = Nil
<1>1. MongoEncoded(type, Nil) = Missing
  BY DEF MongoEncoded
<1> QED
  BY <1>1 DEF MongoShows, Numeric

\* A value of another client in Mongo.
LEMMA MongoHeld ==
    ASSUME NEW type \in MongoTypes,
           NEW x \in Ints32 \cup Ints \cup Reals \cup Bools \cup AllTexts \cup Dates \cup {Nil, Missing}
    PROVE  LET y == MongoShows(type, x)
           IN  \/ y # Nil /\ x \notin {Nil, Missing} /\ y.v = x.v
               \/ y = Nil /\ x \in {Nil, Missing}
               \/ x \in {Nil, Missing} /\ y.v = Blank
               \/ y = Nil /\ x \notin {MongoEncoded(type, g) : g \in Given(type)}
               \/ type \in {"Int32", "Int64"} /\ x.is \in Numeric
<1> DEFINE y == MongoShows(type, x)
<1>1. CASE x = Missing
  BY <1>1 DEF MongoShows, Numeric
<1>2. CASE x = Nil
  <2>1. CASE type = "Utf8"
    <3>1. y = Val("text", Blank)
      BY <1>2, <2>1 DEF MongoShows
    <3> QED
      BY <1>2, <3>1
  <2>2. CASE type # "Utf8"
    <3>1. y = Nil
      BY <1>2, <2>2 DEF MongoShows, MongoTypes, Numeric
    <3> QED
      BY <1>2, <3>1
  <2> QED
    BY <2>1, <2>2
<1>3. CASE x \notin {Nil, Missing}
  <2>1. x = Val(x.is, x.v) /\ x.is \in {"int32", "int", "real", "bool", "text", "date"}
    BY <1>3, Shapes, Written
  <2>2. CASE type = "Utf8"
    <3>1. y = Val("text", x.v)
      BY <1>3, <2>2 DEF MongoShows
    <3> QED
      BY <1>3, <3>1
  <2>3. CASE type = "Float64" /\ x.is \in Numeric
    <3>1. y = Val("real", x.v)
      BY <1>3, <2>3 DEF MongoShows
    <3> QED
      BY <1>3, <3>1
  <2>4. CASE type = "Boolean" /\ x.is = "bool"
    <3>1. y = x
      BY <1>3, <2>4 DEF MongoShows
    <3> QED
      BY <1>3, <3>1
  <2>5. CASE type \in {"Int32", "Int64"} /\ x.is \in Numeric
    BY <2>5
  <2>6. CASE \/ type = "Boolean" /\ x.is # "bool"
             \/ type \in {"Int32", "Int64", "Float64"} /\ x.is \notin Numeric
    <3>1. y = Nil
      BY <1>3, <2>1, <2>6 DEF MongoShows, Numeric
    <3>2. ASSUME NEW g \in Given(type) PROVE MongoEncoded(type, g) # x
      <4>1. g \notin {Nil, Missing} /\ g = Val(g.is, g.v)
        BY <2>6, Written DEF Given
      <4>2. \/ type \in {"Int32", "Int64"} /\ g.is = "int"
            \/ type = "Float64" /\ g.is = "real"
            \/ type = "Boolean" /\ g.is = "bool"
        BY <2>6, Shapes DEF Given
      <4>3. MongoEncoded(type, g) = IF type = "Int32" THEN Val("int32", g.v) ELSE g
        BY <4>1 DEF MongoEncoded
      <4> QED
        BY <2>6, <4>2, <4>3 DEF Numeric
    <3> QED
      BY <3>1, <3>2
  <2> QED
    BY <2>2, <2>3, <2>4, <2>5, <2>6 DEF MongoTypes
<1> QED
  BY <1>1, <1>2, <1>3

\* What a language model answers for a property.
LEMMA LlmHeld ==
    ASSUME NEW type \in {"Float64", "Int64", "Boolean", "Utf8"},
           NEW x \in Ints \cup Reals \cup Bools \cup AllTexts \cup {Nil, Missing}
    PROVE  LET y == LlmShows(type, x)
           IN  \/ y # Nil /\ x \notin {Nil, Missing} /\ y.v = x.v
               \/ y = Nil /\ x \in {Nil, Missing}
               \/ y = Nil /\ x \notin Given(type) \cup (IF type = "Float64" THEN Ints ELSE {})
<1> DEFINE y == LlmShows(type, x)
<1>1. CASE x \in {Nil, Missing}
  <2>1. y = Nil
    BY <1>1 DEF LlmShows, Numeric
  <2> QED
    BY <1>1, <2>1
<1>2. CASE x \notin {Nil, Missing}
  <2>1. x = Val(x.is, x.v) /\ x.is \in {"int", "real", "bool", "text"}
    BY <1>2, Shapes, Written
  <2> DEFINE Fits1 == \/ type = "Utf8"
                      \/ type = "Float64" /\ x.is \in Numeric
                      \/ type = "Int64" /\ x.is = "int"
                      \/ type = "Boolean" /\ x.is = "bool"
  <2>2. CASE Fits1
    <3>1. y # Nil /\ y.v = x.v
      BY <1>2, <2>1, <2>2 DEF LlmShows, Numeric
    <3> QED
      BY <1>2, <3>1
  <2>3. CASE ~Fits1
    <3>1. y = Nil
      BY <1>2, <2>1, <2>3 DEF LlmShows, Numeric
    <3>2. x \notin Given(type) \cup (IF type = "Float64" THEN Ints ELSE {})
      BY <2>3, Shapes DEF Given, Numeric
    <3> QED
      BY <3>1, <3>2
  <2> QED
    BY <2>2, <2>3
<1> QED
  BY <1>1, <1>2

-----------------------------------------------------------------------------
(* The invariant of a column: what is registered of it comes from its        *)
(* declaration, what a cell holds from whoever wrote it.                     *)

ColumnOK ==
    /\ column = [at |-> column.at, type |-> column.type, required |-> column.required]
    /\ column.at \in Everywhere /\ column.type \in Types(column.at) /\ column.required \in BOOLEAN

SchemaOK ==
    \/ schema = Unread
    \/ At("sqlite") /\ schema = [type |-> SqliteType(column.type), nullable |-> ~column.required]
    \/ At("mongo") /\ schema.type \in MongoTypes /\ schema.nullable \in BOOLEAN
    \/ (At("mongo") \/ At("redis")) /\ schema \in {KeyOnly, Hidden}
    \/ At("redis") /\ schema = Typed("Utf8")
    \/ At("postgres") /\ schema = Typed(PostgresType(column.type))
    \/ At("seekdb") /\ schema = Typed(SeekDbType(column.type))
    \/ At("llm") /\ schema = Typed(PropertyType(column.type))

CellOK(c) ==
    /\ c = Gap \/ c.by \in {"client", "skardi"}
    /\ c.by = "client" => c.given = c.held /\ c.held \in Admitted(column)
    /\ c.by = "skardi" =>
          /\ ~At("llm") /\ Given(schema.type) # {}
          /\ c.given \in Given(schema.type) \cup (IF schema.nullable THEN {Nil} ELSE {})
          /\ c.held \in Held(c.given)

ColumnsInv ==
    /\ ColumnOK /\ SchemaOK
    /\ cells = [s \in Slot |-> cells[s]] /\ \A s \in Slot : CellOK(cells[s])
    /\ answer.how # "none" => Given(schema.type) # {}
    /\ RowsShowWhatWasWritten

\* Columns that are not read yet, or not found, take no values.
LEMMA NothingGiven ==
    Given("unread") = {} /\ Given("key only") = {} /\ Given("hidden") = {}
BY DEF Given

LEMMA SchemaIsRead ==
    ASSUME Given(schema.type) # {}
    PROVE  schema # Unread /\ schema # KeyOnly /\ schema # Hidden
<1>1. schema.type \notin {"unread", "key only", "hidden"}
  <2>1. schema.type # "unread"
    BY NothingGiven
  <2>2. schema.type # "key only"
    BY NothingGiven
  <2>3. schema.type # "hidden"
    BY NothingGiven
  <2> QED
    BY <2>1, <2>2, <2>3
<1>2. Unread.type = "unread" /\ KeyOnly.type = "key only" /\ Hidden.type = "hidden"
  BY DEF Unread, KeyOnly, Hidden
<1> QED
  BY <1>1, <1>2

LEMMA GivenIsWritten ==
    ASSUME NEW type, NEW x \in Given(type)
    PROVE  x \in Ints \cup Reals \cup AllTexts \cup Bools \cup Blobs \cup Dates
BY DEF Given

\* A row INSERTed here is shown by a scan, and as it was given.
LEMMA ScanShowsGiven ==
    ASSUME ColumnOK, SchemaOK, NEW c, CellOK(c), c.by = "skardi",
           NEW y, y = Shown(c.held)
    PROVE  /\ \/ Keeps(y, c.given)
              \/ At("redis") /\ c.given = Nil /\ y.v = Blank
              \/ At("sqlite") /\ column.type = "DATE" /\ c.given.v \in DOMAIN Reads
                    /\ y.v = Reads[c.given.v]
              \/ At("postgres") /\ column.type = "serial" /\ Keeps(y, c.held)
           /\ ~schema.nullable => y # Nil
<1> DEFINE x == c.given
           held == c.held
<1>1. /\ ~At("llm") /\ Given(schema.type) # {}
      /\ x \in Given(schema.type) \cup (IF schema.nullable THEN {Nil} ELSE {})
      /\ held \in Held(x)
  BY DEF CellOK
<1>2. schema # Unread /\ schema # KeyOnly /\ schema # Hidden
  BY <1>1, SchemaIsRead
<1>3. x \in Given(schema.type) => x \notin {Nil, Missing}
  BY GivenIsWritten, Written
<1>4. CASE At("sqlite")
  <2>1. schema.type = SqliteType(column.type) /\ column.type \in Types("sqlite")
    BY <1>2, <1>4 DEF SchemaOK, ColumnOK, At
  <2>2. held = Affine(column.type, SqliteEncoded(x))
    BY <1>1, <1>4 DEF Held, At
  <2>3. y = SqliteShows(SqliteType(column.type), held)
    BY <1>4, <2>1 DEF Shown, At
  <2>4. CASE x \in Given(schema.type)
    <3> HIDE DEF x, held
    <3>1. y # Nil /\ x \notin {Nil, Missing}
          /\ (y.v = x.v \/ (column.type = "DATE" /\ x.v \in DOMAIN Reads /\ y.v = Reads[x.v]))
      BY <2>1, <2>2, <2>3, <2>4, SqliteGiven
    <3> QED
      BY <1>4, <3>1 DEF Keeps, x
  <2>5. CASE x \notin Given(schema.type)
    <3>1. x = Nil /\ schema.nullable
      BY <1>1, <2>5
    <3>2. y = Nil
      BY <2>1, <2>2, <2>3, <3>1, SqliteNull
    <3> QED
      BY <3>1, <3>2 DEF Keeps
  <2> QED
    BY <2>4, <2>5
<1>5. CASE At("mongo")
  <2>1. schema.type \in MongoTypes
    BY <1>2, <1>5 DEF SchemaOK, At
  <2>2. held = MongoEncoded(schema.type, x)
    BY <1>1, <1>5 DEF Held, At
  <2>3. y = MongoShows(schema.type, held)
    BY <1>5 DEF Shown, At
  <2>4. CASE x \in Given(schema.type)
    <3> HIDE DEF x, held
    <3>1. y # Nil /\ x \notin {Nil, Missing} /\ y.v = x.v
      BY <2>1, <2>2, <2>3, <2>4, MongoGiven
    <3> QED
      BY <3>1 DEF Keeps, x
  <2>5. CASE x \notin Given(schema.type)
    <3>1. x = Nil /\ schema.nullable
      BY <1>1, <2>5
    <3>2. y = Nil
      BY <2>2, <2>3, <3>1, MongoNull
    <3> QED
      BY <3>1, <3>2 DEF Keeps
  <2> QED
    BY <2>4, <2>5
<1>6. CASE At("redis")
  <2>1. schema = Typed("Utf8")
    BY <1>2, <1>6 DEF SchemaOK, At
  <2>2. held = RedisEncoded(x)
    BY <1>1, <1>6 DEF Held, At
  <2>3. y = RedisShows(held)
    BY <1>6 DEF Shown, At
  <2>4. held # Missing /\ held # Nil
    BY <2>2 DEF RedisEncoded
  <2>5. y = Val("text", IF x = Nil THEN Blank ELSE x.v)
    BY <2>2, <2>3, <2>4 DEF RedisShows, RedisEncoded
  <2>6. CASE x = Nil
    <3>1. y.v = Blank
      BY <2>5, <2>6
    <3> QED
      BY <1>6, <2>1, <2>6, <3>1 DEF Typed
  <2>7. CASE x # Nil
    <3>1. x \notin {Nil, Missing}
      BY <1>1, <1>3, <2>7
    <3>2. y.v = x.v /\ y # Nil
      BY <2>5, <2>7
    <3> QED
      BY <3>1, <3>2 DEF Keeps
  <2> QED
    BY <2>6, <2>7
<1>7. CASE At("postgres")
  <2>1. schema.nullable
    BY <1>2, <1>7 DEF SchemaOK, At, Typed
  <2>2. y = held
    BY <1>7 DEF Shown, At
  <2>3. x # Missing
    BY <1>1, <1>3
  <2>4. CASE column.type = "serial"
    <3>1. held \in Ints
      BY <1>1, <1>7, <2>4 DEF Held, At, PostgresStores
    <3>2. held # Missing
      BY <3>1, Written
    <3> QED
      BY <1>7, <2>1, <2>2, <2>4, <3>2 DEF Keeps
  <2>5. CASE column.type # "serial"
    <3>1. held = x
      BY <1>1, <1>7, <2>5 DEF Held, At, PostgresStores
    <3> QED
      BY <2>1, <2>2, <2>3, <3>1 DEF Keeps
  <2> QED
    BY <2>4, <2>5
<1>8. CASE At("seekdb")
  <2>1. schema.nullable
    BY <1>2, <1>8 DEF SchemaOK, At, Typed
  <2>2. y = held
    BY <1>8 DEF Shown, At
  <2>3. x # Missing
    BY <1>1, <1>3
  <2>4. held = x
    BY <1>1, <1>8 DEF Held, At
  <2> QED
    BY <2>1, <2>2, <2>3, <2>4 DEF Keeps
<1> QED
  BY <1>1, <1>4, <1>5, <1>6, <1>7, <1>8 DEF ColumnOK, At, Everywhere

\* A row of another client, as a scan shows it.
LEMMA ScanShowsHeld ==
    ASSUME ColumnOK, SchemaOK, Given(schema.type) # {}, NEW x \in Admitted(column),
           NEW y, y = Shown(x)
    PROVE  \/ Keeps(y, x)
           \/ NoValue(x) /\ y.v = Blank /\ (At("redis") \/ At("mongo"))
           \/ y = Nil /\ \/ At("sqlite") /\ SqliteEncoded(x) \notin {Affine(column.type, SqliteEncoded(g)) :
                                                                     g \in Given(schema.type)}
                         \/ At("mongo") /\ x \notin {MongoEncoded(schema.type, g) : g \in Given(schema.type)}
                         \/ At("llm") /\ x \notin Given(schema.type)
                               \cup (IF schema.type = "Float64" THEN Ints ELSE {})
           \/ At("sqlite") /\ schema.type = "Boolean" /\ y = Val("bool", 2)
           \/ At("mongo") /\ schema.type \in {"Int32", "Int64"} /\ x.is \in Numeric
<1>1. schema # Unread /\ schema # KeyOnly /\ schema # Hidden
  BY SchemaIsRead
<1>2. CASE At("sqlite")
  <2>1. schema.type = SqliteType(column.type) /\ column.type \in Types("sqlite")
    BY <1>1, <1>2 DEF SchemaOK, ColumnOK, At
  <2>2. y = SqliteShows(SqliteType(column.type), x)
    BY <1>2, <2>1 DEF Shown, At
  <2>3. x \in SqliteHolds(column.type) \/ x = Nil
    BY <1>2 DEF Admitted, SqliteHolds, At
  <2>4. CASE x = Nil
    <3>1. y = Nil
      BY <2>2, <2>4 DEF SqliteShows
    <3> QED
      BY <2>4, <3>1 DEF Keeps
  <2>5. CASE x \in SqliteHolds(column.type)
    <3>1. /\ x \notin {Nil, Missing}
          /\ \/ y # Nil /\ y.v = x.v
             \/ y = Nil /\ SqliteEncoded(x) \notin {Affine(column.type, SqliteEncoded(g)) :
                                                    g \in Given(schema.type)}
             \/ schema.type = "Boolean" /\ y = Val("bool", 2)
      BY <2>1, <2>2, <2>5, SqliteHeld
    <3> QED
      BY <1>2, <3>1 DEF Keeps
  <2> QED
    BY <2>3, <2>4, <2>5
<1>3. CASE At("mongo")
  <2>1. schema.type \in MongoTypes
    BY <1>1, <1>3 DEF SchemaOK, At
  <2>2. y = MongoShows(schema.type, x)
    BY <1>3 DEF Shown, At
  <2>3. x \in Ints32 \cup Ints \cup Reals \cup Bools \cup AllTexts \cup Dates \cup {Nil, Missing}
    <3>1. column.type \in Types("mongo")
      BY <1>3 DEF ColumnOK, At
    <3> QED
      BY <1>3, <3>1 DEF Admitted, At, Types
  <2>4. \/ y # Nil /\ x \notin {Nil, Missing} /\ y.v = x.v
        \/ y = Nil /\ x \in {Nil, Missing}
        \/ x \in {Nil, Missing} /\ y.v = Blank
        \/ y = Nil /\ x \notin {MongoEncoded(schema.type, g) : g \in Given(schema.type)}
        \/ schema.type \in {"Int32", "Int64"} /\ x.is \in Numeric
    BY <2>1, <2>2, <2>3, MongoHeld
  <2> QED
    BY <1>3, <2>4 DEF Keeps, NoValue
<1>4. CASE At("redis")
  <2>1. x \in AllTexts \cup {Missing} /\ y = RedisShows(x)
    BY <1>4 DEF Admitted, Shown, At
  <2>2. CASE x = Missing
    <3>1. y.v = Blank
      BY <2>1, <2>2 DEF RedisShows
    <3> QED
      BY <1>4, <2>2, <3>1 DEF NoValue
  <2>3. CASE x # Missing
    BY <2>1, <2>3 DEF RedisShows, Keeps
  <2> QED
    BY <2>2, <2>3
<1>5. CASE At("postgres") \/ At("seekdb")
  <2>1. y = x
    BY <1>5 DEF Shown, At
  <2>2. x # Missing
    <3>1. x \in Dates \cup Given(PostgresType(column.type)) \cup Given(SeekDbType(column.type)) \cup {Nil}
      BY <1>5 DEF Admitted, At
    <3> QED
      BY <3>1, Written, GivenIsWritten
  <2> QED
    BY <2>1, <2>2 DEF Keeps
<1>6. CASE At("llm")
  <2>1. schema.type = PropertyType(column.type) /\ column.type \in Types("llm")
    BY <1>1, <1>6 DEF SchemaOK, ColumnOK, At, Typed
  <2>2. schema.type \in {"Float64", "Int64", "Boolean", "Utf8"}
    BY <2>1 DEF PropertyType, Types
  <2>3. x \in Ints \cup Reals \cup Bools \cup AllTexts \cup {Nil, Missing} /\ y = LlmShows(schema.type, x)
    BY <1>6 DEF Admitted, Shown, At
  <2>4. \/ y # Nil /\ x \notin {Nil, Missing} /\ y.v = x.v
        \/ y = Nil /\ x \in {Nil, Missing}
        \/ y = Nil /\ x \notin Given(schema.type) \cup (IF schema.type = "Float64" THEN Ints ELSE {})
    BY <2>2, <2>3, LlmHeld
  <2> QED
    BY <1>6, <2>4 DEF Keeps
<1> QED
  BY <1>2, <1>3, <1>4, <1>5, <1>6 DEF ColumnOK, At, Everywhere

\* A search shows what a scan shows, but for dates at Postgres.
LEMMA SearchShows ==
    ASSUME ColumnOK, SchemaOK, NEW c, CellOK(c), c # Gap, Given(schema.type) # {},
           At("postgres") \/ At("seekdb"),
           NEW y, y = IF At("postgres") THEN PostgresSearches(column.type, c.held) ELSE c.held
    PROVE  /\ c.by = "skardi" =>
                 \/ Keeps(y, c.given)
                 \/ At("postgres") /\ column.type = "serial" /\ Keeps(y, c.held)
                 \/ At("postgres") /\ column.type = "other" /\ y = Nil
           /\ c.by = "client" =>
                 \/ Keeps(y, c.held)
                 \/ At("postgres") /\ column.type = "other" /\ y = Nil
<1>1. CASE At("postgres") /\ column.type = "other"
  <2>1. y = Nil
    BY <1>1 DEF PostgresSearches
  <2> QED
    BY <1>1, <2>1
<1>2. CASE ~(At("postgres") /\ column.type = "other")
  <2>1. y = c.held /\ y = Shown(c.held)
    BY <1>2 DEF PostgresSearches, Shown, At
  <2>2. c.by = "skardi" => Keeps(y, c.given) \/ (At("postgres") /\ column.type = "serial" /\ Keeps(y, c.held))
    BY <2>1, ScanShowsGiven DEF At
  <2>3. ASSUME c.by = "client" PROVE Keeps(y, c.held)
    <3>1. c.held \in Admitted(column)
      BY <2>3 DEF CellOK
    <3>2. c.held # Missing
      <4>1. c.held \in Dates \cup Given(PostgresType(column.type)) \cup Given(SeekDbType(column.type)) \cup {Nil}
        BY <3>1 DEF Admitted, At
      <4> QED
        BY <4>1, Written, GivenIsWritten
    <3> QED
      BY <2>1, <3>2 DEF Keeps
  <2> QED
    BY <2>2, <2>3
<1> QED
  BY <1>1, <1>2

\* What an answer promises of the rows, for any column, schema and cells.
OkAnswer ==
    answer.how # "none" /\ answer.ok =>
        \A s \in Occupied : IF cells[s].by = "skardi" THEN GivenIsShown(s) ELSE HeldIsShown(s)

FailedAnswer ==
    answer.how # "none" /\ ~answer.ok =>
        \/ answer.how = "scan" /\ ~schema.nullable /\ \E s \in Occupied : cells[s].by = "client"
        \/ answer.how = "search" /\ At("postgres") /\ column.type = "smallint"
        \/ answer.how = "search" /\ At("seekdb") /\ column.type \in {"smallint", "blob", "date"}

LEMMA ColumnsScan ==
    ASSUME ColumnsInv, Scan PROVE RowsShowWhatWasWritten'
<1> DEFINE shown == [s \in Slot |-> Shown(cells[s].held)]
           ok == schema.nullable \/ \A s \in Occupied : shown[s] # Nil
<1>1. Given(schema.type) # {} /\ UNCHANGED <<column, schema, cells>>
      /\ answer' = [how |-> "scan", ok |-> ok,
                    shown |-> [s \in Slot |-> IF ok /\ s \in Occupied THEN shown[s] ELSE Nil]]
  BY DEF Scan, Answer
<1>2. answer'.how = "scan" /\ answer'.ok = ok
  BY <1>1
<1>3. Occupied' = Occupied /\ Occupied \subseteq Slot
  BY <1>1 DEF Occupied
<1>4. ColumnOK /\ SchemaOK /\ \A s \in Slot : CellOK(cells[s])
  BY DEF ColumnsInv
<1>5. ASSUME NEW s \in Occupied, ok
      PROVE  IF cells[s].by = "skardi" THEN GivenIsShown(s)' ELSE HeldIsShown(s)'
  <2>1. CellOK(cells[s]) /\ cells[s] # Gap /\ s \in Slot
    BY <1>3, <1>4 DEF Occupied
  <2>2. answer'.shown[s] = Shown(cells[s].held)
    BY <1>1, <1>5, <2>1
  <2>3. CASE cells[s].by = "skardi"
    <3> DEFINE y == Shown(cells[s].held)
    <3>1. \/ Keeps(y, cells[s].given)
          \/ At("redis") /\ cells[s].given = Nil /\ y.v = Blank
          \/ At("sqlite") /\ column.type = "DATE" /\ cells[s].given.v \in DOMAIN Reads
                /\ y.v = Reads[cells[s].given.v]
          \/ At("postgres") /\ column.type = "serial" /\ Keeps(y, cells[s].held)
      BY <1>4, <2>1, <2>3, ScanShowsGiven
    <3> HIDE DEF y
    <3>2. answer'.shown[s] = y
      BY <2>2 DEF y
    <3>3. GivenIsShown(s)'
      BY <1>1, <3>1, <3>2 DEF GivenIsShown, Keeps, At
    <3> QED
      BY <2>3, <3>3
  <2>4. CASE cells[s].by # "skardi"
    <3> DEFINE y == Shown(cells[s].held)
               x == cells[s].held
    <3>1. x \in Admitted(column)
      BY <2>1, <2>4 DEF CellOK
    <3>2. \/ Keeps(y, x)
          \/ NoValue(x) /\ y.v = Blank /\ (At("redis") \/ At("mongo"))
          \/ y = Nil /\ \/ At("sqlite") /\ SqliteEncoded(x) \notin {Affine(column.type, SqliteEncoded(g)) :
                                                                    g \in Given(schema.type)}
                        \/ At("mongo") /\ x \notin {MongoEncoded(schema.type, g) : g \in Given(schema.type)}
                        \/ At("llm") /\ x \notin Given(schema.type)
                              \cup (IF schema.type = "Float64" THEN Ints ELSE {})
          \/ At("sqlite") /\ schema.type = "Boolean" /\ y = Val("bool", 2)
          \/ At("mongo") /\ schema.type \in {"Int32", "Int64"} /\ x.is \in Numeric
      BY <1>1, <1>4, <3>1, ScanShowsHeld
    <3> HIDE DEF y
    <3>3. answer'.shown[s] = y
      BY <2>2 DEF y
    <3>4. HeldIsShown(s)'
      BY <1>1, <3>2, <3>3 DEF HeldIsShown, Keeps, NoValue, At
    <3> QED
      BY <2>4, <3>4
  <2> QED
    BY <2>3, <2>4
<1>6. ASSUME ~ok PROVE ~schema.nullable /\ \E s \in Occupied : cells[s].by = "client"
  <2>1. PICK s \in Occupied : shown[s] = Nil
    BY <1>6
  <2>2. CellOK(cells[s]) /\ cells[s] # Gap /\ s \in Slot
    BY <1>3, <1>4 DEF Occupied
  <2>3. Shown(cells[s].held) = Nil
    BY <2>1, <2>2
  <2>4. ~schema.nullable
    BY <1>6
  <2>5. cells[s].by # "skardi"
    BY <1>4, <2>2, <2>3, <2>4, ScanShowsGiven
  <2> QED
    BY <2>2, <2>4, <2>5 DEF CellOK
<1> HIDE DEF ok, shown
<1>7. OkAnswer'
  BY <1>1, <1>2, <1>3, <1>5 DEF OkAnswer
<1>8. FailedAnswer'
  BY <1>1, <1>2, <1>3, <1>6 DEF FailedAnswer
<1> QED
  BY <1>7, <1>8 DEF RowsShowWhatWasWritten, OkAnswer, FailedAnswer

LEMMA ColumnsSearch ==
    ASSUME ColumnsInv, SearchRows PROVE RowsShowWhatWasWritten'
<1> DEFINE decodes == IF At("postgres") THEN \A s \in Occupied : PostgresDecodes(column.type, cells[s].held)
                      ELSE schema.type \in Decodable
           value(s) == IF At("postgres") THEN PostgresSearches(column.type, cells[s].held)
                       ELSE cells[s].held
           ok == answer'.ok
<1>1. Given(schema.type) # {} /\ (At("postgres") \/ At("seekdb")) /\ UNCHANGED <<column, schema, cells>>
  BY DEF SearchRows, Answer
<1>2. answer'.how = "search" /\ answer'.ok = decodes
      /\ \A s \in Occupied : answer'.ok => answer'.shown[s] = value(s)
  <2>1. CASE At("postgres")
    <3> DEFINE shown == [s \in Slot |-> PostgresSearches(column.type, cells[s].held)]
    <3>1. Answer("search", decodes, shown)
      BY <2>1 DEF SearchRows, At
    <3>2. \A s \in Occupied : s \in Slot /\ shown[s] = value(s)
      BY <2>1 DEF Occupied
    <3> HIDE DEF shown, decodes, value
    <3> QED
      BY <3>1, <3>2 DEF Answer
  <2>2. CASE At("seekdb")
    <3> DEFINE shown == [s \in Slot |-> cells[s].held]
    <3>1. Answer("search", decodes, shown)
      BY <2>2 DEF SearchRows, At
    <3>2. \A s \in Occupied : s \in Slot /\ shown[s] = value(s)
      BY <2>2 DEF Occupied, At
    <3> HIDE DEF shown, decodes, value
    <3> QED
      BY <3>1, <3>2 DEF Answer
  <2> QED
    BY <1>1, <2>1, <2>2
<1>3. Occupied' = Occupied /\ Occupied \subseteq Slot
  BY <1>1 DEF Occupied
<1>4. ColumnOK /\ SchemaOK /\ \A s \in Slot : CellOK(cells[s])
  BY DEF ColumnsInv
<1>5. ASSUME NEW s \in Occupied, answer'.ok
      PROVE  IF cells[s].by = "skardi" THEN GivenIsShown(s)' ELSE HeldIsShown(s)'
  <2>1. CellOK(cells[s]) /\ cells[s] # Gap
    BY <1>3, <1>4 DEF Occupied
  <2>2. answer'.shown[s] = value(s)
    BY <1>2, <1>5
  <2>3. /\ cells[s].by = "skardi" =>
              \/ Keeps(value(s), cells[s].given)
              \/ At("postgres") /\ column.type = "serial" /\ Keeps(value(s), cells[s].held)
              \/ At("postgres") /\ column.type = "other" /\ value(s) = Nil
        /\ cells[s].by = "client" =>
              \/ Keeps(value(s), cells[s].held)
              \/ At("postgres") /\ column.type = "other" /\ value(s) = Nil
    BY <1>1, <1>4, <2>1, SearchShows
  <2> HIDE DEF value, decodes
  <2>4. CASE cells[s].by = "skardi"
    <3>1. GivenIsShown(s)'
      BY <1>1, <1>2, <2>2, <2>3, <2>4 DEF GivenIsShown, Keeps, At
    <3> QED
      BY <2>4, <3>1
  <2>5. CASE cells[s].by # "skardi"
    <3>1. cells[s].by = "client"
      BY <2>1, <2>5 DEF CellOK
    <3>2. HeldIsShown(s)'
      BY <1>1, <1>2, <2>2, <2>3, <3>1 DEF HeldIsShown, Keeps, At
    <3> QED
      BY <2>5, <3>2
  <2> QED
    BY <2>4, <2>5
<1>6. ASSUME ~answer'.ok
      PROVE  \/ At("postgres") /\ column.type = "smallint"
             \/ At("seekdb") /\ column.type \in {"smallint", "blob", "date"}
  <2>1. CASE At("postgres")
    BY <1>2, <1>6, <2>1 DEF PostgresDecodes
  <2>2. CASE At("seekdb")
    <3>1. schema.type \notin Decodable
      BY <1>2, <1>6, <2>2 DEF At
    <3>2. schema = Typed(SeekDbType(column.type)) /\ column.type \in Types("seekdb")
      BY <1>1, <1>4, <2>2, SchemaIsRead DEF SchemaOK, ColumnOK, At
    <3>3. SeekDbType(column.type) \notin Decodable /\ SeekDbType(column.type) # "hidden"
      BY <1>1, <3>1, <3>2, NothingGiven DEF Typed
    <3>4. column.type \in {"smallint", "blob", "date"}
      BY <3>2, <3>3 DEF SeekDbType, Types, Decodable
    <3> QED
      BY <2>2, <3>4
  <2> QED
    BY <1>1, <2>1, <2>2
<1> HIDE DEF value, decodes
<1>7. OkAnswer'
  BY <1>1, <1>2, <1>3, <1>5 DEF OkAnswer
<1>8. FailedAnswer'
  BY <1>1, <1>2, <1>6 DEF FailedAnswer, At
<1> QED
  BY <1>7, <1>8 DEF RowsShowWhatWasWritten, OkAnswer, FailedAnswer

LEMMA NoAnswerHolds ==
    ASSUME answer' = NoAnswer
    PROVE  answer'.how = "none" /\ RowsShowWhatWasWritten'
BY DEF NoAnswer, RowsShowWhatWasWritten

\* A cell that a step leaves alone, if the column and the schema it was written under do not change.
LEMMA CellStays ==
    ASSUME NEW c, CellOK(c), UNCHANGED <<column, schema>>
    PROVE  CellOK(c)'
BY DEF CellOK, Held, At

\* Reading the schema: no row was INSERTed before.
LEMMA SchemaRead ==
    ASSUME ColumnsInv, Given(schema.type) = {}, UNCHANGED <<column, cells, answer>>, SchemaOK'
    PROVE  ColumnsInv'
<1>1. answer.how = "none"
  BY DEF ColumnsInv
<1>2. RowsShowWhatWasWritten'
  BY <1>1 DEF RowsShowWhatWasWritten
<1>3. ASSUME NEW s \in Slot PROVE CellOK(cells[s])'
  <2>1. CellOK(cells[s])
    BY DEF ColumnsInv
  <2>2. cells[s].by # "skardi"
    BY <2>1 DEF CellOK
  <2> QED
    BY <2>1, <2>2 DEF CellOK
<1> QED
  BY <1>1, <1>2, <1>3 DEF ColumnsInv, ColumnOK

\* A cell is written, and no answer is left.
LEMMA CellWritten ==
    ASSUME ColumnsInv, NEW s \in Slot, NEW c, CellOK(c)', cells' = [cells EXCEPT ![s] = c],
           answer' = NoAnswer, UNCHANGED <<column, schema>>
    PROVE  ColumnsInv'
<1>1. cells = [t \in Slot |-> cells[t]] /\ ColumnOK /\ SchemaOK
  BY DEF ColumnsInv
<1>2. cells' = [t \in Slot |-> cells'[t]] /\ cells'[s] = c
      /\ \A t \in Slot : t # s => cells'[t] = cells[t]
  BY <1>1
<1>3. ASSUME NEW t \in Slot PROVE CellOK(cells[t])'
  <2>1. CASE t = s
    BY <1>2, <2>1
  <2>2. CASE t # s
    <3>1. CellOK(cells[t])
      BY DEF ColumnsInv
    <3>2. cells'[t] = cells[t]
      BY <1>2, <2>2
    <3> QED
      BY <3>1, <3>2, CellStays
  <2> QED
    BY <2>1, <2>2
<1>4. ColumnOK' /\ SchemaOK'
  BY <1>1 DEF ColumnOK, SchemaOK, At
<1> QED
  BY <1>2, <1>3, <1>4, NoAnswerHolds DEF ColumnsInv

LEMMA ColumnsInitial == ColumnsInit => ColumnsInv
<1> SUFFICES ASSUME ColumnsInit PROVE ColumnsInv
  OBVIOUS
<1>1. ColumnOK
  <2>1. column \in UNION {[at : {p}, type : Types(p), required : BOOLEAN] : p \in Everywhere}
    BY ColumnsAssumption DEF ColumnsInit
  <2>2. PICK p \in Everywhere : column \in [at : {p}, type : Types(p), required : BOOLEAN]
    BY <2>1
  <2> QED
    BY <2>2 DEF ColumnOK
<1>2. SchemaOK
  BY DEF ColumnsInit, SchemaOK
<1>3. \A s \in Slot : CellOK(cells[s])
  BY DEF ColumnsInit, CellOK, Gap
<1>4. answer.how = "none"
  BY DEF ColumnsInit, NoAnswer
<1>5. RowsShowWhatWasWritten
  BY <1>4 DEF RowsShowWhatWasWritten
<1>6. cells = [s \in Slot |-> cells[s]]
  BY DEF ColumnsInit
<1> QED
  BY <1>1, <1>2, <1>3, <1>4, <1>5, <1>6 DEF ColumnsInv

\* Without the validator, Mongo admits what it admitted before and more.
LEMMA RelaxKeeps ==
    ASSUME ColumnsInv, Relax PROVE ColumnsInv'
<1> DEFINE relaxed == [at |-> "mongo", type |-> "any", required |-> FALSE]
<1>1. At("mongo") /\ ColumnOK /\ SchemaOK /\ UNCHANGED <<schema, cells>> /\ answer' = NoAnswer
  BY DEF Relax, ColumnsInv
<1>2. column' = relaxed
  BY <1>1 DEF Relax, ColumnOK, At
<1>3. ColumnOK' /\ At("mongo")'
  BY <1>2 DEF ColumnOK, At, Everywhere, Types
<1>4. SchemaOK'
  BY <1>1, <1>3 DEF SchemaOK, At
<1>5. Admitted(column) \subseteq Admitted(relaxed)
  <2>1. column.type \in Types("mongo")
    BY <1>1 DEF ColumnOK, At
  <2>2. Admitted(relaxed) = Ints32 \cup Ints \cup Reals \cup Bools \cup AllTexts \cup Dates \cup {Nil, Missing}
    BY DEF Admitted
  <2>3. Admitted(column) \subseteq
            Ints32 \cup Ints \cup Reals \cup Bools \cup AllTexts \cup Dates \cup {Nil, Missing}
    BY <1>1, <2>1 DEF Admitted, At, Types
  <2> QED
    BY <2>2, <2>3
<1>6. ASSUME NEW s \in Slot PROVE CellOK(cells[s])'
  <2>1. CellOK(cells[s])
    BY DEF ColumnsInv
  <2>2. \A x : Held(x)' = Held(x)
    BY <1>1, <1>3 DEF Held, At
  <2> HIDE DEF relaxed
  <2> QED
    BY <1>1, <1>2, <1>3, <1>5, <2>1, <2>2 DEF CellOK, At
<1>7. cells' = [s \in Slot |-> cells'[s]]
  BY <1>1 DEF ColumnsInv
<1> QED
  BY <1>1, <1>3, <1>4, <1>6, <1>7, NoAnswerHolds DEF ColumnsInv

LEMMA ReadSchemaType ==
    ASSUME ColumnsInv, ReadSchema PROVE SchemaOK'
<1>1. column' = column /\ ColumnOK
  BY DEF ReadSchema, ColumnsInv
<1>2. CASE At("sqlite") /\ schema' = [type |-> SqliteType(column.type), nullable |-> ~column.required]
  BY <1>1, <1>2 DEF SchemaOK, At
<1>3. CASE /\ At("mongo") /\ column.type # "any"
           /\ schema' = [type |-> ValidatorType(column.type), nullable |-> ~column.required]
  <2>1. column.type \in Types("mongo") \ {"any"}
    BY <1>1, <1>3 DEF ColumnOK, At
  <2>2. ValidatorType(column.type) \in MongoTypes
    BY <2>1 DEF ValidatorType, MongoTypes, Types
  <2> QED
    BY <1>1, <1>3, <2>2 DEF SchemaOK, At
<1>4. CASE /\ At("redis") \/ column = [at |-> "mongo", type |-> "any", required |-> FALSE]
           /\ \/ Occupied = {} /\ schema' = IF column.type = "declared" THEN Typed("Utf8") ELSE KeyOnly
              \/ \E s \in Occupied : schema' = Learned(s)
  <2>1. At("redis") \/ (At("mongo") /\ column.type = "any")
    BY <1>4 DEF At
  <2>2. \/ schema' \in {KeyOnly, Hidden}
        \/ At("redis") /\ schema' = Typed("Utf8")
        \/ At("mongo") /\ \E x : schema' = Typed(SampledType(x))
    BY <1>4, <2>1 DEF Learned, At
  <2>3. \A x : Typed(SampledType(x)).type \in MongoTypes /\ Typed(SampledType(x)).nullable = TRUE
    BY DEF SampledType, MongoTypes, Typed
  <2> QED
    BY <1>1, <2>1, <2>2, <2>3 DEF SchemaOK, At
<1>5. CASE At("postgres") /\ schema' = Typed(PostgresType(column.type))
  BY <1>1, <1>5 DEF SchemaOK, At
<1>6. CASE At("seekdb") /\ schema' = Typed(SeekDbType(column.type))
  BY <1>1, <1>6 DEF SchemaOK, At
<1>7. CASE At("llm") /\ schema' = Typed(PropertyType(column.type))
  BY <1>1, <1>7 DEF SchemaOK, At
<1> QED
  BY <1>2, <1>3, <1>4, <1>5, <1>6, <1>7 DEF ReadSchema

LEMMA ColumnsStep == ColumnsInv /\ [ColumnsNext]_columnVars => ColumnsInv'
<1> SUFFICES ASSUME ColumnsInv, [ColumnsNext]_columnVars PROVE ColumnsInv'
  OBVIOUS
<1>1. ASSUME NEW s \in Slot, ClientWrites(s) PROVE ColumnsInv'
  <2>1. PICK x \in Admitted(column) :
           cells' = [cells EXCEPT ![s] = [by |-> "client", given |-> x, held |-> x]]
    BY <1>1 DEF ClientWrites
  <2>2. UNCHANGED <<column, schema>> /\ answer' = NoAnswer
    BY <1>1 DEF ClientWrites
  <2> DEFINE c == [by |-> "client", given |-> x, held |-> x]
  <2>3. CellOK(c)'
    BY <2>2 DEF CellOK
  <2> HIDE DEF c
  <2> QED
    BY <2>1, <2>2, <2>3, CellWritten DEF c
<1>2. ASSUME NEW s \in Slot, InsertValue(s) PROVE ColumnsInv'
  <2>1. PICK x \in Given(schema.type) \cup (IF schema.nullable THEN {Nil} ELSE {}) :
           /\ ~At("llm") /\ Given(schema.type) # {}
           /\ \E held \in Held(x) :
                 cells' = [cells EXCEPT ![s] = [by |-> "skardi", given |-> x, held |-> held]]
    BY <1>2 DEF InsertValue
  <2>2. UNCHANGED <<column, schema>> /\ answer' = NoAnswer
    BY <1>2 DEF InsertValue
  <2>3. PICK held \in Held(x) :
           cells' = [cells EXCEPT ![s] = [by |-> "skardi", given |-> x, held |-> held]]
    BY <2>1
  <2> DEFINE c == [by |-> "skardi", given |-> x, held |-> held]
  <2>4. CellOK(c)
    BY <2>1 DEF CellOK
  <2>5. CellOK(c)'
    BY <2>2, <2>4, CellStays
  <2> HIDE DEF c
  <2> QED
    BY <2>2, <2>3, <2>5, CellWritten DEF c
<1>3. CASE Relax
  BY <1>3, RelaxKeeps
<1>4. CASE ReadSchema
  <2>1. UNCHANGED <<column, cells, answer>> /\ schema = Unread
    BY <1>4 DEF ReadSchema
  <2>2. Given(schema.type) = {}
    <3>1. schema.type = "unread"
      BY <2>1 DEF Unread
    <3> QED
      BY <3>1, NothingGiven
  <2> QED
    BY <1>4, <2>1, <2>2, ReadSchemaType, SchemaRead
<1>5. CASE Relearn
  <2>1. UNCHANGED <<column, cells, answer>> /\ schema = KeyOnly /\ At("redis")
    BY <1>5 DEF Relearn
  <2>2. Given(schema.type) = {}
    <3>1. schema.type = "key only"
      BY <2>1 DEF KeyOnly
    <3> QED
      BY <3>1, NothingGiven
  <2>3. schema' \in {Hidden, Typed("Utf8")}
    BY <1>5, <2>1 DEF Relearn, Learned, At
  <2>4. SchemaOK'
    BY <2>1, <2>3 DEF SchemaOK, At
  <2> QED
    BY <2>1, <2>2, <2>4, SchemaRead
<1>6. CASE Scan \/ SearchRows
  <2>1. RowsShowWhatWasWritten'
    BY <1>6, ColumnsScan, ColumnsSearch
  <2>2. UNCHANGED <<column, schema, cells>> /\ Given(schema.type) # {}
    BY <1>6 DEF Scan, SearchRows, Answer
  <2>3. ColumnOK' /\ SchemaOK'
    BY <2>2 DEF ColumnsInv, ColumnOK, SchemaOK, At
  <2>4. \A s \in Slot : CellOK(cells[s])'
    BY <2>2, CellStays DEF ColumnsInv
  <2>5. cells' = [s \in Slot |-> cells'[s]]
    BY <2>2 DEF ColumnsInv
  <2> QED
    BY <2>1, <2>2, <2>3, <2>4, <2>5 DEF ColumnsInv
<1>7. CASE UNCHANGED columnVars
  <2>1. UNCHANGED <<column, schema, cells, answer>>
    BY <1>7 DEF columnVars
  <2>2. ColumnOK' /\ SchemaOK'
    BY <2>1 DEF ColumnsInv, ColumnOK, SchemaOK, At
  <2>3. \A s \in Slot : CellOK(cells[s])'
    BY <2>1, CellStays DEF ColumnsInv
  <2>4. RowsShowWhatWasWritten'
    BY <2>1 DEF ColumnsInv, RowsShowWhatWasWritten, GivenIsShown, HeldIsShown, Occupied, At
  <2> QED
    BY <2>1, <2>2, <2>3, <2>4 DEF ColumnsInv
<1> QED
  BY <1>1, <1>2, <1>3, <1>4, <1>5, <1>6, <1>7 DEF ColumnsNext

\* Whatever the numbers, the texts, the rows and the declaration of a column, an answer shows its
\* rows as they were written, through the registered type and beside the writes of other clients.
THEOREM ColumnsShow == ColumnsSpec => []RowsShowWhatWasWritten
<1>1. ColumnsInv => RowsShowWhatWasWritten
  BY DEF ColumnsInv
<1> QED
  BY ColumnsInitial, ColumnsStep, <1>1, PTL DEF ColumnsSpec

-----------------------------------------------------------------------------
(* Sources.  The declaration and the environment stay; what is registered,   *)
(* opened and listed follows from them, and only the version of an Iceberg   *)
(* table races with its writers.                                             *)

\* A set of natural numbers with a bound has a greatest one.
LEMMA GreatestExists ==
    ASSUME NEW S \in SUBSET Nat, S # {}, NEW n \in Nat, \A i \in S : i <= n
    PROVE  \E i \in S : \A j \in S : j <= i
<1> DEFINE U == {u \in Nat : \A j \in S : j <= u}
<1>1. U \in SUBSET Nat /\ U # {}
  <2>1. n \in U
    OBVIOUS
  <2> QED
    BY <2>1
<1>2. PICK u \in U : \A v \in U : u <= v
  <2> HIDE DEF U
  <2> QED
    BY <1>1, LeastExists
<1>3. u \in S
  <2> SUFFICES ASSUME u \notin S PROVE FALSE
    OBVIOUS
  <2>1. \A j \in S : j <= u /\ j # u
    OBVIOUS
  <2>2. PICK j \in S : TRUE
    OBVIOUS
  <2>3. u \in Nat /\ j \in Nat /\ j <= u /\ j # u
    BY <2>1
  <2>4. u - 1 \in Nat
    BY <2>3
  <2>5. \A i \in S : i <= u - 1
    BY <2>1, <2>3
  <2>6. u - 1 \in U
    BY <2>4, <2>5
  <2>7. u <= u - 1
    BY <1>2, <2>6
  <2> QED
    BY <2>3, <2>7
<1> QED
  BY <1>3

LEMMA GreatestIs ==
    ASSUME NEW S \in SUBSET Nat, S # {}, NEW n \in Nat, \A i \in S : i <= n
    PROVE  Greatest(S) \in S /\ \A j \in S : j <= Greatest(S)
<1>1. \E i \in S : \A j \in S : j <= i
  BY GreatestExists
<1> QED
  BY <1>1 DEF Greatest

LEMMA LeastIs ==
    ASSUME NEW S \in SUBSET Nat, S # {}
    PROVE  Least(S) \in S /\ \A j \in S : Least(S) <= j
<1>1. \E i \in S : \A j \in S : i <= j
  BY LeastExists
<1> QED
  BY <1>1 DEF Least

-----------------------------------------------------------------------------
(* A login that is put into a URL and read from it again.                    *)

\* The provers do not know that a literal is a string, so what they need to know is in here.
Letters == STRING \cup {"@", ":", "unset", "localhost"}

Text == Seq(Letters)

LEMMA EncodedText ==
    ASSUME NEW t \in Text
    PROVE  /\ Encoded(t) \in Seq([char : Letters, escaped : BOOLEAN])
           /\ Len(Encoded(t)) = Len(t) /\ Len(t) \in Nat
           /\ \A i \in 1..Len(t) : /\ Encoded(t)[i].char = t[i]
                                   /\ t[i] \in {"/", ":", "@"} => Encoded(t)[i].escaped
<1>1. Len(t) \in Nat /\ DOMAIN t = 1..Len(t) /\ \A i \in 1..Len(t) : t[i] \in Letters
  BY DEF Text
<1>2. Encoded(t) = [i \in 1..Len(t) |-> [char |-> t[i], escaped |-> t[i] \notin Letter]]
  BY <1>1 DEF Encoded
<1>3. Letter \cap {"/", ":", "@"} = {}
  BY SourcesAssumption
<1>4. \A i \in 1..Len(t) : [char |-> t[i], escaped |-> t[i] \notin Letter] \in [char : Letters, escaped : BOOLEAN]
  BY <1>1
<1>5. Encoded(t) \in Seq([char : Letters, escaped : BOOLEAN])
  <2> DEFINE e(i) == [char |-> t[i], escaped |-> t[i] \notin Letter]
  <2>1. Encoded(t) = [i \in 1..Len(t) |-> e(i)] /\ \A i \in 1..Len(t) : e(i) \in [char : Letters, escaped : BOOLEAN]
    BY <1>2, <1>4
  <2> HIDE DEF e
  <2> QED
    BY <1>1, <2>1
<1>6. Len(Encoded(t)) = Len(t)
  <2> DEFINE e(i) == [char |-> t[i], escaped |-> t[i] \notin Letter]
  <2>1. Encoded(t) = [i \in 1..Len(t) |-> e(i)]
    BY <1>2
  <2> HIDE DEF e
  <2> QED
    BY <1>1, <2>1
<1>7. ASSUME NEW i \in 1..Len(t)
      PROVE  /\ Encoded(t)[i].char = t[i]
             /\ t[i] \in {"/", ":", "@"} => Encoded(t)[i].escaped
  <2>1. Encoded(t)[i] = [char |-> t[i], escaped |-> t[i] \notin Letter]
    BY <1>2
  <2>2. Encoded(t)[i].char = t[i]
    BY <2>1
  <2>3. Encoded(t)[i].escaped = (t[i] \notin Letter)
    BY <2>1
  <2>4. t[i] \in {"/", ":", "@"} => t[i] \notin Letter
    BY <1>3
  <2> QED
    BY <2>2, <2>3, <2>4, Zenon
<1> QED
  BY <1>1, <1>5, <1>6, <1>7

LEMMA PlainText ==
    ASSUME NEW t \in Text
    PROVE  /\ Plain(t) \in Seq([char : Letters, escaped : BOOLEAN])
           /\ Len(Plain(t)) = Len(t) /\ Len(t) \in Nat
           /\ \A i \in 1..Len(t) : Plain(t)[i] = [char |-> t[i], escaped |-> FALSE]
<1>1. Len(t) \in Nat /\ DOMAIN t = 1..Len(t) /\ \A i \in 1..Len(t) : t[i] \in Letters
  BY DEF Text
<1> DEFINE e(i) == [char |-> t[i], escaped |-> FALSE]
<1>2. Plain(t) = [i \in 1..Len(t) |-> e(i)] /\ \A i \in 1..Len(t) : e(i) \in [char : Letters, escaped : BOOLEAN]
  BY <1>1 DEF Plain
<1>3. \A i \in 1..Len(t) : Plain(t)[i] = e(i)
  BY <1>2
<1>4. Plain(t) \in Seq([char : Letters, escaped : BOOLEAN]) /\ Len(Plain(t)) = Len(t)
  <2> HIDE DEF e
  <2> QED
    BY <1>1, <1>2
<1> QED
  BY <1>1, <1>3, <1>4

Char == [char : Letters, escaped : BOOLEAN]

Raw(url, i, c) == url[i].char = c /\ ~url[i].escaped

Piece(url, i, j) == [k \in 1..(j - i + 1) |-> url[i + k - 1].char]

\* A URL whose only / and @ that count is the @ at the end of the login.
LEMMA ReadLogin ==
    ASSUME NEW url \in Seq(Char), NEW at \in 1..Len(url), Raw(url, at, "@"),
           \A i \in 1..Len(url) : i # at => ~Raw(url, i, "/") /\ ~Raw(url, i, "@"),
           NEW c \in 1..at, c < at => Raw(url, c, ":"),
           \A i \in 1..(c - 1) : ~Raw(url, i, ":")
    PROVE  ReadUrl(url) = [user |-> Piece(url, 1, c - 1),
                           pass |-> IF c = at THEN Unset ELSE Piece(url, c + 1, at - 1),
                           host |-> Piece(url, at + 1, Len(url))]
<1> DEFINE marks(d) == {i \in DOMAIN url : url[i].char = d /\ ~url[i].escaped}
           end == IF marks("/") = {} THEN Len(url) ELSE Least(marks("/")) - 1
           A   == {0} \cup {i \in marks("@") : i <= end}
           C   == {at} \cup {i \in marks(":") : i < at}
<1>1. Len(url) \in Nat /\ DOMAIN url = 1..Len(url) /\ at \in Nat /\ c \in Nat
  OBVIOUS
<1>2. marks("/") = {}
  <2>1. ASSUME NEW i \in DOMAIN url PROVE ~Raw(url, i, "/")
    <3>1. CASE i = at
      BY <3>1 DEF Raw
    <3>2. CASE i # at
      BY <1>1, <3>2
    <3> QED
      BY <3>1, <3>2
  <2> QED
    BY <2>1 DEF Raw
<1>3. end = Len(url)
  BY <1>2
<1>4. A = {0, at}
  <2>1. marks("@") = {at}
    BY <1>1 DEF Raw
  <2> HIDE DEF marks, end
  <2> QED
    BY <1>1, <1>3, <2>1
<1>5. Greatest(A) = at
  <2>1. A \in SUBSET Nat /\ A # {} /\ \A i \in A : i <= at
    <3> HIDE DEF A
    <3> QED
      BY <1>1, <1>4
  <2>2. Greatest(A) \in A /\ \A j \in A : j <= Greatest(A)
    <3> HIDE DEF A
    <3> QED
      BY <1>1, <2>1, GreatestIs
  <2> HIDE DEF A
  <2> QED
    BY <1>1, <1>4, <2>2
<1>6. Least(C) = c
  <2>1. C \in SUBSET Nat /\ c \in C /\ \A i \in C : c <= i
    <3>1. C \in SUBSET Nat
      BY <1>1
    <3>2. c \in C
      BY <1>1 DEF Raw
    <3>3. ASSUME NEW i \in C PROVE c <= i
      <4>1. CASE i = at
        BY <1>1, <4>1
      <4>2. CASE i # at
        <5>1. i \in Nat \ {0} /\ Raw(url, i, ":")
          BY <1>1, <4>2 DEF Raw
        <5>2. i \notin 1..(c - 1)
          BY <5>1
        <5> HIDE DEF C
        <5> QED
          BY <1>1, <5>1, <5>2
      <4> QED
        BY <4>1, <4>2
    <3> QED
      BY <3>1, <3>2, <3>3
  <2> HIDE DEF C
  <2>2. Least(C) \in C /\ \A j \in C : Least(C) <= j
    BY <2>1, LeastIs
  <2>3. Least(C) <= c /\ c <= Least(C) /\ Least(C) \in Nat
    BY <2>1, <2>2
  <2> QED
    BY <1>1, <2>3
<1>7. ReadUrl(url) = [user |-> IF Greatest(A) = 0 THEN Unset
                               ELSE Piece(url, 1, Least({Greatest(A)} \cup {i \in marks(":") : i < Greatest(A)}) - 1),
                      pass |-> IF Least({Greatest(A)} \cup {i \in marks(":") : i < Greatest(A)}) = Greatest(A)
                               THEN Unset
                               ELSE Piece(url, Least({Greatest(A)} \cup {i \in marks(":") : i < Greatest(A)}) + 1,
                                          Greatest(A) - 1),
                      host |-> Piece(url, Greatest(A) + 1, end)]
  BY Zenon DEF ReadUrl, Piece
<1>8. Least({Greatest(A)} \cup {i \in marks(":") : i < Greatest(A)}) = c
  <2> HIDE DEF A, marks
  <2> QED
    BY <1>5, <1>6
<1> HIDE DEF A, marks, end, C
<1> QED
  BY <1>1, <1>3, <1>5, <1>7, <1>8

\* A URL without a login.
LEMMA ReadHost ==
    ASSUME NEW url \in Seq(Char), \A i \in 1..Len(url) : ~Raw(url, i, "/") /\ ~Raw(url, i, "@")
    PROVE  ReadUrl(url) = [user |-> Unset, pass |-> Unset, host |-> Piece(url, 1, Len(url))]
<1> DEFINE marks(d) == {i \in DOMAIN url : url[i].char = d /\ ~url[i].escaped}
           end == IF marks("/") = {} THEN Len(url) ELSE Least(marks("/")) - 1
           A   == {0} \cup {i \in marks("@") : i <= end}
           C   == {Greatest(A)} \cup {i \in marks(":") : i < Greatest(A)}
<1>1. Len(url) \in Nat /\ DOMAIN url = 1..Len(url)
  OBVIOUS
<1>2. marks("/") = {} /\ marks("@") = {}
  BY <1>1 DEF Raw
<1>3. end = Len(url) /\ A = {0}
  BY <1>2
<1>4. Greatest({0}) = 0 /\ Least({0}) = 0
  <2>1. {0} \in SUBSET Nat /\ {0} # {} /\ \A i \in {0} : i <= 0
    OBVIOUS
  <2>2. Greatest({0}) \in {0} /\ Least({0}) \in {0}
    BY <2>1, GreatestIs, LeastIs
  <2> QED
    BY <2>2
<1>5. Greatest(A) = 0
  BY <1>3, <1>4
<1>6. C = {0}
  <2> HIDE DEF A
  <2> QED
    BY <1>1, <1>5
<1>7. Least(C) = 0
  BY <1>4, <1>6
<1>8. ReadUrl(url) = [user |-> IF Greatest(A) = 0 THEN Unset ELSE Piece(url, 1, Least(C) - 1),
                      pass |-> IF Least(C) = Greatest(A) THEN Unset
                               ELSE Piece(url, Least(C) + 1, Greatest(A) - 1),
                      host |-> Piece(url, Greatest(A) + 1, end)]
  BY Zenon DEF ReadUrl, Piece
<1> HIDE DEF A, marks, end, C
<1> QED
  BY <1>1, <1>3, <1>5, <1>7, <1>8

LEMMA TextOfPiece ==
    ASSUME NEW t \in Text, NEW url, NEW i \in Nat, NEW j \in Int, j = i + Len(t) - 1,
           \A k \in 1..Len(t) : url[i + k - 1].char = t[k]
    PROVE  Piece(url, i, j) = t
<1>1. Len(t) \in Nat /\ t = [k \in 1..Len(t) |-> t[k]] /\ j - i + 1 = Len(t)
  BY DEF Text
<1>2. Piece(url, i, j) = [k \in 1..Len(t) |-> url[i + k - 1].char]
  BY <1>1 DEF Piece
<1> QED
  BY <1>1, <1>2

LEMMA Concatenated ==
    ASSUME NEW S, NEW s \in Seq(S), NEW t \in Seq(S)
    PROVE  /\ s \o t \in Seq(S) /\ Len(s \o t) = Len(s) + Len(t) /\ Len(s) \in Nat /\ Len(t) \in Nat
           /\ \A i \in 1..Len(s) : (s \o t)[i] = s[i]
           /\ \A k \in 1..Len(t) : (s \o t)[Len(s) + k] = t[k]
OBVIOUS

LEMMA OneLetter ==
    ASSUME NEW m \in Letters
    PROVE  <<m>> \in Text /\ Len(<<m>>) = 1 /\ <<m>>[1] = m
<1>1. <<m>> \in Seq(Letters)
  OBVIOUS
<1>2. Len(<<m>>) = 1
  OBVIOUS
<1>3. <<m>>[1] = m
  OBVIOUS
<1> QED
  BY <1>1, <1>2, <1>3 DEF Text

\* The host, with its @ before it.
LEMMA HostPiece ==
    ASSUME NEW host \in Text
    PROVE  LET H == Plain(<<"@">> \o host)
           IN  /\ H \in Seq(Char) /\ Len(H) = Len(host) + 1 /\ Len(host) \in Nat
               /\ H[1] = [char |-> "@", escaped |-> FALSE]
               /\ \A k \in 1..Len(host) : H[k + 1] = [char |-> host[k], escaped |-> FALSE]
<1> DEFINE t == <<"@">> \o host
<1>1. t \in Text /\ Len(t) = Len(host) + 1 /\ Len(host) \in Nat /\ t[1] = "@"
      /\ \A k \in 1..Len(host) : t[k + 1] = host[k]
  <2> DEFINE a == <<"@">>
  <2>1. a \in Text /\ Len(a) = 1 /\ a[1] = "@"
    <3>1. "@" \in Letters
      BY DEF Letters
    <3> QED
      BY <3>1, OneLetter, Zenon
  <2> HIDE DEF a
  <2>2. /\ a \o host \in Seq(Letters) /\ Len(a \o host) = Len(a) + Len(host) /\ Len(host) \in Nat
        /\ \A i \in 1..Len(a) : (a \o host)[i] = a[i]
        /\ \A k \in 1..Len(host) : (a \o host)[Len(a) + k] = host[k]
    <3>1. a \in Seq(Letters) /\ host \in Seq(Letters)
      BY <2>1 DEF Text
    <3> QED
      BY <3>1, Concatenated
  <2>3. \A k \in 1..Len(host) : (a \o host)[k + 1] = host[k]
    <3> SUFFICES ASSUME NEW k \in 1..Len(host) PROVE (a \o host)[k + 1] = host[k]
      OBVIOUS
    <3>1. k + 1 = Len(a) + k
      BY <2>1
    <3> QED
      BY <2>2, <3>1
  <2>4. (a \o host)[1] = "@" /\ Len(a \o host) = Len(host) + 1
    BY <2>1, <2>2
  <2> QED
    BY <2>2, <2>3, <2>4 DEF a, Text
<1>2. Plain(t) \in Seq(Char) /\ Len(Plain(t)) = Len(t)
      /\ \A i \in 1..Len(t) : Plain(t)[i] = [char |-> t[i], escaped |-> FALSE]
  <2> HIDE DEF t
  <2> QED
    BY <1>1, PlainText DEF Char
<1> HIDE DEF t
<1>3. Plain(t)[1] = [char |-> "@", escaped |-> FALSE]
  <2>1. 1 \in 1..Len(t)
    BY <1>1
  <2> QED
    BY <1>1, <1>2, <2>1
<1>4. ASSUME NEW k \in 1..Len(host) PROVE Plain(t)[k + 1] = [char |-> host[k], escaped |-> FALSE]
  <2>1. k + 1 \in 1..Len(t)
    BY <1>1
  <2> QED
    BY <1>1, <1>2, <2>1
<1>5. Len(Plain(t)) = Len(host) + 1
  BY <1>1, <1>2
<1> QED
  BY <1>1, <1>2, <1>3, <1>4, <1>5 DEF t

\* The password, with its : before it.
LEMMA PassPiece ==
    ASSUME NEW pass \in Text
    PROVE  LET F == Plain(<<":">>) \o Encoded(pass)
           IN  /\ F \in Seq(Char) /\ Len(F) = Len(pass) + 1 /\ Len(pass) \in Nat
               /\ F[1] = [char |-> ":", escaped |-> FALSE]
               /\ \A k \in 1..Len(pass) : F[k + 1] = Encoded(pass)[k]
<1>1. Encoded(pass) \in Seq(Char) /\ Len(Encoded(pass)) = Len(pass) /\ Len(pass) \in Nat
  BY EncodedText DEF Char
<1>2. Plain(<<":">>) \in Seq(Char) /\ Len(Plain(<<":">>)) = 1
      /\ Plain(<<":">>)[1] = [char |-> ":", escaped |-> FALSE]
  <2>1. <<":">> \in Text /\ Len(<<":">>) = 1 /\ <<":">>[1] = ":"
    <3>1. ":" \in Letters
      BY DEF Letters
    <3> QED
      BY <3>1, OneLetter, Zenon
  <2> DEFINE t == <<":">>
  <2> HIDE DEF t
  <2>2. t \in Text /\ Len(t) = 1 /\ t[1] = ":"
    BY <2>1 DEF t
  <2>3. Plain(t) \in Seq(Char) /\ Len(Plain(t)) = Len(t)
        /\ \A i \in 1..Len(t) : Plain(t)[i] = [char |-> t[i], escaped |-> FALSE]
    BY <2>2, PlainText DEF Char
  <2>4. Plain(t)[1] = [char |-> ":", escaped |-> FALSE]
    BY <2>2, <2>3
  <2> QED
    BY <2>2, <2>3, <2>4 DEF t
<1> DEFINE P == Plain(<<":">>)
           E == Encoded(pass)
<1> HIDE DEF P, E
<1>3. /\ P \o E \in Seq(Char) /\ Len(P \o E) = Len(pass) + 1
      /\ (P \o E)[1] = P[1]
      /\ \A k \in 1..Len(pass) : (P \o E)[k + 1] = E[k]
  <2>1. P \in Seq(Char) /\ Len(P) = 1 /\ E \in Seq(Char) /\ Len(E) = Len(pass) /\ Len(pass) \in Nat
    BY <1>1, <1>2 DEF P, E
  <2>2. /\ P \o E \in Seq(Char) /\ Len(P \o E) = Len(P) + Len(E)
        /\ \A i \in 1..Len(P) : (P \o E)[i] = P[i]
        /\ \A k \in 1..Len(E) : (P \o E)[Len(P) + k] = E[k]
    BY <2>1, Concatenated
  <2>3. \A k \in 1..Len(pass) : (P \o E)[k + 1] = E[k]
    <3> SUFFICES ASSUME NEW k \in 1..Len(pass) PROVE (P \o E)[k + 1] = E[k]
      OBVIOUS
    <3>1. k + 1 = Len(P) + k
      BY <2>1
    <3> QED
      BY <2>1, <2>2, <3>1
  <2>4. (P \o E)[1] = P[1] /\ Len(P \o E) = Len(pass) + 1
    BY <2>1, <2>2
  <2> QED
    BY <2>2, <2>3, <2>4
<1> QED
  BY <1>1, <1>2, <1>3 DEF P, E

LEMMA LoginRead ==
    ASSUME NEW user \in Text, NEW pass \in Text, NEW host \in Text,
           \A i \in DOMAIN host : host[i] \notin {"/", "@"}
    PROVE  ReadUrl(LoginUrl(user, pass, host)) =
               [user |-> user, pass |-> IF user = Unset THEN Unset ELSE pass, host |-> host]
<1> DEFINE url == LoginUrl(user, pass, host)
           E == Encoded(user)
           F == Plain(<<":">>) \o Encoded(pass)
           H == Plain(<<"@">> \o host)
           u == Len(user)
           p == Len(pass)
           h == Len(host)
<1>1. /\ E \in Seq(Char) /\ Len(E) = u /\ u \in Nat
      /\ \A i \in 1..u : E[i].char = user[i] /\ (user[i] \in {"/", ":", "@"} => E[i].escaped)
  BY EncodedText DEF Char
<1>2. /\ H \in Seq(Char) /\ Len(H) = h + 1 /\ h \in Nat
      /\ H[1] = [char |-> "@", escaped |-> FALSE]
      /\ \A k \in 1..h : H[k + 1] = [char |-> host[k], escaped |-> FALSE]
  BY HostPiece
<1>3. /\ F \in Seq(Char) /\ Len(F) = p + 1 /\ p \in Nat
      /\ F[1] = [char |-> ":", escaped |-> FALSE]
      /\ \A k \in 1..p : F[k + 1] = Encoded(pass)[k]
  BY PassPiece
<1>4. \A k \in 1..p : Encoded(pass)[k].char = pass[k]
                      /\ (pass[k] \in {"/", ":", "@"} => Encoded(pass)[k].escaped)
  BY EncodedText
<1>5. \A k \in 1..h : host[k] \notin {"/", "@"}
  BY <1>2 DEF Text
<1>6. CASE user = Unset
  <2>1. url = Plain(host)
    BY <1>6 DEF LoginUrl
  <2>2. url \in Seq(Char) /\ Len(url) = h /\ \A i \in 1..h : url[i] = [char |-> host[i], escaped |-> FALSE]
    BY <2>1, PlainText DEF Char
  <2> HIDE DEF url
  <2>3. \A i \in 1..Len(url) : ~Raw(url, i, "/") /\ ~Raw(url, i, "@")
    <3> SUFFICES ASSUME NEW i \in 1..h PROVE ~Raw(url, i, "/") /\ ~Raw(url, i, "@")
      BY <2>2
    <3>1. url[i].char = host[i]
      <4>1. url[i] = [char |-> host[i], escaped |-> FALSE]
        BY <2>2
      <4> QED
        BY <4>1
    <3>2. host[i] \notin {"/", "@"}
      BY <1>5
    <3> HIDE DEF h
    <3> QED
      BY <3>1, <3>2 DEF Raw
  <2>4. ReadUrl(url) = [user |-> Unset, pass |-> Unset, host |-> Piece(url, 1, Len(url))]
    BY <2>2, <2>3, ReadHost
  <2>5. Piece(url, 1, Len(url)) = host
    <3>1. \A k \in 1..Len(host) : url[1 + k - 1].char = host[k]
      <4> SUFFICES ASSUME NEW k \in 1..Len(host) PROVE url[1 + k - 1].char = host[k]
        OBVIOUS
      <4>1. 1 + k - 1 = k
        OBVIOUS
      <4>2. url[k].char = host[k]
        <5>1. url[k] = [char |-> host[k], escaped |-> FALSE]
          BY <2>2
        <5> QED
          BY <5>1
      <4> QED
        BY <4>1, <4>2
    <3>2. Len(url) = 1 + Len(host) - 1 /\ Len(url) \in Int /\ 1 \in Nat
      BY <1>2, <2>2
    <3> HIDE DEF h
    <3> QED
      BY <3>1, <3>2, TextOfPiece
  <2> QED
    BY <1>6, <2>4, <2>5 DEF url
<1>7. CASE user # Unset /\ pass = Unset
  <2>1. url = E \o <<>> \o H
    BY <1>7 DEF LoginUrl
  <2> HIDE DEF url, E, H, u, h, p, F
  <2>2. /\ url \in Seq(Char) /\ Len(url) = u + 1 + h
        /\ \A i \in 1..u : url[i] = E[i]
        /\ \A k \in 1..(h + 1) : url[u + k] = H[k]
    <3>1. E \o <<>> = E
      BY <1>1
    <3>2. url = E \o H
      BY <2>1, <3>1
    <3>3. E \in Seq(Char) /\ Len(E) = u /\ u \in Nat /\ H \in Seq(Char) /\ Len(H) = h + 1 /\ h \in Nat
      BY <1>1, <1>2
    <3>4. /\ E \o H \in Seq(Char) /\ Len(E \o H) = Len(E) + Len(H)
          /\ \A i \in 1..Len(E) : (E \o H)[i] = E[i]
          /\ \A k \in 1..Len(H) : (E \o H)[Len(E) + k] = H[k]
      <4>1. E \in Seq(Char) /\ H \in Seq(Char)
        BY <3>3
      <4> HIDE DEF E, H
      <4> QED
        BY ONLY <4>1, Concatenated
    <3>5. Len(E \o H) = u + 1 + h
      BY <3>3, <3>4
    <3> QED
      BY <3>2, <3>3, <3>4, <3>5
  <2> DEFINE at == u + 1
  <2>3. at \in 1..Len(url) /\ at \in 1..at /\ at \in Nat
    BY <1>1, <1>2, <2>2
  <2>4. url[at] = [char |-> "@", escaped |-> FALSE]
    BY <1>1, <1>2, <2>2
  <2>5. Raw(url, at, "@")
    BY <2>4 DEF Raw
  <2>6. ASSUME NEW i \in 1..u PROVE url[i].char = user[i] /\ \A m \in {"/", ":", "@"} : ~Raw(url, i, m)
    BY <1>1, <2>2 DEF Raw
  <2>7. ASSUME NEW k \in 1..h
        PROVE  url[at + k].char = host[k] /\ ~Raw(url, at + k, "/") /\ ~Raw(url, at + k, "@")
    <3>1. k + 1 \in 1..(h + 1) /\ at + k = u + (k + 1)
      BY <1>1, <1>2
    <3>2. url[at + k] = [char |-> host[k], escaped |-> FALSE]
      BY <1>2, <2>2, <3>1
    <3> QED
      BY <1>5, <3>2 DEF Raw
  <2>8. \A i \in 1..Len(url) : i # at => ~Raw(url, i, "/") /\ ~Raw(url, i, "@")
    <3> SUFFICES ASSUME NEW i \in 1..Len(url), i # at PROVE ~Raw(url, i, "/") /\ ~Raw(url, i, "@")
      OBVIOUS
    <3>1. CASE i < at
      <4>1. i \in 1..u
        BY <1>1, <2>2, <3>1
      <4> QED
        BY <2>6, <4>1
    <3>2. CASE i > at
      <4> DEFINE k == i - at
      <4>1. k \in 1..h /\ at + k = i
        BY <1>1, <1>2, <2>2, <3>2
      <4> HIDE DEF k, at
      <4> QED
        BY <2>7, <4>1
    <3> QED
      BY <1>1, <2>2, <3>1, <3>2
  <2>9. \A i \in 1..(at - 1) : ~Raw(url, i, ":")
    BY <1>1, <2>6
  <2>10. ReadUrl(url) = [user |-> Piece(url, 1, at - 1), pass |-> Unset, host |-> Piece(url, at + 1, Len(url))]
    <3> HIDE DEF at
    <3>1. ~(at < at)
      BY <2>3
    <3> QED
      BY <2>2, <2>3, <2>5, <2>8, <2>9, <3>1, ReadLogin
  <2>11. Piece(url, 1, at - 1) = user
    <3>1. \A k \in 1..Len(user) : url[1 + k - 1].char = user[k]
      BY <1>1, <2>6 DEF u
    <3>2. 1 \in Nat /\ at - 1 \in Int /\ at - 1 = 1 + Len(user) - 1
      BY <1>1 DEF u
    <3> HIDE DEF at
    <3> QED
      BY <3>1, <3>2, TextOfPiece
  <2>12. Piece(url, at + 1, Len(url)) = host
    <3>1. \A k \in 1..h : url[at + 1 + k - 1].char = host[k]
      <4> SUFFICES ASSUME NEW k \in 1..h PROVE url[at + 1 + k - 1].char = host[k]
        OBVIOUS
      <4>1. at + 1 + k - 1 = at + k
        BY <1>1, <1>2
      <4> HIDE DEF at
      <4> QED
        BY <2>7, <4>1
    <3>2. at + 1 \in Nat /\ Len(url) = at + 1 + h - 1 /\ Len(url) \in Int
      BY <1>1, <1>2, <2>2
    <3> HIDE DEF at
    <3> QED
      BY <3>1, <3>2, TextOfPiece DEF h
  <2> QED
    BY <1>7, <2>10, <2>11, <2>12 DEF url
<1>8. CASE user # Unset /\ pass # Unset
  <2>1. url = E \o F \o H
    BY <1>8 DEF LoginUrl
  <2> HIDE DEF url, E, H, u, h, p, F
  <2>2. /\ url \in Seq(Char) /\ Len(url) = u + p + 2 + h
        /\ \A i \in 1..u : url[i] = E[i]
        /\ \A k \in 1..(p + 1) : url[u + k] = F[k]
        /\ \A k \in 1..(h + 1) : url[u + p + 1 + k] = H[k]
    <3>1. E \in Seq(Char) /\ Len(E) = u /\ u \in Nat /\ H \in Seq(Char) /\ Len(H) = h + 1 /\ h \in Nat
          /\ F \in Seq(Char) /\ Len(F) = p + 1 /\ p \in Nat
      BY <1>1, <1>2, <1>3
    <3> DEFINE G == E \o F
    <3>2. /\ G \in Seq(Char) /\ Len(G) = Len(E) + Len(F)
          /\ \A i \in 1..Len(E) : G[i] = E[i]
          /\ \A k \in 1..Len(F) : G[Len(E) + k] = F[k]
      <4>1. E \in Seq(Char) /\ F \in Seq(Char)
        BY <3>1
      <4> QED
        BY ONLY <4>1, Concatenated DEF G
    <3>3. url = G \o H
      BY <2>1, <3>1
    <3> HIDE DEF G
    <3>4. /\ G \o H \in Seq(Char) /\ Len(G \o H) = Len(G) + Len(H)
          /\ \A i \in 1..Len(G) : (G \o H)[i] = G[i]
          /\ \A k \in 1..Len(H) : (G \o H)[Len(G) + k] = H[k]
      <4>1. G \in Seq(Char) /\ H \in Seq(Char)
        BY <3>1, <3>2
      <4> QED
        BY ONLY <4>1, Concatenated
    <3>5. Len(G) = u + p + 1
      BY <3>1, <3>2
    <3>6. Len(url) = u + p + 2 + h
      BY <3>1, <3>3, <3>4, <3>5
    <3>7. ASSUME NEW i \in 1..u PROVE url[i] = E[i]
      <4>1. i \in 1..Len(G) /\ i \in 1..Len(E)
        BY <3>1, <3>5
      <4> QED
        BY <3>2, <3>3, <3>4, <4>1
    <3>8. ASSUME NEW k \in 1..(p + 1) PROVE url[u + k] = F[k]
      <4>1. u + k \in 1..Len(G) /\ k \in 1..Len(F) /\ u = Len(E)
        BY <3>1, <3>5
      <4> QED
        BY <3>2, <3>3, <3>4, <4>1
    <3>9. ASSUME NEW k \in 1..(h + 1) PROVE url[u + p + 1 + k] = H[k]
      <4>1. k \in 1..Len(H) /\ u + p + 1 + k = Len(G) + k
        BY <3>1, <3>5
      <4> QED
        BY <3>3, <3>4, <4>1
    <3> QED
      BY <3>3, <3>4, <3>6, <3>7, <3>8, <3>9
  <2> DEFINE at == u + p + 2
             c  == u + 1
  <2>3. at \in 1..Len(url) /\ c \in 1..at /\ at \in Nat /\ c \in Nat /\ c < at
    BY <1>1, <1>2, <1>3, <2>2
  <2>4. url[at] = [char |-> "@", escaped |-> FALSE] /\ url[c] = [char |-> ":", escaped |-> FALSE]
    <3>1. 1 \in 1..(h + 1) /\ at = u + p + 1 + 1 /\ 1 \in 1..(p + 1)
      BY <1>1, <1>2, <1>3
    <3> QED
      BY <1>2, <1>3, <2>2, <3>1
  <2>5. Raw(url, at, "@") /\ Raw(url, c, ":") /\ ~Raw(url, c, "/") /\ ~Raw(url, c, "@")
    BY <2>4 DEF Raw
  <2>6. ASSUME NEW i \in 1..u PROVE url[i].char = user[i] /\ \A m \in {"/", ":", "@"} : ~Raw(url, i, m)
    BY <1>1, <2>2 DEF Raw
  <2>7. ASSUME NEW k \in 1..p
        PROVE  url[c + k].char = pass[k] /\ ~Raw(url, c + k, "/") /\ ~Raw(url, c + k, "@")
    <3>1. k + 1 \in 1..(p + 1) /\ c + k = u + (k + 1)
      BY <1>1, <1>3
    <3>2. url[c + k] = Encoded(pass)[k]
      BY <1>3, <2>2, <3>1
    <3> QED
      BY <1>4, <3>2 DEF Raw
  <2>8. ASSUME NEW k \in 1..h
        PROVE  url[at + k].char = host[k] /\ ~Raw(url, at + k, "/") /\ ~Raw(url, at + k, "@")
    <3>1. k + 1 \in 1..(h + 1) /\ at + k = u + p + 1 + (k + 1)
      BY <1>1, <1>2, <1>3
    <3>2. url[at + k] = [char |-> host[k], escaped |-> FALSE]
      BY <1>2, <2>2, <3>1
    <3> QED
      BY <1>5, <3>2 DEF Raw
  <2>9. \A i \in 1..Len(url) : i # at => ~Raw(url, i, "/") /\ ~Raw(url, i, "@")
    <3> SUFFICES ASSUME NEW i \in 1..Len(url), i # at PROVE ~Raw(url, i, "/") /\ ~Raw(url, i, "@")
      OBVIOUS
    <3>1. CASE i < c
      <4>1. i \in 1..u
        BY <1>1, <2>2, <3>1
      <4> QED
        BY <2>6, <4>1
    <3>2. CASE i = c
      BY <2>5, <3>2
    <3>3. CASE i > c /\ i < at
      <4> DEFINE k == i - c
      <4>1. k \in 1..p /\ c + k = i
        BY <1>1, <1>3, <2>2, <3>3
      <4> HIDE DEF k, c
      <4> QED
        BY <2>7, <4>1
    <3>4. CASE i > at
      <4> DEFINE k == i - at
      <4>1. k \in 1..h /\ at + k = i
        BY <1>1, <1>2, <1>3, <2>2, <3>4
      <4> HIDE DEF k, at
      <4> QED
        BY <2>8, <4>1
    <3>5. i < c \/ i = c \/ (i > c /\ i < at) \/ i > at
      <4> HIDE DEF c, at
      <4> QED
        BY <2>3, <2>2
    <3> QED
      BY <3>1, <3>2, <3>3, <3>4, <3>5
  <2>10. \A i \in 1..(c - 1) : ~Raw(url, i, ":")
    BY <1>1, <2>6
  <2>11. ReadUrl(url) = [user |-> Piece(url, 1, c - 1), pass |-> Piece(url, c + 1, at - 1),
                         host |-> Piece(url, at + 1, Len(url))]
    <3> HIDE DEF at, c
    <3>1. c # at
      BY <2>3
    <3>2. ReadUrl(url) = [user |-> Piece(url, 1, c - 1),
                          pass |-> IF c = at THEN Unset ELSE Piece(url, c + 1, at - 1),
                          host |-> Piece(url, at + 1, Len(url))]
      BY <2>2, <2>3, <2>5, <2>9, <2>10, ReadLogin
    <3> QED
      BY <3>1, <3>2
  <2>12. Piece(url, 1, c - 1) = user
    <3>1. \A k \in 1..Len(user) : url[1 + k - 1].char = user[k]
      BY <1>1, <2>6 DEF u
    <3>2. 1 \in Nat /\ c - 1 \in Int /\ c - 1 = 1 + Len(user) - 1
      BY <1>1 DEF u
    <3> HIDE DEF c
    <3> QED
      BY <3>1, <3>2, TextOfPiece
  <2>13. Piece(url, c + 1, at - 1) = pass
    <3>1. \A k \in 1..p : url[c + 1 + k - 1].char = pass[k]
      <4> SUFFICES ASSUME NEW k \in 1..p PROVE url[c + 1 + k - 1].char = pass[k]
        OBVIOUS
      <4>1. c + 1 + k - 1 = c + k
        BY <1>1, <1>3
      <4> HIDE DEF c
      <4> QED
        BY <2>7, <4>1
    <3>2. c + 1 \in Nat /\ at - 1 = c + 1 + p - 1 /\ at - 1 \in Int
      BY <1>1, <1>3
    <3> HIDE DEF at, c
    <3> QED
      BY <3>1, <3>2, TextOfPiece DEF p
  <2>14. Piece(url, at + 1, Len(url)) = host
    <3>1. \A k \in 1..h : url[at + 1 + k - 1].char = host[k]
      <4> SUFFICES ASSUME NEW k \in 1..h PROVE url[at + 1 + k - 1].char = host[k]
        OBVIOUS
      <4>1. at + 1 + k - 1 = at + k
        BY <1>1, <1>2, <1>3
      <4> HIDE DEF at
      <4> QED
        BY <2>8, <4>1
    <3>2. at + 1 \in Nat /\ Len(url) = at + 1 + h - 1 /\ Len(url) \in Int
      BY <1>1, <1>2, <1>3, <2>2
    <3> HIDE DEF at
    <3> QED
      BY <3>1, <3>2, TextOfPiece DEF h
  <2> QED
    BY <1>8, <2>11, <2>12, <2>13, <2>14 DEF url
<1> QED
  BY <1>6, <1>7, <1>8

-----------------------------------------------------------------------------
(* The invariant of Sources.                                                *)

\* What is declared, set and there is one of the sources, and stays so.
PlanInv ==
    /\ \E p \in Plan : declared = p.declared /\ environment = p.environment /\ upstream = p.upstream
    /\ metadata \in [named : SUBSET (1..Commits), sequenced : SUBSET (1..Commits),
                     hint : {"none", "number", "garbled"}, hinted : 0..Commits]
    /\ metadata.named = {} \/ metadata.sequenced = {}

\* What has been found out at each stage.
StageInv ==
    /\ stage \in {"declared", "locate", "store", "options", "open"} => opened = <<>>
    /\ stage \in {"locate", "store"} => Valid
    /\ stage = "store" => InStore
    /\ stage = "open" => OptionsGiven /\ ~Kind({"iceberg"})
    /\ stage = "open second" => Kind({"postgres"}) /\ opened = <<FirstConnection>>
    /\ stage = "list" => ~Kind({"iceberg"})
    /\ stage \in {"hint", "probe", "metadata"} => Kind({"iceberg"})
    /\ stage = "registered" /\ declared.catalog /\ Kind(Catalogs) =>
          listed = {t \in upstream.tables : Listable(t)}

SecondConnection ==
    ByUrl(IF declared.url.host = Unset THEN Localhost ELSE declared.url.host,
          Database, declared.url.query)

Readers == Greatest({1, declared.size})
SqlitePool ==
    [i \in 1..(Readers + IF declared.write THEN 1 ELSE 0) |-> [write |-> i > Readers]]

OpenedInv ==
    /\ Kind(Databases) /\ opened # <<>> =>
          /\ OptionsGiven
          /\ \/ opened = <<FirstConnection>>
             \/ Kind({"postgres"}) /\ opened = <<FirstConnection, SecondConnection>>
    /\ Kind({"sqlite"}) => opened \in {<<>>, SqlitePool}

VersionType == [probe : Nat, promised : SUBSET Nat, unread : SUBSET Nat, found : Nat]

\* A version that was promised is there until the probe is below it or has failed to read it, or it
\* has expired and so has everything up to it.
Ahead(v) ==
    \/ v <= version.probe /\ v \in metadata.named
    \/ \A u \in metadata.named : u > v

VersionInv ==
    /\ version \in VersionType
    /\ stage = "probe" =>
          /\ \A v \in version.promised \ version.unread : Ahead(v)
          /\ metadata.sequenced # {} => version.promised \subseteq metadata.sequenced
    /\ stage = "metadata" => \A v \in version.promised \ version.unread : version.found >= v
    /\ VersionsRecent

SourcesInv == PlanInv /\ StageInv /\ OpenedInv /\ StoresChecked /\ VersionInv

LEMMA UnsetText == Unset \in Text /\ Localhost \in Text
<1>1. "unset" \in Letters /\ "localhost" \in Letters
  BY DEF Letters
<1> QED
  BY <1>1, OneLetter DEF Unset, Localhost

LEMMA LoginTexts ==
    ASSUME PlanInv
    PROVE  /\ User \in Text /\ Pass \in Text /\ declared.url.host \in Text
           /\ \A i \in DOMAIN declared.url.host : declared.url.host[i] \notin {"/", "@"}
<1>1. PICK p \in Plan : declared = p.declared /\ environment = p.environment
  BY DEF PlanInv
<1>2. /\ p.environment.user \in Seq(STRING) /\ p.environment.pass \in Seq(STRING)
      /\ p.declared.url.host \in Seq(STRING)
      /\ \A i \in DOMAIN p.declared.url.host : p.declared.url.host[i] \notin {"/", "@"}
  BY SourcesAssumption
<1>3. Seq(STRING) \subseteq Text
  <2> SUFFICES ASSUME NEW t \in Seq(STRING) PROVE t \in Seq(Letters)
    BY DEF Text
  <2>1. Len(t) \in Nat /\ t \in [1..Len(t) -> STRING]
    OBVIOUS
  <2>2. t \in [1..Len(t) -> Letters]
    BY <2>1 DEF Letters
  <2> QED
    BY <2>1, <2>2
<1>4. environment.user \in Text /\ environment.pass \in Text /\ declared.url.host \in Text
  BY <1>1, <1>2, <1>3
<1>5. User \in Text /\ Pass \in Text
  BY <1>4, UnsetText DEF User, Pass, Var
<1> QED
  BY <1>1, <1>2, <1>4, <1>5

LEMMA ByUrlGives ==
    ASSUME PlanInv, NEW host \in Text, \A i \in DOMAIN host : host[i] \notin {"/", "@"},
           NEW db, NEW query
    PROVE  ByUrl(host, db, query) =
               Connection(host, User, IF User = Unset THEN Unset ELSE Pass, db, query)
<1>1. User \in Text /\ Pass \in Text
  BY LoginTexts
<1>2. ReadUrl(LoginUrl(User, Pass, host)) =
          [user |-> User, pass |-> IF User = Unset THEN Unset ELSE Pass, host |-> host]
  BY <1>1, LoginRead
<1> QED
  BY <1>2 DEF ByUrl

\* What a connection has to have (ConnectionsDeclared).
OwnConnection(c) ==
    /\ declared.url.host # Unset => c.host = declared.url.host
    /\ declared.url.port # 0 => c.port = declared.url.port
    /\ Kind({"postgres", "mysql", "seekdb", "mongo"}) =>
          /\ c.user = User
          /\ c.pass = Pass \/ (c.pass = Unset /\ User = Unset)
    /\ Kind({"influxdb"}) => c.pass # <<>>

LEMMA PortDeclared == declared.url.port # 0 => Port = declared.url.port
BY DEF Port

\* The token of InfluxDB is not empty, or it is not used.
LEMMA TokenGiven ==
    ASSUME Kind({"influxdb"}), OptionsGiven
    PROVE  Header("flight.sql.header.authorization", Token) # <<>>
<1>1. <<"passed through">> # <<>> /\ <<"own token">> # <<>> /\ Unset # <<>>
  BY DEF Unset
<1>2. Opt("token_env") => environment.token # <<>>
  BY DEF OptionsGiven, InfluxOptions
<1>3. Token # <<>>
  BY <1>1, <1>2 DEF Token
<1> QED
  BY <1>1, <1>3 DEF Header

LEMMA FirstIsOwn ==
    ASSUME PlanInv, Kind(Databases), OptionsGiven
    PROVE  OwnConnection(FirstConnection)
<1> DEFINE url == declared.url
<1>1. CASE Kind({"mongo"})
  <2>1. FirstConnection = ByUrl(url.host, <<>>, {})
    BY <1>1 DEF FirstConnection, Kind
  <2>2. FirstConnection = Connection(url.host, User, IF User = Unset THEN Unset ELSE Pass, <<>>, {})
    BY <2>1, LoginTexts, ByUrlGives
  <2>3. ~Kind({"influxdb"})
    BY <1>1 DEF Kind
  <2>4. /\ FirstConnection.host = url.host /\ FirstConnection.port = Port
        /\ FirstConnection.user = User
        /\ FirstConnection.pass = IF User = Unset THEN Unset ELSE Pass
    BY <2>2 DEF Connection
  <2> QED
    BY <2>3, <2>4, PortDeclared DEF OwnConnection
<1>2. CASE Kind({"redis"})
  <2>1. FirstConnection = Connection(url.host, url.user, url.pass, url.db, url.query)
    BY <1>2 DEF FirstConnection, Kind
  <2>2. FirstConnection.host = url.host /\ FirstConnection.port = Port
    BY <2>1 DEF Connection
  <2>3. ~Kind({"influxdb"}) /\ ~Kind({"postgres", "mysql", "seekdb", "mongo"})
    BY <1>2 DEF Kind
  <2> QED
    BY <2>2, <2>3, PortDeclared DEF OwnConnection
<1>3. CASE Kind({"influxdb"})
  <2>1. FirstConnection =
          Connection(url.host, Unset, Header("flight.sql.header.authorization", Token),
                     Header("flight.sql.header.database", <<"database">>), {})
    BY <1>3 DEF FirstConnection, Kind
  <2>2. FirstConnection.host = url.host /\ FirstConnection.port = Port
        /\ FirstConnection.pass = Header("flight.sql.header.authorization", Token)
    BY <2>1 DEF Connection
  <2>3. ~Kind({"postgres", "mysql", "seekdb", "mongo"})
    BY <1>3 DEF Kind
  <2> QED
    BY <1>3, <2>2, <2>3, PortDeclared, TokenGiven DEF OwnConnection
<1>4. CASE Kind({"postgres", "mysql", "seekdb"})
  <2>1. \E query : FirstConnection = Connection(url.host, User, Pass, Database, query)
    <3>1. CASE Kind({"mysql", "seekdb"})
      <4>1. FirstConnection = Connection(url.host, User, Pass, Database, {})
        BY <3>1 DEF FirstConnection, Kind
      <4> QED
        BY <4>1
    <3>2. CASE ~Kind({"mysql", "seekdb"})
      <4>1. ~Kind({"mongo"}) /\ ~Kind({"redis"}) /\ ~Kind({"influxdb"})
        BY <1>4 DEF Kind
      <4>2. FirstConnection = Connection(url.host, User, Pass, Database, url.query)
        BY <3>2, <4>1 DEF FirstConnection
      <4> QED
        BY <4>2
    <3> QED
      BY <3>1, <3>2
  <2>2. FirstConnection.host = url.host /\ FirstConnection.port = Port
        /\ FirstConnection.user = User /\ FirstConnection.pass = Pass
    BY <2>1 DEF Connection
  <2>3. ~Kind({"influxdb"})
    BY <1>4 DEF Kind
  <2> QED
    BY <2>2, <2>3, PortDeclared DEF OwnConnection
<1> QED
  BY <1>1, <1>2, <1>3, <1>4 DEF Kind, Databases

\* The second pool of Postgres.
LEMMA SecondIsOwn ==
    ASSUME PlanInv, Kind({"postgres"})
    PROVE  /\ OwnConnection(SecondConnection)
           /\ (Pass # Unset => User # Unset) /\ declared.url.host # Unset =>
                 FirstConnection = SecondConnection
<1> DEFINE host == IF declared.url.host = Unset THEN Localhost ELSE declared.url.host
<1>1. host \in Text /\ \A i \in DOMAIN host : host[i] \notin {"/", "@"}
  <2>1. Localhost \in Text /\ \A i \in DOMAIN Localhost : Localhost[i] \notin {"/", "@"}
    <3>1. DOMAIN Localhost = {1} /\ Localhost[1] = "localhost"
      BY DEF Localhost
    <3> QED
      BY <3>1, UnsetText
  <2> QED
    BY <2>1, LoginTexts
<1>2. SecondConnection = ByUrl(host, Database, declared.url.query)
  BY DEF SecondConnection
<1>3. SecondConnection =
          Connection(host, User, IF User = Unset THEN Unset ELSE Pass, Database, declared.url.query)
  <2> HIDE DEF host
  <2> QED
    BY <1>1, <1>2, ByUrlGives
<1>4. /\ SecondConnection.host = host /\ SecondConnection.port = Port
      /\ SecondConnection.user = User
      /\ SecondConnection.pass = IF User = Unset THEN Unset ELSE Pass
  BY <1>3 DEF Connection
<1>5. ~Kind({"influxdb"}) /\ ~Kind({"mongo"}) /\ ~Kind({"redis"}) /\ ~Kind({"mysql", "seekdb"})
  BY DEF Kind
<1>6. OwnConnection(SecondConnection)
  BY <1>4, <1>5, PortDeclared DEF OwnConnection
<1>7. FirstConnection = Connection(declared.url.host, User, Pass, Database, declared.url.query)
  BY <1>5 DEF FirstConnection
<1>8. ASSUME Pass # Unset => User # Unset, declared.url.host # Unset
      PROVE  FirstConnection = SecondConnection
  BY <1>3, <1>7, <1>8
<1> QED
  BY <1>6, <1>8

LEMMA PoolReadsFirst ==
    ASSUME PlanInv
    PROVE  /\ SqlitePool # <<>> /\ ~SqlitePool[1].write
           /\ (\E i \in DOMAIN SqlitePool : SqlitePool[i].write) <=> declared.write
<1>1. declared.write \in BOOLEAN /\ declared.size \in Nat
  <2>1. PICK p \in Plan : declared = p.declared
    BY DEF PlanInv
  <2> QED
    BY <2>1, SourcesAssumption
<1>2. Readers \in Nat /\ Readers >= 1
  <2> DEFINE S == {1, declared.size}
  <2>1. S \in SUBSET Nat /\ S # {} /\ 1 \in S
    BY <1>1
  <2>2. \E n \in Nat : \A i \in S : i <= n
    <3>1. declared.size + 1 \in Nat /\ \A i \in S : i <= declared.size + 1
      BY <1>1
    <3> QED
      BY <3>1
  <2>3. Readers = Greatest(S)
    BY DEF Readers
  <2> HIDE DEF S
  <2>4. PICK n \in Nat : \A i \in S : i <= n
    BY <2>2
  <2>5. Greatest(S) \in S /\ \A i \in S : i <= Greatest(S)
    BY <2>1, <2>4, GreatestIs
  <2> QED
    BY <2>1, <2>3, <2>5
<1> DEFINE more == IF declared.write THEN 1 ELSE 0
           e(i) == [write |-> i > Readers]
<1>3. SqlitePool = [i \in 1..(Readers + more) |-> e(i)]
  BY DEF SqlitePool
<1>4. DOMAIN SqlitePool = 1..(Readers + more) /\ \A i \in 1..(Readers + more) : SqlitePool[i] = e(i)
  <2> HIDE DEF e, more
  <2> QED
    BY <1>3
<1>5. ASSUME NEW i \in 1..(Readers + more) PROVE SqlitePool[i].write <=> i > Readers
  <2>1. SqlitePool[i] = e(i)
    BY <1>4
  <2>2. e(i).write = (i > Readers)
    BY Zenon
  <2> HIDE DEF e
  <2> QED
    BY <2>1, <2>2, Zenon
<1>6. 1 \in 1..(Readers + more) /\ ~(1 > Readers) /\ DOMAIN SqlitePool # {}
  BY <1>1, <1>2, <1>4
<1>7. (\E i \in 1..(Readers + more) : i > Readers) <=> declared.write
  <2>1. CASE declared.write
    <3>1. Readers + 1 \in 1..(Readers + more) /\ Readers + 1 > Readers
      BY <1>2, <2>1
    <3> QED
      BY <2>1, <3>1
  <2>2. CASE ~declared.write
    BY <1>2, <2>2
  <2> QED
    BY <2>1, <2>2
<1> HIDE DEF more, e
<1>8. ~SqlitePool[1].write
  BY <1>5, <1>6
<1>9. (\E i \in DOMAIN SqlitePool : SqlitePool[i].write) <=> (\E i \in 1..(Readers + more) : i > Readers)
  BY <1>4, <1>5
<1>10. SqlitePool # <<>>
  BY <1>6
<1> QED
  BY <1>7, <1>8, <1>9, <1>10

\* What a catalog lists of the tables of a database.
LEMMA ListableOwn ==
    ASSUME PlanInv, Kind(Catalogs), NEW t \in upstream.tables
    PROVE  Listable(t) <=> \/ t.owner = "user" /\ t.type # "other" /\ Allowed(t)
                                 /\ ~(Kind({"sqlite"}) /\ LikeSqlite(t))
                           \/ t.owner = "shadow" /\ Allowed(t)
<1>1. Placed(declared.kind, t)
  <2>1. PICK p \in Plan : declared = p.declared /\ upstream = p.upstream
    BY DEF PlanInv
  <2>2. p.declared.kind \in Catalogs /\ t \in p.upstream.tables
    BY <2>1 DEF Kind
  <2>3. Placed(p.declared.kind, t)
    BY <2>2, SourcesAssumption
  <2> QED
    BY <2>1, <2>3
<1>2. CASE t.owner = "user"
  BY <1>1, <1>2 DEF Placed, Listable
<1>3. CASE t.owner = "system"
  BY <1>1, <1>3 DEF Placed, Listable, Kind
<1>4. CASE t.owner = "shadow"
  <2>1. declared.kind = "sqlite" /\ t.type = "table" /\ ~LikeSqlite(t)
    BY <1>1, <1>4 DEF Placed
  <2>2. SystemSchemas(declared.kind) = {}
    BY <2>1 DEF SystemSchemas
  <2> QED
    BY <1>4, <2>1, <2>2 DEF Listable
<1> QED
  BY <1>1, <1>2, <1>3, <1>4 DEF Placed

\* The invariant says what was to be shown.
LEMMA SourcesImply == SourcesInv => SourcesAsDeclared
<1> SUFFICES ASSUME SourcesInv PROVE SourcesAsDeclared
  OBVIOUS
<1> USE DEF SourcesInv
<1>1. ConnectionsDeclared
  <2>1. ASSUME Kind(Databases) PROVE \A i \in DOMAIN opened : OwnConnection(opened[i])
    <3>1. CASE opened = <<>>
      BY <3>1
    <3>2. CASE opened = <<FirstConnection>>
      <4>1. OwnConnection(FirstConnection)
        BY <2>1, <3>2, FirstIsOwn DEF OpenedInv
      <4>2. DOMAIN opened = {1} /\ opened[1] = FirstConnection
        BY <3>2
      <4> QED
        BY <4>1, <4>2
    <3>3. CASE Kind({"postgres"}) /\ opened = <<FirstConnection, SecondConnection>>
      <4>1. OwnConnection(FirstConnection) /\ OwnConnection(SecondConnection)
        BY <2>1, <3>3, FirstIsOwn, SecondIsOwn DEF OpenedInv
      <4>2. DOMAIN opened = {1, 2} /\ opened[1] = FirstConnection /\ opened[2] = SecondConnection
        BY <3>3
      <4> QED
        BY <4>1, <4>2
    <3> QED
      BY <2>1, <3>1, <3>2, <3>3 DEF OpenedInv
  <2>2. ASSUME Kind({"postgres"}), Len(opened) = 2, Pass # Unset => User # Unset,
               declared.url.host # Unset
        PROVE  opened[1] = opened[2]
    <3>1. Kind(Databases)
      BY <2>2 DEF Kind, Databases
    <3>2. opened = <<FirstConnection, SecondConnection>>
      <4>1. opened # <<>> /\ opened # <<FirstConnection>>
        BY <2>2
      <4> QED
        BY <3>1, <4>1 DEF OpenedInv
    <3>3. FirstConnection = SecondConnection
      BY <2>2, SecondIsOwn
    <3> QED
      BY <3>2, <3>3
  <2> QED
    BY <2>1, <2>2 DEF ConnectionsDeclared, OwnConnection
<1>2. SqliteReadsFirst
  BY PoolReadsFirst DEF SqliteReadsFirst, OpenedInv
<1>3. CatalogsOwn
  <2> SUFFICES ASSUME stage = "registered", declared.catalog, Kind(Catalogs), NEW t \in upstream.tables
               PROVE  t \in listed <=> \/ t.owner = "user" /\ t.type # "other" /\ Allowed(t)
                                              /\ ~(Kind({"sqlite"}) /\ LikeSqlite(t))
                                       \/ t.owner = "shadow" /\ Allowed(t)
    BY DEF CatalogsOwn
  <2>1. listed = {r \in upstream.tables : Listable(r)}
    BY DEF StageInv
  <2> QED
    BY <2>1, ListableOwn
<1> QED
  BY <1>1, <1>2, <1>3 DEF SourcesAsDeclared, VersionInv

-----------------------------------------------------------------------------
(* Its steps.  Only the writers change the metadata, and nothing else that   *)
(* is there changes.                                                         *)

LEMMA DeclaredStays ==
    ASSUME UNCHANGED <<declared, environment, upstream>>
    PROVE  /\ FirstConnection' = FirstConnection /\ SecondConnection' = SecondConnection
           /\ SqlitePool' = SqlitePool
           /\ OptionsGiven' <=> OptionsGiven
           /\ Valid' <=> Valid
           /\ InStore' <=> InStore
           /\ {t \in upstream'.tables : Listable(t)'} = {t \in upstream.tables : Listable(t)}
<1> USE DEF Kind, Opt
<1>1. Port' = Port /\ Database' = Database /\ User' = User /\ Pass' = Pass /\ Token' = Token
  BY DEF Port, DefaultPort, Database, User, Pass, Var, Token
<1>2. FirstConnection' = FirstConnection
  BY <1>1, Zenon DEF FirstConnection, ByUrl, Connection, Header
<1>3. SecondConnection' = SecondConnection
  BY <1>1, Zenon DEF SecondConnection, ByUrl, Connection
<1>4. SqlitePool' = SqlitePool
  BY Zenon DEF SqlitePool, Readers
<1>5. OptionsGiven' <=> OptionsGiven
  BY Zenon DEF OptionsGiven, Required, LoginSet, InfluxOptions
<1>6. (Valid' <=> Valid) /\ (InStore' <=> InStore)
  BY Zenon DEF Valid, InStore
<1>7. {t \in upstream'.tables : Listable(t)'} = {t \in upstream.tables : Listable(t)}
  BY Zenon DEF Listable, Allowed
<1> QED
  BY <1>2, <1>3, <1>4, <1>5, <1>6, <1>7

LEMMA SameOpened ==
    ASSUME OpenedInv, UNCHANGED <<declared, environment, upstream, opened>>
    PROVE  OpenedInv'
<1>1. /\ FirstConnection' = FirstConnection /\ SecondConnection' = SecondConnection
      /\ SqlitePool' = SqlitePool /\ (OptionsGiven' <=> OptionsGiven)
  BY DeclaredStays
<1> QED
  BY <1>1, Zenon DEF OpenedInv, Kind

LEMMA SameStores ==
    ASSUME StoresChecked, UNCHANGED <<declared, environment, upstream, stores>>
    PROVE  StoresChecked'
BY Zenon DEF StoresChecked, Kind

\* A stage at which nothing is read of an Iceberg table.
LEMMA SameVersion ==
    ASSUME VersionInv, UNCHANGED <<declared, version, metadata>>,
           stage' \notin {"probe", "metadata"}, stage' = "registered" => ~Kind({"iceberg"})
    PROVE  VersionInv'
BY DEF VersionInv, VersionsRecent, Ahead, Kind

\* And one at which nothing of a catalog is at stake.
LEMMA NewStage ==
    ASSUME StageInv, UNCHANGED <<declared, environment, upstream, opened, listed>>,
           stage \in {"declared", "locate", "store", "options", "open"} \/
              stage' \notin {"declared", "locate", "store", "options", "open"},
           stage' \in {"locate", "store"} => Valid,
           stage' = "store" => InStore,
           stage' = "open" => OptionsGiven /\ ~Kind({"iceberg"}),
           stage' \notin {"open second", "list"},
           stage' \in {"hint", "probe", "metadata"} => Kind({"iceberg"}),
           stage' = "registered" => ~Kind(Catalogs)
    PROVE  StageInv'
<1>1. (OptionsGiven' <=> OptionsGiven) /\ (Valid' <=> Valid) /\ (InStore' <=> InStore)
      /\ \A k : Kind(k)' <=> Kind(k)
  BY DeclaredStays DEF Kind
<1> QED
  BY <1>1 DEF StageInv

LEMMA SamePlan == ASSUME PlanInv, Stay PROVE PlanInv'
BY DEF PlanInv, Stay

LEMMA RefuseKeeps == ASSUME SourcesInv, Stay, Refuse PROVE SourcesInv'
<1> USE DEF SourcesInv
<1>1. UNCHANGED <<declared, environment, upstream, metadata, stores, opened, listed, version>>
      /\ stage' = "refused"
  BY DEF Stay, Refuse
<1>2. StageInv'
  BY <1>1, NewStage
<1> QED
  BY <1>1, <1>2, SamePlan, SameOpened, SameStores, SameVersion

LEMMA ValidateKeeps == ASSUME SourcesInv, Validate PROVE SourcesInv'
<1> USE DEF SourcesInv
<1>1. CASE Refuse
  BY <1>1, RefuseKeeps DEF Validate
<1>2. CASE Valid /\ Then("locate")
  <2>1. UNCHANGED <<declared, environment, upstream, metadata, stores, opened, listed, version>>
        /\ stage = "declared" /\ stage' = "locate" /\ Valid
    BY <1>2 DEF Validate, Stay, Then
  <2>2. StageInv'
    BY <2>1, NewStage
  <2> QED
    BY <2>1, <2>2, SamePlan, SameOpened, SameStores, SameVersion DEF Stay
<1> QED
  BY <1>1, <1>2 DEF Validate

LEMMA LocateKeeps == ASSUME SourcesInv, Locate PROVE SourcesInv'
<1> USE DEF SourcesInv
<1>1. CASE Refuse
  BY <1>1, RefuseKeeps DEF Locate
<1>2. CASE ~Refuse
  <2>1. UNCHANGED <<declared, environment, upstream, metadata, stores, opened, listed, version>>
        /\ stage = "locate" /\ Valid
        /\ \/ InStore /\ stage' = "store"
           \/ Kind(Files \cup {"lance"}) /\ stage' \in {"deferred", "registered"}
           \/ stage' = "options"
    BY <1>2 DEF Locate, Stay, Then, StageInv, Kind
  <2>2. Kind(Files \cup {"lance"}) => ~Kind({"iceberg"}) /\ ~Kind(Catalogs)
    BY DEF Kind, Files, Catalogs
  <2>3. StageInv'
    BY <2>1, <2>2, NewStage
  <2> QED
    BY <2>1, <2>2, <2>3, SamePlan, SameOpened, SameStores, SameVersion DEF Stay
<1> QED
  BY <1>1, <1>2

\* What is asked for before a store is registered.
LEMMA NewStoreChecked ==
    ASSUME InStore, Valid, StoreSetUp, upstream.there
    PROVE  LET s == Store(Region, StoreLogin, TRUE)
           IN  /\ s.asked /\ ~Kind({"iceberg"})
               /\ Unset \notin {s.login.key, s.region}
               /\ s.login.by = "keys" => s.login.secret # Unset
               /\ declared.given \cap ForbiddenKeys = {}
<1> DEFINE s == Store(Region, StoreLogin, TRUE)
<1>1. s.asked /\ s.region = Region /\ s.login = StoreLogin
  BY DEF Store
<1>2. ~Kind({"iceberg"}) /\ declared.given \cap ForbiddenKeys = {}
  BY DEF InStore, Kind, Files, Valid
<1>3. CASE environment.key # Unset
  <2>1. StoreLogin = [by |-> "keys", key |-> environment.key, secret |-> environment.secret,
                      session |-> environment.session]
    BY <1>3 DEF StoreLogin, Login
  <2>2. StoreLogin.key = environment.key /\ StoreLogin.secret = environment.secret
    BY <2>1
  <2> HIDE DEF s
  <2> QED
    BY <1>1, <1>2, <1>3, <2>2 DEF StoreSetUp, s
<1>4. CASE environment.key = Unset
  <2>1. StoreLogin = [by |-> "profile", key |-> environment.profile, secret |-> Unset,
                      session |-> Unset]
    BY <1>4 DEF StoreLogin, Login
  <2>2. StoreLogin.key = environment.profile /\ StoreLogin.by # "keys"
    BY <2>1
  <2> HIDE DEF s
  <2> QED
    BY <1>1, <1>2, <1>4, <2>2 DEF StoreSetUp, s
<1> QED
  BY <1>3, <1>4

LEMMA SetUpStoreKeeps == ASSUME SourcesInv, SetUpStore PROVE SourcesInv'
<1> USE DEF SourcesInv
<1>1. CASE Refuse
  BY <1>1, RefuseKeeps DEF SetUpStore
<1>2. CASE ~Refuse
  <2> DEFINE s == Store(Region, StoreLogin, TRUE)
  <2>1. UNCHANGED <<declared, environment, upstream, metadata, opened, listed, version>>
        /\ stage = "store" /\ stage' \in {"deferred", "registered"}
        /\ stores' = stores \cup {s} /\ StoreSetUp /\ upstream.there
    BY <1>2 DEF SetUpStore, Stay
  <2>2. Valid /\ InStore
    BY <2>1 DEF StageInv
  <2>3. ~Kind({"iceberg"}) /\ ~Kind(Catalogs)
    BY <2>2 DEF InStore, Kind, Files, Catalogs
  <2>4. StageInv'
    BY <2>1, <2>3, NewStage
  <2>5. /\ s.asked /\ Unset \notin {s.login.key, s.region}
        /\ s.login.by = "keys" => s.login.secret # Unset
        /\ declared.given \cap ForbiddenKeys = {}
    BY <2>1, <2>2, NewStoreChecked
  <2> HIDE DEF s
  <2>6. StoresChecked'
    <3> SUFFICES ASSUME NEW r \in stores'
                 PROVE  /\ r.asked <=> ~Kind({"iceberg"})'
                        /\ r.asked => /\ upstream'.there /\ Unset \notin {r.login.key, r.region}
                                      /\ r.login.by = "keys" => r.login.secret # Unset
                                      /\ declared'.given \cap ForbiddenKeys = {}
      BY Zenon DEF StoresChecked
    <3>1. Kind({"iceberg"})' <=> Kind({"iceberg"})
      BY <2>1 DEF Kind
    <3>2. CASE r = s
      BY <2>1, <2>3, <2>5, <3>1, <3>2, Zenon
    <3>3. CASE r \in stores
      BY <2>1, <3>1, <3>3, Zenon DEF StoresChecked
    <3> QED
      BY <2>1, <3>2, <3>3
  <2> QED
    BY <2>1, <2>3, <2>4, <2>6, SamePlan, SameOpened, SameVersion DEF Stay
<1> QED
  BY <1>1, <1>2

LEMMA CheckOptionsKeeps == ASSUME SourcesInv, CheckOptions PROVE SourcesInv'
<1> USE DEF SourcesInv
<1>1. CASE Refuse
  BY <1>1, RefuseKeeps DEF CheckOptions
<1>2. CASE ~Refuse
  <2>1. UNCHANGED <<declared, environment, upstream, metadata, opened, listed, version>>
        /\ stage = "options" /\ OptionsGiven
        /\ stage' = (IF Kind({"iceberg"}) THEN "hint" ELSE "open")
        /\ stores' = IF Kind({"iceberg"}) /\ declared.s3 THEN {FileIo} ELSE stores
    BY <1>2 DEF CheckOptions, Stay
  <2>2. StageInv'
    <3>1. opened = <<>>
      BY <2>1 DEF StageInv
    <3>2. (OptionsGiven' <=> OptionsGiven) /\ \A k : Kind(k)' <=> Kind(k)
      BY <2>1, DeclaredStays DEF Kind
    <3> QED
      BY <2>1, <3>1, <3>2 DEF StageInv
  <2>3. StoresChecked'
    <3>1. CASE Kind({"iceberg"}) /\ declared.s3
      <4>1. stores' = {FileIo} /\ FileIo.asked = FALSE
        BY <2>1, <3>1, Zenon DEF FileIo, Store
      <4>2. Kind({"iceberg"})'
        BY <2>1, <3>1 DEF Kind
      <4> QED
        BY <4>1, <4>2, Zenon DEF StoresChecked
    <3>2. CASE ~(Kind({"iceberg"}) /\ declared.s3)
      BY <2>1, <3>2, SameStores
    <3> QED
      BY <3>1, <3>2
  <2> QED
    BY <2>1, <2>2, <2>3, SamePlan, SameOpened, SameVersion DEF Stay
<1> QED
  BY <1>1, <1>2

LEMMA AppendGives ==
    ASSUME NEW S, NEW s \in Seq(S), NEW e \in S
    PROVE  /\ Append(s, e) \in Seq(S) /\ Len(Append(s, e)) = Len(s) + 1
           /\ \A i \in 1..Len(s) : Append(s, e)[i] = s[i]
           /\ Append(s, e)[Len(s) + 1] = e
OBVIOUS

LEMMA Appended ==
    ASSUME NEW a, NEW b
    PROVE  Append(<<>>, a) = <<a>> /\ Append(<<a>>, b) = <<a, b>>
<1>1. Append(<<>>, a) = <<a>>
  OBVIOUS
<1>2. Append(<<a>>, b) = <<a, b>>
  <2> DEFINE S == {a, b}
             x == <<a>>
             y == Append(x, b)
  <2>1. <<a>> \in Seq(S) /\ Len(<<a>>) = 1 /\ <<a>>[1] = a
    OBVIOUS
  <2>2. x \in Seq(S) /\ Len(x) = 1 /\ x[1] = a
    BY <2>1 DEF x
  <2> HIDE DEF x
  <2>3. b \in S
    OBVIOUS
  <2> HIDE DEF S
  <2>4. /\ y \in Seq(S) /\ Len(y) = Len(x) + 1 /\ y[Len(x) + 1] = b
        /\ \A i \in 1..Len(x) : y[i] = x[i]
    BY ONLY <2>2, <2>3, AppendGives
  <2>5. y \in Seq(S) /\ Len(y) = 2 /\ y[2] = b
    <3>1. Len(x) + 1 = 2
      BY <2>2
    <3> HIDE DEF y
    <3> QED
      BY <2>4, <3>1
  <2>6. y[1] = a
    <3>1. 1 \in 1..Len(x)
      BY <2>2
    <3> HIDE DEF y
    <3> QED
      BY <2>2, <2>4, <3>1
  <2> HIDE DEF y
  <2>7. y = <<a, b>>
    BY <2>5, <2>6
  <2> QED
    BY <2>7 DEF x, y
<1> QED
  BY <1>1, <1>2

LEMMA OpenFirstKeeps == ASSUME SourcesInv, OpenFirst PROVE SourcesInv'
<1> USE DEF SourcesInv
<1>1. CASE Refuse
  BY <1>1, RefuseKeeps DEF OpenFirst
<1>2. CASE ~Refuse
  <2>1. UNCHANGED <<declared, environment, upstream, metadata, stores, listed, version>>
        /\ stage = "open" /\ Kind(Databases)
        /\ stage' = (IF Kind({"postgres"}) THEN "open second" ELSE Listing)
        /\ opened' = Append(opened, FirstConnection)
    BY <1>2, Zenon DEF OpenFirst, Stay, Open
  <2>2. opened = <<>> /\ OptionsGiven /\ ~Kind({"iceberg"})
    BY <2>1 DEF StageInv
  <2>3. opened' = <<FirstConnection>>
    BY <2>1, <2>2, Appended, Zenon
  <2>4. /\ FirstConnection' = FirstConnection /\ SecondConnection' = SecondConnection
        /\ SqlitePool' = SqlitePool /\ (OptionsGiven' <=> OptionsGiven)
        /\ \A k : Kind(k)' <=> Kind(k)
    BY <2>1, DeclaredStays DEF Kind
  <2>5. stage' \in {"open second", "list", "registered"}
        /\ (stage' = "registered" => ~declared.catalog)
        /\ (stage' = "open second" => Kind({"postgres"}))
    BY <2>1 DEF Listing
  <2>6. StageInv'
    BY <2>1, <2>2, <2>3, <2>4, <2>5 DEF StageInv
  <2>7. ~Kind({"sqlite"})
    BY <2>1 DEF Kind, Databases
  <2>8. OpenedInv'
    BY <2>2, <2>3, <2>4, <2>7 DEF OpenedInv
  <2> QED
    BY <2>1, <2>2, <2>5, <2>6, <2>8, SamePlan, SameStores, SameVersion DEF Stay
<1> QED
  BY <1>1, <1>2

LEMMA OpenSecondKeeps == ASSUME SourcesInv, OpenSecond PROVE SourcesInv'
<1> USE DEF SourcesInv
<1>1. CASE Refuse
  BY <1>1, RefuseKeeps DEF OpenSecond
<1>2. CASE ~Refuse
  <2>1. UNCHANGED <<declared, environment, upstream, metadata, stores, listed, version>>
        /\ stage = "open second" /\ stage' = Listing
        /\ opened' = Append(opened, SecondConnection)
    BY <1>2, Zenon DEF OpenSecond, Stay, Open, SecondConnection
  <2>2. Kind({"postgres"}) /\ opened = <<FirstConnection>>
    BY <2>1 DEF StageInv
  <2>3. opened' = <<FirstConnection, SecondConnection>>
    BY <2>1, <2>2, Appended, Zenon
  <2>4. /\ FirstConnection' = FirstConnection /\ SecondConnection' = SecondConnection
        /\ SqlitePool' = SqlitePool /\ (OptionsGiven' <=> OptionsGiven)
        /\ \A k : Kind(k)' <=> Kind(k)
    BY <2>1, DeclaredStays DEF Kind
  <2>5. stage' \in {"list", "registered"} /\ (stage' = "registered" => ~declared.catalog)
    BY <2>1 DEF Listing
  <2>6. Kind(Databases) /\ ~Kind({"sqlite"}) /\ ~Kind({"iceberg"})
    BY <2>2 DEF Kind, Databases
  <2>7. StageInv'
    BY <2>1, <2>4, <2>5, <2>6 DEF StageInv
  <2>8. OptionsGiven
    BY <2>2, <2>6 DEF OpenedInv
  <2>9. OpenedInv'
    BY <2>2, <2>3, <2>4, <2>6, <2>8 DEF OpenedInv
  <2> QED
    BY <2>1, <2>5, <2>6, <2>7, <2>9, SamePlan, SameStores, SameVersion DEF Stay
<1> QED
  BY <1>1, <1>2

LEMMA OpenSqliteKeeps == ASSUME SourcesInv, OpenSqlite PROVE SourcesInv'
<1> USE DEF SourcesInv
<1>1. CASE Refuse
  BY <1>1, RefuseKeeps DEF OpenSqlite
<1>2. CASE ~Refuse
  <2>1. UNCHANGED <<declared, environment, upstream, metadata, stores, listed, version>>
        /\ stage = "open" /\ Kind({"sqlite"}) /\ stage' = Listing /\ opened' = SqlitePool
    BY <1>2, Zenon DEF OpenSqlite, Stay, SqlitePool, Readers
  <2>2. /\ SqlitePool' = SqlitePool /\ (OptionsGiven' <=> OptionsGiven)
        /\ \A k : Kind(k)' <=> Kind(k)
    BY <2>1, DeclaredStays DEF Kind
  <2>3. stage' \in {"list", "registered"} /\ (stage' = "registered" => ~declared.catalog)
    BY <2>1 DEF Listing
  <2>4. ~Kind(Databases) /\ ~Kind({"iceberg"})
    BY <2>1 DEF Kind, Databases
  <2>5. StageInv'
    BY <2>1, <2>2, <2>3, <2>4 DEF StageInv
  <2>6. OpenedInv'
    BY <2>1, <2>2, <2>4 DEF OpenedInv
  <2> QED
    BY <2>1, <2>3, <2>4, <2>5, <2>6, SamePlan, SameStores, SameVersion DEF Stay
<1> QED
  BY <1>1, <1>2

LEMMA ListTablesKeeps == ASSUME SourcesInv, ListTables PROVE SourcesInv'
<1> USE DEF SourcesInv
<1>1. CASE Refuse
  BY <1>1, RefuseKeeps DEF ListTables
<1>2. CASE ~Refuse
  <2>1. UNCHANGED <<declared, environment, upstream, metadata, stores, opened, version>>
        /\ stage = "list" /\ stage' = "registered"
        /\ listed' = {t \in upstream.tables : Listable(t)}
    BY <1>2, Zenon DEF ListTables, Stay
  <2>2. ~Kind({"iceberg"})
    BY <2>1 DEF StageInv
  <2>3. listed' = {t \in upstream'.tables : Listable(t)'}
    BY <2>1, DeclaredStays, Zenon
  <2>4. StageInv'
    BY <2>1, <2>3, Zenon DEF StageInv
  <2> QED
    BY <2>1, <2>2, <2>4, SamePlan, SameOpened, SameStores, SameVersion DEF Stay
<1> QED
  BY <1>1, <1>2

-----------------------------------------------------------------------------
(* An Iceberg table.                                                        *)

LEMMA NewestNamed ==
    ASSUME PlanInv
    PROVE  /\ Newest \in {0} \cup metadata.named /\ Newest \in 0..Commits
           /\ metadata.named \in SUBSET (1..Commits) /\ metadata.sequenced \in SUBSET (1..Commits)
           /\ Commits \in Nat /\ Probed \in Nat
           /\ \A v \in metadata.named : v <= Newest
<1> DEFINE S == {0} \cup metadata.named
<1>1. metadata.named \in SUBSET (1..Commits) /\ metadata.sequenced \in SUBSET (1..Commits)
      /\ Commits \in Nat /\ Probed \in Nat
  BY SourcesAssumption DEF PlanInv
<1>2. S \in SUBSET Nat /\ S # {} /\ \A i \in S : i <= Commits
  BY <1>1
<1>3. Newest = Greatest(S)
  BY DEF Newest
<1> HIDE DEF S
<1>4. Newest \in S /\ \A i \in S : i <= Newest
  BY <1>1, <1>2, <1>3, GreatestIs
<1> QED
  BY <1>1, <1>4 DEF S

LEMMA ReadHintKeeps == ASSUME SourcesInv, ReadHint PROVE SourcesInv'
<1> USE DEF SourcesInv
<1>1. UNCHANGED <<declared, environment, upstream, metadata, stores, opened, listed>>
      /\ stage = "hint" /\ stage' \in {"probe", "metadata"}
  BY DEF ReadHint, Stay
<1>2. Kind({"iceberg"}) /\ StageInv'
  BY <1>1, NewStage DEF StageInv
<1>3. /\ version \in VersionType /\ Probed \in Nat
      /\ metadata.named \in SUBSET (1..Commits) /\ metadata.sequenced \in SUBSET (1..Commits)
      /\ Commits \in Nat /\ (metadata.named = {} \/ metadata.sequenced = {})
  BY NewestNamed DEF VersionInv, PlanInv
<1>4. VersionInv'
  <2>1. CASE stage' = "probe"
    <3>1. version' = [version EXCEPT !.promised = Seen, !.probe = Probed]
      BY <2>1 DEF ReadHint
    <3>2. /\ Seen \in SUBSET Nat
          /\ \A v \in Seen : \/ v <= Probed /\ v \in metadata.named
                             \/ \A u \in metadata.named : u > v
          /\ metadata.sequenced # {} => Seen = metadata.sequenced
      BY <1>3 DEF Seen
    <3>3. version' \in VersionType /\ version'.promised = Seen /\ version'.probe = Probed
      BY <1>3, <3>1, <3>2 DEF VersionType
    <3> QED
      BY <1>1, <2>1, <3>2, <3>3 DEF VersionInv, VersionsRecent, Ahead
  <2>2. CASE stage' = "metadata"
    <3>1. version' = [version EXCEPT !.promised = {Hinted}, !.found = Hinted]
      BY <2>2 DEF ReadHint
    <3>2. Hinted \in Nat
      <4>1. metadata.hinted \in 0..Commits /\ Commits \in Nat
        BY NewestNamed DEF PlanInv
      <4> QED
        BY <4>1 DEF Hinted
    <3>3. /\ version' \in VersionType
          /\ version'.promised = {Hinted} /\ version'.found = Hinted
      BY <1>3, <3>1, <3>2 DEF VersionType
    <3> QED
      BY <2>2, <3>2, <3>3 DEF VersionInv, VersionsRecent
  <2> QED
    BY <1>1, <2>1, <2>2
<1> QED
  BY <1>1, <1>2, <1>4, SamePlan, SameOpened, SameStores DEF Stay

LEMMA ProbeVersionKeeps == ASSUME SourcesInv, ProbeVersion PROVE SourcesInv'
<1> USE DEF SourcesInv
<1>1. UNCHANGED <<declared, environment, upstream, metadata, stores, opened, listed>>
      /\ stage = "probe" /\ stage' \in {"probe", "metadata"} /\ version.probe > 0
  BY DEF ProbeVersion, Stay
<1>2. Kind({"iceberg"}) /\ StageInv'
  BY <1>1, NewStage DEF StageInv
<1>3. /\ version \in VersionType /\ metadata.named \in SUBSET Nat
      /\ \A v \in version.promised \ version.unread : Ahead(v)
      /\ metadata.sequenced # {} => version.promised \subseteq metadata.sequenced
  BY <1>1, NewestNamed DEF VersionInv
<1>4. VersionInv'
  <2>1. CASE stage' = "metadata"
    <3>1. version' = [version EXCEPT !.found = version.probe] /\ version.probe \in metadata.named
      BY <2>1 DEF ProbeVersion, FoundAt
    <3>2. /\ version' \in VersionType /\ version'.found = version.probe
          /\ version'.promised = version.promised /\ version'.unread = version.unread
      BY <1>3, <3>1 DEF VersionType
    <3>3. \A v \in version.promised \ version.unread : version.probe >= v
      BY <1>3, <3>1 DEF VersionType, Ahead
    <3> QED
      BY <2>1, <3>2, <3>3 DEF VersionInv, VersionsRecent
  <2>2. CASE stage' = "probe"
    <3> DEFINE missed == version.unread \cup ({version.probe} \cap metadata.named)
    <3>1. version' = [version EXCEPT !.probe = version.probe - 1, !.unread = missed]
      BY <2>2 DEF ProbeVersion
    <3>2. missed \in SUBSET Nat
      BY <1>3 DEF VersionType
    <3>3. \A v \in missed : v \in version.unread \/ v = version.probe
      OBVIOUS
    <3>4. version.unread \subseteq missed /\ (version.probe \in metadata.named => version.probe \in missed)
      OBVIOUS
    <3> HIDE DEF missed
    <3>5. /\ version' \in VersionType /\ version'.probe = version.probe - 1
          /\ version'.promised = version.promised /\ version'.unread = missed
      <4>1. version \in VersionType /\ version.probe \in Nat /\ version.probe - 1 \in Nat
        BY <1>1, <1>3 DEF VersionType
      <4> QED
        BY <3>1, <3>2, <4>1 DEF VersionType
    <3>6. ASSUME NEW v \in version.promised \ missed PROVE Ahead(v)'
      <4>1. v \in Nat /\ version.probe \in Nat /\ Ahead(v)
        BY <1>3, <3>4 DEF VersionType
      <4>2. CASE v <= version.probe /\ v \in metadata.named
        <5>1. v # version.probe
          BY <3>4, <4>2
        <5>2. v <= version.probe - 1
          BY <4>1, <4>2, <5>1
        <5> QED
          BY <1>1, <3>5, <4>2, <5>2 DEF Ahead
      <4>3. CASE \A u \in metadata.named : u > v
        BY <1>1, <4>3 DEF Ahead
      <4> QED
        BY <4>1, <4>2, <4>3 DEF Ahead
    <3> QED
      BY <1>1, <1>3, <2>2, <3>5, <3>6 DEF VersionInv, VersionsRecent
  <2> QED
    BY <1>1, <2>1, <2>2
<1> QED
  BY <1>1, <1>2, <1>4, SamePlan, SameOpened, SameStores DEF Stay

LEMMA ReadSequenceKeeps == ASSUME SourcesInv, ReadSequence PROVE SourcesInv'
<1> USE DEF SourcesInv
<1>1. CASE Refuse
  BY <1>1, RefuseKeeps DEF ReadSequence
<1>2. CASE ~Refuse
  <2>1. UNCHANGED <<declared, environment, upstream, metadata, stores, opened, listed>>
        /\ stage = "probe" /\ stage' = "registered" /\ metadata.sequenced # {}
        /\ version' = [version EXCEPT !.found = Greatest(metadata.sequenced)]
    BY <1>2 DEF ReadSequence, Stay, FoundAt
  <2>2. Kind({"iceberg"})
    BY <2>1 DEF StageInv
  <2>3. ~Kind(Catalogs)
    BY <2>2 DEF Kind, Catalogs
  <2>4. StageInv'
    BY <2>1, <2>3, NewStage
  <2>5. version \in VersionType /\ version.promised \subseteq metadata.sequenced
    BY <2>1 DEF VersionInv
  <2>6. /\ Greatest(metadata.sequenced) \in Nat /\ Greatest(metadata.sequenced) > 0
        /\ \A v \in metadata.sequenced : v <= Greatest(metadata.sequenced)
    <3> DEFINE S == metadata.sequenced
    <3>1. Commits \in Nat /\ S \in SUBSET (1..Commits)
      BY NewestNamed
    <3>2. S \in SUBSET Nat /\ S # {} /\ \A i \in S : i <= Commits
      BY <2>1, <3>1
    <3> HIDE DEF S
    <3>3. Greatest(S) \in S /\ \A j \in S : j <= Greatest(S)
      BY <3>1, <3>2, GreatestIs
    <3>4. Greatest(S) \in 1..Commits
      BY <3>1, <3>3
    <3> QED
      BY <3>1, <3>3, <3>4 DEF S
  <2>7. VersionInv'
    <3>1. /\ version' \in VersionType /\ version'.found = Greatest(metadata.sequenced)
          /\ version'.promised = version.promised /\ version'.unread = version.unread
      BY <2>1, <2>5, <2>6 DEF VersionType
    <3>2. \A v \in version.promised : v \in Nat /\ v <= Greatest(metadata.sequenced)
      BY <2>5, <2>6 DEF VersionType
    <3> QED
      BY <2>1, <2>6, <3>1, <3>2 DEF VersionInv, VersionsRecent
  <2> QED
    BY <2>1, <2>4, <2>7, SamePlan, SameOpened, SameStores DEF Stay
<1> QED
  BY <1>1, <1>2

LEMMA LoadMetadataKeeps == ASSUME SourcesInv, LoadMetadata PROVE SourcesInv'
<1> USE DEF SourcesInv
<1>1. CASE Refuse
  BY <1>1, RefuseKeeps DEF LoadMetadata
<1>2. CASE ~Refuse
  <2>1. UNCHANGED <<declared, environment, upstream, metadata, stores, opened, listed, version>>
        /\ stage = "metadata" /\ stage' = "registered" /\ version.found \in metadata.named
    BY <1>2 DEF LoadMetadata, Stay, Then
  <2>2. Kind({"iceberg"})
    BY <2>1 DEF StageInv
  <2>3. ~Kind(Catalogs)
    BY <2>2 DEF Kind, Catalogs
  <2>4. StageInv'
    BY <2>1, <2>3, NewStage
  <2>5. version.found \in 1..Commits /\ Commits \in Nat
    BY <2>1, NewestNamed
  <2>6. VersionInv'
    BY <2>1, <2>5 DEF VersionInv, VersionsRecent
  <2> QED
    BY <2>1, <2>4, <2>6, SamePlan, SameOpened, SameStores DEF Stay
<1> QED
  BY <1>1, <1>2

\* The stages do not see the writers.
LEMMA OthersKeep ==
    ASSUME SourcesInv, Others
    PROVE  StageInv' /\ OpenedInv' /\ StoresChecked'
<1> USE DEF SourcesInv
<1>1. UNCHANGED <<declared, environment, upstream, stage, stores, opened, listed>>
  BY DEF Others
<1>2. /\ FirstConnection' = FirstConnection
      /\ (OptionsGiven' <=> OptionsGiven) /\ (Valid' <=> Valid) /\ (InStore' <=> InStore)
      /\ {t \in upstream'.tables : Listable(t)'} = {t \in upstream.tables : Listable(t)}
      /\ \A k : Kind(k)' <=> Kind(k)
  BY <1>1, DeclaredStays DEF Kind
<1>3. StageInv'
  BY <1>1, <1>2, Zenon DEF StageInv
<1> QED
  BY <1>1, <1>3, SameOpened, SameStores

\* What a writer has to leave for a probe that is under way.
LEMMA WriterKeeps ==
    ASSUME SourcesInv, Others, PlanInv', metadata'.sequenced = metadata.sequenced,
           \A v \in metadata'.named : v \in metadata.named \/ v > Newest,
           metadata.named = {} => metadata'.named = {},
           \A v \in metadata.named : v \in metadata'.named \/ \A u \in metadata'.named : u > v
    PROVE  SourcesInv'
<1> USE DEF SourcesInv
<1>1. UNCHANGED <<declared, stage, version>>
  BY DEF Others
<1>2. /\ version \in VersionType
      /\ metadata.named \in SUBSET Nat /\ metadata'.named \in SUBSET (1..Commits)
      /\ Newest \in Nat /\ \A v \in metadata.named : v <= Newest
  BY NewestNamed DEF VersionInv, PlanInv
<1>3. VersionInv'
  <2>1. CASE stage = "probe"
    <3>1. /\ \A v \in version.promised \ version.unread : Ahead(v)
          /\ metadata.sequenced # {} => version.promised \subseteq metadata.sequenced
      BY <2>1 DEF VersionInv
    <3>2. ASSUME NEW v \in version.promised \ version.unread PROVE Ahead(v)'
      <4>0. Ahead(v) /\ v \in Nat
        BY <1>2, <3>1 DEF VersionType
      <4>1. CASE v <= version.probe /\ v \in metadata.named
        BY <1>1, <4>1 DEF Ahead
      <4>2. CASE metadata.named = {}
        BY <4>2 DEF Ahead
      <4>3. CASE metadata.named # {} /\ \A u \in metadata.named : u > v
        <5>1. PICK w \in metadata.named : TRUE
          BY <4>3
        <5>2. Newest > v
          BY <1>2, <4>0, <4>3, <5>1
        <5>3. ASSUME NEW u \in metadata'.named PROVE u > v
          <6>1. u \in Nat
            BY <1>2, NewestNamed
          <6> QED
            BY <1>2, <4>0, <4>3, <5>2, <5>3, <6>1
        <5> QED
          BY <5>3 DEF Ahead
      <4> QED
        BY <4>0, <4>1, <4>2, <4>3 DEF Ahead
    <3> QED
      BY <1>1, <2>1, <3>1, <3>2 DEF VersionInv, VersionsRecent
  <2>2. CASE stage # "probe"
    BY <1>1, <2>2 DEF VersionInv, VersionsRecent, Kind
  <2> QED
    BY <2>1, <2>2
<1> QED
  BY <1>3, OthersKeep

LEMMA CommitKeeps == ASSUME SourcesInv, Commit PROVE SourcesInv'
<1> USE DEF SourcesInv
<1>1. /\ Others /\ metadata.named # {} /\ Newest < Commits
      /\ metadata' = [metadata EXCEPT !.named = metadata.named \cup {Newest + 1}]
  BY DEF Commit
<1>2. /\ Newest \in 0..Commits /\ Commits \in Nat /\ metadata.named \in SUBSET (1..Commits)
      /\ \A v \in metadata.named : v <= Newest
  BY NewestNamed
<1>3. /\ metadata'.named = metadata.named \cup {Newest + 1}
      /\ metadata'.sequenced = metadata.sequenced /\ metadata'.hint = metadata.hint
      /\ metadata'.hinted = metadata.hinted
  BY <1>1 DEF PlanInv
<1>4. PlanInv'
  <2>1. metadata'.named \in SUBSET (1..Commits)
    BY <1>1, <1>2, <1>3
  <2> QED
    BY <1>1, <1>3, <2>1 DEF PlanInv, Others
<1>5. \A v \in metadata'.named : v \in metadata.named \/ v > Newest
  BY <1>2, <1>3
<1> QED
  BY <1>1, <1>3, <1>4, <1>5, WriterKeeps

LEMMA NameNewestKeeps == ASSUME SourcesInv, NameNewest PROVE SourcesInv'
<1> USE DEF SourcesInv
<1>1. Others /\ metadata' = [metadata EXCEPT !.hinted = Newest]
  BY DEF NameNewest
<1>2. Newest \in 0..Commits
  BY NewestNamed
<1>3. /\ metadata'.named = metadata.named
      /\ metadata'.sequenced = metadata.sequenced
  BY <1>1 DEF PlanInv
<1>4. PlanInv'
  BY <1>1, <1>2, <1>3 DEF PlanInv, Others
<1> QED
  BY <1>1, <1>3, <1>4, WriterKeeps

LEMMA ExpireKeeps == ASSUME SourcesInv, Expire PROVE SourcesInv'
<1> USE DEF SourcesInv
<1> DEFINE least == Least(metadata.named)
<1>1. Others /\ metadata' = [metadata EXCEPT !.named = metadata.named \ {least}]
  BY DEF Expire
<1>2. metadata.named \in SUBSET Nat
  BY NewestNamed
<1>3. metadata.named # {} => least \in metadata.named /\ \A v \in metadata.named : least <= v
  BY <1>2, LeastIs
<1> HIDE DEF least
<1>4. /\ metadata'.named = metadata.named \ {least}
      /\ metadata'.sequenced = metadata.sequenced
  BY <1>1 DEF PlanInv
<1>5. PlanInv'
  BY <1>1, <1>4 DEF PlanInv, Others
<1>6. \A v \in metadata.named : v \in metadata'.named \/ \A u \in metadata'.named : u > v
  BY <1>2, <1>3, <1>4
<1> QED
  BY <1>1, <1>4, <1>5, <1>6, WriterKeeps

LEMMA SourcesInitial == SourcesInit => SourcesInv
<1> SUFFICES ASSUME SourcesInit PROVE SourcesInv
  OBVIOUS
<1>1. PICK p \in Plan : /\ declared = p.declared /\ environment = p.environment
                        /\ upstream = p.upstream /\ metadata = p.metadata
  BY DEF SourcesInit
<1>2. PlanInv
  <2>1. p.metadata \in [named : SUBSET (1..Commits), sequenced : SUBSET (1..Commits),
                        hint : {"none", "number", "garbled"}, hinted : 0..Commits]
        /\ (p.metadata.named = {} \/ p.metadata.sequenced = {})
    BY SourcesAssumption
  <2> QED
    BY <1>1, <2>1 DEF PlanInv
<1>3. stage = "declared" /\ stores = {} /\ opened = <<>>
      /\ version = [probe |-> 0, promised |-> {}, unread |-> {}, found |-> 0]
  BY DEF SourcesInit
<1> QED
  BY <1>2, <1>3 DEF SourcesInv, StageInv, OpenedInv, StoresChecked, VersionInv, VersionType, VersionsRecent

LEMMA SourcesStep == SourcesInv /\ [SourcesNext]_sourceVars => SourcesInv'
<1> SUFFICES ASSUME SourcesInv, [SourcesNext]_sourceVars PROVE SourcesInv'
  OBVIOUS
<1>1. CASE UNCHANGED sourceVars
  <2>1. Stay /\ UNCHANGED <<declared, environment, upstream, metadata, stage, stores, opened, listed, version>>
    BY <1>1 DEF sourceVars, Stay
  <2>2. Others
    BY <2>1 DEF Others
  <2>3. VersionInv'
    BY <2>1 DEF SourcesInv, VersionInv, VersionsRecent, Ahead, Kind
  <2> QED
    BY <2>1, <2>2, <2>3, SamePlan, OthersKeep DEF SourcesInv
<1>2. CASE SourcesNext
  BY <1>2, ValidateKeeps, LocateKeeps, SetUpStoreKeeps, CheckOptionsKeeps, OpenFirstKeeps,
     OpenSecondKeeps, OpenSqliteKeeps, ListTablesKeeps, ReadHintKeeps, ProbeVersionKeeps,
     ReadSequenceKeeps, LoadMetadataKeeps, CommitKeeps, NameNewestKeeps, ExpireKeeps
     DEF SourcesNext
<1> QED
  BY <1>1, <1>2

\* A source reads what its declaration says, or is refused: the connections of connect in the
\* providers, the stores of setup_object_store, the catalogs' tables, and the version that
\* find_latest_metadata finds while others commit and expire versions and any read may fail: only
\* a version whose own read failed is passed over.
THEOREM SourcesDeclared == SourcesSpec => []SourcesAsDeclared
<1> QED
  BY SourcesInitial, SourcesStep, SourcesImply, PTL DEF SourcesSpec

-----------------------------------------------------------------------------
(* Tables in the text of a page.  The function that collects them goes from  *)
(* a line to a later one, so that there is one; what it collects is shown    *)
(* from the last line to the first.                                         *)

Lines == Seq({"row", "rule", "text"})

LEMMA BlockEndIs ==
    ASSUME NEW lines \in Lines, NEW i \in 1..Len(lines), IsRow(lines, i)
    PROVE  /\ BlockEnd(lines, i) \in i..Len(lines)
           /\ \A k \in i..BlockEnd(lines, i) : IsRow(lines, k)
           /\ BlockEnd(lines, i) < Len(lines) => ~IsRow(lines, BlockEnd(lines, i) + 1)
<1> DEFINE n == Len(lines)
           S == {j \in i..n : \A k \in i..j : IsRow(lines, k)}
<1>1. n \in Nat /\ i \in Nat
  BY DEF Lines
<1>2. S \in SUBSET Nat /\ i \in S /\ \A j \in S : j <= n
  <2>1. \A k \in i..i : k = i
    BY <1>1
  <2> QED
    BY <1>1, <2>1
<1>3. PICK j \in S : \A k \in S : k <= j
  <2> HIDE DEF S
  <2>1. S # {}
    BY <1>2
  <2> QED
    BY <1>1, <1>2, <2>1, GreatestExists
<1>4. j < n => ~IsRow(lines, j + 1)
  <2> SUFFICES ASSUME j < n, IsRow(lines, j + 1) PROVE FALSE
    OBVIOUS
  <2>1. \A k \in i..(j + 1) : k \in i..j \/ k = j + 1
    BY <1>1
  <2>2. j + 1 \in S
    BY <1>1, <2>1
  <2> QED
    BY <1>1, <1>3, <2>2
<1>5. \E e \in i..Len(lines) : /\ \A k \in i..e : IsRow(lines, k)
                               /\ e < Len(lines) => ~IsRow(lines, e + 1)
  BY <1>4
<1> QED
  BY <1>5 DEF BlockEnd

\* The tables from a line on, if it is known which there are from each later one.
TablesFrom(lines, later, i) ==
    IF i >= Len(lines) THEN {}
    ELSE IF IsRow(lines, i) /\ IsRule(lines, i + 1)
         THEN {[first |-> i, last |-> BlockEnd(lines, i)]} \cup later[BlockEnd(lines, i) + 1]
         ELSE later[i + 1]

LEMMA TablesFromLater ==
    ASSUME NEW lines \in Lines, NEW i \in Nat \ {0}, NEW f, NEW g,
           \A j \in (i + 1)..(Len(lines) + 1) : f[j] = g[j]
    PROVE  TablesFrom(lines, f, i) = TablesFrom(lines, g, i)
<1>1. Len(lines) \in Nat
  BY DEF Lines
<1>2. CASE i >= Len(lines)
  BY <1>2 DEF TablesFrom
<1>3. CASE ~(i >= Len(lines)) /\ IsRow(lines, i) /\ IsRule(lines, i + 1)
  <2>1. BlockEnd(lines, i) \in i..Len(lines)
    BY <1>1, <1>3, BlockEndIs
  <2>2. BlockEnd(lines, i) + 1 \in (i + 1)..(Len(lines) + 1)
    BY <1>1, <2>1
  <2> QED
    BY <1>3, <2>2 DEF TablesFrom
<1>4. CASE ~(i >= Len(lines)) /\ ~(IsRow(lines, i) /\ IsRule(lines, i + 1))
  <2>1. i + 1 \in (i + 1)..(Len(lines) + 1)
    BY <1>1, <1>4
  <2> QED
    BY <1>4, <2>1 DEF TablesFrom
<1> QED
  BY <1>2, <1>3, <1>4

LEMMA TablesExist ==
    ASSUME NEW lines \in Lines
    PROVE  \E f : f = [i \in 1..(Len(lines) + 1) |-> TablesFrom(lines, f, i)]
<1> DEFINE n == Len(lines)
           Found1(k) == \E f : f = [i \in (n + 1 - k)..(n + 1) |-> TablesFrom(lines, f, i)]
           S == {k \in Nat : k <= n => Found1(k)}
<1>1. n \in Nat
  BY DEF Lines
<1>2. 0 \in S
  <2> DEFINE f == [i \in (n + 1 - 0)..(n + 1) |-> {}]
  <2>1. \A i \in (n + 1 - 0)..(n + 1) : TablesFrom(lines, f, i) = {}
    BY <1>1 DEF TablesFrom
  <2>2. f = [i \in (n + 1 - 0)..(n + 1) |-> TablesFrom(lines, f, i)]
    BY <2>1
  <2>3. Found1(0)
    BY <2>2
  <2> QED
    BY <2>3
<1>3. ASSUME NEW k \in Nat, k \in S PROVE k + 1 \in S
  <2> SUFFICES ASSUME k + 1 <= n PROVE Found1(k + 1)
    OBVIOUS
  <2>1. Found1(k)
    BY <1>1, <1>3
  <2>2. PICK f : f = [i \in (n + 1 - k)..(n + 1) |-> TablesFrom(lines, f, i)]
    BY <2>1
  <2> DEFINE m == n - k
             g == [i \in m..(n + 1) |-> IF i = m THEN TablesFrom(lines, f, m) ELSE f[i]]
  <2>3. m \in Nat \ {0} /\ n + 1 - k = m + 1 /\ n + 1 - (k + 1) = m
    BY <1>1
  <2>4. \A j \in (m + 1)..(n + 1) : f[j] = TablesFrom(lines, f, j) /\ g[j] = f[j]
    <3> HIDE DEF m
    <3> SUFFICES ASSUME NEW j \in (m + 1)..(n + 1) PROVE f[j] = TablesFrom(lines, f, j) /\ g[j] = f[j]
      OBVIOUS
    <3>1. j \in m..(n + 1) /\ j # m
      BY <1>1, <2>3
    <3>2. j \in (n + 1 - k)..(n + 1)
      BY <2>3
    <3>3. f[j] = TablesFrom(lines, f, j)
      BY <2>2, <3>2
    <3>4. g[j] = f[j]
      BY <3>1
    <3> QED
      BY <3>3, <3>4
  <2>5. ASSUME NEW i \in m..(n + 1) PROVE g[i] = TablesFrom(lines, g, i)
    <3>1. i \in Nat \ {0}
      BY <1>1, <2>3
    <3>2. \A j \in (i + 1)..(n + 1) : f[j] = g[j]
      <4> HIDE DEF g
      <4>1. \A j \in (i + 1)..(n + 1) : j \in (m + 1)..(n + 1)
        BY <1>1, <2>3, <3>1
      <4> QED
        BY <2>4, <4>1
    <3> HIDE DEF g
    <3>3. TablesFrom(lines, f, i) = TablesFrom(lines, g, i)
      BY <3>1, <3>2, TablesFromLater
    <3>4. g[i] = TablesFrom(lines, f, i)
      <4>1. CASE i = m
        BY <4>1 DEF g
      <4>2. CASE i # m
        <5>1. i \in (m + 1)..(n + 1)
          BY <1>1, <2>3, <4>2
        <5> QED
          BY <2>4, <5>1
      <4> QED
        BY <4>1, <4>2
    <3> QED
      BY <3>3, <3>4
  <2>6. g = [i \in m..(n + 1) |-> TablesFrom(lines, g, i)]
    <3> DEFINE h == [i \in m..(n + 1) |-> TablesFrom(lines, g, i)]
    <3>1. g = [i \in m..(n + 1) |-> g[i]]
      BY Zenon
    <3> HIDE DEF g
    <3>2. \A i \in m..(n + 1) : g[i] = TablesFrom(lines, g, i)
      BY <2>5
    <3> QED
      BY <3>1, <3>2, Zenon
  <2> QED
    BY <2>3, <2>6
<1>4. n \in S
  <2> HIDE DEF S
  <2> QED
    BY <1>1, <1>2, <1>3, SetInduction
<1>5. Found1(n)
  BY <1>1, <1>4
<1>6. n + 1 - n = 1
  BY <1>1
<1> QED
  BY <1>5, <1>6

LEMMA TablesFound ==
    ASSUME NEW lines \in Lines
    PROVE  \E f : /\ f = [i \in 1..(Len(lines) + 1) |-> TablesFrom(lines, f, i)]
                  /\ TablesFromMarkdown(lines) = f[1]
<1> DEFINE F == CHOOSE f : f = [i \in 1..(Len(lines) + 1) |-> TablesFrom(lines, f, i)]
<1>1. F = [i \in 1..(Len(lines) + 1) |-> TablesFrom(lines, F, i)]
  BY TablesExist
<1>2. TablesFromMarkdown(lines) = F[1]
  BY Zenon DEF TablesFromMarkdown, TablesFrom
<1> QED
  BY <1>1, <1>2

\* The tables from a line on (TablesAreBlocks).
Blocks(lines, tables, i) ==
    /\ tables \in SUBSET [first : Nat, last : Nat]
    /\ \A t \in tables :
          /\ i <= t.first /\ t.first < Len(lines) /\ t.last \in t.first..Len(lines)
          /\ IsRule(lines, t.first + 1) /\ \A k \in t.first..t.last : IsRow(lines, k)
          /\ t.last < Len(lines) => ~IsRow(lines, t.last + 1)
          /\ \A u \in tables : t.first < u.first => t.last < u.first
    /\ \A k \in i..(Len(lines) - 1) :
          IsRow(lines, k) /\ IsRule(lines, k + 1) => \E t \in tables : k \in t.first..t.last

LEMMA BlocksFrom ==
    ASSUME NEW lines \in Lines, NEW f, NEW i \in 1..(Len(lines) + 1),
           \A j \in (i + 1)..(Len(lines) + 1) : Blocks(lines, f[j], j)
    PROVE  Blocks(lines, TablesFrom(lines, f, i), i)
<1> DEFINE n == Len(lines)
<1>1. n \in Nat /\ i \in Nat \ {0}
  BY DEF Lines
<1>2. CASE i >= n
  <2>1. TablesFrom(lines, f, i) = {} /\ \A k \in i..(n - 1) : FALSE
    BY <1>1, <1>2 DEF TablesFrom
  <2> QED
    BY <2>1 DEF Blocks
<1>3. CASE i < n /\ IsRow(lines, i) /\ IsRule(lines, i + 1)
  <2> DEFINE e   == BlockEnd(lines, i)
             new == [first |-> i, last |-> e]
             old == f[e + 1]
  <2>1. /\ e \in i..n /\ \A k \in i..e : IsRow(lines, k)
        /\ e < n => ~IsRow(lines, e + 1)
    BY <1>1, <1>3, BlockEndIs
  <2>2. TablesFrom(lines, f, i) = {new} \cup old
    BY <1>1, <1>3 DEF TablesFrom
  <2> HIDE DEF e
  <2>3. e \in Nat /\ e + 1 \in (i + 1)..(n + 1)
    BY <1>1, <2>1
  <2>4. Blocks(lines, old, e + 1)
    BY <2>3
  <2>5. new \in [first : Nat, last : Nat] /\ new.first = i /\ new.last = e
    BY <1>1, <2>3
  <2> HIDE DEF new, old
  <2>6. ASSUME NEW t \in old
        PROVE  /\ t \in [first : Nat, last : Nat] /\ t.first \in Nat /\ e + 1 <= t.first
               /\ t.first < n /\ t.last \in t.first..n
               /\ IsRule(lines, t.first + 1) /\ \A k \in t.first..t.last : IsRow(lines, k)
               /\ t.last < n => ~IsRow(lines, t.last + 1)
               /\ \A u \in old : t.first < u.first => t.last < u.first
    BY <2>4 DEF Blocks
  <2>7. {new} \cup old \in SUBSET [first : Nat, last : Nat]
    BY <2>5, <2>6
  <2>8. ASSUME NEW t \in {new} \cup old
        PROVE  /\ i <= t.first /\ t.first < n /\ t.last \in t.first..n
               /\ IsRule(lines, t.first + 1) /\ \A k \in t.first..t.last : IsRow(lines, k)
               /\ t.last < n => ~IsRow(lines, t.last + 1)
               /\ \A u \in {new} \cup old : t.first < u.first => t.last < u.first
    <3>1. CASE t = new
      <4>1. ASSUME NEW u \in {new} \cup old, t.first < u.first PROVE t.last < u.first
        <5>1. u \in old
          BY <1>1, <2>5, <3>1, <4>1
        <5> QED
          BY <2>3, <2>5, <2>6, <3>1, <5>1
      <4> QED
        BY <1>1, <1>3, <2>1, <2>5, <3>1, <4>1
    <3>2. CASE t \in old
      <4>1. ASSUME NEW u \in {new} \cup old, t.first < u.first PROVE t.last < u.first
        <5>1. u \in old
          <6>1. u # new
            BY <1>1, <2>3, <2>5, <2>6, <2>1, <3>2, <4>1
          <6> QED
            BY <6>1
        <5> QED
          BY <2>6, <3>2, <4>1, <5>1
      <4>2. i <= t.first
        BY <1>1, <2>1, <2>3, <2>6, <3>2
      <4> QED
        BY <2>6, <3>2, <4>1, <4>2
    <3> QED
      BY <3>1, <3>2
  <2>9. ASSUME NEW k \in i..(n - 1), IsRow(lines, k), IsRule(lines, k + 1)
        PROVE  \E t \in {new} \cup old : k \in t.first..t.last
    <3>1. CASE k <= e
      <4>1. k \in new.first..new.last
        BY <1>1, <2>3, <2>5, <3>1
      <4> QED
        BY <4>1
    <3>2. CASE k > e
      <4>1. k \in (e + 1)..(n - 1)
        BY <1>1, <2>3, <3>2
      <4>2. \E t \in old : k \in t.first..t.last
        BY <2>4, <2>9, <4>1 DEF Blocks
      <4> QED
        BY <4>2
    <3> QED
      BY <1>1, <2>3, <3>1, <3>2
  <2> QED
    BY <2>2, <2>7, <2>8, <2>9 DEF Blocks
<1>4. CASE i < n /\ ~(IsRow(lines, i) /\ IsRule(lines, i + 1))
  <2> DEFINE old == f[i + 1]
  <2>1. TablesFrom(lines, f, i) = old
    BY <1>1, <1>4 DEF TablesFrom
  <2>2. Blocks(lines, old, i + 1)
    BY <1>1, <1>4
  <2> HIDE DEF old
  <2>3. ASSUME NEW t \in old PROVE i <= t.first
    BY <1>1, <2>2 DEF Blocks
  <2>4. ASSUME NEW k \in i..(n - 1), IsRow(lines, k), IsRule(lines, k + 1)
        PROVE  \E t \in old : k \in t.first..t.last
    <3>1. k # i
      BY <1>4, <2>4
    <3>2. k \in (i + 1)..(n - 1)
      BY <1>1, <3>1
    <3> QED
      BY <2>2, <2>4, <3>2 DEF Blocks
  <2> QED
    BY <2>1, <2>2, <2>3, <2>4 DEF Blocks
<1> QED
  BY <1>1, <1>2, <1>3, <1>4

LEMMA TablesOfLines ==
    ASSUME NEW lines \in Lines
    PROVE  Blocks(lines, TablesFromMarkdown(lines), 1)
<1> DEFINE n == Len(lines)
<1>1. PICK f : /\ f = [i \in 1..(n + 1) |-> TablesFrom(lines, f, i)]
               /\ TablesFromMarkdown(lines) = f[1]
  BY TablesFound
<1> DEFINE S == {k \in Nat : \A i \in 1..(n + 1) : n + 1 - i < k => Blocks(lines, f[i], i)}
<1>2. n \in Nat
  BY DEF Lines
<1>3. 0 \in S
  BY <1>2
<1>4. ASSUME NEW k \in Nat, k \in S PROVE k + 1 \in S
  <2> SUFFICES ASSUME NEW i \in 1..(n + 1), n + 1 - i < k + 1 PROVE Blocks(lines, f[i], i)
    OBVIOUS
  <2>1. ASSUME NEW j \in (i + 1)..(n + 1) PROVE Blocks(lines, f[j], j)
    <3>1. j \in 1..(n + 1) /\ n + 1 - j < k
      BY <1>2
    <3> QED
      BY <1>4, <3>1
  <2>2. Blocks(lines, TablesFrom(lines, f, i), i)
    BY <2>1, BlocksFrom
  <2>3. f[i] = TablesFrom(lines, f, i)
    BY <1>1
  <2> QED
    BY <2>2, <2>3
<1>5. n + 1 \in S
  <2> HIDE DEF S
  <2> QED
    BY <1>2, <1>3, <1>4, SetInduction
<1>6. Blocks(lines, f[1], 1)
  BY <1>2, <1>5
<1> QED
  BY <1>1, <1>6

-----------------------------------------------------------------------------
(* Documents: the invariant.  What is said of a query is said of its record, *)
(* so that it holds of the queries a step does not touch.                    *)

\* Now, of a record.
Current(c) == CHOOSE f \in c.todo : \A g \in c.todo : Rank[f] <= Rank[g]

RowRecord ==
    [path : File, page : Nat, version : Nat, ocr : BOOLEAN,
     tables : SUBSET [first : Nat, last : Nat], refs : SUBSET Names]

ScanRecord ==
    [at : {"idle", "error", "walk", "next", "probe", "parse", "render", "shots", "rows", "ended"},
     limit : Nat, dirs : SUBSET {Root, Sub}, todo : SUBSET File, skipped : SUBSET File,
     ocr : BOOLEAN, text : Nat, shots : Nat, page : Nat, refs : SUBSET Names, lost : SUBSET Names,
     rows : Seq(RowRecord)]

\* A file that the query has left behind.
Behind(c, f) == \A g \in c.todo : Rank[f] < Rank[g]

AtPages == {"render", "shots", "rows"}

\* A query is registered for, has a file to be at, and is at a page of it.
PlaceInv(c) ==
    /\ c.at # "idle" => registered = "yes"
    /\ c.at \in {"idle", "error", "walk"} => c.rows = <<>> /\ c.lost = {}
    /\ c.at \in {"probe", "parse"} \cup AtPages => c.todo # {}
    /\ c.at = "render" => c.page = 1 /\ c.refs = {}
    /\ c.at \in {"shots", "rows"} => c.page \in 1..Len(Pages[Current(c)])
    /\ c.at \in {"parse"} \cup AtPages /\ options.ocr = "on" => c.ocr
    /\ c.at \in AtPages /\ disk[Current(c)] = 1 => c.text = 1
    /\ c.at = "shots" /\ disk[Current(c)] = 1 => c.shots = 1

InOrder(rows) ==
    \A i \in 1..(Len(rows) - 1) :
       \/ Rank[rows[i].path] < Rank[rows[i + 1].path]
             /\ rows[i].page = Len(Pages[rows[i].path]) /\ rows[i + 1].page = 1
       \/ rows[i].path = rows[i + 1].path /\ rows[i + 1].page = rows[i].page + 1

\* The rows of the files left behind, and of the pages left behind of the file the query is at.
OrderInv(c) ==
    /\ InOrder(c.rows)
    /\ c.at # "ended" => \A i \in DOMAIN c.rows :
          \/ Behind(c, c.rows[i].path)
          \/ c.at = "rows" /\ c.rows[i].path = Current(c) /\ c.rows[i].page < c.page
    /\ c.at # "ended" /\ c.rows # <<>> =>
          LET r == c.rows[Len(c.rows)]
          IN  \/ (c.at = "rows" => c.page = 1) /\ Behind(c, r.path) /\ r.page = Len(Pages[r.path])
              \/ c.at = "rows" /\ r.path = Current(c) /\ r.page = c.page - 1
    /\ c.at = "rows" /\ c.page > 1 => c.rows # <<>> /\ c.rows[Len(c.rows)].path = Current(c)

\* Names of images that have been written, or lost.
Tried(c, f, kind, page) ==
    \/ Behind(c, f)
    \/ c.at = "shots" /\ f = Current(c) /\ kind = "page" /\ page < c.page
    \/ c.at = "rows" /\ f = Current(c) /\ (kind = "page" \/ page < c.page)

Kept(c, f, name) ==
    /\ name \in Names
    /\ options.store = "local" => store[name] # None
    /\ Alone(f) => name \notin c.lost

LostInv(c) ==
    /\ c.at # "ended" => \A name \in c.lost :
          \E f \in File, kind \in {"page", "crop"} : \E page \in DOMAIN Pages[f] :
             name = ImageName(f, kind, page) /\ Tried(c, f, kind, page)
    /\ c.at \in {"shots", "rows"} => \A name \in c.refs :
          /\ \E page \in DOMAIN Pages[Current(c)] :
                name = ImageName(Current(c), "page", page) /\ (c.at = "shots" => page < c.page)
          /\ Kept(c, Current(c), name)

RowInv(c, r) ==
    /\ r.page \in 1..Len(Pages[r.path])
    /\ \A name \in r.refs : /\ name \in {ImageName(r.path, kind, r.page) : kind \in {"page", "crop"}}
                            /\ Kept(c, r.path, name)
    /\ r.tables = TablesFromMarkdown(Pages[r.path][r.page])
    /\ OcrAsAsked(r)

\* As long as nobody changes a file, one that can be reached is to be found.
Listed(c, f) == f \in c.todo \cup c.skipped \cup {c.rows[i].path : i \in DOMAIN c.rows}
ReachInv(c) ==
    edits = 0 /\ c.at \notin {"idle", "error"} /\ (c.at = "ended" => Len(c.rows) < c.limit /\ c.todo = {}) =>
        \A f \in File : Reached(f) =>
           Listed(c, f) \/ (c.at = "walk" /\ (DirOf[f] \in c.dirs \/ (Root \in c.dirs /\ options.recursive)))

ScanInv(c) ==
    /\ c \in ScanRecord
    /\ PlaceInv(c) /\ OrderInv(c) /\ LostInv(c) /\ ReachInv(c)
    /\ c.at = "ended" => c.todo = {}
    /\ \A i \in DOMAIN c.rows : RowInv(c, c.rows[i])

\* An image shows the page its name says, of a file with its name, in the version there is if
\* nobody has changed that.
ImageInv(name) ==
    \/ store[name] = None
    \/ store[name] = Torn /\ \E t \in Scans : name \in scan[t].lost
    \/ /\ store[name] \in [file : File, page : Nat, version : Nat]
       /\ name[1] = Stem[store[name].file] /\ name[3] = store[name].page
       /\ disk[store[name].file] = 1 => store[name].version = 1

DiskInv ==
    /\ options \in Option /\ edits \in Nat /\ disk \in [File -> Nat]
    /\ edits = 0 => unreadable = {}
    /\ registered = "yes" /\ options.ocr = "on" => options.server
    /\ store = [n \in Names |-> store[n]] /\ scan = [s \in Scans |-> scan[s]]

DocumentsInv ==
    /\ DiskInv
    /\ \A name \in Names : ImageInv(name)
    /\ \A s \in Scans : ScanInv(scan[s])

LEMMA CurrentIs ==
    ASSUME NEW c, c.todo \in SUBSET File, c.todo # {}
    PROVE  /\ Current(c) \in c.todo /\ Current(c) \in File
           /\ \A g \in c.todo : g # Current(c) => Rank[Current(c)] < Rank[g]
<1>1. /\ \A f \in File : Rank[f] \in Nat
      /\ \A f, g \in File : Rank[f] = Rank[g] => f = g
  BY DocumentsAssumption
<1> DEFINE S == {Rank[f] : f \in c.todo}
<1>2. S \in SUBSET Nat /\ S # {}
  BY <1>1
<1>3. PICK r \in S : \A q \in S : r <= q
  <2> HIDE DEF S
  <2> QED
    BY <1>2, LeastExists
<1>4. \E f \in c.todo : \A g \in c.todo : Rank[f] <= Rank[g]
  BY <1>3
<1>5. Current(c) \in c.todo /\ \A g \in c.todo : Rank[Current(c)] <= Rank[g]
  BY <1>4 DEF Current
<1>6. ASSUME NEW g \in c.todo, g # Current(c) PROVE Rank[Current(c)] < Rank[g]
  <2>1. Rank[g] \in Nat /\ Rank[Current(c)] \in Nat /\ Rank[g] # Rank[Current(c)]
    BY <1>1, <1>5, <1>6
  <2> QED
    BY <1>5, <2>1
<1> QED
  BY <1>5, <1>6

LEMMA PagesOf ==
    ASSUME NEW f \in File
    PROVE  /\ Len(Pages[f]) \in Nat \ {0} /\ DOMAIN Pages[f] = 1..Len(Pages[f])
           /\ \A page \in 1..Len(Pages[f]) :
                 /\ Pages[f][page] \in Lines
                 /\ \A kind \in {"page", "crop"} : ImageName(f, kind, page) \in Names
<1>1. Pages[f] \in Seq(Lines) /\ Pages[f] # <<>>
  BY DocumentsAssumption DEF Lines
<1>2. Len(Pages[f]) \in Nat \ {0} /\ DOMAIN Pages[f] = 1..Len(Pages[f])
      /\ \A page \in 1..Len(Pages[f]) : Pages[f][page] \in Lines
  <2> HIDE DEF Lines
  <2> QED
    BY <1>1
<1>3. ASSUME NEW page \in 1..Len(Pages[f]), NEW kind \in {"page", "crop"}
      PROVE  ImageName(f, kind, page) \in Names
  BY <1>2 DEF Names
<1> QED
  BY <1>2, <1>3

LEMMA NameParts ==
    ASSUME NEW f, NEW g, NEW k, NEW l, NEW p, NEW q, ImageName(f, k, p) = ImageName(g, l, q)
    PROVE  Stem[f] = Stem[g] /\ k = l /\ p = q
BY DEF ImageName

LEMMA NameIs ==
    ASSUME NEW f, NEW k, NEW p
    PROVE  ImageName(f, k, p)[1] = Stem[f] /\ ImageName(f, k, p)[3] = p
BY DEF ImageName

LEMMA ScanFields ==
    ASSUME NEW c \in ScanRecord
    PROVE  /\ c.limit \in Nat /\ c.dirs \in SUBSET {Root, Sub} /\ c.todo \in SUBSET File
           /\ c.skipped \in SUBSET File /\ c.ocr \in BOOLEAN /\ c.text \in Nat /\ c.shots \in Nat
           /\ c.page \in Nat /\ c.refs \in SUBSET Names /\ c.lost \in SUBSET Names
           /\ c.rows \in Seq(RowRecord)
           /\ c.at \in {"idle", "error", "walk", "next", "probe", "parse", "render", "shots", "rows",
                        "ended"}
BY DEF ScanRecord

LEMMA SetGives ==
    ASSUME scan = [t \in Scans |-> scan[t]], NEW s \in Scans, NEW c, Set1(s, c)
    PROVE  /\ scan'[s] = c /\ scan' = [t \in Scans |-> scan'[t]]
           /\ \A t \in Scans \ {s} : scan'[t] = scan[t]
BY DEF Set1

-----------------------------------------------------------------------------
(* What a step leaves alone.                                                *)

\* A query of which nothing changes, and for which little does.
LEMMA ScanStays ==
    ASSUME NEW s \in Scans, ScanInv(scan[s]), scan'[s] = scan[s], UNCHANGED options,
           registered = "yes" => registered' = "yes",
           \A f \in File : disk'[f] = 1 => disk[f] = 1,
           edits' = 0 => edits = 0 /\ disk' = disk,
           \A name \in Names : store[name] # None => store'[name] # None
    PROVE  ScanInv(scan[s])'
<1> DEFINE c == scan[s]
<1>1. /\ c \in ScanRecord /\ PlaceInv(c) /\ OrderInv(c) /\ LostInv(c) /\ ReachInv(c)
      /\ c.at = "ended" => c.todo = {}
      /\ \A i \in DOMAIN c.rows : RowInv(c, c.rows[i])
  BY DEF ScanInv
<1>2. Current(scan[s])' = Current(scan[s])
  BY DEF Current
<1>3. c.at \in AtPages => Current(c) \in File
  BY <1>1, CurrentIs, ScanFields DEF PlaceInv, AtPages
<1>4. PlaceInv(scan[s])'
  BY <1>1, <1>2, <1>3 DEF PlaceInv, AtPages
<1>5. OrderInv(scan[s])'
  BY <1>1, <1>2, Zenon DEF OrderInv, Behind
<1>6. ASSUME NEW f, NEW name, Kept(c, f, name) PROVE Kept(scan[s], f, name)'
  BY <1>6 DEF Kept
<1>7. LostInv(scan[s])'
  <2>1. /\ c.at # "ended" => \A name \in c.lost :
              \E f \in File, kind \in {"page", "crop"} : \E page \in DOMAIN Pages[f] :
                 name = ImageName(f, kind, page) /\ Tried(c, f, kind, page)
        /\ c.at \in {"shots", "rows"} => \A name \in c.refs :
              /\ \E page \in DOMAIN Pages[Current(c)] :
                    name = ImageName(Current(c), "page", page) /\ (c.at = "shots" => page < c.page)
              /\ Kept(c, Current(c), name)
    BY <1>1 DEF LostInv
  <2>2. ASSUME NEW f, NEW kind, NEW page, Tried(c, f, kind, page)
        PROVE  Tried(scan[s], f, kind, page)'
    BY <1>2, <2>2, Zenon DEF Tried, Behind
  <2>3. (scan[s].at # "ended")' => \A name \in c.lost :
            \E f \in File, kind \in {"page", "crop"} : \E page \in DOMAIN Pages[f] :
               name = ImageName(f, kind, page) /\ Tried(scan[s], f, kind, page)'
    BY <2>1, <2>2
  <2>4. (scan[s].at \in {"shots", "rows"})' => \A name \in c.refs :
            /\ \E page \in DOMAIN Pages[Current(c)] :
                  name = ImageName(Current(c), "page", page) /\ (c.at = "shots" => page < c.page)
            /\ Kept(scan[s], Current(c), name)'
    BY <1>6, <2>1
  <2> QED
    BY <1>2, <2>3, <2>4 DEF LostInv
<1>8. ReachInv(scan[s])'
  BY <1>1 DEF ReachInv, Reached, Listed
<1>9. ASSUME NEW i \in DOMAIN c.rows PROVE RowInv(scan[s], scan[s].rows[i])'
  <2>1. RowInv(c, c.rows[i]) /\ scan'[s].rows[i] = c.rows[i]
    BY <1>1
  <2>2. PICK r : r = c.rows[i]
    OBVIOUS
  <2>3. \A name \in r.refs : Kept(scan[s], r.path, name)'
    BY <1>6, <2>1, <2>2 DEF RowInv
  <2> QED
    BY <2>1, <2>2, <2>3 DEF RowInv, OcrAsAsked
<1> QED
  BY <1>1, <1>4, <1>5, <1>7, <1>8, <1>9, Zenon DEF ScanInv

\* A step that writes no image, of a query that is not writing rows.
LEMMA NothingWritten ==
    ASSUME NEW s \in Scans, ScanInv(scan[s]), UNCHANGED <<options, store>>,
           scan'[s].rows = scan[s].rows, scan'[s].lost = scan[s].lost,
           scan'[s].todo \subseteq scan[s].todo \/ scan[s].at = "walk",
           scan[s].at \in {"walk", "next", "probe", "parse", "render"}, scan'[s].at # "ended",
           scan'[s].at = "rows" => scan'[s].page = 1,
           scan'[s].at \in {"shots", "rows"} => scan'[s].refs = {}
    PROVE  /\ OrderInv(scan[s])' /\ LostInv(scan[s])'
           /\ \A i \in DOMAIN scan'[s].rows : RowInv(scan[s], scan[s].rows[i])'
<1> DEFINE c == scan[s]
<1>1. /\ OrderInv(c) /\ LostInv(c) /\ \A i \in DOMAIN c.rows : RowInv(c, c.rows[i])
      /\ c.at = "walk" => c.rows = <<>> /\ c.lost = {}
      /\ c.rows \in Seq(RowRecord) /\ Len(c.rows) \in Nat
  BY ScanFields DEF ScanInv, PlaceInv
<1>2. ASSUME NEW f, Behind(c, f), c.at # "walk" PROVE Behind(scan[s], f)'
  BY <1>2 DEF Behind
<1>3. OrderInv(scan[s])'
  <2>1. CASE c.at = "walk"
    <3>1. c.rows = <<>> /\ DOMAIN c.rows = {} /\ InOrder(c.rows)
      BY <1>1, <2>1 DEF OrderInv
    <3> QED
      BY <3>1 DEF OrderInv
  <2>2. CASE c.at # "walk"
    <3>1. /\ InOrder(c.rows) /\ \A i \in DOMAIN c.rows : Behind(scan[s], c.rows[i].path)'
          /\ c.rows # <<>> => Behind(scan[s], c.rows[Len(c.rows)].path)'
                              /\ c.rows[Len(c.rows)].page = Len(Pages[c.rows[Len(c.rows)].path])
      BY <1>1, <1>2, <2>2 DEF OrderInv
    <3>2. scan'[s].at = "rows" => ~(scan'[s].page > 1)
      OBVIOUS
    <3> QED
      BY <3>1, <3>2 DEF OrderInv
  <2> QED
    BY <2>1, <2>2
<1>4. LostInv(scan[s])'
  <2>1. CASE c.at = "walk"
    BY <1>1, <2>1 DEF LostInv
  <2>2. CASE c.at # "walk"
    <3>1. \A name \in c.lost :
              \E f \in File, kind \in {"page", "crop"} : \E page \in DOMAIN Pages[f] :
                 name = ImageName(f, kind, page) /\ Tried(c, f, kind, page)
      BY <1>1 DEF LostInv
    <3>2. ASSUME NEW f, NEW kind, NEW page, Tried(c, f, kind, page)
          PROVE  Tried(scan[s], f, kind, page)'
      BY <1>2, <2>2, <3>2 DEF Tried
    <3>3. \A name \in c.lost :
              \E f \in File, kind \in {"page", "crop"} : \E page \in DOMAIN Pages[f] :
                 name = ImageName(f, kind, page) /\ Tried(scan[s], f, kind, page)'
      BY <3>1, <3>2
    <3> QED
      BY <3>3 DEF LostInv
  <2> QED
    BY <2>1, <2>2
<1>5. ASSUME NEW i \in DOMAIN scan'[s].rows PROVE RowInv(scan[s], scan[s].rows[i])'
  <2>1. RowInv(c, c.rows[i]) /\ scan'[s].rows[i] = c.rows[i]
    BY <1>1
  <2>2. ASSUME NEW f, NEW name, Kept(c, f, name) PROVE Kept(scan[s], f, name)'
    BY <2>2 DEF Kept
  <2> QED
    BY <2>1, <2>2 DEF RowInv, OcrAsAsked
<1> QED
  BY <1>3, <1>4, <1>5

LEMMA ImagesStay ==
    ASSUME \A name \in Names : ImageInv(name), UNCHANGED store,
           \A f \in File : disk'[f] = 1 => disk[f] = 1,
           \A t \in Scans : scan[t].lost \subseteq scan'[t].lost
    PROVE  \A name \in Names : ImageInv(name)'
<1> SUFFICES ASSUME NEW name \in Names PROVE ImageInv(name)'
  OBVIOUS
<1>1. CASE store[name] = None
  BY <1>1 DEF ImageInv
<1>2. CASE store[name] = Torn /\ \E t \in Scans : name \in scan[t].lost
  BY <1>2 DEF ImageInv
<1>3. CASE /\ store[name] \in [file : File, page : Nat, version : Nat]
           /\ name[1] = Stem[store[name].file] /\ name[3] = store[name].page
           /\ disk[store[name].file] = 1 => store[name].version = 1
  BY <1>3 DEF ImageInv
<1> QED
  BY <1>1, <1>2, <1>3 DEF ImageInv

LEMMA ScanDone ==
    ASSUME DocumentsInv, NEW s \in Scans, UNCHANGED <<options, registered, disk, unreadable, edits>>,
           scan' = [t \in Scans |-> scan'[t]], \A t \in Scans \ {s} : scan'[t] = scan[t],
           store' = [n \in Names |-> store'[n]],
           \A name \in Names : store[name] # None => store'[name] # None,
           \A name \in Names : ImageInv(name)', ScanInv(scan[s])'
    PROVE  DocumentsInv'
<1>1. ASSUME NEW t \in Scans PROVE ScanInv(scan[t])'
  <2>1. CASE t = s
    BY <2>1
  <2>2. CASE t # s
    <3>1. ScanInv(scan[t]) /\ scan'[t] = scan[t]
      BY <2>2 DEF DocumentsInv
    <3> QED
      BY <3>1, ScanStays
  <2> QED
    BY <2>1, <2>2
<1>2. DiskInv'
  BY DEF DocumentsInv, DiskInv
<1> QED
  BY <1>1, <1>2 DEF DocumentsInv

\* The same, without an image.
LEMMA QuietDone ==
    ASSUME DocumentsInv, NEW s \in Scans, NEW c, Set1(s, c),
           UNCHANGED <<options, registered, disk, unreadable, edits, store>>,
           scan[s].lost \subseteq c.lost, ScanInv(scan[s])'
    PROVE  DocumentsInv'
<1>1. DiskInv /\ scan = [t \in Scans |-> scan[t]] /\ store = [n \in Names |-> store[n]]
  BY DEF DocumentsInv, DiskInv
<1>2. scan'[s] = c /\ scan' = [t \in Scans |-> scan'[t]] /\ \A t \in Scans \ {s} : scan'[t] = scan[t]
  BY <1>1, SetGives
<1>3. \A t \in Scans : scan[t].lost \subseteq scan'[t].lost
  BY <1>2
<1>4. \A name \in Names : ImageInv(name)'
  BY <1>3, ImagesStay DEF DocumentsInv
<1> QED
  BY <1>1, <1>2, <1>4, ScanDone

-----------------------------------------------------------------------------
(* The steps of a query.                                                    *)

LEMMA OptionFields ==
    ASSUME DiskInv
    PROVE  /\ options \in [recursive : BOOLEAN, globs : SUBSET File, crops : BOOLEAN, render : BOOLEAN,
                           store : {"local", "remote", "none"}, ocr : {"on", "auto", "off"},
                           server : BOOLEAN]
           /\ disk \in [File -> Nat] /\ edits \in Nat
BY DocumentsAssumption DEF DiskInv

LEMMA StartKeeps == ASSUME DocumentsInv, NEW s \in Scans, Start(s) PROVE DocumentsInv'
<1>1. /\ UNCHANGED <<options, registered, disk, unreadable, edits, store>>
      /\ registered = "yes" /\ scan[s].at = "idle"
  BY DEF Start
<1>2. PICK limit \in Limit :
         Set1(s, IF Root \in unreadable THEN [Idle EXCEPT !.at = "error"]
                 ELSE [Idle EXCEPT !.at = "walk", !.limit = limit, !.dirs = {Root}])
  BY DEF Start
<1> DEFINE d == IF Root \in unreadable THEN [Idle EXCEPT !.at = "error"]
                ELSE [Idle EXCEPT !.at = "walk", !.limit = limit, !.dirs = {Root}]
<1>3. limit \in Nat
  BY DocumentsAssumption
<1>4. /\ d \in ScanRecord
      /\ d.rows = <<>> /\ d.lost = {} /\ d.todo = {} /\ d.refs = {}
      /\ d.at = "error" \/ (d.at = "walk" /\ d.dirs = {Root})
  <2>1. <<>> \in Seq(RowRecord)
    OBVIOUS
  <2> HIDE DEF RowRecord
  <2> QED
    BY <1>3, <2>1 DEF ScanRecord, Idle
<1> HIDE DEF d
<1>5. scan'[s] = d /\ scan[s].lost = {}
  <2>1. scan = [t \in Scans |-> scan[t]] /\ PlaceInv(scan[s])
    BY DEF DocumentsInv, DiskInv, ScanInv
  <2>2. Set1(s, d)
    BY <1>2 DEF d
  <2> QED
    BY <1>1, <2>1, <2>2, SetGives DEF PlaceInv
<1>6. ScanInv(scan[s])'
  <2>1. DOMAIN d.rows = {} /\ Len(d.rows) = 0
    BY <1>4
  <2>2. PlaceInv(scan[s])'
    BY <1>1, <1>4, <1>5 DEF PlaceInv, AtPages
  <2>3. OrderInv(scan[s])'
    <3>1. InOrder(d.rows)
      BY <2>1 DEF InOrder
    <3> QED
      BY <1>4, <1>5, <2>1, <3>1 DEF OrderInv
  <2>4. LostInv(scan[s])'
    BY <1>4, <1>5 DEF LostInv
  <2>5. ReachInv(scan[s])'
    <3>1. \A f \in File : DirOf[f] \in {Root, Sub}
      BY DocumentsAssumption
    <3> QED
      BY <1>1, <1>4, <1>5, <3>1 DEF ReachInv, Reached
  <2> QED
    BY <1>4, <1>5, <2>1, <2>2, <2>3, <2>4, <2>5 DEF ScanInv
<1>7. Set1(s, d)
  BY <1>2 DEF d
<1> QED
  BY <1>1, <1>4, <1>5, <1>6, <1>7, QuietDone

LEMMA WalkKeeps == ASSUME DocumentsInv, NEW s \in Scans, Walk(s) PROVE DocumentsInv'
<1> DEFINE c == scan[s]
<1>1. /\ UNCHANGED <<options, registered, disk, unreadable, edits, store>>
      /\ c.at = "walk"
  BY DEF Walk
<1>2. PICK k \in c.dirs :
         Set1(s, IF k \in unreadable THEN [c EXCEPT !.dirs = c.dirs \ {k}]
                 ELSE [c EXCEPT !.dirs = (c.dirs \ {k}) \cup (IF k = Root /\ options.recursive THEN {Sub} ELSE {}),
                                !.todo = c.todo \cup {f \in File : disk[f] # 0 /\ DirOf[f] = k /\ f \in options.globs}])
  BY DEF Walk
<1> DEFINE below == IF k = Root /\ options.recursive THEN {Sub} ELSE {}
           files == {f \in File : disk[f] # 0 /\ DirOf[f] = k /\ f \in options.globs}
           d == IF k \in unreadable THEN [c EXCEPT !.dirs = c.dirs \ {k}]
                ELSE [c EXCEPT !.dirs = (c.dirs \ {k}) \cup below, !.todo = c.todo \cup files]
<1>3. ScanInv(c) /\ c \in ScanRecord /\ DiskInv
  BY DEF DocumentsInv, ScanInv
<1>4. /\ d \in ScanRecord /\ d.at = "walk" /\ d.rows = c.rows /\ d.lost = c.lost
      /\ d.skipped = c.skipped /\ c.todo \subseteq d.todo
      /\ k \notin unreadable => d.dirs = (c.dirs \ {k}) \cup below /\ d.todo = c.todo \cup files
  BY <1>1, <1>3 DEF ScanRecord
<1>5. Set1(s, d)
  BY <1>2
<1> HIDE DEF d
<1>6. scan'[s] = d
  BY <1>3, <1>5, SetGives DEF DiskInv
<1>7. PlaceInv(scan[s])'
  BY <1>1, <1>3, <1>4, <1>6 DEF PlaceInv, ScanInv, AtPages
<1>8. OrderInv(scan[s])' /\ LostInv(scan[s])'
      /\ \A i \in DOMAIN scan'[s].rows : RowInv(scan[s], scan[s].rows[i])'
  BY <1>1, <1>3, <1>4, <1>6, NothingWritten
<1>9. ReachInv(scan[s])'
  <2> SUFFICES ASSUME edits = 0, NEW f \in File, Reached(f)
               PROVE  Listed(d, f) \/ DirOf[f] \in d.dirs \/ (Root \in d.dirs /\ options.recursive)
    BY <1>1, <1>4, <1>6 DEF ReachInv, Reached, Listed
  <2>1. Listed(c, f) \/ DirOf[f] \in c.dirs \/ (Root \in c.dirs /\ options.recursive)
    BY <1>1, <1>3 DEF ScanInv, ReachInv
  <2>2. k \notin unreadable /\ d.dirs = (c.dirs \ {k}) \cup below /\ d.todo = c.todo \cup files
    BY <1>3, <1>4 DEF DiskInv
  <2>3. DirOf[f] \in {Root, Sub} /\ disk[f] # 0 /\ f \in options.globs
    BY DocumentsAssumption DEF Reached
  <2>4. CASE Listed(c, f)
    BY <1>4, <2>4 DEF Listed
  <2>5. CASE DirOf[f] = k
    BY <2>2, <2>3, <2>5 DEF Listed
  <2>6. CASE DirOf[f] \in c.dirs /\ DirOf[f] # k
    BY <2>2, <2>6
  <2>7. CASE Root \in c.dirs /\ options.recursive /\ DirOf[f] # k
    <3>1. CASE k = Root
      BY <2>2, <2>3, <2>7, <3>1
    <3>2. CASE k # Root
      BY <2>2, <2>7, <3>2
    <3> QED
      BY <3>1, <3>2
  <2> QED
    BY <2>1, <2>4, <2>5, <2>6, <2>7
<1>10. ScanInv(scan[s])'
  BY <1>4, <1>6, <1>7, <1>8, <1>9 DEF ScanInv
<1> QED
  BY <1>1, <1>4, <1>5, <1>10, QuietDone

LEMMA ProbeKeeps == ASSUME DocumentsInv, NEW s \in Scans, Probe(s) PROVE DocumentsInv'
<1> DEFINE c == scan[s]
<1>1. /\ UNCHANGED <<options, registered, disk, unreadable, edits, store>>
      /\ c.at = "probe"
  BY DEF Probe
<1>2. PICK ok \in BOOLEAN :
         Set1(s, [c EXCEPT !.at = "parse",
                           !.ocr = options.server /\ \/ options.ocr = "on"
                                                     \/ options.ocr = "auto" /\ ok /\ disk[Now(s)] # 0
                                                          /\ Now(s) \in Scanned])
  BY DEF Probe
<1> DEFINE o == options.server /\ \/ options.ocr = "on"
                                  \/ options.ocr = "auto" /\ ok /\ disk[Now(s)] # 0 /\ Now(s) \in Scanned
           d == [c EXCEPT !.at = "parse", !.ocr = o]
<1>3. ScanInv(c) /\ c \in ScanRecord /\ DiskInv
  BY DEF DocumentsInv, ScanInv
<1>4. o \in BOOLEAN /\ (options.ocr = "on" => o)
  <2>1. registered = "yes" /\ options.server \in BOOLEAN
    BY <1>1, <1>3, OptionFields DEF ScanInv, PlaceInv
  <2>2. options.ocr = "on" => options.server
    BY <1>3, <2>1 DEF DiskInv
  <2> QED
    BY <2>1, <2>2
<1> HIDE DEF o
<1>5. /\ d \in ScanRecord /\ d.at = "parse" /\ d.rows = c.rows /\ d.lost = c.lost /\ d.ocr = o
      /\ d.todo = c.todo /\ d.skipped = c.skipped
  BY <1>3, <1>4 DEF ScanRecord
<1>6. Set1(s, d)
  BY <1>2 DEF o
<1> HIDE DEF d
<1>7. scan'[s] = d
  BY <1>3, <1>6, SetGives DEF DiskInv
<1>8. PlaceInv(scan[s])'
  <2>1. registered' = "yes" /\ d.todo # {}
    BY <1>1, <1>3, <1>5 DEF PlaceInv, ScanInv
  <2> QED
    BY <1>1, <1>4, <1>5, <1>7, <2>1 DEF PlaceInv, AtPages
<1>9. OrderInv(scan[s])' /\ LostInv(scan[s])'
      /\ \A i \in DOMAIN scan'[s].rows : RowInv(scan[s], scan[s].rows[i])'
  BY <1>1, <1>3, <1>5, <1>7, NothingWritten
<1>10. ReachInv(scan[s])'
  BY <1>1, <1>3, <1>5, <1>7 DEF ScanInv, ReachInv, Reached, Listed
<1>11. ScanInv(scan[s])'
  BY <1>5, <1>7, <1>8, <1>9, <1>10 DEF ScanInv
<1> QED
  BY <1>1, <1>5, <1>6, <1>11, QuietDone

LEMMA SkipKeeps == ASSUME DocumentsInv, NEW s \in Scans, Skip(s) PROVE DocumentsInv'
<1> DEFINE c == scan[s]
           f == Now(s)
           d == [c EXCEPT !.at = "next", !.todo = c.todo \ {f}, !.skipped = c.skipped \cup {f}]
<1>1. /\ UNCHANGED <<options, registered, disk, unreadable, edits, store>>
      /\ c.at = "parse" /\ Set1(s, d)
  BY DEF Skip
<1>2. ScanInv(c) /\ c \in ScanRecord /\ DiskInv
  BY DEF DocumentsInv, ScanInv
<1>3. f \in c.todo /\ f \in File
  <2>1. f = Current(c) /\ c.todo # {} /\ c.todo \in SUBSET File
    BY <1>1, <1>2, ScanFields DEF Now, Current, ScanInv, PlaceInv
  <2> QED
    BY <2>1, CurrentIs
<1> HIDE DEF f
<1>4. /\ d \in ScanRecord /\ d.at = "next" /\ d.rows = c.rows /\ d.lost = c.lost
      /\ d.todo = c.todo \ {f} /\ d.skipped = c.skipped \cup {f}
  BY <1>2, <1>3 DEF ScanRecord
<1> HIDE DEF d
<1>5. scan'[s] = d
  BY <1>1, <1>2, SetGives DEF DiskInv
<1>6. PlaceInv(scan[s])'
  BY <1>1, <1>2, <1>4, <1>5 DEF PlaceInv, ScanInv, AtPages
<1>7. OrderInv(scan[s])' /\ LostInv(scan[s])'
      /\ \A i \in DOMAIN scan'[s].rows : RowInv(scan[s], scan[s].rows[i])'
  BY <1>1, <1>2, <1>4, <1>5, NothingWritten
<1>8. ReachInv(scan[s])'
  BY <1>1, <1>2, <1>4, <1>5 DEF ScanInv, ReachInv, Reached, Listed
<1>9. ScanInv(scan[s])'
  BY <1>4, <1>5, <1>6, <1>7, <1>8 DEF ScanInv
<1> QED
  BY <1>1, <1>4, <1>9, QuietDone

LEMMA ParseKeeps == ASSUME DocumentsInv, NEW s \in Scans, Parse(s) PROVE DocumentsInv'
<1> DEFINE c == scan[s]
           f == Now(s)
           d == [c EXCEPT !.at = IF options.render THEN "render" ELSE "rows",
                          !.text = disk[f], !.page = 1, !.refs = {}]
<1>1. /\ UNCHANGED <<options, registered, disk, unreadable, edits, store>>
      /\ c.at = "parse" /\ Set1(s, d)
  BY DEF Parse
<1>2. ScanInv(c) /\ c \in ScanRecord /\ DiskInv /\ PlaceInv(c)
  BY DEF DocumentsInv, ScanInv
<1>3. f = Current(c) /\ f \in File /\ disk[f] \in Nat /\ Len(Pages[f]) \in Nat \ {0}
  <2>1. f = Current(c) /\ c.todo # {} /\ c.todo \in SUBSET File
    BY <1>1, <1>2, ScanFields DEF Now, Current, PlaceInv
  <2>2. f \in File
    BY <2>1, CurrentIs
  <2> QED
    BY <1>2, <2>1, <2>2, PagesOf, OptionFields
<1> HIDE DEF f
<1>4. /\ d \in ScanRecord /\ d.at \in {"render", "rows"} /\ d.rows = c.rows /\ d.lost = c.lost
      /\ d.todo = c.todo /\ d.skipped = c.skipped /\ d.ocr = c.ocr /\ d.text = disk[f]
      /\ d.page = 1 /\ d.refs = {}
  BY <1>2, <1>3 DEF ScanRecord
<1> HIDE DEF d
<1>5. scan'[s] = d
  BY <1>1, <1>2, SetGives DEF DiskInv
<1>6. Current(scan[s])' = f
  BY <1>3, <1>4, <1>5 DEF Current
<1>7. PlaceInv(scan[s])'
  <2>1. registered' = "yes" /\ d.todo # {} /\ (options'.ocr = "on" => d.ocr)
    BY <1>1, <1>2, <1>4 DEF PlaceInv
  <2>2. 1 \in 1..Len(Pages[f])
    BY <1>3
  <2> QED
    BY <1>1, <1>4, <1>5, <1>6, <2>1, <2>2 DEF PlaceInv, AtPages
<1>8. OrderInv(scan[s])' /\ LostInv(scan[s])'
      /\ \A i \in DOMAIN scan'[s].rows : RowInv(scan[s], scan[s].rows[i])'
  BY <1>1, <1>2, <1>4, <1>5, NothingWritten
<1>9. ReachInv(scan[s])'
  BY <1>1, <1>2, <1>4, <1>5 DEF ScanInv, ReachInv, Reached, Listed
<1>10. ScanInv(scan[s])'
  BY <1>4, <1>5, <1>7, <1>8, <1>9 DEF ScanInv
<1> QED
  BY <1>1, <1>4, <1>10, QuietDone

LEMMA RenderKeeps == ASSUME DocumentsInv, NEW s \in Scans, Render(s) PROVE DocumentsInv'
<1> DEFINE c == scan[s]
           f == Now(s)
<1>1. /\ UNCHANGED <<options, registered, disk, unreadable, edits, store>>
      /\ c.at = "render"
  BY DEF Render
<1>2. ScanInv(c) /\ c \in ScanRecord /\ DiskInv /\ PlaceInv(c)
  BY DEF DocumentsInv, ScanInv
<1>3. f = Current(c) /\ f \in File /\ disk[f] \in Nat /\ Len(Pages[f]) \in Nat \ {0}
  <2>1. f = Current(c) /\ c.todo # {} /\ c.todo \in SUBSET File
    BY <1>1, <1>2, ScanFields DEF Now, Current, PlaceInv, AtPages
  <2>2. f \in File
    BY <2>1, CurrentIs
  <2> QED
    BY <1>2, <2>1, <2>2, PagesOf, OptionFields
<1>4. PICK shots \in Nat : /\ shots = c.shots \/ shots = disk[f]
                           /\ \/ Set1(s, [c EXCEPT !.at = "rows"]) /\ shots = c.shots
                              \/ Set1(s, [c EXCEPT !.at = "shots", !.shots = shots]) /\ shots = disk[f]
  <2>1. c.shots \in Nat
    BY <1>2, ScanFields
  <2> QED
    BY <1>3, <2>1 DEF Render
<1> HIDE DEF f
<1>5. PICK d : /\ Set1(s, d) /\ d \in ScanRecord /\ d.at \in {"rows", "shots"}
               /\ d.at = "shots" => d.shots = disk[f]
               /\ d.rows = c.rows /\ d.lost = c.lost /\ d.todo = c.todo /\ d.skipped = c.skipped
               /\ d.ocr = c.ocr /\ d.text = c.text /\ d.page = c.page /\ d.refs = c.refs
  <2>1. CASE Set1(s, [c EXCEPT !.at = "rows"])
    <3> DEFINE d == [c EXCEPT !.at = "rows"]
    <3>1. /\ d \in ScanRecord /\ d.at = "rows"
          /\ d.rows = c.rows /\ d.lost = c.lost /\ d.todo = c.todo /\ d.skipped = c.skipped
          /\ d.ocr = c.ocr /\ d.text = c.text /\ d.page = c.page /\ d.refs = c.refs
      BY <1>2 DEF ScanRecord
    <3>2. Set1(s, d)
      BY <2>1
    <3> HIDE DEF d
    <3> QED
      BY <3>1, <3>2
  <2>2. CASE Set1(s, [c EXCEPT !.at = "shots", !.shots = shots]) /\ shots = disk[f]
    <3> DEFINE d == [c EXCEPT !.at = "shots", !.shots = shots]
    <3>1. /\ d \in ScanRecord /\ d.at = "shots" /\ d.shots = shots
          /\ d.rows = c.rows /\ d.lost = c.lost /\ d.todo = c.todo /\ d.skipped = c.skipped
          /\ d.ocr = c.ocr /\ d.text = c.text /\ d.page = c.page /\ d.refs = c.refs
      BY <1>2 DEF ScanRecord
    <3>2. Set1(s, d)
      BY <2>2
    <3> HIDE DEF d
    <3> QED
      BY <2>2, <3>1, <3>2
  <2> QED
    BY <1>4, <2>1, <2>2
<1>6. scan'[s] = d
  BY <1>2, <1>5, SetGives DEF DiskInv
<1>7. Current(scan[s])' = f
  BY <1>3, <1>5, <1>6 DEF Current
<1>8. c.page = 1 /\ c.refs = {} /\ c.todo # {} /\ registered = "yes"
      /\ (options.ocr = "on" => c.ocr) /\ (disk[f] = 1 => c.text = 1)
  BY <1>1, <1>2, <1>3 DEF PlaceInv, AtPages
<1>9. PlaceInv(scan[s])'
  <2>1. 1 \in 1..Len(Pages[f])
    BY <1>3
  <2> QED
    BY <1>1, <1>5, <1>6, <1>7, <1>8, <2>1 DEF PlaceInv, AtPages
<1>10. OrderInv(scan[s])' /\ LostInv(scan[s])'
      /\ \A i \in DOMAIN scan'[s].rows : RowInv(scan[s], scan[s].rows[i])'
  BY <1>1, <1>2, <1>5, <1>6, <1>8, NothingWritten
<1>11. ReachInv(scan[s])'
  BY <1>1, <1>2, <1>5, <1>6 DEF ScanInv, ReachInv, Reached, Listed
<1>12. ScanInv(scan[s])'
  BY <1>5, <1>6, <1>9, <1>10, <1>11 DEF ScanInv
<1> QED
  BY <1>1, <1>5, <1>12, QuietDone

\* The first rows of a query.
LEMMA PrefixIs ==
    ASSUME NEW S, NEW q \in Seq(S), NEW m \in 0..Len(q)
    PROVE  /\ SubSeq(q, 1, m) \in Seq(S) /\ Len(SubSeq(q, 1, m)) = m /\ DOMAIN SubSeq(q, 1, m) = 1..m
           /\ \A i \in 1..m : SubSeq(q, 1, m)[i] = q[i]
OBVIOUS

LEMMA WalkedKeeps == ASSUME DocumentsInv, NEW s \in Scans, Walked(s) PROVE DocumentsInv'
<1> DEFINE c == scan[s]
           m == IF c.limit < Len(c.rows) THEN c.limit ELSE Len(c.rows)
           e == [c EXCEPT !.at = "ended", !.rows = SubSeq(c.rows, 1, m)]
           p == [c EXCEPT !.at = "probe"]
<1>1. /\ UNCHANGED <<options, registered, disk, unreadable, edits, store>>
      /\ (c.at = "walk" /\ c.dirs = {}) \/ c.at = "next"
      /\ c.todo = {} => Set1(s, e)
      /\ c.todo # {} => Set1(s, p)
  BY DEF Walked
<1>2. ScanInv(c) /\ c \in ScanRecord /\ DiskInv /\ PlaceInv(c) /\ OrderInv(c) /\ ReachInv(c)
      /\ \A i \in DOMAIN c.rows : RowInv(c, c.rows[i])
  BY DEF DocumentsInv, ScanInv
<1>3. CASE c.todo = {}
  <2>1. c.rows \in Seq(RowRecord) /\ c.limit \in Nat /\ Len(c.rows) \in Nat
        /\ DOMAIN c.rows = 1..Len(c.rows)
    BY <1>2, ScanFields
  <2>2. m \in 0..Len(c.rows) /\ (m < c.limit => m = Len(c.rows))
    BY <2>1
  <2> HIDE DEF m
  <2> DEFINE q == SubSeq(c.rows, 1, m)
  <2>3. /\ q \in Seq(RowRecord) /\ Len(q) = m /\ DOMAIN q = 1..m
        /\ \A i \in 1..m : q[i] = c.rows[i]
    BY <2>1, <2>2, PrefixIs
  <2> HIDE DEF q
  <2>4. /\ e \in ScanRecord /\ e.at = "ended" /\ e.rows = q /\ e.lost = c.lost /\ e.todo = {}
        /\ e.skipped = c.skipped /\ e.limit = c.limit
    BY <1>2, <1>3, <2>3 DEF ScanRecord, q
  <2>5. Set1(s, e)
    BY <1>1, <1>3
  <2> HIDE DEF e
  <2>6. scan'[s] = e
    BY <1>2, <2>5, SetGives DEF DiskInv
  <2>7. PlaceInv(scan[s])'
    <3>1. registered' = "yes"
      BY <1>1, <1>2 DEF PlaceInv
    <3> QED
      BY <2>4, <2>6, <3>1 DEF PlaceInv, AtPages
  <2>8. InOrder(q)
    <3> SUFFICES ASSUME NEW i \in 1..(m - 1)
                 PROVE  \/ Rank[q[i].path] < Rank[q[i + 1].path]
                              /\ q[i].page = Len(Pages[q[i].path]) /\ q[i + 1].page = 1
                        \/ q[i].path = q[i + 1].path /\ q[i + 1].page = q[i].page + 1
      BY <2>3 DEF InOrder
    <3>1. i \in 1..(Len(c.rows) - 1) /\ i \in 1..m /\ i + 1 \in 1..m
      BY <2>1, <2>2
    <3>2. q[i] = c.rows[i] /\ q[i + 1] = c.rows[i + 1]
      BY <2>3, <3>1
    <3> QED
      BY <1>2, <3>1, <3>2 DEF OrderInv, InOrder
  <2>9. OrderInv(scan[s])' /\ LostInv(scan[s])'
    BY <2>4, <2>6, <2>8 DEF OrderInv, LostInv
  <2>10. ReachInv(scan[s])'
    <3> SUFFICES ASSUME edits = 0, Len(q) < c.limit, NEW f \in File, Reached(f)
                 PROVE  f \in c.skipped \cup {q[i].path : i \in DOMAIN q}
      BY <1>1, <2>4, <2>6 DEF ReachInv, Reached, Listed
    <3>1. DOMAIN q = DOMAIN c.rows /\ \A i \in DOMAIN q : q[i] = c.rows[i]
      BY <2>1, <2>2, <2>3
    <3>2. Listed(c, f)
      BY <1>1, <1>2 DEF ReachInv
    <3> QED
      BY <1>3, <3>1, <3>2 DEF Listed
  <2>11. ASSUME NEW i \in DOMAIN q PROVE RowInv(scan[s], scan[s].rows[i])'
    <3>1. RowInv(c, c.rows[i]) /\ q[i] = c.rows[i]
      BY <1>2, <2>1, <2>2, <2>3
    <3>2. ASSUME NEW f, NEW name, Kept(c, f, name) PROVE Kept(scan[s], f, name)'
      BY <1>1, <2>4, <2>6, <3>2 DEF Kept
    <3> QED
      BY <1>1, <2>4, <2>6, <3>1, <3>2 DEF RowInv, OcrAsAsked
  <2>12. ScanInv(scan[s])'
    BY <2>4, <2>6, <2>7, <2>9, <2>10, <2>11 DEF ScanInv
  <2> QED
    BY <1>1, <2>4, <2>5, <2>12, QuietDone
<1>4. CASE c.todo # {}
  <2>1. /\ p \in ScanRecord /\ p.at = "probe" /\ p.rows = c.rows /\ p.lost = c.lost
        /\ p.todo = c.todo /\ p.skipped = c.skipped
    BY <1>2 DEF ScanRecord
  <2>2. Set1(s, p)
    BY <1>1, <1>4
  <2> HIDE DEF p
  <2>3. scan'[s] = p
    BY <1>2, <2>2, SetGives DEF DiskInv
  <2>4. PlaceInv(scan[s])'
    BY <1>1, <1>2, <1>4, <2>1, <2>3 DEF PlaceInv, AtPages
  <2>5. OrderInv(scan[s])' /\ LostInv(scan[s])'
        /\ \A i \in DOMAIN scan'[s].rows : RowInv(scan[s], scan[s].rows[i])'
    BY <1>1, <1>2, <2>1, <2>3, NothingWritten
  <2>6. ReachInv(scan[s])'
    BY <1>1, <1>2, <2>1, <2>3 DEF ReachInv, Reached, Listed
  <2>7. ScanInv(scan[s])'
    BY <2>1, <2>3, <2>4, <2>5, <2>6 DEF ScanInv
  <2> QED
    BY <1>1, <2>1, <2>2, <2>7, QuietDone
<1> QED
  BY <1>3, <1>4

-----------------------------------------------------------------------------
(* Steps that write an image.                                               *)

Images == [file : File, page : Nat, version : Nat]

\* What an attempt of a query to write one image leads to.
Wrote(s, kind, w) ==
    LET c == scan[s]
        name == ImageName(Current(c), kind, c.page)
    IN  /\ w.ref \subseteq {name} /\ w.lost \subseteq {name} /\ (w.ref # {} => w.lost = {})
        /\ w.store = [n \in Names |-> w.store[n]]
        /\ \A n \in Names :
              \/ w.store[n] = store[n]
              \/ n = name /\ w.store[n] = Torn /\ n \in w.lost
              \/ /\ n = name /\ w.store[n] \in Images
                 /\ w.store[n].file = Current(c) /\ w.store[n].page = c.page
                 /\ disk[Current(c)] = 1 => w.store[n].version = 1
        /\ options.store = "local" /\ w.ref # {} => w.store[name] \in Images

LEMMA NoImages == None \notin Images /\ Torn \notin Images /\ None # Torn
BY DocumentsAssumption DEF Images

LEMMA WriteGives ==
    ASSUME NEW s \in Scans, store = [n \in Names |-> store[n]], Current(scan[s]) \in File,
           scan[s].page \in 1..Len(Pages[Current(scan[s])]), NEW kind \in {"page", "crop"},
           NEW shown \in Nat, disk[Current(scan[s])] = 1 => shown = 1,
           NEW w \in WriteImage(s, kind, shown)
    PROVE  Wrote(s, kind, w)
<1> DEFINE f == Current(scan[s])
           page == scan[s].page
           name == ImageName(f, kind, page)
           image == Shows(s, shown)
<1>1. f = Now(s) /\ f \in File /\ page \in Nat /\ name \in Names
  BY PagesOf DEF Current, Now
<1>2. image = [file |-> f, page |-> page, version |-> shown]
  BY <1>1 DEF Shows
<1>3. image \in Images /\ image.file = f /\ image.page = page /\ image.version = shown
  BY <1>1, <1>2 DEF Images
<1>4. \/ options.store # "local" /\ w = [ref |-> {name}, lost |-> {}, store |-> store]
      \/ w = [ref |-> {name}, lost |-> {}, store |-> [store EXCEPT ![name] = image]]
      \/ w = [ref |-> {}, lost |-> {name}, store |-> store]
      \/ w = [ref |-> {}, lost |-> {name}, store |-> [store EXCEPT ![name] = Torn]]
  BY <1>1 DEF WriteImage
<1> HIDE DEF image, name
<1>5. ASSUME NEW v
      PROVE  LET left == [store EXCEPT ![name] = v]
             IN  /\ left = [n \in Names |-> left[n]] /\ left[name] = v
                 /\ \A n \in Names : n # name => left[n] = store[n]
  BY <1>1
<1>6. CASE w = [ref |-> {name}, lost |-> {}, store |-> store] /\ options.store # "local"
  BY <1>6 DEF Wrote, name
<1>7. CASE w = [ref |-> {name}, lost |-> {}, store |-> [store EXCEPT ![name] = image]]
  <2>1. /\ w.ref = {name} /\ w.lost = {} /\ w.store = [n \in Names |-> w.store[n]]
        /\ w.store[name] = image /\ \A n \in Names : n # name => w.store[n] = store[n]
    BY <1>5, <1>7
  <2> QED
    BY <1>3, <2>1 DEF Wrote, name
<1>8. CASE w = [ref |-> {}, lost |-> {name}, store |-> store]
  BY <1>8 DEF Wrote, name
<1>9. CASE w = [ref |-> {}, lost |-> {name}, store |-> [store EXCEPT ![name] = Torn]]
  <2>1. /\ w.ref = {} /\ w.lost = {name} /\ w.store = [n \in Names |-> w.store[n]]
        /\ w.store[name] = Torn /\ \A n \in Names : n # name => w.store[n] = store[n]
    BY <1>5, <1>9
  <2> QED
    BY <2>1 DEF Wrote, name
<1> QED
  BY <1>4, <1>6, <1>7, <1>8, <1>9

\* An image, once there, is not taken away, and it shows what it should.
LEMMA ImagesWritten ==
    ASSUME DocumentsInv, NEW s \in Scans, NEW kind \in {"page", "crop"}, NEW w, Wrote(s, kind, w),
           store' = w.store, UNCHANGED disk, scan'[s].lost = scan[s].lost \cup w.lost,
           \A t \in Scans \ {s} : scan'[t] = scan[t]
    PROVE  /\ \A name \in Names : ImageInv(name)'
           /\ \A name \in Names : store[name] # None => store'[name] # None
           /\ store' = [n \in Names |-> store'[n]]
<1> DEFINE c == scan[s]
<1>1. ASSUME NEW n \in Names, store[n] # None PROVE store'[n] # None
  BY <1>1, NoImages DEF Wrote
<1>2. \A t \in Scans : scan[t].lost \subseteq scan'[t].lost
  OBVIOUS
<1>3. ASSUME NEW n \in Names PROVE ImageInv(n)'
  <2>1. CASE w.store[n] = store[n]
    <3>1. ImageInv(n)
      BY DEF DocumentsInv
    <3>2. CASE store[n] = None
      BY <2>1, <3>2 DEF ImageInv
    <3>3. CASE store[n] = Torn /\ \E t \in Scans : n \in scan[t].lost
      BY <1>2, <2>1, <3>3 DEF ImageInv
    <3>4. CASE /\ store[n] \in [file : File, page : Nat, version : Nat]
               /\ n[1] = Stem[store[n].file] /\ n[3] = store[n].page
               /\ disk[store[n].file] = 1 => store[n].version = 1
      BY <2>1, <3>4 DEF ImageInv
    <3> QED
      BY <3>1, <3>2, <3>3, <3>4 DEF ImageInv
  <2>2. CASE w.store[n] = Torn /\ n \in w.lost
    BY <2>2 DEF ImageInv
  <2>3. CASE /\ n = ImageName(Current(c), kind, c.page) /\ w.store[n] \in Images
             /\ w.store[n].file = Current(c) /\ w.store[n].page = c.page
             /\ disk[Current(c)] = 1 => w.store[n].version = 1
    <3>1. n[1] = Stem[Current(c)] /\ n[3] = c.page
      BY <2>3, NameIs
    <3> QED
      BY <2>3, <3>1 DEF ImageInv, Images
  <2> QED
    BY <2>1, <2>2, <2>3 DEF Wrote
<1> QED
  BY <1>1, <1>3 DEF Wrote

\* A reference of a page stays good while a query tries to write the image of another.
LEMMA KeptStays ==
    ASSUME NEW s \in Scans, NEW kind \in {"page", "crop"}, NEW w, Wrote(s, kind, w),
           store' = w.store, UNCHANGED options, scan'[s].lost = scan[s].lost \cup w.lost,
           \A name \in Names : store[name] # None => store'[name] # None,
           Current(scan[s]) \in File, NEW f \in File, NEW k, NEW q, Kept(scan[s], f, ImageName(f, k, q)),
           f # Current(scan[s]) \/ k # kind \/ q # scan[s].page
    PROVE  Kept(scan[s], f, ImageName(f, k, q))'
<1> DEFINE name == ImageName(f, k, q)
           other == ImageName(Current(scan[s]), kind, scan[s].page)
<1>1. ASSUME Alone(f) PROVE name # other
  <2> SUFFICES ASSUME name = other PROVE FALSE
    OBVIOUS
  <2>1. Stem[f] = Stem[Current(scan[s])] /\ k = kind /\ q = scan[s].page
    BY NameParts
  <2> QED
    BY <1>1, <2>1 DEF Alone
<1>2. w.lost \subseteq {other}
  BY DEF Wrote
<1> HIDE DEF name, other
<1>3. Kept(scan[s], f, name)
  BY DEF name
<1>4. Kept(scan[s], f, name)'
  BY <1>1, <1>2, <1>3 DEF Kept
<1> QED
  BY <1>4 DEF name

\* The image a query is about to write has not been lost to it.
LEMMA NotLost ==
    ASSUME NEW c, c.todo \in SUBSET File, c.todo # {}, LostInv(c), c.at # "ended", Alone(Current(c)),
           NEW kind, NEW page, page \in Nat,
           c.at = "shots" => ~(kind = "page" /\ page < c.page),
           c.at = "rows" => kind # "page" /\ ~(page < c.page)
    PROVE  ImageName(Current(c), kind, page) \notin c.lost
<1> DEFINE name == ImageName(Current(c), kind, page)
<1> SUFFICES ASSUME name \in c.lost PROVE FALSE
  OBVIOUS
<1>1. PICK f \in File, k \in {"page", "crop"} : \E q \in DOMAIN Pages[f] :
         name = ImageName(f, k, q) /\ Tried(c, f, k, q)
  BY DEF LostInv
<1>2. PICK q \in DOMAIN Pages[f] : name = ImageName(f, k, q) /\ Tried(c, f, k, q)
  BY <1>1
<1>3. Stem[f] = Stem[Current(c)] /\ k = kind /\ q = page
  BY <1>2, NameParts
<1>4. f = Current(c)
  BY <1>3 DEF Alone
<1>5. Current(c) \in c.todo /\ Rank[Current(c)] \in Nat
  BY CurrentIs, DocumentsAssumption
<1>6. ~Behind(c, f)
  BY <1>4, <1>5 DEF Behind
<1> QED
  BY <1>2, <1>3, <1>6 DEF Tried

\* What holds of a query at a page of a file.
LEMMA AtPage ==
    ASSUME DocumentsInv, NEW s \in Scans, scan[s].at \in {"shots", "rows"}
    PROVE  LET c == scan[s]
           IN  /\ DiskInv /\ ScanInv(c) /\ c \in ScanRecord /\ c.todo \in SUBSET File /\ c.todo # {}
               /\ Current(c) = Now(s) /\ Current(c) \in c.todo /\ Current(c) \in File
               /\ c.page \in 1..Len(Pages[Current(c)])
               /\ c.page \in Nat \ {0} /\ Len(Pages[Current(c)]) \in Nat \ {0}
<1> DEFINE c == scan[s]
<1>1. DiskInv /\ ScanInv(c) /\ c \in ScanRecord /\ PlaceInv(c)
  BY DEF DocumentsInv, ScanInv
<1>2. c.todo \in SUBSET File /\ c.todo # {} /\ c.page \in 1..Len(Pages[Current(c)])
  BY <1>1, ScanFields DEF PlaceInv, AtPages
<1>3. Current(c) \in c.todo /\ Current(c) \in File
  BY <1>2, CurrentIs
<1>4. Len(Pages[Current(c)]) \in Nat \ {0}
  BY <1>3, PagesOf
<1>5. Current(c) = Now(s)
  BY DEF Current, Now
<1> QED
  BY <1>1, <1>2, <1>3, <1>4, <1>5

LEMMA WritePageKeeps == ASSUME DocumentsInv, NEW s \in Scans, WritePage(s) PROVE DocumentsInv'
<1> DEFINE c == scan[s]
<1>0. PICK f, page : f = Current(c) /\ page = c.page
  OBVIOUS
<1> DEFINE last == page = Len(Pages[f])
<1>1. c.at = "shots" /\ UNCHANGED <<options, registered, disk, unreadable, edits>>
  BY DEF WritePage
<1>2. /\ DiskInv /\ ScanInv(c) /\ c \in ScanRecord /\ c.todo \in SUBSET File /\ c.todo # {}
      /\ f = Now(s) /\ f \in c.todo /\ f \in File
      /\ page \in 1..Len(Pages[f]) /\ page \in Nat \ {0} /\ Len(Pages[f]) \in Nat \ {0}
  BY <1>0, <1>1, AtPage
<1>3. PICK w \in WriteImage(s, "page", c.shots) :
         /\ Set1(s, [c EXCEPT !.refs = c.refs \cup w.ref, !.lost = c.lost \cup w.lost,
                              !.page = IF last THEN 1 ELSE page + 1,
                              !.at = IF last THEN "rows" ELSE "shots"])
         /\ store' = w.store
  BY <1>0, <1>2 DEF WritePage
<1> DEFINE d == [c EXCEPT !.refs = c.refs \cup w.ref, !.lost = c.lost \cup w.lost,
                          !.page = IF last THEN 1 ELSE page + 1,
                          !.at = IF last THEN "rows" ELSE "shots"]
           name == ImageName(f, "page", page)
<1>4. PlaceInv(c) /\ OrderInv(c) /\ LostInv(c) /\ ReachInv(c)
      /\ \A i \in DOMAIN c.rows : RowInv(c, c.rows[i])
  BY <1>2 DEF ScanInv
<1>5. Wrote(s, "page", w)
  <2>1. c.shots \in Nat /\ (disk[f] = 1 => c.shots = 1)
    BY <1>0, <1>1, <1>2, <1>4, ScanFields DEF PlaceInv
  <2>2. store = [n \in Names |-> store[n]]
    BY <1>2 DEF DiskInv
  <2> QED
    BY <1>0, <1>2, <2>1, <2>2, WriteGives
<1>6. name \in Names /\ w.ref \subseteq {name} /\ w.lost \subseteq {name} /\ (w.ref # {} => w.lost = {})
      /\ (options.store = "local" /\ w.ref # {} => w.store[name] \in Images)
  BY <1>0, <1>2, <1>5, PagesOf DEF Wrote
<1> HIDE DEF name
<1>7. /\ d \in ScanRecord /\ d.refs = c.refs \cup w.ref /\ d.lost = c.lost \cup w.lost
      /\ d.rows = c.rows /\ d.todo = c.todo /\ d.skipped = c.skipped /\ d.ocr = c.ocr
      /\ d.text = c.text /\ d.shots = c.shots
      /\ last => d.page = 1 /\ d.at = "rows"
      /\ ~last => d.page = page + 1 /\ d.at = "shots"
  <2>1. c.refs \cup w.ref \in SUBSET Names /\ c.lost \cup w.lost \in SUBSET Names
    BY <1>2, <1>6, ScanFields
  <2>2. (IF last THEN 1 ELSE page + 1) \in Nat
    BY <1>2
  <2> QED
    BY <1>2, <2>1, <2>2 DEF ScanRecord
<1>8. Set1(s, d) /\ store' = w.store
  BY <1>3
<1> HIDE DEF d
<1>9. scan'[s] = d /\ scan' = [t \in Scans |-> scan'[t]] /\ \A t \in Scans \ {s} : scan'[t] = scan[t]
  BY <1>2, <1>8, SetGives DEF DiskInv
<1>10. /\ \A n \in Names : ImageInv(n)'
       /\ \A n \in Names : store[n] # None => store'[n] # None
       /\ store' = [n \in Names |-> store'[n]]
  <2>1. scan'[s].lost = scan[s].lost \cup w.lost
    BY <1>7, <1>9
  <2> QED
    BY <1>1, <1>5, <1>8, <1>9, <2>1, ImagesWritten
<1>11. Current(scan[s])' = f
  BY <1>0, <1>7, <1>9 DEF Current
<1>12. ASSUME NEW g \in File, NEW k, NEW q, Kept(c, g, ImageName(g, k, q)),
              g # f \/ k # "page" \/ q # page
       PROVE  Kept(scan[s], g, ImageName(g, k, q))'
  <2>1. scan'[s].lost = scan[s].lost \cup w.lost
    BY <1>7, <1>9
  <2> QED
    BY <1>0, <1>1, <1>2, <1>5, <1>8, <1>10, <1>12, <2>1, KeptStays
<1>13. PlaceInv(scan[s])'
  <2>1. registered' = "yes" /\ (options.ocr = "on" => c.ocr)
        /\ (disk[f] = 1 => c.text = 1 /\ c.shots = 1)
    BY <1>0, <1>1, <1>4 DEF PlaceInv, AtPages
  <2>2. d.page \in 1..Len(Pages[f])
    BY <1>2, <1>7
  <2> QED
    BY <1>1, <1>2, <1>7, <1>9, <1>11, <2>1, <2>2 DEF PlaceInv, AtPages
<1>14. OrderInv(scan[s])'
  <2>1. /\ InOrder(c.rows) /\ \A i \in DOMAIN c.rows : Behind(c, c.rows[i].path)
        /\ c.rows # <<>> => LET r == c.rows[Len(c.rows)]
                            IN  Behind(c, r.path) /\ r.page = Len(Pages[r.path])
    BY <1>1, <1>4 DEF OrderInv
  <2>2. ASSUME NEW g, Behind(c, g) PROVE Behind(scan[s], g)'
    BY <1>7, <1>9, <2>2 DEF Behind
  <2>3. d.at # "ended" /\ (d.at = "rows" => d.page = 1)
    BY <1>7
  <2> QED
    BY <1>7, <1>9, <2>1, <2>2, <2>3 DEF OrderInv
<1>15. LostInv(scan[s])'
  <2>1. ASSUME NEW g \in File, NEW k \in {"page", "crop"}, NEW q \in DOMAIN Pages[g], Tried(c, g, k, q)
        PROVE  Tried(scan[s], g, k, q)'
    <3>1. CASE Behind(c, g)
      BY <1>7, <1>9, <3>1 DEF Tried, Behind
    <3>2. CASE g = f /\ k = "page" /\ q < page
      <4>1. q \in Nat
        BY PagesOf
      <4>2. q < page + 1
        BY <1>2, <3>2, <4>1
      <4> QED
        BY <1>7, <1>9, <1>11, <3>2, <4>2 DEF Tried
    <3> QED
      BY <1>0, <1>1, <2>1, <3>1, <3>2 DEF Tried
  <2>2. Tried(scan[s], f, "page", page)'
    <3>1. page < page + 1
      BY <1>2
    <3> QED
      BY <1>7, <1>9, <1>11, <3>1 DEF Tried
  <2>3. ASSUME NEW n \in d.lost
        PROVE  \E g \in File, k \in {"page", "crop"} : \E q \in DOMAIN Pages[g] :
                  n = ImageName(g, k, q) /\ Tried(scan[s], g, k, q)'
    <3>1. CASE n \in c.lost
      <4>1. PICK g \in File, k \in {"page", "crop"} : \E q \in DOMAIN Pages[g] :
               n = ImageName(g, k, q) /\ Tried(c, g, k, q)
        BY <1>0, <1>1, <1>4, <3>1 DEF LostInv
      <4> QED
        BY <2>1, <4>1
    <3>2. CASE n = name
      <4>1. page \in DOMAIN Pages[f]
        BY <1>2, PagesOf
      <4> QED
        BY <1>2, <2>2, <3>2, <4>1 DEF name
    <3> QED
      BY <1>6, <1>7, <3>1, <3>2
  <2>4. ASSUME NEW n \in d.refs
        PROVE  /\ \E q \in DOMAIN Pages[f] :
                     n = ImageName(f, "page", q) /\ (d.at = "shots" => q < d.page)
               /\ Kept(scan[s], f, n)'
    <3>1. CASE n \in c.refs
      <4>1. PICK q \in DOMAIN Pages[f] : n = ImageName(f, "page", q) /\ q < page
        BY <1>0, <1>1, <1>4, <3>1 DEF LostInv
      <4>2. Kept(c, f, ImageName(f, "page", q))
        BY <1>0, <1>1, <1>4, <3>1, <4>1 DEF LostInv
      <4>3. q \in Nat /\ q # page /\ q < page + 1
        BY <1>2, <4>1, PagesOf
      <4>4. Kept(scan[s], f, ImageName(f, "page", q))'
        BY <1>2, <1>12, <4>2, <4>3
      <4> QED
        BY <1>7, <4>1, <4>3, <4>4
    <3>2. CASE n \in w.ref
      <4>1. n = name /\ w.lost = {} /\ page \in DOMAIN Pages[f]
        BY <1>2, <1>6, <3>2, PagesOf
      <4>2. d.at = "shots" => page < d.page
        BY <1>2, <1>7
      <4>3. Alone(f) => name \notin c.lost
        <5>1. ~(page < page)
          BY <1>2
        <5> QED
          BY <1>0, <1>1, <1>2, <1>4, <5>1, NotLost DEF name
      <4>4. options.store = "local" => w.store[name] # None
        BY <1>6, <3>2, NoImages
      <4>5. Kept(scan[s], f, name)'
        BY <1>1, <1>6, <1>7, <1>8, <1>9, <4>1, <4>3, <4>4 DEF Kept
      <4> QED
        BY <4>1, <4>2, <4>5 DEF name
    <3> QED
      BY <1>7, <3>1, <3>2
  <2> QED
    BY <1>9, <1>11, <2>3, <2>4 DEF LostInv
<1>16. ASSUME NEW i \in DOMAIN d.rows PROVE RowInv(scan[s], scan[s].rows[i])'
  <2>0. PICK r : r = c.rows[i]
    OBVIOUS
  <2>1. RowInv(c, r) /\ d.rows[i] = r /\ Behind(c, r.path) /\ r.path \in File
    <3>1. i \in DOMAIN c.rows /\ c.rows \in Seq(RowRecord)
      BY <1>2, <1>7, ScanFields
    <3>2. r \in RowRecord
      BY <2>0, <3>1
    <3> QED
      BY <1>1, <1>4, <1>7, <2>0, <3>1, <3>2 DEF OrderInv, RowRecord
  <2>2. r.path # f
    BY <1>2, <2>1, DocumentsAssumption DEF Behind
  <2>3. \A n \in r.refs : Kept(scan[s], r.path, n)'
    BY <1>12, <2>1, <2>2 DEF RowInv
  <2> QED
    BY <1>1, <1>9, <2>1, <2>3 DEF RowInv, OcrAsAsked
<1>17. ReachInv(scan[s])'
  BY <1>1, <1>4, <1>7, <1>9 DEF ReachInv, Reached, Listed
<1>18. ScanInv(scan[s])'
  BY <1>7, <1>9, <1>13, <1>14, <1>15, <1>16, <1>17 DEF ScanInv
<1> QED
  BY <1>1, <1>9, <1>10, <1>18, ScanDone

\* Rows in order, and one after the last of them.
LEMMA OrderGrows ==
    ASSUME NEW rows \in Seq(RowRecord), InOrder(rows), NEW r \in RowRecord,
           rows # <<>> =>
              LET l == rows[Len(rows)]
              IN  \/ Rank[l.path] < Rank[r.path] /\ l.page = Len(Pages[l.path]) /\ r.page = 1
                  \/ l.path = r.path /\ r.page = l.page + 1
    PROVE  InOrder(Append(rows, r))
<1> DEFINE q == Append(rows, r)
           n == Len(rows)
<1>1. n \in Nat /\ Len(q) = n + 1 /\ (\A i \in 1..n : q[i] = rows[i]) /\ q[n + 1] = r
  <2> HIDE DEF RowRecord
  <2> QED
    BY AppendGives
<1>2. rows = <<>> => n = 0
  OBVIOUS
<1> HIDE DEF q, n
<1>3. ASSUME NEW i \in 1..(Len(q) - 1)
      PROVE  \/ Rank[q[i].path] < Rank[q[i + 1].path]
                   /\ q[i].page = Len(Pages[q[i].path]) /\ q[i + 1].page = 1
             \/ q[i].path = q[i + 1].path /\ q[i + 1].page = q[i].page + 1
  <2>1. CASE i < n
    <3>1. i \in 1..(n - 1) /\ i \in 1..n /\ i + 1 \in 1..n
      <4>1. i \in Nat /\ 1 <= i /\ n \in Nat
        BY <1>1
      <4> QED
        BY <2>1, <4>1
    <3>2. q[i] = rows[i] /\ q[i + 1] = rows[i + 1]
      BY <1>1, <3>1
    <3> QED
      BY <3>1, <3>2 DEF InOrder, n
  <2>2. CASE i = n
    <3>1. q[i] = rows[n] /\ q[i + 1] = r /\ rows # <<>>
      BY <1>1, <1>2, <2>2
    <3> QED
      BY <3>1 DEF n
  <2> QED
    BY <1>1, <2>1, <2>2
<1>4. InOrder(q)
  BY <1>3 DEF InOrder
<1> QED
  BY <1>4 DEF q

LEMMA PageRowKeeps == ASSUME DocumentsInv, NEW s \in Scans, PageRow(s) PROVE DocumentsInv'
<1> DEFINE c == scan[s]
<1>0. PICK f, page, rows : f = Current(c) /\ page = c.page /\ rows = c.rows
  OBVIOUS
<1> DEFINE last == page = Len(Pages[f])
<1>1. c.at = "rows" /\ UNCHANGED <<options, registered, disk, unreadable, edits>>
  BY DEF PageRow
<1>2. /\ DiskInv /\ ScanInv(c) /\ c \in ScanRecord /\ c.todo \in SUBSET File /\ c.todo # {}
      /\ f = Now(s) /\ f \in c.todo /\ f \in File
      /\ page \in 1..Len(Pages[f]) /\ page \in Nat \ {0} /\ Len(Pages[f]) \in Nat \ {0}
  BY <1>0, <1>1, AtPage
<1>3. PICK w \in IF options.crops THEN WriteImage(s, "crop", c.text)
                 ELSE {[ref |-> {}, lost |-> {}, store |-> store]} :
         /\ Set1(s, [c EXCEPT !.rows = Append(rows, Row1(s, w.ref)), !.lost = c.lost \cup w.lost,
                              !.page = page + 1,
                              !.todo = IF last THEN c.todo \ {f} ELSE c.todo,
                              !.at = IF last THEN "next" ELSE "rows"])
         /\ store' = w.store
  BY <1>0, <1>2 DEF PageRow
<1>4. PICK r : r = Row1(s, w.ref)
  OBVIOUS
<1> DEFINE d == [c EXCEPT !.rows = Append(rows, r), !.lost = c.lost \cup w.lost, !.page = page + 1,
                          !.todo = IF last THEN c.todo \ {f} ELSE c.todo,
                          !.at = IF last THEN "next" ELSE "rows"]
           name == ImageName(f, "crop", page)
           shot == ImageName(f, "page", page)
<1>5. PlaceInv(c) /\ OrderInv(c) /\ LostInv(c) /\ ReachInv(c)
      /\ \A i \in DOMAIN rows : RowInv(c, rows[i])
  BY <1>0, <1>2 DEF ScanInv
<1>6. Wrote(s, "crop", w)
  <2>1. c.text \in Nat /\ (disk[f] = 1 => c.text = 1)
    BY <1>0, <1>1, <1>2, <1>5, ScanFields DEF PlaceInv, AtPages
  <2>2. store = [n \in Names |-> store[n]]
    BY <1>2 DEF DiskInv
  <2>3. CASE options.crops
    BY <1>0, <1>2, <1>3, <2>1, <2>2, <2>3, WriteGives
  <2>4. CASE ~options.crops
    <3>1. w.ref = {} /\ w.lost = {} /\ w.store = store
      BY <1>3, <2>4
    <3> QED
      BY <2>2, <3>1 DEF Wrote
  <2> QED
    BY <2>3, <2>4
<1>7. name \in Names /\ w.ref \subseteq {name} /\ w.lost \subseteq {name} /\ (w.ref # {} => w.lost = {})
      /\ (options.store = "local" /\ w.ref # {} => w.store[name] \in Images) /\ shot \in Names
  BY <1>0, <1>2, <1>6, PagesOf DEF Wrote
<1>8. /\ r.path = f /\ r.page = page /\ r.ocr = c.ocr /\ r.tables = TablesFromMarkdown(Pages[f][page])
      /\ r.refs = w.ref \cup (c.refs \cap {shot})
  BY <1>0, <1>2, <1>4 DEF Row1
<1> HIDE DEF name, shot
<1>9. r \in RowRecord
  <2>1. r.tables \in SUBSET [first : Nat, last : Nat]
    <3>1. Pages[f][page] \in Lines
      BY <1>2, PagesOf
    <3> QED
      BY <1>8, <3>1, TablesOfLines DEF Blocks
  <2>2. c.text \in Nat /\ c.ocr \in BOOLEAN
    BY <1>2, ScanFields
  <2>3. r.refs \in SUBSET Names
    BY <1>7, <1>8
  <2>4. r = [path |-> r.path, page |-> r.page, version |-> c.text, ocr |-> c.ocr, tables |-> r.tables,
             refs |-> r.refs]
    BY <1>4 DEF Row1
  <2>5. r.path \in File /\ r.page \in Nat
    BY <1>2, <1>8
  <2> QED
    BY <2>1, <2>2, <2>3, <2>4, <2>5 DEF RowRecord
<1>10. PICK q : q = Append(rows, r)
  OBVIOUS
<1>11. /\ rows \in Seq(RowRecord) /\ Len(rows) \in Nat /\ DOMAIN rows = 1..Len(rows)
       /\ (rows # <<>> => Len(rows) \in DOMAIN rows)
       /\ q \in Seq(RowRecord) /\ q # <<>> /\ Len(q) = Len(rows) + 1 /\ DOMAIN q = 1..(Len(rows) + 1)
       /\ (\A i \in DOMAIN rows : q[i] = rows[i] /\ i \in DOMAIN q) /\ q[Len(q)] = r /\ Len(q) \in DOMAIN q
       /\ \A i \in DOMAIN q : i \in DOMAIN rows \/ i = Len(q)
  <2>1. rows \in Seq(RowRecord)
    BY <1>0, <1>2, ScanFields
  <2> HIDE DEF RowRecord
  <2>2. /\ q \in Seq(RowRecord) /\ Len(q) = Len(rows) + 1 /\ q[Len(rows) + 1] = r
        /\ \A i \in 1..Len(rows) : q[i] = rows[i]
    BY <1>9, <1>10, <2>1, AppendGives
  <2>3. Len(rows) \in Nat /\ DOMAIN rows = 1..Len(rows) /\ DOMAIN q = 1..Len(q)
    BY <2>1, <2>2
  <2>4. q # <<>> /\ (rows # <<>> => Len(rows) # 0)
    BY <2>1, <2>2, <2>3
  <2> QED
    BY <2>1, <2>2, <2>3, <2>4
<1>12. /\ d \in ScanRecord /\ d.rows = q /\ d.lost = c.lost \cup w.lost /\ d.refs = c.refs
       /\ d.skipped = c.skipped /\ d.ocr = c.ocr /\ d.text = c.text /\ d.page = page + 1
       /\ d.limit = c.limit
       /\ last => d.todo = c.todo \ {f} /\ d.at = "next"
       /\ ~last => d.todo = c.todo /\ d.at = "rows"
  <2>1. c.lost \cup w.lost \in SUBSET Names /\ page + 1 \in Nat
    BY <1>2, <1>7, ScanFields
  <2>2. (IF last THEN c.todo \ {f} ELSE c.todo) \in SUBSET File
    BY <1>2
  <2> QED
    BY <1>2, <1>10, <1>11, <2>1, <2>2 DEF ScanRecord
<1>13. Set1(s, d) /\ store' = w.store
  BY <1>3, <1>4
<1> HIDE DEF d
<1>14. scan'[s] = d /\ scan' = [t \in Scans |-> scan'[t]] /\ \A t \in Scans \ {s} : scan'[t] = scan[t]
  BY <1>2, <1>13, SetGives DEF DiskInv
<1>15. scan'[s].lost = scan[s].lost \cup w.lost
  BY <1>12, <1>14
<1>16. /\ \A n \in Names : ImageInv(n)'
       /\ \A n \in Names : store[n] # None => store'[n] # None
       /\ store' = [n \in Names |-> store'[n]]
  BY <1>1, <1>6, <1>13, <1>14, <1>15, ImagesWritten
<1>17. ASSUME NEW g \in File, NEW k, NEW p, Kept(c, g, ImageName(g, k, p)),
              g # f \/ k # "crop" \/ p # page
       PROVE  Kept(scan[s], g, ImageName(g, k, p))'
  BY <1>0, <1>1, <1>2, <1>6, <1>13, <1>15, <1>16, <1>17, KeptStays
<1>18. /\ \A g : Behind(c, g) => Behind(scan[s], g)'
       /\ last => Behind(scan[s], f)'
       /\ ~last => Current(scan[s])' = f
  <2>1. \A g \in c.todo : g # f => Rank[f] < Rank[g]
    BY <1>0, <1>2, CurrentIs
  <2>2. d.todo \subseteq c.todo
    BY <1>12
  <2>3. ASSUME NEW g, Behind(c, g) PROVE Behind(scan[s], g)'
    BY <1>14, <2>2, <2>3 DEF Behind
  <2>4. ASSUME last PROVE Behind(scan[s], f)'
    BY <1>12, <1>14, <2>1, <2>4 DEF Behind
  <2>5. ASSUME ~last PROVE Current(scan[s])' = f
    BY <1>0, <1>12, <1>14, <2>5 DEF Current
  <2> QED
    BY <2>3, <2>4, <2>5
<1>19. PlaceInv(scan[s])'
  <2>1. registered' = "yes" /\ (options.ocr = "on" => c.ocr) /\ (disk[f] = 1 => c.text = 1)
    BY <1>0, <1>1, <1>5 DEF PlaceInv, AtPages
  <2>2. ~last => d.page \in 1..Len(Pages[f])
    BY <1>2, <1>12
  <2> QED
    BY <1>1, <1>2, <1>12, <1>14, <1>18, <2>1, <2>2 DEF PlaceInv, AtPages
<1>20. OrderInv(scan[s])'
  <2>1. /\ InOrder(rows)
        /\ \A i \in DOMAIN rows : Behind(c, rows[i].path) \/ (rows[i].path = f /\ rows[i].page < page)
        /\ rows # <<>> =>
              \/ page = 1 /\ Behind(c, rows[Len(rows)].path)
                    /\ rows[Len(rows)].page = Len(Pages[rows[Len(rows)].path])
              \/ rows[Len(rows)].path = f /\ rows[Len(rows)].page = page - 1
    BY <1>0, <1>1, <1>5 DEF OrderInv
  <2>2. InOrder(q)
    <3>1. ASSUME rows # <<>>
          PROVE  LET l == rows[Len(rows)]
                 IN  \/ Rank[l.path] < Rank[r.path] /\ l.page = Len(Pages[l.path]) /\ r.page = 1
                     \/ l.path = r.path /\ r.page = l.page + 1
      <4> DEFINE l == rows[Len(rows)]
      <4>1. CASE page = 1 /\ Behind(c, l.path) /\ l.page = Len(Pages[l.path])
        BY <1>2, <1>8, <4>1 DEF Behind
      <4>2. CASE l.path = f /\ l.page = page - 1
        <5>1. page = (page - 1) + 1
          BY <1>2
        <5> QED
          BY <1>8, <4>2, <5>1
      <4> QED
        BY <2>1, <3>1, <4>1, <4>2
    <3> QED
      BY <1>9, <1>10, <1>11, <2>1, <3>1, OrderGrows
  <2>3. ASSUME NEW i \in DOMAIN q
        PROVE  Behind(scan[s], q[i].path)' \/ (~last /\ q[i].path = f /\ q[i].page < page + 1)
    <3>1. CASE i \in DOMAIN rows
      <4>1. q[i] = rows[i]
        BY <1>11, <3>1
      <4>2. CASE Behind(c, rows[i].path)
        BY <1>18, <4>1, <4>2
      <4>3. CASE rows[i].path = f /\ rows[i].page < page
        <5>1. q[i].page \in Nat
          <6>1. q[i] \in RowRecord
            BY <1>11
          <6> QED
            BY <6>1 DEF RowRecord
        <5>2. q[i].page < page + 1
          BY <1>2, <4>1, <4>3, <5>1
        <5> QED
          BY <1>18, <4>1, <4>3, <5>2
      <4> QED
        BY <2>1, <3>1, <4>2, <4>3
    <3>2. CASE i = Len(q)
      <4>1. q[i] = r /\ page < page + 1
        BY <1>2, <1>11, <3>2
      <4> QED
        BY <1>8, <1>18, <4>1
    <3> QED
      BY <1>11, <3>1, <3>2
  <2>4. ASSUME NEW i \in DOMAIN q
        PROVE  \/ Behind(scan[s], scan[s].rows[i].path)'
               \/ d.at = "rows" /\ d.rows[i].path = Current(scan[s])' /\ d.rows[i].page < d.page
    BY <1>12, <1>14, <1>18, <2>3
  <2>5. \/ last /\ d.at = "next" /\ Behind(scan[s], r.path)' /\ r.page = Len(Pages[r.path])
        \/ ~last /\ d.at = "rows" /\ r.path = Current(scan[s])' /\ r.page = d.page - 1
    <3>1. page = (page + 1) - 1
      BY <1>2
    <3> QED
      BY <1>8, <1>12, <1>18, <3>1
  <2>6. d.rows = q /\ d.rows[Len(d.rows)] = r /\ d.rows # <<>>
    BY <1>11, <1>12
  <2>7. d.at = "rows" => r.path = Current(scan[s])'
    BY <2>5
  <2> QED
    BY <1>14, <2>2, <2>4, <2>5, <2>6, <2>7 DEF OrderInv
<1>21. LostInv(scan[s])'
  <2>1. ASSUME NEW g \in File, NEW k \in {"page", "crop"}, NEW p \in DOMAIN Pages[g],
               Tried(c, g, k, p) \/ (g = f /\ k = "crop" /\ p = page)
        PROVE  Tried(scan[s], g, k, p)'
    <3>1. CASE Behind(c, g)
      BY <1>18, <3>1 DEF Tried
    <3>2. CASE g = f /\ (k = "page" \/ p < page \/ p = page)
      <4>1. p \in Nat
        BY PagesOf
      <4>2. k = "page" \/ p < page + 1
        BY <1>2, <3>2, <4>1
      <4> QED
        BY <1>12, <1>14, <1>18, <3>2, <4>2 DEF Tried
    <3> QED
      BY <1>0, <1>1, <2>1, <3>1, <3>2 DEF Tried
  <2>2. ASSUME NEW n \in d.lost
        PROVE  \E g \in File, k \in {"page", "crop"} : \E p \in DOMAIN Pages[g] :
                  n = ImageName(g, k, p) /\ Tried(scan[s], g, k, p)'
    <3>1. CASE n \in c.lost
      <4>1. PICK g \in File, k \in {"page", "crop"} : \E p \in DOMAIN Pages[g] :
               n = ImageName(g, k, p) /\ Tried(c, g, k, p)
        BY <1>1, <1>5, <3>1 DEF LostInv
      <4> QED
        BY <2>1, <4>1
    <3>2. CASE n = name
      <4>1. page \in DOMAIN Pages[f]
        BY <1>2, PagesOf
      <4> QED
        BY <1>2, <2>1, <3>2, <4>1 DEF name
    <3> QED
      BY <1>7, <1>12, <3>1, <3>2
  <2>3. ASSUME ~last, NEW n \in d.refs
        PROVE  (\E p \in DOMAIN Pages[f] : n = ImageName(f, "page", p)) /\ Kept(scan[s], f, n)'
    <3>1. PICK p \in DOMAIN Pages[f] : n = ImageName(f, "page", p)
      BY <1>0, <1>1, <1>5, <1>12, <2>3 DEF LostInv
    <3>2. Kept(c, f, ImageName(f, "page", p))
      BY <1>0, <1>1, <1>5, <1>12, <2>3, <3>1 DEF LostInv
    <3>3. Kept(scan[s], f, ImageName(f, "page", p))'
      BY <1>2, <1>17, <3>2
    <3> QED
      BY <3>1, <3>3
  <2> QED
    BY <1>12, <1>14, <1>18, <2>2, <2>3 DEF LostInv
<1>22. ASSUME NEW i \in DOMAIN q PROVE RowInv(scan[s], scan[s].rows[i])'
  <2>1. CASE i \in DOMAIN rows
    <3>0. PICK o : o = rows[i]
      OBVIOUS
    <3>1. RowInv(c, o) /\ o \in RowRecord /\ o.path \in File
          /\ (Behind(c, o.path) \/ (o.path = f /\ o.page < page))
      <4>1. o \in RowRecord
        BY <1>11, <2>1, <3>0
      <4> QED
        BY <1>0, <1>1, <1>5, <2>1, <3>0, <4>1 DEF OrderInv, RowRecord
    <3>2. o.path # f \/ o.page # page
      <4>1. Rank[f] \in Nat /\ ~(Rank[f] < Rank[f]) /\ ~(page < page)
        BY <1>2, DocumentsAssumption
      <4> QED
        BY <1>2, <3>1, <4>1 DEF Behind
    <3>3. \A n \in o.refs : Kept(scan[s], o.path, n)'
      BY <1>17, <3>1, <3>2 DEF RowInv
    <3>4. scan'[s].rows[i] = o
      BY <1>11, <1>12, <1>14, <2>1, <3>0
    <3> QED
      BY <1>1, <3>1, <3>3, <3>4 DEF RowInv, OcrAsAsked
  <2>2. CASE i = Len(q)
    <3>1. scan'[s].rows[i] = r
      BY <1>11, <1>12, <1>14, <2>2
    <3>2. ASSUME NEW n \in r.refs
          PROVE  n \in {ImageName(f, kind, page) : kind \in {"page", "crop"}} /\ Kept(scan[s], f, n)'
      <4>1. CASE n \in w.ref
        <5>1. n = name /\ w.lost = {}
          BY <1>7, <4>1
        <5>2. Alone(f) => name \notin c.lost
          <6>1. ~(page < page)
            BY <1>2
          <6> QED
            BY <1>0, <1>1, <1>2, <1>5, <6>1, NotLost DEF name
        <5>3. options.store = "local" => w.store[name] # None
          BY <1>7, <4>1, NoImages
        <5>4. Kept(scan[s], f, name)'
          BY <1>1, <1>7, <1>13, <1>15, <5>1, <5>2, <5>3 DEF Kept
        <5> QED
          BY <5>1, <5>4 DEF name
      <4>2. CASE n \in c.refs /\ n = shot
        <5>1. Kept(c, f, ImageName(f, "page", page))
          BY <1>0, <1>1, <1>5, <4>2 DEF LostInv, shot
        <5>2. Kept(scan[s], f, ImageName(f, "page", page))'
          BY <1>2, <1>17, <5>1
        <5> QED
          BY <4>2, <5>2 DEF shot
      <4> QED
        BY <1>8, <4>1, <4>2
    <3>3. options.ocr = "on" => r.ocr
      BY <1>1, <1>5, <1>8 DEF PlaceInv, AtPages
    <3> QED
      BY <1>1, <1>2, <1>8, <3>1, <3>2, <3>3 DEF RowInv, OcrAsAsked
  <2> QED
    BY <1>11, <2>1, <2>2
<1>23. ReachInv(scan[s])'
  <2> SUFFICES ASSUME edits = 0, NEW g \in File, Reached(g) PROVE Listed(d, g)
    BY <1>1, <1>12, <1>14 DEF ReachInv, Reached, Listed
  <2>1. Listed(c, g)
    BY <1>1, <1>5 DEF ReachInv
  <2>2. CASE g \in c.todo
    <3>1. CASE g = f
      BY <1>8, <1>11, <1>12, <3>1 DEF Listed
    <3>2. CASE g # f
      BY <1>12, <2>2, <3>2 DEF Listed
    <3> QED
      BY <3>1, <3>2
  <2>3. CASE g \in c.skipped
    BY <1>12, <2>3 DEF Listed
  <2>4. CASE \E i \in DOMAIN rows : g = rows[i].path
    <3>1. PICK i \in DOMAIN rows : g = rows[i].path
      BY <2>4
    <3>2. i \in DOMAIN q /\ g = q[i].path
      BY <1>11, <3>1
    <3> QED
      BY <1>12, <3>2 DEF Listed
  <2> QED
    BY <1>0, <2>1, <2>2, <2>3, <2>4 DEF Listed
<1>24. ScanInv(scan[s])'
  BY <1>12, <1>14, <1>19, <1>20, <1>21, <1>22, <1>23 DEF ScanInv
<1> QED
  BY <1>1, <1>14, <1>16, <1>24, ScanDone

-----------------------------------------------------------------------------
(* Every step, and what the invariant says of a query that has ended.       *)

LEMMA DocumentsInitial == ASSUME DocumentsInit PROVE DocumentsInv
<1>1. <<>> \in Seq(RowRecord) /\ DOMAIN <<>> = {} /\ Len(<<>>) = 0
  OBVIOUS
<1>2. Idle \in ScanRecord
  <2> HIDE DEF RowRecord
  <2> QED
    BY <1>1 DEF Idle, ScanRecord
<1>3. Idle.at = "idle" /\ Idle.rows = <<>> /\ Idle.lost = {} /\ Idle.todo = {}
  BY DEF Idle
<1>4. PlaceInv(Idle) /\ LostInv(Idle) /\ ReachInv(Idle)
  BY <1>3 DEF PlaceInv, LostInv, ReachInv, AtPages
<1>5. OrderInv(Idle)
  <2>1. InOrder(<<>>)
    BY <1>1 DEF InOrder
  <2> QED
    BY <1>1, <1>3, <2>1 DEF OrderInv
<1>6. ScanInv(Idle)
  BY <1>1, <1>2, <1>3, <1>4, <1>5 DEF ScanInv
<1>7. \A s \in Scans : ScanInv(scan[s])
  BY <1>6 DEF DocumentsInit
<1>8. \A name \in Names : ImageInv(name)
  BY DEF DocumentsInit, ImageInv
<1>9. DiskInv
  BY DEF DocumentsInit, DiskInv
<1> QED
  BY <1>7, <1>8, <1>9 DEF DocumentsInv

\* Steps of which the queries do not learn.
LEMMA OutsideDone ==
    ASSUME DocumentsInv, UNCHANGED <<options, store, scan>>, DiskInv',
           registered = "yes" => registered' = "yes",
           \A f \in File : disk'[f] = 1 => disk[f] = 1,
           edits' = 0 => edits = 0 /\ disk' = disk
    PROVE  DocumentsInv'
<1>1. \A name \in Names : ImageInv(name)'
  BY ImagesStay DEF DocumentsInv
<1>2. ASSUME NEW s \in Scans PROVE ScanInv(scan[s])'
  <2>1. ScanInv(scan[s]) /\ scan'[s] = scan[s]
    BY DEF DocumentsInv
  <2> QED
    BY <2>1, ScanStays
<1> QED
  BY <1>1, <1>2 DEF DocumentsInv

LEMMA RegisterKeeps == ASSUME DocumentsInv, Register PROVE DocumentsInv'
<1>1. UNCHANGED <<options, disk, unreadable, edits, store, scan>> /\ registered = "no"
      /\ registered' = IF options.ocr = "on" /\ ~options.server THEN "refused" ELSE "yes"
  BY DEF Register
<1>2. DiskInv'
  <2>1. registered' = "yes" /\ options.ocr = "on" => options.server
    BY <1>1
  <2> QED
    BY <1>1, <2>1 DEF DocumentsInv, DiskInv
<1> QED
  BY <1>1, <1>2, OutsideDone

LEMMA ChangeKeeps == ASSUME DocumentsInv, Change PROVE DocumentsInv'
<1>1. UNCHANGED <<options, registered, store, scan>> /\ edits' = edits + 1
  BY DEF Change
<1>2. edits \in Nat /\ disk \in [File -> Nat]
  BY DEF DocumentsInv, DiskInv
<1>3. edits' \in Nat /\ edits' # 0 /\ edits + 2 \in Nat /\ edits + 2 # 1
  BY <1>1, <1>2
<1>4. disk' \in [File -> Nat] /\ \A f \in File : disk'[f] = 1 => disk[f] = 1
  <2>1. CASE UNCHANGED disk
    BY <1>2, <2>1
  <2>2. CASE \E f \in File, v \in {0, edits + 2} : disk' = [disk EXCEPT ![f] = v]
    BY <1>2, <1>3, <2>2
  <2>3. CASE \E f \in File : disk' = [disk EXCEPT ![f] = IF @ = 0 THEN edits + 2 ELSE 0]
    <3>1. PICK f \in File : disk' = [disk EXCEPT ![f] = IF disk[f] = 0 THEN edits + 2 ELSE 0]
      BY <2>3
    <3> QED
      BY <2>2, <3>1
  <2> QED
    BY <2>1, <2>2, <2>3 DEF Change
<1>5. DiskInv'
  BY <1>1, <1>3, <1>4 DEF DocumentsInv, DiskInv
<1> QED
  BY <1>1, <1>3, <1>4, <1>5, OutsideDone

LEMMA DocumentsStutter == ASSUME DocumentsInv, UNCHANGED documentVars PROVE DocumentsInv'
<1>1. UNCHANGED <<options, registered, disk, unreadable, edits, store, scan>>
  BY DEF documentVars
<1>2. DiskInv'
  BY <1>1 DEF DocumentsInv, DiskInv
<1> QED
  BY <1>1, <1>2, OutsideDone

LEMMA DocumentsStep == ASSUME DocumentsInv, [DocumentsNext]_documentVars PROVE DocumentsInv'
<1>1. CASE Register
  BY <1>1, RegisterKeeps
<1>2. CASE Change
  BY <1>2, ChangeKeeps
<1>3. ASSUME NEW s \in Scans, ScanStep(s) PROVE DocumentsInv'
  BY <1>3, StartKeeps, WalkKeeps, WalkedKeeps, ProbeKeeps, SkipKeeps, ParseKeeps, RenderKeeps,
     WritePageKeeps, PageRowKeeps DEF ScanStep
<1>4. CASE UNCHANGED documentVars
  BY <1>4, DocumentsStutter
<1> QED
  BY <1>1, <1>2, <1>3, <1>4 DEF DocumentsNext

\* What an image shows that a row refers to.
LEMMA RowsShow ==
    ASSUME DocumentsInv, NEW s \in Scans, NEW r, r.path \in File, r.page \in Nat, RowInv(scan[s], r)
    PROVE  RefsShowTheirPage(s, r)
<1> SUFFICES ASSUME NEW name \in r.refs, options.store = "local"
             PROVE  /\ store[name] # None
                    /\ store[name] = Torn => (\E t \in Scans \ {s} : name \in scan[t].lost) \/ ~Alone(r.path)
                    /\ store[name] # Torn =>
                          /\ store[name].page = r.page
                          /\ Alone(r.path) => store[name].file = r.path
                          /\ Alone(r.path) /\ r.version = 1 /\ disk[r.path] = 1 => store[name].version = 1
  BY DEF RefsShowTheirPage
<1>1. PICK kind \in {"page", "crop"} : name = ImageName(r.path, kind, r.page)
  BY DEF RowInv
<1>2. name \in Names /\ store[name] # None /\ (Alone(r.path) => name \notin scan[s].lost)
  BY DEF RowInv, Kept
<1>3. ImageInv(name) /\ name[1] = Stem[r.path] /\ name[3] = r.page
  BY <1>1, <1>2, NameIs DEF DocumentsInv
<1>4. CASE store[name] = Torn /\ \E t \in Scans : name \in scan[t].lost
  BY <1>2, <1>4
<1>5. CASE /\ store[name] \in [file : File, page : Nat, version : Nat]
           /\ name[1] = Stem[store[name].file] /\ name[3] = store[name].page
           /\ disk[store[name].file] = 1 => store[name].version = 1
  <2>1. store[name].file \in File /\ store[name].page = r.page
        /\ Stem[store[name].file] = Stem[r.path]
    BY <1>3, <1>5
  <2>2. Alone(r.path) => store[name].file = r.path
    BY <2>1 DEF Alone
  <2>3. store[name] # Torn
    BY <1>5, NoImages DEF Images
  <2> QED
    BY <1>2, <1>5, <2>1, <2>2, <2>3
<1> QED
  BY <1>2, <1>3, <1>4, <1>5 DEF ImageInv

LEMMA DocumentsThen == ASSUME DocumentsInv PROVE DocumentsAsTheyAre
<1> SUFFICES ASSUME NEW s \in Scans, scan[s].at = "ended"
             PROVE  /\ RowsOfFiles(s)
                    /\ \A i \in DOMAIN scan[s].rows :
                          /\ RefsShowTheirPage(s, scan[s].rows[i])
                          /\ TablesAreBlocks(scan[s].rows[i]) /\ OcrAsAsked(scan[s].rows[i])
  BY DEF DocumentsAsTheyAre
<1> DEFINE c == scan[s]
<1>1. /\ c \in ScanRecord /\ OrderInv(c) /\ ReachInv(c) /\ c.todo = {}
      /\ \A i \in DOMAIN c.rows : RowInv(c, c.rows[i])
  BY DEF DocumentsInv, ScanInv
<1>2. RowsOfFiles(s)
  <2>1. InOrder(c.rows)
    BY <1>1 DEF OrderInv
  <2>2. ASSUME edits = 0, Len(c.rows) < c.limit, NEW f \in File, Reached(f)
        PROVE  f \in c.skipped \cup {c.rows[i].path : i \in DOMAIN c.rows}
    <3>1. Listed(c, f)
      BY <1>1, <2>2 DEF ReachInv
    <3> QED
      BY <1>1, <3>1 DEF Listed
  <2> QED
    BY <2>1, <2>2 DEF RowsOfFiles, InOrder
<1>3. ASSUME NEW i \in DOMAIN c.rows
      PROVE  RefsShowTheirPage(s, c.rows[i]) /\ TablesAreBlocks(c.rows[i]) /\ OcrAsAsked(c.rows[i])
  <2> DEFINE r == c.rows[i]
  <2>1. r \in RowRecord
    <3>1. c.rows \in Seq(RowRecord)
      BY <1>1, ScanFields
    <3> HIDE DEF RowRecord
    <3> QED
      BY <3>1
  <2>2. r.path \in File /\ r.page \in Nat /\ RowInv(c, r)
    BY <1>1, <2>1 DEF RowRecord
  <2> HIDE DEF r
  <2>3. Pages[r.path][r.page] \in Lines /\ r.tables = TablesFromMarkdown(Pages[r.path][r.page])
        /\ OcrAsAsked(r)
    BY <2>2, PagesOf DEF RowInv
  <2>4. TablesAreBlocks(r)
    <3>1. Blocks(Pages[r.path][r.page], r.tables, 1)
      BY <2>3, TablesOfLines
    <3> QED
      BY <3>1 DEF Blocks, TablesAreBlocks
  <2>5. RefsShowTheirPage(s, r)
    BY <2>2, RowsShow
  <2> QED
    BY <2>3, <2>4, <2>5 DEF r
<1> QED
  BY <1>2, <1>3

\* What a query over a directory of documents shows when it ends, however many run at once and
\* whatever people do to the files: the rows of all files that could be reached, in order; tables
\* that are blocks of lines; pages parsed with OCR where that was asked for; and references to
\* images that are there and show the page, unless another query has failed to write the same one.
THEOREM DocumentsShow == DocumentsSpec => []DocumentsAsTheyAre
<1>1. DocumentsInit => DocumentsInv
  BY DocumentsInitial
<1>2. DocumentsInv /\ [DocumentsNext]_documentVars => DocumentsInv'
  BY DocumentsStep
<1>3. DocumentsInv => DocumentsAsTheyAre
  BY DocumentsThen
<1> QED
  BY <1>1, <1>2, <1>3, PTL DEF DocumentsSpec
=============================================================================
