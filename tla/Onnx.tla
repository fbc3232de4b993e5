-------------------------------- MODULE Onnx --------------------------------
(***************************************************************************)
(* onnx_predict over the batches of a query: DataFusion cuts the rows into *)
(* batches as it likes, and the function turns the arguments of one batch  *)
(* into tensors.  A model of integers predicts row by row; a model of      *)
(* floats is given all rows of the batch in one tensor, as one sequence,   *)
(* and may make each of its outputs from all of them.  A list argument,    *)
(* from array_agg, makes one row a whole sequence.  A prediction is known  *)
(* by the tensor the model was run on and its place among the outputs.     *)
(***************************************************************************)
EXTENDS Integers, Sequences

CONSTANTS Prediction, \* queries: the model, the form and type of its arguments, the rows
          NoNumber,   \* NULL
          Under,      \* the number that lies under a NULL in an array
          Emitted     \* how many values a model of floats may give for a tensor

VARIABLES
    asked,     \* the query
    predicted, \* answers to the rows so far
    failed     \* has the query failed?

onnxVars == <<asked, predicted, failed>>

IsSequence(s) == s \in Seq({s[i] : i \in DOMAIN s})

\* A query has an argument beside the path, and each row has a sequence for each of them; what is a
\* literal of the query, the path too, is the same in every row.
ASSUME OnnxAssumption ==
    /\ Emitted \subseteq Nat
    /\ \A q \in Prediction :
           /\ q.integers \in BOOLEAN
           /\ IsSequence(q.forms) /\ q.forms # <<>>
           /\ \A a \in DOMAIN q.forms : q.forms[a].form \in {"column", "list", "literal"}
           /\ IsSequence(q.rows)
           /\ \A i \in DOMAIN q.rows : \A a \in DOMAIN q.forms : IsSequence(q.rows[i].args[a])
           /\ \A i, j \in DOMAIN q.rows : \A a \in DOMAIN q.forms :
                 q.forms[a].form = "literal" => q.rows[i].args[a][1] = q.rows[j].args[a][1]
           /\ q.literalPath => \A i, j \in DOMAIN q.rows : q.rows[i].path = q.rows[j].path

\* asked.forms: for each argument, is it a "column", a "list" column or a "literal" of the
\* query, and does it hold integers?  asked.rows: the path of the model and the arguments, each a
\* sequence, of one number unless it is a list.
Arguments == DOMAIN asked.forms
Form(a)   == asked.forms[a].form
Whole(a)  == asked.forms[a].int

ListMode    == \E a \in Arguments : Form(a) = "list"
AllLiterals == \A a \in Arguments : Form(a) = "literal"

\* Rows the arguments have together, from the first one that is no literal.
RowCount(rows) ==
    IF AllLiterals THEN 1
    ELSE LET first == CHOOSE a \in Arguments : /\ Form(a) # "literal"
                                               /\ \A b \in 1..(a - 1) : Form(b) = "literal"
         IN  IF Form(first) = "list" /\ Len(rows) = 1 THEN Len(rows[1].args[first]) ELSE Len(rows)

\* One list of a single row stands for its elements; a literal is repeated.
Array(rows, a) ==
    CASE Form(a) = "literal" -> [i \in 1..RowCount(rows) |-> rows[1].args[a][1]]
      [] Form(a) = "list" /\ Len(rows) = 1 -> rows[1].args[a]
      [] OTHER -> [i \in DOMAIN rows |-> rows[i].args[a][1]]

Read(x) == IF x = NoNumber THEN Under ELSE x

\* NULL literals have no array; an array that is shorter than the first one is read past its
\* end, which panics.
Convertible(rows) ==
    /\ \A a \in Arguments : Form(a) = "literal" => rows[1].args[a][1] # NoNumber
    /\ \A a \in Arguments : Len(Array(rows, a)) >= Len(Array(rows, 1))

\* Several lists of several rows stay lists, which no tensor of more than one argument takes.
ListsLeft(rows) == ListMode /\ Len(rows) # 1

\* Mutant: each row of integers is run on the first one's.
TensorOfFirst(rows) ==
    [i \in DOMAIN Array(rows, 1) |-> [a \in Arguments |-> Read(Array(rows, a)[1])]]

\* Row i of the tensor holds element i of every argument, for as long as the first one is.
Tensor(rows) ==
    [i \in DOMAIN Array(rows, 1) |-> [a \in Arguments |-> Read(Array(rows, a)[i])]]

\* A single column of lists becomes a matrix if all of them are of one length, of floats.
Matrix(rows) == [i \in DOMAIN rows |-> [j \in DOMAIN rows[i].args[1] |-> Read(rows[i].args[1][j])]]
MatrixFits(rows) ==
    /\ Len(asked.forms) = 1 /\ ~Whole(1)
    /\ \A i \in DOMAIN rows : Len(rows[i].args[1]) = Len(rows[1].args[1])

\* The names of the model's inputs are paired with the arguments: too many are left out, with
\* too few the run fails.
Paired(tuple) == SubSeq(tuple, 1, asked.inputs)

PredictIntegers(rows) ==
    LET tensor == Tensor(rows)
    IN  [i \in DOMAIN tensor |-> [of |-> <<Paired(tensor[i])>>, at |-> 1]]
IntegersFit(rows) == /\ ~ListsLeft(rows) /\ Convertible(rows)
                     /\ \A a \in Arguments : Whole(a)
                     /\ asked.inputs <= Len(asked.forms)

\* One run on all rows together gives as many values as the model likes.
PredictFloats(rows) ==
    LET tensor == IF ListsLeft(rows) THEN Matrix(rows) ELSE Tensor(rows)
    IN  {[i \in 1..n |-> [of |-> tensor, at |-> i]] : n \in Emitted}
FloatsFit(rows) == IF ListsLeft(rows) THEN MatrixFits(rows) ELSE Convertible(rows)

\* predict
Outputs(rows) ==
    CASE asked.integers /\ IntegersFit(rows) -> {PredictIntegers(rows)}
      [] ~asked.integers /\ FloatsFit(rows) -> PredictFloats(rows)
      [] OTHER -> {}

\* The model of a batch is the one its first row names.
Path0(rows) == rows[1].path

\* In list mode all values are one row, otherwise the i-th is row i's.
Returned(rows, out) ==
    IF ListMode THEN <<[path |-> Path0(rows), from |-> out]>>
    ELSE [i \in DOMAIN out |-> [path |-> Path0(rows), from |-> <<out[i]>>]]

\* A function must answer every row, or once if all it is given are literals.
Fits(rows, answers) ==
    \/ Len(answers) = Len(rows)
    \/ Len(answers) = 1 /\ asked.literalPath /\ AllLiterals

Spread(rows, answers) ==
    [i \in DOMAIN rows |-> answers[IF Len(answers) = Len(rows) THEN i ELSE 1]]

OnnxInit == asked \in Prediction /\ predicted = <<>> /\ failed = FALSE

\* The next batch, of n rows; a run may fail whatever it is given.
Predict(n) ==
    LET rows == SubSeq(asked.rows, Len(predicted) + 1, Len(predicted) + n)
    IN  /\ ~failed /\ n > 0 /\ Len(predicted) + n <= Len(asked.rows)
        /\ \/ \E out \in Outputs(rows) :
                 LET answers == Returned(rows, out)
                 IN  \/ /\ Fits(rows, answers)
                        /\ predicted' = predicted \o Spread(rows, answers)
                        /\ UNCHANGED failed
                     \/ ~Fits(rows, answers) /\ failed' = TRUE /\ UNCHANGED predicted
           \/ failed' = TRUE /\ UNCHANGED predicted
        /\ UNCHANGED asked

OnnxNext == \E n \in 1..Len(asked.rows) : Predict(n)

OnnxSpec == OnnxInit /\ [][OnnxNext]_onnxVars

-----------------------------------------------------------------------------
(* Properties.                                                              *)

\* The tensor of row i if it comes alone: its arguments, cut to the length of the first.
Own(i) ==
    LET row == asked.rows[i]
        arg(a, j) == Read(row.args[a][IF Form(a) = "list" THEN j ELSE 1])
        long == IF Form(1) = "list" THEN Len(row.args[1])
                ELSE IF Form(1) = "literal" /\ ListMode THEN RowCount(<<row>>) ELSE 1
    IN  [j \in 1..long |-> [a \in Arguments |-> arg(a, j)]]

\* The tensor of the rows from first to last; literals without a column make one row.
Laid(first, last) ==
    IF AllLiterals THEN Own(first) ELSE [k \in 1..last - first + 1 |-> Own(first + k - 1)[1]]

\* An answer as row k should have it in a batch of the rows from first to last.
MadeOf(answer, k, first, last) ==
    /\ answer.path = asked.rows[first].path
    /\ CASE asked.integers ->
              answer.from = [j \in DOMAIN Own(k) |-> [of |-> <<Paired(Own(k)[j])>>, at |-> 1]]
         [] ~asked.integers /\ ListMode ->
              \A j \in DOMAIN answer.from : answer.from[j] = [of |-> Own(k), at |-> j]
         [] ~asked.integers /\ ~ListMode ->
              answer.from = <<[of |-> Laid(first, last), at |-> k - first + 1]>>

\* The rows fall into batches, of one row or more, and the model of a batch is the one its
\* first row names.  Where it takes integers, or lists, a row is answered with its own
\* arguments run alone (with as many of them as a model of integers has inputs), however the
\* rows are cut.  Otherwise a row is answered with the output at its own place in the run on
\* exactly the rows of its batch, each laid in by its own arguments and in its own place.
PredictionsAreTheirRows ==
    \A i \in DOMAIN predicted :
        \E first \in 1..i, last \in i..Len(predicted) :
            \A k \in first..last : MadeOf(predicted[k], k, first, last)
=============================================================================
