------------------------------ MODULE DataSplit ------------------------------
(***************************************************************************)
(* What is learnt about a data set before training, and how its rows are   *)
(* divided: the task that is read from the target column (four times, by   *)
(* the planner, the data doctor, the importer and the stream), the split   *)
(* policy, and the split itself, in memory (splitter.py) or as a stream    *)
(* (streaming.py).  A source is a record                                   *)
(*   [folder, streamable, plain, size, guess, features, preview, hint,     *)
(*    labels, numeric, integral, timeLike, group]                          *)
(* whose labels are the target of its rows and whose group is the context  *)
(* of each row, or <<>> when no column looks like one; plain is a CSV file *)
(* of numbers, and guess what is extrapolated from the head of a file that *)
(* is not read to its end.  Sizes are in MiB.                              *)
(***************************************************************************)
EXTENDS Planning, Sequences

CONSTANTS
    IndexBucket,    \* the hash bucket, 0..99, of a row's number
    ContextBucket,  \* the hash bucket, 0..99, of a context
    Strides         \* the permutations a seed may stand for, see Order

ASSUME BucketsAssumption ==
    /\ \A i \in DOMAIN IndexBucket : IndexBucket[i] \in 0..99
    /\ \A c \in DOMAIN ContextBucket : ContextBucket[c] \in 0..99

Rows(d) == DOMAIN d.labels

ISqrt(n) == CHOOSE k \in 0..n : k * k <= n /\ n < (k + 1) * (k + 1)

\* A numeric target with no more values than this is taken for classes.
ClassLimit(n) == Most(20, ISqrt(n) + 1)

Values(d, rows) == {d.labels[i] : i \in rows}
Preview(d)      == 1..d.preview

Classify(count, numeric, continuous) ==
    IF count = 2 THEN "binary_classification"
    ELSE IF numeric /\ continuous THEN "regression"
    ELSE "multiclass_classification"

\* AutoTrainer._task_from_inspection(): of the preview's 20 rows at most.
InspectedTask(d) ==
    LET n == Cardinality(Values(d, Preview(d)))
    IN  IF d.hint # "none" THEN d.hint
        ELSE IF n = 0 THEN "regression"
        ELSE Classify(n, d.numeric, n > ClassLimit(d.preview))

\* data_health._task_from_inspection(): the same, but for an empty preview.
HealthTask(d) ==
    IF d.hint = "none" /\ d.preview = 0 THEN "none" ELSE InspectedTask(d)

\* tabular._task_and_target(): of all rows; whole numbers only are classes.
ImportedTask(d) ==
    LET n == Cardinality(Values(d, Rows(d)))
    IN  Classify(n, d.numeric, ~d.integral \/ n = 1 \/ n > ClassLimit(Len(d.labels)))

\* The part of a row of a stream, by its number or by its context.
Part(bucket) == IF bucket < 15 THEN "validation" ELSE IF bucket < 30 THEN "test" ELSE "train"
IndexPart(i)   == Part(IndexBucket[i])
ContextPart(c) == Part(ContextBucket[c])

\* The files the C++ core scans by itself: numbers alone, no context, and enough rows
\* to validate and to test on.
ScannedNatively(d) ==
    /\ d.plain /\ ~d.folder /\ d.group = <<>>
    /\ \A p \in {"validation", "test"} : Cardinality({i \in Rows(d) : IndexPart(i) = p}) >= 8

\* The task of a stream: as above, with 64 classes at most; the C++ core takes a target
\* of one value for a regression.
StreamTask(d) ==
    LET n == Cardinality(Values(d, Rows(d)))
    IN  Classify(n, d.numeric, \/ ~d.integral
                               \/ n > Least(64, ClassLimit(Len(d.labels)))
                               \/ n = 1 /\ ScannedNatively(d))

ImportRefused(d) ==
    LET n == Cardinality(Values(d, Rows(d)))
    IN  Len(d.labels) < 40 \/ (~d.numeric /\ ~(n \in 2..64))

StreamRefused(d) ==
    \/ ~d.streamable
    \/ Len(d.labels) < 32
    \/ ~d.numeric /\ Cardinality(Values(d, Rows(d))) > 64

Classification == {"binary_classification", "multiclass_classification"}

\* data_health._split_policy(): a time-like column comes before a group-like one.
SplitPolicy(d) ==
    IF d.timeLike THEN "temporal"
    ELSE IF d.group # <<>> THEN "context"
    ELSE IF HealthTask(d) \in Classification THEN "stratified"
    ELSE "random"

DataMode_Mutation(d, stream_limit) ==
    IF d.folder \/ d.size > stream_limit THEN "stream" ELSE "memory"

\* How the file is read: a folder, a large file, or rows that belong together go
\* through the stream.
DataMode(d, stream_limit) ==
    IF d.folder \/ d.size > stream_limit \/ (SplitPolicy(d) = "context" /\ d.streamable)
    THEN "stream" ELSE "memory"

ModeRefused(d, stream_limit) == ~d.folder /\ d.size > stream_limit /\ ~d.streamable

\* The target of the chunk policy when no pack names one.
AutomaticChunkTarget(features) == Within(512, 16384, PowerFloor(1048576 \div features))

\* What the data doctor writes into the contract of a data set for its training; its
\* findings about single columns are warnings.
DataContract(d, chunk_target_records) ==
    [split_policy |-> SplitPolicy(d),
     chunk_target |-> Within(128, 262144, chunk_target_records)]

\* The number of rows a plan is made for: counted, if a few MiB of the file show them
\* all or the format tells, and extrapolated else.
RecordsEstimate(d) ==
    IF d.folder \/ (d.streamable /\ d.size > 8) THEN Most(Most(1, d.preview), d.guess)
    ELSE Most(Most(1, d.preview), Len(d.labels))

-----------------------------------------------------------------------------
(* The split.  A permutation is given by the rank of each row in it.        *)

Order(n, stride) == [i \in 1..n |-> ((i - 1) * stride) % n]
InOrder(n) == Order(n, 1)

\* The place of a row among the rows of a set, and the rows at the places lo..hi.
Rank(rows, order, i) == Cardinality({j \in rows : order[j] <= order[i]})
Places(rows, order, lo, hi) == {i \in rows : Rank(rows, order, i) \in lo..hi}

Fraction(n) == Rounded(15 * n, 100)

\* _sizes(): sixteen rows at least to validate on and one to test on.
Sizes(n) ==
    LET validation == Most(16, Fraction(n))   test == Most(1, Fraction(n))
    IN  [train |-> n - validation - test, validation |-> validation, test |-> test]

\* A permutation, or the order of the file, cut in three.
CutInThree(d, order) ==
    LET size == Sizes(Len(d.labels))
        held == size.train + size.validation
    IN  [train      |-> Places(Rows(d), order, 1, size.train),
         validation |-> Places(Rows(d), order, size.train + 1, held),
         test       |-> Places(Rows(d), order, held + 1, held + size.test)]

\* How many rows of a class of n are held out: never the last one of the class.
HeldOut(n) ==
    LET floor == IF n >= 3 THEN 1 ELSE 0
        test  == Least(Most(floor, Fraction(n)), n - 1)
    IN  [test |-> test,
         validation |-> Least(Most(floor, Fraction(n)), Most(0, n - test - 1))]

\* _stratified_indices(): every class is divided by itself.
ClassPart(d, order, i) ==
    LET class == {j \in Rows(d) : d.labels[j] = d.labels[i]}
        held  == HeldOut(Cardinality(class))
        place == Rank(class, order, i)
    IN  IF place <= held.test THEN "test"
        ELSE IF place <= held.test + held.validation THEN "validation" ELSE "train"

CutByClass(d, order) ==
    [p \in {"train", "validation", "test"} |-> {i \in Rows(d) : ClassPart(d, order, i) = p}]

\* split_arrays(): the split of the policy the run was created with.
SplitArrays(d, strategy, task, stride) ==
    IF strategy = "stratified" /\ task \in Classification
    THEN CutByClass(d, Order(Len(d.labels), stride))
    ELSE CutInThree(d, IF strategy = "temporal" THEN InOrder(Len(d.labels))
                       ELSE Order(Len(d.labels), stride))

\* The stream counts and reads the rows of a part by the part of their context, if
\* there is one, or of their number.
SplitStream(d) ==
    LET part(i) == IF d.group # <<>> THEN ContextPart(d.group[i]) ELSE IndexPart(i)
    IN  [p \in {"train", "validation", "test"} |-> {i \in Rows(d) : part(i) = p}]

\* What the two refuse to train on.
SplitRefused(d, mode, strategy, task, split) ==
    IF mode = "stream"
    THEN Cardinality(split.validation) < 8 \/ Cardinality(split.test) < 8 \/ split.train = {}
    ELSE \/ Sizes(Len(d.labels)).train < 8
         \/ /\ strategy = "stratified" /\ task \in Classification
            /\ \/ Cardinality(split.train) < 8
               \/ split.validation = {} \/ split.test = {}
=============================================================================
