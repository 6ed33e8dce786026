--------------------------- MODULE BackendSession ---------------------------
(***************************************************************************)
(* The session of a training backend (backends/): what it keeps between    *)
(* the calls of a worker, and what survives in a checkpoint.  NumPy trains *)
(* the arrays of its state; the native backend trains a copy of them       *)
(* behind a handle of the C++ core and reads numeric CSV streams through   *)
(* buffers leased from an arena of fixed size; PyTorch and TensorFlow      *)
(* train a model object.  The worker's loop (runtime.py) changes the batch *)
(* after an evaluation, and a session may end between any two calls.       *)
(***************************************************************************)
EXTENDS Naturals, FiniteSets

CONSTANTS
    Features,       \* numeric columns of a row
    TrainRecords,   \* rows in the training part of the stream
    Batches,        \* sizes of an automatic batch: powers of two
    BatchStart, BatchMin, BatchMax,     \* the first, the least and the greatest of them
    BulkCap,        \* steps a linear backend may be asked for at once
    MinArena,       \* 8 MiB in the code: the least an arena is planned with
    ArenaCaps,      \* the ceilings a pack may set
    ModelCursor,    \* rows the model file to fine-tune had consumed of its own data
    MaxRows,        \* bound on the rows that are read
    MaxEvals        \* bound on the evaluations of a run

ASSUME NumberAssumption ==
    {Features, TrainRecords, BulkCap, MinArena, ModelCursor, MaxRows, MaxEvals} \cup ArenaCaps \subseteq Nat

\* plan_batch() takes powers of two for all three, so that the sizes a batch is halved or
\* doubled to are each twice the one before.
ASSUME BatchAssumption ==
    /\ Batches \subseteq Nat \ {0} /\ IsFiniteSet(Batches)
    /\ {BatchStart, BatchMin, BatchMax} \subseteq Batches
    /\ \A n \in Batches :
          /\ BatchMin <= n /\ n <= BatchMax
          /\ n # BatchMin => \E m \in Batches : n = 2 * m
          /\ n # BatchMax => 2 * n \in Batches

Linear == {"numpy", "native"}
Mlp    == {"torch", "tensorflow"}

VARIABLES
    setup,      \* [backend, regression, stream, plain, model, cap]: what the run asks for
    run,        \* [batch, evals, effective]: what its record keeps
    session,    \* the session, or NoSession
    arena,      \* [capacity, used, leases]: the arena of a native stream
    file        \* the checkpoint, or NoFile

vars == <<setup, run, session, arena, file>>

NoSession == [open |-> FALSE]
NoFile    == [kind |-> "none"]
NoArena   == [capacity |-> 0, used |-> 0, leases |-> {}]

Larger(a, b)  == IF a > b THEN a ELSE b
Smaller(a, b) == IF a < b THEN a ELSE b

\* Weights: what they started from and the rows they have learnt since.  Statistics
\* are those of the target column: of the data of the run, or of the model's own.
Fresh == [weights |-> [from |-> "seed", rows |-> 0], stats |-> "data"]
ModelFile ==
    [kind |-> IF setup.backend \in Linear THEN "linear" ELSE setup.backend,
     weights |-> [from |-> "model", rows |-> 0], stats |-> "model",
     cursor |-> ModelCursor, skipped |-> 0]

-----------------------------------------------------------------------------
(* The arena                                                                *)

RowBytes == 4 * (Features + 1)

\* A batch takes two leases and each of them less than 64 bytes of alignment: what all
\* sizes lose to it is less than the smallest batch, or all of them are small.  The sizes
\* of plan_batch() and the 8 MiB of the code are so for every number of columns.
ASSUME ArenaAssumption ==
    LET lost == 128 * Cardinality(Batches)
    IN  lost <= BatchMin * RowBytes \/ 2 * BatchMax * RowBytes + lost <= MinArena

Aligned(n) == 64 * ((n + 63) \div 64)

ArenaBytes_Mutation(batch, cap) ==
    LET bytes == batch * RowBytes
    IN  Smaller(cap, Larger(Larger(MinArena, 3 * bytes), cap \div 4))

\* autotune_execution(): planned once, for the batch a worker is started with.
ArenaBytes(batch, cap) ==
    LET bytes == batch * RowBytes
    IN  Smaller(cap, Larger(Larger(MinArena, 3 * bytes), Larger(8 * bytes, cap \div 4)))

\* The features and then the targets of a batch, each lease aligned.
UsedWith(batch) == Aligned(Aligned(arena.used) + batch * Features * 4) + batch * 4

\* A batch of a size that was read before reuses its leases; another one passes the
\* planner, which reserves one gap of alignment, and then the arena itself.
Fits(batch) ==
    \/ batch \in arena.leases
    \/ /\ batch * RowBytes + 64 <= arena.capacity - arena.used
       /\ UsedWith(batch) <= arena.capacity

Lease(batch) ==
    arena' = IF session.source # "native" \/ batch \in arena.leases THEN arena
             ELSE [arena EXCEPT !.used = UsedWith(batch), !.leases = @ \cup {batch}]

-----------------------------------------------------------------------------
(* Checkpoints                                                              *)

\* What the session trains and evaluates with.
Live(s) == IF s.effective = "native" THEN s.handle ELSE s.state

SyncParameters_Mutation(s) == s.state

\* NativeBackend._sync_parameters(): the weights of the handle; its statistics stay.
SyncParameters(s) ==
    IF s.effective = "native" THEN [s.state EXCEPT !.weights = s.handle.weights] ELSE s.state

StreamState_Mutation(s) == 0

\* What the source of the rows adds to a checkpoint.
StreamState(s) == IF s.source = "memory" THEN 0 ELSE s.cursor

\* save_checkpoint(): of a linear model the arrays and, for a regression, the statistics
\* they are scaled by; of a model object its weights alone.
ArraysOf(s) == [kind |-> "linear", weights |-> SyncParameters(s).weights,
                stats |-> SyncParameters(s).stats]
ModelOf(s)  == [kind |-> s.effective, weights |-> s.state.weights, stats |-> "data"]

\* The file, and what the session made of the data at that moment.
Saved(s) ==
    LET content == IF s.effective \in Linear THEN ArraysOf(s) ELSE ModelOf(s)
    IN  [kind |-> content.kind, weights |-> content.weights, stats |-> content.stats,
         cursor |-> StreamState(s), skipped |-> s.skipped, shown |-> Live(s)]

\* The source starts again and passes over the rows that were read.
Rewound(s, f) ==
    [s EXCEPT !.cursor = IF s.source = "memory" THEN 0 ELSE f.cursor, !.skipped = f.skipped]

\* restore_checkpoint(): the arrays; the native backend then gives them to its handle,
\* if there is one already; a model object takes its weights.
RestoredArrays(s, f) ==
    [Rewound(s, f) EXCEPT !.state = [weights |-> f.weights,
                                     stats |-> IF setup.regression THEN f.stats ELSE "data"]]
RestoredHandle(s, f) == [RestoredArrays(s, f) EXCEPT !.handle.weights = f.weights]
RestoredModel(s, f)  == [Rewound(s, f) EXCEPT !.state.weights = f.weights]

Restored(s, f) ==
    CASE s.effective = "numpy"  -> RestoredArrays(s, f)
      [] s.effective = "native" -> RestoredHandle(s, f)
      [] OTHER                  -> RestoredModel(s, f)

-----------------------------------------------------------------------------
(* Sessions                                                                 *)

\* Where the rows come from: an array, the general stream, or the C++ reader of CSV.
GeneralSource == IF setup.stream THEN "general" ELSE "memory"
NativeSource  == IF setup.stream /\ setup.plain THEN "native" ELSE GeneralSource

NewSession(effective, source) ==
    [open |-> TRUE, effective |-> effective, source |-> source,
     state |-> Fresh, handle |-> Fresh, cursor |-> 0, skipped |-> 0,
     scores |-> 0, phase |-> "loaded"]

\* create_session() of NumPy: a checkpoint comes before the model to fine-tune.
ArraySession(s) ==
    IF file # NoFile THEN RestoredArrays(s, file)
    ELSE IF setup.model THEN RestoredArrays(s, ModelFile) ELSE s

\* Of the native backend: the handle of a native stream exists before the file is read,
\* with the statistics of the data; any other is made from what NumPy's session restored.
NativeSession(s) ==
    IF s.source # "native" THEN LET a == ArraySession(s) IN [a EXCEPT !.handle = a.state]
    ELSE IF file # NoFile THEN RestoredHandle(s, file)
    ELSE IF setup.model THEN RestoredHandle(s, ModelFile) ELSE s

\* Of PyTorch and TensorFlow: the model object is new, or has the weights of the model to
\* fine-tune and nothing else of it; the checkpoint is read into it.
NewModel(s) == IF setup.model THEN [s EXCEPT !.state.weights = ModelFile.weights] ELSE s
ModelSession(s) ==
    IF file # NoFile THEN RestoredModel(NewModel(s), file) ELSE NewModel(s)

Loaded(effective) ==
    CASE effective = "numpy"  -> ArraySession(NewSession(effective, GeneralSource))
      [] effective = "native" -> NativeSession(NewSession(effective, NativeSource))
      [] OTHER                -> ModelSession(NewSession(effective, GeneralSource))

\* A file of another kind of model is refused, by its keys or its name.
Readable(effective) ==
    LET kind == IF effective \in Linear THEN "linear" ELSE effective
    IN  IF file # NoFile THEN file.kind = kind ELSE setup.model => ModelFile.kind = kind

\* _train(): an optional library that is missing is replaced by NumPy; the choice is
\* kept in the run.  A run that fine-tunes saves its model before the first step.
Create ==
    /\ ~session.open
    /\ \E installed \in BOOLEAN :
        LET effective == IF run.effective \in Mlp /\ ~installed THEN "numpy" ELSE run.effective
        IN  /\ Readable(effective)
            /\ session' = Loaded(effective)
            /\ run' = [run EXCEPT !.effective = effective,
                                  !.evals = IF setup.model THEN 1 ELSE @]
    /\ arena' = [NoArena EXCEPT !.capacity = ArenaBytes(run.batch, setup.cap)]
    /\ file' = IF setup.model THEN Saved(session') ELSE file
    /\ UNCHANGED setup

LearnArrays(s, rows) == [s EXCEPT !.state.weights.rows = @ + rows]
LearnHandle(s, rows) == [s EXCEPT !.handle.weights.rows = @ + rows]
LearnModel(s, rows)  == [s EXCEPT !.state.weights.rows = @ + rows]
Learn(s, rows) ==
    CASE s.effective = "numpy"  -> LearnArrays(s, rows)
      [] s.effective = "native" -> LearnHandle(s, rows)
      [] OTHER                  -> LearnModel(s, rows)

Read(s, rows) == IF s.source = "memory" THEN s ELSE [s EXCEPT !.cursor = @ + rows]

BulkSteps(effective) == IF effective \in Linear THEN 1..BulkCap ELSE {1}

\* train_step() and train_steps().
Step ==
    /\ session.open /\ session.phase # "complete"
    /\ session.source = "native" => Fits(run.batch)
    /\ \E steps \in BulkSteps(session.effective) :
        LET rows == steps * run.batch IN
        /\ Live(session).weights.rows + session.skipped + rows <= MaxRows
        /\ session' = [Read(Learn(session, rows), rows) EXCEPT !.phase = "stepped"]
    /\ Lease(run.batch)
    /\ UNCHANGED <<setup, run, file>>

\* PyTorch runs out of memory after the batch was read.  The loop halves the batch and
\* goes on; those rows are not read again.
OutOfMemory ==
    /\ session.open /\ session.phase # "complete" /\ session.effective = "torch"
    /\ run.batch > BatchMin
    /\ Live(session).weights.rows + session.skipped + run.batch <= MaxRows
    /\ session' = [Read(session, run.batch) EXCEPT
                    !.skipped = IF session.source = "memory" THEN @ ELSE @ + run.batch,
                    !.phase = "stepped"]
    /\ run' = [run EXCEPT !.batch = Larger(BatchMin, @ \div 2)]
    /\ UNCHANGED <<setup, arena, file>>

\* _adapt_batch(), for scores that dropped or stayed; the number of them is since the
\* session began, that of the evaluations since the run began.
Adapted(trend, scores, evals) ==
    IF trend = "dropped" /\ scores >= 3 /\ run.batch > BatchMin
    THEN Larger(BatchMin, run.batch \div 2)
    ELSE IF trend = "stable" /\ scores >= 2 /\ evals \in {2, 4} /\ run.batch < BatchMax
            /\ TrainRecords >= run.batch * 8
    THEN Smaller(BatchMax, run.batch * 2)
    ELSE run.batch

\* evaluate(), the checkpoint of that moment, which may fail to be written, and the
\* batch of the next steps.
Evaluate ==
    /\ session.open /\ session.phase = "stepped" /\ run.evals < MaxEvals
    /\ \E trend \in {"dropped", "stable", "other"}, better \in BOOLEAN :
        LET scores == Smaller(4, session.scores + 1)   evals == run.evals + 1 IN
        /\ run' = [run EXCEPT !.evals = evals, !.batch = Adapted(trend, scores, evals)]
        /\ session' = [session EXCEPT !.scores = scores, !.phase = "running",
                                      !.state = SyncParameters(session)]
        /\ file' = IF better THEN Saved(session) ELSE file
    /\ UNCHANGED <<setup, arena>>

\* _complete_with_test(): the best checkpoint is read back before the last evaluation.
Complete ==
    /\ session.open /\ session.phase = "running" /\ file # NoFile
    /\ session' = [Restored(session, file) EXCEPT !.phase = "complete"]
    /\ UNCHANGED <<setup, run, arena, file>>

\* close_session(), an error of a step, of a lease or of a checkpoint, or the end of
\* the process.  Leases go with the arena.
End ==
    /\ session.open
    /\ session' = NoSession /\ arena' = NoArena
    /\ UNCHANGED <<setup, run, file>>

-----------------------------------------------------------------------------

Init ==
    /\ setup \in [backend : Linear \cup Mlp, regression : BOOLEAN, stream : BOOLEAN,
                  plain : BOOLEAN, model : BOOLEAN, cap : ArenaCaps]
    /\ setup.plain => setup.stream /\ setup.backend = "native"   \* nobody else asks
    /\ run = [batch |-> BatchStart, evals |-> 0, effective |-> setup.backend]
    /\ session = NoSession /\ arena = NoArena /\ file = NoFile

Next == Create \/ Step \/ OutOfMemory \/ Evaluate \/ Complete \/ End

Spec == Init /\ [][Next]_vars

-----------------------------------------------------------------------------
(* Properties                                                               *)

\* The one case in which a handle and a file disagree: a regression fine-tuned over a
\* native stream trains with the statistics of its own data and saves the model's.
KeepsTwoScales == setup.regression /\ setup.model /\ session.open /\ session.source = "native"

\* A checkpoint holds what the session that wrote it predicted with, and a session
\* that has just read one predicts with what it holds.
CheckpointIsFaithful ==
    LET holds(f) == [weights |-> f.weights, stats |-> f.stats] IN
    /\ file # NoFile => file.weights = file.shown.weights
    /\ file # NoFile /\ file.shown.stats # file.stats =>
        setup.backend = "native" /\ setup.regression /\ setup.model
    /\ session.open /\ session.phase \in {"loaded", "complete"} /\ file # NoFile =>
        IF KeepsTwoScales THEN Live(session) = file.shown ELSE Live(session) = holds(file)

\* Rows are learnt in the order of the stream, each at most once however often the run
\* is saved, stopped and continued; only batches that ran out of memory are left out.
LearnsInOrder ==
    LET start == IF setup.model /\ setup.backend \in Linear THEN ModelCursor ELSE 0
        agree(cursor, weights, skipped) == cursor = start + weights.rows + skipped
    IN  setup.stream =>
        /\ session.open => agree(session.cursor, Live(session).weights, session.skipped)
        /\ file # NoFile => agree(file.cursor, file.weights, file.skipped)

\* An arena that is not at the ceiling of its pack has room for every batch the loop
\* comes to ask for: it is planned once and never grows.
ArenaSuffices ==
    session.open /\ session.source = "native" =>
        Fits(run.batch) \/ arena.capacity = setup.cap
=============================================================================
