------------------------------ MODULE AutoTrain ------------------------------
(***************************************************************************)
(* One-call training (auto.py, AutoTrainer.train): options are resolved    *)
(* into a plan, the data set is registered, a run is created from the plan *)
(* (workspace.py, RunManager.create), started and polled until it ends.    *)
(* Meanwhile others edit the table of packs, command the run, and remove   *)
(* runs and data sets; the runtime, as RunProtocol describes it, works on  *)
(* the run.  A client of the HTTP server may create the run instead.       *)
(* The chunk plan that plan() and the registration compute is ChunkPlan.   *)
(***************************************************************************)
EXTENDS DataSplit, ChunkPlan, RunStates

CONSTANTS
    Hardware,       \* [cpu_threads, gpu, ram_gb]
    Installed,      \* the backends that can be imported
    Sources,        \* the data there is, by name
    Requests,       \* [explicit, settings, engine, environment, config, model]: layers of
                    \* options, and the suffix of the model to fine-tune, or "none"
    DirectConfigs,  \* the configurations another client creates a run from
    UserPacks,      \* names of packs that are not built in
    Overrides,      \* the overrides packs are created with
    MaxEdits,       \* bound on the edits of the table
    MaxCommands     \* bound on what other clients do to the run

Unset == -100000
MostSteps == 10000000

\* auto._DEFAULTS; fractions and metrics in thousandths.
Defaults ==
    [task |-> "auto", backend |-> "auto", architecture |-> "auto", model_format |-> "auto",
     profile |-> "auto", execution |-> "auto", algorithm_pack |-> "balanced",
     batch_size |-> Unset, max_steps |-> 1400, target_metric |-> Unset, cpu |-> Unset,
     ram |-> Unset, gpu |-> Unset, threads |-> Unset, data_workers |-> Unset,
     prefetch |-> Unset, evaluation_interval |-> Unset, min_improvement |-> 0,
     degradation_margin |-> Unset, degradation_patience |-> 3,
     early_stopping_patience |-> 18, target_patience |-> 3]

\* The options of one layer over those of another.
Over(f, g) == [o \in DOMAIN f \cup DOMAIN g |-> IF o \in DOMAIN f THEN f[o] ELSE g[o]]

\* The range plan() accepts an option in.
PlanRange ==
    [cpu |-> 10..100, ram |-> 10..95, gpu |-> 0..100, threads |-> 1..Hardware.cpu_threads,
     max_steps |-> 1..MostSteps, data_workers |-> 0..64, prefetch |-> 0..32,
     evaluation_interval |-> 1..Million, min_improvement |-> 0..1000,
     degradation_margin |-> 1..10000, degradation_patience |-> 1..100,
     early_stopping_patience |-> 1..10000, target_patience |-> 1..100]

\* create() checks these again and forces the others into their range.
CreateChecks == {"evaluation_interval", "min_improvement", "degradation_margin",
                 "degradation_patience", "early_stopping_patience", "target_patience"}

\* _coerce() makes integers of the options that are numbers, and None is no option.
Layers == {"explicit", "settings", "engine", "environment", "config"}
Numbers == {"cpu", "ram", "gpu", "threads", "batch_size", "max_steps", "data_workers", "prefetch",
            "evaluation_interval", "min_improvement", "degradation_margin", "target_metric",
            "degradation_patience", "early_stopping_patience", "target_patience"}
ASSUME RequestAssumption ==
    \A r \in Requests :
        /\ Layers \subseteq DOMAIN r
        /\ \A layer \in Layers : \A o \in DOMAIN r[layer] \cap Numbers : r[layer][o] \in Int \ {Unset}
ASSUME DirectAssumption ==
    \A c \in DirectConfigs :
        /\ DOMAIN Defaults \subseteq DOMAIN c /\ c.dataset \in DOMAIN Sources
        /\ c.ram \in Int /\ c.batch_size \in Int /\ c.batch_mode \in {"auto", "manual"}

ASSUME HardwareAssumption ==
    Hardware.cpu_threads \in Nat \ {0} /\ Hardware.ram_gb \in Nat /\ Hardware.gpu \in BOOLEAN
ASSUME SourceAssumption ==
    \A name \in DOMAIN Sources :
        LET d == Sources[name]
        IN  /\ d.features \in Nat \ {0} /\ d.preview \in Nat /\ d.guess \in Nat
            /\ Len(d.labels) \in Nat /\ Rows(d) = 1..Len(d.labels)
\* A stride stands for a permutation of the rows.
ASSUME StridesAssumption ==
    \A stride \in Strides, name \in DOMAIN Sources :
        LET n == Len(Sources[name].labels)
        IN  /\ stride \in Nat
            /\ \A i, j \in 1..n : Order(n, stride)[i] = Order(n, stride)[j] => i = j
ASSUME OverridesAssumption == \A o \in Overrides : ValidOverrides(o)

VARIABLES
    table,      \* the user's packs
    datasets,   \* names of the data sets that are registered
    call,       \* the call of train(): its phase, request, source, plan and mode
    run,        \* the record of the run, or NoRun
    session,    \* what the worker of the run trains with, or NoSession
    state, busy,                        \* RunProtocol: the state of the run
    edits, commands                     \* how often others intervened

runVars   == <<state, busy>>
vars == <<table, datasets, call, run, session, runVars, chunkVars, edits, commands>>

Protocol == INSTANCE RunProtocol WITH Runs <- {"run"}

NoRun     == [owner |-> "nobody"]
NoSession == [opened |-> FALSE]
Idle      == [phase |-> "idle"]

Status   == state["run"]
Terminal_Mutation == {"completed", "stopped"}
Terminal == {"completed", "stopped", "error_recoverable"}

-----------------------------------------------------------------------------
(* plan()                                                                   *)

Resolve_Mutation(request) ==
    Over(request.environment, Over(request.explicit, Over(request.config, Defaults)))

\* _resolve(): an explicit option comes before the environment, the environment
\* before the file, the file before the default.
Resolve(request) ==
    Over(request.explicit, Over(request.environment, Over(request.config, Defaults)))

\* Engine._options(): an option of the call comes before those of its settings, and they
\* come before the defaults the engine was configured with.
EngineOptions(request) == Over(request.explicit, Over(request.settings, request.engine))

\* finetune(): the suffix of the model names the backend, unless an option does.
SuffixBackend == [npz |-> "numpy", pt |-> "torch", keras |-> "tensorflow"]
Options(request) ==
    Over(EngineOptions(request),
         IF request.model \in DOMAIN SuffixBackend
         THEN [backend |-> SuffixBackend[request.model]] ELSE [o \in {} |-> Unset])

\* What the trainer is called with.
Asked(request) == [request EXCEPT !.explicit = Options(request)]

Or(value, default) == IF value = Unset THEN default ELSE value

\* The name of the pack: the legacy option wins unless it is "auto".
PackAsked(v) == IF v.profile = "auto" THEN v.algorithm_pack ELSE v.profile

Settings == {"cpu", "ram", "gpu", "threads", "data_workers", "prefetch"}

FirstOf(S) == IF S = {} THEN "none" ELSE CHOOSE x \in S : TRUE

\* Options that were left open, from the pack, the target of execution and the
\* machine; plan() and create() do the same.
Filled(v, pack, execution) ==
    LET cpu == Or(v.cpu, 70)
        threads == Or(v.threads, DefaultThreads(Hardware.cpu_threads, cpu,
                                                pack.knobs.native_thread_fraction))
    IN  [cpu |-> cpu, ram |-> Or(v.ram, 70), threads |-> threads,
         gpu |-> Or(v.gpu, IF execution = "hybrid" THEN 70 ELSE 0),
         data_workers |-> Or(v.data_workers, DefaultWorkers(pack, threads)),
         prefetch |-> Or(v.prefetch, pack.knobs.prefetch)]

TargetRange(task) == IF task = "regression" THEN -10000..1000 ELSE 0..1000

PlannedTask(v, d) == IF v.task = "auto" THEN InspectedTask(d) ELSE v.task

\* The plan of resolved options; used where nothing refuses it.
PlanOf(v, d) ==
    LET task == PlannedTask(v, d)
        pack == GetAlgorithmPack(table, ResolveAlgorithmPack(PackAsked(v)))
        execution == ExecutionTarget(v.execution, Hardware.gpu)
        settings  == Filled(v, pack, execution)
        backend   == FirstOf(SelectBackend(v.backend, execution, Installed))
        chosen ==
            [task |-> task, algorithm_pack |-> pack.name, profile |-> pack.profile,
             execution |-> execution, backend |-> backend,
             contract |-> TrainingContract(v.architecture, v.model_format, backend),
             batch |-> PlanBatch(RecordsEstimate(d), d.features, pack.profile, settings.ram,
                                 Hardware.ram_gb,
                                 IF v.batch_size = Unset THEN "auto" ELSE "manual", v.batch_size),
             target_metric |-> Or(v.target_metric, IF task = "regression" THEN 800 ELSE 920),
             degradation_margin |->
                Or(v.degradation_margin, IF task = "regression" THEN 50 ELSE 30),
             mode |-> DataMode(d, pack.knobs.stream_limit)]
    IN  Over(settings, Over(chosen, Over(DataContract(d, pack.knobs.chunk_target_records), v)))

OutOfRange(c, options) == \E o \in options : c[o] # Unset /\ c[o] \notin PlanRange[o]

\* Why plan() raises an error of Kernelyra; nothing is stored then.
PlanRefused(v, d) ==
    \/ PlannedTask(v, d) \notin Tasks
    \/ ~Resolvable(table, PackAsked(v))
    \/ TargetRefused(v.execution, Hardware.gpu)
    \/ LET plan == PlanOf(v, d) IN
        \/ plan.contract = {}
        \/ OutOfRange(plan, DOMAIN PlanRange)
        \/ plan.execution = "cpu" /\ plan.gpu # 0
        \/ v.batch_size # Unset /\ v.batch_size < 1
        \/ plan.batch.risk = "high"      \* accept_batch_risk is not given
        \/ plan.target_metric \notin TargetRange(plan.task)
        \/ ModeRefused(d, GetAlgorithmPack(table, plan.algorithm_pack).knobs.stream_limit)

Phase(p)   == call' = [call EXCEPT !.phase = p]
Raise(why) == call' = [phase |-> "raised", why |-> why]
Data == Sources[call.source]

Plan ==
    /\ call.phase = "idle" /\ run = NoRun
    /\ \E caller \in Requests, name \in DOMAIN Sources :
        LET request == Asked(caller)   v == Resolve(request)   d == Sources[name] IN
        IF PlanRefused(v, d)
        THEN Raise("plan") /\ UNCHANGED chunkVars
        ELSE /\ call' = [phase |-> "planning", source |-> name, plan |-> PlanOf(v, d),
                         request |-> request]
             /\ ChunkStart(ChunkLimits(PlanOf(v, d).chunk_target), RecordsEstimate(d))
    /\ UNCHANGED <<table, datasets, run, session, runVars, edits, commands>>

\* The chunk policy is computed for the plan, and again for the registered data set.
PlanChunk ==
    /\ call.phase \in {"planning", "importing"}
    /\ ChunkNext
    /\ UNCHANGED <<table, datasets, call, run, session, runVars, edits, commands>>

-----------------------------------------------------------------------------
(* train()                                                                  *)

RegistrationRefused(d, mode) == IF mode = "stream" THEN StreamRefused(d) ELSE ImportRefused(d)

\* import_file() or attach_path(); a data set that is there already is taken as it is.
Import ==
    /\ call.phase = "planning" /\ remaining = 0
    /\ IF RegistrationRefused(Data, call.plan.mode)
       THEN Raise("import") /\ UNCHANGED chunkVars
       ELSE /\ Phase("importing")
            /\ IF <<call.source, call.plan.mode>> \in datasets THEN UNCHANGED chunkVars
               ELSE ChunkStart(ChunkLimits(AutomaticChunkTarget(Data.features)),
                                      Len(Data.labels))
    /\ UNCHANGED <<table, datasets, run, session, runVars, edits, commands>>

Stored(mode) ==
    /\ call.phase = "importing" /\ remaining = 0 /\ call.plan.mode = mode
    /\ datasets' = datasets \cup {<<call.source, mode>>}
    /\ Phase("imported")
    /\ UNCHANGED <<table, run, session, runVars, chunkVars, edits, commands>>

\* A copy with its arrays, or a reference to files that stay where they are.
Imported == Stored("memory")
Attached == Stored("stream")

TrueTask(d, mode) == IF mode = "stream" THEN StreamTask(d) ELSE ImportedTask(d)

\* The configuration train() creates the run from: the plan, the task of the data,
\* the name of the pack and the profile of its base.  Any risk is accepted.
ConfigOf(plan) ==
    Over([objective |-> TrueTask(Data, plan.mode), dataset |-> call.source, accept |-> TRUE,
          batch_mode |-> IF "batch_size" \in DOMAIN call.request.explicit THEN "manual" ELSE "auto",
          batch_size |-> plan.batch.applied], plan)

RunPack(c) == ResolveAlgorithmPack(PackAsked(c))

\* create() forces what was given into its range, before it fills the rest.
Forced(c) ==
    [c EXCEPT !.cpu = IF @ = Unset THEN @ ELSE Within(10, 100, @),
              !.ram = IF @ = Unset THEN @ ELSE Within(10, 95, @),
              !.gpu = IF @ = Unset THEN @ ELSE Within(0, 100, @)]

RunOf(owner, c) ==
    LET d == Sources[c.dataset]
        pack == GetAlgorithmPack(table, RunPack(c))
        execution == ExecutionTarget(c.execution, Hardware.gpu)
        settings  == Filled(Forced(c), pack, execution)
        chosen ==
            [owner |-> owner, dataset |-> <<c.dataset, c.mode>>, objective |-> c.objective,
             backend |-> c.backend,
             contract |-> TrainingContract(c.architecture, c.model_format, c.backend),
             profile |-> pack.profile, execution |-> execution, algorithm_pack |-> pack.name,
             target_score |-> Within(IF c.objective = "regression" THEN -10000 ELSE 500,
                                     999, c.target_metric),
             batch |-> PlanBatch(Len(d.labels), d.features, pack.profile, settings.ram,
                                 Hardware.ram_gb, c.batch_mode, c.batch_size),
             max_steps |-> Within(1, MostSteps, c.max_steps),
             data_workers |-> Within(0, 64, settings.data_workers),
             prefetch |-> Within(0, 32, settings.prefetch),
             degradation_margin |-> Or(c.degradation_margin,
                                       IF c.objective = "regression" THEN 50 ELSE 30),
             split_policy |-> c.split_policy]
    IN  Over(chosen, settings)

CreateRefused(c) ==
    \/ c.objective # TrueTask(Sources[c.dataset], c.mode)
    \/ c.backend \notin Backends
    \/ TrainingContract(c.architecture, c.model_format, c.backend) = {}
    \/ ~Resolvable(table, PackAsked(c))
    \/ TargetRefused(c.execution, Hardware.gpu)
    \/ c.batch_mode = "manual" /\ c.batch_size < 1
    \/ LET r == RunOf("nobody", c) IN
        \/ r.batch.risk = "high" /\ ~c.accept
        \/ r.execution = "cpu" /\ r.gpu # 0
        \/ r.threads \notin 1..Hardware.cpu_threads
        \/ OutOfRange(Over(r, c), CreateChecks)

\* The backend is selected again for the task of the data, by the policy of the
\* planned pack, which somebody may have deleted; that error is a KeyError.
Create ==
    /\ call.phase = "imported"
    /\ IF ~Known(table, call.plan.algorithm_pack)
       THEN Raise("pack") /\ UNCHANGED <<run, runVars>>
       ELSE IF <<call.source, call.plan.mode>> \notin datasets
       THEN Raise("dataset") /\ UNCHANGED <<run, runVars>>
       ELSE IF CreateRefused(ConfigOf(call.plan))
       THEN Raise("create") /\ UNCHANGED <<run, runVars>>
       ELSE /\ run' = RunOf("train", ConfigOf(call.plan))
            /\ Protocol!Register("run")
            /\ Phase("created")
    /\ UNCHANGED <<table, datasets, session, chunkVars, edits, commands>>

\* run.start(); whoever removed or started the run before makes it fail.
Start ==
    /\ call.phase = "created"
    /\ \/ Status \in Resumable \cup {"draft"} /\ Protocol!Queue("run", FALSE) /\ Phase("waiting")
       \/ Status \notin Resumable \cup {"draft"} /\ Raise("run") /\ UNCHANGED runVars
    /\ UNCHANGED <<table, datasets, run, session, chunkVars, edits, commands>>

\* The turn of the loop that ends it: the record is gone, failed or final.  In any
\* other turn the loop goes on.
Poll ==
    /\ call.phase = "waiting"
    /\ \/ Status = "absent" /\ Raise("removed")
       \/ Status \in Terminal /\ Status = "error_recoverable" /\ Raise("error")
       \/ Status \in Terminal \ {"error_recoverable"} /\ Phase("returned")
    /\ UNCHANGED <<table, datasets, run, session, runVars, chunkVars, edits, commands>>

\* KeyboardInterrupt: the run is stopped, if it can be, before the call raises.
Interrupt ==
    /\ call.phase = "waiting"
    /\ IF Status \in Stoppable THEN Protocol!RequestStop("run") ELSE UNCHANGED runVars
    /\ Raise("interrupt")
    /\ UNCHANGED <<table, datasets, run, session, chunkVars, edits, commands>>

-----------------------------------------------------------------------------
(* The worker                                                               *)

Launch ==
    /\ Protocol!Launch("run")
    /\ UNCHANGED <<table, datasets, call, run, session, chunkVars, edits, commands>>

SplitOf(d, mode, policy, objective, stride) ==
    IF mode = "stream" THEN SplitStream(d) ELSE SplitArrays(d, policy, objective, stride)

\* _train(): data set, pack and split are looked up now, and may be gone.
Open ==
    /\ "run" \in busy /\ ~session.opened
    /\ run.dataset \in datasets
    /\ Known(table, run.algorithm_pack)
    /\ \E stride \in Strides :
        LET d == Sources[run.dataset[1]]   mode == run.dataset[2]
            split == SplitOf(d, mode, run.split_policy, run.objective, stride)
        IN  /\ ~SplitRefused(d, mode, run.split_policy, run.objective, split)
            /\ session' = [opened |-> TRUE, split |-> split, stride |-> stride,
                           tuning |-> AutotuneExecution(
                                GetAlgorithmPack(table, run.algorithm_pack),
                                Hardware.cpu_threads, run.threads)]
    /\ UNCHANGED <<table, datasets, call, run, runVars, chunkVars, edits, commands>>

\* A worker that could not open its session ends in an error.  The model of a run
\* that completes learnt from the split of the session.
Settle ==
    /\ Protocol!Settle("run")
    /\ ~session.opened => state'["run"] = "error_recoverable"
    /\ session' = IF state'["run"] = "completed" THEN [session EXCEPT !.opened = FALSE]
                  ELSE NoSession
    /\ UNCHANGED <<table, datasets, call, run, chunkVars, edits, commands>>

\* run_inference_check(): the session it makes for a completed run is configured
\* without a split strategy, so that the default, "random", divides the rows.
InferenceRows(d, mode, objective, stride) ==
    SplitOf(d, mode, "random", objective, stride).test

-----------------------------------------------------------------------------
(* Others                                                                   *)

EditPacks ==
    /\ edits < MaxEdits /\ edits' = edits + 1
    /\ \E name \in UserPacks :
        \/ \E source \in BuiltinNames \cup UserPacks, o \in Overrides :
            ~CloneRefused(table, name, source) /\ table' = Cloned(table, name, source, o)
        \/ name \in DOMAIN table /\ table' = Deleted(table, name)
        \/ \E a \in PACK_ALGORITHMS : name \in DOMAIN table /\
            \/ table' = WithAlgorithm(table, name, a)
            \/ table' = WithoutAlgorithm(table, name, a)
    /\ UNCHANGED <<datasets, call, run, session, runVars, chunkVars, commands>>

\* A client of the server registers a data set and creates a run by its own
\* configuration, which names no split policy.
CreateDirect ==
    /\ call.phase = "idle" /\ run = NoRun
    /\ \E c \in DirectConfigs :
        /\ ~RegistrationRefused(Sources[c.dataset], c.mode)
        /\ ~CreateRefused(c)
        /\ datasets' = datasets \cup {<<c.dataset, c.mode>>}
        /\ run' = RunOf("client", c)
        /\ Protocol!Register("run")
    /\ UNCHANGED <<table, call, session, chunkVars, edits, commands>>

Command ==
    /\ run # NoRun /\ commands < MaxCommands /\ commands' = commands + 1
    /\ \/ Protocol!Queue("run", FALSE)
       \/ Protocol!RequestPause("run")
       \/ Protocol!RequestStop("run")
       \/ Status \in Terminal /\ Protocol!Goes("run", "absent") /\ UNCHANGED busy
    /\ UNCHANGED <<table, datasets, call, run, session, chunkVars, edits>>

RemoveDataset ==
    /\ commands < MaxCommands /\ commands' = commands + 1
    /\ \E x \in datasets : datasets' = datasets \ {x}
    /\ UNCHANGED <<table, call, run, session, runVars, chunkVars, edits>>

-----------------------------------------------------------------------------

Init ==
    /\ table = [n \in {} |-> 0]
    /\ datasets = {} /\ call = Idle /\ run = NoRun /\ session = NoSession
    /\ Protocol!PInit
    /\ NoPlan
    /\ edits = 0 /\ commands = 0

Next ==
    \/ Plan \/ PlanChunk \/ Import \/ Imported \/ Attached \/ Create \/ Start \/ Poll \/ Interrupt
    \/ Launch \/ Open \/ Settle
    \/ EditPacks \/ CreateDirect \/ Command \/ RemoveDataset

\* The caller's loop and the runtime go on; nobody else has to.
Spec ==
    /\ Init /\ [][Next]_vars
    /\ WF_vars(Poll) /\ WF_vars(Launch) /\ WF_vars(Settle)

-----------------------------------------------------------------------------
(* Properties                                                               *)

TypeOK ==
    /\ \A n \in DOMAIN table : n \in UserPacks /\ ValidRecord(table[n])
    /\ datasets \subseteq (DOMAIN Sources) \X {"memory", "stream"}
    /\ call.phase \in {"idle", "planning", "importing", "imported", "created", "waiting",
                       "returned", "raised"}
    /\ session.opened \in BOOLEAN
    /\ state \in [{"run"} -> RunStatus] /\ busy \subseteq {"run"}
    /\ run = NoRun <=> run.owner = "nobody"

\* The batch of a run (batch.py) is planned again for the rows and features the data set
\* has, the profile and the share of memory of the run.  It is not empty; the samples of
\* its safe maximum fit in that share, unless the maximum is two; an automatic batch is in
\* the safe range, and a manual one above it is rated a high risk.  The training rows it
\* keeps to are those plan_batch() counts on: a split may leave fewer (splitter.py).
BatchFits ==
    run # NoRun =>
        LET d == Sources[run.dataset[1]]
        IN  BatchIsBounded(run.batch, TrainRecords(Len(d.labels)), SampleMemory(d.features),
                           UsableMemory(run.profile, run.ram, Hardware.ram_gb))

\* What create() changes in a plan.  A batch size counts if the call itself names it: one
\* of the environment or of the file is planned with and then dropped.  It is cut to the
\* rows, never raised.
BatchIsKept ==
    LET asked == "batch_size" \in DOMAIN call.request.explicit
    IN  /\ run.batch.mode = IF asked THEN "manual" ELSE "auto"
        /\ asked => run.batch.applied <= call.request.explicit.batch_size

\* A target outside the range of a score is clamped.
TargetIsKept ==
    \/ run.target_score = call.plan.target_metric
    \/ run.target_score = 999 /\ call.plan.target_metric > 999
    \/ run.target_score = 500 /\ call.plan.target_metric < 500 /\ run.objective # "regression"

\* A pack of a user is replaced by a built-in one with the same profile.
PackIsKept ==
    /\ BUILTIN_ALGORITHM_PACKS[run.algorithm_pack].profile = call.plan.profile
    /\ call.plan.algorithm_pack \in BuiltinNames => run.algorithm_pack = call.plan.algorithm_pack

\* The options of a call that its plan has as they were given.
PlannedAsGiven == Settings \cup {"max_steps", "target_metric"}

\* plan() takes these options of the call over whatever the environment and the file say,
\* and a plan it accepts is not refused by create() (workspace.py), which fills, checks and
\* clamps everything again.  The settings below come out of it as they were planned; batch,
\* target and pack may not, and change in no other way than the three definitions above say.
PlanIsKept ==
    /\ call.phase = "raised" => call.why # "create"
    /\ call.phase \in {"created", "waiting", "returned"} =>
        /\ run.owner = "train" /\ run.dataset = <<call.source, call.plan.mode>>
        /\ \A o \in PlannedAsGiven \cap DOMAIN call.request.explicit :
            call.plan[o] = call.request.explicit[o]
        /\ \A o \in Settings \cup {"execution", "backend", "contract", "profile",
                                   "max_steps", "split_policy"} : run[o] = call.plan[o]
        /\ BatchIsKept /\ TargetIsKept /\ PackIsKept

\* The parts are disjoint and not empty; rows of one context are in one part, unless a
\* time-like column came first; the rows of time-like data that fit in memory are cut in
\* their order; and a class of three rows or more is in every part.
SoundSplit(d, mode, policy, objective, s) ==
    LET before(A, B) == \A i \in A, j \in B : i < j
    IN  /\ \A p \in DOMAIN s : s[p] # {}
        /\ \A p, q \in DOMAIN s : p # q => s[p] \cap s[q] = {}
        /\ UNION {s[p] : p \in DOMAIN s} = Rows(d)
        /\ (d.group # <<>> /\ d.streamable /\ (~d.timeLike \/ mode = "stream")) =>
            \A p, q \in DOMAIN s : p # q =>
                {d.group[i] : i \in s[p]} \cap {d.group[i] : i \in s[q]} = {}
        /\ d.timeLike /\ mode = "memory" =>
            before(s.train, s.validation) /\ before(s.validation, s.test)
        /\ policy = "stratified" /\ mode = "memory" /\ objective # "regression" =>
            \A v \in Values(d, Rows(d)) :
                LET class == {i \in Rows(d) : d.labels[i] = v}
                IN  /\ s.train \cap class # {}
                    /\ Cardinality(class) >= 3 => \A p \in DOMAIN s : s[p] \cap class # {}

\* A worker that trains on a run of train() never validates or tests on what it
\* learns from.
NothingLeaks ==
    session.opened /\ run.owner = "train" =>
        SoundSplit(Sources[run.dataset[1]], run.dataset[2], run.split_policy, run.objective,
                   session.split)

\* A call that waits comes back, or finds itself waiting for a run that somebody
\* paused: then it waits for as long as that run stays paused.
TrainReturns == call.phase = "waiting" ~> (call.phase # "waiting" \/ Status = "paused")

\* inference.py: the predictions are made "against held-out rows".  No row the check
\* of a completed run predicts is one its training learnt from.
HeldOutIsUnseen ==
    Status = "completed" =>
        LET d == Sources[run.dataset[1]]   mode == run.dataset[2]
        IN  InferenceRows(d, mode, run.objective, session.stride) \cap session.split.train = {}

\* README.md: user packs alter the real tuning.  A run that train() was asked to
\* create with a known pack trains with that pack.
PackIsHonoured ==
    call.phase \in {"created", "waiting", "returned"} =>
        run.algorithm_pack = call.plan.algorithm_pack
=============================================================================
