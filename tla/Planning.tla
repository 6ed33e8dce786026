------------------------------- MODULE Planning -------------------------------
(***************************************************************************)
(* What the planner computes before a run exists: the batch (batch.py),    *)
(* the execution target, the architecture contract, the task and the split *)
(* policy of a data set, and the tuning of a worker (tuning.py).  Pure     *)
(* operators; fractions are in percent.                                    *)
(***************************************************************************)
EXTENDS Packs

Least(a, b) == IF a < b THEN a ELSE b
Most(a, b)  == IF a > b THEN a ELSE b
Within(lo, hi, x) == Most(lo, Least(hi, x))

\* x per cent of an amount of memory, without exceeding the width TLC computes in.
Percent(x, n) == (n \div 100) * x + ((n % 100) * x) \div 100

\* round() of half the odd numbers goes to the even one.
Rounded(n, d) ==
    LET q == n \div d   r == n % d
    IN  IF 2 * r > d \/ (2 * r = d /\ q % 2 = 1) THEN q + 1 ELSE q

-----------------------------------------------------------------------------
(* The batch.  Powers above 65536 are cut off: no profile allows more.      *)

Powers == {2, 4, 8, 16, 32, 64, 128, 256, 512, 1024, 2048, 4096, 8192, 16384, 32768, 65536}

PowerFloor(value) ==
    LET v == Most(2, value)
    IN  CHOOSE p \in Powers : p <= v /\ (v < 2 * p \/ p = 65536)

Profiles == {"low-memory", "balanced", "performance", "workstation"}

ProfileCap(profile) ==
    CASE profile = "low-memory"  -> 64
      [] profile = "balanced"    -> 256
      [] profile = "performance" -> 512
      [] profile = "workstation" -> 65536

TrainRecords(records) ==
    Most(2, records - Least(480, Most(32, records \div 5)))

Recommended(train, features) ==
    LET table == CASE train < 64     -> 4
                   [] train < 256    -> 8
                   [] train < 1024   -> 16
                   [] train < 10000  -> 32
                   [] train < 100000 -> 64
                   [] OTHER          -> 128
    IN  IF features > 4096 THEN Most(2, table \div 4)
        ELSE IF features > 512 THEN Most(2, table \div 2)
        ELSE table

\* Memory is counted in units of 16 bytes: the rows of a sample weigh 48 bytes a feature.
GiB == 67108864

SampleMemory(features) == Most(128, features * 3)

\* The share of the machine's memory that a batch may take.
UsableMemory(profile, ram, gib) ==
    LET total == Most(1, gib) * GiB
        asked == Percent(Within(10, 95, ram), total)
    IN  Most(GiB \div 4,
             IF profile = "workstation"
             THEN Percent(80, Least(asked, total - Most(2 * GiB, total \div 20)))
             ELSE Percent(35, asked))

\* The batch whose samples fill that memory.
MemoryCap(features, profile, ram, gib) ==
    PowerFloor(UsableMemory(profile, ram, gib) \div SampleMemory(features))

SafeMax_Mutation(train, features, profile, ram, gib) ==
    Most(2, Least(ProfileCap(profile), PowerFloor(Most(2, train \div 2))))

\* The largest batch that is safe, by the profile, the memory and the rows.
SafeMax(train, features, profile, ram, gib) ==
    Most(2, Least(ProfileCap(profile),
                  Least(MemoryCap(features, profile, ram, gib),
                        PowerFloor(Most(2, train \div 2)))))

\* plan_batch(): a requested batch is clamped to the training rows and rated; the
\* automatic one is the recommendation inside the safe range.
PlanBatch(records, features, profile, ram, gib, mode, requested) ==
    LET train   == TrainRecords(records)
        safeMax == SafeMax(train, features, profile, ram, gib)
        best    == Least(safeMax, PowerFloor(Recommended(train, features)))
        safeMin == Least(safeMax, Most(2, best \div 2))
        hardMax == Least(IF profile = "workstation" THEN 65536 ELSE 4096, train)
        applied == IF mode = "manual" THEN Most(1, Least(requested, hardMax)) ELSE best
    IN  [mode |-> mode, applied |-> applied, min |-> safeMin, max |-> safeMax,
         risk |-> IF mode = "auto" THEN "safe"
                  ELSE IF applied > safeMax THEN "high"
                  ELSE IF applied # best THEN "caution" ELSE "safe"]

\* What every plan of a batch keeps to: the rows it counts on for training, and the
\* memory there is for samples of some size.
BatchIsBounded(b, train, sample, memory) ==
    /\ 1 <= b.applied /\ b.applied <= train
    /\ 2 <= b.min /\ b.min <= b.max /\ b.max <= Most(2, train \div 2)
    /\ b.max = 2 \/ b.max * sample <= memory
    /\ b.mode = "auto" => b.min <= b.applied /\ b.applied <= b.max
    /\ b.mode = "manual" => (b.risk = "high" <=> b.applied > b.max)

-----------------------------------------------------------------------------
(* The execution target, the backend and the architecture.                  *)

Tasks == {"binary_classification", "multiclass_classification", "regression"}
Backends == {"native", "numpy", "torch", "tensorflow"}

TargetRefused(value, gpu) == value = "hybrid" /\ ~gpu
ExecutionTarget(value, gpu) ==
    IF value = "auto" THEN (IF gpu THEN "hybrid" ELSE "cpu") ELSE value

BackendOrder(target) ==
    IF target = "hybrid" THEN <<"torch", "tensorflow", "native", "numpy">>
    ELSE <<"native", "numpy", "torch", "tensorflow">>

\* _select_backend(): the one that was named, if it is installed, or the first
\* installed one in the order of the policy.  Every backend trains the three tasks.
SelectBackend(requested, target, installed) ==
    IF requested # "auto" THEN {b \in {requested} : b \in installed}
    ELSE LET order == BackendOrder(target)
             found == {i \in DOMAIN order : order[i] \in installed}
         IN  {order[i] : i \in {j \in found : \A k \in found : j <= k}}

ArchitectureBackends ==
    [linear |-> {"native", "numpy"}, mlp |-> {"torch", "tensorflow"}]
TrainableFormats == {"kernelyra-npz"}

\* resolve_training_contract(): the contracts that are not refused.
TrainingContract(architecture, format, backend) ==
    LET chosen == IF architecture # "auto" THEN architecture
                  ELSE IF backend \in {"native", "numpy"} THEN "linear" ELSE "mlp"
        output == IF format = "auto" THEN "kernelyra-npz" ELSE format
    IN  {c \in {<<chosen, output>>} :
            /\ c[1] \in DOMAIN ArchitectureBackends
            /\ backend \in ArchitectureBackends[c[1]]
            /\ c[2] \in TrainableFormats}

\* The threads of a run that names none: its share of the machine's.
DefaultThreads(cpu_threads, cpu, fraction) ==
    Most(1, Least(cpu_threads, Rounded(cpu_threads * cpu * fraction, 10000)))

DefaultWorkers(pack, threads) == Least(pack.knobs.data_workers, threads - 1)

\* autotune_execution(): the settings a worker is started with (memory in MiB; a
\* batch is taken to need less than 1 MiB).
AutotuneExecution(pack, cpu_threads, threads) ==
    LET on(a) == a \in pack.algorithms
        cap   == IF on("expanded_tensor_arena") THEN pack.knobs.arena_bytes
                 ELSE Least(pack.knobs.arena_bytes, 96)
    IN  [algorithm_pack |-> pack.name,
         native_threads |-> IF on("thread_parallel_gradient")
                            THEN Within(1, cpu_threads, threads) ELSE 1,
         bulk_step_cap |-> IF on("bulk_training_dispatch")
                           THEN pack.knobs.bulk_step_cap ELSE 1,
         arena |-> Least(cap, Most(8, cap \div 4)),
         arena_cap |-> cap,
         data_workers |-> IF on("parallel_data_prefetch")
                          THEN pack.knobs.data_workers ELSE 0,
         prefetch |-> IF on("parallel_data_prefetch") THEN pack.knobs.prefetch ELSE 1,
         chunk_target_records |->
            IF on("wide_context_chunks") THEN pack.knobs.chunk_target_records
            ELSE Least(4096, pack.knobs.chunk_target_records)]
=============================================================================
