----------------------------- MODULE MCAutoTrain -----------------------------
EXTENDS AutoTrain, TLC

MCIndexBucket == [i \in 1..70 |-> ((i - 1) * 37 + 5) % 100]
MCContextBucket == [c \in 0..7 |-> (c * 13 + 3) % 100]

Repeat(n, f(_)) == [i \in 1..n |-> f(i)]

Base == [folder |-> FALSE, streamable |-> TRUE, plain |-> TRUE, size |-> 1, guess |-> 0, features |-> 4,
         preview |-> 20, hint |-> "none", numeric |-> TRUE, integral |-> TRUE,
         timeLike |-> FALSE, group |-> <<>>]

MCSources ==
    LET three(i) == IF i < 4 THEN 9 ELSE i % 2   two(i) == i % 2   distinct(i) == i * 7   eight(i) == i % 8
        late(i) == IF i > 20 THEN i ELSE 1
    IN  [classes   |-> [labels |-> Repeat(48, three)] @@ Base,
         series    |-> [labels |-> Repeat(40, distinct), timeLike |-> TRUE] @@ Base,
         users     |-> [labels |-> Repeat(64, two), group |-> Repeat(64, eight)] @@ Base,
         visits    |-> [labels |-> Repeat(44, two), group |-> Repeat(44, eight),
                        timeLike |-> TRUE, preview |-> 0] @@ Base,
         archive   |-> [labels |-> Repeat(70, late), folder |-> TRUE, guess |-> 300,
                        features |-> 600] @@ Base,
         large     |-> [labels |-> Repeat(70, distinct), size |-> 200, guess |-> 66] @@ Base,
         arrays    |-> [labels |-> Repeat(48, two), streamable |-> FALSE, plain |-> FALSE, size |-> 300,
                        features |-> 6291456, hint |-> "binary_classification"] @@ Base,
         few       |-> [labels |-> Repeat(39, two)] @@ Base]

Plain == [o \in {} |-> 0]
Call(e, v) == [explicit |-> e, settings |-> Plain, engine |-> Plain, environment |-> v,
               config |-> Plain, model |-> "none"]

MCRequests ==
    LET outside == [threads |-> 9, prefetch |-> 5, cpu |-> 90]
    IN  {Call(e, Plain) :
            e \in {Plain, [algorithm_pack |-> "mine", prefetch |-> 3],
                   [batch_size |-> 4, gpu |-> 30, execution |-> "hybrid",
                    target_metric |-> 300, max_steps |-> 200],
                   [backend |-> "numpy", task |-> "regression", architecture |-> "mlp"],
                   [algorithm_pack |-> "maximum", batch_size |-> 12, ram |-> 95]}}
        \cup {Call(Plain, outside),
              Call([profile |-> "performance", threads |-> 2, cpu |-> 40, target_metric |-> 1000],
                   outside),
              [Call([cpu |-> 50], [cpu |-> 60, ram |-> 60, batch_size |-> 12]) EXCEPT
                !.config = [cpu |-> 30, ram |-> 30, gpu |-> 0]],
              [Call([prefetch |-> 7], [prefetch |-> 5, threads |-> 4]) EXCEPT
                !.settings = [profile |-> "low-memory", prefetch |-> 6],
                !.engine = [threads |-> 1, prefetch |-> 4], !.model = "npz"]}

Direct ==
    [dataset |-> "series", mode |-> "memory", objective |-> "regression", backend |-> "numpy",
     accept |-> FALSE, batch_mode |-> "auto", split_policy |-> "random"] @@ Defaults

MCDirectConfigs ==
    {[target_metric |-> 920] @@ Direct,
     [target_metric |-> 920, dataset |-> "classes", objective |-> "multiclass_classification",
      algorithm_pack |-> "mine", cpu |-> 400, batch_mode |-> "manual", batch_size |-> 5000,
      accept |-> TRUE] @@ Direct,
     [target_metric |-> 920, dataset |-> "classes", objective |-> "binary_classification"] @@ Direct}

MCHardware == [cpu_threads |-> 4, gpu |-> TRUE, ram_gb |-> 8]
MCOverrides == {NoOverrides, [prefetch |-> 40, chunk_target_records |-> 100, bulk_step_cap |-> 5]}
=============================================================================
