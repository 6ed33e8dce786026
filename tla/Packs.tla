-------------------------------- MODULE Packs --------------------------------
(***************************************************************************)
(* Algorithm packs (packs.py) and the names that lead to them             *)
(* (hardware.py): the immutable built-in packs, the records users clone    *)
(* from them, and the policy a pack stands for.  Memory is in MiB, the     *)
(* share of threads in percent; labels and strategy texts are left out.    *)
(***************************************************************************)
EXTENDS Integers, FiniteSets

BuiltinNames == {"careful", "balanced", "throughput", "maximum"}

PACK_ALGORITHMS ==
    {"bulk_training_dispatch", "thread_parallel_gradient", "parallel_data_prefetch",
     "wide_context_chunks", "expanded_tensor_arena"}

Unlimited == 1000000000     \* 2^63 - 1 bytes
Million   == 1000000

\* What a pack may tune, with the range an override is accepted in.
OverrideRule ==
    [data_workers |-> 0..64, prefetch |-> 1..64, stream_limit |-> 1..Unlimited,
     native_thread_fraction |-> 5..100, bulk_step_cap |-> 1..10000,
     arena_bytes |-> 8..8192, chunk_target_records |-> 32..Million]
Knobs == DOMAIN OverrideRule

BUILTIN_ALGORITHM_PACKS ==
    [careful |->
        [profile |-> "low-memory", algorithms |-> {"bulk_training_dispatch"},
         knobs |-> [data_workers |-> 0, prefetch |-> 1, stream_limit |-> 128,
                    native_thread_fraction |-> 35, bulk_step_cap |-> 8,
                    arena_bytes |-> 32, chunk_target_records |-> 1024]],
     balanced |->
        [profile |-> "balanced",
         algorithms |-> {"bulk_training_dispatch", "thread_parallel_gradient",
                         "parallel_data_prefetch"},
         knobs |-> [data_workers |-> 2, prefetch |-> 2, stream_limit |-> 256,
                    native_thread_fraction |-> 60, bulk_step_cap |-> 32,
                    arena_bytes |-> 96, chunk_target_records |-> 4096]],
     throughput |->
        [profile |-> "performance", algorithms |-> PACK_ALGORITHMS,
         knobs |-> [data_workers |-> 6, prefetch |-> 4, stream_limit |-> 384,
                    native_thread_fraction |-> 85, bulk_step_cap |-> 100,
                    arena_bytes |-> 256, chunk_target_records |-> 16384]],
     maximum |->
        [profile |-> "workstation", algorithms |-> PACK_ALGORITHMS,
         knobs |-> [data_workers |-> 12, prefetch |-> 8, stream_limit |-> Unlimited,
                    native_thread_fraction |-> 100, bulk_step_cap |-> 100,
                    arena_bytes |-> 768, chunk_target_records |-> 65536]]]

\* A record of the user table; a table maps the names of user packs to records.
ValidOverrides(o) ==
    /\ DOMAIN o \subseteq Knobs
    /\ \A k \in DOMAIN o : o[k] \in OverrideRule[k]
NoOverrides == [k \in {} |-> 0]

ValidRecord(r) ==
    /\ r.base \in BuiltinNames
    /\ r.algorithms \subseteq PACK_ALGORITHMS
    /\ ValidOverrides(r.overrides)

\* An algorithm that is off takes its knobs back to the value they have without it.
AtMost(cap, value) == IF value > cap THEN cap ELSE value

ApplyAlgorithmEffects(knobs, on) ==
    [knobs EXCEPT
        !.bulk_step_cap = IF "bulk_training_dispatch" \in on THEN @ ELSE 1,
        !.data_workers = IF "parallel_data_prefetch" \in on THEN @ ELSE 0,
        !.prefetch = IF "parallel_data_prefetch" \in on THEN @ ELSE 1,
        !.chunk_target_records =
            IF "wide_context_chunks" \in on THEN @ ELSE AtMost(4096, @),
        !.arena_bytes = IF "expanded_tensor_arena" \in on THEN @ ELSE AtMost(96, @)]

Known(table, name) == name \in BuiltinNames \cup DOMAIN table

\* The pack a known name stands for: the knobs of its base, the user's values over
\* them, and then the effects of the algorithms that are off.
GetAlgorithmPack(table, name) ==
    LET own  == name \in BuiltinNames
        base == IF own THEN name ELSE table[name].base
        algorithms == IF own THEN BUILTIN_ALGORITHM_PACKS[name].algorithms
                      ELSE table[name].algorithms
        knobs == BUILTIN_ALGORITHM_PACKS[base].knobs
        chosen == IF own THEN knobs
                  ELSE [k \in Knobs |-> IF k \in DOMAIN table[name].overrides
                                        THEN table[name].overrides[k] ELSE knobs[k]]
    IN  [name |-> name, base |-> base, algorithms |-> algorithms,
         profile |-> BUILTIN_ALGORITHM_PACKS[base].profile,
         knobs |-> ApplyAlgorithmEffects(chosen, algorithms)]

-----------------------------------------------------------------------------
(* The edits of the table.  A clone takes the base and the algorithms of     *)
(* its source, not the values the source overrides.                          *)

CloneRefused(table, name, source) ==
    name \in BuiltinNames \/ name \in DOMAIN table \/ ~Known(table, source)

Cloned(table, name, source, overrides) ==
    [n \in DOMAIN table \cup {name} |->
        IF n \in DOMAIN table THEN table[n]
        ELSE [base |-> GetAlgorithmPack(table, source).base,
              algorithms |-> GetAlgorithmPack(table, source).algorithms,
              overrides |-> overrides]]

WithAlgorithm(table, name, a)    == [table EXCEPT ![name].algorithms = @ \cup {a}]
WithoutAlgorithm(table, name, a) == [table EXCEPT ![name].algorithms = @ \ {a}]
Deleted(table, name) == [n \in DOMAIN table \ {name} |-> table[n]]

-----------------------------------------------------------------------------
(* Names: a stored profile of an older release names a built-in pack, and   *)
(* does so before the user's table is consulted.                            *)

LegacyProfilePack ==
    [x \in {"auto", "eco", "low-memory", "balanced", "performance", "workstation", "custom"} |->
        CASE x \in {"eco", "low-memory"} -> "careful"
          [] x = "performance" -> "throughput"
          [] x = "workstation" -> "maximum"
          [] OTHER -> "balanced"]

Resolvable(table, value) == value \in DOMAIN LegacyProfilePack \/ Known(table, value)

ResolveAlgorithmPack(value) ==
    IF value \in DOMAIN LegacyProfilePack THEN LegacyProfilePack[value] ELSE value

\* The profile that stands for a pack in records; for a user pack, that of its base.
LegacyProfileForPack(table, pack) ==
    GetAlgorithmPack(table, ResolveAlgorithmPack(pack)).profile
=============================================================================
