------------------------------ MODULE ChunkPlan ------------------------------
(***************************************************************************)
(* The chunk plan of a data set (planning.py, ContextChunkPlanner): ranges *)
(* of varying size that cover the records one after the other.  The loop   *)
(* of chunk_ranges() is a state machine, one range a step.  The size is    *)
(* taken from a hash of the seed and the range's number; the hash may be   *)
(* any member of Hashes.  The native policy computes the same size.        *)
(***************************************************************************)
EXTENDS Integers, Sequences

CONSTANT Hashes     \* the hashes of (seed, sequence) that occur

ASSUME HashesAssumption == Hashes \subseteq Nat

VARIABLES
    limits,     \* [target, minimum, maximum]: the planner's limits
    total,      \* the records to cover
    ranges,     \* the half-open ranges planned so far
    remaining   \* remaining_records of the loop

chunkVars == <<limits, total, ranges, remaining>>

Lesser(a, b)  == IF a < b THEN a ELSE b
Greater(a, b) == IF a > b THEN a ELSE b

ChunkLimits(target) ==
    [target |-> target, minimum |-> (target * 3) \div 4, maximum |-> (target * 5) \div 4]

\* What the constructor accepts.
LimitsAccepted(l) ==
    /\ l.target > 0 /\ l.minimum > 0
    /\ l.minimum <= l.target /\ l.target <= l.maximum

\* The size without the bound of what is left.
ChunkSize_Mutation(l, left, hash) ==
    LET lower == Lesser(Greater((l.target * 3) \div 4, l.minimum), l.maximum)
        upper == Lesser(Greater((l.target * 5) \div 4, lower), l.maximum)
        proposed == lower + (hash % (upper - lower + 1))
    IN  Greater(proposed, Lesser(left, l.minimum))

\* _fallback_chunk_size(): a size between the limits, the rest of the data at most,
\* and never a rest below the minimum split any further.
ChunkSize(l, left, hash) ==
    LET lower == Lesser(Greater((l.target * 3) \div 4, l.minimum), l.maximum)
        upper == Lesser(Greater((l.target * 5) \div 4, lower), l.maximum)
        proposed == lower + (hash % (upper - lower + 1))
    IN  Greater(Lesser(proposed, left), Lesser(left, l.minimum))

NoPlan == /\ limits = ChunkLimits(128) /\ total = 0
          /\ ranges = <<>> /\ remaining = 0

ChunkStart(l, records) ==
    /\ LimitsAccepted(l)
    /\ records >= 0
    /\ limits' = l
    /\ total' = records
    /\ ranges' = <<>>
    /\ remaining' = records

ChunkNext ==
    /\ remaining # 0
    /\ \E hash \in Hashes :
        LET size  == ChunkSize(limits, remaining, hash)
            start == total - remaining
        IN  /\ ranges' = Append(ranges, [start |-> start, stop |-> start + size])
            /\ remaining' = remaining - size
    /\ UNCHANGED <<limits, total>>

\* The chunk plans of all data sets under all accepted limits, one after the other.
ChunkSpec ==
    /\ NoPlan
    /\ [][ \/ ChunkNext
           \/ \E l \in [target : Nat, minimum : Nat, maximum : Nat], n \in Nat :
                ChunkStart(l, n) ]_chunkVars

-----------------------------------------------------------------------------

ChunkTypeOK ==
    /\ limits \in [target : Nat, minimum : Nat, maximum : Nat]
    /\ LimitsAccepted(limits)
    /\ total \in Nat /\ remaining \in Nat
    /\ ranges \in Seq([start : Nat, stop : Nat])

\* The ranges follow each other without a gap or an overlap from the first record
\* to the first one not planned yet, so that at the end they cover exactly the
\* records; no range is empty or above the limit, and only the last one may be
\* below it.
ChunksCover ==
    /\ remaining >= 0
    /\ ranges = <<>> => remaining = total
    /\ ranges # <<>> => /\ ranges[1].start = 0
                        /\ ranges[Len(ranges)].stop = total - remaining
    /\ \A i \in 1..Len(ranges) :
        LET size == ranges[i].stop - ranges[i].start IN
        /\ size > 0 /\ size <= limits.maximum
        /\ (remaining > 0 \/ i < Len(ranges)) => size >= limits.minimum
    /\ \A i \in 1..Len(ranges) - 1 : ranges[i].stop = ranges[i + 1].start
=============================================================================
