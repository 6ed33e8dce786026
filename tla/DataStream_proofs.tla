-------------------------- MODULE DataStream_proofs --------------------------
(***************************************************************************)
(* The data of a run, for every value of the constants.                    *)
(* ChunkPlan: the loop of chunk_ranges() covers the records exactly.       *)
(* PrefetchStream: the rows that were read ahead are the ones that follow  *)
(* the last row trained on.  Each item that is taken, queued or held is    *)
(* the next row, or the failure that ended the reader (OrderInv), while    *)
(* there is no reader to join (ProducerInv).                               *)
(* AutoTrain: an accepted plan is created as it is, with a batch that fits *)
(* (PlanInv), and the split its worker trains on leaks nothing (LeakInv).  *)
(***************************************************************************)
EXTENDS AutoTrain, PrefetchStream, SequenceTheorems, FiniteSetTheorems, TLAPS

-----------------------------------------------------------------------------
(* The chunk plan.                                                         *)

Limits == [target : Nat, minimum : Nat, maximum : Nat]

\* The size that chunk_ranges() would otherwise refuse ("invalid size") cannot occur.
LEMMA SizeIsValid ==
    ASSUME NEW l \in Limits, LimitsAccepted(l),
           NEW left \in Nat, left # 0, NEW hash \in Nat
    PROVE  LET size == ChunkSize(l, left, hash)
           IN  /\ size \in 1..left
               /\ size <= l.maximum
               /\ size < left => size >= l.minimum
<1> DEFINE lower == Lesser(Greater((l.target * 3) \div 4, l.minimum), l.maximum)
           upper == Lesser(Greater((l.target * 5) \div 4, lower), l.maximum)
           proposed == lower + (hash % (upper - lower + 1))
<1>1. /\ l.target \in Nat /\ l.minimum \in Nat /\ l.maximum \in Nat
      /\ l.minimum > 0 /\ l.minimum <= l.maximum
  BY DEF Limits, LimitsAccepted
<1>2. /\ lower \in Nat /\ l.minimum <= lower /\ lower <= l.maximum
  <2>1. (l.target * 3) \div 4 \in Nat
    BY <1>1
  <2> QED  BY <1>1, <2>1 DEF Lesser, Greater
<1>3. /\ upper \in Nat /\ lower <= upper /\ upper <= l.maximum
  <2>1. (l.target * 5) \div 4 \in Nat
    BY <1>1
  <2> HIDE DEF lower
  <2> QED  BY <1>1, <1>2, <2>1 DEF Lesser, Greater
<1>4. hash % (upper - lower + 1) \in 0..(upper - lower)
  <2> HIDE DEF lower, upper
  <2> DEFINE d == upper - lower + 1
  <2>1. d \in Nat /\ d > 0
    BY <1>2, <1>3
  <2>2. hash % d \in 0..(d - 1)
    <3> HIDE DEF d
    <3> QED  BY <2>1
  <2> QED  BY <1>2, <1>3, <2>2
<1>5. proposed \in Nat /\ l.minimum <= proposed /\ proposed <= l.maximum
  <2> HIDE DEF lower, upper
  <2> QED  BY <1>1, <1>2, <1>3, <1>4
<1>6. ChunkSize(l, left, hash) = Greater(Lesser(proposed, left), Lesser(left, l.minimum))
  BY DEF ChunkSize
<1> HIDE DEF proposed
<1> QED  BY <1>1, <1>5, <1>6 DEF Lesser, Greater

ChunkInv == ChunkTypeOK /\ ChunksCover

\* No plan is a plan of nothing.
LEMMA ChunkInit == NoPlan => ChunkInv
<1> SUFFICES ASSUME NoPlan PROVE ChunkInv
  OBVIOUS
<1>1. limits = [target |-> 128, minimum |-> 96, maximum |-> 160]
  BY DEF NoPlan, ChunkLimits
<1>2. Len(ranges) = 0 /\ ranges \in Seq([start : Nat, stop : Nat])
  BY DEF NoPlan
<1> QED  BY <1>1, <1>2 DEF NoPlan, ChunkInv, ChunkTypeOK, ChunksCover, LimitsAccepted

\* A plan that starts has all records left and accepted limits.
LEMMA ChunkStartKeeps ==
    ASSUME NEW l \in Limits, NEW n \in Nat, ChunkStart(l, n)
    PROVE  ChunkInv'
<1>1. Len(ranges') = 0 /\ ranges' \in Seq([start : Nat, stop : Nat])
  BY DEF ChunkStart
<1> QED  BY <1>1 DEF ChunkStart, ChunkInv, ChunkTypeOK, ChunksCover, Limits

\* A chunk continues where the last one ended and takes no more than is left.
LEMMA ChunkNextKeeps ==
    ASSUME ChunkInv, ChunkNext
    PROVE  ChunkInv'
<1> USE DEF ChunkInv
<1> PICK hash \in Hashes :
        LET size  == ChunkSize(limits, remaining, hash)
            start == total - remaining
        IN  /\ ranges' = Append(ranges, [start |-> start, stop |-> start + size])
            /\ remaining' = remaining - size
  BY DEF ChunkNext
<1> DEFINE size  == ChunkSize(limits, remaining, hash)
           new   == [start |-> total - remaining, stop |-> total - remaining + size]
<1>1. limits \in Limits /\ LimitsAccepted(limits) /\ remaining \in Nat /\ remaining # 0
  BY DEF ChunkTypeOK, ChunkNext, Limits
<1>2. /\ size \in 1..remaining /\ size <= limits.maximum
      /\ size < remaining => size >= limits.minimum
  BY <1>1, SizeIsValid, HashesAssumption
<1>3. ranges' = Append(ranges, new) /\ remaining' = remaining - size
  OBVIOUS
<1>4. limits' = limits /\ total' = total
  BY DEF ChunkNext
<1> HIDE DEF size
<1>5. remaining <= total
  <2>1. CASE ranges = <<>>
    BY <2>1 DEF ChunksCover, ChunkTypeOK
  <2>2. CASE ranges # <<>>
    <3>0. ranges \in Seq([start : Nat, stop : Nat])
      BY DEF ChunkTypeOK
    <3>1. Len(ranges) \in 1..Len(ranges)
      BY <2>2, <3>0, EmptySeq, LenProperties
    <3>2. ranges[Len(ranges)] \in [start : Nat, stop : Nat]
      BY <3>0, <3>1, ElementOfSeq, Zenon
    <3>3. ranges[Len(ranges)].stop \in Nat
      BY <3>2
    <3>4. ranges[Len(ranges)].stop = total - remaining
      BY <2>2 DEF ChunksCover
    <3> QED  BY <3>3, <3>4 DEF ChunkTypeOK
  <2> QED  BY <2>1, <2>2
<1>6. new \in [start : Nat, stop : Nat]
  BY <1>1, <1>2, <1>5 DEF ChunkTypeOK
<1>7. /\ ranges' \in Seq([start : Nat, stop : Nat])
      /\ Len(ranges') = Len(ranges) + 1
      /\ \A i \in 1..Len(ranges) : ranges'[i] = ranges[i]
      /\ ranges'[Len(ranges) + 1] = new
      /\ Len(ranges) \in Nat
  BY <1>3, <1>6, AppendProperties, LenProperties DEF ChunkTypeOK
<1>8. ChunkTypeOK'
  BY <1>1, <1>2, <1>3, <1>4, <1>7 DEF ChunkTypeOK, LimitsAccepted
<1>9. ChunksCover'
  <2>0. remaining' >= 0
    BY <1>1, <1>2, <1>3
  <2>1. ranges' # <<>>
    BY <1>7
  <2>2. ranges'[1].start = 0
    <3>1. CASE ranges = <<>>
      <4>1. Len(ranges) = 0
        BY <3>1
      <4> QED  BY <1>7, <3>1, <4>1 DEF ChunksCover, ChunkTypeOK
    <3>2. CASE ranges # <<>>
      <4>1. Len(ranges) > 0
        BY <3>2, <1>7, EmptySeq DEF ChunkTypeOK
      <4> QED  BY <1>7, <3>2, <4>1 DEF ChunksCover
    <3> QED  BY <3>1, <3>2
  <2>3. ranges'[Len(ranges')].stop = total' - remaining'
    <3>1. ranges'[Len(ranges')] = new
      BY <1>7
    <3>2. new.stop = total - remaining + size
      OBVIOUS
    <3>3. total - remaining + size = total - (remaining - size)
      BY <1>1, <1>2 DEF ChunkTypeOK
    <3> QED  BY <1>3, <1>4, <3>1, <3>2, <3>3
  <2>4. ASSUME NEW i \in 1..Len(ranges')
        PROVE  LET s == ranges'[i].stop - ranges'[i].start IN
               /\ s > 0 /\ s <= limits'.maximum
               /\ (remaining' > 0 \/ i < Len(ranges')) => s >= limits'.minimum
    <3>1. CASE i \in 1..Len(ranges)
      BY <1>1, <1>4, <1>7, <3>1 DEF ChunksCover
    <3>2. CASE i = Len(ranges) + 1
      <4>1. ranges'[i].stop - ranges'[i].start = size
        BY <1>1, <1>2, <1>7, <3>2 DEF ChunkTypeOK
      <4> QED  BY <1>1, <1>2, <1>3, <1>4, <1>7, <3>2, <4>1
    <3> QED  BY <1>7, <3>1, <3>2
  <2>5. ASSUME NEW i \in 1..Len(ranges') - 1
        PROVE  ranges'[i].stop = ranges'[i + 1].start
    <3>1. CASE i \in 1..Len(ranges) - 1
      <4>1. i \in 1..Len(ranges) /\ i + 1 \in 1..Len(ranges)
        BY <1>7, <3>1
      <4>2. ranges[i].stop = ranges[i + 1].start
        BY <3>1 DEF ChunksCover
      <4> QED  BY <1>7, <4>1, <4>2
    <3>2. CASE i = Len(ranges)
      <4>1. ranges # <<>>
        BY <1>7, <3>2
      <4> QED  BY <1>7, <3>2, <4>1 DEF ChunksCover
    <3> QED  BY <1>7, <3>1, <3>2
  <2> QED  BY <2>0, <2>1, <2>2, <2>3, <2>4, <2>5 DEF ChunksCover
<1> QED  BY <1>8, <1>9

\* chunk_ranges() plans ranges that cover the records exactly, each of an allowed
\* size, whatever the limits it accepted and the hashes it meets.
THEOREM ChunksAlwaysCover == ChunkSpec => []ChunksCover
<1> USE DEF ChunkInv
<1>1. NoPlan => ChunkInv
  BY ChunkInit
<1>2. ASSUME ChunkInv,
             [ \/ ChunkNext
               \/ \E l \in [target : Nat, minimum : Nat, maximum : Nat], n \in Nat :
                    ChunkStart(l, n) ]_chunkVars
      PROVE  ChunkInv'
  <2>1. CASE ChunkNext
    BY <1>2, <2>1, ChunkNextKeeps
  <2>2. CASE \E l \in [target : Nat, minimum : Nat, maximum : Nat], n \in Nat :
                ChunkStart(l, n)
    BY <2>2, ChunkStartKeeps DEF Limits
  <2>3. CASE UNCHANGED chunkVars
    BY <1>2, <2>3 DEF chunkVars, ChunkTypeOK, ChunksCover, LimitsAccepted
  <2> QED  BY <1>2, <2>1, <2>2, <2>3
<1> QED  BY <1>1, <1>2, PTL DEF ChunkSpec

-----------------------------------------------------------------------------
(* The rows read ahead.                                                    *)

\* The row a reader that began with the first one yields after a number of others.
At(count) == count % TrainRows

\* The reader has failed: what ends what is read is no row.
Failed(items) == items # <<>> /\ items[Len(items)] = Broken

\* The rows among what is read.
Count(items) == IF Failed(items) THEN Len(items) - 1 ELSE Len(items)

\* Where nothing has to be joined and the reader has not failed in a call.
InUse == consumer \in {"idle", "getting"}
Settled == InUse /\ reader = "sound"

\* Nothing follows an error that next_batch() has raised: its producer is never replaced.
SpentInv ==
    /\ queue = <<>> /\ held = <<>> /\ producer # "running"
    /\ prefetch > 0 /\ InUse => producer # "none"
    /\ consumer = "getting" => values = <<>>

ProducerInv ==
    /\ prefetch = 0 => producer = "none"
    /\ producer = "none" => queue = <<>> /\ held = <<>>
    /\ Settled => ~stop
    /\ consumer = "getting" => Len(values) < want /\ consumed + want <= MaxRows
    /\ reader # "sound" => SpentInv

\* The rows counted and taken: those before the first one in the queue.
Base == consumed + Len(Taken)

\* The items one by one: every one is the next row, or the failure that ended the reader.
TakenInv == \A i \in 1..Len(Taken) : Taken[i] = At(consumed + i - 1)

QueueInv ==
    \A i \in 1..Len(queue) :
       \/ queue[i] = Broken /\ i = Len(queue) /\ held = <<>> /\ producer # "running"
       \/ queue[i] = At(Base + i - 1)

HeldInv ==
    \/ held = <<Broken>> /\ ~Failed(queue)
    \/ \A i \in 1..Len(held) : held[i] = At(Base + Len(queue) + i - 1)

CursorInv == cursor = At(Base + Count(queue) + Count(held))

OrderInv == Settled => TakenInv /\ QueueInv /\ HeldInv /\ CursorInv

StreamInv == StreamTypeOK /\ ProducerInv /\ OrderInv

\* The rest of a division is unique, so that it can be taken before or after an addition.
LEMMA Remainder ==
    ASSUME NEW d \in Nat \ {0}, NEW p \in Int, NEW q \in Int, NEW r \in 0..(d - 1),
           NEW s \in 0..(d - 1), d * p + r = d * q + s
    PROVE  r = s
<1>1. d * (p - q) = s - r
  OBVIOUS
<1>2. CASE p - q >= 1
  <2>1. d * (p - q) >= d
    BY <1>2
  <2>. QED
    BY <1>1, <2>1
<1>3. CASE p - q <= -1
  <2>1. d * (p - q) <= -d
    BY <1>3
  <2>. QED
    BY <1>1, <2>1
<1>4. CASE p - q = 0
  BY <1>1, <1>4
<1>. QED
  BY <1>2, <1>3, <1>4

\* What integer division means.
LEMMA Division ==
    ASSUME NEW d \in Nat \ {0}, NEW a \in Nat
    PROVE  a \div d \in Int /\ a % d \in 0..(d - 1) /\ a = d * (a \div d) + (a % d)
  OBVIOUS

\* The rows of the training part are read round and round.
LEMMA AtAdds ==
    ASSUME NEW a \in Nat, NEW b \in Nat
    PROVE  At(a) \in Row /\ (At(a) + b) % TrainRows = At(a + b)
<1>. PICK d : d = TrainRows
  OBVIOUS
<1>0. d \in Nat \ {0}
  BY StreamAssumption
<1>. DEFINE q == a \div d
            r == a % d
            p == (r + b) \div d
            s == (r + b) % d
            u == (a + b) \div d
            t == (a + b) % d
<1>1. a + b \in Nat
  OBVIOUS
<1>2. q \in Int /\ r \in 0..(d - 1) /\ a = d * q + r
  BY <1>0, Division
<1>. HIDE DEF q, r
<1>3. p \in Int /\ s \in 0..(d - 1) /\ r + b = d * p + s
  <2>1. r + b \in Nat
    BY <1>0, <1>2
  <2>. QED
    BY <1>0, <2>1, Division
<1>4. u \in Int /\ t \in 0..(d - 1) /\ a + b = d * u + t
  BY <1>0, <1>1, Division
<1>. HIDE DEF p, s, u, t
<1>5. d * (q + p) + s = d * u + t
  <2>1. d * (q + p) = d * q + d * p
    BY <1>0, <1>2, <1>3
  <2>. DEFINE dq == d * q
              dp == d * p
              du == d * u
  <2>2. dq \in Int /\ dp \in Int /\ du \in Int
    BY <1>0, <1>2, <1>3, <1>4
  <2>3. a = dq + r /\ r + b = dp + s /\ a + b = du + t
    BY <1>2, <1>3, <1>4
  <2>. SUFFICES dq + dp + s = du + t
    BY <1>2, <1>3, <2>1
  <2>. HIDE DEF dq, dp, du
  <2>. QED
    BY <1>0, <1>1, <1>2, <1>3, <1>4, <2>2, <2>3
<1>6. s = t
  <2>1. q + p \in Int
    BY <1>2, <1>3
  <2>. QED
    BY <1>0, <1>3, <1>4, <1>5, <2>1, Remainder
<1>. QED
  BY <1>2, <1>6 DEF At, Row, r, s, t

\* The rows that are read from a row on.
LEMMA RowsFromIs ==
    ASSUME NEW c \in Nat, NEW n \in Nat
    PROVE  /\ RowsFrom(At(c), n) \in Seq(Row) /\ Len(RowsFrom(At(c), n)) = n
           /\ \A i \in 1..n : RowsFrom(At(c), n)[i] = At(c + i - 1)
<1>. DEFINE s == RowsFrom(At(c), n)
<1>1. s = [i \in 1..n |-> (At(c) + i - 1) % TrainRows]
  BY DEF RowsFrom
<1>2. ASSUME NEW i \in 1..n
      PROVE  s[i] = At(c + i - 1) /\ s[i] \in Row
  <2>1. i - 1 \in Nat /\ c + (i - 1) = c + i - 1 /\ c + i - 1 \in Nat
    OBVIOUS
  <2>2. At(c) \in Nat
    BY AtAdds, StreamAssumption DEF Row
  <2>3. At(c) + (i - 1) = At(c) + i - 1
    BY <2>2
  <2>4. (At(c) + (i - 1)) % TrainRows = At(c + (i - 1))
    BY <2>1, AtAdds
  <2>5. At(c + (i - 1)) \in Row
    BY <2>1, AtAdds
  <2>. HIDE DEF s
  <2>. QED
    BY <1>1, <2>1, <2>3, <2>4, <2>5
<1>. HIDE DEF s
<1>3. s \in [1..n -> Row]
  BY <1>1, <1>2
<1>4. s \in Seq(Row)
  BY <1>3
<1>5. Len(s) = n
  BY <1>1, <1>4, <1>3
<1>. QED
  BY <1>2, <1>4, <1>5 DEF s

\* A place in the endless reading is a row, and never the failure.
LEMMA AtIsRow ==
    ASSUME NEW c \in Nat
    PROVE  At(c) \in Row /\ At(c) # Broken /\ At(c) \in Item
<1>1. At(c) \in Row
  BY AtAdds
<1>. QED
  BY <1>1, StreamAssumption DEF Row, Item

\* A queue of rows that a failure may end.
LEMMA ItemsAre ==
    ASSUME NEW s \in Seq(Item)
    PROVE  /\ Len(s) \in Nat /\ Count(s) \in Nat
           /\ s = <<>> <=> Len(s) = 0
           /\ \A i \in 1..Len(s) : s[i] \in Item
           /\ ~Failed(s) => Count(s) = Len(s)
           /\ Failed(s) => Len(s) > 0 /\ s[Len(s)] = Broken /\ Count(s) = Len(s) - 1
           /\ s = <<>> => ~Failed(s)
<1>1. Len(s) \in Nat /\ (s = <<>> <=> Len(s) = 0)
  BY EmptySeq, LenProperties
<1>2. \A i \in 1..Len(s) : s[i] \in Item
  BY ElementOfSeq
<1>. QED
  BY <1>1, <1>2 DEF Count, Failed

\* Taking the first item moves the others up by one.
LEMMA ItemsMove ==
    ASSUME NEW s \in Seq(Item), s # <<>>
    PROVE  /\ Head(s) = s[1] /\ Head(s) \in Item
           /\ Tail(s) \in Seq(Item) /\ Len(Tail(s)) = Len(s) - 1
           /\ \A i \in 1..(Len(s) - 1) : Tail(s)[i] = s[i + 1]
           /\ Failed(Tail(s)) <=> Len(s) > 1 /\ Failed(s)
<1>1. Len(s) \in Nat /\ Len(s) > 0 /\ s[1] \in Item
  BY ItemsAre
<1>2. /\ Head(s) = s[1] /\ Tail(s) \in Seq(Item) /\ Len(Tail(s)) = Len(s) - 1
      /\ \A i \in 1..(Len(s) - 1) : Tail(s)[i] = s[i + 1]
  BY <1>1, HeadTailProperties
<1>3. Failed(Tail(s)) <=> Len(s) > 1 /\ Failed(s)
  BY <1>1, <1>2, ItemsAre DEF Failed
<1>. QED
  BY <1>1, <1>2, <1>3

\* Appending an item leaves the others where they are.
LEMMA ItemsGrow ==
    ASSUME NEW S, NEW s \in Seq(S), NEW x \in S
    PROVE  /\ Append(s, x) \in Seq(S) /\ Len(Append(s, x)) = Len(s) + 1 /\ Len(s) \in Nat
           /\ \A i \in 1..Len(s) : Append(s, x)[i] = s[i]
           /\ Append(s, x)[Len(s) + 1] = x
           /\ Append(s, x) # <<>>
  BY AppendProperties, LenProperties

\* What the type invariant says of the numbers the proofs count with.
LEMMA Typed ==
    ASSUME StreamTypeOK
    PROVE  /\ Base \in Nat /\ consumed \in Nat /\ saved \in Nat /\ Len(values) \in Nat
           /\ Taken \in Seq(Row) /\ Len(Taken) \in Nat
           /\ Len(queue) \in Nat /\ Len(held) \in Nat /\ Count(queue) \in Nat /\ Count(held) \in Nat
           /\ TrainRows \in Nat \ {0}
<1>1. consumed \in Nat /\ saved \in Nat
  BY StreamAssumption DEF StreamTypeOK
<1>2. Taken \in Seq(Row) /\ Len(Taken) \in Nat /\ Len(values) \in Nat
  BY LenProperties, EmptySeq DEF StreamTypeOK, Taken
<1>. QED
  BY <1>1, <1>2, ItemsAre, StreamAssumption DEF StreamTypeOK, Base

\* While the reader runs, what is queued are rows.
LEMMA QueueIsRows ==
    ASSUME StreamInv, Settled, producer = "running"
    PROVE  ~Failed(queue) /\ \A i \in 1..Len(queue) : queue[i] = At(Base + i - 1)
<1>1. \A i \in 1..Len(queue) : queue[i] = At(Base + i - 1)
  BY DEF StreamInv, OrderInv, QueueInv
<1>2. ~Failed(queue)
  <2>. SUFFICES ASSUME Failed(queue) PROVE FALSE
    OBVIOUS
  <2>1. Len(queue) \in 1..Len(queue) /\ queue[Len(queue)] = Broken /\ Base + Len(queue) - 1 \in Nat
    BY ItemsAre, Typed DEF StreamInv, StreamTypeOK
  <2>. QED
    BY <1>1, <2>1, AtIsRow
<1>. QED
  BY <1>1, <1>2

\* What is held are rows, or the failure alone.
LEMMA HeldIs ==
    ASSUME StreamInv, Settled
    PROVE  \/ held = <<Broken>> /\ ~Failed(queue) /\ Count(held) = 0 /\ Len(held) = 1
           \/ /\ \A i \in 1..Len(held) : held[i] = At(Base + Len(queue) + i - 1) /\ held[i] # Broken
              /\ ~Failed(held) /\ Count(held) = Len(held)
<1>1. CASE held = <<Broken>> /\ ~Failed(queue)
  <2>1. Len(held) = 1 /\ held[1] = Broken /\ held # <<>>
    BY <1>1
  <2>. QED
    BY <1>1, <2>1 DEF Count, Failed
<1>2. CASE \A i \in 1..Len(held) : held[i] = At(Base + Len(queue) + i - 1)
  <2>1. ASSUME NEW i \in 1..Len(held) PROVE held[i] # Broken
    <3>1. Base + Len(queue) + i - 1 \in Nat
      BY Typed DEF StreamInv
    <3>. QED
      BY <1>2, <3>1, AtIsRow
  <2>2. ~Failed(held)
    BY <2>1, ItemsAre DEF StreamInv, StreamTypeOK, Failed
  <2>. QED
    BY <1>2, <2>1, <2>2 DEF Count
<1>. QED
  BY <1>1, <1>2 DEF StreamInv, OrderInv, HeldInv

\* The producer reads its next chunk of rows.
LEMMA ReadsKeep ==
    ASSUME StreamInv, ProducerReads
    PROVE  StreamInv'
<1>1. /\ StreamTypeOK /\ ProducerInv
  BY DEF StreamInv
<1>2. cursor \in Nat /\ chunk \in Nat /\ TrainRows \in Nat \ {0}
  BY <1>1, Typed DEF StreamTypeOK, Row
<1>3. cursor = At(cursor)
  <2>1. cursor \in 0..(TrainRows - 1)
    BY <1>1 DEF StreamTypeOK, Row
  <2>. QED
    BY <1>2, <2>1 DEF At
<1>4. /\ held' \in Seq(Row) /\ Len(held') = chunk
      /\ \A i \in 1..chunk : held'[i] = At(cursor + i - 1)
  BY <1>2, <1>3, RowsFromIs DEF ProducerReads
<1>5. cursor' = At(cursor + chunk) /\ cursor' \in Row
  <2>1. cursor' = At(cursor + chunk)
    BY DEF ProducerReads, At
  <2>. QED
    BY <1>2, <2>1, AtIsRow
<1>6. StreamTypeOK'
  <2>1. held' \in Seq(Item)
    BY <1>4 DEF Item
  <2>. QED
    BY <1>1, <1>5, <2>1 DEF ProducerReads, StreamTypeOK
<1>7. ProducerInv'
  BY <1>1 DEF ProducerReads, ProducerInv, Settled, InUse, SpentInv
<1>8. ASSUME Settled
      PROVE  (TakenInv /\ QueueInv /\ HeldInv /\ CursorInv)'
  <2>1. /\ Base' = Base /\ Taken' = Taken /\ queue' = queue /\ consumed' = consumed
        /\ producer = "running" /\ held = <<>>
    BY DEF ProducerReads, Base, Taken
  <2>2. ~Failed(queue) /\ \A i \in 1..Len(queue) : queue[i] = At(Base + i - 1)
    BY <1>8, <2>1, QueueIsRows
  <2>3. Base \in Nat /\ Len(queue) \in Nat /\ queue \in Seq(Item) /\ held \in Seq(Item)
    BY <1>1, Typed DEF StreamTypeOK
  <2>4. Count(queue) = Len(queue) /\ Count(held) = 0
    BY <2>1, <2>2, <2>3, ItemsAre
  <2>5. cursor = At(Base + Len(queue))
    BY <1>8, <2>3, <2>4 DEF StreamInv, OrderInv, CursorInv
  <2>6. ASSUME NEW i \in 1..chunk
        PROVE  held'[i] = At(Base + Len(queue) + i - 1)
    <3>. DEFINE k == Base + Len(queue)
                j == i - 1
    <3>1. k \in Nat /\ j \in Nat
      BY <2>3
    <3>2. (At(k) + j) % TrainRows = At(k + j)
      BY <3>1, AtAdds
    <3>3. At(cursor + j) = (At(k) + j) % TrainRows
      BY <2>5 DEF At
    <3>4. cursor + j = cursor + i - 1 /\ k + j = Base + Len(queue) + i - 1
      BY <1>2, <2>3
    <3>. QED
      BY <1>4, <3>2, <3>3, <3>4
  <2>7. cursor' = At(Base + Len(queue) + chunk)
    BY <1>2, <2>3, <2>5, AtAdds DEF ProducerReads
  <2>8. ~Failed(held')
    <3>1. \A i \in 1..chunk : held'[i] # Broken
      BY <1>2, <1>4, AtIsRow
    <3>. QED
      BY <1>2, <1>4, <3>1 DEF Failed
  <2>9. Count(held)' = chunk /\ Count(queue)' = Len(queue)
    BY <1>4, <2>1, <2>4, <2>8 DEF Count, Failed
  <2>10. TakenInv'
    BY <1>8, <2>1 DEF TakenInv, StreamInv, OrderInv, At
  <2>11. QueueInv'
    BY <2>1, <2>2 DEF QueueInv, At
  <2>12. HeldInv'
    BY <1>4, <2>1, <2>6 DEF HeldInv, At
  <2>13. CursorInv'
    BY <2>1, <2>7, <2>9 DEF CursorInv, At
  <2>. QED
    BY <2>10, <2>11, <2>12, <2>13
<1>9. OrderInv'
  BY <1>8 DEF OrderInv, Settled, InUse, ProducerReads
<1>. QED
  BY <1>6, <1>7, <1>9 DEF StreamInv

\* The producer fails to read, and hands the failure on.
LEMMA BreaksKeep ==
    ASSUME StreamInv, ProducerBreaks
    PROVE  StreamInv'
<1>1. /\ StreamTypeOK /\ ProducerInv
  BY DEF StreamInv
<1>2. held' = <<Broken>> /\ Len(held') = 1 /\ held'[1] = Broken /\ held' # <<>>
  BY DEF ProducerBreaks
<1>3. StreamTypeOK'
  <2>1. held' \in Seq(Item)
    BY <1>2 DEF Item
  <2>. QED
    BY <1>1, <2>1 DEF ProducerBreaks, StreamTypeOK
<1>4. ProducerInv'
  BY <1>1 DEF ProducerBreaks, ProducerInv, Settled, InUse, SpentInv
<1>5. ASSUME Settled
      PROVE  (TakenInv /\ QueueInv /\ HeldInv /\ CursorInv)'
  <2>1. /\ Base' = Base /\ Taken' = Taken /\ queue' = queue /\ consumed' = consumed
        /\ cursor' = cursor /\ producer = "running" /\ held = <<>>
    BY DEF ProducerBreaks, Base, Taken
  <2>2. ~Failed(queue) /\ \A i \in 1..Len(queue) : queue[i] = At(Base + i - 1)
    BY <1>5, <2>1, QueueIsRows
  <2>3. Count(held) = 0
    BY <1>1, <2>1, ItemsAre DEF StreamTypeOK
  <2>4. Count(held)' = 0 /\ Count(queue)' = Count(queue) /\ (~Failed(queue))'
    BY <1>2, <2>1, <2>2 DEF Count, Failed
  <2>5. cursor = At(Base + Count(queue) + Count(held))
    BY <1>5 DEF StreamInv, OrderInv, CursorInv
  <2>6. TakenInv'
    BY <1>5, <2>1 DEF TakenInv, StreamInv, OrderInv, At
  <2>7. QueueInv'
    BY <2>1, <2>2 DEF QueueInv, At
  <2>8. HeldInv'
    BY <1>2, <2>4 DEF HeldInv
  <2>9. CursorInv'
    BY <2>1, <2>3, <2>4, <2>5 DEF CursorInv, At
  <2>. QED
    BY <2>6, <2>7, <2>8, <2>9
<1>6. OrderInv'
  BY <1>5 DEF OrderInv, Settled, InUse, ProducerBreaks
<1>. QED
  BY <1>3, <1>4, <1>6 DEF StreamInv

\* The producer moves an item of its chunk into the queue.
LEMMA PutsKeep ==
    ASSUME StreamInv, ProducerPuts
    PROVE  StreamInv'
<1>1. StreamTypeOK /\ ProducerInv /\ held \in Seq(Item) /\ held # <<>> /\ queue \in Seq(Item)
  BY DEF StreamInv, StreamTypeOK, ProducerPuts
<1>. DEFINE x == Head(held)
            n == Len(queue)
            h == Len(held)
<1>2. /\ x = held[1] /\ x \in Item /\ Tail(held) \in Seq(Item) /\ Len(Tail(held)) = h - 1
      /\ \A i \in 1..(h - 1) : Tail(held)[i] = held[i + 1]
      /\ Failed(Tail(held)) <=> h > 1 /\ Failed(held)
  BY <1>1, ItemsMove
<1>3. /\ queue' = Append(queue, x) /\ held' = Tail(held) /\ producer = "running"
      /\ producer' = IF x = Broken THEN "ended" ELSE "running"
  BY DEF ProducerPuts
<1>4. /\ queue' \in Seq(Item) /\ Len(queue') = n + 1 /\ n \in Nat
      /\ \A i \in 1..n : queue'[i] = queue[i]
      /\ queue'[n + 1] = x /\ queue' # <<>>
  BY <1>1, <1>2, <1>3, ItemsGrow
<1>5. h \in Nat /\ h > 0
  BY <1>1, ItemsAre
<1>. HIDE DEF x, n, h
<1>6. StreamTypeOK'
  BY <1>1, <1>2, <1>3, <1>4 DEF ProducerPuts, StreamTypeOK
<1>7. ProducerInv'
  BY <1>1, <1>3 DEF ProducerPuts, ProducerInv, Settled, InUse, SpentInv
<1>8. ASSUME Settled
      PROVE  (TakenInv /\ QueueInv /\ HeldInv /\ CursorInv)'
  <2>1. /\ Base' = Base /\ Taken' = Taken /\ consumed' = consumed /\ cursor' = cursor
    BY DEF ProducerPuts, Base, Taken
  <2>2. ~Failed(queue) /\ \A i \in 1..n : queue[i] = At(Base + i - 1)
    BY <1>3, <1>8, QueueIsRows DEF n
  <2>3. Base \in Nat /\ Count(queue) = n /\ Base + n \in Nat
    BY <1>1, <1>4, <2>2, Typed, ItemsAre DEF n
  <2>4. cursor = At(Base + n + Count(held))
    BY <1>8, <2>3 DEF StreamInv, OrderInv, CursorInv
  <2>5. TakenInv'
    BY <1>8, <2>1 DEF TakenInv, StreamInv, OrderInv, At
  <2>6. CASE held = <<Broken>> /\ Count(held) = 0 /\ h = 1
    <3>1. x = Broken /\ Len(held') = 0 /\ held' = <<>>
      BY <1>2, <1>3, <2>6, ItemsAre
    <3>2. ~Failed(held') /\ Failed(queue')
      BY <1>4, <3>1 DEF Failed
    <3>3. Count(held)' = 0 /\ Count(queue)' = n
      BY <1>4, <3>1, <3>2 DEF Count, Failed
    <3>4. QueueInv'
      <4>1. \A i \in 1..(n + 1) :
                IF i = n + 1 THEN queue'[i] = Broken ELSE queue'[i] = At(Base + i - 1)
        BY <1>4, <2>2, <3>1
      <4>2. producer' # "running"
        BY <1>3, <3>1
      <4>. QED
        BY <1>4, <2>1, <3>1, <4>1, <4>2 DEF QueueInv, At
    <3>5. HeldInv'
      BY <3>1 DEF HeldInv
    <3>6. CursorInv'
      BY <2>1, <2>4, <2>6, <3>3 DEF CursorInv, At
    <3>. QED
      BY <2>5, <3>4, <3>5, <3>6
  <2>7. CASE /\ \A i \in 1..h : held[i] = At(Base + n + i - 1) /\ held[i] # Broken
             /\ ~Failed(held) /\ Count(held) = h
    <3>1. x # Broken /\ x = At(Base + n)
      <4>1. 1 \in 1..h /\ Base + n + 1 - 1 = Base + n
        BY <1>5, <2>3
      <4>. QED
        BY <1>2, <2>7, <4>1
    <3>2. ~Failed(held') /\ ~Failed(queue')
      BY <1>2, <1>3, <1>4, <2>7, <3>1 DEF Failed
    <3>3. Count(held)' = h - 1 /\ Count(queue)' = n + 1
      BY <1>2, <1>3, <1>4, <3>2 DEF Count, Failed
    <3>4. QueueInv'
      <4>1. ASSUME NEW i \in 1..(n + 1) PROVE queue'[i] = At(Base + i - 1)
        <5>1. CASE i \in 1..n
          BY <1>4, <2>2, <5>1
        <5>2. CASE i = n + 1
          <6>1. Base + i - 1 = Base + n
            BY <1>4, <2>3, <5>2
          <6>. QED
            BY <1>4, <3>1, <5>2, <6>1
        <5>. QED
          BY <1>4, <5>1, <5>2
      <4>. QED
        BY <1>4, <2>1, <4>1 DEF QueueInv, At
    <3>5. HeldInv'
      <4>1. ASSUME NEW i \in 1..(h - 1) PROVE held'[i] = At(Base + (n + 1) + i - 1)
        <5>1. i + 1 \in 1..h /\ Base + n + (i + 1) - 1 = Base + (n + 1) + i - 1
          BY <1>4, <1>5, <2>3
        <5>. QED
          BY <1>2, <1>3, <2>7, <5>1
      <4>2. Len(held') = h - 1
        BY <1>2, <1>3
      <4>. QED
        BY <1>4, <2>1, <4>1, <4>2 DEF HeldInv, At
    <3>6. CursorInv'
      <4>1. Base + n + h = Base + (n + 1) + (h - 1)
        BY <1>4, <1>5, <2>3
      <4>. QED
        BY <2>1, <2>4, <2>7, <3>3, <4>1 DEF CursorInv, At
    <3>. QED
      BY <2>5, <3>4, <3>5, <3>6
  <2>. QED
    BY <1>8, <2>6, <2>7, HeldIs DEF n, h
<1>9. OrderInv'
  BY <1>8 DEF OrderInv, Settled, InUse, ProducerPuts
<1>. QED
  BY <1>6, <1>7, <1>9 DEF StreamInv

\* The producer that was told to stop ends.
LEMMA EndsKeep ==
    ASSUME StreamInv, ProducerEnds
    PROVE  StreamInv'
<1>1. StreamTypeOK'
  BY EmptySeq DEF StreamInv, ProducerEnds, StreamTypeOK
<1>2. ProducerInv'
  BY DEF StreamInv, ProducerEnds, ProducerInv, Settled, InUse, SpentInv
<1>3. ~Settled'
  BY DEF StreamInv, ProducerEnds, ProducerInv, Settled, InUse, SpentInv
<1>. QED
  BY <1>1, <1>2, <1>3 DEF StreamInv, OrderInv

\* next_batch() starts a producer if there is none.
LEMMA NextBatchKeeps ==
    ASSUME StreamInv, NEW n \in Batches, NextBatch(n)
    PROVE  StreamInv'
<1>1. StreamTypeOK /\ ProducerInv /\ n \in Nat \ {0} /\ consumer = "idle"
  BY StreamAssumption DEF StreamInv, NextBatch
<1>2. Len(values') = 0 /\ values' = <<>> /\ Taken = <<>> /\ Taken' = <<>> /\ Len(Taken) = 0
  BY <1>1 DEF NextBatch, Taken
<1>3. StreamTypeOK'
  <2>1. QueueSize(n) \in Nat /\ Smaller(n, ChunkLimit) \in Nat
    <3>1. prefetch \in Nat /\ ChunkLimit \in Nat
      BY <1>1, StreamAssumption DEF StreamTypeOK
    <3>2. n * prefetch \in Nat
      BY <1>1, <3>1
    <3>. QED
      BY <1>1, <3>1, <3>2 DEF QueueSize, Smaller, Larger
  <2>2. producer' \in {"none", "running", "ended"} /\ capacity' \in Nat /\ chunk' \in Nat
    BY <1>1, <2>1 DEF StreamTypeOK, NextBatch
  <2>. QED
    BY <1>1, <2>2, EmptySeq DEF StreamTypeOK, NextBatch
<1>4. ProducerInv'
  BY <1>1, <1>2 DEF NextBatch, ProducerInv, Settled, InUse, SpentInv
<1>6. CASE reader # "sound"
  BY <1>3, <1>4, <1>6 DEF NextBatch, StreamInv, OrderInv, Settled
<1>5. CASE reader = "sound"
  <2>1. Base' = Base /\ queue' = queue /\ held' = held /\ consumed' = consumed /\ cursor' = cursor
    BY <1>2 DEF NextBatch, Base
  <2>2. QueueInv /\ HeldInv /\ CursorInv
    BY <1>1, <1>5 DEF StreamInv, OrderInv, Settled, InUse, NextBatch
  <2>3. TakenInv'
    BY <1>2 DEF TakenInv
  <2>4. producer' = producer \/ queue = <<>>
    BY <1>1 DEF NextBatch, ProducerInv
  <2>5. QueueInv'
    <3>1. CASE producer' = producer
      BY <2>1, <2>2, <3>1 DEF QueueInv, At
    <3>2. CASE queue = <<>>
      BY <2>1, <3>2 DEF QueueInv
    <3>. QED
      BY <2>4, <3>1, <3>2
  <2>6. HeldInv'
    BY <2>1, <2>2 DEF HeldInv, Failed, At
  <2>7. CursorInv'
    BY <2>1, <2>2 DEF CursorInv, Count, Failed, At
  <2>. QED
    BY <1>3, <1>4, <2>3, <2>5, <2>6, <2>7 DEF StreamInv, OrderInv
<1>. QED
  BY <1>5, <1>6

\* next_batch() without prefetching reads the rows itself.
LEMMA DirectKeeps ==
    ASSUME StreamInv, NEW n \in Batches, NextBatchDirect(n)
    PROVE  StreamInv'
<1>1. /\ StreamTypeOK /\ ProducerInv /\ n \in Nat \ {0} /\ consumer = "idle"
      /\ queue = <<>> /\ held = <<>>
      /\ consumed \in Nat /\ cursor \in Row /\ TrainRows \in Nat \ {0} /\ MaxRows \in Nat
  BY Typed, StreamAssumption DEF StreamInv, NextBatchDirect, ProducerInv, StreamTypeOK
<1>2. CASE reader' = "spent" /\ UNCHANGED <<cursor, values, want, consumed>>
  <2>1. StreamTypeOK' /\ ProducerInv' /\ ~Settled'
    BY <1>1, <1>2 DEF NextBatchDirect, StreamTypeOK, ProducerInv, Settled, InUse, SpentInv
  <2>. QED
    BY <2>1 DEF StreamInv, OrderInv
<1>4. CASE /\ reader' = "skipped" /\ cursor' = (cursor + n) % TrainRows
           /\ UNCHANGED <<values, want, consumed>>
  <2>1. cursor' \in Row
    <3>1. cursor' = At(cursor + n) /\ cursor + n \in Nat
      BY <1>1, <1>4 DEF At, Row
    <3>. QED
      BY <3>1, AtIsRow
  <2>2. StreamTypeOK' /\ ProducerInv' /\ ~Settled'
    BY <1>1, <1>4, <2>1 DEF NextBatchDirect, StreamTypeOK, ProducerInv, Settled, InUse, SpentInv
  <2>. QED
    BY <2>2 DEF StreamInv, OrderInv
<1>3. CASE /\ values' = RowsFrom(cursor, n) /\ want' = n
           /\ cursor' = (cursor + n) % TrainRows
           /\ consumed' = consumed + n /\ UNCHANGED reader
  <2>1. cursor = At(cursor) /\ cursor \in Nat
    BY <1>1 DEF At, Row
  <2>2. values' \in Seq(Row)
    BY <1>1, <1>3, <2>1, RowsFromIs
  <2>3. cursor' = At(cursor + n) /\ cursor' \in Row
    <3>1. cursor' = At(cursor + n)
      BY <1>3 DEF At
    <3>. QED
      BY <1>1, <2>1, <3>1, AtIsRow
  <2>4. StreamTypeOK'
    BY <1>1, <1>3, <2>2, <2>3 DEF NextBatchDirect, StreamTypeOK
  <2>5. ProducerInv'
    BY <1>1, <1>3 DEF NextBatchDirect, ProducerInv, Settled, InUse, SpentInv
  <2>6. Taken = <<>> /\ Taken' = <<>> /\ Base = consumed /\ Base' = consumed + n
    BY <1>1, <1>3 DEF NextBatchDirect, Taken, Base
  <2>7. Count(queue) = 0 /\ Count(held) = 0 /\ Count(queue)' = 0 /\ Count(held)' = 0
    BY <1>1 DEF NextBatchDirect, Count, Failed
  <2>10. (TakenInv /\ QueueInv /\ HeldInv)'
    <3>1. queue' = <<>> /\ held' = <<>>
      BY <1>1 DEF NextBatchDirect
    <3>. QED
      BY <2>6, <3>1 DEF TakenInv, QueueInv, HeldInv
  <2>12. CASE reader # "sound"
    BY <1>3, <2>4, <2>5, <2>12 DEF StreamInv, OrderInv, Settled
  <2>13. CASE reader = "sound"
    <3>1. cursor = At(consumed)
      BY <1>1, <2>6, <2>7, <2>13 DEF StreamInv, OrderInv, Settled, InUse, CursorInv
    <3>2. cursor' = At(consumed + n)
      BY <1>1, <1>3, <3>1, AtAdds
    <3>3. CursorInv'
      BY <1>1, <2>6, <2>7, <3>2 DEF CursorInv, At
    <3>. QED
      BY <2>4, <2>5, <2>10, <3>3 DEF StreamInv, OrderInv
  <2>. QED
    BY <2>12, <2>13
<1>. QED
  BY <1>2, <1>3, <1>4 DEF NextBatchDirect

\* next_batch() takes an item from the queue.
LEMMA GetKeeps ==
    ASSUME StreamInv, Get
    PROVE  StreamInv'
<1>1. /\ StreamTypeOK /\ ProducerInv /\ queue \in Seq(Item) /\ queue # <<>> /\ values \in Seq(Row)
      /\ consumer = "getting" /\ Settled
  BY DEF StreamInv, StreamTypeOK, Get, Settled, InUse, ProducerInv, SpentInv
<1>. DEFINE x == Head(queue)
            n == Len(queue)
<1>2. /\ x = queue[1] /\ x \in Item /\ Tail(queue) \in Seq(Item) /\ Len(Tail(queue)) = n - 1
      /\ \A i \in 1..(n - 1) : Tail(queue)[i] = queue[i + 1]
      /\ Failed(Tail(queue)) <=> n > 1 /\ Failed(queue)
      /\ n \in Nat /\ n > 0
  BY <1>1, ItemsMove, ItemsAre
<1>3. /\ queue' = Tail(queue) /\ held' = held /\ cursor' = cursor
      /\ producer' = producer /\ want' = want
  BY DEF Get
<1>4. CASE x = Broken
  <2>1. /\ stop' = TRUE /\ reader' = "spent" /\ consumer' = "idle" /\ UNCHANGED <<values, consumed>>
    BY <1>4 DEF Get
  <2>2. StreamTypeOK' /\ ~Settled'
    BY <1>1, <1>2, <1>3, <2>1 DEF Get, StreamTypeOK, Settled
  <2>4. queue' = <<>> /\ held' = <<>> /\ producer' # "running"
    <3>1. 1 \in 1..n /\ queue[1] = Broken /\ Base \in Nat
      BY <1>1, <1>2, <1>4, Typed DEF StreamInv
    <3>2. queue[1] = Broken /\ 1 = n /\ held = <<>> /\ producer # "running"
      <4>1. QueueInv /\ Base + 1 - 1 = Base /\ At(Base) # Broken
        BY <1>1, <3>1, AtIsRow DEF StreamInv, OrderInv
      <4>2. \/ queue[1] = Broken /\ 1 = n /\ held = <<>> /\ producer # "running"
            \/ queue[1] = At(Base + 1 - 1)
        BY <3>1, <4>1 DEF QueueInv
      <4>. QED
        BY <3>1, <4>1, <4>2
    <3>3. Tail(queue) = <<>>
      BY <1>2, <3>2, ItemsAre
    <3>. QED
      BY <1>3, <3>2, <3>3
  <2>3. ProducerInv'
    BY <1>1, <1>3, <2>1, <2>2, <2>4 DEF Get, ProducerInv, SpentInv, InUse, Settled
  <2>. QED
    BY <2>2, <2>3 DEF StreamInv, OrderInv
<1>5. CASE x # Broken
  <2>. DEFINE k == Len(values)
  <2>1. x \in Row
    BY <1>2, <1>5 DEF Item
  <2>2. /\ values' = Append(values, x) /\ stop' = stop
        /\ IF Len(values') = want THEN consumed' = consumed + want /\ consumer' = "idle"
           ELSE UNCHANGED <<consumed, consumer>>
    BY <1>5 DEF Get
  <2>3. /\ values' \in Seq(Row) /\ Len(values') = k + 1 /\ k \in Nat
        /\ \A i \in 1..k : values'[i] = values[i]
        /\ values'[k + 1] = x
    BY <1>1, <2>1, <2>2, ItemsGrow
  <2>4. /\ k < want /\ consumed + want <= MaxRows
        /\ want \in Nat /\ consumed \in Nat /\ MaxRows \in Nat
    BY <1>1, Typed, StreamAssumption DEF ProducerInv, StreamTypeOK
  <2>5. StreamTypeOK'
    <3>1. consumed' \in 0..MaxRows /\ consumer' \in {"idle", "getting"}
      BY <1>1, <2>2, <2>4 DEF StreamTypeOK
    <3>. QED
      BY <1>1, <1>2, <1>3, <2>2, <2>3, <3>1 DEF Get, StreamTypeOK
  <2>6. ProducerInv'
    <3>1. prefetch' = prefetch /\ producer # "none"
      BY <1>1 DEF Get, ProducerInv
    <3>2. consumer' = "getting" => Len(values') < want' /\ consumed' + want' <= MaxRows
      BY <1>1, <1>3, <2>2, <2>3, <2>4
    <3>3. ~stop'
      BY <1>1, <2>2 DEF ProducerInv
    <3>. QED
      BY <1>1, <1>3, <1>5, <3>1, <3>2, <3>3 DEF Get, ProducerInv, Settled
  <2>7. Taken = values /\ Base = consumed + k
    BY <1>1 DEF Taken, Base
  <2>8. Base \in Nat /\ Base' = Base + 1
    <3>1. CASE k + 1 = want
      BY <1>1, <2>2, <2>3, <2>4, <2>7, <3>1 DEF Taken, Base
    <3>2. CASE k + 1 # want
      BY <1>1, <2>2, <2>3, <2>4, <2>7, <3>2 DEF Taken, Base
    <3>. QED
      BY <3>1, <3>2
  <2>. HIDE DEF x, n, k
  <2>9. TakenInv /\ QueueInv /\ HeldInv /\ CursorInv
    BY <1>1 DEF StreamInv, OrderInv
  <2>10. x = At(consumed + k)
    <3>1. 1 \in 1..n /\ Base + 1 - 1 = consumed + k
      BY <1>2, <2>3, <2>4, <2>7
    <3>. QED
      BY <1>2, <1>5, <2>9, <3>1 DEF QueueInv, n
  <2>11. TakenInv'
    <3>1. CASE k + 1 = want
      <4>1. Taken' = <<>>
        BY <2>2, <2>3, <3>1 DEF Taken
      <4>. QED
        BY <4>1 DEF TakenInv
    <3>2. CASE k + 1 # want
      <4>1. Taken' = values' /\ consumed' = consumed
        BY <1>1, <2>2, <2>3, <3>2 DEF Taken
      <4>2. ASSUME NEW i \in 1..(k + 1) PROVE values'[i] = At(consumed + i - 1)
        <5>1. CASE i \in 1..k
          BY <2>3, <2>7, <2>9, <5>1 DEF TakenInv, k
        <5>2. CASE i = k + 1
          <6>1. consumed + i - 1 = consumed + k
            BY <2>3, <2>4, <5>2
          <6>. QED
            BY <2>3, <2>10, <5>2, <6>1
        <5>. QED
          BY <2>3, <5>1, <5>2
      <4>. QED
        BY <2>3, <4>1, <4>2 DEF TakenInv, At
    <3>. QED
      BY <3>1, <3>2
  <2>12. QueueInv'
    <3>1. ASSUME NEW i \in 1..(n - 1)
          PROVE  \/ queue'[i] = Broken /\ i = n - 1 /\ held = <<>> /\ producer # "running"
                 \/ queue'[i] = At((Base + 1) + i - 1)
      <4>1. i + 1 \in 1..n /\ Base + (i + 1) - 1 = (Base + 1) + i - 1 /\ (i + 1 = n => i = n - 1)
        BY <1>2, <2>8
      <4>2. queue'[i] = queue[i + 1]
        BY <1>2, <1>3
      <4>3. \/ queue[i + 1] = Broken /\ i + 1 = n /\ held = <<>> /\ producer # "running"
            \/ queue[i + 1] = At(Base + (i + 1) - 1)
        BY <2>9, <4>1 DEF QueueInv, n
      <4>. QED
        BY <4>1, <4>2, <4>3
    <3>2. Len(queue') = n - 1
      BY <1>2, <1>3
    <3>. QED
      BY <1>3, <2>8, <3>1, <3>2 DEF QueueInv, At
  <2>13. HeldInv'
    <3>1. CASE held = <<Broken>> /\ ~Failed(queue)
      BY <1>2, <1>3, <3>1 DEF HeldInv, Failed
    <3>2. CASE \A i \in 1..Len(held) : held[i] = At(Base + n + i - 1)
      <4>1. \A i \in 1..Len(held) : held[i] = At((Base + 1) + (n - 1) + i - 1)
        <5>1. \A i \in 1..Len(held) : (Base + 1) + (n - 1) + i - 1 = Base + n + i - 1
          BY <1>2, <2>8
        <5>. QED
          BY <3>2, <5>1
      <4>2. Len(queue') = n - 1
        BY <1>2, <1>3
      <4>. QED
        BY <1>3, <2>8, <4>1, <4>2 DEF HeldInv, At
    <3>. QED
      BY <2>9, <3>1, <3>2 DEF HeldInv, n
  <2>14. CursorInv'
    <3>1. Failed(queue) => n > 1
      BY <1>2, <1>5 DEF Failed, n
    <3>2. Count(queue)' = Count(queue) - 1
      BY <1>2, <1>3, <3>1 DEF Count, Failed, n
    <3>3. Count(held)' = Count(held) /\ Count(held) \in Nat /\ Count(queue) \in Nat
      BY <1>1, <1>3, Typed DEF Count, Failed
    <3>4. (Base + 1) + (Count(queue) - 1) + Count(held) = Base + Count(queue) + Count(held)
      BY <2>8, <3>3
    <3>. QED
      BY <1>3, <2>8, <2>9, <3>2, <3>3, <3>4 DEF CursorInv, At
  <2>. QED
    BY <2>5, <2>6, <2>11, <2>12, <2>13, <2>14 DEF StreamInv, OrderInv
<1>. QED
  BY <1>4, <1>5

\* A checkpoint saves the number of rows consumed.
LEMMA SaveKeeps ==
    ASSUME StreamInv, SaveCursor
    PROVE  StreamInv'
<1>1. StreamTypeOK' /\ ProducerInv'
  BY DEF StreamInv, SaveCursor, StreamTypeOK, ProducerInv, Settled, InUse, SpentInv
<1>2. /\ Base' = Base /\ Taken' = Taken /\ consumed' = consumed /\ queue' = queue
      /\ held' = held /\ cursor' = cursor /\ producer' = producer
  BY DEF SaveCursor, Base, Taken
<1>3. Count(queue)' = Count(queue) /\ Count(held)' = Count(held) /\ Failed(queue)' = Failed(queue)
  BY <1>2 DEF Count, Failed
<1>7. CASE ~Settled
  BY <1>1, <1>7 DEF SaveCursor, StreamInv, OrderInv, Settled, InUse
<1>8. CASE Settled
  <2>4. TakenInv /\ QueueInv /\ HeldInv /\ CursorInv
    BY <1>8 DEF StreamInv, OrderInv
  <2>5. TakenInv' /\ QueueInv'
    BY <1>2, <2>4 DEF TakenInv, QueueInv, At
  <2>6. HeldInv' /\ CursorInv'
    BY <1>2, <1>3, <2>4 DEF HeldInv, CursorInv, At
  <2>. QED
    BY <1>1, <2>5, <2>6 DEF StreamInv, OrderInv
<1>. QED
  BY <1>7, <1>8

\* A call that stops the reader puts the order aside until the reader is joined.
LEMMA StopKeeps ==
    ASSUME StreamInv, RestoreBegins \/ CloseBegins
    PROVE  StreamInv'
<1>1. StreamTypeOK' /\ ProducerInv' /\ ~Settled'
  BY DEF StreamInv, RestoreBegins, CloseBegins, StopProducer, StreamTypeOK, ProducerInv, Settled, InUse, SpentInv
<1>. QED
  BY <1>1 DEF StreamInv, OrderInv

\* The restored source has nothing read ahead and begins with the row of the checkpoint.
LEMMA RestoreKeeps ==
    ASSUME StreamInv, RestoreEnds
    PROVE  StreamInv'
<1>1. StreamTypeOK /\ ProducerInv /\ saved \in Nat
  BY Typed DEF StreamInv
<1>2. /\ queue' = <<>> /\ held' = <<>> /\ values' = <<>> /\ consumed' = saved /\ consumer' = "idle"
      /\ cursor' = At(saved)
  BY DEF RestoreEnds, Rewound, At
<1>3. StreamTypeOK'
  <2>1. cursor' \in Row
    BY <1>1, <1>2, AtIsRow
  <2>. QED
    BY <1>1, <1>2, <2>1, EmptySeq DEF RestoreEnds, Replaced, StreamTypeOK
<1>4. ProducerInv'
  BY <1>1 DEF RestoreEnds, Replaced, ProducerInv, Settled, InUse, SpentInv
<1>5. Taken' = <<>> /\ Base' = saved /\ Count(queue)' = 0 /\ Count(held)' = 0
  BY <1>1, <1>2 DEF Taken, Base, Count, Failed
<1>6. (TakenInv /\ QueueInv /\ HeldInv)'
  BY <1>2, <1>5 DEF TakenInv, QueueInv, HeldInv
<1>7. CursorInv'
  BY <1>1, <1>2, <1>5 DEF CursorInv, At
<1>. QED
  BY <1>3, <1>4, <1>6, <1>7 DEF StreamInv, OrderInv

\* close() stops the producer.
LEMMA CloseKeeps ==
    ASSUME StreamInv, CloseEnds \/ JoinTimesOut
    PROVE  StreamInv'
<1>1. CASE CloseEnds
  <2>1. StreamTypeOK' /\ ProducerInv' /\ ~Settled'
    BY <1>1, EmptySeq DEF StreamInv, CloseEnds, Replaced, StreamTypeOK, ProducerInv, Settled, InUse, SpentInv
  <2>. QED
    BY <2>1 DEF StreamInv, OrderInv
<1>2. CASE JoinTimesOut
  <2>1. StreamTypeOK' /\ ProducerInv' /\ ~Settled'
    BY <1>2 DEF StreamInv, JoinTimesOut, StreamTypeOK, ProducerInv, Settled, InUse, SpentInv
  <2>. QED
    BY <2>1 DEF StreamInv, OrderInv
<1>. QED
  BY <1>1, <1>2

\* A stream that was just opened has read nothing.
LEMMA InitKeeps == StreamInit => StreamInv
<1>. SUFFICES ASSUME StreamInit PROVE StreamInv
  OBVIOUS
<1>1. /\ queue = <<>> /\ held = <<>> /\ values = <<>> /\ consumed = 0 /\ consumer = "idle"
      /\ cursor = 0 /\ 0 \in Row /\ 0 \in 0..MaxRows
  BY StreamAssumption DEF StreamInit, Row
<1>2. StreamTypeOK /\ ProducerInv
  BY <1>1, EmptySeq DEF StreamInit, StreamTypeOK, ProducerInv
<1>3. Taken = <<>> /\ Base = 0 /\ Count(queue) = 0 /\ Count(held) = 0
  BY <1>1 DEF Taken, Base, Count, Failed
<1>4. TakenInv /\ QueueInv /\ HeldInv
  BY <1>1, <1>3 DEF TakenInv, QueueInv, HeldInv
<1>5. CursorInv
  BY <1>1, <1>3, StreamAssumption DEF CursorInv, At
<1>. QED
  BY <1>2, <1>4, <1>5 DEF StreamInv, OrderInv

\* Every item read ahead is the next row, whatever the file, the batches and the prefetch.
THEOREM StreamInvariance == StreamSpec => []StreamInv
<1>1. ASSUME StreamInv, [StreamNext]_streamVars PROVE StreamInv'
  <2>1. CASE Producer
    BY <1>1, <2>1, ReadsKeep, BreaksKeep, PutsKeep, EndsKeep DEF Producer
  <2>2. CASE Consumer
    BY <1>1, <2>2, NextBatchKeeps, DirectKeeps, GetKeeps, SaveKeeps, StopKeeps, RestoreKeeps,
       CloseKeeps DEF Consumer
  <2>3. CASE UNCHANGED streamVars
    <3>1. StreamTypeOK' /\ ProducerInv'
      BY <1>1, <2>3 DEF StreamInv, streamVars, StreamTypeOK, ProducerInv, Settled, InUse, SpentInv
    <3>2. OrderInv'
      BY <1>1, <2>3 DEF StreamInv, streamVars, OrderInv, Settled, InUse, TakenInv, QueueInv, HeldInv,
         CursorInv, Base, Taken, Count, Failed, At
    <3>. QED
      BY <3>1, <3>2 DEF StreamInv
  <2>. QED
    BY <1>1, <2>1, <2>2, <2>3 DEF StreamNext
<1>. QED
  BY <1>1, InitKeeps, PTL DEF StreamSpec

\* The rows among the items, one by one.
LEMMA RowsAre ==
    ASSUME NEW s \in Seq(Item)
    PROVE  /\ RowsOf(s) \in Seq(Item) /\ Len(RowsOf(s)) = Count(s)
           /\ \A i \in 1..Count(s) : RowsOf(s)[i] = s[i] /\ i \in 1..Len(s)
<1>1. Len(s) \in Nat /\ \A i \in 1..Len(s) : s[i] \in Item
  BY ItemsAre
<1>2. CASE Failed(s)
  <2>1. Len(s) > 0 /\ Count(s) = Len(s) - 1
    BY <1>2, ItemsAre
  <2>2. RowsOf(s) = SubSeq(s, 1, Len(s) - 1)
    BY <1>2 DEF RowsOf, Failed
  <2>3. /\ SubSeq(s, 1, Len(s) - 1) \in Seq(Item)
        /\ Len(SubSeq(s, 1, Len(s) - 1)) = Len(s) - 1
        /\ \A i \in 1..(Len(s) - 1) : SubSeq(s, 1, Len(s) - 1)[i] = s[i]
    <3>1. PICK n : n = Len(s) - 1
      OBVIOUS
    <3>2. n \in Nat /\ n \in Int /\ 1 \in Int /\ \A i \in 1..n : s[i] \in Item
      BY <1>1, <2>1, <3>1
    <3>3. /\ SubSeq(s, 1, n) \in Seq(Item)
          /\ Len(SubSeq(s, 1, n)) = IF 1 <= n THEN n - 1 + 1 ELSE 0
          /\ \A i \in 1..(n - 1 + 1) : SubSeq(s, 1, n)[i] = s[1 + i - 1]
      BY <3>2, SubSeqProperties
    <3>4. n - 1 + 1 = n /\ (IF 1 <= n THEN n - 1 + 1 ELSE 0) = n /\ \A i \in 1..n : 1 + i - 1 = i
      BY <3>2
    <3>. QED
      BY <3>1, <3>3, <3>4
  <2>. QED
    BY <1>1, <2>1, <2>2, <2>3
<1>3. CASE ~Failed(s)
  BY <1>1, <1>3, ItemsAre DEF RowsOf, Failed
<1>. QED
  BY <1>2, <1>3

\* Two sequences of rows that follow one another are together the rows that follow.
LEMMA RowsJoin ==
    ASSUME NEW c \in Nat, NEW s \in Seq(Item), NEW t \in Seq(Item),
           \A i \in 1..Len(s) : s[i] = At(c + i - 1),
           \A i \in 1..Len(t) : t[i] = At(c + Len(s) + i - 1)
    PROVE  /\ s \o t \in Seq(Item) /\ Len(s \o t) = Len(s) + Len(t)
           /\ \A i \in 1..Len(s \o t) : (s \o t)[i] = At(c + i - 1)
<1>1. /\ s \o t \in Seq(Item) /\ Len(s \o t) = Len(s) + Len(t) /\ Len(s) \in Nat /\ Len(t) \in Nat
      /\ \A i \in 1..(Len(s) + Len(t)) : (s \o t)[i] = IF i <= Len(s) THEN s[i] ELSE t[i - Len(s)]
  BY ConcatProperties, LenProperties
<1>2. ASSUME NEW i \in 1..(Len(s) + Len(t))
      PROVE  (s \o t)[i] = At(c + i - 1)
  <2>1. CASE i <= Len(s)
    BY <1>1, <2>1
  <2>2. CASE i > Len(s)
    <3>1. i - Len(s) \in 1..Len(t) /\ c + Len(s) + (i - Len(s)) - 1 = c + i - 1
      BY <1>1, <2>2
    <3>2. t[i - Len(s)] = At(c + Len(s) + (i - Len(s)) - 1)
      BY <3>1
    <3>3. (s \o t)[i] = t[i - Len(s)]
      BY <1>1, <2>2
    <3>. QED
      BY <3>1, <3>2, <3>3
  <2>. QED
    BY <1>1, <2>1, <2>2
<1>. QED
  BY <1>1, <1>2

\* The inductive invariant says of each item what RowsInOrder says of them all.
LEMMA OrderIsRows ==
    ASSUME StreamInv
    PROVE  RowsInOrder
<1>0. CASE InUse /\ reader # "sound"
  <2>1. Taken = <<>> /\ RowsOf(queue) = <<>> /\ RowsOf(held) = <<>>
    BY <1>0 DEF StreamInv, ProducerInv, SpentInv, Taken, RowsOf, InUse
  <2>2. <<>> \o <<>> \o <<>> = <<>> /\ Len(<<>>) = 0 /\ RowsFrom(consumed, 0) = <<>>
    BY EmptySeq DEF RowsFrom
  <2>. QED
    BY <1>0, <2>1, <2>2 DEF RowsInOrder
<1>. SUFFICES ASSUME Settled
              PROVE  LET ahead == Taken \o RowsOf(queue) \o RowsOf(held)
                     IN  /\ ahead = RowsFrom(consumed, Len(ahead))
                         /\ cursor = (consumed + Len(ahead)) % TrainRows
  BY <1>0 DEF RowsInOrder, Settled, InUse
<1>1. /\ StreamTypeOK /\ ProducerInv /\ TakenInv /\ QueueInv /\ HeldInv /\ CursorInv
      /\ queue \in Seq(Item) /\ held \in Seq(Item)
      /\ consumed \in Nat /\ Base \in Nat /\ Len(Taken) \in Nat /\ Base = consumed + Len(Taken)
      /\ Taken \in Seq(Row) /\ Taken \in Seq(Item)
      /\ Count(queue) \in Nat /\ Count(held) \in Nat
      /\ Len(queue) \in Nat /\ Len(held) \in Nat
  <2>1. Taken \in Seq(Row)
    BY Typed DEF StreamInv
  <2>2. Taken \in Seq(Item)
    BY <2>1 DEF Item
  <2>. QED
    BY <2>1, <2>2, Typed DEF StreamInv, OrderInv, StreamTypeOK, Base
<1>. DEFINE q == RowsOf(queue)
            h == RowsOf(held)
            t == Taken \o q
            a == t \o h
<1>2. /\ q \in Seq(Item) /\ Len(q) = Count(queue)
      /\ \A i \in 1..Count(queue) : q[i] = queue[i] /\ i \in 1..Len(queue)
  BY <1>1, RowsAre
<1>3. /\ h \in Seq(Item) /\ Len(h) = Count(held)
      /\ \A i \in 1..Count(held) : h[i] = held[i] /\ i \in 1..Len(held)
  BY <1>1, RowsAre
<1>. HIDE DEF q, h
<1>4. \A i \in 1..Len(q) : q[i] = At(consumed + Len(Taken) + i - 1)
  <2>1. ASSUME NEW i \in 1..Count(queue) PROVE queue[i] = At(Base + i - 1)
    <3>1. i \in 1..Len(queue)
      BY <1>2
    <3>2. queue[i] # Broken \/ queue[i] = At(Base + i - 1)
      <4>1. CASE Failed(queue)
        <5>1. Count(queue) = Len(queue) - 1
          BY <1>1, <4>1, ItemsAre
        <5>. QED
          BY <1>1, <3>1, <5>1 DEF QueueInv
      <4>2. CASE ~Failed(queue)
        <5>1. queue # <<>>
          BY <3>1, <1>1, ItemsAre
        <5>2. queue[Len(queue)] # Broken
          BY <4>2, <5>1 DEF Failed
        <5>. QED
          BY <1>1, <3>1, <5>2 DEF QueueInv
      <4>. QED
        BY <4>1, <4>2
    <3>. QED
      BY <1>1, <3>1, <3>2 DEF QueueInv
  <2>. QED
    BY <1>1, <1>2, <2>1
<1>5. \A i \in 1..Len(h) : h[i] = At(consumed + (Len(Taken) + Len(q)) + i - 1)
  <2>1. CASE Count(held) = 0
    BY <1>3, <2>1
  <2>2. CASE /\ \A i \in 1..Len(held) : held[i] = At(Base + Len(queue) + i - 1) /\ held[i] # Broken
             /\ ~Failed(held) /\ Count(held) = Len(held)
    <3>1. CASE held = <<>>
      <4>1. Count(held) = 0
        BY <1>1, <3>1, ItemsAre
      <4>. QED
        BY <1>3, <4>1
    <3>2. CASE held # <<>>
      <4>1. ~Failed(queue)
        <5>. SUFFICES ASSUME Failed(queue) PROVE FALSE
          OBVIOUS
        <5>1. Len(queue) \in 1..Len(queue) /\ queue[Len(queue)] = Broken
          BY <1>1, ItemsAre
        <5>2. queue[Len(queue)] = At(Base + Len(queue) - 1)
          BY <1>1, <3>2, <5>1 DEF QueueInv
        <5>3. Base + Len(queue) - 1 \in Nat
          BY <1>1, <5>1
        <5>. QED
          BY <5>1, <5>2, <5>3, AtIsRow
      <4>2. Len(q) = Len(queue)
        BY <1>1, <1>2, <4>1, ItemsAre
      <4>3. ASSUME NEW i \in 1..Len(h)
            PROVE  h[i] = At(consumed + (Len(Taken) + Len(q)) + i - 1)
        <5>1. i \in 1..Len(held) /\ h[i] = held[i]
          BY <1>3, <4>3
        <5>2. consumed + (Len(Taken) + Len(q)) + i - 1 = Base + Len(queue) + i - 1
          BY <1>1, <4>2
        <5>. QED
          BY <2>2, <5>1, <5>2
      <4>. QED
        BY <4>3
    <3>. QED
      BY <3>1, <3>2
  <2>. QED
    BY <2>1, <2>2, HeldIs
<1>6. /\ t \in Seq(Item) /\ Len(t) = Len(Taken) + Len(q)
      /\ \A i \in 1..Len(t) : t[i] = At(consumed + i - 1)
  BY <1>1, <1>2, <1>4, RowsJoin DEF TakenInv
<1>. HIDE DEF t
<1>7. /\ a \in Seq(Item) /\ Len(a) = Len(t) + Len(h)
      /\ \A i \in 1..Len(a) : a[i] = At(consumed + i - 1)
  <2>1. \A i \in 1..Len(h) : h[i] = At(consumed + Len(t) + i - 1)
    BY <1>5, <1>6
  <2>. QED
    BY <1>1, <1>3, <1>6, <2>1, RowsJoin
<1>. HIDE DEF a
<1>8. Len(a) \in Nat /\ a = [i \in 1..Len(a) |-> a[i]]
  BY <1>7, LenProperties
<1>9. a = RowsFrom(consumed, Len(a))
  <2>1. a = [i \in 1..Len(a) |-> At(consumed + i - 1)]
    BY <1>7, <1>8
  <2>. QED
    BY <2>1 DEF RowsFrom, At
<1>10. cursor = (consumed + Len(a)) % TrainRows
  <2>1. Base + Count(queue) + Count(held) = consumed + Len(a)
    BY <1>1, <1>2, <1>3, <1>6, <1>7
  <2>. QED
    BY <1>1, <2>1 DEF CursorInv, At
<1>. QED
  BY <1>9, <1>10 DEF a, t, q, h

\* What was read ahead is what follows the last row trained on, with no row lost and
\* none repeated, and a restore goes on with the row after the checkpoint.
THEOREM RowsStayInOrder == StreamSpec => []RowsInOrder
<1>. QED
  BY StreamInvariance, OrderIsRows, PTL

-----------------------------------------------------------------------------
(* The batch.                                                              *)

\* _power_floor() finds a batch size that is at most what was asked, or two.
LEMMA PowerFloorIs ==
    ASSUME NEW n \in Int
    PROVE  PowerFloor(n) \in Powers /\ PowerFloor(n) <= Most(2, n)
<1>1. \E p \in Powers : p <= Most(2, n) /\ (Most(2, n) < 2 * p \/ p = 65536)
  BY DEF Powers, Most
<1>. QED
  BY <1>1 DEF PowerFloor

\* There are always two rows to train on at least.
LEMMA TrainRecordsAre ==
    ASSUME NEW records \in Nat
    PROVE  TrainRecords(records) \in Nat /\ TrainRecords(records) >= 2
  BY DEF TrainRecords, Most, Least

\* A percentage of an integer is an integer.
LEMMA PercentIs ==
    ASSUME NEW x \in Int, NEW n \in Int
    PROVE  Percent(x, n) \in Int
<1>1. n \div 100 \in Int /\ n % 100 \in Int
  OBVIOUS
<1>2. ((n % 100) * x) \div 100 \in Int
  BY <1>1
<1>. QED
  BY <1>1, <1>2 DEF Percent

\* A sample takes some memory, and there is some to take.
LEMMA MemoryIs ==
    ASSUME NEW features \in Nat, NEW profile, NEW ram \in Int, NEW gib \in Nat
    PROVE  SampleMemory(features) \in Nat \ {0} /\ UsableMemory(profile, ram, gib) \in Int
<1> DEFINE present == Most(1, gib) * GiB
           asked == Percent(Within(10, 95, ram), present)
           rest  == Least(asked, present - Most(2 * GiB, present \div 20))
           share == IF profile = "workstation" THEN Percent(80, rest) ELSE Percent(35, asked)
<1>1. present \in Int
  BY DEF Most, GiB
<1>2. Within(10, 95, ram) \in Int
  BY DEF Within, Most, Least
<1>3. asked \in Int
  BY <1>1, <1>2, PercentIs
<1>4. rest \in Int
  <2>1. present \div 20 \in Int
    BY <1>1
  <2>. HIDE DEF present, asked
  <2>. QED
    BY <1>1, <1>3, <2>1 DEF Least, Most, GiB
<1>5. Percent(80, rest) \in Int /\ Percent(35, asked) \in Int
  <2>. HIDE DEF rest, asked
  <2>. QED
    BY <1>3, <1>4, PercentIs
<1>6. UsableMemory(profile, ram, gib) \in Int
  <2>1. share \in Int
    BY <1>5
  <2>2. UsableMemory(profile, ram, gib) = Most(GiB \div 4, share)
    BY DEF UsableMemory
  <2>. HIDE DEF share
  <2>. QED
    BY <2>1, <2>2 DEF Most, GiB
<1>7. SampleMemory(features) \in Nat \ {0}
  BY DEF SampleMemory, Most
<1>. QED
  BY <1>6, <1>7

\* What fits into a quotient fits into the whole.
LEMMA FitsWhole ==
    ASSUME NEW whole \in Int, NEW part \in Nat \ {0}, NEW n \in Int, n <= whole \div part
    PROVE  n * part <= whole
<1> DEFINE q == whole \div part
<1>1. q \in Int /\ q * part <= whole
  OBVIOUS
<1>. HIDE DEF q
<1>2. n <= q
  BY DEF q
<1>3. n * part <= q * part
  BY <1>1, <1>2
<1>. QED
  BY <1>1, <1>3

\* Whatever the memory, it allows a batch of some size, and batches up to it fit in it.
LEMMA MemoryCapIs ==
    ASSUME NEW features \in Nat, NEW profile, NEW ram \in Int, NEW gib \in Nat
    PROVE  LET cap == MemoryCap(features, profile, ram, gib)
           IN  /\ cap \in Powers
               /\ \A n \in Int : 2 < n /\ n <= cap =>
                    n * SampleMemory(features) <= UsableMemory(profile, ram, gib)
<1> DEFINE cap    == MemoryCap(features, profile, ram, gib)
           sample == SampleMemory(features)
           usable == UsableMemory(profile, ram, gib)
           fills  == usable \div sample
<1>1. usable \in Int /\ sample \in Nat \ {0}
  BY MemoryIs
<1>2. fills \in Int
  <2>. HIDE DEF usable, sample
  <2>. QED
    BY <1>1
<1>3. cap = PowerFloor(fills)
  BY DEF MemoryCap
<1>. HIDE DEF cap, usable, sample
<1>4. cap \in Powers /\ cap <= Most(2, fills)
  <2>. HIDE DEF fills
  <2>. QED
    BY <1>2, <1>3, PowerFloorIs
<1>5. ASSUME NEW n \in Int, 2 < n, n <= cap
      PROVE  n * sample <= usable
  <2>1. \A p \in Powers : p \in Int
    BY DEF Powers
  <2>2. n <= fills
    <3>. HIDE DEF fills
    <3>. QED
      BY <1>2, <1>4, <1>5, <2>1 DEF Most
  <2>. QED
    BY <1>1, <2>2, FitsWhole
<1>. QED
  BY <1>4, <1>5 DEF cap, sample, usable

\* plan_batch() keeps to the rows it counts on and to the memory, whatever it is asked for.
LEMMA PlanBatchFits ==
    ASSUME NEW records \in Nat, NEW features \in Nat, NEW profile \in Profiles, NEW ram \in Int,
           NEW gib \in Nat, NEW mode \in {"auto", "manual"},
           NEW requested, mode = "manual" => requested \in Int
    PROVE  LET b == PlanBatch(records, features, profile, ram, gib, mode, requested)
           IN  /\ BatchIsBounded(b, TrainRecords(records), SampleMemory(features),
                                 UsableMemory(profile, ram, gib))
               /\ b.applied \in Int /\ b.applied >= 1 /\ b.mode = mode
               /\ mode = "manual" => b.applied <= Most(1, requested)
<1> DEFINE train   == TrainRecords(records)
           sample  == SampleMemory(features)
           usable  == UsableMemory(profile, ram, gib)
           cap     == MemoryCap(features, profile, ram, gib)
           rows    == PowerFloor(Most(2, train \div 2))
           safeMax == SafeMax(train, features, profile, ram, gib)
           advised == PowerFloor(Recommended(train, features))
           best    == Least(safeMax, advised)
           safeMin == Least(safeMax, Most(2, best \div 2))
           hardMax == Least(IF profile = "workstation" THEN 65536 ELSE 4096, train)
           applied == IF mode = "manual" THEN Most(1, Least(requested, hardMax)) ELSE best
           risk    == IF mode = "auto" THEN "safe"
                      ELSE IF applied > safeMax THEN "high"
                      ELSE IF applied # best THEN "caution" ELSE "safe"
           b == PlanBatch(records, features, profile, ram, gib, mode, requested)
<1>1. train \in Nat /\ train >= 2
  BY TrainRecordsAre
<1>2. cap \in Powers /\ \A n \in Int : 2 < n /\ n <= cap => n * sample <= usable
  BY MemoryCapIs
<1>3. rows \in Powers /\ rows <= Most(2, train \div 2)
  <2>1. Most(2, train \div 2) \in Int /\ Most(2, Most(2, train \div 2)) = Most(2, train \div 2)
    BY <1>1 DEF Most
  <2>. QED
    BY <2>1, PowerFloorIs
<1>4. advised \in Powers
  <2>1. Recommended(train, features) \in Int
    BY <1>1 DEF Recommended, Most
  <2>. QED
    BY <2>1, PowerFloorIs
<1>5. ProfileCap(profile) \in {64, 256, 512, 65536}
  BY DEF ProfileCap, Profiles
<1>6. \A p \in Powers : p \in Nat /\ p >= 2
  BY DEF Powers
<1>7. safeMax = Most(2, Least(ProfileCap(profile), Least(cap, rows)))
  BY DEF SafeMax
<1> HIDE DEF train, sample, usable, cap, rows, advised, safeMax
<1>8. /\ safeMax \in Nat /\ 2 <= safeMax /\ safeMax <= Most(2, train \div 2) /\ safeMax <= train
      /\ safeMax = 2 \/ safeMax <= cap
  BY <1>1, <1>2, <1>3, <1>5, <1>6, <1>7 DEF Most, Least
<1>9. safeMax = 2 \/ safeMax * sample <= usable
  BY <1>2, <1>8
<1>10. best \in Nat /\ 2 <= best /\ best <= safeMax
  BY <1>4, <1>6, <1>8 DEF Least
<1> HIDE DEF best
<1>11. safeMin \in Nat /\ 2 <= safeMin /\ safeMin <= best /\ safeMin <= safeMax
  BY <1>8, <1>10 DEF Least, Most
<1>12. /\ applied \in Int /\ 1 <= applied /\ applied <= train
       /\ mode = "auto" => applied = best
       /\ mode = "manual" => applied <= Most(1, requested)
  <2>1. hardMax \in Int /\ hardMax >= 1 /\ hardMax <= train
    BY <1>1 DEF Least
  <2>2. CASE mode = "manual"
    <3>1. requested \in Int /\ applied = Most(1, Least(requested, hardMax))
      BY <2>2
    <3>. HIDE DEF hardMax, applied
    <3>. QED
      BY <1>1, <2>1, <2>2, <3>1 DEF Least, Most
  <2>3. CASE mode = "auto"
    <3>1. applied = best
      BY <2>3
    <3>. HIDE DEF applied
    <3>. QED
      BY <1>1, <1>8, <1>10, <2>3, <3>1
  <2>. QED
    BY <2>2, <2>3
<1>13. mode = "manual" => (risk = "high" <=> applied > safeMax)
  OBVIOUS
<1> HIDE DEF safeMin, applied, risk
<1>14. b = [mode |-> mode, applied |-> applied, min |-> safeMin, max |-> safeMax, risk |-> risk]
  BY DEF PlanBatch, train, safeMax, advised, best, safeMin, applied, risk
<1>15. /\ b.mode = mode /\ b.applied = applied /\ b.min = safeMin /\ b.max = safeMax
       /\ b.risk = risk
  BY <1>14
<1>. HIDE DEF b
<1>16. BatchIsBounded(b, train, sample, usable)
  BY <1>8, <1>9, <1>10, <1>11, <1>12, <1>13, <1>15 DEF BatchIsBounded
<1>. QED
  BY <1>12, <1>15, <1>16 DEF b, train, sample, usable

-----------------------------------------------------------------------------
(* Options.                                                                *)

\* The options of one layer over those of another.
LEMMA MergeIs ==
    ASSUME NEW f, NEW g
    PROVE  /\ DOMAIN Over(f, g) = DOMAIN f \cup DOMAIN g
           /\ \A o \in DOMAIN f : Over(f, g)[o] = f[o]
           /\ \A o \in DOMAIN g \ DOMAIN f : Over(f, g)[o] = g[o]
  BY DEF Over

\* The options that are numbers.
Numeric(f) == \A o \in DOMAIN f \cap Numbers : f[o] \in Int \ {Unset}

\* A layer of numbers over a layer of numbers is one.
LEMMA MergeNumeric ==
    ASSUME NEW f, NEW g, Numeric(f), Numeric(g)
    PROVE  Numeric(Over(f, g))
<1>. SUFFICES ASSUME NEW o \in DOMAIN Over(f, g) \cap Numbers
              PROVE  Over(f, g)[o] \in Int \ {Unset}
  BY DEF Numeric
<1>1. CASE o \in DOMAIN f
  BY <1>1 DEF Numeric, Over
<1>2. CASE o \in DOMAIN g \ DOMAIN f
  BY <1>2 DEF Numeric, Over
<1>. QED
  BY <1>1, <1>2 DEF Over

\* Of the options that are numbers, five have a default of their own.
LEMMA NumbersAre ==
    /\ Numbers \subseteq DOMAIN Defaults
    /\ \A o \in Numbers : Defaults[o] \in Int
    /\ \A o \in {"max_steps", "min_improvement", "degradation_patience", "early_stopping_patience",
                 "target_patience"} : Defaults[o] # Unset
<1>1. Numbers \subseteq DOMAIN Defaults
  BY SMT DEF Defaults, Numbers
<1>2. \A o \in Numbers : Defaults[o] \in Int
  BY SMT DEF Defaults, Numbers, Unset
<1>3. \A o \in {"max_steps", "min_improvement", "degradation_patience", "early_stopping_patience",
                 "target_patience"} : Defaults[o] # Unset
  BY SMT DEF Defaults, Unset
<1>. QED
  BY <1>1, <1>2, <1>3

\* What a caller asks for comes before everything else, and what nobody asks for is left
\* open or has its default.
LEMMA ResolveKeeps ==
    ASSUME NEW caller \in Requests
    PROVE  LET request == Asked(caller)   v == Resolve(request)
           IN  /\ DOMAIN Defaults \subseteq DOMAIN v
               /\ \A o \in Numbers : v[o] \in Int /\ (v[o] = Unset => Defaults[o] = Unset)
               /\ \A o \in Numbers \cap DOMAIN request.explicit :
                    v[o] = request.explicit[o] /\ v[o] # Unset
<1> DEFINE request == Asked(caller)
           v       == Resolve(request)
           named   == IF caller.model \in DOMAIN SuffixBackend
                      THEN [backend |-> SuffixBackend[caller.model]] ELSE [o \in {} |-> Unset]
           file    == Over(request.config, Defaults)
           given   == Over(request.environment, file)
<1>1. /\ Layers \subseteq DOMAIN caller
      /\ \A layer \in Layers : Numeric(caller[layer])
  BY RequestAssumption DEF Numeric
<1>2. Numeric(named)
  <2>1. "backend" \notin Numbers
    BY SMT DEF Numbers
  <2>2. DOMAIN named \subseteq {"backend"}
    OBVIOUS
  <2>. QED
    BY <2>1, <2>2 DEF Numeric
<1>3. Numeric(Options(caller))
  <2>1. Numeric(caller.explicit) /\ Numeric(caller.settings) /\ Numeric(caller.engine)
    BY <1>1 DEF Layers
  <2>2. Numeric(EngineOptions(caller))
    BY <2>1, MergeNumeric DEF EngineOptions
  <2>. QED
    BY <1>2, <2>2, MergeNumeric DEF Options
<1>4. /\ request.explicit = Options(caller)
      /\ request.environment = caller.environment /\ request.config = caller.config
  BY <1>1 DEF Asked, Layers
<1>5. Numeric(request.explicit) /\ Numeric(request.environment) /\ Numeric(request.config)
  BY <1>1, <1>3, <1>4 DEF Layers
<1>6. v = Over(request.explicit, given)
  BY DEF Resolve
<1>. HIDE DEF v, request
<1>7. /\ DOMAIN Defaults \subseteq DOMAIN file
      /\ \A o \in Numbers : file[o] \in Int /\ (file[o] = Unset => Defaults[o] = Unset)
  <2>1. ASSUME NEW o \in Numbers
        PROVE  file[o] \in Int /\ (file[o] = Unset => Defaults[o] = Unset)
    <3>1. CASE o \in DOMAIN request.config
      BY <1>5, <3>1 DEF Numeric, Over
    <3>2. CASE o \notin DOMAIN request.config
      BY <3>2, NumbersAre DEF Over
    <3>. QED
      BY <3>1, <3>2
  <2>. QED
    BY <2>1 DEF Over
<1>. HIDE DEF file
<1>8. /\ DOMAIN Defaults \subseteq DOMAIN given
      /\ \A o \in Numbers : given[o] \in Int /\ (given[o] = Unset => Defaults[o] = Unset)
  <2>1. ASSUME NEW o \in Numbers
        PROVE  given[o] \in Int /\ (given[o] = Unset => Defaults[o] = Unset)
    <3>1. CASE o \in DOMAIN request.environment
      BY <1>5, <3>1 DEF Numeric, Over
    <3>2. CASE o \notin DOMAIN request.environment
      BY <1>7, <3>2, NumbersAre DEF Over
    <3>. QED
      BY <3>1, <3>2
  <2>. QED
    BY <1>7, <2>1 DEF Over
<1>. HIDE DEF given
<1>9. /\ DOMAIN Defaults \subseteq DOMAIN v
      /\ \A o \in Numbers : v[o] \in Int /\ (v[o] = Unset => Defaults[o] = Unset)
  <2>1. ASSUME NEW o \in Numbers
        PROVE  v[o] \in Int /\ (v[o] = Unset => Defaults[o] = Unset)
    <3>1. CASE o \in DOMAIN request.explicit
      BY <1>5, <1>6, <3>1 DEF Numeric, Over
    <3>2. CASE o \notin DOMAIN request.explicit
      BY <1>6, <1>8, <3>2, NumbersAre DEF Over
    <3>. QED
      BY <3>1, <3>2
  <2>. QED
    BY <1>6, <1>8, <2>1 DEF Over
<1>10. \A o \in Numbers \cap DOMAIN request.explicit : v[o] = request.explicit[o] /\ v[o] # Unset
  BY <1>5, <1>6 DEF Numeric, Over
<1>. QED
  BY <1>9, <1>10 DEF v, request

-----------------------------------------------------------------------------
(* Packs.                                                                  *)

\* The packs of the users are well formed.
TableInv ==
    \A n \in DOMAIN table :
        DOMAIN table[n] = {"base", "algorithms", "overrides"} /\ ValidRecord(table[n])

\* The knobs that the settings of a run are filled from.
Used == {"prefetch", "data_workers", "native_thread_fraction", "chunk_target_records"}

\* An override of one of these knobs is a natural number.
LEMMA UsedAre ==
    /\ Used \subseteq Knobs
    /\ \A k \in Used : OverrideRule[k] \subseteq Nat
<1>1. Million \in Nat
  BY SMT DEF Million
<1>2. /\ {"data_workers", "prefetch", "native_thread_fraction", "chunk_target_records"}
            \subseteq Knobs
      /\ OverrideRule["data_workers"] \subseteq Nat /\ OverrideRule["prefetch"] \subseteq Nat
      /\ OverrideRule["native_thread_fraction"] \subseteq Nat
      /\ OverrideRule["chunk_target_records"] \subseteq Nat
  BY <1>1, SMT DEF Knobs, OverrideRule
<1>. QED
  BY <1>2 DEF Used

\* The packs that are built in are complete.
LEMMA BuiltinsAre ==
    \A n \in BuiltinNames :
        LET p == BUILTIN_ALGORITHM_PACKS[n]
        IN  /\ p.profile \in Profiles /\ p.algorithms \subseteq PACK_ALGORITHMS
            /\ \A k \in Used : k \in DOMAIN p.knobs /\ p.knobs[k] \in Nat
<1>. SUFFICES ASSUME NEW n \in BuiltinNames
              PROVE  LET p == BUILTIN_ALGORITHM_PACKS[n]
                     IN  /\ p.profile \in Profiles /\ p.algorithms \subseteq PACK_ALGORITHMS
                         /\ \A k \in Used : k \in DOMAIN p.knobs /\ p.knobs[k] \in Nat
  OBVIOUS
<1>1. CASE n = "careful"
  BY SMT, <1>1 DEF BUILTIN_ALGORITHM_PACKS, Profiles, PACK_ALGORITHMS, Used
<1>2. CASE n = "balanced"
  BY SMT, <1>2 DEF BUILTIN_ALGORITHM_PACKS, Profiles, PACK_ALGORITHMS, Used
<1>3. CASE n = "throughput"
  BY SMT, <1>3 DEF BUILTIN_ALGORITHM_PACKS, Profiles, PACK_ALGORITHMS, Used
<1>4. CASE n = "maximum"
  BY SMT, <1>4 DEF BUILTIN_ALGORITHM_PACKS, Profiles, PACK_ALGORITHMS, Used
<1>. QED
  BY <1>1, <1>2, <1>3, <1>4 DEF BuiltinNames

\* A legacy profile names the built-in pack of that profile.
LEMMA LegacyPackIs ==
    /\ \A x \in DOMAIN LegacyProfilePack : LegacyProfilePack[x] \in BuiltinNames
    /\ \A p \in Profiles : /\ p \in DOMAIN LegacyProfilePack /\ p # "auto"
                          /\ BUILTIN_ALGORITHM_PACKS[LegacyProfilePack[p]].profile = p
    /\ \A n \in BuiltinNames : LegacyProfilePack[BUILTIN_ALGORITHM_PACKS[n].profile] = n
<1>1. \A x \in DOMAIN LegacyProfilePack : LegacyProfilePack[x] \in BuiltinNames
  BY SMT DEF LegacyProfilePack, BuiltinNames
<1>2. \A p \in Profiles : p \in DOMAIN LegacyProfilePack /\ p # "auto"
  BY SMT DEF LegacyProfilePack, Profiles
<1>3. /\ LegacyProfilePack["low-memory"] = "careful" /\ LegacyProfilePack["balanced"] = "balanced"
      /\ LegacyProfilePack["performance"] = "throughput"
      /\ LegacyProfilePack["workstation"] = "maximum"
  BY SMT DEF LegacyProfilePack
<1>4. /\ BUILTIN_ALGORITHM_PACKS["careful"].profile = "low-memory"
      /\ BUILTIN_ALGORITHM_PACKS["balanced"].profile = "balanced"
      /\ BUILTIN_ALGORITHM_PACKS["throughput"].profile = "performance"
      /\ BUILTIN_ALGORITHM_PACKS["maximum"].profile = "workstation"
  BY SMT DEF BUILTIN_ALGORITHM_PACKS
<1>5. \A p \in Profiles : BUILTIN_ALGORITHM_PACKS[LegacyProfilePack[p]].profile = p
  BY <1>3, <1>4 DEF Profiles
<1>6. \A n \in BuiltinNames : LegacyProfilePack[BUILTIN_ALGORITHM_PACKS[n].profile] = n
  BY <1>3, <1>4 DEF BuiltinNames
<1>. QED
  BY <1>1, <1>2, <1>5, <1>6

\* A known pack has the profile of its base, and knobs that are numbers.
LEMMA PackIs ==
    ASSUME TableInv, NEW name, Known(table, name)
    PROVE  LET pack == GetAlgorithmPack(table, name)
           IN  /\ pack.name = name /\ (name \in BuiltinNames => pack.base = name)
               /\ pack.base \in BuiltinNames /\ pack.algorithms \subseteq PACK_ALGORITHMS
               /\ pack.profile = BUILTIN_ALGORITHM_PACKS[pack.base].profile
               /\ pack.profile \in Profiles
               /\ pack.knobs.prefetch \in Nat /\ pack.knobs.data_workers \in Nat
               /\ pack.knobs.native_thread_fraction \in Int
               /\ pack.knobs.chunk_target_records \in Int
<1> DEFINE own   == name \in BuiltinNames
           base  == IF own THEN name ELSE table[name].base
           algorithms == IF own THEN BUILTIN_ALGORITHM_PACKS[name].algorithms
                         ELSE table[name].algorithms
           knobs == BUILTIN_ALGORITHM_PACKS[base].knobs
           chosen == IF own THEN knobs
                     ELSE [k \in Knobs |-> IF k \in DOMAIN table[name].overrides
                                           THEN table[name].overrides[k] ELSE knobs[k]]
           pack == GetAlgorithmPack(table, name)
<1>1. /\ base \in BuiltinNames /\ algorithms \subseteq PACK_ALGORITHMS
      /\ name \in BuiltinNames => base = name
  BY BuiltinsAre DEF TableInv, Known, ValidRecord
<1>2. \A k \in Used : k \in DOMAIN knobs /\ knobs[k] \in Nat
  BY <1>1, BuiltinsAre
<1>3. \A k \in Used : k \in DOMAIN chosen /\ chosen[k] \in Nat
  <2>1. CASE own
    BY <1>2, <2>1
  <2>2. CASE ~own
    <3>1. ValidOverrides(table[name].overrides)
      BY <2>2 DEF TableInv, Known, ValidRecord
    <3>. HIDE DEF knobs
    <3>. QED
      BY <1>2, <2>2, <3>1, UsedAre DEF ValidOverrides
  <2>. QED
    BY <2>1, <2>2
<1>. HIDE DEF base, algorithms, chosen
<1>4. pack = [name |-> name, base |-> base, algorithms |-> algorithms,
              profile |-> BUILTIN_ALGORITHM_PACKS[base].profile,
              knobs |-> ApplyAlgorithmEffects(chosen, algorithms)]
  BY DEF GetAlgorithmPack, base, algorithms, chosen
<1>5. LET effect == ApplyAlgorithmEffects(chosen, algorithms)
      IN  /\ effect.prefetch \in Nat /\ effect.data_workers \in Nat
          /\ effect.native_thread_fraction \in Int /\ effect.chunk_target_records \in Int
  BY <1>3, SMT DEF ApplyAlgorithmEffects, AtMost, Used
<1>. QED
  BY <1>1, <1>4, <1>5, BuiltinsAre

-----------------------------------------------------------------------------
(* Plans.                                                                  *)

\* The settings that train() hands to create() and that must come out in the run.
Handed == Settings \cup {"execution", "backend", "contract", "profile", "max_steps", "split_policy"}

\* What create() meets in the plan it is given: nothing it would refuse, and nothing it
\* would change when it fills, checks and clamps everything again.
Accepted(p) ==
    /\ DOMAIN Defaults \cup {"contract", "batch", "mode", "split_policy"} \subseteq DOMAIN p
    /\ \A o \in Settings \cup {"max_steps", "degradation_margin"} : p[o] \in PlanRange[o]
    /\ \A o \in CreateChecks : p[o] = Unset \/ p[o] \in PlanRange[o]
    /\ p.profile \in Profiles
    /\ ~TargetRefused(p.execution, Hardware.gpu) /\ p.execution # "auto"
    /\ p.execution = "cpu" => p.gpu = 0
    /\ p.contract = TrainingContract(p.architecture, p.model_format, p.backend)
    /\ p.contract # {} /\ p.backend \in Backends
    /\ p.batch.applied \in Int /\ p.batch.applied >= 1
    /\ p.target_metric \in Int /\ p.target_metric >= -10000
    /\ p.algorithm_pack \in BuiltinNames =>
            BUILTIN_ALGORITHM_PACKS[p.algorithm_pack].profile = p.profile

\* What a plan takes over from the options of the call.
Heeds(p, explicit) ==
    /\ \A o \in PlannedAsGiven \cap DOMAIN explicit : p[o] = explicit[o]
    /\ "batch_size" \in DOMAIN explicit =>
            explicit.batch_size \in Int /\ p.batch.applied <= explicit.batch_size

\* How the rows of a data set are to be divided, and what follows for how it is read.
Suits(p, d) ==
    /\ p.split_policy = SplitPolicy(d) /\ p.mode \in {"memory", "stream"}
    /\ p.split_policy = "context" /\ d.streamable => p.mode = "stream"

\* Rounding gives an integer.
LEMMA RoundedIs ==
    ASSUME NEW n \in Int, NEW d \in Nat \ {0}
    PROVE  Rounded(n, d) \in Int
<1>1. n \div d \in Int
  OBVIOUS
<1>. QED
  BY <1>1 DEF Rounded

\* There is always a thread to train with.
LEMMA ThreadsAre ==
    ASSUME NEW cpu \in Int, NEW fraction \in Int
    PROVE  DefaultThreads(Hardware.cpu_threads, cpu, fraction) \in Nat \ {0}
<1>1. Hardware.cpu_threads * cpu * fraction \in Int
  BY HardwareAssumption
<1>2. Rounded(Hardware.cpu_threads * cpu * fraction, 10000) \in Int
  BY <1>1, RoundedIs
<1>. QED
  BY <1>2, HardwareAssumption DEF DefaultThreads, Most, Least

\* The number of records a plan is made for, and their features.
LEMMA EstimateIs ==
    ASSUME NEW name \in DOMAIN Sources
    PROVE  RecordsEstimate(Sources[name]) \in Nat /\ Sources[name].features \in Nat \ {0}
  BY SourceAssumption DEF RecordsEstimate, Most

\* A backend with a training contract is one of the backends.
LEMMA ContractIs ==
    ASSUME NEW architecture, NEW format, NEW backend,
           TrainingContract(architecture, format, backend) # {}
    PROVE  backend \in Backends
<1>1. \E a \in DOMAIN ArchitectureBackends : backend \in ArchitectureBackends[a]
  BY DEF TrainingContract
<1>2. \A a \in DOMAIN ArchitectureBackends : ArchitectureBackends[a] \subseteq Backends
  BY SMT DEF ArchitectureBackends, Backends
<1>. QED
  BY <1>1, <1>2

\* Whatever is left open is filled with something, and nothing else is touched.
LEMMA FilledIs ==
    ASSUME NEW v, NEW pack, NEW execution, \A o \in Settings : v[o] \in Int,
           pack.knobs.prefetch \in Nat, pack.knobs.data_workers \in Nat,
           pack.knobs.native_thread_fraction \in Int
    PROVE  LET s == Filled(v, pack, execution)
           IN  /\ \A o \in Settings : /\ o \in DOMAIN s /\ s[o] \in Int
                                      /\ v[o] # Unset => s[o] = v[o]
               /\ \A o \in Settings \ {"data_workers"} : s[o] # Unset
               /\ s.threads >= 1 => s.data_workers # Unset
               /\ DOMAIN s \subseteq Settings
<1> DEFINE cpu     == Or(v.cpu, 70)
           most    == DefaultThreads(Hardware.cpu_threads, cpu, pack.knobs.native_thread_fraction)
           threads == Or(v.threads, most)
           workers == DefaultWorkers(pack, threads)
           s == Filled(v, pack, execution)
<1>1. /\ v.cpu \in Int /\ v.ram \in Int /\ v.gpu \in Int /\ v.threads \in Int
      /\ v.data_workers \in Int /\ v.prefetch \in Int
  BY DEF Settings
<1>2. cpu \in Int /\ cpu # Unset
  BY <1>1 DEF Or, Unset
<1>3. most \in Nat \ {0}
  BY <1>2, ThreadsAre
<1>. HIDE DEF cpu, most
<1>4. threads \in Int /\ threads # Unset
  BY <1>1, <1>3 DEF Or, Unset
<1>. HIDE DEF threads
<1>5. workers \in Int /\ (threads >= 1 => workers # Unset)
  BY <1>4 DEF DefaultWorkers, Least, Unset
<1>. HIDE DEF workers
<1>6. s = [cpu |-> cpu, ram |-> Or(v.ram, 70), threads |-> threads,
           gpu |-> Or(v.gpu, IF execution = "hybrid" THEN 70 ELSE 0),
           data_workers |-> Or(v.data_workers, workers),
           prefetch |-> Or(v.prefetch, pack.knobs.prefetch)]
  BY DEF Filled, cpu, most, threads, workers
<1>. HIDE DEF s
<1>7. /\ s.cpu = cpu /\ s.ram = Or(v.ram, 70) /\ s.threads = threads
      /\ s.gpu = Or(v.gpu, IF execution = "hybrid" THEN 70 ELSE 0)
      /\ s.data_workers = Or(v.data_workers, workers)
      /\ s.prefetch = Or(v.prefetch, pack.knobs.prefetch)
  BY <1>6
<1>8. /\ \A o \in Settings : o \in DOMAIN s
      /\ DOMAIN s \subseteq Settings
  BY <1>6, SMT DEF Settings
<1>9. \A o \in Settings : s[o] \in Int /\ (v[o] # Unset => s[o] = v[o])
  BY <1>1, <1>2, <1>4, <1>5, <1>7 DEF Settings, Or, cpu, threads
<1>10. /\ \A o \in Settings \ {"data_workers"} : s[o] # Unset
       /\ s.threads >= 1 => s.data_workers # Unset
  <2>1. s.cpu # Unset /\ s.ram # Unset /\ s.gpu # Unset /\ s.threads # Unset
    BY <1>1, <1>2, <1>4, <1>7 DEF Or, Unset
  <2>2. s.prefetch # Unset /\ (s.threads >= 1 => s.data_workers # Unset)
    BY <1>1, <1>5, <1>7 DEF Or, Unset
  <2>3. ASSUME NEW o \in Settings \ {"data_workers"} PROVE s[o] # Unset
    BY <2>1, <2>2 DEF Settings
  <2>. QED
    BY <2>2, <2>3
<1>. QED
  BY <1>8, <1>9, <1>10 DEF s

\* A target that plan() lets pass is at least -10.
LEMMA TargetsAre ==
    ASSUME NEW task, NEW x \in TargetRange(task)
    PROVE  x \in Int /\ x >= -10000
<1>1. CASE task = "regression"
  BY <1>1 DEF TargetRange
<1>2. CASE task # "regression"
  BY <1>2 DEF TargetRange
<1>. QED
  BY <1>1, <1>2

\* A plan that plan() does not refuse is accepted by create(), and has the settings the
\* caller asked for.
LEMMA PlanFits ==
    ASSUME TableInv, NEW caller \in Requests, NEW name \in DOMAIN Sources,
           ~PlanRefused(Resolve(Asked(caller)), Sources[name])
    PROVE  LET request == Asked(caller)
               p == PlanOf(Resolve(request), Sources[name])
           IN  /\ Accepted(p) /\ Suits(p, Sources[name]) /\ Heeds(p, request.explicit)
               /\ p.chunk_target \in Nat /\ p.chunk_target >= 128
<1> DEFINE request == Asked(caller)
           v == Resolve(request)
           d == Sources[name]
           pack == GetAlgorithmPack(table, ResolveAlgorithmPack(PackAsked(v)))
           execution == ExecutionTarget(v.execution, Hardware.gpu)
           settings  == Filled(v, pack, execution)
           backend   == FirstOf(SelectBackend(v.backend, execution, Installed))
           contract  == TrainingContract(v.architecture, v.model_format, backend)
           batch     == PlanBatch(RecordsEstimate(d), d.features, pack.profile, settings.ram,
                                  Hardware.ram_gb,
                                  IF v.batch_size = Unset THEN "auto" ELSE "manual", v.batch_size)
           task == PlannedTask(v, d)
           target == Or(v.target_metric, IF task = "regression" THEN 800 ELSE 920)
           margin == Or(v.degradation_margin, IF task = "regression" THEN 50 ELSE 30)
           mode == DataMode(d, pack.knobs.stream_limit)
           data == DataContract(d, pack.knobs.chunk_target_records)
           chosen ==
            [task |-> task, algorithm_pack |-> pack.name, profile |-> pack.profile,
             execution |-> execution, backend |-> backend, contract |-> contract,
             batch |-> batch, target_metric |-> target, degradation_margin |-> margin,
             mode |-> mode]
           p == PlanOf(v, d)
<1>1. /\ DOMAIN Defaults \subseteq DOMAIN v
      /\ \A o \in Numbers : v[o] \in Int /\ (v[o] = Unset => Defaults[o] = Unset)
      /\ \A o \in Numbers \cap DOMAIN request.explicit : v[o] = request.explicit[o] /\ v[o] # Unset
  BY ResolveKeeps
<1>2. Known(table, ResolveAlgorithmPack(PackAsked(v)))
  <2>1. Resolvable(table, PackAsked(v))
    BY DEF PlanRefused
  <2>. QED
    BY <2>1, LegacyPackIs DEF Resolvable, ResolveAlgorithmPack, Known
<1>3. /\ pack.profile \in Profiles
      /\ pack.name \in BuiltinNames => BUILTIN_ALGORITHM_PACKS[pack.name].profile = pack.profile
      /\ pack.knobs.prefetch \in Nat /\ pack.knobs.data_workers \in Nat
      /\ pack.knobs.native_thread_fraction \in Int /\ pack.knobs.chunk_target_records \in Int
  BY <1>2, PackIs
<1>4. Settings \subseteq Numbers
  BY SMT DEF Settings, Numbers
<1>. HIDE DEF request, v, pack
<1>5. /\ \A o \in Settings : /\ o \in DOMAIN settings /\ settings[o] \in Int
                             /\ v[o] # Unset => settings[o] = v[o]
      /\ \A o \in Settings \ {"data_workers"} : settings[o] # Unset
      /\ settings.threads >= 1 => settings.data_workers # Unset
      /\ DOMAIN settings \subseteq Settings
  BY <1>1, <1>3, <1>4, FilledIs
<1>6. p = Over(settings, Over(chosen, Over(data, v)))
  BY DEF PlanOf, pack
<1>7. /\ p.contract # {}
      /\ \A o \in DOMAIN PlanRange : p[o] = Unset \/ p[o] \in PlanRange[o]
      /\ ~(p.execution = "cpu" /\ p.gpu # 0)
      /\ ~TargetRefused(v.execution, Hardware.gpu)
      /\ ~(v.batch_size # Unset /\ v.batch_size < 1)
      /\ p.target_metric \in TargetRange(p.task)
  BY DEF PlanRefused, OutOfRange, v, request
<1>8. /\ DOMAIN data = {"split_policy", "chunk_target"}
      /\ data.chunk_target = Within(128, 262144, pack.knobs.chunk_target_records)
      /\ data.split_policy = SplitPolicy(d)
  BY DEF DataContract
<1>9. /\ {"execution", "backend", "contract", "profile", "batch", "mode", "degradation_margin",
          "algorithm_pack", "target_metric"} \subseteq DOMAIN chosen
      /\ \A o \in {"split_policy", "chunk_target", "architecture", "model_format", "max_steps"}
            \cup (CreateChecks \ {"degradation_margin"}) : o \notin DOMAIN chosen
      /\ chosen.execution = execution /\ chosen.backend = backend /\ chosen.contract = contract
      /\ chosen.profile = pack.profile /\ chosen.batch = batch
      /\ chosen.degradation_margin = margin /\ chosen.mode = mode
      /\ chosen.algorithm_pack = pack.name /\ chosen.target_metric = target
  BY SMT DEF CreateChecks
<1>. HIDE DEF settings, execution, backend, contract, batch, margin, target, mode, task, data, p
<1>. HIDE DEF chosen
<1>10. \A o \in Settings : p[o] = settings[o]
  BY <1>5, <1>6 DEF Over
<1>11. /\ p.execution = execution /\ p.backend = backend /\ p.contract = contract
       /\ p.profile = pack.profile /\ p.batch = batch /\ p.degradation_margin = margin
       /\ p.mode = mode /\ p.algorithm_pack = pack.name /\ p.target_metric = target
  BY <1>5, <1>6, <1>9 DEF Over, Settings
<1>12. {"architecture", "model_format", "max_steps"} \subseteq DOMAIN v
  <2>1. {"architecture", "model_format", "max_steps"} \subseteq DOMAIN Defaults
    BY SMT DEF Defaults
  <2>. QED
    BY <1>1, <2>1
<1>13. /\ p.architecture = v.architecture /\ p.model_format = v.model_format
       /\ p.max_steps = v.max_steps /\ p.chunk_target = data.chunk_target
       /\ p.split_policy = data.split_policy
  BY <1>5, <1>6, <1>8, <1>9, <1>12 DEF Over, Settings
<1>14. DOMAIN Defaults \cup {"contract", "batch", "mode", "split_policy"} \subseteq DOMAIN p
  BY <1>1, <1>6, <1>8, <1>9 DEF Over
<1>15. /\ Settings \cup CreateChecks \cup {"max_steps", "degradation_margin"} \subseteq DOMAIN PlanRange
       /\ PlanRange.threads = 1..Hardware.cpu_threads
  BY SMT DEF PlanRange, Settings, CreateChecks
<1>16. p.max_steps # Unset
  BY <1>1, <1>13, NumbersAre, SMT DEF Numbers
<1>17. p.degradation_margin # Unset
  <2>1. margin # Unset
    BY DEF margin, Or, Unset
  <2>. QED
    BY <1>11, <2>1
<1>18. \A o \in Settings : p[o] \in PlanRange[o]
  <2>1. \A o \in Settings \ {"data_workers"} : p[o] \in PlanRange[o]
    BY <1>5, <1>7, <1>10, <1>15
  <2>2. p.threads \in 1..Hardware.cpu_threads
    BY <1>15, <2>1 DEF Settings
  <2>3. settings.threads >= 1
    BY <1>10, <2>2 DEF Settings
  <2>4. p.data_workers \in PlanRange["data_workers"]
    BY <1>5, <1>7, <1>10, <1>15, <2>3 DEF Settings
  <2>. QED
    BY <2>1, <2>4
<1>19. /\ batch.applied \in Int /\ batch.applied >= 1
       /\ v.batch_size # Unset => batch.applied <= v.batch_size
  <2>1. v.batch_size \in Int
    BY <1>1, SMT DEF Numbers
  <2>2. settings.ram \in Int
    BY <1>5 DEF Settings
  <2>3. /\ RecordsEstimate(d) \in Nat /\ d.features \in Nat /\ Hardware.ram_gb \in Nat
        /\ pack.profile \in Profiles
    BY <1>3, EstimateIs, HardwareAssumption
  <2> DEFINE way == IF v.batch_size = Unset THEN "auto" ELSE "manual"
  <2>4. batch = PlanBatch(RecordsEstimate(d), d.features, pack.profile, settings.ram,
                          Hardware.ram_gb, way, v.batch_size)
    BY DEF batch
  <2>5. way \in {"auto", "manual"}
    OBVIOUS
  <2>. HIDE DEF d, way
  <2>6. /\ batch.applied \in Int /\ batch.applied >= 1
        /\ way = "manual" => batch.applied <= Most(1, v.batch_size)
    BY <2>1, <2>2, <2>3, <2>4, <2>5, PlanBatchFits
  <2>7. v.batch_size # Unset => way = "manual" /\ Most(1, v.batch_size) = v.batch_size
    BY <1>7, <2>1 DEF way, Most
  <2>. QED
    BY <2>6, <2>7
<1>20. ~TargetRefused(execution, Hardware.gpu) /\ execution # "auto"
  BY <1>7 DEF TargetRefused, ExecutionTarget, execution
<1>21. p.chunk_target \in Nat /\ p.chunk_target >= 128
  BY <1>3, <1>8, <1>13 DEF Within, Most, Least
<1>22. p.contract = TrainingContract(p.architecture, p.model_format, p.backend)
  BY <1>11, <1>13 DEF contract
<1>23. p.backend \in Backends
  BY <1>7, <1>22, ContractIs
<1>24. Accepted(p)
  <2>1. p.target_metric \in TargetRange(p.task)
    BY <1>7
  <2>2. p.target_metric \in Int /\ p.target_metric >= -10000
    BY <2>1, TargetsAre
  <2>. QED
    BY <1>3, <1>7, <1>10, <1>11, <1>14, <1>15, <1>16, <1>17, <1>18, <1>19, <1>20, <1>22, <1>23,
       <2>2
    DEF Accepted
<1>25. Heeds(p, request.explicit)
  <2>1. {"max_steps", "target_metric", "batch_size"} \subseteq Numbers
    BY SMT DEF Numbers
  <2>2. \A o \in Settings \cap DOMAIN request.explicit : p[o] = request.explicit[o]
    BY <1>1, <1>4, <1>5, <1>10
  <2>3. "max_steps" \in DOMAIN request.explicit => p.max_steps = request.explicit.max_steps
    BY <1>1, <1>13, <2>1
  <2>4. "target_metric" \in DOMAIN request.explicit =>
            p.target_metric = request.explicit.target_metric
    BY <1>1, <1>11, <2>1 DEF target, Or
  <2>5. "batch_size" \in DOMAIN request.explicit =>
            /\ request.explicit.batch_size \in Int
            /\ p.batch.applied <= request.explicit.batch_size
    BY <1>1, <1>11, <1>19, <2>1
  <2>. QED
    BY <2>2, <2>3, <2>4, <2>5 DEF Heeds, PlannedAsGiven
<1>26. Suits(p, d)
  BY <1>8, <1>11, <1>13 DEF Suits, DataMode, mode
<1>. QED
  BY <1>21, <1>24, <1>25, <1>26 DEF p, v, request

-----------------------------------------------------------------------------
(* Runs.                                                                   *)

\* The record create() makes.
LEMMA RunIs ==
    ASSUME NEW owner, NEW c
    PROVE  LET r    == RunOf(owner, c)
               pack == GetAlgorithmPack(table, RunPack(c))
               settings == Filled(Forced(c), pack, ExecutionTarget(c.execution, Hardware.gpu))
           IN  /\ r.owner = owner /\ r.dataset = <<c.dataset, c.mode>>
               /\ r.objective = c.objective
               /\ r.backend = c.backend /\ r.split_policy = c.split_policy
               /\ r.contract = TrainingContract(c.architecture, c.model_format, c.backend)
               /\ r.profile = pack.profile
               /\ r.execution = ExecutionTarget(c.execution, Hardware.gpu)
               /\ r.batch = PlanBatch(Len(Sources[c.dataset].labels), Sources[c.dataset].features,
                                      pack.profile, settings.ram, Hardware.ram_gb,
                                      c.batch_mode, c.batch_size)
               /\ r.algorithm_pack = pack.name
               /\ r.target_score = Within(IF c.objective = "regression" THEN -10000 ELSE 500,
                                          999, c.target_metric)
               /\ r.max_steps = Within(1, MostSteps, c.max_steps)
               /\ r.data_workers = Within(0, 64, settings.data_workers)
               /\ r.prefetch = Within(0, 32, settings.prefetch)
               /\ r.cpu = settings.cpu /\ r.ram = settings.ram /\ r.gpu = settings.gpu
               /\ r.threads = settings.threads
               /\ "degradation_margin" \in DOMAIN r
               /\ r.degradation_margin = Or(c.degradation_margin,
                                            IF c.objective = "regression" THEN 50 ELSE 30)
               /\ \A o \in CreateChecks \ {"degradation_margin"} : o \notin DOMAIN r
<1> DEFINE d == Sources[c.dataset]
           pack == GetAlgorithmPack(table, RunPack(c))
           execution == ExecutionTarget(c.execution, Hardware.gpu)
           settings  == Filled(Forced(c), pack, execution)
           contract  == TrainingContract(c.architecture, c.model_format, c.backend)
           score == Within(IF c.objective = "regression" THEN -10000 ELSE 500, 999, c.target_metric)
           batch == PlanBatch(Len(d.labels), d.features, pack.profile, settings.ram,
                              Hardware.ram_gb, c.batch_mode, c.batch_size)
           steps    == Within(1, MostSteps, c.max_steps)
           workers  == Within(0, 64, settings.data_workers)
           ahead == Within(0, 32, settings.prefetch)
           margin   == Or(c.degradation_margin, IF c.objective = "regression" THEN 50 ELSE 30)
           chosen ==
            [owner |-> owner, dataset |-> <<c.dataset, c.mode>>, objective |-> c.objective,
             backend |-> c.backend, contract |-> contract, profile |-> pack.profile,
             execution |-> execution, algorithm_pack |-> pack.name, target_score |-> score,
             batch |-> batch, max_steps |-> steps, data_workers |-> workers,
             prefetch |-> ahead, degradation_margin |-> margin,
             split_policy |-> c.split_policy]
           r == RunOf(owner, c)
<1>1. r = Over(chosen, settings)
  BY DEF RunOf
<1>2. /\ {"owner", "dataset", "objective", "backend", "split_policy", "contract", "profile", "execution", "batch",
          "max_steps", "data_workers", "prefetch", "degradation_margin", "algorithm_pack",
          "target_score"} \subseteq DOMAIN chosen
      /\ \A o \in {"cpu", "ram", "gpu", "threads"} \cup (CreateChecks \ {"degradation_margin"}) :
            o \notin DOMAIN chosen
      /\ chosen.owner = owner /\ chosen.dataset = <<c.dataset, c.mode>>
      /\ chosen.objective = c.objective
      /\ chosen.backend = c.backend /\ chosen.split_policy = c.split_policy
      /\ chosen.contract = contract /\ chosen.profile = pack.profile
      /\ chosen.execution = execution /\ chosen.batch = batch /\ chosen.max_steps = steps
      /\ chosen.data_workers = workers /\ chosen.prefetch = ahead
      /\ chosen.degradation_margin = margin
      /\ chosen.algorithm_pack = pack.name /\ chosen.target_score = score
  <2>. HIDE DEF d, pack, execution, settings, contract, score, batch, steps, workers, ahead, margin
  <2>. QED
    BY SMT DEF CreateChecks
<1>3. /\ {"cpu", "ram", "gpu", "threads"} \subseteq DOMAIN settings
      /\ \A o \in CreateChecks : o \notin DOMAIN settings
  BY SMT DEF Filled, CreateChecks
<1>. HIDE DEF chosen, settings, batch, r, steps, workers, ahead, margin, contract, execution, pack,
             score
<1>4. /\ r.owner = owner /\ r.dataset = <<c.dataset, c.mode>>
      /\ r.objective = c.objective
      /\ r.backend = c.backend /\ r.split_policy = c.split_policy
      /\ r.contract = contract /\ r.profile = pack.profile
      /\ r.execution = execution /\ r.batch = batch /\ r.max_steps = steps
      /\ r.data_workers = workers /\ r.prefetch = ahead
      /\ "degradation_margin" \in DOMAIN r /\ r.degradation_margin = margin
      /\ r.algorithm_pack = pack.name /\ r.target_score = score
  BY <1>1, <1>2 DEF Over
<1>5. /\ r.cpu = settings.cpu /\ r.ram = settings.ram /\ r.gpu = settings.gpu
      /\ r.threads = settings.threads
      /\ \A o \in CreateChecks \ {"degradation_margin"} : o \notin DOMAIN r
  BY <1>1, <1>2, <1>3 DEF Over
<1>. QED
  BY <1>4, <1>5
  DEF r, settings, pack, execution, contract, batch, steps, workers, ahead, margin, score

\* What the batch of a run keeps to.
FitsRun(r, name) ==
    BatchIsBounded(r.batch, TrainRecords(Len(Sources[name].labels)),
                   SampleMemory(Sources[name].features),
                   UsableMemory(r.profile, r.ram, Hardware.ram_gb))

\* Its batch fits the rows of its data set and its memory.
LEMMA RunFits ==
    ASSUME TableInv, NEW owner, NEW c, c.dataset \in DOMAIN Sources,
           {"cpu", "ram", "gpu"} \subseteq DOMAIN c, c.ram \in Int, c.batch_size \in Int,
           c.batch_mode \in {"auto", "manual"}, Resolvable(table, PackAsked(c))
    PROVE  LET b == RunOf(owner, c).batch
           IN  /\ FitsRun(RunOf(owner, c), c.dataset)
               /\ b.mode = c.batch_mode /\ b.applied \in Int
               /\ c.batch_mode = "manual" => b.applied <= Most(1, c.batch_size)
<1> DEFINE d == Sources[c.dataset]
           pack == GetAlgorithmPack(table, RunPack(c))
           settings == Filled(Forced(c), pack, ExecutionTarget(c.execution, Hardware.gpu))
           r == RunOf(owner, c)
<1>1. Known(table, RunPack(c))
  BY LegacyPackIs DEF Resolvable, ResolveAlgorithmPack, Known, RunPack
<1>2. pack.profile \in Profiles
  BY <1>1, PackIs
<1>3. settings.ram \in Int
  <2>1. Forced(c).ram \in Int
    BY DEF Forced, Within, Most, Least
  <2>2. settings.ram = Or(Forced(c).ram, 70)
    BY DEF Filled
  <2>. QED
    BY <2>1, <2>2 DEF Or
<1>4. Len(d.labels) \in Nat /\ d.features \in Nat /\ Hardware.ram_gb \in Nat
  BY SourceAssumption, HardwareAssumption
<1>5. /\ r.batch = PlanBatch(Len(d.labels), d.features, pack.profile, settings.ram,
                             Hardware.ram_gb, c.batch_mode, c.batch_size)
      /\ r.profile = pack.profile /\ r.ram = settings.ram
  BY RunIs
<1>. HIDE DEF settings, pack, d, r
<1>6. BatchIsBounded(r.batch, TrainRecords(Len(d.labels)), SampleMemory(d.features),
                     UsableMemory(r.profile, r.ram, Hardware.ram_gb))
  BY <1>2, <1>3, <1>4, <1>5, PlanBatchFits
<1>7. /\ r.batch.mode = c.batch_mode /\ r.batch.applied \in Int
      /\ c.batch_mode = "manual" => r.batch.applied <= Most(1, c.batch_size)
  <2>1. r.batch.applied \in Int
    BY <1>2, <1>3, <1>4, <1>5, <1>6, PlanBatchFits
  <2>2. r.batch.mode = c.batch_mode
    BY <1>2, <1>3, <1>4, <1>5, <1>6, PlanBatchFits
  <2>3. ASSUME c.batch_mode = "manual" PROVE r.batch.applied <= Most(1, c.batch_size)
    BY <1>2, <1>3, <1>4, <1>5, <1>6, <2>3, PlanBatchFits
  <2>. QED
    BY <2>1, <2>2, <2>3
<1>. QED
  BY <1>6, <1>7 DEF FitsRun, d, r

\* What train() passes on from the plan.
Carried == Handed \cup CreateChecks \cup {"architecture", "model_format", "mode", "target_metric"}

\* What create() is called with: the plan, and what belongs to the data.
LEMMA ConfigIs ==
    ASSUME Accepted(call.plan)
    PROVE  LET p == call.plan   c == ConfigOf(p)
           IN  /\ c.objective = TrueTask(Data, p.mode) /\ c.dataset = call.source /\ c.accept
               /\ c.batch_mode = (IF "batch_size" \in DOMAIN call.request.explicit
                                  THEN "manual" ELSE "auto")
               /\ c.batch_size = p.batch.applied
               /\ \A o \in Carried : o \in DOMAIN c /\ c[o] = p[o]
<1> DEFINE p == call.plan
           c == ConfigOf(p)
           task == TrueTask(Data, p.mode)
           way  == IF "batch_size" \in DOMAIN call.request.explicit THEN "manual" ELSE "auto"
           size == p.batch.applied
           source == call.source
           first == [objective |-> task, dataset |-> source, accept |-> TRUE,
                     batch_mode |-> way, batch_size |-> size]
<1>1. c = Over(first, p)
  BY DEF ConfigOf
<1>2. /\ {"objective", "dataset", "accept", "batch_mode", "batch_size"} \subseteq DOMAIN first
      /\ first.objective = task /\ first.dataset = source /\ first.accept
      /\ first.batch_mode = way /\ first.batch_size = size
      /\ \A o \in Carried : o \notin DOMAIN first
  BY SMT DEF Carried, Handed, Settings, CreateChecks
<1>3. \A o \in Carried : o \in DOMAIN p
  <2>1. \A o \in Settings \cup CreateChecks \cup {"execution", "backend", "profile", "max_steps",
                                                "architecture", "model_format", "target_metric"} :
            o \in DOMAIN Defaults
    BY SMT DEF Settings, CreateChecks, Defaults
  <2>. QED
    BY <2>1 DEF Accepted, Carried, Handed
<1>. HIDE DEF first, c, p, way, size, source, task
<1>4. /\ c.objective = task /\ c.dataset = source /\ c.accept
      /\ c.batch_mode = way /\ c.batch_size = size
  BY <1>1, <1>2 DEF Over
<1>5. \A o \in Carried : o \in DOMAIN c /\ c[o] = p[o]
  BY <1>1, <1>2, <1>3 DEF Over
<1>. QED
  BY <1>4, <1>5 DEF c, p, task, source, way, size

\* create() makes a run of an accepted plan, with the settings of the plan.
LEMMA RunKeeps ==
    ASSUME TableInv, Accepted(call.plan), call.source \in DOMAIN Sources, NEW owner
    PROVE  LET p == call.plan   c == ConfigOf(p)   r == RunOf(owner, c)
           IN  /\ \A o \in Handed : r[o] = p[o]
               /\ \A o \in CreateChecks : Over(r, c)[o] = p[o]
               /\ Resolvable(table, PackAsked(c)) /\ c.ram \in Int
               /\ BUILTIN_ALGORITHM_PACKS[r.algorithm_pack].profile = p.profile
               /\ p.algorithm_pack \in BuiltinNames => r.algorithm_pack = p.algorithm_pack
               /\ r.target_score = Within(IF c.objective = "regression" THEN -10000 ELSE 500,
                                          999, p.target_metric)
<1> DEFINE p == call.plan
           c == ConfigOf(p)
           pack == GetAlgorithmPack(table, RunPack(c))
           execution == ExecutionTarget(c.execution, Hardware.gpu)
           forced    == Forced(c)
           settings  == Filled(forced, pack, execution)
           r == RunOf(owner, c)
<1>1. c.dataset = call.source /\ \A o \in Carried : o \in DOMAIN c /\ c[o] = p[o]
  BY ConfigIs
<1>. HIDE DEF c
<1>2. /\ PackAsked(c) \in DOMAIN LegacyProfilePack /\ RunPack(c) \in BuiltinNames
      /\ BUILTIN_ALGORITHM_PACKS[RunPack(c)].profile = p.profile
  <2>1. c.profile = p.profile /\ p.profile \in Profiles
    BY <1>1 DEF Accepted, Carried, Handed
  <2>2. PackAsked(c) = p.profile /\ PackAsked(c) \in DOMAIN LegacyProfilePack
    BY <2>1, LegacyPackIs DEF PackAsked
  <2>. QED
    BY <2>1, <2>2, LegacyPackIs DEF RunPack, ResolveAlgorithmPack
<1>3. pack.profile = p.profile /\ pack.name = RunPack(c)
  BY <1>2 DEF GetAlgorithmPack
<1>4. /\ pack.knobs.prefetch \in Nat /\ pack.knobs.data_workers \in Nat
      /\ pack.knobs.native_thread_fraction \in Int
  BY <1>2, PackIs DEF Known
<1>5. execution = p.execution
  BY <1>1 DEF Accepted, Carried, Handed, ExecutionTarget
<1>6. /\ p.cpu \in Int /\ 10 <= p.cpu /\ p.cpu <= 100
      /\ p.ram \in Int /\ 10 <= p.ram /\ p.ram <= 95
      /\ p.gpu \in Int /\ 0 <= p.gpu /\ p.gpu <= 100
      /\ p.threads \in 1..Hardware.cpu_threads
      /\ p.data_workers \in Int /\ 0 <= p.data_workers /\ p.data_workers <= 64
      /\ p.prefetch \in Int /\ 0 <= p.prefetch /\ p.prefetch <= 32
      /\ p.max_steps \in Int /\ 1 <= p.max_steps /\ p.max_steps <= MostSteps
  <2>1. /\ p.cpu \in PlanRange["cpu"] /\ p.ram \in PlanRange["ram"] /\ p.gpu \in PlanRange["gpu"]
        /\ p.threads \in PlanRange["threads"] /\ p.data_workers \in PlanRange["data_workers"]
        /\ p.prefetch \in PlanRange["prefetch"] /\ p.max_steps \in PlanRange["max_steps"]
    BY DEF Accepted, Settings
  <2>2. /\ \A x \in PlanRange["cpu"] : x \in Int /\ 10 <= x /\ x <= 100
        /\ \A x \in PlanRange["ram"] : x \in Int /\ 10 <= x /\ x <= 95
        /\ \A x \in PlanRange["gpu"] : x \in Int /\ 0 <= x /\ x <= 100
        /\ PlanRange["threads"] = 1..Hardware.cpu_threads
        /\ \A x \in PlanRange["data_workers"] : x \in Int /\ 0 <= x /\ x <= 64
        /\ \A x \in PlanRange["prefetch"] : x \in Int /\ 0 <= x /\ x <= 32
        /\ \A x \in PlanRange["max_steps"] : x \in Int /\ 1 <= x /\ x <= MostSteps
    <3>1. MostSteps \in Int
      BY SMT DEF MostSteps
    <3>. QED
      BY <3>1, SMT DEF PlanRange
  <2>. QED
    BY <2>1, <2>2
<1>7. \A o \in Settings : p[o] # Unset
  BY <1>6, HardwareAssumption DEF Settings, Unset
<1>8. \A o \in Settings : forced[o] = p[o] /\ forced[o] \in Int
  <2>1. \A o \in Settings : o \in DOMAIN c /\ c[o] = p[o]
    BY <1>1 DEF Carried, Handed
  <2>2. \A o \in Settings : o \in DOMAIN c => forced[o] = c[o]
    <3>1. c.cpu = p.cpu /\ c.ram = p.ram /\ c.gpu = p.gpu
      BY <2>1 DEF Settings
    <3>2. /\ Within(10, 100, c.cpu) = c.cpu /\ Within(10, 95, c.ram) = c.ram
          /\ Within(0, 100, c.gpu) = c.gpu
      BY <1>6, <3>1 DEF Within, Most, Least
    <3>. QED
      BY <3>2 DEF Forced, Settings
  <2>. QED
    BY <1>6, <2>1, <2>2, HardwareAssumption DEF Settings
<1>. HIDE DEF forced, pack, execution, settings, r, p
<1>9. \A o \in Settings : o \in DOMAIN settings /\ settings[o] = p[o]
  BY <1>4, <1>7, <1>8, FilledIs DEF settings
<1>10. /\ r.owner = owner /\ r.dataset = <<c.dataset, c.mode>>
       /\ r.backend = c.backend /\ r.split_policy = c.split_policy
       /\ r.contract = TrainingContract(c.architecture, c.model_format, c.backend)
       /\ r.profile = pack.profile /\ r.execution = execution
       /\ r.max_steps = Within(1, MostSteps, c.max_steps)
       /\ r.data_workers = Within(0, 64, settings.data_workers)
       /\ r.prefetch = Within(0, 32, settings.prefetch)
       /\ r.cpu = settings.cpu /\ r.ram = settings.ram /\ r.gpu = settings.gpu
       /\ r.threads = settings.threads
       /\ "degradation_margin" \in DOMAIN r
       /\ r.degradation_margin = Or(c.degradation_margin,
                                    IF c.objective = "regression" THEN 50 ELSE 30)
       /\ \A o \in CreateChecks \ {"degradation_margin"} : o \notin DOMAIN r
       /\ r.algorithm_pack = pack.name
       /\ r.target_score = Within(IF c.objective = "regression" THEN -10000 ELSE 500,
                                  999, c.target_metric)
  BY RunIs DEF r, pack, settings, forced, execution
<1>11. /\ c.backend = p.backend /\ c.split_policy = p.split_policy
       /\ c.architecture = p.architecture /\ c.model_format = p.model_format
       /\ c.mode = p.mode /\ c.max_steps = p.max_steps /\ c.ram = p.ram
       /\ c.degradation_margin = p.degradation_margin /\ c.target_metric = p.target_metric
  BY <1>1 DEF Carried, Handed, Settings, CreateChecks
<1>12. /\ r.cpu = p.cpu /\ r.ram = p.ram /\ r.gpu = p.gpu /\ r.threads = p.threads
       /\ r.data_workers = p.data_workers /\ r.prefetch = p.prefetch
  <2>1. /\ settings.cpu = p.cpu /\ settings.ram = p.ram /\ settings.gpu = p.gpu
        /\ settings.threads = p.threads /\ settings.data_workers = p.data_workers
        /\ settings.prefetch = p.prefetch
    BY <1>9 DEF Settings
  <2>2. Within(0, 64, p.data_workers) = p.data_workers /\ Within(0, 32, p.prefetch) = p.prefetch
    BY <1>6 DEF Within, Most, Least
  <2>. QED
    BY <1>10, <2>1, <2>2
<1>13. r.max_steps = p.max_steps
  <2>1. MostSteps \in Int
    BY SMT DEF MostSteps
  <2>2. Within(1, MostSteps, p.max_steps) = p.max_steps
    BY <1>6, <2>1 DEF Within, Most, Least
  <2>. QED
    BY <1>10, <1>11, <2>2
<1>14. r.contract = p.contract
  BY <1>10, <1>11 DEF Accepted, p
<1>15. \A o \in Handed : r[o] = p[o]
  BY <1>3, <1>5, <1>10, <1>11, <1>12, <1>13, <1>14 DEF Handed, Settings
<1>16. r.degradation_margin = p.degradation_margin
  <2>1. p.degradation_margin # Unset
    <3>1. p["degradation_margin"] \in PlanRange["degradation_margin"]
      BY DEF Accepted, p
    <3>2. Unset \notin PlanRange["degradation_margin"]
      BY SMT DEF PlanRange, Unset
    <3>. QED
      BY <3>1, <3>2
  <2>. QED
    BY <1>10, <1>11, <2>1 DEF Or
<1>17. \A o \in CreateChecks : Over(r, c)[o] = p[o]
  BY <1>1, <1>10, <1>16 DEF Over, Carried, CreateChecks
<1>18. Resolvable(table, PackAsked(c)) /\ c.ram \in Int
  BY <1>2, <1>6, <1>11 DEF Resolvable
<1>19. r.algorithm_pack = RunPack(c)
  BY <1>3, <1>10
<1>20. p.algorithm_pack \in BuiltinNames => r.algorithm_pack = p.algorithm_pack
  <2>1. CASE p.algorithm_pack \in BuiltinNames
    <3>1. BUILTIN_ALGORITHM_PACKS[p.algorithm_pack].profile = p.profile
      BY <2>1 DEF Accepted, p
    <3>. QED
      BY <1>2, <1>19, <2>1, <3>1, LegacyPackIs
  <2>. QED
    BY <2>1
<1>. QED
  BY <1>2, <1>10, <1>11, <1>15, <1>17, <1>18, <1>19, <1>20 DEF p, c, r

\* create() does not refuse an accepted plan, and the run is what the plan says.
LEMMA CreateFits ==
    ASSUME TableInv, Accepted(call.plan), call.source \in DOMAIN Sources
    PROVE  LET p == call.plan   r == RunOf("train", ConfigOf(p))
           IN  /\ ~CreateRefused(ConfigOf(p))
               /\ r.owner = "train" /\ r.dataset = <<call.source, p.mode>>
               /\ r.objective = TrueTask(Data, p.mode)
               /\ \A o \in Handed : r[o] = p[o]
               /\ FitsRun(r, call.source)
               /\ r.batch.mode = (IF "batch_size" \in DOMAIN call.request.explicit
                                  THEN "manual" ELSE "auto")
               /\ r.batch.mode = "manual" => r.batch.applied <= p.batch.applied
               /\ r.batch.applied \in Int
               /\ BUILTIN_ALGORITHM_PACKS[r.algorithm_pack].profile = p.profile
               /\ p.algorithm_pack \in BuiltinNames => r.algorithm_pack = p.algorithm_pack
               /\ r.target_score = Within(IF r.objective = "regression" THEN -10000 ELSE 500,
                                          999, p.target_metric)
<1> DEFINE p == call.plan
           c == ConfigOf(p)
           r == RunOf("train", c)
           n == RunOf("nobody", c)
<1>1. /\ c.objective = TrueTask(Data, p.mode) /\ c.dataset = call.source /\ c.accept
      /\ c.batch_mode = (IF "batch_size" \in DOMAIN call.request.explicit
                         THEN "manual" ELSE "auto")
      /\ c.batch_size = p.batch.applied
      /\ \A o \in Carried : o \in DOMAIN c /\ c[o] = p[o]
  BY ConfigIs
<1>2. /\ \A o \in Handed : r[o] = p[o] /\ n[o] = p[o]
      /\ \A o \in CreateChecks : Over(n, c)[o] = p[o]
      /\ Resolvable(table, PackAsked(c)) /\ c.ram \in Int
      /\ BUILTIN_ALGORITHM_PACKS[r.algorithm_pack].profile = p.profile
      /\ p.algorithm_pack \in BuiltinNames => r.algorithm_pack = p.algorithm_pack
      /\ r.target_score = Within(IF c.objective = "regression" THEN -10000 ELSE 500,
                                 999, p.target_metric)
  BY RunKeeps
<1>3. r.owner = "train" /\ r.dataset = <<c.dataset, c.mode>> /\ r.objective = c.objective
  BY RunIs
<1>. HIDE DEF c, r, n
<1>4. /\ c.mode = p.mode /\ c.backend = p.backend /\ c.architecture = p.architecture
      /\ c.model_format = p.model_format /\ c.execution = p.execution
  BY <1>1 DEF Carried, Handed
<1>5. /\ FitsRun(r, call.source) /\ r.batch.mode = c.batch_mode
      /\ c.batch_mode = "manual" => r.batch.applied <= p.batch.applied
      /\ c.batch_size \in Int /\ c.batch_size >= 1 /\ r.batch.applied \in Int
  <2>1. {"cpu", "ram", "gpu"} \subseteq DOMAIN c /\ c.dataset \in DOMAIN Sources
    BY <1>1 DEF Carried, Handed, Settings
  <2>2. c.batch_mode \in {"auto", "manual"} /\ c.batch_size \in Int /\ c.batch_size >= 1
    BY <1>1 DEF Accepted
  <2>3. /\ FitsRun(r, c.dataset) /\ r.batch.mode = c.batch_mode /\ r.batch.applied \in Int
        /\ c.batch_mode = "manual" => r.batch.applied <= Most(1, c.batch_size)
    BY <1>2, <2>1, <2>2, RunFits DEF r
  <2>4. Most(1, c.batch_size) = p.batch.applied
    BY <1>1, <2>2 DEF Most
  <2>. QED
    BY <1>1, <2>2, <2>3, <2>4
<1>6. /\ c.objective = TrueTask(Sources[c.dataset], c.mode) /\ c.backend \in Backends
      /\ TrainingContract(c.architecture, c.model_format, c.backend) # {}
      /\ ~TargetRefused(c.execution, Hardware.gpu)
  BY <1>1, <1>4 DEF Accepted, Data
<1>7. ~(n.execution = "cpu" /\ n.gpu # 0)
  BY <1>2 DEF Accepted, Handed, Settings
<1>8. n.threads \in 1..Hardware.cpu_threads
  <2>1. PlanRange["threads"] = 1..Hardware.cpu_threads
    BY SMT DEF PlanRange
  <2>2. n.threads = p.threads /\ p.threads \in PlanRange["threads"]
    BY <1>2 DEF Accepted, Handed, Settings
  <2>. QED
    BY <2>1, <2>2
<1>9. ~OutOfRange(Over(n, c), CreateChecks)
  BY <1>2 DEF OutOfRange, Accepted
<1>10. ~(c.batch_size < 1)
  BY <1>5
<1>11. ~CreateRefused(c)
  BY <1>1, <1>2, <1>6, <1>7, <1>8, <1>9, <1>10 DEF CreateRefused, n
<1>. QED
  BY <1>1, <1>2, <1>3, <1>4, <1>5, <1>11 DEF c, r

-----------------------------------------------------------------------------
(* The table.                                                              *)

\* Editing the table of packs leaves its records well formed.
LEMMA EditKeepsTable ==
    ASSUME TableInv, EditPacks
    PROVE  TableInv'
<1>1. PICK name \in UserPacks :
        \/ \E source \in BuiltinNames \cup UserPacks, o \in Overrides :
            ~CloneRefused(table, name, source) /\ table' = Cloned(table, name, source, o)
        \/ name \in DOMAIN table /\ table' = Deleted(table, name)
        \/ \E a \in PACK_ALGORITHMS : name \in DOMAIN table /\
            \/ table' = WithAlgorithm(table, name, a)
            \/ table' = WithoutAlgorithm(table, name, a)
  BY DEF EditPacks
<1>2. CASE \E source \in BuiltinNames \cup UserPacks, o \in Overrides :
            ~CloneRefused(table, name, source) /\ table' = Cloned(table, name, source, o)
  <2>1. PICK source \in BuiltinNames \cup UserPacks, o \in Overrides :
            ~CloneRefused(table, name, source) /\ table' = Cloned(table, name, source, o)
    BY <1>2
  <2>2. Known(table, source)
    BY <2>1 DEF CloneRefused
  <2> DEFINE pack == GetAlgorithmPack(table, source)
             new  == [base |-> pack.base, algorithms |-> pack.algorithms, overrides |-> o]
  <2>3. pack.base \in BuiltinNames /\ pack.algorithms \subseteq PACK_ALGORITHMS
    BY <2>2, PackIs
  <2>4. ValidRecord(new)
    BY <2>3, OverridesAssumption DEF ValidRecord
  <2>5. DOMAIN new = {"base", "algorithms", "overrides"}
    <3>. HIDE DEF pack
    <3>. QED
      BY Zenon
  <2>. HIDE DEF new
  <2>6. \A n \in DOMAIN table' :
            IF n \in DOMAIN table THEN table'[n] = table[n] ELSE table'[n] = new
    BY <2>1 DEF Cloned, new
  <2>. QED
    BY <2>4, <2>5, <2>6 DEF TableInv
<1>3. CASE table' = Deleted(table, name)
  BY <1>3 DEF TableInv, Deleted
<1>4. ASSUME NEW a \in PACK_ALGORITHMS, name \in DOMAIN table,
             \/ table' = WithAlgorithm(table, name, a)
             \/ table' = WithoutAlgorithm(table, name, a)
      PROVE  TableInv'
  <2>1. PICK on : on \subseteq PACK_ALGORITHMS
                  /\ table' = [table EXCEPT ![name] = [table[name] EXCEPT !.algorithms = on]]
    <3>1. table[name].algorithms \subseteq PACK_ALGORITHMS
      BY <1>4 DEF TableInv, ValidRecord
    <3>2. CASE table' = WithAlgorithm(table, name, a)
      <4>. WITNESS table[name].algorithms \cup {a}
      <4>. QED
        BY <3>1, <3>2 DEF WithAlgorithm
    <3>3. CASE table' = WithoutAlgorithm(table, name, a)
      <4>. WITNESS table[name].algorithms \ {a}
      <4>. QED
        BY <3>1, <3>3 DEF WithoutAlgorithm
    <3>. QED
      BY <1>4, <3>2, <3>3
  <2>2. DOMAIN table[name] = {"base", "algorithms", "overrides"} /\ ValidRecord(table[name])
    BY <1>4 DEF TableInv
  <2> DEFINE new == [table[name] EXCEPT !.algorithms = on]
  <2>3. DOMAIN new = {"base", "algorithms", "overrides"}
    BY <2>2
  <2>4. ValidRecord(new)
    BY <2>1, <2>2 DEF ValidRecord
  <2>. HIDE DEF new
  <2>5. DOMAIN table' = DOMAIN table
    BY <2>1
  <2>6. \A n \in DOMAIN table : table'[n] = IF n = name THEN new ELSE table[n]
    BY <2>1 DEF new
  <2>. QED
    BY <2>3, <2>4, <2>5, <2>6 DEF TableInv
<1>. QED
  BY <1>1, <1>2, <1>3, <1>4

-----------------------------------------------------------------------------
(* The invariant.                                                          *)

\* The phases in which the call has a plan.
Planned == {"planning", "importing", "imported", "created", "waiting", "returned"}

\* The plan of the call was accepted, and has what the call asked for.
CallInv ==
    call.phase \in Planned =>
        /\ DOMAIN call = {"phase", "source", "plan", "request"}
        /\ call.source \in DOMAIN Sources
        /\ Accepted(call.plan) /\ Suits(call.plan, Sources[call.source])
        /\ Heeds(call.plan, call.request.explicit)

PlanInv == TableInv /\ CallInv /\ PlanIsKept /\ BatchFits

\* Before anything is planned nothing is promised.
LEMMA PlanInvInit == Init => PlanInv
<1>. SUFFICES ASSUME Init PROVE PlanInv
  OBVIOUS
<1>1. TableInv
  BY DEF Init, TableInv
<1>2. call.phase = "idle"
  BY DEF Init, Idle
<1>3. CallInv /\ PlanIsKept /\ BatchFits
  BY <1>2 DEF Init, CallInv, Planned, PlanIsKept, BatchFits
<1>. QED
  BY <1>1, <1>3 DEF PlanInv

\* A step that leaves the plan and the run alone.
LEMMA PhaseKeeps ==
    ASSUME PlanInv, NEW to \in Planned, call.phase \in Planned, call' = [call EXCEPT !.phase = to],
           to \in {"created", "waiting", "returned"} => call.phase \in {"created", "waiting"},
           UNCHANGED <<table, run>>
    PROVE  PlanInv'
<1>1. /\ call'.phase = to /\ call'.source = call.source /\ call'.plan = call.plan
      /\ call'.request = call.request /\ DOMAIN call' = DOMAIN call
  BY DEF PlanInv, CallInv
<1>2. CallInv'
  BY <1>1 DEF PlanInv, CallInv, Planned, Accepted, Suits, Heeds
<1>3. PlanIsKept'
  BY <1>1 DEF PlanInv, PlanIsKept, BatchIsKept, TargetIsKept, PackIsKept, Planned
<1>. QED
  BY <1>2, <1>3 DEF PlanInv, TableInv, BatchFits

\* Nor does a call that raises an error other than that of create().
LEMMA RaiseKeeps ==
    ASSUME PlanInv, NEW why, why # "create", Raise(why), UNCHANGED <<table, run>>
    PROVE  PlanInv'
<1>1. call'.phase = "raised" /\ call'.why = why
  BY DEF Raise
<1>. QED
  BY <1>1 DEF PlanInv, CallInv, Planned, PlanIsKept, BatchFits, TableInv

\* A step that touches neither call, table nor run keeps what was planned.
LEMMA OthersKeepPlan ==
    ASSUME PlanInv, UNCHANGED <<call, table, run>>
    PROVE  PlanInv'
  BY DEF PlanInv, CallInv, Accepted, Suits, Heeds, PlanIsKept, BatchIsKept, TargetIsKept,
         PackIsKept, BatchFits, TableInv

\* plan() raises, or makes a plan that create() will accept.
LEMMA PlanKeepsPlan ==
    ASSUME PlanInv, Plan
    PROVE  PlanInv'
<1>1. PICK caller \in Requests, name \in DOMAIN Sources :
        LET request == Asked(caller)   v == Resolve(request)   d == Sources[name] IN
        IF PlanRefused(v, d)
        THEN Raise("plan")
        ELSE call' = [phase |-> "planning", source |-> name, plan |-> PlanOf(v, d),
                      request |-> request]
  BY DEF Plan
<1>2. UNCHANGED <<table, run>>
  BY DEF Plan
<1> DEFINE request == Asked(caller)
           p == PlanOf(Resolve(request), Sources[name])
<1>3. CASE PlanRefused(Resolve(request), Sources[name])
  BY <1>1, <1>2, <1>3, RaiseKeeps
<1>4. CASE ~PlanRefused(Resolve(request), Sources[name])
  <2>1. Accepted(p) /\ Suits(p, Sources[name]) /\ Heeds(p, request.explicit)
    BY <1>4, PlanFits DEF PlanInv
  <2>2. call' = [phase |-> "planning", source |-> name, plan |-> p, request |-> request]
    BY <1>1, <1>4
  <2>. HIDE DEF p, request
  <2>3. /\ call'.phase = "planning" /\ call'.source = name /\ call'.plan = p
        /\ call'.request = request /\ DOMAIN call' = {"phase", "source", "plan", "request"}
    BY <2>2, Zenon
  <2>4. CallInv'
    BY <2>1, <2>3 DEF CallInv, Accepted, Suits, Heeds
  <2>5. PlanIsKept'
    BY <2>3 DEF PlanIsKept
  <2>. QED
    BY <1>2, <2>4, <2>5 DEF PlanInv, TableInv, BatchFits
<1>. QED
  BY <1>3, <1>4

\* create() makes the run that was planned, if the pack and the data are still there.
LEMMA CreateKeepsPlan ==
    ASSUME PlanInv, Create
    PROVE  PlanInv'
<1>1. call.phase = "imported" /\ table' = table
  BY DEF Create
<1>2. /\ TableInv /\ Accepted(call.plan) /\ Suits(call.plan, Sources[call.source])
      /\ call.source \in DOMAIN Sources
      /\ DOMAIN call = {"phase", "source", "plan", "request"}
      /\ Heeds(call.plan, call.request.explicit)
  BY <1>1 DEF PlanInv, CallInv, Planned
<1> DEFINE r == RunOf("train", ConfigOf(call.plan))
<1>3. /\ ~CreateRefused(ConfigOf(call.plan))
      /\ r.owner = "train" /\ r.dataset = <<call.source, call.plan.mode>>
      /\ \A o \in Handed : r[o] = call.plan[o]
      /\ FitsRun(r, call.source)
      /\ r.batch.mode = (IF "batch_size" \in DOMAIN call.request.explicit
                         THEN "manual" ELSE "auto")
      /\ r.batch.mode = "manual" => r.batch.applied <= call.plan.batch.applied
      /\ r.batch.applied \in Int
      /\ BUILTIN_ALGORITHM_PACKS[r.algorithm_pack].profile = call.plan.profile
      /\ call.plan.algorithm_pack \in BuiltinNames => r.algorithm_pack = call.plan.algorithm_pack
      /\ r.target_score = Within(IF r.objective = "regression" THEN -10000 ELSE 500,
                                 999, call.plan.target_metric)
  BY <1>2, CreateFits
<1>. HIDE DEF r
<1>4. CASE Raise("pack") /\ run' = run
  BY <1>1, <1>4, RaiseKeeps
<1>5. CASE Raise("dataset") /\ run' = run
  BY <1>1, <1>5, RaiseKeeps
<1>6. CASE run' = r /\ Phase("created")
  <2>1. /\ call'.phase = "created" /\ call'.source = call.source /\ call'.plan = call.plan
        /\ call'.request = call.request /\ DOMAIN call' = DOMAIN call
    BY <1>2, <1>6 DEF Phase
  <2>2. CallInv'
    BY <1>2, <2>1 DEF CallInv, Accepted, Suits, Heeds
  <2>3. BatchIsKept'
    <3>1. CASE "batch_size" \in DOMAIN call.request.explicit
      <4>1. r.batch.applied <= call.request.explicit.batch_size
        BY <1>2, <1>3, <3>1 DEF Heeds, Accepted
      <4>. QED
        BY <1>3, <1>6, <2>1, <3>1, <4>1 DEF BatchIsKept
    <3>2. CASE "batch_size" \notin DOMAIN call.request.explicit
      BY <1>3, <1>6, <2>1, <3>2 DEF BatchIsKept
    <3>. QED
      BY <3>1, <3>2
  <2>6. TargetIsKept'
    <3>1. call.plan.target_metric \in Int /\ call.plan.target_metric >= -10000
      BY <1>2 DEF Accepted
    <3>2. \/ r.target_score = call.plan.target_metric
          \/ r.target_score = 999 /\ call.plan.target_metric > 999
          \/ r.target_score = 500 /\ call.plan.target_metric < 500 /\ r.objective # "regression"
      BY <1>3, <3>1 DEF Within, Most, Least
    <3>. QED
      BY <1>6, <2>1, <3>2 DEF TargetIsKept
  <2>7. PackIsKept'
    BY <1>3, <1>6, <2>1 DEF PackIsKept
  <2>8. PlanIsKept'
    BY <1>2, <1>3, <1>6, <2>1, <2>3, <2>6, <2>7 DEF PlanIsKept, Handed, Heeds
  <2>4. run'.dataset[1] = call.source
    BY <1>3, <1>6
  <2>5. BatchFits'
    BY <1>3, <1>6, <2>4 DEF BatchFits, FitsRun
  <2>. QED
    BY <1>1, <2>2, <2>5, <2>8 DEF PlanInv, TableInv
<1>. QED
  BY <1>3, <1>4, <1>5, <1>6 DEF Create, r

\* A run of another client has a batch that fits as well.
LEMMA DirectKeepsPlan ==
    ASSUME PlanInv, CreateDirect
    PROVE  PlanInv'
<1>1. PICK c \in DirectConfigs : ~CreateRefused(c) /\ run' = RunOf("client", c)
  BY DEF CreateDirect
<1>2. call.phase = "idle" /\ UNCHANGED <<call, table>>
  BY DEF CreateDirect
<1>3. /\ DOMAIN Defaults \subseteq DOMAIN c /\ c.dataset \in DOMAIN Sources
      /\ c.ram \in Int /\ c.batch_size \in Int /\ c.batch_mode \in {"auto", "manual"}
  BY DirectAssumption
<1>4. {"cpu", "ram", "gpu"} \subseteq DOMAIN Defaults
  BY SMT DEF Defaults
<1>5. Resolvable(table, PackAsked(c))
  BY <1>1 DEF CreateRefused
<1>6. FitsRun(run', c.dataset)
  BY <1>1, <1>3, <1>4, <1>5, RunFits DEF PlanInv
<1>7. run'.dataset[1] = c.dataset
  <2>1. run'.dataset = <<c.dataset, c.mode>>
    BY <1>1, RunIs
  <2>. QED
    BY <2>1
<1>8. BatchFits'
  BY <1>6, <1>7 DEF BatchFits, FitsRun
<1>9. CallInv' /\ PlanIsKept'
  BY <1>2 DEF PlanInv, CallInv, Planned, PlanIsKept
<1>. QED
  BY <1>2, <1>8, <1>9 DEF PlanInv, TableInv

\* Every step keeps the invariant of the plan.
LEMMA NextKeepsPlan ==
    ASSUME PlanInv, [Next]_vars
    PROVE  PlanInv'
<1>1. CASE Plan
  BY <1>1, PlanKeepsPlan
<1>2. CASE Create
  BY <1>2, CreateKeepsPlan
<1>3. CASE CreateDirect
  BY <1>3, DirectKeepsPlan
<1>4. CASE Import
  <2>1. call.phase = "planning" /\ UNCHANGED <<table, run>>
    BY <1>4 DEF Import
  <2>2. Raise("import") \/ Phase("importing")
    BY <1>4 DEF Import
  <2>3. CASE Phase("importing")
    BY <2>1, <2>3, PhaseKeeps DEF Phase, Planned
  <2>. QED
    BY <2>1, <2>2, <2>3, RaiseKeeps
<1>5. CASE Imported \/ Attached
  <2>1. call.phase = "importing" /\ UNCHANGED <<table, run>> /\ Phase("imported")
    BY <1>5 DEF Imported, Attached, Stored
  <2>. QED
    BY <2>1, PhaseKeeps DEF Phase, Planned
<1>6. CASE Start
  <2>1. call.phase = "created" /\ UNCHANGED <<table, run>>
    BY <1>6 DEF Start
  <2>2. Raise("run") \/ Phase("waiting")
    BY <1>6 DEF Start
  <2>. QED
    BY <2>1, <2>2, RaiseKeeps, PhaseKeeps DEF Phase, Planned
<1>7. CASE Poll
  <2>1. call.phase = "waiting" /\ UNCHANGED <<table, run>>
    BY <1>7 DEF Poll
  <2>2. Raise("removed") \/ Raise("error") \/ Phase("returned")
    BY <1>7 DEF Poll
  <2>. QED
    BY <2>1, <2>2, RaiseKeeps, PhaseKeeps DEF Phase, Planned
<1>8. CASE Interrupt
  BY <1>8, RaiseKeeps DEF Interrupt
<1>9. CASE EditPacks
  <2>1. UNCHANGED <<call, run>>
    BY <1>9 DEF EditPacks
  <2>2. TableInv'
    BY <1>9, EditKeepsTable DEF PlanInv
  <2>. QED
    BY <2>1, <2>2 DEF PlanInv, CallInv, Accepted, Suits, Heeds, PlanIsKept, BatchIsKept, TargetIsKept,
                       PackIsKept, BatchFits
<1>10. CASE PlanChunk \/ Launch \/ Open \/ Settle \/ Command \/ RemoveDataset \/ UNCHANGED vars
  <2>1. UNCHANGED <<call, table, run>>
    BY <1>10 DEF PlanChunk, Launch, Open, Settle, Command, RemoveDataset, vars
  <2>. QED
    BY <2>1, OthersKeepPlan
<1>. QED
  BY <1>1, <1>2, <1>3, <1>4, <1>5, <1>6, <1>7, <1>8, <1>9, <1>10 DEF Next

-----------------------------------------------------------------------------

\* The invariant behind PlanIsKept and BatchFits: the plan of a call is accepted by
\* create() and suits its data (auto.py, workspace.py), and the table of packs is well formed.
THEOREM PlanInvariance == Spec => []PlanInv
<1>1. Init => PlanInv
  BY PlanInvInit
<1>2. PlanInv /\ [Next]_vars => PlanInv'
  BY NextKeepsPlan
<1>. QED
  BY <1>1, <1>2, PTL DEF Spec

\* create() (workspace.py) refuses no accepted plan.  The settings PlanIsKept lists come out
\* of it as planned, and batch, target and pack changed in no way but those it names; the
\* plan has the options PlannedAsGiven of the call as they were given.
THEOREM PlansAreKept == Spec => []PlanIsKept
<1>1. PlanInv => PlanIsKept
  BY DEF PlanInv
<1>. QED
  BY <1>1, PlanInvariance, PTL

\* The batch of every run, planned again for the data there is (batch.py), is never empty nor
\* above the training rows plan_batch() counts on.  The samples of its safe maximum fit in the
\* memory of the run, unless it is two; above it a manual batch is a high risk.
THEOREM BatchesFit == Spec => []BatchFits
<1>1. PlanInv => BatchFits
  BY DEF PlanInv
<1>. QED
  BY <1>1, PlanInvariance, PTL

-----------------------------------------------------------------------------
(* Places.                                                                 *)

\* An order of the rows of a finite set without ties.
Orders(S, order) ==
    /\ IsFiniteSet(S)
    /\ \A i \in S : order[i] \in Int
    /\ \A i, j \in S : order[i] = order[j] => i = j

\* An order of a set orders its subsets.
LEMMA OrdersPart ==
    ASSUME NEW S, NEW order, Orders(S, order), NEW T \in SUBSET S
    PROVE  Orders(T, order)
  BY FS_Subset DEF Orders

\* The ranks of a set of n rows are 1..n.
LEMMA RankIs ==
    ASSUME NEW S, NEW order, Orders(S, order), NEW i \in S
    PROVE  Rank(S, order, i) \in 1..Cardinality(S)
<1> DEFINE below == {j \in S : order[j] <= order[i]}
<1>1. IsFiniteSet(below) /\ Cardinality(below) <= Cardinality(S)
  BY FS_Subset DEF Orders
<1>2. Cardinality(below) \in Nat /\ Cardinality(S) \in Nat
  BY <1>1, FS_CardinalityType DEF Orders
<1>3. i \in below
  BY DEF Orders
<1>4. Cardinality(below) # 0
  BY <1>1, <1>3, FS_EmptySet
<1>. QED
  BY <1>1, <1>2, <1>4 DEF Rank

\* A place further on is a place later in the order.
LEMMA RankOrders ==
    ASSUME NEW S, NEW order, Orders(S, order), NEW i \in S, NEW j \in S,
           Rank(S, order, i) < Rank(S, order, j)
    PROVE  order[i] < order[j]
<1> DEFINE below(k) == {l \in S : order[l] <= order[k]}
<1>. SUFFICES ASSUME order[j] <= order[i] PROVE FALSE
  BY DEF Orders
<1>1. below(j) \subseteq below(i)
  BY DEF Orders
<1>2. IsFiniteSet(below(i))
  BY FS_Subset DEF Orders
<1>3. Cardinality(below(j)) <= Cardinality(below(i))
  BY <1>1, <1>2, FS_Subset
<1>4. Rank(S, order, i) \in Int /\ Rank(S, order, j) \in Int
  BY RankIs
<1>. QED
  BY <1>3, <1>4 DEF Rank

\* Every place is somebody's.
LEMMA RankOnto ==
    ASSUME NEW S, NEW order, Orders(S, order), NEW k \in 1..Cardinality(S)
    PROVE  \E i \in S : Rank(S, order, i) = k
<1> DEFINE n == Cardinality(S)
           f == [i \in S |-> Rank(S, order, i)]
<1>1. n \in Nat
  BY FS_CardinalityType DEF Orders
<1>2. f \in [S -> 1..n]
  BY RankIs
<1>3. ASSUME NEW i \in S, NEW j \in S, f[i] = f[j], order[i] < order[j] PROVE FALSE
  <2> DEFINE below(l) == {m \in S : order[m] <= order[l]}
  <2>1. below(i) \subseteq below(j) /\ j \in below(j) /\ j \notin below(i)
    BY <1>3 DEF Orders
  <2>2. IsFiniteSet(below(j))
    BY FS_Subset DEF Orders
  <2>3. Cardinality(below(i)) = Cardinality(below(j))
    BY <1>3 DEF Rank
  <2>4. below(i) = below(j)
    BY <2>1, <2>2, <2>3, FS_Subset
  <2>. QED
    BY <2>1, <2>4
<1>4. f \in Injection(S, 1..n)
  <2>1. ASSUME NEW i \in S, NEW j \in S, f[i] = f[j] PROVE i = j
    <3>1. order[i] = order[j]
      <4>1. ~(order[i] < order[j]) /\ ~(order[j] < order[i])
        BY <1>3, <2>1
      <4>2. order[i] \in Int /\ order[j] \in Int
        BY DEF Orders
      <4>. QED
        BY <4>1, <4>2
    <3>. QED
      BY <3>1 DEF Orders
  <2>. HIDE DEF f
  <2>. QED
    BY <1>2, <2>1 DEF Injection, IsInjective
<1>5. IsFiniteSet(1..n) /\ Cardinality(1..n) = n
  BY <1>1, FS_Interval
<1>6. f \in Surjection(S, 1..n)
  BY <1>4, <1>5, FS_Injection
<1>7. \E i \in S : f[i] = k
  <2>. HIDE DEF f
  <2>. QED
    BY <1>6 DEF Surjection
<1>. QED
  BY <1>7

-----------------------------------------------------------------------------
(* The three parts.                                                        *)

Names == {"train", "validation", "test"}

\* Every row is in one part, and no part is empty.
Parted(s, rows) ==
    /\ DOMAIN s = Names
    /\ s.train # {} /\ s.validation # {} /\ s.test # {}
    /\ s.train \cap s.validation = {} /\ s.train \cap s.test = {} /\ s.validation \cap s.test = {}
    /\ s.train \cup s.validation \cup s.test = rows

\* Fifteen percent of a number of rows.
LEMMA FractionIs ==
    ASSUME NEW n \in Nat
    PROVE  /\ Fraction(n) \in Nat
           /\ n >= 4 => Fraction(n) <= n - 2
           /\ n = 3 => Fraction(n) = 0
<1>1. (15 * n) \div 100 \in Nat /\ 100 * ((15 * n) \div 100) <= 15 * n
  OBVIOUS
<1>2. Fraction(n) \in {(15 * n) \div 100, (15 * n) \div 100 + 1}
  BY DEF Fraction, Rounded
<1>3. n = 3 => Fraction(n) = 0
  BY DEF Fraction, Rounded
<1>. QED
  BY <1>1, <1>2, <1>3

\* The three sizes add up, and the two that are held out are positive.
LEMMA SizesAre ==
    ASSUME NEW n \in Nat
    PROVE  LET size == Sizes(n)
           IN  /\ size.train \in Int /\ size.validation \in Nat /\ size.test \in Nat
               /\ size.validation >= 1 /\ size.test >= 1
               /\ size.train + size.validation + size.test = n
  BY FractionIs DEF Sizes, Most

\* A class keeps one row at least; one of three rows or more gives one to each part.
LEMMA HeldOutIs ==
    ASSUME NEW n \in Nat \ {0}
    PROVE  LET part == HeldOut(n)
           IN  /\ part.test \in Nat /\ part.validation \in Nat
               /\ part.test + part.validation <= n - 1
               /\ n >= 3 => part.test >= 1 /\ part.validation >= 1
<1> DEFINE floor == IF n >= 3 THEN 1 ELSE 0
           test  == Least(Most(floor, Fraction(n)), n - 1)
           validation == Least(Most(floor, Fraction(n)), Most(0, n - test - 1))
<1>1. /\ Fraction(n) \in Nat
      /\ n >= 4 => Fraction(n) <= n - 2
      /\ n = 3 => Fraction(n) = 0
  BY FractionIs
<1>2. test \in Nat /\ test <= n - 1 /\ (n >= 3 => 1 <= test /\ test <= n - 2)
  BY <1>1 DEF Least, Most
<1>3. /\ validation \in Nat /\ test + validation <= n - 1
      /\ n >= 3 => validation >= 1
  <2>. HIDE DEF test
  <2>. QED
    BY <1>1, <1>2 DEF Least, Most
<1>4. HeldOut(n).test = test /\ HeldOut(n).validation = validation
  BY DEF HeldOut
<1>. QED
  BY <1>2, <1>3, <1>4

\* An order without ties, cut in three.
LEMMA InThree ==
    ASSUME NEW d, NEW order, Orders(Rows(d), order), Len(d.labels) \in Nat,
           Cardinality(Rows(d)) = Len(d.labels), Sizes(Len(d.labels)).train >= 1
    PROVE  LET s == CutInThree(d, order)
           IN  /\ Parted(s, Rows(d))
               /\ \A i \in s.train, j \in s.validation : order[i] < order[j]
               /\ \A i \in s.validation, j \in s.test : order[i] < order[j]
<1> DEFINE n == Len(d.labels)
           rows == Rows(d)
           a == Sizes(n).train
           b == a + Sizes(n).validation
           c == b + Sizes(n).test
           train == Places(rows, order, 1, a)
           validation == Places(rows, order, a + 1, b)
           test == Places(rows, order, b + 1, c)
           s == CutInThree(d, order)
<1>1. a \in Nat /\ b \in Nat /\ c = n /\ 1 <= a /\ a < b /\ b < c
  BY SizesAre
<1>2. s = [train |-> train, validation |-> validation, test |-> test]
  BY DEF CutInThree
<1>. HIDE DEF a, b, c, s, n, rows
<1>3. \A i \in rows : Rank(rows, order, i) \in 1..n
  BY RankIs DEF rows, n
<1>4. \A k \in 1..n : \E i \in rows : Rank(rows, order, i) = k
  BY RankOnto DEF rows, n
<1>5. train # {} /\ validation # {} /\ test # {}
  <2>1. n \in Nat /\ a \in 1..n /\ b \in 1..n /\ c \in 1..n
    BY <1>1 DEF n
  <2>2. a \in 1..a /\ b \in (a + 1)..b /\ c \in (b + 1)..c
    BY <1>1, <2>1
  <2>3. \A k \in 1..n, lo, hi \in Int : k \in lo..hi => Places(rows, order, lo, hi) # {}
    BY <1>4 DEF Places
  <2>4. train # {}
    BY <1>1, <2>1, <2>2, <2>3
  <2>5. validation # {}
    BY <1>1, <2>1, <2>2, <2>3
  <2>6. test # {}
    BY <1>1, <2>1, <2>2, <2>3
  <2>. QED
    BY <2>4, <2>5, <2>6
<1>6. train \cap validation = {} /\ train \cap test = {} /\ validation \cap test = {}
  BY <1>1, <1>3 DEF Places
<1>7. train \cup validation \cup test = rows
  BY <1>1, <1>3 DEF Places
<1>8. /\ \A i \in train, j \in validation : order[i] < order[j]
      /\ \A i \in validation, j \in test : order[i] < order[j]
  <2>1. /\ \A i \in train, j \in validation : Rank(rows, order, i) < Rank(rows, order, j)
        /\ \A i \in validation, j \in test : Rank(rows, order, i) < Rank(rows, order, j)
    BY <1>1, <1>3 DEF Places
  <2>2. train \subseteq rows /\ validation \subseteq rows /\ test \subseteq rows
    BY DEF Places
  <2>. QED
    BY <2>1, <2>2, RankOrders DEF rows
<1>. HIDE DEF train, validation, test
<1>9. s.train = train /\ s.validation = validation /\ s.test = test /\ DOMAIN s = Names
  BY <1>2 DEF Names
<1>. QED
  BY <1>5, <1>6, <1>7, <1>8, <1>9 DEF Parted, s, rows

\* A row of a class is in one of the three parts.
LEMMA ClassPartIs ==
    ASSUME NEW d, NEW order, NEW i
    PROVE  ClassPart(d, order, i) \in Names
  BY DEF ClassPart, Names

\* The parts of a stratified split.
LEMMA ByClassIs ==
    ASSUME NEW d, NEW order
    PROVE  LET s == CutByClass(d, order)
           IN  /\ DOMAIN s = Names
               /\ \A p \in Names : s[p] = {i \in Rows(d) : ClassPart(d, order, i) = p}
  BY DEF CutByClass, Names

ClassOf(d, v) == {j \in Rows(d) : d.labels[j] = v}

\* A class keeps a row to learn from, and one of three rows or more is in every part.
LEMMA ByClass ==
    ASSUME NEW d, NEW order, Orders(Rows(d), order), NEW v \in Values(d, Rows(d))
    PROVE  LET s == CutByClass(d, order)
               class == ClassOf(d, v)
           IN  /\ s.train \cap class # {}
               /\ Cardinality(class) >= 3 => \A p \in Names : s[p] \cap class # {}
<1> DEFINE s == CutByClass(d, order)
           class == ClassOf(d, v)
           n == Cardinality(class)
           part == HeldOut(n)
<1>1. Orders(class, order) /\ class # {}
  BY OrdersPart DEF Values, ClassOf
<1>2. n \in Nat \ {0}
  BY <1>1, FS_CardinalityType, FS_EmptySet DEF Orders
<1>3. /\ part.test \in Nat /\ part.validation \in Nat /\ part.test + part.validation <= n - 1
      /\ n >= 3 => part.test >= 1 /\ part.validation >= 1
  BY <1>2, HeldOutIs
<1>4. \A k \in 1..n : \E i \in class : Rank(class, order, i) = k
  BY <1>1, RankOnto
<1>5. \A i \in class :
        ClassPart(d, order, i) =
            IF Rank(class, order, i) <= part.test THEN "test"
            ELSE IF Rank(class, order, i) <= part.test + part.validation THEN "validation"
            ELSE "train"
  BY DEF ClassPart, ClassOf
<1>6. \A i \in class, p \in Names : ClassPart(d, order, i) = p => i \in s[p] \cap class
  BY ByClassIs DEF ClassOf
<1>. HIDE DEF class, n, part, s
<1>7. s.train \cap class # {}
  <2>1. PICK i \in class : Rank(class, order, i) = n
    BY <1>2, <1>4
  <2>2. ClassPart(d, order, i) = "train"
    BY <1>2, <1>3, <1>5, <2>1
  <2>. QED
    BY <1>6, <2>2 DEF Names
<1>8. ASSUME n >= 3 PROVE s.test \cap class # {} /\ s.validation \cap class # {}
  <2>1. PICK i \in class : Rank(class, order, i) = 1
    BY <1>2, <1>4
  <2>2. PICK j \in class : Rank(class, order, j) = part.test + 1
    BY <1>2, <1>3, <1>4, <1>8
  <2>3. ClassPart(d, order, i) = "test" /\ ClassPart(d, order, j) = "validation"
    BY <1>3, <1>5, <1>8, <2>1, <2>2
  <2>. QED
    BY <1>6, <2>3 DEF Names
<1>. QED
  BY <1>7, <1>8 DEF Names, s, class, n

\* The parts of a stratified split divide the rows.
LEMMA ClassesParted ==
    ASSUME NEW d, NEW order, Orders(Rows(d), order), Rows(d) # {},
           CutByClass(d, order).validation # {}, CutByClass(d, order).test # {}
    PROVE  Parted(CutByClass(d, order), Rows(d))
<1> DEFINE s == CutByClass(d, order)
<1>1. /\ DOMAIN s = Names
      /\ \A p \in Names : s[p] = {i \in Rows(d) : ClassPart(d, order, i) = p}
  BY ByClassIs
<1>2. s.train # {}
  <2>1. PICK v \in Values(d, Rows(d)) : TRUE
    BY DEF Values
  <2>2. CutByClass(d, order).train \cap ClassOf(d, v) # {}
    BY ByClass
  <2>. QED
    BY <2>2
<1>. HIDE DEF s
<1>3. /\ s.train = {i \in Rows(d) : ClassPart(d, order, i) = "train"}
      /\ s.validation = {i \in Rows(d) : ClassPart(d, order, i) = "validation"}
      /\ s.test = {i \in Rows(d) : ClassPart(d, order, i) = "test"}
  BY <1>1 DEF Names
<1>4. s.train \cup s.validation \cup s.test = Rows(d)
  BY <1>3, ClassPartIs DEF Names
<1>5. s.train \cap s.validation = {} /\ s.train \cap s.test = {} /\ s.validation \cap s.test = {}
  BY <1>3
<1>6. s.validation # {} /\ s.test # {}
  BY DEF s
<1>. QED
  BY <1>1, <1>2, <1>4, <1>5, <1>6 DEF Parted, s

\* A stream that is not refused has rows in every part, and a context is in one of them.
LEMMA StreamParted ==
    ASSUME NEW d, NEW policy, NEW task, IsFiniteSet(Rows(d)),
           ~SplitRefused(d, "stream", policy, task, SplitStream(d))
    PROVE  /\ Parted(SplitStream(d), Rows(d))
           /\ d.group # <<>> =>
                \A p, q \in Names : \A i \in SplitStream(d)[p], j \in SplitStream(d)[q] :
                    d.group[i] = d.group[j] => p = q
<1> DEFINE s == SplitStream(d)
           part(i) == IF d.group # <<>> THEN ContextPart(d.group[i]) ELSE IndexPart(i)
<1>1. DOMAIN s = Names /\ \A p \in Names : s[p] = {i \in Rows(d) : part(i) = p}
  BY DEF SplitStream, Names
<1>2. \A i : part(i) \in Names
  BY DEF ContextPart, IndexPart, Part, Names
<1>3. s.train # {} /\ s.validation # {} /\ s.test # {}
  BY FS_EmptySet DEF SplitRefused
<1>. HIDE DEF s
<1>4. /\ s.train = {i \in Rows(d) : part(i) = "train"}
      /\ s.validation = {i \in Rows(d) : part(i) = "validation"}
      /\ s.test = {i \in Rows(d) : part(i) = "test"}
  BY <1>1 DEF Names
<1>5. d.group # <<>> =>
        \A p, q \in Names : \A i \in s[p], j \in s[q] : d.group[i] = d.group[j] => p = q
  BY <1>1
<1>. HIDE DEF part
<1>6. s.train \cup s.validation \cup s.test = Rows(d)
  BY <1>2, <1>4 DEF Names
<1>7. s.train \cap s.validation = {} /\ s.train \cap s.test = {} /\ s.validation \cap s.test = {}
  BY <1>4
<1>. QED
  BY <1>1, <1>3, <1>5, <1>6, <1>7 DEF Parted, s

\* The rows of a data set are numbered from one.
LEMMA SourceRowsAre ==
    ASSUME NEW name \in DOMAIN Sources
    PROVE  LET d == Sources[name]
           IN  /\ Len(d.labels) \in Nat /\ Rows(d) = 1..Len(d.labels)
               /\ IsFiniteSet(Rows(d)) /\ Cardinality(Rows(d)) = Len(d.labels)
<1> DEFINE d == Sources[name]
<1>1. Len(d.labels) \in Nat /\ Rows(d) = 1..Len(d.labels)
  BY SourceAssumption
<1>2. IsFiniteSet(1..Len(d.labels)) /\ Cardinality(1..Len(d.labels)) = Len(d.labels)
  BY <1>1, FS_Interval
<1>. QED
  BY <1>1, <1>2

\* The order of the file, and the permutations.
LEMMA InOrderIs ==
    ASSUME NEW name \in DOMAIN Sources
    PROVE  LET d == Sources[name]   order == InOrder(Len(d.labels))
           IN  Orders(Rows(d), order) /\ \A i \in Rows(d) : order[i] = i - 1
<1> DEFINE d == Sources[name]
           n == Len(d.labels)
<1>1. n \in Nat /\ Rows(d) = 1..n /\ IsFiniteSet(Rows(d))
  BY SourceRowsAre
<1>2. ASSUME NEW i \in 1..n PROVE InOrder(n)[i] = i - 1
  <2>1. (i - 1) * 1 = i - 1
    BY <1>1
  <2>2. (i - 1) % n = i - 1
    <3>. DEFINE a == i - 1
    <3>1. n \in Nat \ {0} /\ a \in Nat /\ a \in 0..(n - 1) /\ a = n * 0 + a
      BY <1>1
    <3>2. a \div n \in Int /\ a % n \in 0..(n - 1) /\ a = n * (a \div n) + (a % n)
      BY <3>1, Division
    <3>. HIDE DEF a, n
    <3>3. n * (a \div n) + (a % n) = n * 0 + a
      BY <3>1, <3>2
    <3>4. a % n = a
      BY <3>1, <3>2, <3>3, Remainder
    <3>. QED
      BY <3>4 DEF a
  <2>. HIDE DEF n
  <2>. QED
    BY <2>1, <2>2 DEF InOrder, Order
<1>. HIDE DEF n, d
<1>3. Orders(Rows(d), InOrder(n))
  BY <1>1, <1>2 DEF Orders
<1>. QED
  BY <1>1, <1>2, <1>3 DEF n, d

\* A stride orders the rows.
LEMMA OrderIs ==
    ASSUME NEW name \in DOMAIN Sources, NEW stride \in Strides
    PROVE  LET d == Sources[name] IN Orders(Rows(d), Order(Len(d.labels), stride))
<1> DEFINE d == Sources[name]
           n == Len(d.labels)
           order == Order(n, stride)
<1>1. n \in Nat /\ Rows(d) = 1..n /\ IsFiniteSet(Rows(d))
  BY SourceRowsAre
<1>2. stride \in Nat /\ \A i, j \in 1..n : order[i] = order[j] => i = j
  BY StridesAssumption
<1>3. ASSUME NEW i \in 1..n PROVE order[i] \in Int
  <2>1. n \in Nat \ {0} /\ (i - 1) * stride \in Int
    BY <1>1, <1>2
  <2>2. ((i - 1) * stride) % n \in Int
    <3>. HIDE DEF n
    <3>. QED
      BY <2>1
  <2>. QED
    BY <2>2 DEF Order
<1>. HIDE DEF order, n, d
<1>4. Orders(Rows(d), order)
  BY <1>1, <1>2, <1>3 DEF Orders
<1>. QED
  BY <1>4 DEF order, n, d

\* What the data set makes of a plan, and so of the run of a call: its policy, how it is
\* read, and its task.
Fitting(d, mode, policy, objective) ==
    /\ mode \in {"memory", "stream"} /\ objective \in Tasks
    /\ d.timeLike => policy = "temporal"
    /\ d.group # <<>> /\ d.streamable /\ ~d.timeLike => mode = "stream"

\* A split that is not refused is sound, whatever the policy and the order.
LEMMA SplitsAreSound ==
    ASSUME NEW name \in DOMAIN Sources, NEW mode, NEW policy, NEW objective, NEW stride \in Strides,
           Fitting(Sources[name], mode, policy, objective),
           ~SplitRefused(Sources[name], mode, policy, objective,
                         SplitOf(Sources[name], mode, policy, objective, stride))
    PROVE  SoundSplit(Sources[name], mode, policy, objective,
                      SplitOf(Sources[name], mode, policy, objective, stride))
<1>. PICK d : d = Sources[name]
  OBVIOUS
<1> DEFINE n == Len(d.labels)
           s == SplitOf(d, mode, policy, objective, stride)
<1>1. /\ n \in Nat /\ Rows(d) = 1..n
      /\ IsFiniteSet(Rows(d)) /\ Cardinality(Rows(d)) = n
  BY SourceRowsAre
<1>. SUFFICES SoundSplit(d, mode, policy, objective, s)
  OBVIOUS
<1>2. ~SplitRefused(d, mode, policy, objective, s) /\ Fitting(d, mode, policy, objective)
  OBVIOUS
<1>3. ASSUME Parted(s, Rows(d))
      PROVE  /\ \A p \in DOMAIN s : s[p] # {}
             /\ \A p, q \in DOMAIN s : p # q => s[p] \cap s[q] = {}
             /\ UNION {s[p] : p \in DOMAIN s} = Rows(d)
  <2>. HIDE DEF s
  <2>1. \A p \in DOMAIN s : s[p] # {}
    BY <1>3 DEF Parted, Names
  <2>2. \A p, q \in DOMAIN s : p # q => s[p] \cap s[q] = {}
    BY <1>3 DEF Parted, Names
  <2>3. UNION {s[p] : p \in DOMAIN s} = s.train \cup s.validation \cup s.test
    BY <1>3 DEF Parted, Names
  <2>. QED
    BY <1>3, <2>1, <2>2, <2>3 DEF Parted
<1>4. CASE mode = "stream"
  <2>1. s = SplitStream(d)
    BY <1>4 DEF SplitOf
  <2>2. /\ Parted(s, Rows(d))
        /\ d.group # <<>> =>
             \A p, q \in Names : \A i \in s[p], j \in s[q] : d.group[i] = d.group[j] => p = q
    BY <1>1, <1>2, <1>4, <2>1, StreamParted
  <2>3. DOMAIN s = Names
    BY <2>2 DEF Parted
  <2>4. d.group # <<>> =>
            \A p, q \in DOMAIN s : p # q =>
                {d.group[i] : i \in s[p]} \cap {d.group[i] : i \in s[q]} = {}
    <3>. HIDE DEF s
    <3>. QED
      BY <2>2, <2>3
  <2>5. /\ \A p \in DOMAIN s : s[p] # {}
        /\ \A p, q \in DOMAIN s : p # q => s[p] \cap s[q] = {}
        /\ UNION {s[p] : p \in DOMAIN s} = Rows(d)
    BY <1>3, <2>2
  <2>. HIDE DEF s
  <2>. QED
    BY <1>4, <2>4, <2>5 DEF SoundSplit
<1>5. CASE mode = "memory" /\ d.timeLike
  <2> DEFINE order == InOrder(n)
  <2>1. policy = "temporal"
    BY <1>2, <1>5 DEF Fitting
  <2>2. s = CutInThree(d, order)
    BY <1>5, <2>1 DEF SplitOf, SplitArrays
  <2>3. Orders(Rows(d), order) /\ \A i \in Rows(d) : order[i] = i - 1
    BY InOrderIs
  <2>4. Sizes(n).train >= 1
    BY <1>1, <1>2, <1>5, SizesAre DEF SplitRefused
  <2>. HIDE DEF order, s
  <2>5. /\ Parted(s, Rows(d))
        /\ \A i \in s.train, j \in s.validation : order[i] < order[j]
        /\ \A i \in s.validation, j \in s.test : order[i] < order[j]
    BY <1>1, <2>2, <2>3, <2>4, InThree
  <2>6. /\ \A i \in s.train, j \in s.validation : i < j
        /\ \A i \in s.validation, j \in s.test : i < j
    <3>1. s.train \subseteq Rows(d) /\ s.validation \subseteq Rows(d) /\ s.test \subseteq Rows(d)
      BY <2>5 DEF Parted
    <3>. QED
      BY <1>1, <2>3, <2>5, <3>1
  <2>. QED
    BY <1>3, <1>5, <2>1, <2>5, <2>6 DEF SoundSplit
<1>6. ASSUME mode = "memory", ~d.timeLike
      PROVE  ~(d.group # <<>> /\ d.streamable /\ (~d.timeLike \/ mode = "stream"))
  BY <1>2, <1>6 DEF Fitting
<1>7. CASE /\ mode = "memory" /\ ~d.timeLike
           /\ ~(policy = "stratified" /\ objective \in Classification)
  <2> DEFINE order == IF policy = "temporal" THEN InOrder(n) ELSE Order(n, stride)
  <2>1. s = CutInThree(d, order)
    BY <1>7 DEF SplitOf, SplitArrays
  <2>2. Orders(Rows(d), order)
    BY InOrderIs, OrderIs
  <2>3. Sizes(n).train >= 1
    BY <1>1, <1>2, <1>7, SizesAre DEF SplitRefused
  <2>. HIDE DEF order, s
  <2>4. Parted(s, Rows(d))
    BY <1>1, <2>1, <2>2, <2>3, InThree
  <2>5. ~(policy = "stratified" /\ mode = "memory" /\ objective # "regression")
    BY <1>2, <1>7 DEF Fitting, Tasks, Classification
  <2>. QED
    BY <1>3, <1>6, <1>7, <2>4, <2>5 DEF SoundSplit
<1>8. CASE mode = "memory" /\ ~d.timeLike /\ policy = "stratified" /\ objective \in Classification
  <2> DEFINE order == Order(n, stride)
  <2>1. s = CutByClass(d, order)
    BY <1>8 DEF SplitOf, SplitArrays
  <2>2. Orders(Rows(d), order)
    BY OrderIs
  <2>3. Rows(d) # {}
    <3>1. ~(Sizes(n).train < 8)
      BY <1>2, <1>8 DEF SplitRefused
    <3>2. n >= 1
      <4> DEFINE size == Sizes(n)
      <4>1. /\ size.train \in Int /\ size.validation \in Nat /\ size.test \in Nat
            /\ size.train + size.validation + size.test = n
        BY <1>1, SizesAre
      <4>2. ~(size.train < 8)
        BY <3>1
      <4>. HIDE DEF size, n
      <4>. QED
        BY <1>1, <4>1, <4>2
    <3>. QED
      BY <1>1, <3>2
  <2>4. s.validation # {} /\ s.test # {}
    BY <1>2, <1>8 DEF SplitRefused
  <2>. HIDE DEF order, s
  <2>5. Parted(s, Rows(d))
    BY <2>1, <2>2, <2>3, <2>4, ClassesParted
  <2>6. DOMAIN s = Names
    BY <2>5 DEF Parted
  <2>7. \A v \in Values(d, Rows(d)) :
            /\ s.train \cap ClassOf(d, v) # {}
            /\ Cardinality(ClassOf(d, v)) >= 3 => \A p \in DOMAIN s : s[p] \cap ClassOf(d, v) # {}
    BY <2>1, <2>2, <2>6, ByClass
  <2>8. ASSUME NEW v \in Values(d, Rows(d))
        PROVE  LET class == {i \in Rows(d) : d.labels[i] = v}
               IN  /\ s.train \cap class # {}
                   /\ Cardinality(class) >= 3 => \A p \in DOMAIN s : s[p] \cap class # {}
    BY <2>7 DEF ClassOf
  <2>. QED
    BY <1>3, <1>6, <1>8, <2>5, <2>8 DEF SoundSplit
<1>. QED
  BY <1>2, <1>4, <1>5, <1>7, <1>8 DEF Fitting

-----------------------------------------------------------------------------
(* What a worker learns from.                                              *)

\* While there is no run nobody works on one, and until create() there is none.
FreshInv ==
    /\ run = NoRun => state["run"] = "absent" /\ "run" \notin busy
    /\ call.phase \in {"planning", "importing", "imported"} => run = NoRun

\* The split of an open session is that of its run, and was not refused.
SplitInv ==
    /\ "opened" \in DOMAIN session
    /\ session.opened =>
        /\ run # NoRun
        /\ \E stride \in Strides :
            LET d == Sources[run.dataset[1]]   mode == run.dataset[2]
            IN  /\ session.split = SplitOf(d, mode, run.split_policy, run.objective, stride)
                /\ ~SplitRefused(d, mode, run.split_policy, run.objective,
                                 SplitOf(d, mode, run.split_policy, run.objective, stride))

\* A run of train() is divided and read as its data set needs.
RunInv ==
    run.owner = "train" =>
        /\ run.dataset[1] \in DOMAIN Sources
        /\ Fitting(Sources[run.dataset[1]], run.dataset[2], run.split_policy, run.objective)

LeakInv == FreshInv /\ SplitInv /\ RunInv

\* At first there is no run and no session.
LEMMA LeakInvInit == Init => LeakInv
<1>. SUFFICES ASSUME Init PROVE LeakInv
  OBVIOUS
<1>1. run = NoRun /\ session = NoSession /\ call.phase = "idle"
  BY DEF Init, Idle
<1>2. state["run"] = "absent" /\ "run" \notin busy
  BY DEF Init, Protocol!PInit
<1>3. FreshInv
  BY <1>1, <1>2 DEF FreshInv
<1>4. SplitInv
  BY <1>1 DEF SplitInv, NoSession
<1>5. RunInv
  BY <1>1 DEF RunInv, NoRun
<1>. QED
  BY <1>3, <1>4, <1>5 DEF LeakInv

\* The task of the data is a task, and the policy of a plan fits the data.
LEMMA SuitsFits ==
    ASSUME NEW d, NEW p, Suits(p, d)
    PROVE  Fitting(d, p.mode, p.split_policy, TrueTask(d, p.mode))
<1>1. \A count, numeric, continuous : Classify(count, numeric, continuous) \in Tasks
  BY DEF Classify, Tasks
<1>2. TrueTask(d, p.mode) \in Tasks
  BY <1>1 DEF TrueTask, StreamTask, ImportedTask
<1>3. d.timeLike => p.split_policy = "temporal"
  BY DEF Suits, SplitPolicy
<1>4. d.group # <<>> /\ d.streamable /\ ~d.timeLike => p.mode = "stream"
  BY DEF Suits, SplitPolicy
<1>. QED
  BY <1>2, <1>3, <1>4 DEF Fitting, Suits

\* Steps that neither create a run nor open or end a session.
LEMMA OthersKeepLeaks ==
    ASSUME LeakInv, UNCHANGED <<run, session>>,
           run = NoRun => UNCHANGED <<state, busy>>,
           call'.phase \in {"planning", "importing", "imported"} =>
                run = NoRun
    PROVE  LeakInv'
<1>1. FreshInv'
  BY DEF LeakInv, FreshInv
<1>2. SplitInv'
  BY DEF LeakInv, SplitInv
<1>3. RunInv'
  BY DEF LeakInv, RunInv, Fitting
<1>. QED
  BY <1>1, <1>2, <1>3 DEF LeakInv

\* Create() and its counterpart of the server.
LEMMA CreateKeepsLeaks ==
    ASSUME PlanInv, LeakInv, Create
    PROVE  LeakInv'
<1>1. call.phase = "imported" /\ run = NoRun /\ session' = session
  BY DEF Create, LeakInv, FreshInv
<1>2. ~session.opened
  BY <1>1 DEF LeakInv, SplitInv
<1> DEFINE r == RunOf("train", ConfigOf(call.plan))
<1>3. /\ r.owner = "train" /\ r.dataset = <<call.source, call.plan.mode>>
      /\ r.objective = TrueTask(Data, call.plan.mode)
      /\ r.split_policy = call.plan.split_policy
      /\ call.source \in DOMAIN Sources /\ Suits(call.plan, Data)
  BY <1>1, CreateFits DEF PlanInv, CallInv, Planned, Handed, Data
<1>. HIDE DEF r
<1>4. CASE UNCHANGED <<run, state, busy>> /\ call'.phase = "raised"
  BY <1>1, <1>4, OthersKeepLeaks
<1>5. CASE run' = r /\ Phase("created")
  <2>1. call'.phase = "created"
    BY <1>1, <1>5 DEF Phase, PlanInv, CallInv, Planned
  <2>2. run' # NoRun
    BY <1>3, <1>5 DEF NoRun
  <2>3. FreshInv'
    BY <2>1, <2>2 DEF FreshInv
  <2>4. SplitInv'
    BY <1>1, <1>2 DEF SplitInv, LeakInv
  <2>5. RunInv'
    <3>1. Fitting(Data, call.plan.mode, call.plan.split_policy, TrueTask(Data, call.plan.mode))
      BY <1>3, SuitsFits
    <3>2. run'.dataset[1] = call.source /\ run'.dataset[2] = call.plan.mode
      BY <1>3, <1>5
    <3>3. Fitting(Sources[run'.dataset[1]], run'.dataset[2], run'.split_policy, run'.objective)
      BY <1>3, <1>5, <3>1, <3>2 DEF Data
    <3>. QED
      BY <1>3, <3>2, <3>3 DEF RunInv
  <2>. QED
    BY <2>3, <2>4, <2>5 DEF LeakInv
<1>. QED
  <2>1. \/ \E why \in {"pack", "dataset", "create"} : Raise(why) /\ UNCHANGED <<run, runVars>>
        \/ run' = r /\ Phase("created")
    BY DEF Create, r
  <2>. QED
    BY <1>4, <1>5, <2>1 DEF Raise, runVars

\* A run of another client is not a run of train().
LEMMA DirectKeepsLeaks ==
    ASSUME LeakInv, CreateDirect
    PROVE  LeakInv'
<1>1. call.phase = "idle" /\ run = NoRun /\ UNCHANGED <<call, session>>
  BY DEF CreateDirect
<1>2. run'.owner = "client"
  <2>1. PICK c \in DirectConfigs : run' = RunOf("client", c)
    BY DEF CreateDirect
  <2>. QED
    BY <2>1, RunIs
<1>3. ~session.opened
  BY <1>1 DEF LeakInv, SplitInv
<1>4. run' # NoRun
  BY <1>2 DEF NoRun
<1>5. FreshInv'
  BY <1>1, <1>4 DEF FreshInv
<1>6. SplitInv'
  BY <1>1, <1>3 DEF SplitInv, LeakInv
<1>7. RunInv'
  BY <1>2 DEF RunInv
<1>. QED
  BY <1>5, <1>6, <1>7 DEF LeakInv

\* The worker divides the data by what the run says.
LEMMA OpenKeepsLeaks ==
    ASSUME LeakInv, Open
    PROVE  LeakInv'
<1>1. "run" \in busy /\ UNCHANGED <<call, run, state, busy>>
  BY DEF Open, runVars
<1>2. run # NoRun
  BY <1>1 DEF LeakInv, FreshInv
<1>3. PICK stride \in Strides :
        LET d == Sources[run.dataset[1]]   mode == run.dataset[2]
            split == SplitOf(d, mode, run.split_policy, run.objective, stride)
        IN  /\ ~SplitRefused(d, mode, run.split_policy, run.objective, split)
            /\ session' = [opened |-> TRUE, split |-> split, stride |-> stride,
                           tuning |-> AutotuneExecution(
                                GetAlgorithmPack(table, run.algorithm_pack),
                                Hardware.cpu_threads, run.threads)]
  BY DEF Open
<1> DEFINE split == SplitOf(Sources[run.dataset[1]], run.dataset[2], run.split_policy,
                            run.objective, stride)
           tuning == AutotuneExecution(GetAlgorithmPack(table, run.algorithm_pack),
                                       Hardware.cpu_threads, run.threads)
<1>4. session' = [opened |-> TRUE, split |-> split, stride |-> stride, tuning |-> tuning]
  BY <1>3
<1>5. ~SplitRefused(Sources[run.dataset[1]], run.dataset[2], run.split_policy, run.objective, split)
  BY <1>3
<1>. HIDE DEF tuning, split
<1>6. "opened" \in DOMAIN session' /\ session'.split = split
  BY <1>4
<1>7. SplitInv'
  BY <1>1, <1>2, <1>5, <1>6 DEF SplitInv, split
<1>8. FreshInv' /\ RunInv'
  BY <1>1 DEF LeakInv, FreshInv, RunInv, Fitting
<1>. QED
  BY <1>7, <1>8 DEF LeakInv

\* A session that ends is closed.
LEMMA SettleKeepsLeaks ==
    ASSUME LeakInv, Settle
    PROVE  LeakInv'
<1>1. "run" \in busy /\ UNCHANGED <<call, run>>
  BY DEF Settle, Protocol!Settle
<1>2. run # NoRun
  BY <1>1 DEF LeakInv, FreshInv
<1>3. session' = [session EXCEPT !.opened = FALSE] \/ session' = NoSession
  BY DEF Settle
<1>4. "opened" \in DOMAIN session' /\ ~session'.opened
  BY <1>3 DEF LeakInv, SplitInv, NoSession
<1>5. FreshInv' /\ RunInv' /\ SplitInv'
  BY <1>1, <1>2, <1>4 DEF LeakInv, FreshInv, RunInv, Fitting, SplitInv
<1>. QED
  BY <1>5 DEF LeakInv

\* Every step keeps the invariant of the split.
LEMMA NextKeepsLeaks ==
    ASSUME PlanInv, LeakInv, [Next]_vars
    PROVE  LeakInv'
<1> DEFINE before == {"planning", "importing", "imported"}
<1>1. CASE Create
  BY <1>1, CreateKeepsLeaks
<1>2. CASE CreateDirect
  BY <1>2, DirectKeepsLeaks
<1>3. CASE Open
  BY <1>3, OpenKeepsLeaks
<1>4. CASE Settle
  BY <1>4, SettleKeepsLeaks
<1>5. CASE Plan
  <2>1. run = NoRun /\ UNCHANGED <<run, session, state, busy>>
    BY <1>5 DEF Plan, runVars
  <2>. QED
    BY <2>1, OthersKeepLeaks
<1>6. CASE Import \/ Imported \/ Attached
  <2>1. call.phase \in before /\ UNCHANGED <<run, session, state, busy>>
    BY <1>6 DEF Import, Imported, Attached, Stored, runVars
  <2>2. run = NoRun
    BY <2>1 DEF LeakInv, FreshInv
  <2>. QED
    BY <2>1, <2>2, OthersKeepLeaks
<1>7. CASE Start \/ Poll \/ Interrupt
  <2>1. call.phase \in {"created", "waiting"} /\ UNCHANGED <<run, session>>
    BY <1>7 DEF Start, Poll, Interrupt
  <2>2. run # NoRun
    BY <2>1 DEF PlanInv, PlanIsKept, NoRun
  <2>3. /\ "phase" \in DOMAIN call
        /\ \/ \E to \in {"waiting", "returned"} : Phase(to)
           \/ \E why \in {"run", "removed", "error", "interrupt"} : Raise(why)
    BY <1>7, <2>1 DEF Start, Poll, Interrupt, PlanInv, CallInv, Planned
  <2>4. call'.phase \in {"waiting", "returned", "raised"}
    BY <2>3 DEF Phase, Raise
  <2>. QED
    BY <2>1, <2>2, <2>4, OthersKeepLeaks
<1>8. CASE Launch
  <2>1. UNCHANGED <<call, run, session>> /\ state["run"] = "queued"
    BY <1>8 DEF Launch, Protocol!Launch
  <2>. QED
    BY <2>1, OthersKeepLeaks DEF LeakInv, FreshInv
<1>9. CASE Command
  <2>1. run # NoRun /\ UNCHANGED <<call, run, session>>
    BY <1>9 DEF Command
  <2>. QED
    BY <2>1, OthersKeepLeaks DEF LeakInv, FreshInv
<1>10. CASE PlanChunk \/ EditPacks \/ RemoveDataset \/ UNCHANGED vars
  <2>1. UNCHANGED <<call, run, session, state, busy>>
    BY <1>10 DEF PlanChunk, EditPacks, RemoveDataset, vars, runVars
  <2>. QED
    BY <2>1, OthersKeepLeaks DEF LeakInv, FreshInv
<1>. QED
  BY <1>1, <1>2, <1>3, <1>4, <1>5, <1>6, <1>7, <1>8, <1>9, <1>10 DEF Next

\* The invariant of the split implies that nothing leaks.
LEMMA LeakInvSound == LeakInv => NothingLeaks
<1>. SUFFICES ASSUME LeakInv, session.opened, run.owner = "train"
              PROVE  SoundSplit(Sources[run.dataset[1]], run.dataset[2], run.split_policy,
                                run.objective, session.split)
  BY DEF NothingLeaks
<1>1. PICK stride \in Strides :
        LET d == Sources[run.dataset[1]]   mode == run.dataset[2]
        IN  /\ session.split = SplitOf(d, mode, run.split_policy, run.objective, stride)
            /\ ~SplitRefused(d, mode, run.split_policy, run.objective,
                             SplitOf(d, mode, run.split_policy, run.objective, stride))
  BY DEF LeakInv, SplitInv
<1>2. /\ run.dataset[1] \in DOMAIN Sources
      /\ Fitting(Sources[run.dataset[1]], run.dataset[2], run.split_policy, run.objective)
  BY DEF LeakInv, RunInv
<1>. QED
  BY <1>1, <1>2, SplitsAreSound

\* A worker that trains on a run of train() never validates or tests on what it learns
\* from: the parts of its split (splitter.py, streaming.py) are disjoint, not empty and
\* all of the data, contexts are not torn apart, time-like rows are cut in their order,
\* and every class is learnt from.
THEOREM NothingEverLeaks == Spec => []NothingLeaks
<1>1. Init => LeakInv
  BY LeakInvInit
<1>2. PlanInv /\ LeakInv /\ [Next]_vars => LeakInv'
  BY NextKeepsLeaks
<1>3. LeakInv => NothingLeaks
  BY LeakInvSound
<1>. QED
  BY <1>1, <1>2, <1>3, PlanInvariance, PTL DEF Spec

-----------------------------------------------------------------------------
(* The chunk plans of a call.                                              *)

\* The limits of a target are limits.
LEMMA LimitsAre ==
    ASSUME NEW target \in Nat
    PROVE  ChunkLimits(target) \in Limits
<1>1. (target * 3) \div 4 \in Nat /\ (target * 5) \div 4 \in Nat
  OBVIOUS
<1>. QED
  BY <1>1 DEF ChunkLimits, Limits

\* The target that is computed when no pack names one.
LEMMA AutomaticTargetIs ==
    ASSUME NEW features \in Nat \ {0}
    PROVE  AutomaticChunkTarget(features) \in Nat
<1>1. 1048576 \div features \in Int
  OBVIOUS
<1>2. PowerFloor(1048576 \div features) \in Nat
  <2>1. PowerFloor(1048576 \div features) \in Powers
    BY <1>1, PowerFloorIs
  <2>. QED
    BY <2>1 DEF Powers
<1>. QED
  BY <1>2 DEF AutomaticChunkTarget, Within, Most, Least

\* The plan of a call, and the plan of the data set it registers, start under limits the
\* planner accepts.
LEMMA CallKeepsChunks ==
    ASSUME PlanInv, ChunkInv, [Next]_vars
    PROVE  ChunkInv'
<1>1. CASE Plan
  <2>1. CASE UNCHANGED chunkVars
    BY <2>1 DEF chunkVars, ChunkInv, ChunkTypeOK, ChunksCover
  <2>2. CASE ~UNCHANGED chunkVars
    <3>1. PICK caller \in Requests, name \in DOMAIN Sources :
            LET request == Asked(caller)   v == Resolve(request)   d == Sources[name] IN
            /\ ~PlanRefused(v, d)
            /\ ChunkStart(ChunkLimits(PlanOf(v, d).chunk_target), RecordsEstimate(d))
      BY <1>1, <2>2 DEF Plan
    <3>2. PlanOf(Resolve(Asked(caller)), Sources[name]).chunk_target \in Nat
      BY <3>1, PlanFits DEF PlanInv
    <3>3. RecordsEstimate(Sources[name]) \in Nat
      BY EstimateIs
    <3>. QED
      BY <3>1, <3>2, <3>3, LimitsAre, ChunkStartKeeps
  <2>. QED
    BY <2>1, <2>2
<1>2. CASE Import
  <2>1. CASE UNCHANGED chunkVars
    BY <2>1 DEF chunkVars, ChunkInv, ChunkTypeOK, ChunksCover
  <2>2. CASE ChunkStart(ChunkLimits(AutomaticChunkTarget(Data.features)), Len(Data.labels))
    <3>1. call.source \in DOMAIN Sources
      BY <1>2 DEF Import, PlanInv, CallInv, Planned
    <3>2. Data.features \in Nat \ {0} /\ Len(Data.labels) \in Nat
      BY <3>1, SourceAssumption DEF Data
    <3>. QED
      BY <2>2, <3>2, AutomaticTargetIs, LimitsAre, ChunkStartKeeps
  <2>. QED
    BY <1>2, <2>1, <2>2 DEF Import
<1>3. CASE PlanChunk
  BY <1>3, ChunkNextKeeps DEF PlanChunk
<1>4. CASE \/ Imported \/ Attached \/ Create \/ Start \/ Poll \/ Interrupt \/ Launch \/ Open
           \/ Settle \/ EditPacks \/ CreateDirect \/ Command \/ RemoveDataset \/ UNCHANGED vars
  <2>1. UNCHANGED chunkVars
    BY <1>4 DEF Imported, Attached, Stored, Create, Start, Poll, Interrupt, Launch, Open, Settle,
                EditPacks, CreateDirect, Command, RemoveDataset, vars
  <2>. QED
    BY <2>1 DEF chunkVars, ChunkInv, ChunkTypeOK, ChunksCover
<1>. QED
  BY <1>1, <1>2, <1>3, <1>4 DEF Next

\* The chunk policies that plan() and the registration of a data set compute
\* (planning.py) cover its records exactly.
THEOREM CallChunksCover == Spec => []ChunksCover
<1>1. Init => ChunkInv
  BY ChunkInit DEF Init
<1>2. PlanInv /\ ChunkInv /\ [Next]_vars => ChunkInv'
  BY CallKeepsChunks
<1>3. ChunkInv => ChunksCover
  BY DEF ChunkInv
<1>. QED
  BY <1>1, <1>2, <1>3, PlanInvariance, PTL DEF Spec
=============================================================================
