----------------------------- MODULE PrefetchStream -----------------------------
(***************************************************************************)
(* StreamingTabularSource (streaming.py): a producer thread reads the      *)
(* training rows of a file, over and over, ahead of the training steps,    *)
(* through a bounded queue; the cursor of a checkpoint (rows_consumed)     *)
(* lets a later session continue with the row after the last one trained   *)
(* on.  Rows are numbered 0 .. TrainRows-1 in the order of the file;       *)
(* encoding them keeps their order (executor.map) and is left out.         *)
(***************************************************************************)
EXTENDS Integers, Sequences

CONSTANTS
    TrainRows,      \* rows of the training split, exact (split_records)
    Batches,        \* the batch sizes the training asks for
    Prefetches,     \* the prefetch settings to consider; 0 reads synchronously
    ChunkLimit,     \* rows the producer encodes at a time, at most (256 in the code)
    MaxRows,        \* bound: rows consumed by one training
    Broken          \* what a failing reader puts in the queue

ASSUME StreamAssumption == /\ TrainRows \in Nat \ {0}
                           /\ Batches \subseteq Nat \ {0}
                           /\ Prefetches \subseteq Nat
                           /\ ChunkLimit \in Nat \ {0} /\ MaxRows \in Nat
                           /\ Broken \notin 0..(TrainRows - 1)

VARIABLES
    prefetch,   \* the setting of this source
    cursor,     \* the row the iterator yields next
    held,       \* the items of the producer's current chunk that are not queued yet
    queue, capacity, chunk,
    producer,   \* none, running or ended
    stop,       \* the _stop event
    consumer,   \* idle, getting, restoring, closing, closed; failed: a restore gave up
    want,       \* rows the current next_batch() is to return
    values,     \* rows it has so far
    consumed,   \* rows_consumed
    saved,      \* the cursor in the checkpoint that a restore would read
    reader      \* sound, until a call of next_batch() raises the error of the reader:
                \* spent, or with rows skipped; sound again after a restore

streamVars == <<prefetch, cursor, held, queue, capacity, chunk, producer, stop,
                consumer, want, values, consumed, saved, reader>>

Smaller(a, b) == IF a < b THEN a ELSE b
Larger(a, b) == IF a < b THEN b ELSE a

RowsFrom(row, n) == [i \in 1..n |-> (row + i - 1) % TrainRows]

StreamInit ==
    /\ prefetch \in Prefetches
    /\ cursor = 0
    /\ held = <<>>
    /\ queue = <<>> /\ capacity = 0 /\ chunk = 0
    /\ producer = "none"
    /\ stop = FALSE
    /\ consumer = "idle"
    /\ want = 0
    /\ values = <<>>
    /\ consumed = 0
    /\ saved = 0
    /\ reader = "sound"

-----------------------------------------------------------------------------
(* The producer thread.                                                    *)

ProducerReads ==
    /\ producer = "running"
    /\ ~stop
    /\ held = <<>>
    /\ held' = RowsFrom(cursor, chunk)
    /\ cursor' = (cursor + chunk) % TrainRows
    /\ UNCHANGED <<prefetch, queue, capacity, chunk, producer, stop, consumer, want, values, consumed, saved, reader>>

\* A row that cannot be read or encoded takes the rest of its chunk with it; the
\* iterator is spent, and its position matters no more.
ProducerBreaks ==
    /\ producer = "running"
    /\ ~stop
    /\ held = <<>>
    /\ held' = <<Broken>>
    /\ UNCHANGED <<prefetch, cursor, queue, capacity, chunk, producer, stop, consumer, want, values, consumed, saved, reader>>

\* A put that already waits for room may still succeed after the stop event.
ProducerPuts ==
    /\ producer = "running"
    /\ held # <<>>
    /\ Len(queue) < capacity
    /\ queue' = Append(queue, Head(held))
    /\ held' = Tail(held)
    /\ producer' = IF Head(held) = Broken THEN "ended" ELSE producer
    /\ UNCHANGED <<prefetch, cursor, capacity, chunk, stop, consumer, want, values, consumed, saved, reader>>

ProducerEnds ==
    /\ producer = "running"
    /\ stop
    /\ producer' = "ended"
    /\ held' = <<>>
    /\ UNCHANGED <<prefetch, cursor, queue, capacity, chunk, stop, consumer, want, values, consumed, saved, reader>>

-----------------------------------------------------------------------------
(* next_batch(): the first call starts the producer and fixes the size of  *)
(* the queue; every call takes its rows one by one, without a time-out.    *)

QueueSize(n) == Larger(n, n * prefetch)

NextBatch(n) ==
    /\ consumer = "idle"
    /\ consumed + n <= MaxRows
    /\ prefetch > 0
    /\ IF producer = "none"
       THEN /\ producer' = "running"
            /\ capacity' = QueueSize(n)
            /\ chunk' = Smaller(n, ChunkLimit)
       ELSE UNCHANGED <<producer, capacity, chunk>>
    /\ consumer' = "getting"
    /\ want' = n
    /\ values' = <<>>
    /\ UNCHANGED <<prefetch, cursor, held, queue, stop, consumed, saved, reader>>

\* Without prefetch the rows are read on the spot.  An error of the iterator leaves it
\* spent, and every later call raises at once; an error in the encoding of the rows
\* leaves the iterator behind them.
NextBatchDirect(n) ==
    /\ consumer = "idle"
    /\ consumed + n <= MaxRows
    /\ prefetch = 0
    /\ reader # "spent"
    /\ \/ /\ values' = RowsFrom(cursor, n)
          /\ want' = n
          /\ cursor' = (cursor + n) % TrainRows
          /\ consumed' = consumed + n
          /\ UNCHANGED reader
       \/ /\ reader' = "spent"
          /\ UNCHANGED <<cursor, values, want, consumed>>
       \/ /\ reader' = "skipped"
          /\ cursor' = (cursor + n) % TrainRows
          /\ UNCHANGED <<values, want, consumed>>
    /\ UNCHANGED <<prefetch, held, queue, capacity, chunk, producer, stop, consumer, saved>>

\* The error of the reader is raised, and what the call had taken is dropped; the source
\* stays open, and keeps the producer that has ended.
Get ==
    /\ consumer = "getting"
    /\ queue # <<>>
    /\ queue' = Tail(queue)
    /\ IF Head(queue) = Broken
       THEN /\ stop' = TRUE /\ reader' = "spent" /\ consumer' = "idle"
            /\ UNCHANGED <<values, consumed>>
       ELSE /\ values' = Append(values, Head(queue))
            /\ IF Len(values') = want
               THEN consumed' = consumed + want /\ consumer' = "idle"
               ELSE UNCHANGED <<consumed, consumer>>
            /\ UNCHANGED <<stop, reader>>
    /\ UNCHANGED <<prefetch, cursor, held, capacity, chunk, producer, want, saved>>

-----------------------------------------------------------------------------
(* Checkpoints and the end of the source.                                  *)

SaveCursor ==
    /\ consumer = "idle"
    /\ saved' = consumed
    /\ UNCHANGED <<prefetch, cursor, held, queue, capacity, chunk, producer, stop,
                   consumer, want, values, consumed, reader>>

StopProducer_Silent(to) ==
    /\ consumer' = to
    /\ UNCHANGED <<prefetch, cursor, held, queue, capacity, chunk, producer, stop,
                   want, values, consumed, saved, reader>>

\* restore_rows() and close() first stop the producer: at once if there is none.
StopProducer(to) ==
    /\ stop' = (stop \/ producer # "none")
    /\ consumer' = to
    /\ UNCHANGED <<prefetch, cursor, held, queue, capacity, chunk, producer,
                   want, values, consumed, saved, reader>>

RestoreBegins == consumer = "idle" /\ StopProducer("restoring")
CloseBegins   == consumer \in {"idle", "failed"} /\ StopProducer("closing")

Joined == producer \in {"none", "ended"}

Replaced_KeepsStop == UNCHANGED stop
Replaced == stop' = FALSE       \* a new _stop event for the next producer

Rewound_KeepsIterator == UNCHANGED cursor
Rewound == cursor' = saved % TrainRows

RestoreEnds ==
    /\ consumer = "restoring"
    /\ Joined
    /\ producer' = "none" /\ queue' = <<>> /\ held' = <<>>
    /\ Replaced
    /\ Rewound
    /\ consumed' = saved
    /\ values' = <<>>
    /\ consumer' = "idle"
    /\ reader' = "sound"
    /\ UNCHANGED <<prefetch, capacity, chunk, want, saved>>

CloseEnds ==
    /\ consumer = "closing"
    /\ Joined
    /\ producer' = "none" /\ queue' = <<>> /\ held' = <<>>
    /\ Replaced
    /\ consumer' = "closed"
    /\ UNCHANGED <<prefetch, cursor, capacity, chunk, want, values, consumed, saved, reader>>

\* The producer is still reading after five seconds: the call raises, and the session
\* whose checkpoint cannot be restored is closed.
JoinTimesOut ==
    /\ consumer \in {"restoring", "closing"}
    /\ ~Joined
    /\ consumer' = IF consumer = "closing" THEN "closed" ELSE "failed"
    /\ UNCHANGED <<prefetch, cursor, held, queue, capacity, chunk, producer, stop,
                   want, values, consumed, saved, reader>>

Producer == ProducerReads \/ ProducerBreaks \/ ProducerPuts \/ ProducerEnds
Consumer == \/ \E n \in Batches : NextBatch(n) \/ NextBatchDirect(n)
            \/ Get \/ SaveCursor \/ RestoreBegins \/ RestoreEnds
            \/ CloseBegins \/ CloseEnds \/ JoinTimesOut

StreamNext == Producer \/ Consumer

StreamSpec == StreamInit /\ [][StreamNext]_streamVars

\* The reader makes progress or fails; the consumer takes what is queued.
FairStreamSpec == StreamSpec /\ WF_streamVars(Producer) /\ WF_streamVars(Get)

-----------------------------------------------------------------------------
Row  == 0..(TrainRows - 1)
Item == Row \cup {Broken}

StreamTypeOK ==
    /\ prefetch \in Prefetches
    /\ cursor \in Row
    /\ held \in Seq(Item) /\ queue \in Seq(Item) /\ values \in Seq(Row)
    /\ capacity \in Nat /\ chunk \in Nat
    /\ producer \in {"none", "running", "ended"}
    /\ stop \in BOOLEAN
    /\ consumer \in {"idle", "getting", "restoring", "closing", "closed", "failed"}
    /\ want \in Nat
    /\ consumed \in 0..MaxRows /\ saved \in 0..MaxRows
    /\ reader \in {"sound", "spent", "skipped"}

\* The rows of a chunk or of the queue, up to the failure of the reader, its last item.
RowsOf(items) ==
    IF items # <<>> /\ items[Len(items)] = Broken THEN SubSeq(items, 1, Len(items) - 1) ELSE items

\* The rows the current call of next_batch() has taken and not yet counted.
Taken == IF consumer = "getting" THEN values ELSE <<>>

\* What is taken, queued and held, in this order, are the rows that follow the last
\* one counted: the prefetch loses no row and repeats none, and after a restore the
\* training goes on with the row after the checkpoint ("checkpoint cursor
\* restoration", CHANGELOG 0.3.0a1), whatever had been read ahead, and also if the
\* reader had failed before; until then nothing follows a failure that was queued.
RowsInOrder ==
    consumer \in {"idle", "getting"} =>
        LET ahead == Taken \o RowsOf(queue) \o RowsOf(held)
        IN  /\ ahead = RowsFrom(consumed, Len(ahead))
            /\ reader = "sound" => cursor = (consumed + Len(ahead)) % TrainRows

\* A call of next_batch() returns, with rows or with the reader's error, also when a
\* later batch is larger than the whole queue and after any number of restores; but a
\* call that repeats one that raised the error of a prefetching reader does not.
BatchArrives == consumer = "getting" /\ reader = "sound" ~> consumer # "getting"

\* Every call returns.  No run checks it: the training loop repeats a call whose error
\* says "out of memory" (runtime.py:562), the producer is gone, and get() has no
\* time-out (streaming.py:570).
EveryBatchArrives == consumer = "getting" ~> consumer # "getting"

\* The reader of a source that is closed or could not be restored stops, also if the call gave
\* up waiting for it: it holds the dataset file and a queue of rows.
ReaderStops == consumer \in {"closed", "failed"} ~> producer # "running"
=============================================================================
