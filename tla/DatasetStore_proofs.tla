------------------------- MODULE DatasetStore_proofs -------------------------
(***************************************************************************)
(* What the records say is on disk, for every number of data sets, names   *)
(* and callers.  Four arguments over one induction: while no call that     *)
(* brings a data set met a removal or a repair, nobody takes its copy      *)
(* (CopyInv), its arrays are there, and every copy has a name that is      *)
(* accounted for (FilesInv); while no call was cut short either, the       *)
(* arrays go after the record (ArrayInv); and a repair that runs alone     *)
(* sees the records as they are until it ends (RepairInv).                 *)
(***************************************************************************)
EXTENDS DatasetStore, TLAPS

Phases == {"copy", "publish", "ingest", "array", "register", "delete", "arrays", "check", "save"}

Registered == {d \in Datasets : records[d] # Unregistered}

\* c goes on with the same work, or returns, and the others stay where they are.
Moves(c) ==
    /\ call[c] # NoCall /\ call[c].d \in Datasets /\ call[c].n \in Names
    /\ \A e \in Calls \ {c} : call'[e] = call[e]
    /\ \/ call'[c] = NoCall
       \/ call'[c].op = call[c].op /\ call'[c].d = call[c].d /\ call'[c].n = call[c].n

\* c has deleted the record of d, and what belongs to it comes next.
Clears(c, d) == Does(c, "remove", d) /\ call[c].pc \in {"copy", "arrays"}

\* c is about to write the record of d.
Enters(c, d) == Brings(c, d) /\ call[c].pc \in {"register", "save"}

\* Nobody removes what another call brings.
Apart(d) == \A c, e \in Calls : Does(c, "remove", d) => ~Brings(e, d)

\* What is being cleared has no record any more.
Cleared(d) == \A c \in Calls : Clears(c, d) => records[d] = Unregistered

\* A repair runs next to no call that brings d, and leaves its files where they are.
Spared(d) ==
    /\ repair.pc # "off" => \A c \in Calls : ~Brings(c, d)
    /\ repair.pc = "scan" /\ records[d] # Unregistered => d \in repair.known
    /\ repair.pc = "move" /\ records[d] # Unregistered => repair.found \cap Owned({d}) = {}

\* What the manifest names is still there when its record is written.
Checked(d) ==
    \A c \in Calls : Does(c, "restore", d) /\ call[c].pc = "save" /\ call[c].n \notin Lookalikes =>
        Copy(d, call[c].n) \in disk

\* A record has its copy, unless a cleanup may take it for a pending file.
Backed(d) == records[d] \notin Lookalikes \cup {Unregistered} => Copy(d, records[d]) \in disk

\* Until a call that brings d meets a removal, a repair or a failed import of it.
CopyInv(d) ==
    "overlap" \notin marks[d] => Apart(d) /\ Cleared(d) /\ Spared(d) /\ Checked(d) /\ Backed(d)

\* The arrays are there before the record is.
Arrayed(d) ==
    /\ \A c \in Calls : Enters(c, d) => Array(d) \in disk
    /\ records[d] # Unregistered => Array(d) \in disk

\* A removal will unlink the copy that the record names, if it finds the record.
Aimed(d) ==
    \A c \in Calls : Does(c, "remove", d) /\ call[c].pc = "delete" =>
        records[d] \in {call[c].n, Unregistered}

\* c has published a copy that it will register, or has to unlink one.
Keeps(c, d, n) ==
    /\ call[c].n = n
    /\ \/ Does(c, "import", d) /\ call[c].pc \in {"ingest", "array", "register"}
       \/ Does(c, "remove", d) /\ call[c].pc = "copy"

\* No copy is there by mistake.
Named(d) ==
    \A n \in Names : Copy(d, n) \in disk =>
        n \in stale[d] \cup {records[d]} \/ \E c \in Calls : Keeps(c, d, n)

\* Until the same.
FilesInv(d) == "overlap" \notin marks[d] => Arrayed(d) /\ Aimed(d) /\ Named(d)

\* Nobody has to make the arrays again.
Unloaded(d) == \A c \in Calls : ~Does(c, "load", d)

\* They are there without a record only while a call is about to register or unlink them.
Owed(d) ==
    records[d] = Unregistered /\ Array(d) \in disk => \E c \in Calls : Enters(c, d) \/ Clears(c, d)

\* Until a call on d is cut short or meets another one.
ArrayInv(d) == marks[d] = {} => Unloaded(d) /\ Owed(d)

\* A repair that is alone runs next to no call: what it knows are the records, and what
\* it will move is all that belongs to none.
RepairInv ==
    repair.pc # "off" /\ repair.alone =>
      /\ \A c \in Calls : call[c] = NoCall
      /\ repair.pc = "scan" => repair.known = Registered
      /\ repair.pc = "move" => disk \ Owned(Registered) \subseteq repair.found

IInv ==
    /\ TypeOK
    /\ \A d \in Datasets : CopyInv(d) /\ FilesInv(d) /\ ArrayInv(d)
    /\ RepairInv

-----------------------------------------------------------------------------
(* Names of files, and what the parts of the actions do to the calls.      *)

\* A file has one name: the copies, the arrays, the pending files and the litter differ.
LEMMA FilesDiffer ==
    ASSUME NEW d, NEW e, NEW n, NEW m, NEW c
    PROVE  /\ Copy(d, n) = Copy(e, m) => d = e /\ n = m
           /\ Array(d) = Array(e) => d = e
           /\ Copy(d, n) # Array(e)
           /\ Copy(d, n) # PendingCopy(c) /\ Copy(d, n) # PendingArray(c) /\ Copy(d, n) # Litter
           /\ Array(d) # PendingCopy(c) /\ Array(d) # PendingArray(c) /\ Array(d) # Litter
  BY DEF Copy, Array, PendingCopy, PendingArray, Litter

\* A call that goes on works on the same data set and file as before.
LEMMA GoesOn ==
    ASSUME TypeOK, NEW c \in Calls, call[c] # NoCall, NEW pc, Goto(c, pc)
    PROVE  /\ \A e \in Calls \ {c} : call'[e] = call[e]
           /\ call'[c].op = call[c].op /\ call'[c].d = call[c].d /\ call'[c].n = call[c].n
           /\ call'[c].pc = pc
           /\ pc \in Phases => call' \in [Calls -> Call]
<1>1. call' = [call EXCEPT ![c] = [call[c] EXCEPT !.pc = pc]]
  BY DEF Goto
<1>2. call[c] \in Call \ {NoCall} /\ call \in [Calls -> Call]
  BY DEF TypeOK
<1>3. DEFINE r == [call[c] EXCEPT !.pc = pc]
<1>4. /\ r.op = call[c].op /\ r.d = call[c].d /\ r.n = call[c].n /\ r.pc = pc
      /\ pc \in Phases => r \in Call
  BY <1>2 DEF Call, Phases
<1>. QED
  BY <1>1, <1>2, <1>4

\* A call that returns leaves the others as they are.
LEMMA GoesBack ==
    ASSUME TypeOK, NEW c \in Calls, Return(c)
    PROVE  /\ \A e \in Calls \ {c} : call'[e] = call[e]
           /\ call'[c] = NoCall
           /\ call' \in [Calls -> Call]
  BY DEF TypeOK, Return, Call

LEMMA Starts ==
    ASSUME TypeOK, NEW c \in Calls, NEW op \in {"import", "adopt", "restore", "remove", "load"},
           NEW pc \in Phases, NEW d \in Datasets, NEW n \in Names, Begins(c, op, pc, d, n)
    PROVE  /\ \A e \in Calls \ {c} : call'[e] = call[e]
           /\ call'[c] = [op |-> op, pc |-> pc, d |-> d, n |-> n]
           /\ call[c] = NoCall
           /\ call' \in [Calls -> Call]
           /\ repair' \in Repair /\ repair'.pc = repair.pc
           /\ repair.pc = "off" => repair' = repair
           /\ repair.pc = "scan" => repair'.known = repair.known
           /\ repair.pc = "move" => repair'.found = repair.found
           /\ repair.pc # "off" => ~repair'.alone
<1>1. /\ call[c] = NoCall /\ call \in [Calls -> Call]
      /\ call' = [call EXCEPT ![c] = [op |-> op, pc |-> pc, d |-> d, n |-> n]]
      /\ [op |-> op, pc |-> pc, d |-> d, n |-> n] \in Call
  BY DEF TypeOK, Begins, Call, Phases
<1>2. repair' = IF repair.pc = "off" THEN repair ELSE [repair EXCEPT !.alone = FALSE]
  BY DEF Begins
<1>3. CASE repair = NoRepair
  BY <1>1, <1>2, <1>3 DEF NoRepair, Repair
<1>4. CASE repair \in [pc : {"scan"}, alone : BOOLEAN, known : SUBSET Datasets]
  BY <1>1, <1>2, <1>4 DEF Repair
<1>5. CASE repair \in [pc : {"move"}, alone : BOOLEAN, found : SUBSET File]
  BY <1>1, <1>2, <1>5 DEF Repair
<1>. QED
  BY <1>3, <1>4, <1>5 DEF TypeOK, Repair

\* A call has a data set and a name, and an operation that is not none.
LEMMA Busy ==
    ASSUME TypeOK, NEW c \in Calls, call[c] # NoCall
    PROVE  /\ call[c].op \in {"import", "adopt", "restore", "remove", "load"}
           /\ call[c].d \in Datasets /\ call[c].n \in Names
           /\ call[c].op # "none"
  BY DEF TypeOK, Call

LEMMA Idle == NoCall.op = "none"
  BY DEF NoCall

LEMMA FilesAreFiles ==
    ASSUME NEW d \in Datasets, NEW n \in Names, NEW c \in Calls
    PROVE  {Copy(d, n), Array(d), PendingCopy(c), PendingArray(c), Litter} \subseteq File
  BY DEF File, Pending

\* What every step of a call does: it goes on with the same work, or returns.
LEMMA Working ==
    ASSUME TypeOK, NEW c \in Calls, Work(c)
    PROVE  Moves(c) /\ call' \in [Calls -> Call]
<1>1. call[c] # NoCall
  BY Idle DEF Work, At, Copies, Publishes, WritesArray, PublishesArray, Registers, ImportFails,
     DeletesRecord, UnlinksCopy, UnlinksArray, Ends, ChecksFiles, SavesRecord
<1>2. Return(c) \/ \E pc \in Phases : Goto(c, pc)
  BY DEF Work, Copies, Publishes, WritesArray, PublishesArray, Registers, ImportFails,
     DeletesRecord, UnlinksCopy, UnlinksArray, Ends, ChecksFiles, SavesRecord, Records, Phases
<1>. QED
  BY <1>1, <1>2, GoesOn, GoesBack, Busy DEF Moves

LEMMA TypeStep ==
    ASSUME TypeOK, [Next]_vars
    PROVE  TypeOK'
<1>1. ASSUME NEW c \in Calls, Copies(c) PROVE TypeOK'
  <2>1. Moves(c) /\ call' \in [Calls -> Call]
    BY <1>1, Working DEF Work
  <2>2. disk' \subseteq File
    BY <1>1, <2>1, FilesAreFiles DEF Copies, Moves, TypeOK
  <2>. QED
    BY <1>1, <2>1, <2>2 DEF Copies, Moves, TypeOK
<1>2. ASSUME NEW c \in Calls, Publishes(c) PROVE TypeOK'
  <2>1. Moves(c) /\ call' \in [Calls -> Call]
    BY <1>2, Working DEF Work
  <2>2. disk' \subseteq File
    BY <1>2, <2>1, FilesAreFiles DEF Publishes, Moves, TypeOK
  <2>. QED
    BY <1>2, <2>1, <2>2 DEF Publishes, Moves, TypeOK
<1>3. ASSUME NEW c \in Calls, WritesArray(c) PROVE TypeOK'
  <2>1. Moves(c) /\ call' \in [Calls -> Call]
    BY <1>3, Working DEF Work
  <2>2. disk' \subseteq File
    BY <1>3, <2>1, FilesAreFiles DEF WritesArray, Moves, TypeOK
  <2>. QED
    BY <1>3, <2>1, <2>2 DEF WritesArray, Moves, TypeOK
<1>4. ASSUME NEW c \in Calls, PublishesArray(c) PROVE TypeOK'
  <2>1. Moves(c) /\ call' \in [Calls -> Call]
    BY <1>4, Working DEF Work
  <2>2. disk' \subseteq File
    BY <1>4, <2>1, FilesAreFiles DEF PublishesArray, Moves, TypeOK
  <2>. QED
    BY <1>4, <2>1, <2>2 DEF PublishesArray, Moves, TypeOK
<1>5. ASSUME NEW c \in Calls, Registers(c) PROVE TypeOK'
  <2>1. Moves(c) /\ call' \in [Calls -> Call]
    BY <1>5, Working DEF Work
  <2>2. disk' \subseteq File
    BY <1>5, <2>1, FilesAreFiles DEF Registers, Records, Stale, Moves, TypeOK
  <2>. QED
    BY <1>5, <2>1, <2>2 DEF Registers, Records, Stale, Moves, TypeOK
<1>6. ASSUME NEW c \in Calls, ImportFails(c) PROVE TypeOK'
  <2>1. Moves(c) /\ call' \in [Calls -> Call]
    BY <1>6, Working DEF Work
  <2>2. disk' \subseteq File
    BY <1>6, <2>1, FilesAreFiles DEF ImportFails, Leaves, Abandoned, Moves, TypeOK
  <2>. QED
    BY <1>6, <2>1, <2>2 DEF ImportFails, Overlapping, Overlap, Cut, Moves, TypeOK
<1>7. ASSUME NEW c \in Calls, DeletesRecord(c) PROVE TypeOK'
  <2>1. Moves(c) /\ call' \in [Calls -> Call]
    BY <1>7, Working DEF Work
  <2>2. disk' \subseteq File
    BY <1>7, <2>1, FilesAreFiles DEF DeletesRecord, Moves, TypeOK
  <2>. QED
    BY <1>7, <2>1, <2>2 DEF DeletesRecord, Moves, TypeOK
<1>8. ASSUME NEW c \in Calls, UnlinksCopy(c) PROVE TypeOK'
  <2>1. Moves(c) /\ call' \in [Calls -> Call]
    BY <1>8, Working DEF Work
  <2>2. disk' \subseteq File
    BY <1>8, <2>1, FilesAreFiles DEF UnlinksCopy, Moves, TypeOK
  <2>. QED
    BY <1>8, <2>1, <2>2 DEF UnlinksCopy, Moves, TypeOK
<1>9. ASSUME NEW c \in Calls, UnlinksArray(c) PROVE TypeOK'
  <2>1. Moves(c) /\ call' \in [Calls -> Call]
    BY <1>9, Working DEF Work
  <2>2. disk' \subseteq File
    BY <1>9, <2>1, FilesAreFiles DEF UnlinksArray, Moves, TypeOK
  <2>. QED
    BY <1>9, <2>1, <2>2 DEF UnlinksArray, Moves, TypeOK
<1>10. ASSUME NEW c \in Calls, Ends(c) PROVE TypeOK'
  <2>1. Moves(c) /\ call' \in [Calls -> Call]
    BY <1>10, Working DEF Work
  <2>2. disk' \subseteq File
    BY <1>10, <2>1, FilesAreFiles DEF Ends, Leaves, Abandoned, Moves, TypeOK
  <2>. QED
    BY <1>10, <2>1, <2>2 DEF Ends, Cut, Stale, Moves, TypeOK
<1>11. ASSUME NEW c \in Calls, ChecksFiles(c) PROVE TypeOK'
  <2>1. Moves(c) /\ call' \in [Calls -> Call]
    BY <1>11, Working DEF Work
  <2>2. disk' \subseteq File
    BY <1>11, <2>1, FilesAreFiles DEF ChecksFiles, Moves, TypeOK
  <2>. QED
    BY <1>11, <2>1, <2>2 DEF ChecksFiles, Moves, TypeOK
<1>12. ASSUME NEW c \in Calls, SavesRecord(c) PROVE TypeOK'
  <2>1. Moves(c) /\ call' \in [Calls -> Call]
    BY <1>12, Working DEF Work
  <2>2. disk' \subseteq File
    BY <1>12, <2>1, FilesAreFiles DEF SavesRecord, Records, Stale, Moves, TypeOK
  <2>. QED
    BY <1>12, <2>1, <2>2 DEF SavesRecord, Records, Stale, Moves, TypeOK
<1>13. ASSUME NEW c \in Calls, NEW d \in Datasets, Removes(c, d) PROVE TypeOK'
  <2>1. records[d] \in Names
    BY <1>13 DEF Removes, TypeOK
  <2>2. call' \in [Calls -> Call] /\ repair' \in Repair /\ UNCHANGED <<records, disk, daemon>>
    BY <1>13, <2>1, Starts DEF Removes, Begins, Phases
  <2>3. marks' \in [Datasets -> SUBSET {"overlap", "cut"}] /\ stale' \in [Datasets -> SUBSET Names]
    BY <1>13 DEF Removes, MeetsOthers, Overlapping, Overlap, Cut, TypeOK
  <2>. QED
    BY <2>2, <2>3 DEF TypeOK
<1>14. ASSUME NEW c \in Calls, NEW d \in Datasets, Loads(c, d) PROVE TypeOK'
  <2>1. records[d] \in Names
    BY <1>14 DEF Loads, TypeOK
  <2>2. call' \in [Calls -> Call] /\ repair' \in Repair /\ UNCHANGED <<records, disk, daemon>>
    BY <1>14, <2>1, Starts DEF Loads, Begins, Phases
  <2>3. marks' \in [Datasets -> SUBSET {"overlap", "cut"}] /\ stale' \in [Datasets -> SUBSET Names]
    BY <1>14 DEF Loads, MeetsOthers, Overlapping, Overlap, Cut, TypeOK
  <2>. QED
    BY <2>2, <2>3 DEF TypeOK
<1>15. ASSUME NEW c \in Calls, NEW d \in Datasets, NEW n \in Names, Imports(c, d, n) PROVE TypeOK'
  <2>1. call' \in [Calls -> Call] /\ repair' \in Repair /\ UNCHANGED <<records, disk, daemon>>
    BY <1>15, Starts DEF Imports, Begins, Phases
  <2>2. marks' \in [Datasets -> SUBSET {"overlap", "cut"}] /\ stale' \in [Datasets -> SUBSET Names]
    BY <1>15 DEF Imports, MeetsOthers, Overlapping, Overlap, Cut, TypeOK
  <2>. QED
    BY <2>1, <2>2 DEF TypeOK
<1>16. ASSUME NEW c \in Calls, NEW d \in Datasets, NEW n \in Names, Adopts(c, d, n) PROVE TypeOK'
  <2>1. call' \in [Calls -> Call] /\ repair' \in Repair /\ UNCHANGED <<records, disk, daemon>>
    BY <1>16, Starts DEF Adopts, Begins, Phases
  <2>2. marks' \in [Datasets -> SUBSET {"overlap", "cut"}] /\ stale' \in [Datasets -> SUBSET Names]
    BY <1>16 DEF Adopts, MeetsOthers, Overlapping, Overlap, Cut, TypeOK
  <2>. QED
    BY <2>1, <2>2 DEF TypeOK
<1>17. ASSUME NEW c \in Calls, NEW d \in Datasets, NEW n \in Names, Restores(c, d, n) PROVE TypeOK'
  <2>1. call' \in [Calls -> Call] /\ repair' \in Repair /\ UNCHANGED <<records, disk, daemon>>
    BY <1>17, Starts DEF Restores, Begins, Phases
  <2>2. marks' \in [Datasets -> SUBSET {"overlap", "cut"}] /\ stale' \in [Datasets -> SUBSET Names]
    BY <1>17 DEF Restores, MeetsOthers, Overlapping, Overlap, Cut, TypeOK
  <2>. QED
    BY <2>1, <2>2 DEF TypeOK
<1>18. CASE DaemonStarts
  BY <1>18 DEF DaemonStarts, TypeOK
<1>19. CASE DaemonEnds
  BY <1>19 DEF DaemonEnds, TypeOK
<1>20. CASE Cleanup
  BY <1>20 DEF Cleanup, TypeOK
<1>21. CASE RepairReads
  BY <1>21 DEF RepairReads, Overlapping, Overlap, TypeOK, Repair
<1>22. CASE RepairScans
  <2>1. repair' \in [pc : {"move"}, alone : BOOLEAN, found : SUBSET File]
    <3>1. repair.alone \in BOOLEAN
      BY <1>22 DEF RepairScans, TypeOK, Repair, NoRepair
    <3>2. disk \ Owned(repair.known) \in SUBSET File
      BY DEF TypeOK
    <3>. QED
      BY <1>22, <3>1, <3>2 DEF RepairScans
  <2>. QED
    BY <1>22, <2>1 DEF RepairScans, TypeOK, Repair
<1>23. CASE RepairMoves
  <2>1. repair \in [pc : {"move"}, alone : BOOLEAN, found : SUBSET File]
    BY <1>23 DEF RepairMoves, TypeOK, Repair, NoRepair
  <2>2. repair' \in [pc : {"move"}, alone : BOOLEAN, found : SUBSET File]
    BY <1>23, <2>1 DEF RepairMoves
  <2>. QED
    BY <1>23, <2>2 DEF RepairMoves, TypeOK, Repair
<1>24. CASE RepairEnds
  BY <1>24 DEF RepairEnds, TypeOK, Repair, NoRepair
<1>25. CASE UNCHANGED vars
  BY <1>25 DEF vars, TypeOK
<1>. QED
  BY <1>1, <1>2, <1>3, <1>4, <1>5, <1>6, <1>7, <1>8, <1>9, <1>10, <1>11,
     <1>12, <1>13, <1>14, <1>15, <1>16, <1>17, <1>18, <1>19, <1>20, <1>21, <1>22,
     <1>23, <1>24, <1>25 DEF Next, Work, Ask, Maintain

\* Marks are never taken away.
LEMMA MarksStay ==
    ASSUME TypeOK, [Next]_vars, NEW x \in Datasets
    PROVE  marks[x] \subseteq marks'[x]
<1>1. ASSUME NEW c \in Calls, Work(c) PROVE marks[x] \subseteq marks'[x]
  BY <1>1 DEF Work, Copies, Publishes, WritesArray, PublishesArray, Registers, ImportFails,
     DeletesRecord, UnlinksCopy, UnlinksArray, Ends, ChecksFiles, SavesRecord, Records, Overlapping,
     Overlap, Cut, TypeOK
<1>2. ASSUME NEW c \in Calls, Ask(c) PROVE marks[x] \subseteq marks'[x]
  BY <1>2 DEF Ask, Removes, Loads, Imports, Adopts, Restores, MeetsOthers, Overlapping, Overlap, Cut, TypeOK
<1>3. CASE DaemonStarts \/ DaemonEnds \/ Maintain
  BY <1>3 DEF DaemonStarts, DaemonEnds, Maintain, Cleanup, RepairReads, RepairScans, RepairMoves,
     RepairEnds, Overlapping, Overlap, TypeOK
<1>4. CASE UNCHANGED vars
  BY <1>4 DEF vars
<1>. QED
  BY <1>1, <1>2, <1>3, <1>4 DEF Next

\* A call that goes on or returns, while it writes no record, keeps what is known of x: if
\* it takes a copy of x, x has no record and no other call brings it.
LEMMA GoingKeepsCopy ==
    ASSUME TypeOK, NEW x \in Datasets, CopyInv(x), "overlap" \notin marks[x],
           NEW c \in Calls, Moves(c),
           records'[x] \in {records[x], Unregistered}, repair' = repair,
           \/ \A n \in Names : Copy(x, n) \in disk => Copy(x, n) \in disk'
           \/ records[x] = Unregistered /\ \A e \in Calls : ~Brings(e, x)',
           Clears(c, x)' => records'[x] = Unregistered,
           Does(c, "restore", x)' /\ call'[c].pc = "save" => Copy(x, call'[c].n) \in disk'
    PROVE  CopyInv(x)'
<1> USE DEF Moves
<1>1. /\ \A e \in Calls : Brings(e, x)' => Brings(e, x)
      /\ \A e \in Calls : Does(e, "remove", x)' => Does(e, "remove", x)
      /\ \A e \in Calls \ {c} : Clears(e, x)' => Clears(e, x)
      /\ \A e \in Calls : Does(e, "restore", x)' => call'[e].n \in Names
  <2>1. /\ \A e \in Calls : Brings(e, x)' => Brings(e, x)
        /\ \A e \in Calls : Does(e, "remove", x)' => Does(e, "remove", x)
        /\ \A e \in Calls \ {c} : Clears(e, x)' => Clears(e, x)
    BY Idle DEF Brings, Does, Clears
  <2>2. \A e \in Calls : Does(e, "restore", x)' => call[e] # NoCall /\ call'[e].n = call[e].n
    BY Idle DEF Does
  <2>. QED
    BY <2>1, <2>2, Busy
<1>2. Apart(x)'
  BY <1>1 DEF CopyInv, Apart
<1>3. Cleared(x)'
  BY <1>1 DEF CopyInv, Cleared
<1>4. Spared(x)'
  BY <1>1 DEF CopyInv, Spared, Owned
<1>5. Checked(x)'
  <2> SUFFICES ASSUME NEW e \in Calls, e # c, Does(e, "restore", x)', call'[e].pc = "save",
                      call'[e].n \notin Lookalikes
               PROVE  Copy(x, call'[e].n) \in disk'
    BY DEF Checked
  <2>1. Brings(e, x)' /\ Does(e, "restore", x) /\ call'[e] = call[e]
    BY DEF Brings, Does
  <2>. QED
    BY <1>1, <2>1 DEF CopyInv, Checked
<1>6. Backed(x)'
  BY DEF CopyInv, Backed, TypeOK
<1>. QED
  BY <1>2, <1>3, <1>4, <1>5, <1>6 DEF CopyInv

\* A call that begins keeps what is known of x, if it begins to bring x while nobody
\* removes it and no repair runs, or begins to remove it while nobody brings it.
LEMMA BeginningKeepsCopy ==
    ASSUME TypeOK, NEW x \in Datasets, CopyInv(x), "overlap" \notin marks[x],
           NEW c \in Calls, call[c] = NoCall,
           \A e \in Calls \ {c} : call'[e] = call[e],
           call'[c].pc \in {"copy", "ingest", "check", "delete"},
           call'[c].pc = "copy" => call'[c].op = "import",
           repair'.pc = repair.pc,
           repair.pc = "scan" => repair'.known = repair.known,
           repair.pc = "move" => repair'.found = repair.found,
           UNCHANGED <<records, disk>>,
           Brings(c, x)' => repair.pc = "off" /\ \A e \in Calls : ~Does(e, "remove", x),
           Does(c, "remove", x)' => \A e \in Calls : ~Brings(e, x)
    PROVE  CopyInv(x)'
<1>1. /\ \A e \in Calls \ {c} : Brings(e, x)' => Brings(e, x)
      /\ \A e \in Calls \ {c} : Does(e, "remove", x)' => Does(e, "remove", x)
      /\ \A e \in Calls : Clears(e, x)' => Clears(e, x)
      /\ Does(c, "remove", x)' => ~Brings(c, x)'
  BY Idle DEF Brings, Does, Clears
<1>2. Apart(x)'
  BY <1>1 DEF CopyInv, Apart
<1>3. Cleared(x)'
  BY <1>1 DEF CopyInv, Cleared
<1>4. Spared(x)'
  BY <1>1 DEF CopyInv, Spared, Owned
<1>5. Checked(x)'
  BY DEF CopyInv, Checked, Does
<1>6. Backed(x)'
  BY DEF CopyInv, Backed
<1>. QED
  BY <1>2, <1>3, <1>4, <1>5, <1>6 DEF CopyInv


LEMMA CopyStep ==
    ASSUME TypeOK, [Next]_vars, NEW x \in Datasets, CopyInv(x)
    PROVE  CopyInv(x)'
<1> SUFFICES ASSUME "overlap" \notin marks'[x] PROVE CopyInv(x)'
  BY DEF CopyInv
<1>0. "overlap" \notin marks[x] /\ "overlap" \notin marks'[x]
  BY MarksStay
<1>1. ASSUME NEW c \in Calls, Copies(c) PROVE CopyInv(x)'
  <2>1. Moves(c)
    BY <1>1, Working DEF Work
  <2>2. repair' = repair /\ records' = records
    BY <1>1 DEF Copies, Moves
  <2>3. \A n \in Names : Copy(x, n) \in disk => Copy(x, n) \in disk'
    BY <1>1, FilesDiffer DEF Copies
  <2>4. Clears(c, x)' => records'[x] = Unregistered
    BY <1>0, <1>1, <2>1, GoesOn, Idle DEF Copies, Moves, At, CopyInv, Cleared, Clears, Does,
       Phases, TypeOK
  <2>5. Does(c, "restore", x)' /\ call'[c].pc = "save" => Copy(x, call'[c].n) \in disk'
    BY <1>0, <1>1, <2>1, GoesOn, Idle DEF Copies, Moves, At, Does, Phases
  <2>. QED
    BY <1>0, <2>1, <2>2, <2>3, <2>4, <2>5, GoingKeepsCopy
<1>2. ASSUME NEW c \in Calls, Publishes(c) PROVE CopyInv(x)'
  <2>1. Moves(c)
    BY <1>2, Working DEF Work
  <2>2. repair' = repair /\ records' = records
    BY <1>2 DEF Publishes, Moves
  <2>3. \A n \in Names : Copy(x, n) \in disk => Copy(x, n) \in disk'
    BY <1>2, FilesDiffer DEF Publishes
  <2>4. Clears(c, x)' => records'[x] = Unregistered
    BY <1>0, <1>2, <2>1, GoesOn, Idle DEF Publishes, Moves, At, CopyInv, Cleared, Clears, Does,
       Phases, TypeOK
  <2>5. Does(c, "restore", x)' /\ call'[c].pc = "save" => Copy(x, call'[c].n) \in disk'
    BY <1>0, <1>2, <2>1, GoesOn, Idle DEF Publishes, Moves, At, Does, Phases
  <2>. QED
    BY <1>0, <2>1, <2>2, <2>3, <2>4, <2>5, GoingKeepsCopy
<1>3. ASSUME NEW c \in Calls, WritesArray(c) PROVE CopyInv(x)'
  <2>1. Moves(c)
    BY <1>3, Working DEF Work
  <2>2. repair' = repair /\ records' = records
    BY <1>3 DEF WritesArray, Moves
  <2>3. \A n \in Names : Copy(x, n) \in disk => Copy(x, n) \in disk'
    BY <1>3, FilesDiffer DEF WritesArray
  <2>4. Clears(c, x)' => records'[x] = Unregistered
    BY <1>0, <1>3, <2>1, GoesOn, Idle DEF WritesArray, Moves, CopyInv, Cleared, Clears, Does,
       Phases, TypeOK
  <2>5. Does(c, "restore", x)' /\ call'[c].pc = "save" => Copy(x, call'[c].n) \in disk'
    BY <1>0, <1>3, <2>1, GoesOn, Idle DEF WritesArray, Moves, Does, Phases
  <2>. QED
    BY <1>0, <2>1, <2>2, <2>3, <2>4, <2>5, GoingKeepsCopy
<1>4. ASSUME NEW c \in Calls, PublishesArray(c) PROVE CopyInv(x)'
  <2>1. Moves(c)
    BY <1>4, Working DEF Work
  <2>2. repair' = repair /\ records' = records
    BY <1>4 DEF PublishesArray, Moves
  <2>3. \A n \in Names : Copy(x, n) \in disk => Copy(x, n) \in disk'
    BY <1>4, FilesDiffer DEF PublishesArray
  <2>4. Clears(c, x)' => records'[x] = Unregistered
    BY <1>0, <1>4, <2>1, GoesOn, GoesBack, Idle DEF PublishesArray, Moves, CopyInv, Cleared,
       Clears, Does, Phases, TypeOK
  <2>5. Does(c, "restore", x)' /\ call'[c].pc = "save" => Copy(x, call'[c].n) \in disk'
    BY <1>0, <1>4, <2>1, GoesOn, GoesBack, Idle DEF PublishesArray, Moves, Does, Phases
  <2>. QED
    BY <1>0, <2>1, <2>2, <2>3, <2>4, <2>5, GoingKeepsCopy
<1>5. ASSUME NEW c \in Calls, Registers(c) PROVE CopyInv(x)'
  <2>1. Moves(c)
    BY <1>5, Working DEF Work
  <2>2. /\ repair' = repair /\ disk' = disk /\ call'[c] = NoCall
        /\ records' = [records EXCEPT ![call[c].d] = call[c].n]
        /\ Brings(c, call[c].d)
    BY <1>5, GoesBack DEF Registers, Records, Brings, Does, At
  <2>3. CASE x # call[c].d
    <3>1. records'[x] = records[x]
      BY <2>1, <2>2, <2>3 DEF Moves, TypeOK
    <3>. QED
      BY <1>0, <2>1, <2>2, <3>1, GoingKeepsCopy, Idle DEF Moves, Clears, Does
  <2>4. CASE x = call[c].d
    <3>1. /\ \A e \in Calls : Brings(e, x)' => Brings(e, x)
          /\ \A e \in Calls : Does(e, "remove", x)' => Does(e, "remove", x)
          /\ \A e \in Calls : Clears(e, x)' => Does(e, "remove", x)
          /\ \A e \in Calls : Does(e, "restore", x)' => Does(e, "restore", x) /\ call'[e] = call[e]
      BY <2>1, <2>2, Idle DEF Moves, Brings, Does, Clears
    <3>2. records'[x] = call[c].n /\ records[x] \in Names \cup {Unregistered}
      BY <2>1, <2>2, <2>4 DEF Moves, TypeOK
    <3>3. call[c].n \notin Lookalikes => Copy(x, call[c].n) \in disk
      BY <1>0, <1>5, <2>1, <2>4 DEF Registers, Moves, At, CopyInv, Checked, Does
    <3>4. Apart(x)' /\ Cleared(x)' /\ Spared(x)'
      BY <1>0, <2>2, <2>4, <3>1 DEF CopyInv, Apart, Cleared, Spared
    <3>5. Checked(x)' /\ Backed(x)'
      BY <1>0, <2>2, <3>1, <3>2, <3>3 DEF CopyInv, Checked, Backed
    <3>. QED
      BY <3>4, <3>5 DEF CopyInv
  <2>. QED
    BY <2>3, <2>4
<1>6. ASSUME NEW c \in Calls, ImportFails(c) PROVE CopyInv(x)'
  <2>1. Moves(c)
    BY <1>6, Working DEF Work
  <2>2. repair' = repair /\ records' = records
    BY <1>6 DEF ImportFails, Moves
  <2>3. CASE x # call[c].d
    <3>1. \A n \in Names : Copy(x, n) \in disk => Copy(x, n) \in disk'
      BY <1>6, <2>3, FilesDiffer DEF ImportFails, Leaves, Abandoned
    <3>. QED
      BY <1>0, <2>1, <2>2, <2>3, <3>1, GoingKeepsCopy, Idle DEF Moves, Clears, Does
  <2>4. CASE x = call[c].d
    <3>1. records[x] = Unregistered /\ (\A e \in Calls \ {c} : ~Brings(e, x)) /\ call'[c] = NoCall
      BY <1>0, <1>6, <2>4, GoesBack DEF ImportFails, Overlapping, Overlap, TypeOK
    <3>2. \A e \in Calls : ~Brings(e, x)'
      BY <2>1, <3>1, Idle DEF Moves, Brings, Does
    <3>. QED
      BY <1>0, <2>1, <2>2, <3>1, <3>2, GoingKeepsCopy, Idle DEF Moves, Clears, Does
  <2>. QED
    BY <2>3, <2>4
<1>7. ASSUME NEW c \in Calls, DeletesRecord(c) PROVE CopyInv(x)'
  <2>1. Moves(c)
    BY <1>7, Working DEF Work
  <2>2. repair' = repair /\ records'[x] \in {records[x], Unregistered}
    BY <1>7, <2>1 DEF DeletesRecord, Moves, TypeOK
  <2>3. \A n \in Names : Copy(x, n) \in disk => Copy(x, n) \in disk'
    BY <1>7, FilesDiffer DEF DeletesRecord
  <2>4. Clears(c, x)' => records'[x] = Unregistered
    BY <1>0, <1>7, <2>1, GoesOn, GoesBack, Idle DEF DeletesRecord, Moves, At, CopyInv, Cleared,
       Clears, Does, Phases, TypeOK
  <2>5. Does(c, "restore", x)' /\ call'[c].pc = "save" => Copy(x, call'[c].n) \in disk'
    BY <1>0, <1>7, <2>1, GoesOn, GoesBack, Idle DEF DeletesRecord, Moves, At, Does, Phases
  <2>. QED
    BY <1>0, <2>1, <2>2, <2>3, <2>4, <2>5, GoingKeepsCopy
<1>8. ASSUME NEW c \in Calls, UnlinksCopy(c) PROVE CopyInv(x)'
  <2>1. Moves(c)
    BY <1>8, Working DEF Work
  <2>2. repair' = repair /\ records' = records
    BY <1>8 DEF UnlinksCopy, Moves
  <2>3. CASE x # call[c].d
    <3>1. \A n \in Names : Copy(x, n) \in disk => Copy(x, n) \in disk'
      BY <1>8, <2>3, FilesDiffer DEF UnlinksCopy
    <3>. QED
      BY <1>0, <2>1, <2>2, <2>3, <3>1, GoingKeepsCopy, Idle DEF Moves, Clears, Does
  <2>4. CASE x = call[c].d
    <3>1. Clears(c, x) /\ Does(c, "remove", x)
      BY <1>8, <2>4 DEF UnlinksCopy, At, Clears, Does
    <3>2. records[x] = Unregistered /\ \A e \in Calls : ~Brings(e, x)'
      BY <2>1, <1>0, <3>1, Idle DEF Moves, CopyInv, Apart, Cleared, Brings, Does
    <3>. QED
      BY <1>0, <2>1, <2>2, <3>1, <3>2, GoingKeepsCopy, Idle DEF Moves, Clears, Does
  <2>. QED
    BY <2>3, <2>4
<1>9. ASSUME NEW c \in Calls, UnlinksArray(c) PROVE CopyInv(x)'
  <2>1. Moves(c)
    BY <1>9, Working DEF Work
  <2>2. repair' = repair /\ records' = records
    BY <1>9 DEF UnlinksArray, Moves
  <2>3. \A n \in Names : Copy(x, n) \in disk => Copy(x, n) \in disk'
    BY <1>9, FilesDiffer DEF UnlinksArray
  <2>4. Clears(c, x)' => records'[x] = Unregistered
    BY <1>0, <1>9, <2>1, GoesBack, Idle DEF UnlinksArray, Moves, At, CopyInv, Cleared, Clears,
       Does, TypeOK
  <2>5. Does(c, "restore", x)' /\ call'[c].pc = "save" => Copy(x, call'[c].n) \in disk'
    BY <1>0, <1>9, <2>1, GoesBack, Idle DEF UnlinksArray, Moves, At, Does
  <2>. QED
    BY <1>0, <2>1, <2>2, <2>3, <2>4, <2>5, GoingKeepsCopy
<1>10. ASSUME NEW c \in Calls, Ends(c) PROVE CopyInv(x)'
  <2>1. Moves(c)
    BY <1>10, Working DEF Work
  <2>2. repair' = repair /\ records' = records
    BY <1>10 DEF Ends, Moves
  <2>3. \A n \in Names : Copy(x, n) \in disk => Copy(x, n) \in disk'
    BY <1>10, FilesDiffer DEF Ends, Leaves, Abandoned
  <2>4. Clears(c, x)' => records'[x] = Unregistered
    BY <1>0, <1>10, <2>1, GoesBack, Idle DEF Ends, Moves, CopyInv, Cleared, Clears, Does, TypeOK
  <2>5. Does(c, "restore", x)' /\ call'[c].pc = "save" => Copy(x, call'[c].n) \in disk'
    BY <1>0, <1>10, <2>1, GoesBack, Idle DEF Ends, Moves, Does
  <2>. QED
    BY <1>0, <2>1, <2>2, <2>3, <2>4, <2>5, GoingKeepsCopy
<1>11. ASSUME NEW c \in Calls, ChecksFiles(c) PROVE CopyInv(x)'
  <2>1. Moves(c)
    BY <1>11, Working DEF Work
  <2>2. repair' = repair /\ records' = records
    BY <1>11 DEF ChecksFiles, Moves
  <2>3. \A n \in Names : Copy(x, n) \in disk => Copy(x, n) \in disk'
    BY <1>11, FilesDiffer DEF ChecksFiles
  <2>4. Clears(c, x)' => records'[x] = Unregistered
    BY <1>0, <1>11, <2>1, GoesOn, GoesBack, Idle DEF ChecksFiles, Moves, At, CopyInv, Cleared,
       Clears, Does, Phases, TypeOK
  <2>5. Does(c, "restore", x)' /\ call'[c].pc = "save" => Copy(x, call'[c].n) \in disk'
    BY <1>0, <1>11, <2>1, GoesOn, GoesBack, Idle DEF ChecksFiles, Moves, At, Does, Phases
  <2>. QED
    BY <1>0, <2>1, <2>2, <2>3, <2>4, <2>5, GoingKeepsCopy
<1>12. ASSUME NEW c \in Calls, SavesRecord(c) PROVE CopyInv(x)'
  <2>1. Moves(c)
    BY <1>12, Working DEF Work
  <2>2. /\ repair' = repair /\ disk' = disk /\ call'[c] = NoCall
        /\ records' = [records EXCEPT ![call[c].d] = call[c].n]
        /\ Brings(c, call[c].d)
    BY <1>12, GoesBack DEF SavesRecord, Records, Brings, Does, At
  <2>3. CASE x # call[c].d
    <3>1. records'[x] = records[x]
      BY <2>1, <2>2, <2>3 DEF Moves, TypeOK
    <3>. QED
      BY <1>0, <2>1, <2>2, <3>1, GoingKeepsCopy, Idle DEF Moves, Clears, Does
  <2>4. CASE x = call[c].d
    <3>1. /\ \A e \in Calls : Brings(e, x)' => Brings(e, x)
          /\ \A e \in Calls : Does(e, "remove", x)' => Does(e, "remove", x)
          /\ \A e \in Calls : Clears(e, x)' => Does(e, "remove", x)
          /\ \A e \in Calls : Does(e, "restore", x)' => Does(e, "restore", x) /\ call'[e] = call[e]
      BY <2>1, <2>2, Idle DEF Moves, Brings, Does, Clears
    <3>2. records'[x] = call[c].n /\ records[x] \in Names \cup {Unregistered}
      BY <2>1, <2>2, <2>4 DEF Moves, TypeOK
    <3>3. call[c].n \notin Lookalikes => Copy(x, call[c].n) \in disk
      BY <1>0, <1>12, <2>1, <2>4 DEF SavesRecord, Moves, At, CopyInv, Checked, Does
    <3>4. Apart(x)' /\ Cleared(x)' /\ Spared(x)'
      BY <1>0, <2>2, <2>4, <3>1 DEF CopyInv, Apart, Cleared, Spared
    <3>5. Checked(x)' /\ Backed(x)'
      BY <1>0, <2>2, <3>1, <3>2, <3>3 DEF CopyInv, Checked, Backed
    <3>. QED
      BY <3>4, <3>5 DEF CopyInv
  <2>. QED
    BY <2>3, <2>4
<1>13. ASSUME NEW c \in Calls, NEW d \in Datasets, Removes(c, d) PROVE CopyInv(x)'
  <2>1. records[d] \in Names
    BY <1>13 DEF Removes, TypeOK
  <2>2. /\ call[c] = NoCall /\ \A e \in Calls \ {c} : call'[e] = call[e]
        /\ call'[c].op = "remove" /\ call'[c].pc = "delete" /\ call'[c].d = d
        /\ repair'.pc = repair.pc
        /\ repair.pc = "scan" => repair'.known = repair.known
        /\ repair.pc = "move" => repair'.found = repair.found
        /\ UNCHANGED <<records, disk>>
    BY <1>13, <2>1, Starts DEF Removes, Begins, Phases
  <2>3. Does(c, "remove", x)' => \A e \in Calls : ~Brings(e, x)
    BY <1>0, <1>13, <2>2 DEF Removes, MeetsOthers, Overlapping, Overlap, Cut, Does, Brings, TypeOK
  <2>. QED
    BY <1>0, <2>2, <2>3, BeginningKeepsCopy DEF Brings, Does
<1>14. ASSUME NEW c \in Calls, NEW d \in Datasets, Loads(c, d) PROVE CopyInv(x)'
  <2>1. records[d] \in Names
    BY <1>14 DEF Loads, TypeOK
  <2>2. /\ call[c] = NoCall /\ \A e \in Calls \ {c} : call'[e] = call[e]
        /\ call'[c].op = "load" /\ call'[c].pc = "ingest" /\ call'[c].d = d
        /\ repair'.pc = repair.pc
        /\ repair.pc = "scan" => repair'.known = repair.known
        /\ repair.pc = "move" => repair'.found = repair.found
        /\ UNCHANGED <<records, disk>>
    BY <1>14, <2>1, Starts DEF Loads, Begins, Phases
  <2>3. ~Does(c, "remove", x)' /\ ~Brings(c, x)'
    BY <1>0, <1>14, <2>2 DEF Loads, MeetsOthers, Overlapping, Overlap, Cut, Does, Brings, TypeOK
  <2>. QED
    BY <1>0, <2>2, <2>3, BeginningKeepsCopy DEF Brings, Does
<1>15. ASSUME NEW c \in Calls, NEW d \in Datasets, NEW n \in Names, Imports(c, d, n) PROVE CopyInv(x)'
  <2>1. /\ call[c] = NoCall /\ \A e \in Calls \ {c} : call'[e] = call[e]
        /\ call'[c].op = "import" /\ call'[c].pc = "copy" /\ call'[c].d = d
        /\ repair'.pc = repair.pc
        /\ repair.pc = "scan" => repair'.known = repair.known
        /\ repair.pc = "move" => repair'.found = repair.found
        /\ UNCHANGED <<records, disk>>
    BY <1>15, Starts DEF Imports, Begins, Phases
  <2>2. Brings(c, x)' => repair.pc = "off" /\ \A e \in Calls : ~Does(e, "remove", x)
    BY <1>0, <1>15, <2>1 DEF Imports, MeetsOthers, Overlapping, Overlap, Cut, Does, Brings, TypeOK
  <2>. QED
    BY <1>0, <2>1, <2>2, BeginningKeepsCopy DEF Brings, Does
<1>16. ASSUME NEW c \in Calls, NEW d \in Datasets, NEW n \in Names, Adopts(c, d, n) PROVE CopyInv(x)'
  <2>1. /\ call[c] = NoCall /\ \A e \in Calls \ {c} : call'[e] = call[e]
        /\ call'[c].op = "adopt" /\ call'[c].pc = "ingest" /\ call'[c].d = d
        /\ repair'.pc = repair.pc
        /\ repair.pc = "scan" => repair'.known = repair.known
        /\ repair.pc = "move" => repair'.found = repair.found
        /\ UNCHANGED <<records, disk>>
    BY <1>16, Starts DEF Adopts, Begins, Phases
  <2>2. Brings(c, x)' => repair.pc = "off" /\ \A e \in Calls : ~Does(e, "remove", x)
    BY <1>0, <1>16, <2>1 DEF Adopts, MeetsOthers, Overlapping, Overlap, Cut, Does, Brings, TypeOK
  <2>. QED
    BY <1>0, <2>1, <2>2, BeginningKeepsCopy DEF Brings, Does
<1>17. ASSUME NEW c \in Calls, NEW d \in Datasets, NEW n \in Names, Restores(c, d, n) PROVE CopyInv(x)'
  <2>1. /\ call[c] = NoCall /\ \A e \in Calls \ {c} : call'[e] = call[e]
        /\ call'[c].op = "restore" /\ call'[c].pc = "check" /\ call'[c].d = d
        /\ repair'.pc = repair.pc
        /\ repair.pc = "scan" => repair'.known = repair.known
        /\ repair.pc = "move" => repair'.found = repair.found
        /\ UNCHANGED <<records, disk>>
    BY <1>17, Starts DEF Restores, Begins, Phases
  <2>2. Brings(c, x)' => repair.pc = "off" /\ \A e \in Calls : ~Does(e, "remove", x)
    BY <1>0, <1>17, <2>1 DEF Restores, MeetsOthers, Overlapping, Overlap, Cut, Does, Brings, TypeOK
  <2>. QED
    BY <1>0, <2>1, <2>2, BeginningKeepsCopy DEF Brings, Does
<1>18. CASE DaemonStarts
  BY <1>18 DEF DaemonStarts, CopyInv, Apart, Cleared, Spared, Checked, Backed, Clears, Brings,
     Does
<1>19. CASE DaemonEnds
  BY <1>19 DEF DaemonEnds, CopyInv, Apart, Cleared, Spared, Checked, Backed, Clears, Brings, Does
<1>20. CASE Cleanup
  <2>1. Apart(x)' /\ Cleared(x)'
    BY <1>0, <1>20 DEF Cleanup, CopyInv, Apart, Cleared, Clears, Brings, Does
  <2>2. \A n \in Names \ Lookalikes : Copy(x, n) \in disk => Copy(x, n) \in disk'
    BY <1>20, FilesDiffer DEF Cleanup, Pending
  <2>3. Spared(x)' /\ Checked(x)' /\ Backed(x)'
    <3>1. \A c \in Calls : Does(c, "restore", x) => call[c].n \in Names
      BY Busy, Idle DEF Does
    <3>2. UNCHANGED <<records, call, repair>>
      BY <1>20 DEF Cleanup
    <3>3. Spared(x)'
      BY <1>0, <3>2 DEF CopyInv, Spared, Brings, Does
    <3>4. Checked(x)'
      BY <1>0, <2>2, <3>1, <3>2 DEF CopyInv, Checked, Does
    <3>5. Backed(x)'
      BY <1>0, <2>2, <3>2 DEF CopyInv, Backed, TypeOK
    <3>. QED
      BY <3>3, <3>4, <3>5
  <2>. QED
    BY <2>1, <2>3 DEF CopyInv
<1>21. CASE RepairReads
  <2>1. Apart(x)' /\ Cleared(x)'
    BY <1>0, <1>21 DEF RepairReads, Overlapping, Overlap, CopyInv, Apart, Cleared, Clears, Brings, Does
  <2>2. Spared(x)'
    BY <1>0, <1>21 DEF RepairReads, Overlapping, Overlap, CopyInv, Spared, Brings, Does, NoRepair, Owned, TypeOK
  <2>3. Checked(x)' /\ Backed(x)'
    BY <1>0, <1>21 DEF RepairReads, Overlapping, Overlap, CopyInv, Checked, Backed, Does
  <2>. QED
    BY <2>1, <2>2, <2>3 DEF CopyInv
<1>22. CASE RepairScans
  <2>1. Apart(x)' /\ Cleared(x)'
    BY <1>0, <1>22 DEF RepairScans, CopyInv, Apart, Cleared, Clears, Brings, Does
  <2>2. Spared(x)'
    BY <1>0, <1>22 DEF RepairScans, CopyInv, Spared, Brings, Does, NoRepair, Owned, TypeOK
  <2>3. Checked(x)' /\ Backed(x)'
    BY <1>0, <1>22 DEF RepairScans, CopyInv, Checked, Backed, Does
  <2>. QED
    BY <2>1, <2>2, <2>3 DEF CopyInv
<1>23. CASE RepairMoves
  <2>1. Apart(x)' /\ Cleared(x)'
    BY <1>0, <1>23 DEF RepairMoves, CopyInv, Apart, Cleared, Clears, Brings, Does
  <2>2. PICK f \in repair.found : disk' = disk \ {f} /\ repair' = [repair EXCEPT !.found = repair.found \ {f}]
    BY <1>23 DEF RepairMoves
  <2>3. repair.pc = "move" /\ UNCHANGED <<records, call>>
    BY <1>23 DEF RepairMoves
  <2>4. repair'.pc = "move" /\ repair'.found = repair.found \ {f}
    BY <2>2, <2>3 DEF TypeOK, Repair, NoRepair
  <2>5. Spared(x)'
    BY <1>0, <2>3, <2>4 DEF CopyInv, Spared, Brings, Does
  <2>6. Checked(x)'
    BY <1>0, <2>2, <2>3 DEF CopyInv, Spared, Checked, Brings, Does
  <2>7. records[x] \in Names => Copy(x, records[x]) \in Owned({x})
    BY DEF Owned
  <2>8. Backed(x)'
    BY <1>0, <2>2, <2>3, <2>7 DEF CopyInv, Spared, Backed, TypeOK
  <2>. QED
    BY <2>1, <2>5, <2>6, <2>8 DEF CopyInv
<1>24. CASE RepairEnds
  <2>1. Apart(x)' /\ Cleared(x)'
    BY <1>0, <1>24 DEF RepairEnds, CopyInv, Apart, Cleared, Clears, Brings, Does
  <2>2. Spared(x)'
    BY <1>0, <1>24 DEF RepairEnds, CopyInv, Spared, Brings, Does, NoRepair, Owned, TypeOK
  <2>3. Checked(x)' /\ Backed(x)'
    BY <1>0, <1>24 DEF RepairEnds, CopyInv, Checked, Backed, Does
  <2>. QED
    BY <2>1, <2>2, <2>3 DEF CopyInv
<1>25. CASE UNCHANGED vars
  BY <1>25 DEF vars, CopyInv, Apart, Cleared, Spared, Checked, Backed, Clears, Brings, Does
<1>. QED
  BY <1>1, <1>2, <1>3, <1>4, <1>5, <1>6, <1>7, <1>8, <1>9, <1>10, <1>11,
     <1>12, <1>13, <1>14, <1>15, <1>16, <1>17, <1>18, <1>19, <1>20, <1>21, <1>22,
     <1>23, <1>24, <1>25 DEF Next, Work, Ask, Maintain

\* A call that begins is at the start of its work, and a removal at the copy of the record.
LEMMA Asking ==
    ASSUME TypeOK, NEW c \in Calls, Ask(c)
    PROVE  /\ UNCHANGED <<records, disk>>
           /\ call[c] = NoCall /\ \A e \in Calls \ {c} : call'[e] = call[e]
           /\ call'[c].pc \in {"copy", "ingest", "check", "delete"}
           /\ call'[c].op = "remove" => call'[c].n = records[call'[c].d]
<1>1. ASSUME NEW op, NEW pc \in {"copy", "ingest", "check", "delete"}, NEW d, NEW n,
             Begins(c, op, pc, d, n), op = "remove" => n = records[d]
      PROVE  /\ UNCHANGED <<records, disk>>
             /\ call[c] = NoCall /\ \A e \in Calls \ {c} : call'[e] = call[e]
             /\ call'[c].pc \in {"copy", "ingest", "check", "delete"}
             /\ call'[c].op = "remove" => call'[c].n = records[call'[c].d]
  <2>1. call' = [call EXCEPT ![c] = [op |-> op, pc |-> pc, d |-> d, n |-> n]] /\ call[c] = NoCall
    BY <1>1 DEF Begins
  <2>2. call'[c] = [op |-> op, pc |-> pc, d |-> d, n |-> n] /\ \A e \in Calls \ {c} : call'[e] = call[e]
    BY <2>1 DEF TypeOK
  <2>. QED
    BY <1>1, <2>1, <2>2 DEF Begins
<1>2. ASSUME NEW d \in Datasets, Removes(c, d) PROVE Begins(c, "remove", "delete", d, records[d])
  BY <1>2 DEF Removes
<1>3. ASSUME NEW d \in Datasets, Loads(c, d) PROVE Begins(c, "load", "ingest", d, records[d])
  BY <1>3 DEF Loads
<1>4. ASSUME NEW d \in Datasets, NEW n \in Names, Imports(c, d, n) PROVE Begins(c, "import", "copy", d, n)
  BY <1>4 DEF Imports
<1>5. ASSUME NEW d \in Datasets, NEW n \in Names, Adopts(c, d, n) PROVE Begins(c, "adopt", "ingest", d, n)
  BY <1>5 DEF Adopts
<1>6. ASSUME NEW d \in Datasets, NEW n \in Names, Restores(c, d, n) PROVE Begins(c, "restore", "check", d, n)
  BY <1>6 DEF Restores
<1>. QED
  BY <1>1, <1>2, <1>3, <1>4, <1>5, <1>6 DEF Ask

\* The arrays of a data set that is registered, or about to be, stay.
LEMMA ArrayedStep ==
    ASSUME TypeOK, [Next]_vars, NEW x \in Datasets, CopyInv(x), FilesInv(x),
           "overlap" \notin marks[x]
    PROVE  Arrayed(x)'
<1>0. Arrayed(x) /\ Apart(x) /\ Cleared(x) /\ Spared(x)
  BY DEF FilesInv, CopyInv
\* Who is about to write a record has made the arrays, or found them.
<1>1. ASSUME NEW c \in Calls, Enters(c, x)' PROVE Enters(c, x) \/ Array(x) \in disk'
  <2>1. ASSUME NEW e \in Calls, Work(e), e # c PROVE Enters(c, x)
    BY <1>1, <2>1, Working DEF Moves, Enters, Brings, Does
  <2>2. ASSUME Work(c) PROVE Enters(c, x) \/ Array(x) \in disk'
    <3>1. Moves(c) /\ call'[c] # NoCall /\ call[c].d = x /\ call'[c].op = call[c].op
      BY <1>1, <2>2, Working, Idle DEF Moves, Enters, Brings, Does
    <3>2. ~Return(c)
      BY <3>1, GoesBack
    <3>3. CASE \E pc \in Phases \ {"register", "save"} : Goto(c, pc)
      BY <1>1, <3>1, <3>3, GoesOn DEF Moves, Enters
    <3>4. CASE PublishesArray(c)
      BY <3>1, <3>4 DEF PublishesArray
    <3>5. CASE ChecksFiles(c)
      BY <3>1, <3>2, <3>5 DEF ChecksFiles
    <3>. QED
      BY <2>2, <3>2, <3>3, <3>4, <3>5 DEF Work, Copies, Publishes, WritesArray, Registers, Records,
         ImportFails, DeletesRecord, UnlinksCopy, UnlinksArray, Ends, SavesRecord, Phases
  <2>3. ASSUME NEW e \in Calls, Ask(e) PROVE Enters(c, x)
    <3>1. e # c /\ call'[c] = call[c]
      BY <1>1, <2>3, Asking DEF Enters
    <3>. QED
      BY <1>1, <3>1 DEF Enters, Brings, Does
  <2>4. ASSUME call' = call PROVE Enters(c, x)
    BY <1>1, <2>4 DEF Enters, Brings, Does
  <2>. QED
    BY <2>1, <2>2, <2>3, <2>4 DEF Next, Maintain, DaemonStarts, DaemonEnds, Cleanup, RepairReads,
       RepairScans, RepairMoves, RepairEnds, vars
\* Only such a call writes one.
<1>2. records'[x] # Unregistered => records[x] # Unregistered \/ \E c \in Calls : Enters(c, x)
  <2>1. ASSUME NEW c \in Calls, Registers(c) \/ SavesRecord(c)
        PROVE  records'[x] = records[x] \/ Enters(c, x)
    <3>1. records' = [records EXCEPT ![call[c].d] = call[c].n]
      BY <2>1 DEF Registers, SavesRecord, Records
    <3>2. CASE x = call[c].d
      BY <2>1, <3>2 DEF Registers, SavesRecord, At, Enters, Brings, Does
    <3>. QED
      BY <3>1, <3>2 DEF TypeOK
  <2>2. ASSUME NEW c \in Calls, DeletesRecord(c) PROVE records'[x] \in {records[x], Unregistered}
    BY <2>2 DEF DeletesRecord, TypeOK
  <2>3. ASSUME NEW c \in Calls, Work(c)
        PROVE  records'[x] \in {records[x], Unregistered} \/ Enters(c, x)
    BY <2>1, <2>2, <2>3 DEF Work, Copies, Publishes, WritesArray, PublishesArray, ImportFails,
       UnlinksCopy, UnlinksArray, Ends, ChecksFiles
  <2>4. ASSUME NEW c \in Calls, Ask(c) PROVE records' = records
    BY <2>4, Asking
  <2>. QED
    BY <2>3, <2>4 DEF Next, Maintain, DaemonStarts, DaemonEnds, Cleanup, RepairReads, RepairScans,
       RepairMoves, RepairEnds, vars
\* Only a removal and a repair take arrays away, of what has no record and no call that brings it.
<1>3. CASE Array(x) \in disk => Array(x) \in disk'
  BY <1>0, <1>1, <1>2, <1>3 DEF Arrayed
<1>4. CASE Array(x) \in disk /\ Array(x) \notin disk'
  <2>1. (\A c \in Calls : ~Enters(c, x)) /\ records[x] = Unregistered
    <3>1. ASSUME NEW c \in Calls, UnlinksArray(c)
          PROVE  (\A e \in Calls : ~Enters(e, x)) /\ records[x] = Unregistered
      <4>1. Clears(c, x) /\ Does(c, "remove", x)
        BY <1>4, <3>1, FilesDiffer DEF UnlinksArray, At, Clears, Does
      <4>. QED
        BY <1>0, <4>1 DEF Cleared, Apart, Enters
    <3>2. CASE RepairMoves
      <4>1. repair.pc = "move" /\ Array(x) \in repair.found
        BY <1>4, <3>2 DEF RepairMoves
      <4>2. Array(x) \in Owned({x})
        BY DEF Owned
      <4>. QED
        BY <1>0, <4>1, <4>2 DEF Spared, Enters
    <3>3. ASSUME NEW c \in Calls, Work(c) PROVE UnlinksArray(c)
      BY <1>4, <3>3, FilesDiffer DEF Work, Copies, Publishes, WritesArray, PublishesArray, Registers,
         ImportFails, DeletesRecord, UnlinksCopy, Ends, ChecksFiles, SavesRecord, Records, Leaves,
         Abandoned
    <3>4. ASSUME NEW c \in Calls PROVE ~Ask(c)
      BY <1>4 DEF Ask, Removes, Loads, Imports, Adopts, Restores, Begins
    <3>5. ~Cleanup
      BY <1>4, FilesDiffer DEF Cleanup, Pending
    <3>. QED
      BY <1>4, <3>1, <3>2, <3>3, <3>4, <3>5 DEF Next, Maintain, DaemonStarts, DaemonEnds,
         RepairReads, RepairScans, RepairEnds, vars
  <2>2. Array(x) \notin disk'
    BY <1>4
  <2>. QED
    BY <1>1, <1>2, <2>1, <2>2 DEF Arrayed
<1>. QED
  BY <1>3, <1>4

\* A removal stays aimed at the copy of the record it found: who brings the data set is not there.
LEMMA AimedStep ==
    ASSUME TypeOK, [Next]_vars, NEW x \in Datasets, CopyInv(x), FilesInv(x),
           "overlap" \notin marks[x]
    PROVE  Aimed(x)'
<1>0. Aimed(x) /\ Apart(x)
  BY DEF FilesInv, CopyInv
<1> SUFFICES ASSUME NEW c \in Calls, Does(c, "remove", x)', call'[c].pc = "delete"
             PROVE  records'[x] \in {call'[c].n, Unregistered}
  BY DEF Aimed
<1>1. ASSUME NEW e \in Calls, Work(e) PROVE records'[x] \in {call'[c].n, Unregistered}
  <2>1. Moves(e)
    BY <1>1, Working
  <2>2. CASE e = c
    <3>1. call'[c] # NoCall /\ ~Return(c)
      BY Idle, GoesBack DEF Does
    <3>2. \E pc \in Phases \ {"delete"} : Goto(c, pc)
      BY <1>1, <2>2, <3>1 DEF Work, Copies, Publishes, WritesArray, PublishesArray, Registers,
         ImportFails, DeletesRecord, UnlinksCopy, UnlinksArray, Ends, ChecksFiles, SavesRecord,
         Records, Phases
    <3>. QED
      BY <2>1, <2>2, <3>2, GoesOn DEF Moves
  <2>3. CASE e # c
    <3>1. call'[c] = call[c] /\ Does(c, "remove", x) /\ call[c].pc = "delete"
      BY <2>1, <2>3 DEF Moves, Does
    <3>2. records[x] \in {call'[c].n, Unregistered} /\ ~Brings(e, x)
      BY <1>0, <3>1 DEF Aimed, Apart
    <3>3. records'[x] \in {records[x], Unregistered}
      <4>1. CASE Registers(e) \/ SavesRecord(e)
        <5>1. x # call[e].d
          BY <3>2, <4>1 DEF Registers, SavesRecord, At, Brings, Does
        <5>. QED
          BY <4>1, <5>1 DEF Registers, SavesRecord, Records, TypeOK
      <4>2. CASE DeletesRecord(e)
        BY <4>2 DEF DeletesRecord, TypeOK
      <4>. QED
        BY <1>1, <4>1, <4>2 DEF Work, Copies, Publishes, WritesArray, PublishesArray, ImportFails,
           UnlinksCopy, UnlinksArray, Ends, ChecksFiles
    <3>. QED
      BY <3>2, <3>3
  <2>. QED
    BY <2>2, <2>3
<1>2. ASSUME NEW e \in Calls, Ask(e) PROVE records'[x] \in {call'[c].n, Unregistered}
  <2>1. CASE e = c
    BY <1>2, <2>1, Asking DEF Does
  <2>2. CASE e # c
    <3>1. call'[c] = call[c] /\ records' = records
      BY <1>2, <2>2, Asking
    <3>. QED
      BY <1>0, <3>1 DEF Aimed, Does
  <2>. QED
    BY <2>1, <2>2
<1>3. CASE records' = records /\ call' = call
  BY <1>0, <1>3 DEF Aimed, Does
<1>. QED
  BY <1>1, <1>2, <1>3 DEF Next, Maintain, DaemonStarts, DaemonEnds, Cleanup, RepairReads,
     RepairScans, RepairMoves, RepairEnds, vars

\* A step adds no copy of x, replaces no record of it and ends no call that keeps one.
LEMMA NamesStay ==
    ASSUME NEW x \in Datasets, Named(x), disk' \cap {Copy(x, n) : n \in Names} \subseteq disk,
           records'[x] = records[x], stale[x] \subseteq stale'[x],
           NEW c \in Calls, \A e \in Calls \ {c} : call'[e] = call[e],
           \A n \in Names : Keeps(c, x, n) /\ Copy(x, n) \in disk' =>
               Keeps(c, x, n)' \/ n \in stale'[x] \cup {records'[x]}
    PROVE  Named(x)'
<1> SUFFICES ASSUME NEW n \in Names, Copy(x, n) \in disk', n \notin stale'[x] \cup {records'[x]}
             PROVE  \E e \in Calls : Keeps(e, x, n)'
  BY DEF Named
<1>1. PICK e \in Calls : Keeps(e, x, n)
  BY DEF Named
<1>2. CASE e = c
  BY <1>1, <1>2
<1>3. CASE e # c
  BY <1>1, <1>3 DEF Keeps, Does
<1>. QED
  BY <1>2, <1>3

\* Every copy that is left has a name that is accounted for.
LEMMA NamedStep ==
    ASSUME TypeOK, [Next]_vars, NEW x \in Datasets, CopyInv(x), FilesInv(x),
           "overlap" \notin marks[x], "overlap" \notin marks'[x]
    PROVE  Named(x)'
<1>0. Named(x) /\ Aimed(x)
  BY DEF FilesInv
<1>1. ASSUME NEW c \in Calls, Work(c) PROVE Named(x)'
  <2>. PICK d : d = call[c].d
    OBVIOUS
  <2>. PICK n : n = call[c].n
    OBVIOUS
  <2>0. Moves(c) /\ call[c] # NoCall /\ d \in Datasets /\ n \in Names /\ call' \in [Calls -> Call]
        /\ \A e \in Calls \ {c} : call'[e] = call[e]
    BY <1>1, Working DEF Moves
  <2>1. CASE Copies(c) \/ WritesArray(c) \/ PublishesArray(c) \/ ChecksFiles(c)
    <3>1. disk' \cap {Copy(x, m) : m \in Names} \subseteq disk /\ UNCHANGED <<records, stale>>
      BY <2>1, FilesDiffer DEF Copies, WritesArray, PublishesArray, ChecksFiles
    <3>2. ASSUME NEW m \in Names, Keeps(c, x, m) PROVE Keeps(c, x, m)'
      <4>1. call[c].op = "import" /\ (WritesArray(c) \/ PublishesArray(c))
        BY <2>1, <3>2 DEF Copies, WritesArray, PublishesArray, ChecksFiles, At, Keeps, Does
      <4>2. \E pc \in {"array", "register"} : Goto(c, pc)
        BY <4>1 DEF WritesArray, PublishesArray
      <4>. QED
        BY <2>0, <3>2, <4>1, <4>2, GoesOn DEF Keeps, Does
    <3>. QED
      BY <1>0, <2>0, <3>1, <3>2, NamesStay
  <2>2. CASE Publishes(c)
    <3>1. /\ disk' = (disk \ {PendingCopy(c)}) \cup {Copy(d, n)} /\ UNCHANGED <<records, stale>>
          /\ call[c].op = "import" /\ Goto(c, "ingest") /\ \A m : ~Keeps(c, x, m)
      BY <2>2 DEF Publishes, At, Keeps, Does
    <3>2. Does(c, "import", d)' /\ call'[c].n = n /\ call'[c].pc = "ingest"
      BY <2>0, <3>1, GoesOn DEF Does
    <3>3. Keeps(c, d, n)'
      BY <3>2 DEF Keeps, Does
    <3>4. ASSUME NEW m \in Names, Copy(x, m) \in disk', m \notin stale'[x] \cup {records'[x]}
          PROVE  \E e \in Calls : Keeps(e, x, m)'
      <4>1. CASE Copy(x, m) = Copy(d, n)
        <5>1. x = d /\ m = n
          BY <4>1, FilesDiffer
        <5>. QED
          BY <3>3, <5>1
      <4>2. CASE Copy(x, m) # Copy(d, n)
        <5>1. PICK e \in Calls : Keeps(e, x, m)
          BY <1>0, <3>1, <3>4, <4>2 DEF Named
        <5>2. e # c
          BY <3>1, <5>1
        <5>. QED
          BY <2>0, <5>1, <5>2 DEF Keeps, Does
      <4>. QED
        BY <4>1, <4>2
    <3>. QED
      BY <3>4 DEF Named
  <2>3. CASE Registers(c) \/ SavesRecord(c)
    <3>1. /\ disk' = disk /\ records' = [records EXCEPT ![d] = n]
          /\ Stale(d, (stale[d] \cup ({records[d]} \ {Unregistered})) \ {n})
          /\ call[c].pc \in {"register", "save"}
      BY <2>3 DEF Registers, SavesRecord, At, Records
    <3>2. CASE x # d
      <4>1. records'[x] = records[x] /\ stale'[x] = stale[x] /\ \A m : ~Keeps(c, x, m)
        BY <2>0, <3>1, <3>2 DEF Stale, TypeOK, Keeps, Does
      <4>. QED
        BY <1>0, <2>0, <3>1, <4>1, NamesStay
    <3>3. CASE x = d
      <4>1. /\ records'[x] = n
            /\ stale'[x] = (stale[x] \cup ({records[x]} \ {Unregistered})) \ {n}
        BY <2>0, <3>1, <3>3 DEF Stale, TypeOK
      <4>2. ASSUME NEW m \in Names, Copy(x, m) \in disk', m \notin stale'[x] \cup {records'[x]}
            PROVE  \E e \in Calls : Keeps(e, x, m)'
        <5>1. m # n /\ m \notin stale[x] \cup {records[x]}
          BY <4>1, <4>2, NameAssumption
        <5>2. PICK e \in Calls : Keeps(e, x, m)
          BY <1>0, <3>1, <4>2, <5>1 DEF Named
        <5>3. e # c
          BY <5>1, <5>2 DEF Keeps
        <5>. QED
          BY <2>0, <5>2, <5>3 DEF Keeps, Does
      <4>. QED
        BY <4>2 DEF Named
    <3>. QED
      BY <3>2, <3>3
  <2>4. CASE ImportFails(c)
    <3>1. /\ disk' \subseteq disk \cup {Litter} /\ Copy(d, n) \notin disk' /\ records' = records
          /\ call[c].op = "import"
      BY <2>4, FilesDiffer DEF ImportFails, Leaves
    <3>2. stale'[x] = stale[x]
      BY <2>4 DEF ImportFails, Overlapping, Overlap, TypeOK
    <3>3. disk' \cap {Copy(x, m) : m \in Names} \subseteq disk
      BY <3>1, FilesDiffer
    <3>4. ASSUME NEW m \in Names, Keeps(c, x, m) PROVE Copy(x, m) \notin disk'
      BY <3>1, <3>4 DEF Keeps, Does
    <3>. QED
      BY <1>0, <2>0, <3>1, <3>2, <3>3, <3>4, NamesStay
  <2>5. CASE DeletesRecord(c)
    <3>1. disk' = disk /\ stale' = stale /\ Does(c, "remove", d) /\ call[c].pc = "delete"
      BY <2>5 DEF DeletesRecord, At, Does
    <3>2. \A m : ~Keeps(c, x, m)
      BY <3>1 DEF Keeps, Does
    <3>3. CASE x # d \/ records[d] = Unregistered
      <4>1. records'[x] = records[x]
        BY <2>0, <2>5, <3>3 DEF DeletesRecord, TypeOK
      <4>. QED
        BY <1>0, <2>0, <3>1, <3>2, <4>1, NamesStay
    <3>4. CASE x = d /\ records[d] # Unregistered
      <4>1. records[x] = n
        BY <1>0, <3>1, <3>4 DEF Aimed
      <4>2. Goto(c, "copy")
        BY <2>5, <3>4 DEF DeletesRecord
      <4>3. Does(c, "remove", x)' /\ call'[c].n = n /\ call'[c].pc = "copy"
        BY <2>0, <3>1, <3>4, <4>2, GoesOn DEF Does
      <4>4. Keeps(c, x, n)'
        BY <4>3 DEF Keeps, Does
      <4>5. ASSUME NEW m \in Names, Copy(x, m) \in disk', m \notin stale'[x] \cup {records'[x]}, m # n
            PROVE  \E e \in Calls : Keeps(e, x, m)'
        <5>1. PICK e \in Calls : Keeps(e, x, m)
          BY <1>0, <3>1, <4>1, <4>5 DEF Named
        <5>. QED
          BY <2>0, <3>2, <5>1 DEF Keeps, Does
      <4>. QED
        BY <4>4, <4>5 DEF Named
    <3>. QED
      BY <3>3, <3>4
  <2>6. CASE UnlinksCopy(c)
    <3>1. disk' = disk \ {Copy(d, n)} /\ UNCHANGED <<records, stale>>
      BY <2>6 DEF UnlinksCopy
    <3>2. ASSUME NEW m \in Names, Keeps(c, x, m) PROVE Copy(x, m) \notin disk'
      BY <3>1, <3>2 DEF Keeps, Does
    <3>. QED
      BY <1>0, <2>0, <3>1, <3>2, NamesStay
  <2>7. CASE UnlinksArray(c)
    <3>1. disk' \subseteq disk /\ UNCHANGED <<records, stale>> /\ \A m : ~Keeps(c, x, m)
      BY <2>7 DEF UnlinksArray, At, Keeps, Does
    <3>. QED
      BY <1>0, <2>0, <3>1, NamesStay
  <2>8. CASE Ends(c)
    <3>1. /\ disk' \subseteq disk \cup {Litter} /\ records' = records
          /\ Stale(d, stale[d] \cup
                IF call[c].op \in {"import", "remove"} /\ records[d] # n THEN {n} ELSE {})
      BY <2>8 DEF Ends, Leaves
    <3>2. disk' \cap {Copy(x, m) : m \in Names} \subseteq disk
      BY <3>1, FilesDiffer
    <3>3. stale[x] \subseteq stale'[x]
      BY <2>0, <3>1 DEF Stale, TypeOK
    <3>4. ASSUME NEW m \in Names, Keeps(c, x, m) PROVE m \in stale'[x] \cup {records'[x]}
      BY <2>0, <3>1, <3>4 DEF Keeps, Does, Stale, TypeOK
    <3>. QED
      BY <1>0, <2>0, <3>1, <3>2, <3>3, <3>4, NamesStay
  <2>. QED
    BY <1>1, <2>1, <2>2, <2>3, <2>4, <2>5, <2>6, <2>7, <2>8 DEF Work
<1>2. ASSUME NEW c \in Calls, Ask(c) PROVE Named(x)'
  <2>1. /\ UNCHANGED <<disk, records>> /\ call[c] = NoCall
        /\ \A e \in Calls \ {c} : call'[e] = call[e]
    BY <1>2, Asking
  <2>2. stale'[x] = stale[x]
    BY <1>2 DEF Ask, Removes, Loads, Imports, Adopts, Restores, MeetsOthers, Overlapping, Overlap,
       TypeOK
  <2>3. \A m : ~Keeps(c, x, m)
    BY <2>1, Idle DEF Keeps, Does
  <2>. QED
    BY <1>0, <2>1, <2>2, <2>3, NamesStay
<1>3. CASE disk' \subseteq disk /\ UNCHANGED <<records, call>> /\ stale'[x] = stale[x]
  BY <1>0, <1>3 DEF Named, Keeps, Does
<1>4. CASE RepairReads
  <2>1. stale'[x] = stale[x]
    BY <1>4 DEF RepairReads, Overlapping, Overlap, TypeOK
  <2>. QED
    BY <1>3, <1>4, <2>1 DEF RepairReads
<1>. QED
  BY <1>1, <1>2, <1>3, <1>4 DEF Next, Maintain, DaemonStarts, DaemonEnds, Cleanup, RepairScans,
     RepairMoves, RepairEnds, vars

LEMMA FilesStep ==
    ASSUME TypeOK, [Next]_vars, NEW x \in Datasets, CopyInv(x), FilesInv(x)
    PROVE  FilesInv(x)'
<1> SUFFICES ASSUME "overlap" \notin marks'[x] PROVE FilesInv(x)'
  BY DEF FilesInv
<1>1. "overlap" \notin marks[x]
  BY MarksStay
<1>. QED
  BY <1>1, ArrayedStep, AimedStep, NamedStep DEF FilesInv

\* A call that goes on or returns keeps what is known of the arrays of x: if it makes
\* some, or deletes the record, it says what it does next.
LEMMA GoingKeepsArray ==
    ASSUME TypeOK, NEW x \in Datasets, ArrayInv(x), marks[x] = {},
           NEW c \in Calls, Moves(c),
           \/ records'[x] = records[x]
           \/ records'[x] = Unregistered /\ Clears(c, x)',
           Array(x) \in disk' => Array(x) \in disk \/ Enters(c, x)',
           Enters(c, x) \/ Clears(c, x) => Enters(c, x)' \/ Clears(c, x)'
    PROVE  ArrayInv(x)'
<1> USE DEF Moves
<1>1. Unloaded(x)'
  BY Idle DEF ArrayInv, Unloaded, Does
<1>2. \A e \in Calls \ {c} : (Enters(e, x)' <=> Enters(e, x)) /\ (Clears(e, x)' <=> Clears(e, x))
  BY DEF Enters, Clears, Brings, Does
<1>4. Owed(x)'
  <2> SUFFICES ASSUME records'[x] = Unregistered, Array(x) \in disk'
               PROVE  \E e \in Calls : Enters(e, x)' \/ Clears(e, x)'
    BY DEF Owed
  <2>1. CASE Enters(c, x)' \/ Clears(c, x)'
    BY <2>1
  <2>2. CASE ~(Enters(c, x)' \/ Clears(c, x)')
    <3>1. PICK e \in Calls : Enters(e, x) \/ Clears(e, x)
      BY <2>2 DEF ArrayInv, Owed
    <3>. QED
      BY <1>2, <2>2, <3>1
  <2>. QED
    BY <2>1, <2>2
<1>. QED
  BY <1>1, <1>4 DEF ArrayInv

\* A call that begins, but does not load x, keeps what is known of the arrays of x.
LEMMA BeginningKeepsArray ==
    ASSUME TypeOK, NEW x \in Datasets, ArrayInv(x), marks[x] = {},
           NEW c \in Calls, call[c] = NoCall,
           \A e \in Calls \ {c} : call'[e] = call[e],
           call'[c].pc \in {"copy", "ingest", "check", "delete"},
           call'[c].pc = "copy" => call'[c].op = "import",
           UNCHANGED <<records, disk>>,
           ~Does(c, "load", x)'
    PROVE  ArrayInv(x)'
<1>1. Unloaded(x)'
  BY DEF ArrayInv, Unloaded, Does
<1>2. \A e \in Calls : (Enters(e, x)' <=> Enters(e, x)) /\ (Clears(e, x)' <=> Clears(e, x))
  BY Idle DEF Enters, Clears, Brings, Does
<1>3. Owed(x)'
  BY <1>2 DEF ArrayInv, Owed
<1>. QED
  BY <1>1, <1>3 DEF ArrayInv

LEMMA ArrayStep ==
    ASSUME TypeOK, [Next]_vars, NEW x \in Datasets, CopyInv(x), FilesInv(x), ArrayInv(x)
    PROVE  ArrayInv(x)'
<1> SUFFICES ASSUME marks'[x] = {} PROVE ArrayInv(x)'
  BY DEF ArrayInv
<1>0. marks[x] = {} /\ marks'[x] = {} /\ "overlap" \notin marks[x]
  BY MarksStay
<1>1. ASSUME NEW c \in Calls, Copies(c) PROVE ArrayInv(x)'
  <2>1. Moves(c)
    BY <1>1, Working DEF Work
  <2>2. records' = records /\ (Array(x) \in disk' <=> Array(x) \in disk)
    BY <1>1, FilesDiffer DEF Copies
  <2>3. Enters(c, x) \/ Clears(c, x) => Enters(c, x)' \/ Clears(c, x)'
    BY <1>1, <2>1, GoesOn, Idle DEF Copies, Moves, At, Enters, Clears, Brings, Does
  <2>. QED
    BY <1>0, <2>1, <2>2, <2>3, GoingKeepsArray
<1>2. ASSUME NEW c \in Calls, Publishes(c) PROVE ArrayInv(x)'
  <2>1. Moves(c)
    BY <1>2, Working DEF Work
  <2>2. records' = records /\ (Array(x) \in disk' <=> Array(x) \in disk)
    BY <1>2, FilesDiffer DEF Publishes
  <2>3. Enters(c, x) \/ Clears(c, x) => Enters(c, x)' \/ Clears(c, x)'
    BY <1>2, <2>1, GoesOn, Idle DEF Publishes, Moves, At, Enters, Clears, Brings, Does
  <2>. QED
    BY <1>0, <2>1, <2>2, <2>3, GoingKeepsArray
<1>3. ASSUME NEW c \in Calls, WritesArray(c) PROVE ArrayInv(x)'
  <2>1. Moves(c)
    BY <1>3, Working DEF Work
  <2>2. records' = records /\ (Array(x) \in disk' <=> Array(x) \in disk)
    BY <1>3, FilesDiffer DEF WritesArray
  <2>3. Enters(c, x) \/ Clears(c, x) => Enters(c, x)' \/ Clears(c, x)'
    BY <1>3, <2>1, GoesOn, Idle DEF WritesArray, Moves, Enters, Clears, Brings, Does
  <2>. QED
    BY <1>0, <2>1, <2>2, <2>3, GoingKeepsArray
<1>4. ASSUME NEW c \in Calls, PublishesArray(c) PROVE ArrayInv(x)'
  <2>1. Moves(c)
    BY <1>4, Working DEF Work
  <2>2. records' = records /\ (Array(x) \in disk => Array(x) \in disk')
    BY <1>4, FilesDiffer DEF PublishesArray
  <2>3. ~Enters(c, x) /\ ~Clears(c, x)
    BY <1>4 DEF PublishesArray, Enters, Clears, Brings, Does
  <2>4. CASE x # call[c].d
    <3>1. ~Enters(c, x)' /\ (Array(x) \in disk' => Array(x) \in disk)
      BY <1>4, <2>1, <2>4, Idle, FilesDiffer DEF PublishesArray, Moves, Enters, Brings, Does
    <3>. QED
      BY <1>0, <2>1, <2>2, <2>3, <3>1, GoingKeepsArray
  <2>5. CASE x = call[c].d
    <3>1. call[c].op \in {"import", "adopt"}
      BY <1>0, <1>4, <2>5 DEF PublishesArray, ArrayInv, Unloaded, Does
    <3>2. Array(x) \in disk' /\ call'[c].pc = "register" /\ call'[c].op = call[c].op /\ call'[c].d = x
      BY <1>4, <2>1, <2>5, <3>1, GoesOn DEF PublishesArray, Moves
    <3>3. Enters(c, x)'
      BY <3>1, <3>2 DEF Enters, Brings, Does
    <3>. QED
      BY <1>0, <2>1, <2>2, <2>3, <3>2, <3>3, GoingKeepsArray
  <2>. QED
    BY <2>4, <2>5
<1>5. ASSUME NEW c \in Calls, Registers(c) PROVE ArrayInv(x)'
  <2>1. Moves(c)
    BY <1>5, Working DEF Work
  <2>2. /\ disk' = disk /\ call'[c] = NoCall /\ Enters(c, call[c].d)
        /\ records' = [records EXCEPT ![call[c].d] = call[c].n]
    BY <1>5, GoesBack DEF Registers, Records, Enters, Brings, Does, At
  <2>3. ~Enters(c, x)' /\ ~Clears(c, x)'
    BY <2>2, Idle DEF Enters, Clears, Brings, Does
  <2>4. CASE x # call[c].d
    <3>1. records'[x] = records[x] /\ ~Enters(c, x) /\ ~Clears(c, x)
      BY <2>1, <2>2, <2>4 DEF Moves, TypeOK, Enters, Clears, Brings, Does
    <3>. QED
      BY <1>0, <2>1, <2>2, <2>3, <3>1, GoingKeepsArray
  <2>5. CASE x = call[c].d
    <3>1. records'[x] # Unregistered
      BY <2>1, <2>2, <2>5, NameAssumption DEF Moves, TypeOK
    <3>2. Unloaded(x)'
      BY <2>1, <1>0, Idle DEF Moves, ArrayInv, Unloaded, Does
    <3>. QED
      BY <3>1, <3>2 DEF ArrayInv, Owed
  <2>. QED
    BY <2>4, <2>5
<1>6. ASSUME NEW c \in Calls, ImportFails(c) PROVE ArrayInv(x)'
  <2>1. Moves(c)
    BY <1>6, Working DEF Work
  <2>2. x # call[c].d
    BY <1>0, <1>6, <2>1 DEF ImportFails, Overlapping, Overlap, Cut, Moves, TypeOK
  <2>3. UNCHANGED records /\ (Array(x) \in disk' <=> Array(x) \in disk)
    BY <1>6, FilesDiffer DEF ImportFails, Leaves, Abandoned
  <2>4. ~Enters(c, x) /\ ~Clears(c, x) /\ ~Enters(c, x)' /\ ~Clears(c, x)'
    BY <2>1, <2>2, Idle DEF Moves, Enters, Clears, Brings, Does
  <2>. QED
    BY <1>0, <2>1, <2>3, <2>4, GoingKeepsArray
<1>7. ASSUME NEW c \in Calls, DeletesRecord(c) PROVE ArrayInv(x)'
  <2>1. Moves(c)
    BY <1>7, Working DEF Work
  <2>2. disk' = disk /\ ~Enters(c, x) /\ ~Clears(c, x)
    BY <1>7 DEF DeletesRecord, At, Enters, Clears, Brings, Does
  <2>3. ~Enters(c, x)'
    BY <1>7, <2>1, Idle DEF DeletesRecord, Moves, At, Enters, Brings, Does
  <2>4. \/ records'[x] = records[x]
        \/ records'[x] = Unregistered /\ Clears(c, x)'
    <3>1. CASE records[call[c].d] = Unregistered
      BY <1>7, <3>1 DEF DeletesRecord
    <3>2. CASE records[call[c].d] # Unregistered
      <4>1. /\ records' = [records EXCEPT ![call[c].d] = Unregistered]
            /\ call'[c].op = "remove" /\ call'[c].d = call[c].d /\ call'[c].pc = "copy"
        BY <1>7, <2>1, <3>2, GoesOn DEF DeletesRecord, Moves, At
      <4>2. Clears(c, call[c].d)'
        BY <4>1 DEF Clears, Does
      <4>. QED
        BY <2>1, <4>1, <4>2 DEF Moves, TypeOK, Clears, Does
    <3>. QED
      BY <3>1, <3>2
  <2>. QED
    BY <1>0, <2>1, <2>2, <2>3, <2>4, GoingKeepsArray
<1>8. ASSUME NEW c \in Calls, UnlinksCopy(c) PROVE ArrayInv(x)'
  <2>1. Moves(c)
    BY <1>8, Working DEF Work
  <2>2. records' = records /\ (Array(x) \in disk' <=> Array(x) \in disk)
    BY <1>8, FilesDiffer DEF UnlinksCopy
  <2>3. Enters(c, x) \/ Clears(c, x) => Enters(c, x)' \/ Clears(c, x)'
    BY <1>8, <2>1, GoesOn, Idle DEF UnlinksCopy, Moves, At, Enters, Clears, Brings, Does
  <2>. QED
    BY <1>0, <2>1, <2>2, <2>3, GoingKeepsArray
<1>9. ASSUME NEW c \in Calls, UnlinksArray(c) PROVE ArrayInv(x)'
  <2>1. Moves(c)
    BY <1>9, Working DEF Work
  <2>2. disk' = disk \ {Array(call[c].d)} /\ call'[c] = NoCall /\ records' = records
        /\ Does(c, "remove", call[c].d) /\ Clears(c, call[c].d)
    BY <1>9, GoesBack DEF UnlinksArray, Clears, Does, At
  <2>3. ~Enters(c, x)' /\ ~Clears(c, x)'
    BY <2>2, Idle DEF Enters, Clears, Brings, Does
  <2>4. CASE x # call[c].d
    <3>1. /\ ~Enters(c, x) /\ ~Clears(c, x)
          /\ Array(x) \in disk' <=> Array(x) \in disk
      BY <2>2, <2>4, FilesDiffer DEF Enters, Clears, Brings, Does
    <3>. QED
      BY <1>0, <2>1, <2>2, <2>3, <3>1, GoingKeepsArray
  <2>5. CASE x = call[c].d
    <3>1. records'[x] = Unregistered /\ \A e \in Calls : ~Brings(e, x)
      BY <1>0, <2>2, <2>5 DEF CopyInv, Cleared, Apart
    <3>2. Unloaded(x)' /\ \A e \in Calls : ~Enters(e, x)'
      BY <2>1, <1>0, <2>2, <3>1, Idle DEF Moves, ArrayInv, Unloaded, Enters, Brings, Does
    <3>. QED
      BY <2>2, <2>5, <3>1, <3>2 DEF ArrayInv, Owed
  <2>. QED
    BY <2>4, <2>5
<1>10. ASSUME NEW c \in Calls, Ends(c) PROVE ArrayInv(x)'
  <2>1. Moves(c)
    BY <1>10, Working DEF Work
  <2>2. x # call[c].d
    BY <1>0, <1>10, <2>1 DEF Ends, Cut, Moves, TypeOK
  <2>3. UNCHANGED records /\ (Array(x) \in disk' <=> Array(x) \in disk)
    BY <1>10, FilesDiffer DEF Ends, Leaves, Abandoned
  <2>4. ~Enters(c, x) /\ ~Clears(c, x) /\ ~Enters(c, x)' /\ ~Clears(c, x)'
    BY <2>1, <2>2, Idle DEF Moves, Enters, Clears, Brings, Does
  <2>. QED
    BY <1>0, <2>1, <2>3, <2>4, GoingKeepsArray
<1>11. ASSUME NEW c \in Calls, ChecksFiles(c) PROVE ArrayInv(x)'
  <2>1. Moves(c)
    BY <1>11, Working DEF Work
  <2>2. records' = records /\ (Array(x) \in disk' <=> Array(x) \in disk)
    BY <1>11, FilesDiffer DEF ChecksFiles
  <2>3. Enters(c, x) \/ Clears(c, x) => Enters(c, x)' \/ Clears(c, x)'
    BY <1>11, <2>1, GoesOn, GoesBack, Idle DEF ChecksFiles, Moves, At, Enters, Clears, Brings,
       Does
  <2>. QED
    BY <1>0, <2>1, <2>2, <2>3, GoingKeepsArray
<1>12. ASSUME NEW c \in Calls, SavesRecord(c) PROVE ArrayInv(x)'
  <2>1. Moves(c)
    BY <1>12, Working DEF Work
  <2>2. /\ disk' = disk /\ call'[c] = NoCall /\ Enters(c, call[c].d)
        /\ records' = [records EXCEPT ![call[c].d] = call[c].n]
    BY <1>12, GoesBack DEF SavesRecord, Records, Enters, Brings, Does, At
  <2>3. ~Enters(c, x)' /\ ~Clears(c, x)'
    BY <2>2, Idle DEF Enters, Clears, Brings, Does
  <2>4. CASE x # call[c].d
    <3>1. records'[x] = records[x] /\ ~Enters(c, x) /\ ~Clears(c, x)
      BY <2>1, <2>2, <2>4 DEF Moves, TypeOK, Enters, Clears, Brings, Does
    <3>. QED
      BY <1>0, <2>1, <2>2, <2>3, <3>1, GoingKeepsArray
  <2>5. CASE x = call[c].d
    <3>1. records'[x] # Unregistered
      BY <2>1, <2>2, <2>5, NameAssumption DEF Moves, TypeOK
    <3>2. Unloaded(x)'
      BY <2>1, <1>0, Idle DEF Moves, ArrayInv, Unloaded, Does
    <3>. QED
      BY <3>1, <3>2 DEF ArrayInv, Owed
  <2>. QED
    BY <2>4, <2>5
<1>13. ASSUME NEW c \in Calls, NEW d \in Datasets, Removes(c, d) PROVE ArrayInv(x)'
  <2>1. records[d] \in Names
    BY <1>13 DEF Removes, TypeOK
  <2>2. Begins(c, "remove", "delete", d, records[d])
    BY <1>13 DEF Removes
  <2>3. /\ call[c] = NoCall /\ \A e \in Calls \ {c} : call'[e] = call[e]
        /\ call'[c].op = "remove" /\ call'[c].pc = "delete" /\ call'[c].d = d
    BY <2>2, <2>1, Starts DEF Begins, Phases
  <2>4. UNCHANGED <<records, disk>>
    BY <1>13 DEF Removes, Begins
  <2>5. ~Does(c, "load", x)'
    BY <2>3 DEF Does
  <2>. QED
    BY <1>0, <2>3, <2>4, <2>5, BeginningKeepsArray
<1>14. ASSUME NEW c \in Calls, NEW d \in Datasets, Loads(c, d) PROVE ArrayInv(x)'
  <2>1. records[d] \in Names
    BY <1>14 DEF Loads, TypeOK
  <2>2. /\ call[c] = NoCall /\ \A e \in Calls \ {c} : call'[e] = call[e]
        /\ call'[c].op = "load" /\ call'[c].pc = "ingest" /\ call'[c].d = d
    BY <1>14, <2>1, Starts DEF Loads, Begins, Phases
  <2>3. UNCHANGED <<records, disk>>
    BY <1>14 DEF Loads, Begins
  <2>4. ~Does(c, "load", x)'
    BY <1>0, <1>14, <2>2 DEF Loads, FilesInv, Arrayed, Does
  <2>. QED
    BY <1>0, <2>2, <2>3, <2>4, BeginningKeepsArray
<1>15. ASSUME NEW c \in Calls, NEW d \in Datasets, NEW n \in Names, Imports(c, d, n) PROVE ArrayInv(x)'
  <2>1. /\ call[c] = NoCall /\ \A e \in Calls \ {c} : call'[e] = call[e]
        /\ call'[c].op = "import" /\ call'[c].pc = "copy" /\ call'[c].d = d
    BY <1>15, Starts DEF Imports, Begins, Phases
  <2>2. UNCHANGED <<records, disk>>
    BY <1>15 DEF Imports, Begins
  <2>3. ~Does(c, "load", x)'
    BY <2>1 DEF Does
  <2>. QED
    BY <1>0, <2>1, <2>2, <2>3, BeginningKeepsArray
<1>16. ASSUME NEW c \in Calls, NEW d \in Datasets, NEW n \in Names, Adopts(c, d, n) PROVE ArrayInv(x)'
  <2>1. /\ call[c] = NoCall /\ \A e \in Calls \ {c} : call'[e] = call[e]
        /\ call'[c].op = "adopt" /\ call'[c].pc = "ingest" /\ call'[c].d = d
    BY <1>16, Starts DEF Adopts, Begins, Phases
  <2>2. UNCHANGED <<records, disk>>
    BY <1>16 DEF Adopts, Begins
  <2>3. ~Does(c, "load", x)'
    BY <2>1 DEF Does
  <2>. QED
    BY <1>0, <2>1, <2>2, <2>3, BeginningKeepsArray
<1>17. ASSUME NEW c \in Calls, NEW d \in Datasets, NEW n \in Names, Restores(c, d, n) PROVE ArrayInv(x)'
  <2>1. /\ call[c] = NoCall /\ \A e \in Calls \ {c} : call'[e] = call[e]
        /\ call'[c].op = "restore" /\ call'[c].pc = "check" /\ call'[c].d = d
    BY <1>17, Starts DEF Restores, Begins, Phases
  <2>2. UNCHANGED <<records, disk>>
    BY <1>17 DEF Restores, Begins
  <2>3. ~Does(c, "load", x)'
    BY <2>1 DEF Does
  <2>. QED
    BY <1>0, <2>1, <2>2, <2>3, BeginningKeepsArray
<1>18. CASE DaemonStarts
  BY <1>0, <1>18 DEF DaemonStarts, ArrayInv, Unloaded, Owed, Enters, Clears, Brings, Does
<1>19. CASE DaemonEnds
  BY <1>0, <1>19 DEF DaemonEnds, ArrayInv, Unloaded, Owed, Enters, Clears, Brings, Does
<1>20. CASE Cleanup
  <2>1. UNCHANGED <<records, call>> /\ (Array(x) \in disk' <=> Array(x) \in disk)
    BY <1>20, FilesDiffer DEF Cleanup, Pending
  <2>. QED
    BY <1>0, <2>1 DEF ArrayInv, Unloaded, Owed, Enters, Clears, Brings, Does
<1>21. CASE RepairReads
  BY <1>0, <1>21 DEF RepairReads, Overlapping, Overlap, ArrayInv, Unloaded, Owed, Enters, Clears, Brings, Does
<1>22. CASE RepairScans
  BY <1>0, <1>22 DEF RepairScans, ArrayInv, Unloaded, Owed, Enters, Clears, Brings, Does
<1>23. CASE RepairMoves
  <2>1. /\ UNCHANGED <<records, call>> /\ repair.pc = "move"
        /\ \E f \in repair.found : disk' = disk \ {f}
    BY <1>23 DEF RepairMoves
  <2>2. \A c \in Calls : ~Enters(c, x)
    BY <1>0, <2>1 DEF CopyInv, Spared, Enters
  <2>4. \A c \in Calls : (Enters(c, x)' <=> Enters(c, x)) /\ (Clears(c, x)' <=> Clears(c, x))
    BY <2>1 DEF Enters, Clears, Brings, Does
  <2>5. Unloaded(x)'
    BY <1>0, <2>1 DEF ArrayInv, Unloaded, Does
  <2>6. Owed(x)'
    BY <1>0, <2>1, <2>2, <2>4 DEF ArrayInv, Owed
  <2>. QED
    BY <2>5, <2>6 DEF ArrayInv
<1>24. CASE RepairEnds
  BY <1>0, <1>24 DEF RepairEnds, ArrayInv, Unloaded, Owed, Enters, Clears, Brings, Does
<1>25. CASE UNCHANGED vars
  BY <1>25 DEF vars, ArrayInv, Unloaded, Owed, Enters, Clears, Brings, Does
<1>. QED
  BY <1>1, <1>2, <1>3, <1>4, <1>5, <1>6, <1>7, <1>8, <1>9, <1>10, <1>11,
     <1>12, <1>13, <1>14, <1>15, <1>16, <1>17, <1>18, <1>19, <1>20, <1>21, <1>22,
     <1>23, <1>24, <1>25 DEF Next, Work, Ask, Maintain

LEMMA RepairStep ==
    ASSUME TypeOK, [Next]_vars, RepairInv
    PROVE  RepairInv'
<1>1. ASSUME NEW c \in Calls, Work(c) PROVE RepairInv'
  <2>1. Moves(c)
    BY <1>1, Working
  <2>2. repair' = repair
    BY <1>1 DEF Work, Copies, Publishes, WritesArray, PublishesArray, Registers, ImportFails,
       DeletesRecord, UnlinksCopy, UnlinksArray, Ends, ChecksFiles, SavesRecord, Records
  <2>. QED
    BY <2>1, <2>2 DEF RepairInv, Moves
<1>2. ASSUME NEW c \in Calls, Ask(c) PROVE RepairInv'
  <2>1. repair' = IF repair.pc = "off" THEN repair ELSE [repair EXCEPT !.alone = FALSE]
    BY <1>2 DEF Ask, Removes, Loads, Imports, Adopts, Restores, Begins
  <2>. QED
    BY <2>1 DEF RepairInv, TypeOK, Repair, NoRepair
<1>3. CASE DaemonStarts \/ DaemonEnds
  BY <1>3 DEF DaemonStarts, DaemonEnds, RepairInv, Registered
<1>4. CASE Cleanup
  BY <1>4 DEF Cleanup, RepairInv, Registered
<1>5. CASE RepairReads
  BY <1>5 DEF RepairReads, RepairInv, Registered
<1>6. CASE RepairScans
  BY <1>6 DEF RepairScans, RepairInv, Registered
<1>7. CASE RepairMoves
  <2>1. PICK f \in repair.found : disk' = disk \ {f} /\ repair' = [repair EXCEPT !.found = @ \ {f}]
    BY <1>7 DEF RepairMoves
  <2>2. repair.pc = "move" /\ UNCHANGED <<records, call>>
    BY <1>7 DEF RepairMoves
  <2>3. repair'.pc = "move" /\ repair'.found = repair.found \ {f} /\ repair'.alone = repair.alone
    BY <2>1, <2>2 DEF TypeOK, Repair, NoRepair
  <2>. QED
    BY <2>1, <2>2, <2>3 DEF RepairInv, Registered
<1>8. CASE RepairEnds
  BY <1>8 DEF RepairEnds, RepairInv, NoRepair
<1>9. CASE UNCHANGED vars
  BY <1>9 DEF vars, RepairInv, Registered
<1>. QED
  BY <1>1, <1>2, <1>3, <1>4, <1>5, <1>6, <1>7, <1>8, <1>9 DEF Next, Maintain

-----------------------------------------------------------------------------
(* The theorems.                                                           *)

\* The four arguments hold of every reachable state of the workspace's data sets
\* (datasets.py, maintenance.py).
THEOREM Invariance == Spec => []IInv
<1>1. Init => IInv
  <2> SUFFICES ASSUME Init PROVE IInv
    OBVIOUS
  <2>1. TypeOK
    BY DEF Init, TypeOK, Call, Repair
  <2>2. ASSUME NEW d \in Datasets PROVE CopyInv(d)
    BY Idle DEF Init, CopyInv, Apart, Cleared, Spared, Checked, Backed, Clears, Brings, Does,
       NoRepair
  <2>3. ASSUME NEW d \in Datasets PROVE ArrayInv(d) /\ FilesInv(d)
    BY Idle DEF Init, ArrayInv, FilesInv, Unloaded, Arrayed, Owed, Aimed, Named, Enters, Brings, Does
  <2>4. RepairInv
    BY DEF Init, RepairInv, NoRepair
  <2>. QED
    BY <2>1, <2>2, <2>3, <2>4 DEF IInv
<1>2. IInv /\ [Next]_vars => IInv'
  <2> SUFFICES ASSUME IInv, [Next]_vars PROVE IInv'
    OBVIOUS
  <2>1. TypeOK'
    BY TypeStep DEF IInv
  <2>2. ASSUME NEW d \in Datasets PROVE CopyInv(d)' /\ FilesInv(d)' /\ ArrayInv(d)'
    BY CopyStep, FilesStep, ArrayStep DEF IInv
  <2>3. RepairInv'
    BY RepairStep DEF IInv
  <2>. QED
    BY <2>1, <2>2, <2>3 DEF IInv
<1>. QED
  BY <1>1, <1>2, PTL DEF Spec

\* The copy of a registered data set is there (DatasetStore.import_file, _register, remove
\* and import_workspace_manifest), unless an import that failed, a removal or a repair met
\* a call that brings the same data set.
THEOREM CopiesAreKept == Spec => []RecordsAreBacked
<1>1. IInv => RecordsAreBacked
  BY DEF IInv, CopyInv, Backed, RecordsAreBacked
<1>. QED
  BY <1>1, Invariance, PTL

\* No copy is left that the record does not name (DatasetStore.import_file and remove), but
\* those of records that were replaced and of calls that died; a registered data set has its
\* arrays and a removed one has none (load_arrays), the latter if nothing was cut short.
THEOREM FilesFollowRecords == Spec => []DiskMatchesRecords
<1>1. IInv => DiskMatchesRecords
  <2> SUFFICES ASSUME IInv, NEW d \in Datasets, "overlap" \notin marks[d],
                      \A c \in Calls : call[c] = NoCall \/ call[c].d # d
               PROVE  /\ \A n \in Names : Copy(d, n) \in disk => n \in stale[d] \cup {records[d]}
                      /\ records[d] # Unregistered => Array(d) \in disk
                      /\ records[d] = Unregistered /\ "cut" \notin marks[d] => Array(d) \notin disk
    BY DEF DiskMatchesRecords
  <2>1. \A c \in Calls : ~Enters(c, d) /\ ~Clears(c, d) /\ \A n : ~Keeps(c, d, n)
    BY Idle DEF Enters, Clears, Keeps, Brings, Does
  <2>2. Arrayed(d) /\ Named(d)
    BY DEF IInv, FilesInv
  <2>3. "cut" \notin marks[d] => Owed(d)
    <3>1. "cut" \notin marks[d] => marks[d] = {}
      BY DEF IInv, TypeOK
    <3>. QED
      BY <3>1 DEF IInv, ArrayInv
  <2>. QED
    BY <2>1, <2>2, <2>3 DEF Arrayed, Named, Owed
<1>. QED
  BY <1>1, Invariance, PTL

\* A repair that ran alone (maintenance.repair_workspace) leaves only files of registered
\* data sets.
THEOREM RepairLeavesNothing == Spec => []RepairIsThorough
<1>1. IInv => RepairIsThorough
  BY DEF IInv, RepairInv, RepairIsThorough, Registered
<1>. QED
  BY <1>1, Invariance, PTL
=============================================================================
