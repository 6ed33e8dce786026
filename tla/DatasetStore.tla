----------------------------- MODULE DatasetStore -----------------------------
(***************************************************************************)
(* The managed data sets of a workspace (datasets.py) and the maintenance  *)
(* commands that work on the same files (maintenance.py).  A data set is   *)
(* identified by the hash of its content and its target; its record in the *)
(* database names a copy in datasets/, and arrays/ caches what the         *)
(* ingestor made of it.  What imports, adopts, restores, removes or loads  *)
(* a data set takes no lock: it runs in threads of the daemon and in other *)
(* processes, and each step on the disk or in the database is a step here. *)
(*                                                                         *)
(* Contents are abstracted: a copy is verified before it is published, and *)
(* the arrays are a function of the copy.                                  *)
(***************************************************************************)
EXTENDS Naturals

CONSTANTS
    Calls,      \* threads that import, adopt, restore, remove or load
    Served,     \* those of them that belong to the daemon
    Datasets,   \* identifiers: content and selected target
    Names,      \* file names under which the same content is imported
    Lookalikes, \* those of them that contain ".pending"
    Aliased,    \* data sets registered under another target than the selected one
    Legacy      \* data sets and names that the index of an old version lists

ASSUME CallAssumption ==
    /\ Served \subseteq Calls /\ Aliased \subseteq Datasets /\ Lookalikes \subseteq Names
    /\ Legacy \subseteq Datasets \X Names

VARIABLES
    records,    \* dataset_records: the name in the path of a data set
    disk,       \* the files of datasets/ and arrays/
    call,       \* what the threads are doing
    daemon,     \* the daemon of the workspace is alive
    repair,     \* a run of repair_workspace
    marks,      \* history: what has happened to a data set
    stale       \* history: the names of copies that nobody will unlink any more

vars == <<records, disk, call, daemon, repair, marks, stale>>

Copy(d, n)      == <<"copy", d, n>>
Array(d)        == <<"array", d>>
PendingCopy(c)  == <<"pending copy", c>>
PendingArray(c) == <<"pending array", c>>
Litter          == <<"litter">>     \* pending files of calls that are gone

Unregistered == "-"                 \* no file has this for its name
ASSUME NameAssumption == Unregistered \notin Names

NoCall       == [op |-> "none"]
NoRepair     == [pc |-> "off"]

Init ==
    /\ records = [d \in Datasets |-> Unregistered]
    /\ disk = {}
    /\ call = [c \in Calls |-> NoCall]
    /\ daemon = FALSE
    /\ repair = NoRepair
    /\ marks = [d \in Datasets |-> {}]
    /\ stale = [d \in Datasets |-> {}]

Does(c, op, d) == call[c].op = op /\ call[c].d = d
Brings(c, d)   == \E op \in {"import", "adopt", "restore"} : Does(c, op, d)
At(c, op, pc)  == call[c].op = op /\ call[c].pc = pc
Goto(c, pc)    == call' = [call EXCEPT ![c].pc = pc]
Return(c)      == call' = [call EXCEPT ![c] = NoCall]

\* Marks are made when the danger arises, not when it does harm.  "overlap" includes "cut",
\* and nothing more is recorded of a data set that has it.
Overlap == {"overlap", "cut"}
Overlapping(D) ==
    /\ marks' = [d \in Datasets |-> IF d \in D THEN Overlap ELSE marks[d]]
    /\ stale' = [d \in Datasets |-> IF d \in D THEN {} ELSE stale[d]]
Cut(d) == marks' = [marks EXCEPT ![d] = @ \cup {"cut"}]
Stale(d, names) == stale' = IF "overlap" \in marks[d] THEN stale ELSE [stale EXCEPT ![d] = names]

Begins(c, op, pc, d, n) ==
    /\ call[c] = NoCall
    /\ c \in Served => daemon
    /\ call' = [call EXCEPT ![c] = [op |-> op, pc |-> pc, d |-> d, n |-> n]]
    /\ repair' = IF repair.pc = "off" THEN repair ELSE [repair EXCEPT !.alone = FALSE]
    /\ UNCHANGED <<records, disk, daemon>>

\* A call that brings d begins next to a repair or to a call that removes d.
MeetsOthers(d) ==
    Overlapping(IF repair.pc # "off" \/ \E e \in Calls : Does(e, "remove", d) THEN {d} ELSE {})

-----------------------------------------------------------------------------
(* import_file and _register.                                              *)

\* A data set whose record has the same content and target is returned as it is.
Imports(c, d, n) ==
    /\ records[d] = Unregistered \/ d \in Aliased
    /\ Begins(c, "import", "copy", d, n)
    /\ MeetsOthers(d)

Copies(c) ==
    /\ At(c, "import", "copy")
    /\ disk' = disk \cup {PendingCopy(c)}
    /\ Goto(c, "publish")
    /\ UNCHANGED <<records, daemon, repair, marks, stale>>

Publishes(c) ==
    /\ At(c, "import", "publish")
    /\ PendingCopy(c) \in disk
    /\ disk' = (disk \ {PendingCopy(c)}) \cup {Copy(call[c].d, call[c].n)}
    /\ Goto(c, "ingest")
    /\ UNCHANGED <<records, daemon, repair, marks, stale>>

\* The ingestor reads the copy; also of a load that found no arrays.
WritesArray(c) ==
    /\ call[c].op \in {"import", "adopt", "load"} /\ call[c].pc = "ingest"
    /\ Copy(call[c].d, call[c].n) \in disk
    /\ disk' = disk \cup {PendingArray(c)}
    /\ Goto(c, "array")
    /\ UNCHANGED <<records, daemon, repair, marks, stale>>

PublishesArray(c) ==
    /\ call[c].op \in {"import", "adopt", "load"} /\ call[c].pc = "array"
    /\ PendingArray(c) \in disk
    /\ disk' = (disk \ {PendingArray(c)}) \cup {Array(call[c].d)}
    /\ IF call[c].op = "load" THEN Return(c) ELSE Goto(c, "register")
    /\ UNCHANGED <<records, daemon, repair, marks, stale>>

\* A record that is replaced by one with another name leaves its copy behind.
Records(c) ==
    /\ LET d == call[c].d   n == call[c].n IN
       /\ records' = [records EXCEPT ![d] = n]
       /\ Stale(d, (stale[d] \cup ({records[d]} \ {Unregistered})) \ {n})
    /\ Return(c)
    /\ UNCHANGED <<disk, daemon, repair, marks>>

\* The size and the health of the copy are read once more.
Registers(c) ==
    /\ call[c].op \in {"import", "adopt"} /\ call[c].pc = "register"
    /\ Copy(call[c].d, call[c].n) \in disk
    /\ Records(c)

\* _migrate_legacy_index(): whoever opens the workspace registers what the old index
\* lists, if it has no record and its file is there.
Adopts(c, d, n) ==
    /\ <<d, n>> \in Legacy
    /\ records[d] = Unregistered
    /\ Copy(d, n) \in disk
    /\ Begins(c, "adopt", "ingest", d, n)
    /\ MeetsOthers(d)

Abandoned(c) == disk \cap {PendingCopy(c), PendingArray(c)}

\* A pending file of the arrays stays behind when a call ends early.
Leaves(c, files) ==
    disk' = (files \ Abandoned(c)) \cup (IF files \cap Abandoned(c) = {} THEN {} ELSE {Litter})

\* Any error, and a cancelled copy: the handler removes the pending and the published copy.
ImportFails(c) ==
    /\ call[c].op = "import"
    /\ LET d == call[c].d IN
       /\ Leaves(c, disk \ {PendingCopy(c), Copy(d, call[c].n)})
       /\ IF records[d] # Unregistered \/ \E e \in Calls \ {c} : Brings(e, d)
          THEN Overlapping({d}) ELSE Cut(d) /\ UNCHANGED stale
    /\ Return(c)
    /\ UNCHANGED <<records, daemon, repair>>

-----------------------------------------------------------------------------
(* remove and load_arrays.                                                 *)

Removes(c, d) ==
    /\ records[d] # Unregistered
    /\ Begins(c, "remove", "delete", d, records[d])
    /\ IF \E e \in Calls : Brings(e, d) THEN Overlapping({d})
       ELSE /\ IF \E e \in Calls : Does(e, "load", d) THEN Cut(d) ELSE UNCHANGED marks
            /\ UNCHANGED stale

\* A second removal finds no record any more and raises.
DeletesRecord(c) ==
    /\ At(c, "remove", "delete")
    /\ LET d == call[c].d IN
       IF records[d] = Unregistered
       THEN Return(c) /\ UNCHANGED records
       ELSE Goto(c, "copy") /\ records' = [records EXCEPT ![d] = Unregistered]
    /\ UNCHANGED <<disk, daemon, repair, marks, stale>>

UnlinksCopy_Never(c) ==
    /\ At(c, "remove", "copy")
    /\ Goto(c, "arrays")
    /\ UNCHANGED <<records, disk, daemon, repair, marks, stale>>

UnlinksCopy(c) ==
    /\ At(c, "remove", "copy")
    /\ disk' = disk \ {Copy(call[c].d, call[c].n)}
    /\ Goto(c, "arrays")
    /\ UNCHANGED <<records, daemon, repair, marks, stale>>

UnlinksArray(c) ==
    /\ At(c, "remove", "arrays")
    /\ disk' = disk \ {Array(call[c].d)}
    /\ Return(c)
    /\ UNCHANGED <<records, daemon, repair, marks, stale>>

\* Arrays that are there are read; otherwise they are made again from the copy.
Loads(c, d) ==
    /\ records[d] # Unregistered
    /\ Array(d) \notin disk
    /\ Begins(c, "load", "ingest", d, records[d])
    /\ IF \E e \in Calls : Does(e, "remove", d) THEN Cut(d) ELSE UNCHANGED marks
    /\ UNCHANGED stale

\* A load raises, or the process of a call dies.  An import that published its copy and
\* a removal that deleted the record leave the copy behind.
Ends(c) ==
    /\ call[c] # NoCall
    /\ Leaves(c, disk)
    /\ Return(c)
    /\ LET d == call[c].d   n == call[c].n IN
       /\ Cut(d)
       /\ Stale(d, stale[d] \cup
            IF call[c].op \in {"import", "remove"} /\ records[d] # n THEN {n} ELSE {})
    /\ UNCHANGED <<records, daemon, repair>>

\* import_workspace_manifest(): without a daemon.  The record of a manifest that was
\* exported before replaces the one there is, if the files it names are there.
Restores(c, d, n) ==
    /\ ~daemon
    /\ Begins(c, "restore", "check", d, n)
    /\ MeetsOthers(d)

ChecksFiles(c) ==
    /\ At(c, "restore", "check")
    /\ IF {Copy(call[c].d, call[c].n), Array(call[c].d)} \subseteq disk
       THEN Goto(c, "save") ELSE Return(c)
    /\ UNCHANGED <<records, disk, daemon, repair, marks, stale>>

SavesRecord(c) == At(c, "restore", "save") /\ Records(c)

DaemonStarts ==
    /\ ~daemon
    /\ daemon' = TRUE
    /\ UNCHANGED <<records, disk, call, repair, marks, stale>>

\* The daemon ends after its last call, or it is killed after Ends of the others.
DaemonEnds ==
    /\ daemon
    /\ \A c \in Served : call[c] = NoCall
    /\ daemon' = FALSE
    /\ UNCHANGED <<records, disk, call, repair, marks, stale>>

-----------------------------------------------------------------------------
(* Maintenance.                                                            *)

Pending == {PendingCopy(c) : c \in Calls} \cup {PendingArray(c) : c \in Calls} \cup {Litter}

\* cleanup_workspace takes what has the name of a pending file, whoever is writing it.
Cleanup ==
    /\ \E f \in disk \cap (Pending \cup {Copy(d, n) : d \in Datasets, n \in Lookalikes}) :
          disk' = disk \ {f}
    /\ UNCHANGED <<records, call, daemon, repair, marks, stale>>

RepairReads_Anytime ==
    /\ repair.pc = "off"
    /\ repair' = [pc |-> "scan", alone |-> \A c \in Calls : call[c] = NoCall,
                  known |-> {d \in Datasets : records[d] # Unregistered}]
    /\ Overlapping({d \in Datasets : \E c \in Calls \ Served : Brings(c, d)})
    /\ UNCHANGED <<records, disk, call, daemon>>

\* A repair is refused while the daemon is alive; the records are read first.
RepairReads ==
    /\ repair.pc = "off"
    /\ ~daemon
    /\ repair' = [pc |-> "scan", alone |-> \A c \in Calls : call[c] = NoCall,
                  known |-> {d \in Datasets : records[d] # Unregistered}]
    /\ Overlapping({d \in Datasets : \E c \in Calls : Brings(c, d)})
    /\ UNCHANGED <<records, disk, call, daemon>>

\* A copy belongs to a record by its prefix, whatever the rest of its name.
Owned(known) == {Copy(d, n) : d \in known, n \in Names} \cup {Array(d) : d \in known}

RepairScans_SkipsPending ==
    /\ repair.pc = "scan"
    /\ repair' = [pc |-> "move", alone |-> repair.alone,
                  found |-> disk \ (Owned(repair.known) \cup Pending)]
    /\ UNCHANGED <<records, disk, call, daemon, marks, stale>>

RepairScans ==
    /\ repair.pc = "scan"
    /\ repair' = [pc |-> "move", alone |-> repair.alone, found |-> disk \ Owned(repair.known)]
    /\ UNCHANGED <<records, disk, call, daemon, marks, stale>>

\* What is found is moved to recovery/, one file after the other, if it is still there.
RepairMoves ==
    /\ repair.pc = "move"
    /\ \E f \in repair.found :
          /\ disk' = disk \ {f}
          /\ repair' = [repair EXCEPT !.found = @ \ {f}]
    /\ UNCHANGED <<records, call, daemon, marks, stale>>

RepairEnds ==
    /\ repair.pc # "off"
    /\ repair' = NoRepair
    /\ UNCHANGED <<records, disk, call, daemon, marks, stale>>

Work(c) ==
    \/ Copies(c) \/ Publishes(c) \/ WritesArray(c) \/ PublishesArray(c) \/ Registers(c)
    \/ ImportFails(c) \/ DeletesRecord(c) \/ UnlinksCopy(c) \/ UnlinksArray(c) \/ Ends(c)
    \/ ChecksFiles(c) \/ SavesRecord(c)

Ask(c) ==
    \E d \in Datasets :
        \/ Removes(c, d) \/ Loads(c, d)
        \/ \E n \in Names : Imports(c, d, n) \/ Adopts(c, d, n) \/ Restores(c, d, n)

Maintain == Cleanup \/ RepairReads \/ RepairScans \/ RepairMoves \/ RepairEnds

Next == (\E c \in Calls : Work(c) \/ Ask(c)) \/ DaemonStarts \/ DaemonEnds \/ Maintain

Spec == Init /\ [][Next]_vars

-----------------------------------------------------------------------------
File == {Copy(d, n) : d \in Datasets, n \in Names} \cup {Array(d) : d \in Datasets} \cup Pending

Call == {NoCall} \cup
    [op : {"import", "adopt", "restore", "remove", "load"}, d : Datasets, n : Names,
     pc : {"copy", "publish", "ingest", "array", "register", "delete", "arrays",
           "check", "save"}]

Repair == {NoRepair} \cup
    [pc : {"scan"}, alone : BOOLEAN, known : SUBSET Datasets] \cup
    [pc : {"move"}, alone : BOOLEAN, found : SUBSET File]

TypeOK ==
    /\ records \in [Datasets -> Names \cup {Unregistered}]
    /\ disk \subseteq File
    /\ call \in [Calls -> Call]
    /\ daemon \in BOOLEAN
    /\ repair \in Repair
    /\ marks \in [Datasets -> SUBSET {"overlap", "cut"}]
    /\ stale \in [Datasets -> SUBSET Names]

\* A registered data set has its copy, whatever dies or fails in between and whoever
\* loads, cleans up and repairs; several imports of the same content may even run at
\* once.  Only an import that fails next to another holder of the copy, and a removal or a
\* repair next to a call that registers it can take it away, and a cleanup if the file
\* was imported under the name of a pending one.
RecordsAreBacked ==
    \A d \in Datasets :
        "overlap" \notin marks[d] /\ records[d] \notin Lookalikes \cup {Unregistered} =>
            Copy(d, records[d]) \in disk

\* While no call is at work on a data set, and wherever earlier ones died: the copies
\* on disk are the one its record names, those of records that were replaced, and those of
\* calls that died before they could register or unlink them; a removal takes its own copy.
\* A registered data set has its arrays; a removed one has none, unless a call was cut short.
DiskMatchesRecords ==
    \A d \in Datasets : "overlap" \notin marks[d] /\ (\A c \in Calls : call[c] = NoCall \/ call[c].d # d) =>
        /\ \A n \in Names : Copy(d, n) \in disk => n \in stale[d] \cup {records[d]}
        /\ records[d] # Unregistered => Array(d) \in disk
        /\ records[d] = Unregistered /\ "cut" \notin marks[d] => Array(d) \notin disk

\* A repair that ran alone leaves only files of registered data sets.
RepairIsThorough ==
    repair.pc = "move" /\ repair.found = {} /\ repair.alone =>
        disk \subseteq Owned({d \in Datasets : records[d] # Unregistered})
=============================================================================
