---------------------------- MODULE CheckpointStore ----------------------------
(***************************************************************************)
(* CheckpointManager (checkpoints.py) for the two checkpoints of one run:  *)
(* the best one, which a resumed run starts from and a finished run        *)
(* delivers, and the last one.  A checkpoint is a file and a metadata file *)
(* that names the file's checksum; each is replaced atomically, but one    *)
(* after the other.  Every durable replacement or unlink is an operator of *)
(* its own, so that a crash or a failing call can fall between two.        *)
(***************************************************************************)
CONSTANT NoFile     \* the file does not exist

VARIABLES
    bestFile, bestMeta,     \* <run>.npz and the content its metadata vouches for
    lastFile, lastMeta      \* <run>.last.npz and its metadata

best == <<bestFile, bestMeta>>
last == <<lastFile, lastMeta>>
disk == <<best, last>>

DiskInit ==
    /\ bestFile = NoFile /\ bestMeta = NoFile
    /\ lastFile = NoFile /\ lastMeta = NoFile

\* The backend writes a pending file and replaces the checkpoint with it.
SaveBest(content) == bestFile' = content /\ UNCHANGED <<bestMeta, last>>
SaveLast(content) == lastFile' = content /\ UNCHANGED <<lastMeta, best>>

\* record(): the checksum of the file as it is now, in a metadata file.
RecordBest == bestMeta' = bestFile /\ UNCHANGED <<bestFile, last>>
RecordLast == lastMeta' = lastFile /\ UNCHANGED <<lastFile, best>>

\* promote(), up to its call of record(): the best file becomes a copy of the last.
PromoteFile == SaveBest(lastFile)

\* discard_last(): first the file, then the metadata.
DiscardLastFile == lastFile' = NoFile /\ UNCHANGED <<lastMeta, best>>
DiscardLastMeta == lastMeta' = NoFile /\ UNCHANGED <<lastFile, best>>

\* verify() accepts the best checkpoint: the metadata exists and names this content.
Verifies == bestFile # NoFile /\ bestMeta = bestFile
=============================================================================
