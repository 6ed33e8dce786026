---------------------------- MODULE MCDatasetStore ----------------------------
(* DatasetStore with a thread of the daemon and another process, and one data *)
(* set that is imported under two names, one of them like a pending file's.   *)
EXTENDS DatasetStore

MCLegacy == Datasets \X (Names \ Lookalikes)
=============================================================================
