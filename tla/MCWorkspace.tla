----------------------------- MODULE MCWorkspace -----------------------------
\* Three pids for the processes of a workspace; any of them may play any role.
EXTENDS Workspace, TLC
CONSTANTS p1, p2, p3
ThreeProcs == {p1, p2, p3}
Interchangeable == Permutations(ThreeProcs)
=============================================================================
