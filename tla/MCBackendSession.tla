--------------------------- MODULE MCBackendSession ---------------------------
EXTENDS BackendSession

\* A ceiling that the second growth of the batch exceeds, and one that it does not.
MCArenaCaps == {8192, 40000}
=============================================================================
