----------------------------- MODULE MCAndersen -----------------------------
\* Model checking the worklist solver.
EXTENDS Andersen, MCPrograms
=============================================================================
