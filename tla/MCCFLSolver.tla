------------------------------ MODULE MCCFLSolver ------------------------------
\* Model checking the standard CFL-reachability solver.
EXTENDS CFLSolver, MCCFLGraphs
=============================================================================
