---------------------------- MODULE MCSteensgaard ----------------------------
\* Model checking the unification-based solver.
EXTENDS Steensgaard, MCPrograms
=============================================================================
