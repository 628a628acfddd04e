--------------------------- MODULE MCAndersenWave ---------------------------
\* Model checking the wave propagation solver.
EXTENDS AndersenWave, MCPrograms
=============================================================================
