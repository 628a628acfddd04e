----------------------------- MODULE MCPOCRSolver -----------------------------
\* Model checking the solver with successor and predecessor maps.
EXTENDS POCRSolver, MCCFLGraphs
=============================================================================
