------------------------- MODULE MCIntervalRegister -------------------------
(* Model checking the interval domains with operands of few bounds. *)
EXTENDS IntervalRegister

MCBounds == {-2, 1, 5}

\* The intervals between these bounds, and the unbounded ones.
Between(least, greatest) ==
    {w \in (MCBounds \union {least}) \X (MCBounds \union {greatest}) : w[1] <= w[2]}
MCOperands == Between(-Infinity, Infinity)
MCRangeOperands == Between(R!NINF, R!INF)
=============================================================================
