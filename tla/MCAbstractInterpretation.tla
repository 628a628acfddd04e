------------------------ MODULE MCAbstractInterpretation ------------------------
(* Model checking the abstract execution on functions with loops. *)
EXTENDS AbstractInterpretation

CONSTANTS
    Inits, Limits, Steps, Preds, \* of the counting loops
    Delays                       \* values of the widening delay

MCSteps == {-1, 1, 2}
MCArgs == {"n"}
MCInputs == {-2, 0, 3, 4, 5}
MCRegs == MCArgs \union {"r", "c", "q", "a", "u", "d", "v", "w", "s", "e", "t"}
MCObjs == {"i", "j", "x", "y"}

Reg(r) == [reg |-> r, num |-> 0]
Num(k) == [reg |-> NoReg, num |-> k]
Stmt(op, dst, a, b, pred) == [op |-> op, dst |-> dst, a |-> a, b |-> b, pred |-> pred]
Load(r, o) == Stmt("load", r, Reg(o), Num(0), "none")
Store(o, a) == Stmt("store", o, a, Num(0), "none")
Op(op, r, a, b) == Stmt(op, r, a, b, "none")
Add(r, a, b) == Op("add", r, a, b)
Cmp(r, a, pred, b) == Stmt("cmp", r, a, b, pred)

To(n, m) == [src |-> n, dst |-> m, cmp |-> 0, succ |-> 0]
Branch(n, m, cmp, succ) == [src |-> n, dst |-> m, cmp |-> cmp, succ |-> succ]
Path(first, last) == {To(n, n + 1) : n \in first .. last - 1}

One(n) == [head |-> n, cycle |-> FALSE, body |-> <<>>]
Ones(first, last) == [k \in 1 .. last - first + 1 |-> One(first + k - 1)]
Loop(head, body) == [head |-> head, cycle |-> TRUE, body |-> body]

\* i = init; while (i pred limit) i += step; s = i, with the operands in either order.
Counting(init, left, pred, limit, step, delay) ==
    [stmts |-> <<Store("i", Num(init)), Load("r", "i"),
                 IF left THEN Cmp("c", Reg("r"), pred, Num(limit))
                         ELSE Cmp("c", Num(limit), pred, Reg("r")),
                 Load("q", "i"), Add("a", Reg("q"), Num(step)), Store("i", Reg("a")),
                 Load("s", "i")>>,
     edges |-> Path(0, 3) \union {Branch(3, 4, 3, 1), Branch(3, 7, 3, 0)}
               \union Path(4, 6) \union {To(6, 2)},
     wto |-> <<One(1), Loop(2, Ones(3, 6)), One(7)>>,
     delay |-> delay]

\* i = 0; while (i < limit) { j = 0; while (j < 2) j++; i++; } s = i
Nested(limit, delay) ==
    [stmts |-> <<Store("i", Num(0)), Load("r", "i"), Cmp("c", Reg("r"), "LT", Num(limit)),
                 Store("j", Num(0)), Load("u", "j"), Cmp("d", Reg("u"), "LT", Num(2)),
                 Load("v", "j"), Add("w", Reg("v"), Num(1)), Store("j", Reg("w")),
                 Load("q", "i"), Add("a", Reg("q"), Num(1)), Store("i", Reg("a")),
                 Load("s", "i")>>,
     edges |-> Path(0, 3) \union {Branch(3, 4, 3, 1), Branch(3, 13, 3, 0)}
               \union Path(4, 6) \union {Branch(6, 7, 6, 1), Branch(6, 10, 6, 0)}
               \union Path(7, 9) \union {To(9, 5)} \union Path(10, 12) \union {To(12, 2)},
     wto |-> <<One(1), Loop(2, Ones(3, 4) \o <<Loop(5, Ones(6, 9))>> \o Ones(10, 12)), One(13)>>,
     delay |-> delay]

\* x = first; i = 0; while (i < 5) { if (i > 3) x = 7; i++; }
\* s = x; if (s < limit) y = 1 else y = 2; t = y
Late(first, limit, delay) ==
    [stmts |-> <<first, Store("i", Num(0)),
                 Load("r", "i"), Cmp("c", Reg("r"), "LT", Num(5)),
                 Cmp("d", Reg("r"), "GT", Num(3)), Store("x", Num(7)),
                 Load("q", "i"), Add("a", Reg("q"), Num(1)), Store("i", Reg("a")),
                 Load("s", "x"), Cmp("e", Reg("s"), "LT", Num(limit)),
                 Store("y", Num(1)), Store("y", Num(2)), Load("t", "y")>>,
     edges |-> Path(0, 4) \union {Branch(4, 5, 4, 1), Branch(4, 10, 4, 0)}
               \union {Branch(5, 6, 5, 1), Branch(5, 7, 5, 0)}
               \union Path(6, 9) \union {To(9, 3)}
               \union {To(10, 11), Branch(11, 12, 11, 1), Branch(11, 13, 11, 0),
                       To(12, 14), To(13, 14)},
     wto |-> Ones(1, 2) \o <<Loop(3, Ones(4, 9))>> \o Ones(10, 14),
     delay |-> delay]

\* if (n pred limit) x = n else x = limit; i = 0; while (i < n) i++; s = x
Argument(pred, limit, delay) ==
    [stmts |-> <<Cmp("c", Reg("n"), pred, Num(limit)), Store("x", Reg("n")), Store("x", Num(limit)),
                 Store("i", Num(0)), Load("r", "i"), Cmp("d", Reg("r"), "LT", Reg("n")),
                 Load("q", "i"), Add("a", Reg("q"), Num(1)), Store("i", Reg("a")),
                 Load("s", "x")>>,
     edges |-> {To(0, 1), Branch(1, 2, 1, 1), Branch(1, 3, 1, 0), To(2, 4), To(3, 4)}
               \union Path(4, 6) \union {Branch(6, 7, 6, 1), Branch(6, 10, 6, 0)}
               \union Path(7, 9) \union {To(9, 5)},
     wto |-> Ones(1, 4) \o <<Loop(5, Ones(6, 9))>> \o <<One(10)>>,
     delay |-> delay]

\* x = n & 3; i = 1; while (i pred x) i = 2 * i; s = i % 3
Masked(pred, delay) ==
    [stmts |-> <<Op("and", "u", Reg("n"), Num(3)), Store("x", Reg("u")), Store("i", Num(1)),
                 Load("r", "i"), Load("v", "x"), Cmp("c", Reg("r"), pred, Reg("v")),
                 Load("q", "i"), Op("mul", "a", Reg("q"), Num(2)), Store("i", Reg("a")),
                 Load("w", "i"), Op("rem", "s", Reg("w"), Num(3))>>,
     edges |-> Path(0, 6) \union {Branch(6, 7, 6, 1), Branch(6, 10, 6, 0)}
               \union Path(7, 9) \union {To(9, 4), To(10, 11)},
     wto |-> Ones(1, 3) \o <<Loop(4, Ones(5, 9))>> \o Ones(10, 11),
     delay |-> delay]

\* All memory is initialised before it is used, and before the loops are widened.
InitialisedPrograms ==
    {Counting(i, left, pred, l, s, delay) :
        i \in Inits, left \in BOOLEAN, pred \in Preds, l \in Limits, s \in Steps, delay \in Delays}
    \union {Nested(l, delay) : l \in {0, 1, 4}, delay \in Delays \ {1}}
    \union {Argument(pred, l, delay) : pred \in Preds, l \in Limits, delay \in Delays}
    \union {Masked(pred, delay) : pred \in Preds, delay \in Delays}
    \union {Late(Store("x", Num(0)), l, delay) : l \in {0, 7, 8}, delay \in Delays}

\* x gets its first value in a late iteration of the loop.
LateStorePrograms == {Late(Store("y", Num(0)), 7, delay) : delay \in Delays}
=============================================================================
