------------------------ MODULE MCBufferOverflowChecker ------------------------
(* Model checking the buffer overflow checker on small C functions. *)
EXTENDS BufferOverflowChecker

CONSTANT Sizes  \* of the buffers

Const == [c \in {"-1", "0", "1", "2", "3", "4", "5"} |->
            CASE c = "-1" -> -1 [] c = "0" -> 0 [] c = "1" -> 1 [] c = "2" -> 2
              [] c = "3" -> 3 [] c = "4" -> 4 [] OTHER -> 5]
MCPointers == {"a", "b", "e", "e2", "g", "h", "p", "q", "q2", "fp", "w"}
MCVars == DOMAIN Const \union MCPointers
            \union {"none", "i", "x", "l", "l2", "l3", "l4", "l5", "m", "m2", "c", "d", "s", "fi",
                    "k"}

Op(op, dst, args, bb) == [op |-> op, dst |-> dst, args |-> args, bb |-> bb]
Load(dst, slot, bb) == Op("load", dst, <<slot>>, bb)
Store(v, slot, bb) == Op("store", slot, <<v>>, bb)
CallTo(f, dst, args, bb) == [op |-> "call", dst |-> dst, args |-> args, bb |-> bb, callee |-> f]

Block(f, succ) == [fun |-> f, cond |-> NoVar, succ |-> succ]
Branch(f, cond, then, else) == [fun |-> f, cond |-> cond, succ |-> <<then, else>>]
NoArgs == [formals |-> <<>>, ret |-> NoVar]
Main == "main" :> NoArgs

Program(code, blocks, funs, size, home) ==
    [code |-> code, blocks |-> blocks, funs |-> funs, const |-> Const,
     buffers |-> SelectSeq(<<"a", "b">>, LAMBDA v : v \in DOMAIN size), size |-> size, home |-> home,
     pointers |-> MCPointers, leftFirst |-> FALSE,
     domTree |-> DomTree(blocks), loops |-> LoopMap(blocks)]
OneFunction(code, blocks, size) == Program(code, blocks, Main, size, [b \in DOMAIN size |-> "main"])

\* for (i = init; i pred limit; i += step) a[i];  a[i];
Counting(n, init, left, pred, limit, step) ==
    OneFunction(
        <<Store(init, "i", 1),
          Load("l", "i", 2), Op(pred, "c", IF left THEN <<"l", limit>> ELSE <<limit, "l">>, 2),
          Load("l2", "i", 3), Op("elem", "e", <<"a", "l2">>, 3),
          Load("l3", "i", 3), Op("add", "s", <<"l3", step>>, 3), Store("s", "i", 3),
          Load("l4", "i", 4), Op("elem", "e2", <<"a", "l4">>, 4)>>,
        <<Block("main", <<2>>), Branch("main", "c", 3, 4), Block("main", <<2>>),
          Block("main", <<>>)>>,
        "a" :> n)

\* x = input; if (x pred k) { if (x pred2 k2) { x += step; a[x]; } else m = x;  b[x]; }
\* else m = x;  A query that finds nothing out of a slot leaves TOP in the cache.
Guarded(n, pred, k, left, pred2, k2, step) ==
    OneFunction(
        <<Op("input", "i", <<"none">>, 1), Store("i", "x", 1),
          Load("l", "x", 1), Op(pred, "c", IF left THEN <<"l", k>> ELSE <<k, "l">>, 1),
          Load("l2", "x", 2), Op(pred2, "d", <<"l2", k2>>, 2)>>
        \o (IF step = "0" THEN <<>>
            ELSE <<Load("l5", "x", 3), Op("add", "s", <<"l5", step>>, 3), Store("s", "x", 3)>>)
        \o <<Load("l3", "x", 3), Op("elem", "e", <<"a", "l3">>, 3),
             Load("m", "x", 4),
             Load("l4", "x", 5), Op("elem", "e2", <<"b", "l4">>, 5),
             Load("m2", "x", 6), Load("k", "x", 7)>>,
        <<Branch("main", "c", 2, 6), Branch("main", "d", 3, 4), Block("main", <<5>>),
          Block("main", <<5>>), Block("main", <<7>>), Block("main", <<7>>), Block("main", <<>>)>>,
        [v \in {"a", "b"} |-> n])

\* x = input & mask; if (x < 3) { x = x op k; a[x]; } else m = x;  b[x];
Changed(n, mask, op, k) ==
    OneFunction(
        <<Op("input", "i", <<"none">>, 1), Op("and", "m", <<"i", mask>>, 1), Store("m", "x", 1),
          Load("l", "x", 1), Op("LT", "c", <<"l", "3">>, 1),
          Load("l2", "x", 2), Op(op, "s", <<"l2", k>>, 2), Store("s", "x", 2),
          Load("l3", "x", 2), Op("elem", "e", <<"a", "l3">>, 2),
          Load("m2", "x", 3),
          Load("l4", "x", 4), Op("elem", "e2", <<"b", "l4">>, 4)>>,
        <<Branch("main", "c", 2, 3), Block("main", <<4>>), Block("main", <<4>>),
          Block("main", <<>>)>>,
        [v \in {"a", "b"} |-> n])

\* p = a; for (i = 0; i < limit; i++) p = p + step;  *(p + k)
Walking(n, limit, step, k) ==
    OneFunction(
        <<Store("a", "p", 1), Store("0", "i", 1),
          Load("l", "i", 2), Op("LT", "c", <<"l", limit>>, 2),
          Load("q", "p", 3), Op("gep", "g", <<"q", step>>, 3), Store("g", "p", 3),
          Load("l3", "i", 3), Op("add", "s", <<"l3", "1">>, 3), Store("s", "i", 3),
          Load("q2", "p", 4), Op("gep", "h", <<"q2", k>>, 4)>>,
        <<Block("main", <<2>>), Branch("main", "c", 3, 4), Block("main", <<2>>),
          Block("main", <<>>)>>,
        "a" :> n)

\* f(fp, fi) { p = fp; x = fi; q = p + x; return q; }
Callee(bb) ==
    <<Store("fp", "p", bb), Store("fi", "x", bb), Load("w", "p", bb), Load("l", "x", bb),
      Op("gep", "q", <<"w", "l">>, bb)>>

\* i = input; g = f(a, k); h = f(b, k2 or i & 3);  e = g + k3
Calling(n, n2, k, k2, k3) ==
    Program(
        <<Op("input", "i", <<"none">>, 1), Op("and", "m", <<"i", "3">>, 1),
          CallTo("f", "g", <<"a", k>>, 1), CallTo("f", "h", <<"b", k2>>, 1),
          Op("gep", "e", <<"g", k3>>, 1)>> \o Callee(2),
        <<Block("main", <<>>), Block("f", <<>>)>>,
        Main @@ "f" :> [formals |-> <<"fp", "fi">>, ret |-> "q"],
        "a" :> n @@ "b" :> n2, [v \in {"a", "b"} |-> "main"])

\* f(fi) { int a[n]; x = fi; a[x]; }  main: f(k); f(i & mask)
LocalBuffer(n, k, arg) ==
    Program(
        <<Op("input", "i", <<"none">>, 1), Op("and", "m", <<"i", "3">>, 1),
          CallTo("f", "c", <<k>>, 1), CallTo("f", "d", <<arg>>, 1),
          Store("fi", "x", 2), Load("l", "x", 2), Op("elem", "e", <<"a", "l">>, 2)>>,
        <<Block("main", <<>>), Block("f", <<>>)>>,
        Main @@ "f" :> [formals |-> <<"fi">>, ret |-> NoVar],
        "a" :> n, "a" :> "f")

\* f(fp, fi) { p = fp; x = fi; if (x > 0) { q = p + 1; f(q, x - 1) } }  main: f(a + k, k2)
Recursive(n, k, k2) ==
    Program(
        <<Op("gep", "g", <<"a", k>>, 1), CallTo("f", "c", <<"g", k2>>, 1),
          Store("fp", "p", 2), Store("fi", "x", 2), Load("l", "x", 2),
          Op("GT", "d", <<"l", "0">>, 2),
          Load("w", "p", 3), Op("gep", "q", <<"w", "1">>, 3), Load("l2", "x", 3),
          Op("sub", "s", <<"l2", "1">>, 3), CallTo("f", "k", <<"q", "s">>, 3),
          Load("l4", "x", 4)>>,
        <<Block("main", <<>>), Branch("f", "d", 3, 4), Block("f", <<4>>), Block("f", <<>>)>>,
        Main @@ "f" :> [formals |-> <<"fp", "fi">>, ret |-> NoVar],
        "a" :> n, "a" :> "main")

\* x = input; a[x]; if (x pred 0) m = x; if (x pred2 k) m = x; b[x];
Joining(n, n2, pred, pred2, k) ==
    OneFunction(
        <<Op("input", "i", <<"none">>, 1), Store("i", "x", 1),
          Load("l", "x", 1), Op("elem", "e", <<"a", "l">>, 1),
          Load("l2", "x", 1), Op(pred, "c", <<"l2", "0">>, 1), Load("m", "x", 2),
          Load("l3", "x", 3), Op(pred2, "d", <<"l3", k>>, 3), Load("m2", "x", 4),
          Load("l4", "x", 5), Op("elem", "e2", <<"b", "l4">>, 5)>>,
        <<Branch("main", "c", 2, 3), Block("main", <<3>>), Branch("main", "d", 4, 5),
          Block("main", <<5>>), Block("main", <<>>)>>,
        "a" :> n @@ "b" :> n2)

CountingPrograms ==
    {Counting(n, init, left, pred, limit, step) :
        n \in Sizes, init \in {"0", "2"}, left \in BOOLEAN, pred \in Comparisons,
        limit \in {"0", "3", "5"}, step \in {"1", "2", "-1"}}
GuardedPrograms ==
    {Guarded(n, pred, k, left, pred2, k2, step) :
        n \in Sizes, pred \in Comparisons, k \in {"0", "3"}, left \in BOOLEAN,
        pred2 \in Comparisons, k2 \in {"0", "4"}, step \in {"-1", "0", "2"}}
ChangedPrograms ==
    {Changed(n, mask, op, k) :
        n \in Sizes, mask \in {"1", "3", "5"}, op \in {"add", "sub", "mul", "and"},
        k \in {"-1", "1", "2"}}
WalkingPrograms ==
    {Walking(n, limit, step, k) :
        n \in Sizes, limit \in {"0", "2", "3"}, step \in {"-1", "0", "1", "2"}, k \in {"-1", "0", "1"}}
CallingPrograms ==
    {Calling(n, n2, k, k2, k3) :
        n \in Sizes, n2 \in {1, 3}, k \in {"0", "2"}, k2 \in {"1", "4", "i", "m"},
        k3 \in {"-1", "0", "1"}}
    \union {LocalBuffer(n, k, arg) : n \in Sizes, k \in {"0", "3"}, arg \in {"1", "4", "i", "m"}}
    \union {Recursive(n, k, k2) : n \in Sizes, k \in {"0", "1"}, k2 \in {"0", "2", "3", "4"}}

MCPrograms ==
    {[p EXCEPT !.leftFirst = left] :
        left \in BOOLEAN,
        p \in CountingPrograms \union GuardedPrograms \union ChangedPrograms
                 \union WalkingPrograms \union CallingPrograms}

\* Functions with a branch that goes on where its other side joins it.
JoiningPrograms ==
    {Joining(n, n2, pred, pred2, k) :
        n \in {4, 6}, n2 \in Sizes, pred \in Comparisons, pred2 \in Comparisons, k \in {"2", "4"}}
MCInputs == {-1, 0, 2, 3, 5}
=============================================================================
