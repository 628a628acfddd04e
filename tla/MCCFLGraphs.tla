------------------------------ MODULE MCCFLGraphs ------------------------------
(***************************************************************************)
(* Grammars and graphs the CFL-reachability solvers are checked on.        *)
(***************************************************************************)
EXTENDS CFLGraph

CONSTANTS Nodes, MaxEdges

\* The subsets of S with at most MaxEdges elements.
Few(S) ==
    LET few[k \in Nat] == IF k = 0 THEN {{}} ELSE {x \union {e} : x \in few[k - 1], e \in S}
    IN  few[MaxEdges]

-----------------------------------------------------------------------------
(***************************************************************************)
(* Flow along copies with matched calls and returns: the flows of          *)
(* CFL/grammar/PAGGrammar.txt, its copy -> vgep and copybar -> vgepbar,    *)
(* and the calls of VFGGrammar.txt:                                        *)
(* A -> epsilon | copybar A | call B, B -> A ret                           *)
(***************************************************************************)
FlowSymbols == {"A", "B", "copy", "copybar", "vgep", "vgepbar", "call", "ret"}
FlowSingle == {<<"copy", "vgep">>, <<"copybar", "vgepbar">>}
FlowPair == {<<"A", "copybar", "A">>, <<"A", "call", "B">>, <<"B", "A", "ret">>}

\* The edge of label X from i to j as buildBigraph adds it, with its reverse.
WithBar(i, X, j) ==
    CASE X = "copy" -> {<<i, X, j>>, <<j, "copybar", i>>}
      [] X = "vgep" -> {<<i, X, j>>, <<j, "vgepbar", i>>}
      [] OTHER -> {<<i, X, j>>}

\* Copies and calls to higher nodes, returns to lower ones; a copy back from 3 to
\* 1 closes cycles, and a variable gep from 1 to 3 is what OneCall connects.
FlowEdges ==
    {e \in Nodes \X {"copy", "call"} \X Nodes : e[1] < e[3]}
        \union {e \in Nodes \X {"ret"} \X Nodes : e[1] > e[3]}
        \union {<<3, "copy", 1>>, <<1, "vgep", 3>>}

FlowGraphs == {UNION {WithBar(e[1], e[2], e[3]) : e \in F} : F \in Few(FlowEdges)}

\* Node 1 is a function: the call through 2, if it reaches it, leads 1 on to 3.
FunctionOne == {<<1, 1>>}
OneCall == {[ptr |-> 2, fun |-> 1, src |-> 1, dst |-> 3]}

\* Node 2 is a function: the call of two arguments through 1, if it reaches it,
\* leads 1 on to 2 and 3 on to 1.
FunctionTwo == {<<2, 2>>}
TwoArguments ==
    {[ptr |-> 1, fun |-> 2, src |-> 1, dst |-> 2], [ptr |-> 1, fun |-> 2, src |-> 3, dst |-> 1]}
=============================================================================
