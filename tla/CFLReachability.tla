----------------------------- MODULE CFLReachability -----------------------------
(***************************************************************************)
(* What a CFL-reachability solver promises: it adds an edge X(i,j) only if *)
(* a production derives it from edges of the graph or an indirect call     *)
(* asks for it, and it stops only when nothing more can be derived.        *)
(***************************************************************************)
EXTENDS CFLGraph

VARIABLES
    edges,  \* the edges of the graph
    done    \* the solver has stopped

absVars == <<edges, done>>

\* What the productions of each kind derive from the edges of E.
SingleEdges(E) == UNION {{BySingle(p, y) : p \in {q \in SingleProds : q[2] = y[2]}} : y \in E}

PairEdges(E) == UNION {UNION {ByFirst(p, y, E) : p \in {q \in PairProds : q[2] = y[2]}} : y \in E}

\* Everything that follows from the edges of E in one derivation.
Derivable(E) ==
    ((EpsilonEdges(GNodes) \union SingleEdges(E)) \union PairEdges(E)) \union CallEdges(E)

Init ==
    /\ edges \in Graphs
    /\ done = FALSE

Derive ==
    /\ ~ done
    /\ edges' \in SUBSET AllEdges
    /\ edges \subseteq edges'
    /\ edges' \subseteq edges \union Derivable(edges)
    /\ UNCHANGED done

Finish ==
    /\ ~ done
    /\ Derivable(edges) \subseteq edges
    /\ done' = TRUE
    /\ UNCHANGED edges

Next == Derive \/ Finish

Spec == Init /\ [][Next]_absVars
=============================================================================
