-------------------------------- MODULE CFLSolver --------------------------------
(***************************************************************************)
(* Class CFLSolver, the standard CFL-reachability solver, in the rounds of *)
(* CFLAlias::solve (CFL/CFLSolver.cpp, CFL/CFLAlias.cpp).                  *)
(*                                                                         *)
(* The loop over the edges of one production is one step: it walks the     *)
(* edge set of a node while it adds edges, but the only edge it could add  *)
(* to that very set is the one it stands at.  The worklist is a set: no    *)
(* property rests on the order of its edges.                               *)
(***************************************************************************)
EXTENDS CFLGraph

VARIABLES
    edges,  \* cflEdgeSet and the edge sets of the nodes
    wl,     \* the worklist
    pc,     \* where solve is
    cur,    \* Y_edge of processCFLEdge
    todo    \* productions left in its current loop

vars == <<edges, wl, pc, cur, todo>>

Productions == SingleProds \union PairProds

TypeOK ==
    /\ edges \subseteq AllEdges
    /\ wl \subseteq edges
    /\ pc \in {"initialize", "pop", "single", "first", "second", "done"}
    /\ pc \in {"single", "first", "second"} => cur \in edges
    /\ todo \subseteq Productions

Init ==
    /\ edges \in Graphs
    /\ wl = {}
    /\ pc = "initialize"
    /\ cur = <<>>  \* not read before PopEdge sets it
    /\ todo = {}

\* Mutant of AddEdges: an edge the graph has is pushed again.
AddEdgesAgain(new) ==
    /\ edges' = edges \union new
    /\ wl' = wl \union new

\* addCFLEdge and pushIntoWorklist, for the edges of a loop.
AddEdges(new) ==
    /\ edges' = edges \union new
    /\ wl' = wl \union (new \ edges)

-----------------------------------------------------------------------------
Initialize ==
    /\ pc = "initialize"
    /\ edges' = edges \union EpsilonEdges(GNodes)
    /\ wl' = wl \union edges'
    /\ pc' = "pop"
    /\ UNCHANGED <<cur, todo>>

PopEdge ==
    /\ pc = "pop"
    /\ \E y \in wl :
        /\ wl' = wl \ {y}
        /\ cur' = y
        /\ todo' = {p \in SingleProds : p[2] = y[2]}
    /\ pc' = "single"
    /\ UNCHANGED edges

\* For each production X -> Y.
ApplySingle ==
    /\ pc = "single"
    /\ \E p \in todo :
        /\ AddEdges({BySingle(p, cur)})
        /\ todo' = todo \ {p}
    /\ UNCHANGED <<pc, cur>>

EndSingle ==
    /\ pc = "single" /\ todo = {}
    /\ todo' = {p \in PairProds : p[2] = cur[2]}
    /\ pc' = "first"
    /\ UNCHANGED <<edges, wl, cur>>

\* For each production X -> Y Z.
ApplyFirst ==
    /\ pc = "first"
    /\ \E p \in todo :
        /\ AddEdges(ByFirst(p, cur, edges))
        /\ todo' = todo \ {p}
    /\ UNCHANGED <<pc, cur>>

\* Mutant of EndFirst: the productions X -> Z Y are left to the other edge.
EndFirstOnly ==
    /\ pc = "first" /\ todo = {}
    /\ todo' = {}
    /\ pc' = "second"
    /\ UNCHANGED <<edges, wl, cur>>

EndFirst ==
    /\ pc = "first" /\ todo = {}
    /\ todo' = {p \in PairProds : p[3] = cur[2]}
    /\ pc' = "second"
    /\ UNCHANGED <<edges, wl, cur>>

\* For each production X -> Z Y.
ApplySecond ==
    /\ pc = "second"
    /\ \E p \in todo :
        /\ AddEdges(BySecond(p, cur, edges))
        /\ todo' = todo \ {p}
    /\ UNCHANGED <<pc, cur>>

EndEdge ==
    /\ pc = "second" /\ todo = {}
    /\ pc' = "pop"
    /\ UNCHANGED <<edges, wl, cur, todo>>

(***************************************************************************)
(* CFLAlias::updateCallGraph: the calls the V edges resolve get their copy *)
(* edges; solve runs again, from its initialisation, if any was new.       *)
(***************************************************************************)
UpdateCallGraph ==
    /\ pc = "pop" /\ wl = {}
    /\ edges' = edges \union CallEdges(edges)
    /\ wl' = CallPushes(edges)
    /\ pc' = IF wl' = {} THEN "done" ELSE "initialize"
    /\ UNCHANGED <<cur, todo>>

Next ==
    \/ Initialize \/ PopEdge
    \/ ApplySingle \/ EndSingle \/ ApplyFirst \/ EndFirst \/ ApplySecond \/ EndEdge
    \/ UpdateCallGraph

Spec == Init /\ [][Next]_vars

FairSpec == Spec /\ WF_vars(Next)

-----------------------------------------------------------------------------
(* Properties *)

Abs == INSTANCE CFLReachability WITH done <- pc = "done"

(***************************************************************************)
(* The solver is correct: it adds nothing but derivable edges and stops    *)
(* only when every derivable edge is there, whatever the order in which    *)
(* the two edges of a production come out of the worklist, and however     *)
(* often the call graph restarts it.  (processCFLEdge, solve)              *)
(***************************************************************************)
Implements == Abs!Spec

(***************************************************************************)
(* Why nothing is forgotten: what a production derives from edges of the   *)
(* graph is in the graph, or one of these edges waits in the worklist, or  *)
(* the loop over the production is still due for the edge in hand.         *)
(***************************************************************************)
SingleOwed(p) == pc = "single" /\ p \in todo
FirstOwed(p) == pc = "single" \/ (pc = "first" /\ p \in todo)
SecondOwed(p) == pc \in {"single", "first"} \/ (pc = "second" /\ p \in todo)

EpsilonCovered == pc # "initialize" => EpsilonEdges(GNodes) \subseteq edges

SinglesCovered ==
    \A p \in SingleProds, y \in edges :
        p[2] = y[2] => \/ BySingle(p, y) \in edges
                       \/ y \in wl
                       \/ y = cur /\ SingleOwed(p)

PairsCovered ==
    \A p \in PairProds, y, z \in edges :
        p[2] = y[2] /\ p[3] = z[2] /\ y[3] = z[1] =>
            \/ <<y[1], p[1], z[3]>> \in edges
            \/ y \in wl \/ z \in wl
            \/ y = cur /\ FirstOwed(p)
            \/ z = cur /\ SecondOwed(p)

Covered == pc # "initialize" => SinglesCovered /\ PairsCovered

\* solve stops: no edge is processed twice without being new.
Terminates == <>(pc = "done")
=============================================================================
