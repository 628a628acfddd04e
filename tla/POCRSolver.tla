------------------------------- MODULE POCRSolver -------------------------------
(***************************************************************************)
(* Class POCRSolver, derived from CFLSolver: it keeps, beside the graph,   *)
(* the successors and predecessors of every node under every symbol and    *)
(* adds the edges of a whole loop at once (CFL/CFLSolver.h, CFLSolver.cpp; *)
(* used by POCRAlias).  succMap and predMap are written together and stand *)
(* for the same edges.  What it overrides has its name in front.           *)
(***************************************************************************)
EXTENDS CFLSolver

VARIABLES
    data,   \* the edges in succMap and predMap
    keys    \* the nodes that have an entry in succMap

pocrVars == <<vars, data, keys>>

POCRTypeOK ==
    /\ TypeOK
    /\ data \subseteq edges
    /\ keys \subseteq GNodes

\* buildCFLData.
POCRInit ==
    /\ Init
    /\ data = edges
    /\ keys = {e[1] : e \in data}

\* Mutant of POCRAddEdges: the graph gets the edges, the maps do not.
AddEdgesUnmapped(new, read) ==
    /\ keys' = keys \union read \union {e[1] : e \in new}
    /\ edges' = edges \union new
    /\ wl' = wl \union {IF e \in edges THEN NullEdge ELSE e : e \in new \ data}
    /\ UNCHANGED data

\* Mutant of POCRAddEdges: an edge the maps have is pushed again.
POCRAddEdgesAgain(new, read) ==
    /\ data' = data \union new
    /\ keys' = keys \union read \union {e[1] : e \in new}
    /\ edges' = edges \union new
    /\ wl' = wl \union new

(***************************************************************************)
(* addEdge or addEdges into the maps, then addCFLEdge and pushIntoWorklist *)
(* for what was new there; addCFLEdge answers null for an edge the graph   *)
(* already has.  Reading the successors of a node gives it an entry.       *)
(***************************************************************************)
POCRAddEdges(new, read) ==
    LET fresh == new \ data
    IN  /\ data' = data \union new
        /\ keys' = keys \union read \union {e[1] : e \in new}
        /\ edges' = edges \union fresh
        /\ wl' = wl \union {IF e \in edges THEN NullEdge ELSE e : e \in fresh}

-----------------------------------------------------------------------------
\* The epsilon edges are those of the nodes with an entry.
POCRInitialize ==
    /\ pc = "initialize"
    /\ LET new == EpsilonEdges(keys) \ data
       IN  /\ data' = data \union new
           /\ edges' = edges \union new
           /\ wl' = wl \union edges' \union {NullEdge : e \in new \intersect edges}
    /\ pc' = "pop"
    /\ UNCHANGED <<keys, cur, todo>>

\* popFromWorklist and the ends of the loops, which do not touch the maps.
POCRControl == (PopEdge \/ EndSingle \/ EndFirst \/ EndEdge) /\ UNCHANGED <<data, keys>>

POCRApplySingle ==
    /\ pc = "single"
    /\ \E p \in todo :
        /\ POCRAddEdges({BySingle(p, cur)}, {})
        /\ todo' = todo \ {p}
    /\ UNCHANGED <<pc, cur>>

POCRApplyFirst ==
    /\ pc = "first"
    /\ \E p \in todo :
        /\ POCRAddEdges(ByFirst(p, cur, data), {cur[3]})
        /\ todo' = todo \ {p}
    /\ UNCHANGED <<pc, cur>>

\* Mutant of POCRApplySecond: the successors of the edge are read instead of its predecessors.
ApplySecondForward ==
    /\ pc = "second"
    /\ \E p \in todo :
        /\ POCRAddEdges(ByFirst(p, cur, data), {})
        /\ todo' = todo \ {p}
    /\ UNCHANGED <<pc, cur>>

POCRApplySecond ==
    /\ pc = "second"
    /\ \E p \in todo :
        /\ POCRAddEdges(BySecond(p, cur, data), {})
        /\ todo' = todo \ {p}
    /\ UNCHANGED <<pc, cur>>

\* Mutant of POCRUpdateCallGraph: the calls no pointer reaches are connected too.
UpdateCallGraphUnreached ==
    /\ pc = "pop" /\ wl = {}
    /\ edges' = edges \union UNION {CopyEdges(c, edges) : c \in Calls}
    /\ wl' = edges' \ edges
    /\ pc' = IF wl' = {} THEN "done" ELSE "initialize"
    /\ UNCHANGED <<data, keys, cur, todo>>

\* CFLAlias::updateCallGraph: addCopyEdge writes to the graph and the worklist alone.
POCRUpdateCallGraph == UpdateCallGraph /\ UNCHANGED <<data, keys>>

POCRNext ==
    \/ POCRInitialize \/ POCRControl
    \/ POCRApplySingle \/ POCRApplyFirst \/ POCRApplySecond
    \/ POCRUpdateCallGraph

POCRSpec == POCRInit /\ [][POCRNext]_pocrVars

POCRFairSpec == POCRSpec /\ WF_pocrVars(POCRNext)

-----------------------------------------------------------------------------
(* Properties *)

POCRAbs == INSTANCE CFLReachability WITH done <- FALSE

\* Every edge the solver adds is derivable, also when its maps lag behind the graph.
OnlyDerivable == POCRAbs!Spec

\* All that addCopyEdge can have added for the calls the edges of E reach.
Connected(E) == UNION {CopyEdges(c, {}) : c \in Reached(E)}

\* Production p has been applied to y and the edges of E.
PairApplied(p, y, E) == p[2] = y[2] => ByFirst(p, y, E) \subseteq edges

(***************************************************************************)
(* "For each production X -> Y Z, foreach outgoing edge Z(j,k) from node j *)
(* do add X(i,k) if not exist to E and to worklist" (comment in            *)
(* processCFLEdge): whichever of the two edges comes first, the graph is   *)
(* closed under the productions when the solver stops, but for what        *)
(* addCopyEdge added for resolved calls: these edges are not in the maps,  *)
(* so that a production of two symbols may miss one, and no others are     *)
(* missing there.                                                          *)
(***************************************************************************)
ProductionsApplied ==
    pc = "done" =>
        /\ \A y \in edges, p \in SingleProds : p[2] = y[2] => BySingle(p, y) \in edges
        /\ \A y \in data, p \in PairProds : PairApplied(p, y, data)
        /\ edges \ data \subseteq Connected(edges)

(***************************************************************************)
(* The comment taken at its word, of all edges of the graph.  It fails     *)
(* where a production of two symbols reads copy edges, as A -> copybar A.  *)
(***************************************************************************)
GraphClosed == pc = "done" => \A y \in edges, p \in PairProds : PairApplied(p, y, edges)
=============================================================================
