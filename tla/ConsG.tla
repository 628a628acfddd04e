-------------------------------- MODULE ConsG --------------------------------
(***************************************************************************)
(* The constraint graph of the inclusion-based pointer analyses            *)
(* (Graphs/ConsG.h, ConsG.cpp): five kinds of constraint edges between the *)
(* variables and the memory objects of a program, the representative map   *)
(* that merged nodes leave behind, and the positive-weight-cycle flag of a *)
(* node.  Address edges act only at initialisation and stay constants.     *)
(***************************************************************************)
EXTENDS Program

VARIABLES
    prog,   \* the program under analysis
    copy, load, store, ngep, vgep,  \* the edges now in the graph
    rep,    \* nodeToRepMap, total: a node that was never merged maps to itself
    pwc     \* nodes with the positive-weight-cycle flag

graphVars == <<prog, copy, load, store, ngep, vgep, rep, pwc>>

-----------------------------------------------------------------------------
BuildCG ==
    /\ prog \in Programs
    /\ copy = prog.copy
    /\ load = prog.load
    /\ store = prog.store
    /\ ngep = prog.ngep
    /\ vgep = prog.vgep
    /\ rep = [n \in Nodes |-> n]
    /\ pwc = {}

GraphTypeOK ==
    /\ prog \in Statements
    /\ copy \subseteq Nodes \X Nodes
    /\ load \subseteq Nodes \X Nodes
    /\ store \subseteq Nodes \X Nodes
    /\ ngep \subseteq Nodes \X Nodes \X Offsets
    /\ vgep \subseteq Nodes \X Nodes
    /\ rep \in [Nodes -> Nodes]
    /\ pwc \subseteq Nodes

\* Mutant of NewCopyEdge: an edge that is there is taken for a new one.
NewCopyEdgeAgain(s, d) == rep[s] # rep[d]

\* addCopyCGEdge refuses an edge that is there and an edge onto itself.
NewCopyEdge(s, d) == rep[s] # rep[d] /\ <<rep[s], rep[d]>> \notin copy

-----------------------------------------------------------------------------
(***************************************************************************)
(* Moving the edges of a node n that is merged into its representative r   *)
(* (moveInEdgesToRepNode, moveOutEdgesToRepNode).  A direct edge that ends *)
(* up inside the merged node is removed; a gep among them that may shift   *)
(* the address makes r a positive weight cycle.                            *)
(***************************************************************************)
Onto(x, n, r) == IF x = n THEN r ELSE x

Retarget(E, n, r) == {<<Onto(e[1], n, r), Onto(e[2], n, r)>> : e \in E}

RetargetGep(E, n, r) ==
    {<<Onto(e[1], n, r), Onto(e[2], n, r), e[3]>> : e \in E}

Touches(e, n) == e[1] = n \/ e[2] = n

Inside(e, n, r) == Touches(e, n) /\ Onto(e[1], n, r) = Onto(e[2], n, r)

CriticalGepInside(n, r) ==
    \/ \E e \in ngep : Inside(e, n, r) /\ e[3] # 0
    \/ \E e \in vgep : Inside(e, n, r)

(***************************************************************************)
(* hasEdge compares the ends and the kind of an edge, not its offset: a    *)
(* moved gep whose ends already carry a gep is dropped.  Edges that do not *)
(* touch n keep their place; which of several moved ones wins depends on   *)
(* the order of the edge sets.                                             *)
(***************************************************************************)
SameEnds(e, f) == e[1] = f[1] /\ e[2] = f[2]

AddNormalGeps(stay, moved) ==
    {new \in {stay \union m : m \in SUBSET moved} :
        /\ \A e \in moved : \E f \in new : SameEnds(e, f)
        /\ \A e \in new, f \in new \ stay : SameEnds(e, f) => e = f}

MoveEdgesToRepNode(n, r) ==
    /\ copy'  = Retarget({e \in copy : ~ Inside(e, n, r)}, n, r)
    /\ load'  = Retarget(load, n, r)
    /\ store' = Retarget(store, n, r)
    /\ LET stay  == {e \in ngep : ~ Touches(e, n)}
           moved == RetargetGep({e \in ngep : Touches(e, n) /\ ~ Inside(e, n, r)}, n, r)
       IN  ngep' \in AddNormalGeps(stay, moved)
    /\ vgep'  = Retarget({e \in vgep : ~ Inside(e, n, r)}, n, r)
    /\ rep'   = [x \in Nodes |-> Onto(rep[x], n, r)]
    /\ pwc'   = IF CriticalGepInside(n, r) \/ n \in pwc
                  THEN pwc \union {r}
                  ELSE pwc
    /\ UNCHANGED prog

\* The children SCCDetection follows: copy and gep edges.
DirectEdges == copy \union vgep \union {<<e[1], e[2]>> : e \in ngep}
=============================================================================
