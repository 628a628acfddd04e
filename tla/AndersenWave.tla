----------------------------- MODULE AndersenWave -----------------------------
(***************************************************************************)
(* Class AndersenWaveDiff, the default pointer analysis (option -ander):   *)
(* every round detects and merges the cycles of copy and gep edges, sends  *)
(* the differences once along the graph in topological order, and then     *)
(* lets the nodes on the worklist add the copy edges of their loads and    *)
(* stores (AndersenWaveDiff::solveWorklist, postProcessNode).  The class   *)
(* derives from Andersen, whose handlers of gep edges, fields to collapse  *)
(* and resolved calls it inherits.                                         *)
(***************************************************************************)
EXTENDS Andersen

VARIABLES
    stack,     \* nodes left on the stack of the topological order
    reach,     \* reachability along direct edges when the stack was built
    mergeTodo  \* <<sub, rep>> pairs mergeSccCycle has still to merge

sccVars == <<stack, reach, mergeTodo>>
wavePos == <<cur, gepTodo, stack, reach, mergeTodo>>
waveVars == <<baseVars, pc, wavePos>>

\* Where solveWorklist is.
WaveLocations == {"scc", "merge", "wave", "pwc", "gep", "collapse", "post", "edges", "connect", "done"}

WaveTypeOK ==
    /\ BaseTypeOK
    /\ pc \in WaveLocations
    /\ cur \in Nodes
    /\ gepTodo \subseteq ngep \union vgep
    /\ stack \subseteq Nodes
    /\ reach \subseteq Nodes \X Nodes
    /\ mergeTodo \subseteq Nodes \X Nodes

WaveInit ==
    /\ BaseInit
    /\ pc = "scc"
    /\ cur = CHOOSE n \in Nodes : TRUE  \* not read before it is set
    /\ gepTodo = {}
    /\ stack = {}
    /\ reach = {}
    /\ mergeTodo = {}

-----------------------------------------------------------------------------
(* Cycle detection and merging *)

Live == {n \in Nodes : rep[n] = n}  \* the nodes still in the graph

\* The pairs of N with a path of edges of E in N from one to the other: no set that
\* follows the edges holds the first without the second.
Reachable(E, N) ==
    LET Followed == {S \in SUBSET N : \A e \in E : e[1] \in S /\ e[2] \in N => e[2] \in S}
    IN  {p \in N \X N : \A S \in Followed : p[1] \in S => p[2] \in S}

ReachesIn(R, m, n) == m = n \/ <<m, n>> \in R

\* Mutant of SccOf: what the node reaches counts as its component.
SccOfForward(R, n) == {m \in Live : ReachesIn(R, n, m)}

SccOf(R, n) == {m \in Live : ReachesIn(R, m, n) /\ ReachesIn(R, n, m)}

(***************************************************************************)
(* SCCDetect: every strongly connected component gets one of its nodes as  *)
(* representative; which one depends on the order of the nodes.  The stack *)
(* holds the representatives.                                              *)
(***************************************************************************)
DetectSCC ==
    /\ pc = "scc"
    /\ \E R \in {Reachable(DirectEdges, Live)} :
       LET cyclic == {n \in Live : SccOf(R, n) # {n}}
           Sccs == {SccOf(R, n) : n \in cyclic}
       IN  \E reps \in {r \in SUBSET cyclic : \A C \in Sccs : Cardinality(C \intersect r) = 1} :
             /\ reach' = R
             /\ stack' = (Live \ cyclic) \union reps
             /\ mergeTodo' = {x \in (cyclic \ reps) \X reps : x[2] \in SccOf(R, x[1])}
    /\ pc' = "merge"
    /\ UNCHANGED <<baseVars, cur, gepTodo>>

\* mergeSccCycle, one sub-node at a time.
MergeScc ==
    /\ pc = "merge"
    /\ \E x \in mergeTodo :
        /\ MergeNode(pts, x[1], x[2])
        /\ mergeTodo' = mergeTodo \ {x}
    /\ UNCHANGED <<diff, fi, wl, reanalyze, callEdges, workVars, pc, cur, gepTodo, stack, reach>>

EndMerge ==
    /\ pc = "merge" /\ mergeTodo = {}
    /\ pc' = "wave"
    /\ UNCHANGED <<baseVars, wavePos>>

-----------------------------------------------------------------------------
(* The wave: differences along copy and gep edges, in topological order *)

\* The next node of the stack; collapsePWCNode collapses what a PWC node points to.
NextOnStack ==
    /\ pc = "wave"
    /\ \E n \in stack :
        /\ \A m \in stack \ {n} : <<m, n>> \notin reach
        /\ stack' = stack \ {n}
        /\ cur' = n
        /\ frames' = IF rep[n] \in pwc
                       THEN <<[kind |-> "pts", todo |-> pts[rep[n]]]>>
                       ELSE <<>>
    /\ pc' = "pwc"
    /\ UNCHANGED <<graphVars, ptaVars, pending, toCollapse, gepTodo, reach, mergeTodo>>

CollapsePWC ==
    /\ pc = "pwc"
    /\ CollapseStep
    /\ UNCHANGED <<pc, wavePos>>

\* processNode, unless the collapsing has just merged the node away.
WaveHandleCopy ==
    /\ pc = "pwc" /\ frames = <<>> /\ rep[cur] = cur
    /\ PropagateCopies(cur)
    /\ gepTodo' = IF pts[cur] = propa[cur] THEN {} ELSE GepOutEdges(cur)
    /\ pc' = "gep"
    /\ UNCHANGED <<graphVars, fi, reanalyze, callEdges, workVars, cur, stack, reach, mergeTodo>>

SkipMerged ==
    /\ pc = "pwc" /\ frames = <<>> /\ rep[cur] # cur
    /\ pc' = "collapse"
    /\ UNCHANGED <<baseVars, wavePos>>

WaveHandleGep == HandleGep /\ UNCHANGED sccVars

WaveEndNode == EndNode /\ UNCHANGED sccVars

WaveCollapseFields == CollapseFields /\ UNCHANGED sccVars

WaveEndCollapse ==
    /\ pc = "collapse" /\ toCollapse = {} /\ frames = <<>>
    /\ pc' = "wave"
    /\ UNCHANGED <<baseVars, wavePos>>

EndWave ==
    /\ pc = "wave" /\ stack = {}
    /\ pc' = "post"
    /\ UNCHANGED <<baseVars, wavePos>>

-----------------------------------------------------------------------------
(* Loads and stores of the nodes whose points-to set has changed *)

WavePopNode ==
    /\ pc = "post"
    /\ \E n \in wl :
        /\ wl' = wl \ {n}
        /\ cur' = rep[n]
        /\ pending' = LoadStoreEdges(rep[n])
    /\ pc' = "edges"
    /\ UNCHANGED <<graphVars, pts, propa, diff, fi, reanalyze, callEdges, toCollapse, frames,
                   gepTodo, stack, reach, mergeTodo>>

\* postProcessNode: a new copy edge asks for another round, its source is not pushed.
PostProcess ==
    /\ pc = "edges"
    /\ \E e \in pending :
        /\ AddCopyEdge(e[1], e[2])
        /\ pending' = pending \ {e}
        /\ reanalyze' = (reanalyze \/ NewCopyEdge(e[1], e[2]))
    /\ UNCHANGED <<prog, load, store, ngep, vgep, rep, pwc, pts, diff, fi, wl, callEdges,
                   toCollapse, frames, pc, wavePos>>

EndPost ==
    /\ pc = "edges" /\ pending = {}
    /\ pc' = "post"
    /\ UNCHANGED <<baseVars, wavePos>>

-----------------------------------------------------------------------------
WaveUpdateCallGraph ==
    /\ pc = "post" /\ wl = {}
    /\ ResolveCalls
    /\ pc' = "connect"
    /\ UNCHANGED wavePos

WaveConnectParams == ConnectParams /\ UNCHANGED sccVars

WaveEndRound ==
    /\ pc = "connect" /\ pending = {}
    /\ pc' = IF reanalyze THEN "scc" ELSE "done"
    /\ reanalyze' = FALSE
    /\ UNCHANGED <<graphVars, pts, propa, diff, fi, wl, callEdges, workVars, wavePos>>

WaveNext ==
    \/ DetectSCC \/ MergeScc \/ EndMerge
    \/ NextOnStack \/ CollapsePWC \/ WaveHandleCopy \/ SkipMerged \/ WaveHandleGep \/ WaveEndNode
    \/ WaveCollapseFields \/ WaveEndCollapse \/ EndWave
    \/ WavePopNode \/ PostProcess \/ EndPost
    \/ WaveUpdateCallGraph \/ WaveConnectParams \/ WaveEndRound

WaveSpec == WaveInit /\ [][WaveNext]_waveVars

WaveFairSpec == WaveSpec /\ WF_waveVars(WaveNext)

-----------------------------------------------------------------------------
(***************************************************************************)
(* Properties.  Three of the worklist solver's hold of the wave solver as  *)
(* they are stated there: PropagatedReached, also when cycle merging moved *)
(* an edge and cut the propagated set, or a copy edge was added between    *)
(* two waves; CopiesApplied, since the round that follows a collapse       *)
(* visits every node again; and Terminates.                                *)
(***************************************************************************)

(***************************************************************************)
(* Once the wave is over no points-to set holds a field of an object that  *)
(* has lost its fields, whether a gep with a variable offset or a positive *)
(* weight cycle collapsed it.  (collapseField, collapseNodePts)            *)
(***************************************************************************)
WaveNoStaleField ==
    pc \in {"scc", "merge", "post", "edges", "connect", "done"} => NoFieldOfFI

(***************************************************************************)
(* "src --load--> dst, node \in pts(src) ==> node--copy-->dst" and         *)
(* "src --store--> dst, node \in pts(dst) ==> src--copy-->node" (comments  *)
(* on processLoad and processStore): when the solver stops, every pointee  *)
(* has its copy edge, up to merged nodes.                                  *)
(***************************************************************************)
LoadsAndStoresApplied ==
    pc = "done" =>
        \A n \in Live : \A e \in LoadStoreEdges(n) : ~ NewCopyEdge(e[1], e[2])

(***************************************************************************)
(* The wave only ever derives what the rules of the analysis derive: with  *)
(* cycles merged, its answer is within the least solution of the program.  *)
(* Geps are left out: a positive weight cycle collapses objects, which the *)
(* rules do not know.                                                      *)
(***************************************************************************)
NothingInvented ==
    pc = "done" /\ prog.ngep \union prog.vgep = {} => Rules!Below(Solution, Rules!Least)
=============================================================================
