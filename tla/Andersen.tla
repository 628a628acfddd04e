------------------------------- MODULE Andersen -------------------------------
(***************************************************************************)
(* Class Andersen, the worklist solver (option -nander): WPASolver's       *)
(* solveWorklist with Andersen::processNode, inside the rounds of          *)
(* AndersenBase::solveConstraints.                                         *)
(***************************************************************************)
EXTENDS AndersenBase

VARIABLES
    pc,       \* where solveConstraints is
    cur,      \* the node processNode was called with
    gepTodo   \* its gep edges still to be processed

vars == <<baseVars, pc, cur, gepTodo>>

Locations == {"worklist", "loadstore", "copy", "gep", "collapse", "connect", "done"}

TypeOK ==
    /\ BaseTypeOK
    /\ pc \in Locations
    /\ cur \in Nodes
    /\ gepTodo \subseteq ngep \union vgep

Init ==
    /\ BaseInit
    /\ pc = "worklist"
    /\ cur = CHOOSE n \in Nodes : TRUE  \* not read before PopNode sets it
    /\ gepTodo = {}

GepOutEdges(n) == {e \in ngep \union vgep : e[1] = n}

-----------------------------------------------------------------------------
\* popFromWorklist and the start of processNode.
PopNode ==
    /\ pc = "worklist"
    /\ \E n \in wl :
        /\ wl' = wl \ {n}
        /\ cur' = rep[n]
        /\ pending' = LoadStoreEdges(rep[n])
    /\ pc' = "loadstore"
    /\ UNCHANGED <<graphVars, pts, propa, diff, fi, reanalyze, callEdges, toCollapse, frames, gepTodo>>

HandleLoadStore ==
    /\ pc = "loadstore"
    /\ AddPendingEdge
    /\ UNCHANGED <<pc, cur, gepTodo>>

\* handleCopyGep: the difference goes along the copy edges, then the gep edges follow.
HandleCopy ==
    /\ pc = "loadstore" /\ pending = {}
    /\ PropagateCopies(cur)
    /\ gepTodo' = IF pts[cur] = propa[cur] THEN {} ELSE GepOutEdges(cur)
    /\ pc' = "gep"
    /\ UNCHANGED <<graphVars, fi, reanalyze, callEdges, workVars, cur>>

HandleGep ==
    /\ pc = "gep"
    /\ \E e \in gepTodo :
        /\ gepTodo' = gepTodo \ {e}
        /\ IF e \in vgep THEN ProcessVariantGep(e) ELSE ProcessNormalGep(e)
    /\ UNCHANGED <<graphVars, propa, diff, reanalyze, callEdges, pending, frames, pc, cur>>

EndNode ==
    /\ pc = "gep" /\ gepTodo = {}
    /\ pc' = "collapse"
    /\ UNCHANGED <<baseVars, cur, gepTodo>>

CollapseFields ==
    /\ pc = "collapse"
    /\ IF frames = <<>> THEN CollapseNext ELSE CollapseStep
    /\ UNCHANGED <<pc, cur, gepTodo>>

EndCollapse ==
    /\ pc = "collapse" /\ toCollapse = {} /\ frames = <<>>
    /\ pc' = "worklist"
    /\ UNCHANGED <<baseVars, cur, gepTodo>>

-----------------------------------------------------------------------------
UpdateCallGraph ==
    /\ pc = "worklist" /\ wl = {}
    /\ ResolveCalls
    /\ pc' = "connect"
    /\ UNCHANGED <<cur, gepTodo>>

ConnectParams ==
    /\ pc = "connect"
    /\ AddPendingEdge
    /\ UNCHANGED <<pc, cur, gepTodo>>

EndRound ==
    /\ pc = "connect" /\ pending = {}
    /\ pc' = IF reanalyze THEN "worklist" ELSE "done"
    /\ reanalyze' = FALSE
    /\ UNCHANGED <<graphVars, pts, propa, diff, fi, wl, callEdges, workVars, cur, gepTodo>>

Next ==
    \/ PopNode \/ HandleLoadStore \/ HandleCopy \/ HandleGep \/ EndNode
    \/ CollapseFields \/ EndCollapse
    \/ UpdateCallGraph \/ ConnectParams \/ EndRound

Spec == Init /\ [][Next]_vars

FairSpec == Spec /\ WF_vars(Next)

-----------------------------------------------------------------------------
(* Properties *)

(***************************************************************************)
(* Difference propagation loses nothing: what a node's propagated set says *)
(* was sent along its copy and gep edges did arrive, also along an edge    *)
(* that was added, moved or merged after the sending.  Only the gep edges  *)
(* still to be processed may owe the current difference.  (computeDiffPts, *)
(* updatePropaPts in addCopyEdge and mergeSrcToTgt)                        *)
(***************************************************************************)
PropagatedReached == CopySent /\ GepSent(gepTodo)

(***************************************************************************)
(* Between two nodes no points-to set holds a field of an object that has  *)
(* lost its fields, wherever the field had been propagated to meanwhile.   *)
(* (collapseField and its use of the reverse points-to sets)               *)
(***************************************************************************)
NoStaleField ==
    pc \in {"worklist", "connect", "done"} =>
        NoFieldOfFI

(***************************************************************************)
(* "src --copy--> dst, union pts(dst) with pts(src)" (comment on           *)
(* processCopy): when the solver stops, every copy edge has been applied   *)
(* to all of its source's pointees.                                        *)
(***************************************************************************)
CopiesApplied ==
    pc = "done" => \A e \in copy : pts[e[1]] \subseteq pts[e[2]]

Abs == INSTANCE InclusionAnalysis WITH sol <- Solution, done <- pc = "done"

\* Every step derives only facts of the analysis, and it stops only when all are derived.
Implements == Abs!Spec

\* solveConstraints stops.
Terminates == <>(pc = "done")
=============================================================================
