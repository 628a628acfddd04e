-------------------------- MODULE AndersenWave_proofs --------------------------
(***************************************************************************)
(* Theorems about the wave propagation solver, for every program and every *)
(* set of nodes.                                                           *)
(***************************************************************************)
EXTENDS AndersenWave, Andersen_proofs


WaveSentInv == WaveTypeOK /\ GepPhase /\ PropagationInv(gepTodo)

LEMMA WaveInitSent == WaveInit => WaveSentInv
<1> SUFFICES ASSUME WaveInit PROVE WaveSentInv
  OBVIOUS
<1>1. BaseTypeOK /\ PropagationInv({})
  BY BaseInitType, BaseInitInv DEF WaveInit
<1>2. cur \in Nodes
  BY NodesAssumption DEF WaveInit
<1> QED
  BY <1>1, <1>2 DEF WaveInit, WaveSentInv, WaveTypeOK, WaveLocations, GepPhase

-----------------------------------------------------------------------------
(* Types *)

\* The stack holds nodes, and the pairs to be merged are pairs of nodes.
LEMMA DetectSCCType ==
    ASSUME WaveTypeOK, DetectSCC
    PROVE  stack' \subseteq Nodes /\ reach' \subseteq Nodes \X Nodes
           /\ mergeTodo' \subseteq Nodes \X Nodes
<1>1. PICK R \in {Reachable(DirectEdges, Live)} :
        \E reps \in SUBSET {n \in Live : SccOf(R, n) # {n}} :
          /\ reach' = R
          /\ stack' = (Live \ {n \in Live : SccOf(R, n) # {n}}) \union reps
          /\ mergeTodo' =
               {x \in ({n \in Live : SccOf(R, n) # {n}} \ reps) \X reps : x[2] \in SccOf(R, x[1])}
  BY DEF DetectSCC
<1>2. Live \subseteq Nodes
  BY DEF Live
<1>3. R \subseteq Nodes \X Nodes
  BY <1>1, <1>2 DEF Reachable
<1> QED
  BY <1>1, <1>2, <1>3

LEMMA MergeSccType == WaveTypeOK /\ MergeScc => BaseTypeOK'
<1> SUFFICES ASSUME WaveTypeOK, MergeScc PROVE BaseTypeOK'
  OBVIOUS
<1>1. PICK x \in mergeTodo : MergeNode(pts, x[1], x[2])
  BY DEF MergeScc
<1>2. x[1] \in Nodes /\ x[2] \in Nodes
  BY DEF WaveTypeOK
<1>3. PICK p \in [Nodes -> SUBSET Objs] : p = pts
  BY DEF WaveTypeOK, BaseTypeOK
<1>4. /\ GraphTypeOK' /\ prog' = prog
      /\ pts' \in [Nodes -> SUBSET Objs] /\ propa' \in [Nodes -> SUBSET Objs]
  BY <1>1, <1>2, <1>3, MergeNodeType DEF WaveTypeOK, BaseTypeOK
<1> QED
  BY <1>4 DEF WaveTypeOK, BaseTypeOK, MergeScc, workVars

\* Every step of the wave solver keeps the types.
LEMMA WaveNextType == WaveTypeOK /\ GepPhase /\ [WaveNext]_waveVars => WaveTypeOK' /\ GepPhase'
<1> SUFFICES ASSUME WaveTypeOK, GepPhase, [WaveNext]_waveVars PROVE WaveTypeOK' /\ GepPhase'
  OBVIOUS
<1> USE DEF GepPhase
<1>0. BaseTypeOK
  BY DEF WaveTypeOK
<1>1. ASSUME UNCHANGED <<baseVars, gepTodo, reach, mergeTodo>>,
             pc' \in WaveLocations \ {"gep"}, pc = "gep" => gepTodo = {},
             cur' \in Nodes, stack' \subseteq Nodes
      PROVE  WaveTypeOK' /\ GepPhase'
  BY <1>1 DEF WaveTypeOK, BaseTypeOK, GraphTypeOK, baseVars, graphVars, ptaVars, workVars,
              WaveLocations
<1>2. CASE EndMerge \/ SkipMerged \/ WaveEndNode \/ WaveEndCollapse \/ EndWave \/ EndPost
  BY <1>1, <1>2
     DEF EndMerge, SkipMerged, WaveEndNode, EndNode, sccVars, WaveEndCollapse, EndWave, EndPost,
         WaveTypeOK, WaveLocations, wavePos
<1>3. CASE DetectSCC
  <2>1. UNCHANGED <<baseVars, cur, gepTodo>> /\ pc = "scc" /\ pc' = "merge"
    BY <1>3 DEF DetectSCC
  <2>2. BaseTypeOK'
    BY <1>0, <2>1 DEF BaseTypeOK, GraphTypeOK, baseVars, graphVars, ptaVars, workVars
  <2> QED
    BY <1>3, <2>1, <2>2, DetectSCCType
       DEF WaveTypeOK, WaveLocations, baseVars, graphVars
<1>4. CASE MergeScc
  <2>1. BaseTypeOK'
    BY <1>4, MergeSccType
  <2> QED
    BY <1>4, <2>1 DEF WaveTypeOK, MergeScc
<1>5. CASE NextOnStack
  <2>1. PICK n \in stack :
          /\ stack' = stack \ {n} /\ cur' = n
          /\ frames' = IF rep[n] \in pwc THEN <<[kind |-> "pts", todo |-> pts[rep[n]]]>> ELSE <<>>
    BY <1>5 DEF NextOnStack
  <2>2. n \in Nodes /\ rep[n] \in Nodes
    BY DEF WaveTypeOK, BaseTypeOK, GraphTypeOK
  <2>3. [kind |-> "pts", todo |-> pts[rep[n]]] \in Frame
    BY <2>2 DEF WaveTypeOK, BaseTypeOK, Frame, PtsFrame
  <2>4. frames' \in Seq(Frame)
    BY <2>1, <2>3
  <2>5. BaseTypeOK'
    BY <1>5, <2>4
       DEF NextOnStack, WaveTypeOK, BaseTypeOK, GraphTypeOK, graphVars, ptaVars, Frame
  <2> QED
    BY <1>5, <2>1, <2>2, <2>5 DEF NextOnStack, WaveTypeOK, WaveLocations, graphVars
<1>6. CASE CollapsePWC
  <2>1. BaseTypeOK'
    BY <1>6, CollapseStepType DEF WaveTypeOK, CollapsePWC
  <2> QED
    BY <1>6, <2>1 DEF WaveTypeOK, CollapsePWC, wavePos
<1>7. CASE WaveHandleCopy
  <2>1. BaseTypeOK'
    BY <1>7, PropagateCopiesType DEF WaveTypeOK, WaveHandleCopy, GepOutEdges
  <2>2. gepTodo' \subseteq ngep' \union vgep'
    BY <1>7 DEF WaveHandleCopy, GepOutEdges, graphVars
  <2> QED
    BY <1>7, <2>1, <2>2 DEF WaveTypeOK, WaveHandleCopy, GepOutEdges, WaveLocations
<1>8. CASE WaveHandleGep
  <2>1. BaseTypeOK'
    BY <1>8, ProcessGepType DEF WaveTypeOK, WaveHandleGep, HandleGep, sccVars
  <2> QED
    BY <1>8, <2>1 DEF WaveTypeOK, WaveHandleGep, HandleGep, sccVars, graphVars
<1>9. CASE WaveCollapseFields
  <2>1. BaseTypeOK'
    BY <1>9, CollapseNextType, CollapseStepType DEF WaveTypeOK, WaveCollapseFields,
        CollapseFields, sccVars
  <2> QED
    BY <1>9, <2>1 DEF WaveTypeOK, WaveCollapseFields, CollapseFields, sccVars, wavePos
<1>10. CASE WavePopNode
  <2>1. PICK n \in wl : wl' = wl \ {n} /\ cur' = rep[n] /\ pending' = LoadStoreEdges(rep[n])
    BY <1>10 DEF WavePopNode
  <2>2. rep[n] \in Nodes
    BY <1>0 DEF BaseTypeOK, GraphTypeOK
  <2>3. pending' \subseteq Nodes \X Nodes
    BY <1>0, <2>1, <2>2, LoadStoreEdgesType
  <2>4. BaseTypeOK'
    BY <1>0, <1>10, <2>1, <2>3 DEF WavePopNode, BaseTypeOK, GraphTypeOK, graphVars
  <2> QED
    BY <1>10, <2>1, <2>2, <2>4 DEF WavePopNode, WaveTypeOK, WaveLocations, graphVars
<1>11. CASE PostProcess
  <2>1. PICK e \in pending :
          /\ AddCopyEdge(e[1], e[2])
          /\ pending' = pending \ {e}
          /\ reanalyze' = (reanalyze \/ NewCopyEdge(e[1], e[2]))
    BY <1>11 DEF PostProcess
  <2>2. e[1] \in Nodes /\ e[2] \in Nodes
    BY <1>0 DEF BaseTypeOK
  <2>3. copy' \subseteq Nodes \X Nodes /\ propa' \in [Nodes -> SUBSET Objs]
    BY <1>0, <2>1, <2>2, AddCopyEdgeType
  <2>4. reanalyze' \in BOOLEAN
    BY <1>0, <2>1 DEF BaseTypeOK, NewCopyEdge
  <2>5. BaseTypeOK'
    BY <1>0, <1>11, <2>1, <2>3, <2>4 DEF PostProcess, BaseTypeOK, GraphTypeOK
  <2> QED
    BY <1>11, <2>5 DEF PostProcess, WaveTypeOK, wavePos
<1>12. CASE WaveUpdateCallGraph
  <2>1. BaseTypeOK'
    BY <1>12, ResolveCallsType DEF WaveTypeOK, WaveUpdateCallGraph
  <2> QED
    BY <1>12, <2>1 DEF WaveTypeOK, WaveUpdateCallGraph, ResolveCalls, WaveLocations, wavePos,
                       graphVars
<1>13. CASE WaveConnectParams
  BY <1>13, AddPendingEdgeType DEF WaveTypeOK, WaveConnectParams, ConnectParams, sccVars,
                                   AddPendingEdge, wavePos
<1>14. CASE WaveEndRound
  BY <1>14 DEF WaveTypeOK, BaseTypeOK, GraphTypeOK, WaveEndRound, graphVars, workVars, wavePos,
               WaveLocations
<1>15. CASE UNCHANGED waveVars
  BY <1>15 DEF WaveTypeOK, BaseTypeOK, GraphTypeOK, waveVars, baseVars, graphVars, ptaVars,
               workVars, wavePos
<1> QED
  BY <1>2, <1>3, <1>4, <1>5, <1>6, <1>7, <1>8, <1>9, <1>10, <1>11, <1>12, <1>13, <1>14, <1>15
     DEF WaveNext

-----------------------------------------------------------------------------
(* Difference propagation *)

\* Every step of the wave solver keeps the invariant of difference propagation.
LEMMA WaveNextSent == WaveSentInv /\ [WaveNext]_waveVars => WaveSentInv'
<1> SUFFICES ASSUME WaveSentInv, [WaveNext]_waveVars PROVE PropagationInv(gepTodo)'
  BY WaveNextType DEF WaveSentInv
<1>0. BaseTypeOK /\ BaseTypeOK' /\ PropagationInv(gepTodo) /\ GepPhase
  BY WaveNextType DEF WaveSentInv, WaveTypeOK
<1>1. PICK todo : todo = gepTodo'
  OBVIOUS
<1>2. SUFFICES PropagationInv(todo)'
  BY <1>1 DEF PropagationInv, GepSent
<1>3. ASSUME UNCHANGED <<graphVars, pts, propa, diff, fi, frames, gepTodo>>
      PROVE  PropagationInv(todo)'
  BY <1>0, <1>1, <1>3, QuietInv
<1>4. CASE \/ DetectSCC \/ EndMerge \/ SkipMerged \/ WaveEndNode \/ WaveEndCollapse \/ EndWave
           \/ WavePopNode \/ EndPost \/ WaveUpdateCallGraph \/ WaveEndRound \/ UNCHANGED waveVars
  BY <1>3, <1>4
     DEF DetectSCC, EndMerge, SkipMerged, WaveEndNode, EndNode, sccVars, WaveEndCollapse,
         EndWave, WavePopNode, EndPost, WaveUpdateCallGraph, ResolveCalls, WaveEndRound,
         waveVars, baseVars, graphVars, ptaVars, workVars, wavePos
<1>5. CASE MergeScc
  <2>1. PICK x \in mergeTodo : MergeNode(pts, x[1], x[2])
    BY <1>5 DEF MergeScc
  <2>2. x[1] \in Nodes /\ x[2] \in Nodes
    BY DEF WaveSentInv, WaveTypeOK
  <2>3. PICK p \in [Nodes -> SUBSET Objs] : p = pts
    BY <1>0 DEF BaseTypeOK
  <2>4. gepTodo = {} /\ todo = {} /\ UNCHANGED <<fi, frames>>
    BY <1>0, <1>1, <1>5 DEF MergeScc, GepPhase, workVars
  <2>5. SentIsHeld' /\ CopySent' /\ GepSent({})'
    BY <1>0, <2>1, <2>2, <2>3, <2>4, MergeInv DEF PropagationInv
  <2>6. CollapsingFI'
    BY <1>0, <2>4, StackKept DEF PropagationInv
  <2> QED
    BY <2>4, <2>5, <2>6 DEF PropagationInv
<1>6. CASE NextOnStack
  <2>1. PICK n \in stack :
          frames' = IF rep[n] \in pwc THEN <<[kind |-> "pts", todo |-> pts[rep[n]]]>> ELSE <<>>
    BY <1>6 DEF NextOnStack
  <2>2. n \in Nodes /\ rep[n] \in Nodes
    BY DEF WaveSentInv, WaveTypeOK, BaseTypeOK, GraphTypeOK
  <2>3. [kind |-> "pts", todo |-> pts[rep[n]]] \in OkFrame
    BY <1>0, <2>2 DEF BaseTypeOK, OkFrame, PtsFrame
  <2>4. frames' \in Seq(OkFrame)
    BY <2>1, <2>3
  <2>5. UNCHANGED <<propa, diff, copy, ngep, vgep, pts, fi>> /\ gepTodo = {} /\ todo = {}
    BY <1>0, <1>1, <1>6 DEF NextOnStack, graphVars, ptaVars, GepPhase
  <2>6. SentIsHeld' /\ CopySent' /\ GepSent({})'
    BY <1>0, <2>5, GrowthInv DEF PropagationInv
  <2>7. CollapsingFI'
    BY <2>4, <2>5 DEF CollapsingFI, OkFrame, MergingFrame
  <2> QED
    BY <2>5, <2>6, <2>7 DEF PropagationInv
<1>7. CASE CollapsePWC \/ WaveCollapseFields
  <2>1. gepTodo = {} /\ todo = {}
    BY <1>0, <1>1, <1>7 DEF CollapsePWC, WaveCollapseFields, CollapseFields, sccVars, wavePos,
                            GepPhase
  <2> QED
    BY <1>0, <1>7, <2>1, CollapseNextInv, CollapseStepInv DEF CollapsePWC, WaveCollapseFields,
        CollapseFields, sccVars
<1>8. CASE WaveHandleCopy
  <2>1. gepTodo = {} /\ cur \in Nodes
    BY <1>0, <1>8 DEF WaveHandleCopy, GepOutEdges, GepPhase, WaveSentInv, WaveTypeOK
  <2>2. pts[cur] # propa[cur] => {e \in ngep \union vgep : e[1] = cur} \subseteq todo
    BY <1>1, <1>8 DEF WaveHandleCopy, GepOutEdges
  <2> QED
    BY <1>0, <1>8, <2>1, <2>2, PropagateCopiesInv DEF WaveHandleCopy, GepOutEdges
<1>9. CASE WaveHandleGep
  <2>1. PICK e \in gepTodo :
          /\ gepTodo' = gepTodo \ {e}
          /\ IF e \in vgep THEN ProcessVariantGep(e) ELSE ProcessNormalGep(e)
    BY <1>9 DEF WaveHandleGep, HandleGep, sccVars
  <2>2. e \in ngep \union vgep
    BY DEF WaveSentInv, WaveTypeOK
  <2>3. PICK old : old = gepTodo
    OBVIOUS
  <2>4. PropagationInv(old)
    BY <1>0, <2>3
  <2>5. PropagationInv(old \ {e})'
    BY <1>0, <1>9, <2>1, <2>2, <2>4, ProcessGepInv DEF WaveHandleGep, HandleGep, sccVars
  <2> QED
    BY <1>1, <2>1, <2>3, <2>5
<1>10. CASE PostProcess
  <2>1. PICK a \in pending : AddCopyEdge(a[1], a[2])
    BY <1>10 DEF PostProcess
  <2>2. gepTodo = {} /\ todo = {} /\ UNCHANGED <<ngep, vgep, pts, diff, fi, frames>>
    BY <1>0, <1>1, <1>10 DEF PostProcess, GepPhase, wavePos
  <2> QED
    BY <1>0, <2>1, <2>2, AddCopyEdgeInv
<1>11. CASE WaveConnectParams
  <2>1. gepTodo = {} /\ todo = {} /\ AddPendingEdge
    BY <1>0, <1>1, <1>11 DEF WaveConnectParams, ConnectParams, sccVars, GepPhase, wavePos
  <2> QED
    BY <1>0, <2>1, AddPendingEdgeInv
<1> QED
  BY <1>4, <1>5, <1>6, <1>7, <1>8, <1>9, <1>10, <1>11 DEF WaveNext

(***************************************************************************)
(* The state of the wave solver is always of the right types, for any      *)
(* program: cycle merging in particular only merges nodes into nodes.      *)
(***************************************************************************)
THEOREM WaveTypeCorrect == WaveSpec => []WaveTypeOK
<1>1. WaveSentInv => WaveTypeOK
  BY DEF WaveSentInv
<1> QED
  BY WaveInitSent, WaveNextSent, <1>1, PTL DEF WaveSpec

(***************************************************************************)
(* Difference propagation loses nothing across waves, for any program: the *)
(* propagated set that mergeSrcToTgt and addCopyEdge cut down never claims *)
(* more than the other end of a copy or gep edge holds.                    *)
(***************************************************************************)
THEOREM WavePropagationSound == WaveSpec => []PropagatedReached
<1>1. WaveSentInv => PropagatedReached
  BY DEF WaveSentInv, PropagationInv, PropagatedReached
<1> QED
  BY WaveInitSent, WaveNextSent, <1>1, PTL DEF WaveSpec

-----------------------------------------------------------------------------
(* Fields of collapsed objects *)

\* Objects wait to be collapsed, and are collapsed, only while a node is processed.
WaveCollapsePhase ==
    /\ pc \notin {"gep", "collapse"} => toCollapse = {}
    /\ pc \notin {"pwc", "collapse"} => frames = <<>>

WaveStaleInv == FieldInv /\ WaveCollapsePhase /\ (pc = "gep" => DiffDue)

LEMMA WaveInitStale == WaveInit => WaveStaleInv
<1> SUFFICES ASSUME WaveInit PROVE WaveStaleInv
  OBVIOUS
<1>1. FieldInv
  BY BaseInitFields DEF WaveInit
<1> QED
  BY <1>1 DEF WaveInit, BaseInit, WaveStaleInv, WaveCollapsePhase

LEMMA WaveNextStale == WaveSentInv /\ WaveStaleInv /\ [WaveNext]_waveVars => WaveStaleInv'
<1> SUFFICES ASSUME WaveSentInv, WaveStaleInv, [WaveNext]_waveVars PROVE WaveStaleInv'
  OBVIOUS
<1>0. BaseTypeOK /\ CollapsingFI /\ FieldInv /\ WaveCollapsePhase
  BY DEF WaveSentInv, WaveTypeOK, PropagationInv, WaveStaleInv
<1>1. ASSUME UNCHANGED <<pts, fi, toCollapse, frames>> PROVE FieldInv'
  BY <1>0, <1>1, HandOnFields
<1>2. CASE \/ DetectSCC \/ EndMerge \/ EndWave \/ WavePopNode \/ PostProcess \/ EndPost
           \/ WaveUpdateCallGraph \/ WaveConnectParams \/ WaveEndRound
  <2>1. UNCHANGED <<pts, fi, toCollapse, frames>>
        /\ pc \notin {"pwc", "gep", "collapse"} /\ pc' \notin {"pwc", "gep", "collapse"}
    BY <1>2 DEF DetectSCC, EndMerge, EndWave, WavePopNode, PostProcess, EndPost,
                WaveUpdateCallGraph, WaveConnectParams, ConnectParams, sccVars, WaveEndRound,
                AddPendingEdge, ResolveCalls, baseVars, ptaVars, workVars, wavePos
  <2> QED
    BY <1>0, <1>1, <2>1 DEF WaveStaleInv, WaveCollapsePhase
<1>3. CASE MergeScc
  <2>1. PICK x \in mergeTodo : MergeNode(pts, x[1], x[2])
    BY <1>3 DEF MergeScc
  <2>2. x[1] \in Nodes /\ x[2] \in Nodes
    BY DEF WaveSentInv, WaveTypeOK
  <2>3. \A n \in Nodes : \A o \in pts'[n] : \E m \in Nodes : o \in pts[m]
    BY <1>0, <2>1, <2>2 DEF MergeNode, BaseTypeOK
  <2>4. UNCHANGED <<fi, toCollapse, frames, pc>> /\ pc = "merge"
    BY <1>3 DEF MergeScc, workVars
  <2> QED
    BY <1>0, <2>3, <2>4, HandOnFields DEF WaveStaleInv, WaveCollapsePhase
<1>4. CASE NextOnStack
  <2>1. UNCHANGED <<pts, fi, toCollapse>> /\ frames = <<>> /\ pc = "wave" /\ pc' = "pwc"
    BY <1>0, <1>4 DEF NextOnStack, ptaVars, WaveCollapsePhase
  <2>2. \A o : Canon(o)' = Canon(o) /\ (Due(o) => Due(o)')
    BY <2>1 DEF Canon, IsFI, Due, InStack
  <2>3. FieldInv'
    BY <1>0, <2>1, <2>2 DEF FieldInv, StaleDue, WaitingBases
  <2> QED
    BY <1>0, <2>1, <2>3 DEF WaveStaleInv, WaveCollapsePhase
<1>5. CASE WaveHandleCopy
  <2>1. cur \in Nodes /\ PropagateCopies(cur) /\ UNCHANGED <<fi, toCollapse, frames>>
        /\ pc = "pwc" /\ frames = <<>> /\ pc' = "gep"
    BY <1>5 DEF WaveHandleCopy, GepOutEdges, WaveSentInv, WaveTypeOK, workVars
  <2>2. FieldInv' /\ DiffDue'
    BY <1>0, <2>1, PropagateCopiesFields
  <2> QED
    BY <1>0, <2>1, <2>2 DEF WaveStaleInv, WaveCollapsePhase
<1>6. CASE WaveHandleGep
  <2>1. PICK e \in gepTodo :
          IF e \in vgep THEN ProcessVariantGep(e) ELSE ProcessNormalGep(e)
    BY <1>6 DEF WaveHandleGep, HandleGep, sccVars
  <2>2. e \in ngep \union vgep /\ UNCHANGED <<diff, frames, pc>> /\ pc = "gep" /\ DiffDue
    BY <1>6 DEF WaveSentInv, WaveTypeOK, WaveHandleGep, HandleGep, sccVars, WaveStaleInv
  <2>3. FieldInv' /\ DiffDue'
    BY <1>0, <2>1, <2>2, ProcessGepFields
  <2> QED
    BY <1>0, <2>2, <2>3 DEF WaveStaleInv, WaveCollapsePhase
<1>7. CASE SkipMerged \/ WaveEndNode \/ WaveEndCollapse \/ UNCHANGED waveVars
  <2>1. UNCHANGED baseVars
    BY <1>7 DEF SkipMerged, WaveEndNode, EndNode, sccVars, WaveEndCollapse, waveVars
  <2>2. UNCHANGED <<pts, fi, toCollapse, frames, diff>>
    BY <2>1 DEF baseVars, ptaVars, workVars
  <2>3. DiffDue <=> DiffDue'
    BY <2>2 DEF DiffDue, Canon, IsFI, Due, InStack
  <2>4. WaveCollapsePhase' /\ (pc' = "gep" => pc = "gep")
    BY <1>0, <1>7, <2>2 DEF SkipMerged, WaveEndNode, EndNode, sccVars, WaveEndCollapse,
                            waveVars, WaveCollapsePhase
  <2> QED
    BY <1>1, <2>2, <2>3, <2>4 DEF WaveStaleInv
<1>8. CASE CollapsePWC \/ WaveCollapseFields
  <2>1. FieldInv'
    BY <1>0, <1>8, CollapseNextFields, CollapseStepFields DEF CollapsePWC, WaveCollapseFields,
        CollapseFields, sccVars
  <2>2. pc' = pc /\ pc \in {"pwc", "collapse"}
    BY <1>8 DEF CollapsePWC, WaveCollapseFields, CollapseFields, sccVars
  <2>3. pc = "pwc" => toCollapse' = toCollapse
    BY <1>8 DEF CollapsePWC, WaveCollapseFields, CollapseFields, sccVars, CollapseStep,
                CollapseOneField, EndCollapseField, CollapseOnePointee, EndCollapsePts
  <2> QED
    BY <1>0, <2>1, <2>2, <2>3 DEF WaveStaleInv, WaveCollapsePhase
<1> QED
  BY <1>2, <1>3, <1>4, <1>5, <1>6, <1>7, <1>8 DEF WaveNext

(***************************************************************************)
(* Once a wave is over no points-to set holds a field of an object that    *)
(* has lost its fields, for any program, whether a gep with a variable     *)
(* offset or a positive weight cycle collapsed it.                         *)
(***************************************************************************)
THEOREM WaveFieldsReplaced == WaveSpec => []WaveNoStaleField
<1>1. WaveStaleInv => WaveNoStaleField
  BY FieldsSettled DEF WaveStaleInv, WaveCollapsePhase, WaveNoStaleField
<1> QED
  BY WaveInitSent, WaveNextSent, WaveInitStale, WaveNextStale, <1>1, PTL DEF WaveSpec

-----------------------------------------------------------------------------
(* Nothing but what the rules derive *)

\* The programs without geps, of which the least solution is promised.
Gepless == prog.ngep \union prog.vgep = {}

\* Variables that are no pointers; what is loaded into them is not followed.
Lone == NonPtrs \intersect Vars

\* Nothing collapses without geps.
Whole ==
    /\ ngep = {} /\ vgep = {} /\ pwc = {}
    /\ toCollapse = {} /\ frames = <<>>

\* The graph asks no more of its nodes than B gives them.
Allows(B) ==
    /\ \A e \in copy \union pending : B[e[1]] \subseteq B[e[2]]
    /\ \A e \in load : e[2] \notin Lone => \A o \in B[e[1]] \ ConstObjs : B[o] \subseteq B[e[2]]
    /\ \A e \in store : e[1] \notin Lone => \A o \in B[e[2]] \ ConstObjs : B[e[1]] \subseteq B[o]

(***************************************************************************)
(* The wave stays within a solution B of the rules: nodes that are merged, *)
(* or are about to be, have the same pointees in it.                       *)
(***************************************************************************)
Within(B) ==
    /\ \A n \in Nodes : pts[n] \subseteq B[n] /\ B[rep[n]] = B[n]
    /\ \A x \in mergeTodo : B[x[1]] = B[x[2]]
    /\ Allows(B)

\* Nodes that are no pointers are never merged.
LoneApart ==
    /\ \A e \in copy \union pending \union mergeTodo : e[1] \notin Lone /\ e[2] \notin Lone
    /\ \A n \in Nodes \ Lone : rep[n] \notin Lone

SolutionsOf == {B \in Rules!Solutions : Rules!Closed(B)}

WithinInv ==
    /\ prog \in Programs
    /\ Gepless => Whole /\ LoneApart /\ \A B \in SolutionsOf : Within(B)

\* What it means to be a solution.
LEMMA SolutionLemma ==
    ASSUME NEW B \in SolutionsOf
    PROVE  /\ B \in [Nodes -> SUBSET Objs]
           /\ \A n \in Nodes : \A o : Inferred(B, n, o) => o \in B[n]
BY InferLemma DEF SolutionsOf, Rules!Solutions, Rules!Closed, Rules!Below, Nodes, Rules!Nodes

\* A copy that holds in a solution is applied in it.
LEMMA SolutionCopies ==
    ASSUME prog \in Statements, NEW B \in SolutionsOf, NEW e, FlowOf(B, e)
    PROVE  B[e[1]] \subseteq B[e[2]]
<1>1. e \in Rules!Flow(B) /\ e[2] \in Nodes
  BY RulesFlow, FlowType
<1>2. \A o \in B[e[1]] : Inferred(B, e[2], o)
  BY <1>1 DEF Inferred
<1> QED
  BY <1>1, <1>2, SolutionLemma

LEMMA InitWithin == WaveInit => WithinInv
<1> SUFFICES ASSUME WaveInit, Gepless PROVE Whole /\ LoneApart /\ \A B \in SolutionsOf : Within(B)
  BY DEF WithinInv, WaveInit, BaseInit, BuildCG
<1>1. /\ prog \in Programs /\ prog \in Statements
      /\ copy = prog.copy /\ load = prog.load /\ store = prog.store
      /\ ngep = {} /\ vgep = {} /\ pwc = {} /\ rep = [n \in Nodes |-> n]
      /\ pts = AddrPts /\ pending = {} /\ toCollapse = {} /\ frames = <<>> /\ mergeTodo = {}
  BY ProgramsAssumption DEF WaveInit, BaseInit, BuildCG, Gepless
<1>2. Whole
  BY <1>1 DEF Whole
<1>3. LoneApart
  BY <1>1, ProgramsAssumption, StatementsType DEF LoneApart, Lone
<1>4. ASSUME NEW B \in SolutionsOf PROVE Within(B)
  <2>1. \A n \in Nodes : pts[n] \subseteq B[n] /\ B[rep[n]] = B[n]
    <3> SUFFICES ASSUME NEW n \in Nodes, NEW o \in Objs, <<o, n>> \in prog.addr PROVE o \in B[n]
      BY <1>1 DEF AddrPts
    <3>1. Inferred(B, n, o)
      BY DEF Inferred
    <3> QED
      BY <3>1, SolutionLemma
  <2>2. \A e \in copy \union pending : B[e[1]] \subseteq B[e[2]]
    BY <1>1, SolutionCopies DEF FlowOf
  <2>3. ASSUME NEW e \in load, e[2] \notin Lone, NEW o \in B[e[1]] \ ConstObjs
        PROVE  B[o] \subseteq B[e[2]]
    <3>1. o \in Objs \ ConstObjs /\ e[2] \notin NonPtrs
      BY <1>1, <2>3, StatementsType, SolutionLemma, ProgramsAssumption DEF Lone
    <3>2. FlowOf(B, <<o, e[2]>>)
      BY <1>1, <2>3, <3>1 DEF FlowOf
    <3> QED
      BY <1>1, <3>2, SolutionCopies
  <2>4. ASSUME NEW e \in store, e[1] \notin Lone, NEW o \in B[e[2]] \ ConstObjs
        PROVE  B[e[1]] \subseteq B[o]
    <3>1. o \in Objs \ ConstObjs /\ e[1] \notin NonPtrs
      BY <1>1, <2>4, StatementsType, SolutionLemma, ProgramsAssumption DEF Lone
    <3>2. FlowOf(B, <<e[1], o>>)
      BY <1>1, <2>4, <3>1 DEF FlowOf
    <3> QED
      BY <1>1, <3>2, SolutionCopies
  <2> QED
    BY <1>1, <2>1, <2>2, <2>3, <2>4 DEF Within, Allows
<1> QED
  BY <1>2, <1>3, <1>4

\* A node that is reached along direct edges is at the end of one.
LEMMA ReachedLemma ==
    ASSUME NEW m, NEW n, <<m, n>> \in Reachable(DirectEdges, Live)
    PROVE  m \in Live /\ n \in Live /\ (m # n => \E e \in DirectEdges : e[2] = n)
<1>1. /\ m \in Live /\ n \in Live
      /\ \A S \in SUBSET Live :
            (\A e \in DirectEdges : e[1] \in S /\ e[2] \in Live => e[2] \in S) => (m \in S => n \in S)
  BY DEF Reachable
<1>2. ASSUME m # n, \A e \in DirectEdges : e[2] # n PROVE FALSE
  <2>1. PICK S \in SUBSET Live : S = Live \ {n}
    OBVIOUS
  <2>2. \A e \in DirectEdges : e[1] \in S /\ e[2] \in Live => e[2] \in S
    BY <1>2, <2>1
  <2> QED
    BY <1>1, <1>2, <2>1, <2>2
<1> QED
  BY <1>1, <1>2

\* What grows along direct edges grows along paths of them.
LEMMA ReachableLemma ==
    ASSUME NEW m, NEW n, <<m, n>> \in Reachable(DirectEdges, Live),
           NEW B, \A e \in DirectEdges : B[e[1]] \subseteq B[e[2]]
    PROVE  B[m] \subseteq B[n]
<1>1. /\ m \in Live /\ n \in Live
      /\ \A S \in SUBSET Live :
            (\A e \in DirectEdges : e[1] \in S /\ e[2] \in Live => e[2] \in S) => (m \in S => n \in S)
  BY DEF Reachable
<1>2. PICK S \in SUBSET Live : S = {k \in Live : B[m] \subseteq B[k]}
  OBVIOUS
<1>3. \A e \in DirectEdges : e[1] \in S /\ e[2] \in Live => e[2] \in S
  BY <1>2
<1> QED
  BY <1>1, <1>2, <1>3

\* The pairs to be merged are pairs of nodes of a cycle.
LEMMA DetectSCCPairs ==
    ASSUME DetectSCC, NEW x \in mergeTodo'
    PROVE  /\ x[1] # x[2] /\ x[1] \in Live /\ x[2] \in Live
           /\ <<x[1], x[2]>> \in Reachable(DirectEdges, Live)
           /\ <<x[2], x[1]>> \in Reachable(DirectEdges, Live)
<1>1. PICK R : /\ R = Reachable(DirectEdges, Live)
               /\ \E reps \in SUBSET {n \in Live : SccOf(R, n) # {n}} :
                    mergeTodo' = {y \in ({n \in Live : SccOf(R, n) # {n}} \ reps) \X reps :
                                    y[2] \in SccOf(R, y[1])}
  BY DEF DetectSCC
<1>2. x[1] # x[2] /\ <<x[1], x[2]>> \in R /\ <<x[2], x[1]>> \in R
  BY <1>1 DEF SccOf, ReachesIn
<1> QED
  BY <1>1, <1>2, ReachedLemma

\* The nodes of a cycle have the same pointees in every solution; none of them is alone.
LEMMA DetectSCCWithin ==
    ASSUME Whole, DetectSCC, NEW x \in mergeTodo'
    PROVE  /\ \E e, f \in copy : e[2] = x[1] /\ f[2] = x[2]
           /\ \A B : (\A e \in copy : B[e[1]] \subseteq B[e[2]]) => B[x[1]] = B[x[2]]
<1>1. PICK m, n : m = x[1] /\ n = x[2]
  OBVIOUS
<1>2. /\ m # n /\ <<m, n>> \in Reachable(DirectEdges, Live)
      /\ <<n, m>> \in Reachable(DirectEdges, Live)
  BY <1>1, DetectSCCPairs
<1>3. DirectEdges = copy
  BY DEF DirectEdges, Whole
<1>4. (\E e \in copy : e[2] = n) /\ (\E e \in copy : e[2] = m)
  BY <1>2, <1>3, ReachedLemma
<1>5. ASSUME NEW B, \A e \in copy : B[e[1]] \subseteq B[e[2]] PROVE B[m] = B[n]
  <2>1. B[m] \subseteq B[n]
    BY <1>2, <1>3, <1>5, ReachableLemma
  <2>2. B[n] \subseteq B[m]
    BY <1>2, <1>3, <1>5, ReachableLemma
  <2> QED
    BY <2>1, <2>2
<1> QED
  BY <1>1, <1>4, <1>5

LEMMA MergeSccWithin ==
    ASSUME WaveTypeOK, Whole, LoneApart, MergeScc
    PROVE  /\ Whole' /\ LoneApart'
           /\ \A B : Within(B) => Within(B)'
<1>1. PICK x \in mergeTodo : MergeNode(pts, x[1], x[2]) /\ mergeTodo' = mergeTodo \ {x}
  BY DEF MergeScc
<1>2. PICK n, r : n = x[1] /\ r = x[2]
  OBVIOUS
<1>3. /\ n \in Nodes /\ r \in Nodes /\ n \notin Lone /\ r \notin Lone
      /\ UNCHANGED <<pending, toCollapse, frames>>
  BY <1>1, <1>2 DEF WaveTypeOK, LoneApart, MergeScc, workVars
<1>4. /\ copy' = Retarget({e \in copy : ~ Inside(e, n, r)}, n, r)
      /\ load' = Retarget(load, n, r) /\ store' = Retarget(store, n, r)
      /\ vgep' = Retarget({e \in vgep : ~ Inside(e, n, r)}, n, r)
      /\ rep' = [m \in Nodes |-> Onto(rep[m], n, r)]
      /\ pwc' = IF CriticalGepInside(n, r) \/ n \in pwc THEN pwc \union {r} ELSE pwc
      /\ pts' = [pts EXCEPT ![r] = @ \union pts[n]]
  BY <1>1, <1>2 DEF MergeNode, MoveEdgesToRepNode
<1>5. ngep' = {}
  <2>1. {e \in ngep : ~ Touches(e, n)} = {}
        /\ RetargetGep({e \in ngep : Touches(e, n) /\ ~ Inside(e, n, r)}, n, r) = {}
    BY DEF Whole, RetargetGep
  <2> QED
    BY <1>1, <1>2, <2>1 DEF MergeNode, MoveEdgesToRepNode, AddNormalGeps
<1>6. Whole'
  BY <1>3, <1>4, <1>5 DEF Whole, Retarget, CriticalGepInside
<1>7. \A m : m \notin Lone => Onto(m, n, r) \notin Lone
  BY <1>3 DEF Onto
<1>8. /\ \A e \in copy' : \E f \in copy : e = <<Onto(f[1], n, r), Onto(f[2], n, r)>>
      /\ \A e \in load' : \E f \in load : e = <<Onto(f[1], n, r), Onto(f[2], n, r)>>
      /\ \A e \in store' : \E f \in store : e = <<Onto(f[1], n, r), Onto(f[2], n, r)>>
  BY <1>4 DEF Retarget
<1>9. LoneApart'
  <2>1. \A e \in copy' : e[1] \notin Lone /\ e[2] \notin Lone
    BY <1>7, <1>8 DEF LoneApart
  <2>2. \A m \in Nodes \ Lone : rep'[m] \notin Lone
    BY <1>4, <1>7 DEF LoneApart
  <2> QED
    BY <1>1, <1>3, <2>1, <2>2 DEF LoneApart
<1>10. ASSUME NEW B, Within(B) PROVE Within(B)'
  <2>1. B[n] = B[r] /\ \A m : B[Onto(m, n, r)] = B[m]
    BY <1>1, <1>2, <1>10 DEF Within, Onto
  <2>2. \A m \in Nodes : pts'[m] \subseteq B[m] /\ B[rep'[m]] = B[m]
    BY <1>3, <1>4, <1>10, <2>1 DEF Within, WaveTypeOK, BaseTypeOK
  <2>3. \A y \in mergeTodo' : B[y[1]] = B[y[2]]
    BY <1>1, <1>10 DEF Within
  <2>4. \A e \in copy' \union pending' : B[e[1]] \subseteq B[e[2]]
    BY <1>3, <1>8, <1>10, <2>1 DEF Within, Allows
  <2>5. ASSUME NEW e \in load', e[2] \notin Lone, NEW o \in B[e[1]] \ ConstObjs
        PROVE  B[o] \subseteq B[e[2]]
    <3>1. PICK f \in load : e = <<Onto(f[1], n, r), Onto(f[2], n, r)>>
      BY <1>8
    <3>2. f[2] \notin Lone
      BY <1>3, <2>5, <3>1 DEF Onto
    <3> QED
      BY <1>10, <2>1, <2>5, <3>1, <3>2 DEF Within, Allows
  <2>6. ASSUME NEW e \in store', e[1] \notin Lone, NEW o \in B[e[2]] \ ConstObjs
        PROVE  B[e[1]] \subseteq B[o]
    <3>1. PICK f \in store : e = <<Onto(f[1], n, r), Onto(f[2], n, r)>>
      BY <1>8
    <3>2. f[1] \notin Lone
      BY <1>3, <2>6, <3>1 DEF Onto
    <3> QED
      BY <1>10, <2>1, <2>6, <3>1, <3>2 DEF Within, Allows
  <2> QED
    BY <2>2, <2>3, <2>4, <2>5, <2>6 DEF Within, Allows
<1> QED
  BY <1>6, <1>9, <1>10

\* The copies asked for by loads and stores hold in every solution the wave is within.
LEMMA LoadStoreWithin ==
    ASSUME BaseTypeOK, NEW n \in Nodes, NEW e \in LoadStoreEdges(n)
    PROVE  /\ LoneApart => e[1] \notin Lone /\ e[2] \notin Lone
           /\ \A B \in SolutionsOf : Within(B) => B[e[1]] \subseteq B[e[2]]
<1>1. \/ \E o \in pts[n] \ ConstObjs : \E l \in load :
            l[1] = n /\ l[2] \notin NonPtrs /\ e = <<o, l[2]>>
      \/ \E o \in pts[n] \ ConstObjs : \E t \in store :
            t[2] = n /\ t[1] \notin NonPtrs /\ e = <<t[1], o>>
  BY DEF LoadStoreEdges
<1>2. \A o \in pts[n] : o \notin Lone
  BY NodesAssumption DEF BaseTypeOK, Lone
<1>3. e[1] \notin Lone /\ e[2] \notin Lone
  BY <1>1, <1>2 DEF Lone
<1>4. ASSUME NEW B \in SolutionsOf, Within(B) PROVE B[e[1]] \subseteq B[e[2]]
  <2>1. \A o \in pts[n] : o \in B[n]
    BY <1>4 DEF Within
  <2> QED
    BY <1>1, <1>4, <2>1 DEF Within, Allows, Lone
<1> QED
  BY <1>3, <1>4

\* So does a new copy edge between representatives.
LEMMA AddCopyWithin ==
    ASSUME BaseTypeOK, NEW e \in pending, AddCopyEdge(e[1], e[2])
    PROVE  /\ LoneApart => \A f \in copy' : f[1] \notin Lone /\ f[2] \notin Lone
           /\ \A B : Within(B) => \A f \in copy' : B[f[1]] \subseteq B[f[2]]
<1>1. copy' \subseteq copy \union {<<rep[e[1]], rep[e[2]]>>}
  BY DEF AddCopyEdge
<1>2. e[1] \in Nodes /\ e[2] \in Nodes
  BY DEF BaseTypeOK
<1>3. ASSUME LoneApart, NEW f \in copy' PROVE f[1] \notin Lone /\ f[2] \notin Lone
  BY <1>1, <1>2, <1>3 DEF LoneApart
<1>4. ASSUME NEW B, Within(B), NEW f \in copy' PROVE B[f[1]] \subseteq B[f[2]]
  BY <1>1, <1>2, <1>4 DEF Within, Allows
<1> QED
  BY <1>3, <1>4

\* The solutions are those of the program, which stays.
LEMMA SameSolutions == prog' = prog => SolutionsOf' = SolutionsOf /\ Gepless' = Gepless
<1> SUFFICES ASSUME prog' = prog PROVE SolutionsOf' = SolutionsOf
  BY DEF Gepless
<1>1. ASSUME NEW S PROVE Rules!Flow(S)' = Rules!Flow(S)
  BY DEF Rules!Flow
<1>2. ASSUME NEW S PROVE Rules!Infer(S)' = Rules!Infer(S)
  BY <1>1 DEF Rules!Infer
<1> QED
  BY <1>2 DEF SolutionsOf, Rules!Closed, Rules!Below, Rules!Solutions

\* Steps that leave alone what the invariant speaks of.
LEMMA SameWithin ==
    ASSUME Whole, LoneApart, NEW D, \A B \in D : Within(B),
           UNCHANGED <<copy, load, store, ngep, vgep, pwc, rep, pts, toCollapse, frames, mergeTodo>>,
           \A e \in pending' : e[1] \notin Lone /\ e[2] \notin Lone,
           \A B \in D : \A e \in pending' : B[e[1]] \subseteq B[e[2]]
    PROVE  Whole' /\ LoneApart' /\ \A B \in D : Within(B)'
<1>1. Whole' /\ LoneApart'
  BY DEF Whole, LoneApart
<1>2. ASSUME NEW B \in D PROVE Within(B)'
  BY <1>2 DEF Within, Allows
<1> QED
  BY <1>1, <1>2

LEMMA NextWithin == WaveSentInv /\ WithinInv /\ [WaveNext]_waveVars => WithinInv'
<1> SUFFICES ASSUME WaveSentInv, WithinInv, [WaveNext]_waveVars PROVE WithinInv'
  OBVIOUS
<1>0. WaveTypeOK /\ BaseTypeOK
  BY DEF WaveSentInv, WaveTypeOK
<1>1. prog' = prog
  <2>1. ASSUME NEW p, NEW n, NEW r, MergeNode(p, n, r) PROVE prog' = prog
    BY <2>1 DEF MergeNode, MoveEdgesToRepNode
  <2>2. CollapseStep \/ CollapseNext => prog' = prog
    BY <2>1 DEF CollapseStep, CollapseNext, CollapseOneField, EndCollapseField,
                CollapseOnePointee, EndCollapsePts, graphVars
  <2>3. CASE MergeScc
    BY <2>1, <2>3 DEF MergeScc
  <2>4. CASE CollapsePWC \/ WaveCollapseFields
    BY <2>2, <2>4 DEF CollapsePWC, WaveCollapseFields, CollapseFields, sccVars
  <2> QED
    BY <2>3, <2>4 DEF WaveNext, waveVars, DetectSCC, EndMerge, NextOnStack, WaveHandleCopy,
                      GepOutEdges, SkipMerged, WaveHandleGep, HandleGep, sccVars, WaveEndNode,
                      EndNode, WaveEndCollapse, EndWave, WavePopNode, PostProcess, EndPost,
                      WaveUpdateCallGraph, ResolveCalls, WaveConnectParams, ConnectParams,
                      AddPendingEdge, WaveEndRound, baseVars, graphVars
<1> SUFFICES ASSUME Gepless PROVE Whole' /\ LoneApart' /\ \A B \in SolutionsOf : Within(B)'
  BY <1>1, SameSolutions DEF WithinInv
<1>2. Whole /\ LoneApart /\ prog \in Programs /\ \A B \in SolutionsOf : Within(B)
  BY DEF WithinInv
<1>3. CASE \/ EndMerge \/ SkipMerged \/ WaveEndNode \/ WaveEndCollapse \/ EndWave \/ EndPost
           \/ WaveEndRound
           \/ NextOnStack \/ UNCHANGED waveVars
  <2>1. UNCHANGED <<copy, load, store, ngep, vgep, pwc, rep, pts, toCollapse, frames, mergeTodo, pending>>
    BY <1>2, <1>3 DEF EndMerge, SkipMerged, WaveEndNode, EndNode, sccVars, WaveEndCollapse,
                      EndWave, EndPost, WaveEndRound, NextOnStack, waveVars, baseVars,
                      graphVars, ptaVars, workVars, wavePos, Whole
  <2> QED
    BY <1>2, <2>1, SameWithin DEF LoneApart, Within, Allows
<1>4. CASE DetectSCC
  <2>1. UNCHANGED <<copy, load, store, ngep, vgep, pwc, rep, pts, toCollapse, frames, pending>>
    BY <1>4 DEF DetectSCC, baseVars, graphVars, ptaVars, workVars
  <2>2. Whole' /\ LoneApart'
    BY <1>0, <1>2, <1>4, <2>1, DetectSCCWithin DEF Whole, LoneApart
  <2>3. ASSUME NEW B \in SolutionsOf PROVE Within(B)'
    <3>1. Within(B)
      BY <1>2
    <3>2. \A e \in copy : B[e[1]] \subseteq B[e[2]]
      BY <3>1 DEF Within, Allows
    <3>3. \A x \in mergeTodo' : B[x[1]] = B[x[2]]
      BY <1>0, <1>2, <1>4, <3>2, DetectSCCWithin
    <3> QED
      BY <2>1, <3>1, <3>3 DEF Within, Allows
  <2> QED
    BY <2>2, <2>3
<1>5. CASE MergeScc
  BY <1>0, <1>2, <1>5, MergeSccWithin
<1>6. CASE CollapsePWC \/ WaveCollapseFields
  <2>1. frames # <<>> \/ CollapseNext
    BY <1>6 DEF CollapsePWC, WaveCollapseFields, CollapseFields, sccVars, CollapseStep,
                CollapseOneField, EndCollapseField, CollapseOnePointee, EndCollapsePts
  <2> QED
    BY <1>2, <2>1 DEF Whole, CollapseNext
<1>7. CASE WaveHandleGep
  <2>1. PICK e \in gepTodo : TRUE
    BY <1>7 DEF WaveHandleGep, HandleGep, sccVars
  <2> QED
    BY <1>0, <1>2, <2>1 DEF WaveTypeOK, Whole
<1>8. CASE WaveHandleCopy
  <2>1. UNCHANGED <<copy, load, store, ngep, vgep, pwc, rep, toCollapse, frames, mergeTodo, pending>>
        /\ PropagateCopies(cur)
    BY <1>8 DEF WaveHandleCopy, GepOutEdges, graphVars, workVars
  <2>2. Whole' /\ LoneApart'
    BY <1>2, <2>1 DEF Whole, LoneApart
  <2>3. ASSUME NEW B \in SolutionsOf PROVE Within(B)'
    <3>1. Within(B) /\ cur \in Nodes
      BY <1>0, <1>2 DEF WaveTypeOK
    <3>2. \A d \in Nodes :
            pts'[d] = IF <<cur, d>> \in copy THEN pts[d] \union (pts[cur] \ propa[cur]) ELSE pts[d]
      BY <2>1 DEF PropagateCopies
    <3>3. \A d \in Nodes : <<cur, d>> \in copy => B[cur] \subseteq B[d]
      BY <3>1 DEF Within, Allows
    <3>4. \A d \in Nodes : pts'[d] \subseteq B[d]
      BY <3>1, <3>2, <3>3 DEF Within
    <3> QED
      BY <2>1, <3>1, <3>4 DEF Within, Allows
  <2> QED
    BY <2>2, <2>3
<1>9. CASE WavePopNode
  <2>1. PICK n \in wl : pending' = LoadStoreEdges(rep[n])
    BY <1>9 DEF WavePopNode
  <2>2. rep[n] \in Nodes
    BY <1>0 DEF BaseTypeOK, GraphTypeOK
  <2>3. UNCHANGED <<copy, load, store, ngep, vgep, pwc, rep, pts, toCollapse, frames, mergeTodo>>
    BY <1>9 DEF WavePopNode, graphVars
  <2>4. \A e \in pending' : /\ e[1] \notin Lone /\ e[2] \notin Lone
                            /\ \A B \in SolutionsOf : B[e[1]] \subseteq B[e[2]]
    BY <1>0, <1>2, <2>1, <2>2, LoadStoreWithin
  <2> QED
    BY <1>2, <2>3, <2>4, SameWithin
<1>10. CASE PostProcess \/ WaveConnectParams
  <2>1. PICK e \in pending : AddCopyEdge(e[1], e[2]) /\ pending' = pending \ {e}
    BY <1>10 DEF PostProcess, WaveConnectParams, ConnectParams, sccVars, AddPendingEdge
  <2>2. UNCHANGED <<load, store, ngep, vgep, pwc, rep, pts, toCollapse, frames, mergeTodo>>
    BY <1>10 DEF PostProcess, WaveConnectParams, ConnectParams, sccVars, AddPendingEdge, wavePos
  <2>3. Whole' /\ LoneApart'
    BY <1>0, <1>2, <2>1, <2>2, AddCopyWithin DEF Whole, LoneApart
  <2>4. ASSUME NEW B \in SolutionsOf PROVE Within(B)'
    <3>1. Within(B)
      BY <1>2
    <3>2. \A f \in copy' : B[f[1]] \subseteq B[f[2]]
      BY <1>0, <2>1, <3>1, AddCopyWithin
    <3> QED
      BY <2>1, <2>2, <3>1, <3>2 DEF Within, Allows
  <2> QED
    BY <2>3, <2>4
<1>11. CASE WaveUpdateCallGraph
  <2>1. UNCHANGED <<copy, load, store, ngep, vgep, pwc, rep, pts, toCollapse, frames, mergeTodo>>
    BY <1>11 DEF WaveUpdateCallGraph, ResolveCalls, graphVars, wavePos
  <2>2. \A e \in pending' : \E c \in prog.calls : c.callee \in pts[rep[c.fptr]] /\ e \in c.params
    BY <1>11 DEF WaveUpdateCallGraph, ResolveCalls, Resolvable
  <2>3. \A e \in pending' : e[1] \notin Lone /\ e[2] \notin Lone
    BY <1>2, <2>2, ProgramsAssumption DEF Lone
  <2>4. ASSUME NEW B \in SolutionsOf, NEW e \in pending' PROVE B[e[1]] \subseteq B[e[2]]
    <3>1. PICK c \in prog.calls : c.callee \in pts[rep[c.fptr]] /\ e \in c.params
      BY <2>2
    <3>2. prog \in Statements /\ c.fptr \in Nodes /\ rep[c.fptr] \in Nodes
      BY <1>0, StatementsType DEF BaseTypeOK, GraphTypeOK
    <3>3. c.callee \in B[c.fptr]
      BY <1>2, <3>1, <3>2 DEF Within
    <3>4. FlowOf(B, e)
      BY <3>1, <3>3 DEF FlowOf
    <3> QED
      BY <3>2, <3>4, SolutionCopies
  <2> QED
    BY <1>2, <2>1, <2>3, <2>4, SameWithin
<1> QED
  BY <1>3, <1>4, <1>5, <1>6, <1>7, <1>8, <1>9, <1>10, <1>11 DEF WaveNext

(***************************************************************************)
(* The wave derives nothing but what the rules derive: for every program   *)
(* without geps, what it answers is within the least solution, whatever    *)
(* cycles it has merged on the way.                                        *)
(***************************************************************************)
THEOREM NothingBeyond == WaveSpec => []NothingInvented
<1>1. WaveSentInv /\ WithinInv => NothingInvented
  <2> SUFFICES ASSUME WaveSentInv, WithinInv, Gepless PROVE Rules!Below(Solution, Rules!Least)
    BY DEF NothingInvented, Gepless
  <2>1. BaseTypeOK /\ prog \in Statements
    BY DEF WaveSentInv, WaveTypeOK, BaseTypeOK, GraphTypeOK
  <2>2. Rules!Least \in SolutionsOf
    BY <2>1, LeastLemma DEF SolutionsOf
  <2>3. PICK B : B = Rules!Least
    OBVIOUS
  <2>4. Within(B)
    BY <2>2, <2>3 DEF WithinInv
  <2>5. \A n \in Nodes : pts[rep[n]] \subseteq B[rep[n]] /\ B[rep[n]] = B[n]
    BY <2>1, <2>4 DEF Within, BaseTypeOK, GraphTypeOK
  <2> QED
    BY <2>3, <2>5 DEF Solution, Rules!Below, Nodes, Rules!Nodes
<1> QED
  BY WaveInitSent, WaveNextSent, InitWithin, NextWithin, <1>1, PTL DEF WaveSpec

-----------------------------------------------------------------------------
(* What is left of merged nodes *)

Ends(e) == {e[1], e[2]}

\* Representatives are in the graph, and edges join two nodes that are.
RepInv == \A n \in Nodes : rep[n] \in Live

EdgeInv == \A e \in copy \union vgep \union ngep : Ends(e) \subseteq Live /\ e[1] # e[2]

\* Nothing has happened to o yet.
Fresh(o) ==
    /\ pts[o] = {}
    /\ \A m \in Nodes : rep[m] = o <=> m = o
    /\ \A e \in copy \union vgep \union ngep \union load \union store \union pending \union mergeTodo :
          o \notin Ends(e)

(***************************************************************************)
(* A field that no node points to is either untouched, or was merged into  *)
(* its base when the last points-to set lost it.                           *)
(***************************************************************************)
FreshInv ==
    \A o \in Objs : \/ \E n \in Nodes : o \in pts[n]
                    \/ rep[o] = rep[BaseOf[o]]
                    \/ Fresh(o)

GraphInv == RepInv /\ EdgeInv /\ FreshInv

LEMMA InitGraph == WaveInit => GraphInv
<1> SUFFICES ASSUME WaveInit PROVE GraphInv
  OBVIOUS
<1>1. /\ prog \in Programs /\ prog \in Statements
      /\ copy = prog.copy /\ load = prog.load /\ store = prog.store
      /\ ngep = prog.ngep /\ vgep = prog.vgep /\ rep = [n \in Nodes |-> n]
      /\ pts = AddrPts /\ pending = {} /\ mergeTodo = {}
  BY ProgramsAssumption DEF WaveInit, BaseInit, BuildCG
<1>2. \A n \in Nodes : n \in Live
  BY <1>1 DEF Live
<1>3. \A e \in copy \union vgep \union ngep \union load \union store : e[1] \in Vars /\ e[2] \in Vars
  BY <1>1, ProgramsAssumption
<1>4. \A e \in copy \union vgep \union ngep : e[1] # e[2]
  BY <1>1, ProgramsAssumption
<1>5. ASSUME NEW o \in Objs PROVE Fresh(o)
  <2>1. o \notin Vars /\ o \in Nodes
    BY NodesAssumption DEF Nodes
  <2>2. pts[o] = {}
    BY <1>1, <2>1 DEF AddrPts, Statements
  <2> QED
    BY <1>1, <1>3, <2>1, <2>2 DEF Fresh, Ends
<1>6. RepInv
  BY <1>1, <1>2 DEF RepInv
<1>7. EdgeInv
  BY <1>2, <1>3, <1>4 DEF EdgeInv, Ends, Nodes
<1> QED
  BY <1>5, <1>6, <1>7 DEF GraphInv, FreshInv

\* Merging n into r takes n out of the graph and leaves no edge onto itself.
LEMMA MergeLive ==
    ASSUME BaseTypeOK, RepInv, EdgeInv, NEW p, NEW n \in Nodes, NEW r \in Live, n # r,
           MergeNode(p, n, r)
    PROVE  RepInv' /\ EdgeInv' /\ Live' = Live \ {n}
<1>1. /\ rep' = [m \in Nodes |-> Onto(rep[m], n, r)] /\ MoveEdgesToRepNode(n, r)
      /\ rep \in [Nodes -> Nodes] /\ r \in Nodes /\ rep[r] = r
  BY DEF MergeNode, MoveEdgesToRepNode, BaseTypeOK, GraphTypeOK, Live
<1>2. Live' = Live \ {n}
  <2>1. ASSUME NEW m \in Nodes PROVE rep'[m] = m <=> rep[m] = m /\ m # n
    BY <1>1 DEF Onto, RepInv, Live
  <2> QED
    BY <2>1 DEF Live
<1>3. \A m \in Live : Onto(m, n, r) \in Live'
  BY <1>2 DEF Onto
<1>4. RepInv'
  BY <1>1, <1>3 DEF RepInv
<1>5. ASSUME NEW e \in copy' \union vgep' \union ngep' PROVE Ends(e) \subseteq Live' /\ e[1] # e[2]
  <2>1. PICK f \in copy \union vgep \union ngep :
          ~ Inside(f, n, r) /\ e[1] = Onto(f[1], n, r) /\ e[2] = Onto(f[2], n, r)
    BY <1>1, <1>5, MovedEdges
  <2>2. f[1] \in Live /\ f[2] \in Live /\ f[1] # f[2]
    BY DEF EdgeInv, Ends
  <2>3. e[1] # e[2]
    BY <2>1, <2>2 DEF Inside, Touches, Onto
  <2> QED
    BY <1>3, <2>1, <2>2, <2>3 DEF Ends
<1> QED
  BY <1>2, <1>4, <1>5 DEF EdgeInv

\* A node that is untouched stays so when two others are merged.
LEMMA MergeFresh ==
    ASSUME BaseTypeOK, NEW p \in [Nodes -> SUBSET Objs], NEW n \in Nodes, NEW r \in Nodes,
           MergeNode(p, n, r), NEW o \in Nodes, Fresh(o), p[o] = {}, o # n, o # r,
           pending' = pending, mergeTodo' \subseteq mergeTodo
    PROVE  Fresh(o)'
<1>1. /\ MoveEdgesToRepNode(n, r) /\ rep' = [m \in Nodes |-> Onto(rep[m], n, r)]
      /\ load' = Retarget(load, n, r) /\ store' = Retarget(store, n, r)
      /\ pts' = [p EXCEPT ![r] = @ \union p[n]]
  BY DEF MergeNode, MoveEdgesToRepNode
<1>2. \A m : Onto(m, n, r) = o <=> m = o
  BY DEF Onto
<1>3. pts'[o] = {}
  BY <1>1
<1>4. \A m \in Nodes : rep'[m] = o <=> m = o
  BY <1>1, <1>2 DEF Fresh
<1>5. ASSUME NEW e \in copy' \union vgep' \union ngep' \union load' \union store' PROVE o \notin Ends(e)
  <2>1. PICK f \in copy \union vgep \union ngep \union load \union store :
          e[1] = Onto(f[1], n, r) /\ e[2] = Onto(f[2], n, r)
    <3>1. CASE e \in copy' \union vgep' \union ngep'
      BY <1>1, <3>1, MovedEdges
    <3>2. CASE e \in load' \union store'
      BY <1>1, <3>2 DEF Retarget
    <3> QED
      BY <1>5, <3>1, <3>2
  <2>2. o # f[1] /\ o # f[2]
    BY DEF Fresh, Ends
  <2> QED
    BY <1>2, <2>1, <2>2 DEF Ends
<1> QED
  BY <1>3, <1>4, <1>5 DEF Fresh

\* What collapseField does with one field.
LEMMA FieldStep ==
    ASSUME BaseTypeOK, CollapsingFI, CollapseOneField
    PROVE  \E f \in Objs, b \in Objs, p \in [Nodes -> SUBSET Objs] :
              /\ BaseOf[f] = b /\ BaseOf[b] = b
              /\ p = [x \in Nodes |-> Rebase(pts[x], f, b)]
              /\ reanalyze' = (reanalyze \/ {x \in Nodes : f \in pts[x]} # {})
              /\ IF rep[f] = rep[b]
                   THEN pts' = p /\ UNCHANGED graphVars
                   ELSE MergeNode(p, rep[f], rep[b])
<1>1. frames \in Seq(OkFrame) /\ frames # <<>> /\ Top.kind = "fields"
  BY DEF CollapsingFI, OkFrame, CollapseOneField
<1>2. Top \in MergingFrame
  BY <1>1, StackLemma DEF OkFrame, PtsFrame
<1>3. PICK f \in Top.todo :
        /\ reanalyze' = (reanalyze \/ {x \in Nodes : f \in pts[x]} # {})
        /\ IF rep[f] = rep[Top.base]
             THEN pts' = [x \in Nodes |-> Rebase(pts[x], f, Top.base)] /\ UNCHANGED graphVars
             ELSE MergeNode([x \in Nodes |-> Rebase(pts[x], f, Top.base)], rep[f], rep[Top.base])
  BY DEF CollapseOneField
<1>4. PICK b : b = Top.base
  OBVIOUS
<1>5. f \in Objs /\ b \in Objs /\ BaseOf[f] = b /\ BaseOf[b] = b
  BY <1>2, <1>4 DEF MergingFrame, FieldsFrame
<1>6. PICK p : p = [x \in Nodes |-> Rebase(pts[x], f, b)]
  OBVIOUS
<1>7. p \in [Nodes -> SUBSET Objs]
  BY <1>5, <1>6 DEF Rebase, BaseTypeOK
<1> QED
  BY <1>3, <1>4, <1>5, <1>6, <1>7

LEMMA CollapseOneFieldGraph ==
    ASSUME BaseTypeOK, CollapsingFI, GraphInv, CollapseOneField, UNCHANGED <<pending, mergeTodo>>
    PROVE  GraphInv' /\ Live' \subseteq Live
<1>1. PICK f \in Objs, b \in Objs, p \in [Nodes -> SUBSET Objs] :
        /\ BaseOf[f] = b /\ BaseOf[b] = b
        /\ p = [x \in Nodes |-> Rebase(pts[x], f, b)]
        /\ IF rep[f] = rep[b]
             THEN pts' = p /\ UNCHANGED graphVars
             ELSE MergeNode(p, rep[f], rep[b])
  BY FieldStep
<1>2. /\ f \in Nodes /\ b \in Nodes /\ rep \in [Nodes -> Nodes]
      /\ rep[f] \in Live /\ rep[b] \in Live /\ rep[f] \in Nodes /\ rep[b] \in Nodes
      /\ \A m \in Live : rep[m] = m
  BY DEF GraphInv, RepInv, Live, Nodes, BaseTypeOK, GraphTypeOK
<1>3. \A x \in Nodes : \A o \in pts[x] : o # f => o \in p[x]
  BY <1>1 DEF Rebase
<1>4. \A x \in Nodes : pts[x] = {} => p[x] = {}
  BY <1>1 DEF Rebase
<1>5. CASE rep[f] = rep[b]
  <2>1. UNCHANGED <<copy, vgep, ngep, load, store, rep>> /\ pts' = p
    BY <1>1, <1>5 DEF graphVars
  <2>2. Live' = Live /\ RepInv' /\ EdgeInv'
    BY <2>1 DEF Live, RepInv, EdgeInv, GraphInv
  <2>3. \A o \in Objs : Fresh(o) => Fresh(o)'
    BY <1>4, <2>1 DEF Fresh, Nodes
  <2>4. FreshInv'
    BY <1>1, <1>3, <1>5, <2>1, <2>3 DEF FreshInv, GraphInv
  <2> QED
    BY <2>2, <2>4 DEF GraphInv
<1>6. CASE rep[f] # rep[b]
  <2>1. MergeNode(p, rep[f], rep[b])
    BY <1>1, <1>6
  <2>2. RepInv' /\ EdgeInv' /\ Live' = Live \ {rep[f]}
    BY <1>2, <1>6, <2>1, MergeLive DEF GraphInv
  <2>3. /\ rep' = [m \in Nodes |-> Onto(rep[m], rep[f], rep[b])]
        /\ pts' = [p EXCEPT ![rep[b]] = @ \union p[rep[f]]]
    BY <2>1 DEF MergeNode, MoveEdgesToRepNode
  <2>4. \A x \in Nodes : p[x] \subseteq pts'[x]
    BY <1>2, <2>3
  <2>5. \A m, n \in Nodes : rep[m] = rep[n] => rep'[m] = rep'[n]
    BY <2>3
  <2>6. rep'[f] = rep'[b]
    BY <1>2, <2>3 DEF Onto
  <2>7. ASSUME NEW o \in Objs
        PROVE  (\E n \in Nodes : o \in pts'[n]) \/ rep'[o] = rep'[BaseOf[o]] \/ Fresh(o)'
    <3>1. o \in Nodes /\ BaseOf[o] \in Nodes
      BY ObjectsAssumption DEF Nodes
    <3>2. CASE o = f
      BY <1>1, <2>6, <3>2
    <3>3. CASE o # f /\ \E n \in Nodes : o \in pts[n]
      BY <1>3, <2>4, <3>3
    <3>4. CASE rep[o] = rep[BaseOf[o]]
      BY <2>5, <3>1, <3>4
    <3>5. CASE o # f /\ Fresh(o)
      <4>1. o # rep[f] /\ p[o] = {}
        BY <1>2, <1>4, <3>1, <3>5 DEF Fresh
      <4>2. CASE o = rep[b]
        <5>1. o = b
          BY <1>2, <3>5, <4>2 DEF Fresh
        <5> QED
          BY <1>1, <5>1
      <4>3. CASE o # rep[b]
        BY <1>2, <2>1, <3>1, <3>5, <4>1, <4>3, MergeFresh
      <4> QED
        BY <4>2, <4>3
    <3> QED
      BY <3>2, <3>3, <3>4, <3>5 DEF GraphInv, FreshInv
  <2> QED
    BY <2>2, <2>7 DEF GraphInv, FreshInv
<1> QED
  BY <1>5, <1>6

\* A field that no node points to is merged without consequences.
LEMMA UnseenField ==
    ASSUME BaseTypeOK, CollapsingFI, GraphInv, CollapseOneField, ~ reanalyze'
    PROVE  UNCHANGED <<pts, copy, vgep, ngep>>
<1>1. PICK f \in Objs, b \in Objs, p \in [Nodes -> SUBSET Objs] :
        /\ BaseOf[f] = b
        /\ p = [x \in Nodes |-> Rebase(pts[x], f, b)]
        /\ {x \in Nodes : f \in pts[x]} = {}
        /\ IF rep[f] = rep[b]
             THEN pts' = p /\ UNCHANGED graphVars
             ELSE MergeNode(p, rep[f], rep[b])
  BY FieldStep
<1>2. \A x \in Nodes : f \notin pts[x]
  BY <1>1
<1>3. p = pts
  <2>1. pts \in [Nodes -> SUBSET Objs]
    BY DEF BaseTypeOK
  <2>2. \A x \in Nodes : Rebase(pts[x], f, b) = pts[x]
    BY <1>2 DEF Rebase
  <2> QED
    BY <1>1, <2>1, <2>2
<1>4. CASE rep[f] = rep[b]
  BY <1>1, <1>3, <1>4 DEF graphVars
<1>5. CASE rep[f] # rep[b]
  <2>1. Fresh(f) /\ rep[f] = f /\ f \in Nodes /\ rep[b] \in Nodes
    BY <1>1, <1>2, <1>5 DEF GraphInv, FreshInv, Fresh, Nodes, BaseTypeOK, GraphTypeOK
  <2>2. PICK r : r = rep[b]
    OBVIOUS
  <2>3. MergeNode(pts, f, r)
    BY <1>1, <1>3, <1>5, <2>1, <2>2
  <2>4. pts' = [pts EXCEPT ![r] = @ \union pts[f]] /\ pts[f] = {}
    BY <2>1, <2>3 DEF MergeNode, Fresh
  <2>5. UNCHANGED pts
    BY <2>1, <2>2, <2>4 DEF BaseTypeOK
  <2>6. ASSUME NEW E \in SUBSET (Nodes \X Nodes), \A e \in E : f \notin Ends(e)
        PROVE  Retarget({e \in E : ~ Inside(e, f, r)}, f, r) = E
    BY <2>6 DEF Retarget, Inside, Touches, Onto, Ends
  <2>7. copy' = copy /\ vgep' = vgep
    BY <2>1, <2>3, <2>6 DEF MergeNode, MoveEdgesToRepNode, Fresh, BaseTypeOK, GraphTypeOK
  <2>8. ngep' = ngep
    <3>1. {e \in ngep : ~ Touches(e, f)} = ngep
      BY <2>1 DEF Touches, Fresh, Ends
    <3>2. RetargetGep({e \in ngep : Touches(e, f) /\ ~ Inside(e, f, r)}, f, r) = {}
      BY <2>1 DEF RetargetGep, Touches, Fresh, Ends
    <3> QED
      BY <2>3, <3>1, <3>2 DEF MergeNode, MoveEdgesToRepNode, AddNormalGeps
  <2> QED
    BY <2>5, <2>7, <2>8
<1> QED
  BY <1>4, <1>5

\* Steps that leave the edges alone, and put nothing untouched to work.
LEMMA GraphKept ==
    ASSUME GraphInv, UNCHANGED <<copy, vgep, ngep, load, store, rep>>,
           \A n \in Nodes : pts[n] \subseteq pts'[n],
           \A o \in Objs : Fresh(o) /\ (\A n \in Nodes : o \notin pts[n])
                => pts'[o] = {} /\ \A e \in pending' \union mergeTodo' : o \notin Ends(e)
    PROVE  GraphInv'
<1>1. RepInv' /\ EdgeInv'
  BY DEF GraphInv, RepInv, EdgeInv, Live
<1>2. ASSUME NEW o \in Objs, \A n \in Nodes : o \notin pts[n], Fresh(o) PROVE Fresh(o)'
  BY <1>2 DEF Fresh
<1>3. FreshInv'
  BY <1>2 DEF FreshInv, GraphInv
<1> QED
  BY <1>1, <1>3 DEF GraphInv

\* A pending edge that is added joins two nodes of the graph.
LEMMA AddCopyGraph ==
    ASSUME BaseTypeOK, GraphInv, NEW e \in pending, AddCopyEdge(e[1], e[2]),
           UNCHANGED <<vgep, ngep, load, store, rep, pts, mergeTodo>>, pending' \subseteq pending
    PROVE  GraphInv'
<1>1. e[1] \in Nodes /\ e[2] \in Nodes
  BY DEF BaseTypeOK
<1>2. Live' = Live /\ RepInv'
  BY DEF Live, RepInv, GraphInv
<1>3. ASSUME NEW f \in copy', f \notin copy
      PROVE  f = <<rep[e[1]], rep[e[2]]>> /\ rep[e[1]] # rep[e[2]]
  BY <1>3 DEF AddCopyEdge, NewCopyEdge
<1>4. EdgeInv'
  BY <1>1, <1>2, <1>3 DEF EdgeInv, RepInv, GraphInv, Ends
<1>5. ASSUME NEW o \in Objs, Fresh(o) PROVE Fresh(o)'
  <2>1. o # e[1] /\ o # e[2]
    BY <1>5 DEF Fresh, Ends
  <2>2. \A f \in copy' : o \notin Ends(f)
    BY <1>1, <1>3, <1>5, <2>1 DEF Fresh, Ends
  <2> QED
    BY <1>5, <2>2 DEF Fresh
<1>6. FreshInv'
  BY <1>5 DEF FreshInv, GraphInv
<1> QED
  BY <1>2, <1>4, <1>6 DEF GraphInv

(***************************************************************************)
(* The pairs to be merged: a representative is never merged itself, and    *)
(* every node of the graph is on the stack or has its representative there.*)
(***************************************************************************)
Pairs ==
    /\ pc # "merge" => mergeTodo = {}
    /\ \A x \in mergeTodo : /\ x[1] # x[2] /\ x[2] \in Live
                            /\ <<x[1], x[2]>> \in reach /\ <<x[2], x[1]>> \in reach
                            /\ \A y \in mergeTodo : y[1] # x[2]
    /\ pc = "merge" => Live \subseteq stack \union {x[1] : x \in mergeTodo}

LEMMA MergeSccGraph ==
    ASSUME WaveTypeOK, GraphInv, Pairs, MergeScc
    PROVE  GraphInv' /\ Pairs'
<1>1. PICK x \in mergeTodo : MergeNode(pts, x[1], x[2]) /\ mergeTodo' = mergeTodo \ {x}
  BY DEF MergeScc
<1>2. PICK n, r : n = x[1] /\ r = x[2]
  OBVIOUS
<1>3. /\ n \in Nodes /\ r \in Nodes /\ r \in Live /\ n # r /\ MergeNode(pts, n, r)
      /\ \A y \in mergeTodo : n # y[2]
  BY <1>1, <1>2 DEF WaveTypeOK, Pairs
<1>4. BaseTypeOK /\ pending' = pending /\ UNCHANGED <<stack, reach, pc>>
  BY DEF WaveTypeOK, MergeScc, workVars
<1>5. RepInv' /\ EdgeInv' /\ Live' = Live \ {n}
  BY <1>3, <1>4, MergeLive DEF GraphInv
<1>6. PICK p \in [Nodes -> SUBSET Objs] : p = pts
  BY <1>4 DEF BaseTypeOK
<1>7. ASSUME NEW o \in Objs, Fresh(o) PROVE Fresh(o)'
  <2>1. o # n /\ o # r /\ o \in Nodes /\ p[o] = {}
    BY <1>1, <1>2, <1>6, <1>7 DEF Fresh, Ends, Nodes
  <2> QED
    BY <1>1, <1>3, <1>4, <1>6, <1>7, <2>1, MergeFresh
<1>8. /\ rep' = [m \in Nodes |-> Onto(rep[m], n, r)]
      /\ pts' = [pts EXCEPT ![r] = @ \union pts[n]]
  BY <1>3 DEF MergeNode, MoveEdgesToRepNode
<1>9. ASSUME NEW o \in Objs
      PROVE  (\E m \in Nodes : o \in pts'[m]) \/ rep'[o] = rep'[BaseOf[o]] \/ Fresh(o)'
  <2>1. o \in Nodes /\ BaseOf[o] \in Nodes
    BY ObjectsAssumption DEF Nodes
  <2>2. \A m \in Nodes : pts[m] \subseteq pts'[m]
    BY <1>4, <1>8 DEF BaseTypeOK
  <2>3. rep[o] = rep[BaseOf[o]] => rep'[o] = rep'[BaseOf[o]]
    BY <1>8, <2>1
  <2> QED
    BY <1>7, <2>2, <2>3 DEF GraphInv, FreshInv
<1>10. Pairs'
  BY <1>1, <1>2, <1>3, <1>4, <1>5 DEF Pairs
<1> QED
  BY <1>5, <1>9, <1>10 DEF GraphInv, FreshInv

LEMMA DetectSCCGraph ==
    ASSUME WaveTypeOK, GraphInv, Pairs, DetectSCC
    PROVE  GraphInv' /\ Pairs'
<1>1. UNCHANGED <<copy, vgep, ngep, load, store, rep, pts, pending>> /\ pc = "scc" /\ pc' = "merge"
  BY DEF DetectSCC, baseVars, graphVars, ptaVars, workVars
<1>2. ASSUME NEW o \in Objs, Fresh(o), NEW x \in mergeTodo' PROVE o \notin Ends(x)
  <2>1. (\E e \in DirectEdges : e[2] = x[1]) /\ (\E e \in DirectEdges : e[2] = x[2])
    BY DetectSCCPairs, ReachedLemma
  <2>2. \A e \in DirectEdges : o # e[2]
    BY <1>2 DEF DirectEdges, Fresh, Ends
  <2> QED
    BY <2>1, <2>2 DEF Ends
<1>3. GraphInv'
  <2>1. ASSUME NEW o \in Objs, Fresh(o)
        PROVE  pts'[o] = {} /\ \A e \in pending' \union mergeTodo' : o \notin Ends(e)
    BY <1>1, <1>2, <2>1 DEF Fresh
  <2> QED
    BY <1>1, <2>1, GraphKept
<1>4. PICK R, cyclic, reps :
        /\ R = Reachable(DirectEdges, Live)
        /\ cyclic = {n \in Live : SccOf(R, n) # {n}} /\ reps \subseteq cyclic
        /\ \A C \in {SccOf(R, n) : n \in cyclic} : Cardinality(C \intersect reps) = 1
        /\ reach' = R
        /\ stack' = (Live \ cyclic) \union reps
        /\ mergeTodo' = {x \in (cyclic \ reps) \X reps : x[2] \in SccOf(R, x[1])}
  BY DEF DetectSCC
<1>5. Live' = Live
  BY <1>1 DEF Live
<1>6. ASSUME NEW n \in cyclic \ reps PROVE \E r \in reps : r \in SccOf(R, n)
  <2>1. Cardinality(SccOf(R, n) \intersect reps) = 1
    BY <1>4
  <2>2. SccOf(R, n) \intersect reps # {}
    BY <2>1, FS_EmptySet
  <2> QED
    BY <2>2
<1>7. Live' \subseteq stack' \union {x[1] : x \in mergeTodo'}
  <2> SUFFICES ASSUME NEW n \in cyclic \ reps PROVE \E x \in mergeTodo' : n = x[1]
    BY <1>4, <1>5
  <2>1. PICK r \in reps : r \in SccOf(R, n)
    BY <1>6
  <2>2. <<n, r>> \in mergeTodo'
    BY <1>4, <2>1
  <2> QED
    BY <2>2
<1>8. ASSUME NEW x \in mergeTodo'
      PROVE  /\ x[1] # x[2] /\ x[2] \in Live'
             /\ <<x[1], x[2]>> \in reach' /\ <<x[2], x[1]>> \in reach'
             /\ \A y \in mergeTodo' : y[1] # x[2]
  BY <1>4, <1>5, DetectSCCPairs
<1> QED
  BY <1>1, <1>3, <1>7, <1>8 DEF Pairs

\* The graph stays one of representatives, and untouched fields stay untouched.
LEMMA NextGraph ==
    WaveSentInv /\ prog \in Programs /\ GraphInv /\ Pairs /\ [WaveNext]_waveVars => GraphInv' /\ Pairs'
<1> SUFFICES ASSUME WaveSentInv, prog \in Programs, GraphInv, Pairs, [WaveNext]_waveVars
             PROVE  GraphInv' /\ Pairs'
  OBVIOUS
<1>0. /\ WaveTypeOK /\ BaseTypeOK /\ CollapsingFI
      /\ pts \in [Nodes -> SUBSET Objs] /\ rep \in [Nodes -> Nodes]
  BY DEF WaveSentInv, WaveTypeOK, BaseTypeOK, GraphTypeOK, PropagationInv
<1>1. ASSUME UNCHANGED <<mergeTodo, rep>>, (pc' = "merge") <=> (pc = "merge"),
             pc = "merge" => UNCHANGED <<stack, reach>>
      PROVE  Pairs'
  BY <1>1 DEF Pairs, Live
<1>2. ASSUME UNCHANGED mergeTodo, pc # "merge" \/ mergeTodo = {}, pc' # "merge"
      PROVE  Pairs'
  BY <1>2 DEF Pairs
<1>3. CASE \/ EndMerge \/ NextOnStack \/ SkipMerged \/ WaveEndNode \/ WaveEndCollapse \/ EndWave
           \/ EndPost \/ WaveEndRound \/ UNCHANGED waveVars
  <2>1. UNCHANGED <<copy, vgep, ngep, load, store, rep, pts, pending, mergeTodo>>
    BY <1>3 DEF EndMerge, NextOnStack, SkipMerged, WaveEndNode, EndNode, sccVars,
                WaveEndCollapse, EndWave, EndPost, WaveEndRound, waveVars, baseVars, graphVars,
                ptaVars, workVars, wavePos
  <2>2. GraphInv'
    BY <2>1, GraphKept DEF Fresh
  <2>3. Pairs'
    BY <1>1, <1>2, <1>3, <2>1 DEF EndMerge, NextOnStack, SkipMerged, WaveEndNode, EndNode,
                                  sccVars, WaveEndCollapse, EndWave, EndPost, WaveEndRound,
                                  waveVars, wavePos
  <2> QED
    BY <2>2, <2>3
<1>4. CASE DetectSCC
  BY <1>0, <1>4, DetectSCCGraph
<1>5. CASE MergeScc
  BY <1>0, <1>5, MergeSccGraph
<1>6. CASE CollapsePWC \/ WaveCollapseFields
  <2>1. UNCHANGED <<mergeTodo, pc>> /\ pc # "merge" /\ (CollapseStep \/ CollapseNext)
    BY <1>6 DEF CollapsePWC, WaveCollapseFields, CollapseFields, sccVars, wavePos
  <2>2. Pairs'
    BY <1>2, <2>1
  <2>3. CASE CollapseOneField
    <3>1. pending' = pending
      BY <2>3 DEF CollapseOneField
    <3> QED
      BY <1>0, <2>1, <2>2, <2>3, <3>1, CollapseOneFieldGraph
  <2>4. CASE CollapseNext \/ EndCollapseField \/ CollapseOnePointee \/ EndCollapsePts
    <3>1. UNCHANGED <<copy, vgep, ngep, load, store, rep, pts, pending>>
      BY <2>4 DEF CollapseNext, EndCollapseField, CollapseOnePointee, EndCollapsePts, graphVars,
                  ptaVars
    <3>2. GraphInv'
      BY <2>1, <3>1, GraphKept DEF Fresh
    <3> QED
      BY <2>2, <3>2
  <2> QED
    BY <2>1, <2>3, <2>4 DEF CollapseStep
<1>7. CASE WaveHandleCopy
  <2>1. UNCHANGED <<copy, vgep, ngep, load, store, rep, pending, mergeTodo>>
        /\ pc # "merge" /\ pc' # "merge" /\ PropagateCopies(cur)
    BY <1>7 DEF WaveHandleCopy, GepOutEdges, graphVars, workVars
  <2>2. pts' = [d \in Nodes |-> IF <<cur, d>> \in copy THEN pts[d] \union (pts[cur] \ propa[cur]) ELSE pts[d]]
    BY <2>1 DEF PropagateCopies
  <2>3. ASSUME NEW o \in Objs, Fresh(o) PROVE pts'[o] = {}
    BY <2>2, <2>3 DEF Fresh, Ends, Nodes
  <2>4. GraphInv'
    BY <1>0, <2>1, <2>2, <2>3, GraphKept DEF Fresh
  <2> QED
    BY <1>2, <2>1, <2>4
<1>8. CASE WaveHandleGep
  <2>1. PICK e \in gepTodo : \E S : UnionPts(e[2], S)
    BY <1>8 DEF WaveHandleGep, HandleGep, sccVars, ProcessVariantGep, ProcessNormalGep
  <2>2. PICK S : pts' = [pts EXCEPT ![e[2]] = @ \union S]
    BY <2>1 DEF UnionPts
  <2>3. UNCHANGED <<copy, vgep, ngep, load, store, rep, pending, mergeTodo>>
        /\ pc # "merge" /\ pc' # "merge" /\ e \in ngep \union vgep
    BY <1>0, <1>8 DEF WaveHandleGep, HandleGep, sccVars, graphVars, WaveTypeOK
  <2>4. \A n \in Nodes : pts[n] \subseteq pts'[n]
    BY <1>0, <2>2
  <2>5. ASSUME NEW o \in Objs, Fresh(o) PROVE pts'[o] = {}
    BY <1>0, <2>2, <2>3, <2>5 DEF Fresh, Ends, Nodes
  <2>6. GraphInv'
    BY <2>3, <2>4, <2>5, GraphKept DEF Fresh
  <2> QED
    BY <1>2, <2>3, <2>6
<1>9. CASE WavePopNode
  <2>1. PICK n \in wl : pending' = LoadStoreEdges(rep[n])
    BY <1>9 DEF WavePopNode
  <2>2. UNCHANGED <<copy, vgep, ngep, load, store, rep, pts, mergeTodo>>
        /\ pc # "merge" /\ pc' # "merge"
    BY <1>9 DEF WavePopNode, graphVars
  <2>3. rep[n] \in Nodes
    BY <1>0 DEF BaseTypeOK
  <2>4. ASSUME NEW o \in Objs, Fresh(o), \A m \in Nodes : o \notin pts[m], NEW e \in pending'
        PROVE  o \notin Ends(e)
    BY <2>1, <2>3, <2>4 DEF LoadStoreEdges, Fresh, Ends
  <2>5. GraphInv'
    BY <2>2, <2>4, GraphKept DEF Fresh
  <2> QED
    BY <1>2, <2>2, <2>5
<1>10. CASE PostProcess \/ WaveConnectParams
  <2>1. PICK e \in pending : AddCopyEdge(e[1], e[2]) /\ pending' = pending \ {e}
    BY <1>10 DEF PostProcess, WaveConnectParams, ConnectParams, sccVars, AddPendingEdge
  <2>2. UNCHANGED <<vgep, ngep, load, store, rep, pts, mergeTodo, pc>> /\ pc # "merge"
    BY <1>10 DEF PostProcess, WaveConnectParams, ConnectParams, sccVars, AddPendingEdge, wavePos
  <2>3. GraphInv'
    BY <1>0, <2>1, <2>2, AddCopyGraph
  <2> QED
    BY <1>2, <2>2, <2>3
<1>11. CASE WaveUpdateCallGraph
  <2>1. UNCHANGED <<copy, vgep, ngep, load, store, rep, pts, mergeTodo>>
        /\ pc # "merge" /\ pc' # "merge"
    BY <1>11 DEF WaveUpdateCallGraph, ResolveCalls, graphVars, wavePos
  <2>2. \A e \in pending' : \E c \in prog.calls : e \in c.params
    BY <1>11 DEF WaveUpdateCallGraph, ResolveCalls, Resolvable
  <2>3. ASSUME NEW o \in Objs, NEW e \in pending' PROVE o \notin Ends(e)
    BY <2>2, ProgramsAssumption, NodesAssumption DEF Ends
  <2>4. GraphInv'
    BY <2>1, <2>3, GraphKept DEF Fresh
  <2> QED
    BY <1>2, <2>1, <2>4
<1> QED
  BY <1>3, <1>4, <1>5, <1>6, <1>7, <1>8, <1>9, <1>10, <1>11 DEF WaveNext

-----------------------------------------------------------------------------
(* Copies are applied *)

\* Reachability is that of the graph: it follows paths, and all the edges.
Transitive ==
    \A m, n, k \in Nodes : <<m, n>> \in reach /\ <<n, k>> \in reach => <<m, k>> \in reach

Along == \A e \in copy \union vgep \union ngep : <<e[1], e[2]>> \in reach

Applied(e) == pts[e[1]] \subseteq pts[e[2]]

\* Nodes whose copy edges the wave has still to look at.
Unsent == stack \union (IF pc = "pwc" THEN {cur} ELSE {})

\* The stack is in topological order: no edge leads back to a node that was taken off it.
Ordered ==
    /\ \A m \in stack, d \in Live \ stack : <<m, d>> \notin reach
    /\ pc # "wave" => \A d \in Live \ (stack \union {cur}) : <<cur, d>> \notin reach

(***************************************************************************)
(* In a wave that changes neither the graph nor a points-to set behind its *)
(* back, the edges of the nodes taken off the stack stay applied.          *)
(***************************************************************************)
WaveInv ==
    /\ Transitive
    /\ pc = "merge" => Along
    /\ \A e \in gepTodo : e[1] = cur
    /\ pc \in {"wave", "pwc", "gep", "collapse"} /\ ~ reanalyze =>
          Along /\ Ordered /\ \A e \in copy : e[1] \in Unsent \/ Applied(e)
    /\ pc \in {"post", "edges", "connect"} /\ ~ reanalyze => \A e \in copy : Applied(e)
    /\ pc = "connect" /\ ~ reanalyze => pending = {}
    /\ CopiesApplied

LEMMA InitWave == WaveInit => Pairs /\ WaveInv
BY DEF WaveInit, BaseInit, Pairs, WaveInv, Transitive, CopiesApplied

LEMMA ReachableTransitive ==
    ASSUME NEW E, NEW N, NEW m, NEW n, NEW k,
           <<m, n>> \in Reachable(E, N), <<n, k>> \in Reachable(E, N)
    PROVE  <<m, k>> \in Reachable(E, N)
BY DEF Reachable

\* When the stack is built, and while cycles are merged, reachability is that of the graph.
LEMMA DetectSCCWave ==
    ASSUME WaveTypeOK, EdgeInv, DetectSCC
    PROVE  Transitive' /\ Along'
<1>1. reach' = Reachable(DirectEdges, Live)
  BY DEF DetectSCC
<1>2. UNCHANGED <<copy, vgep, ngep>>
  BY DEF DetectSCC, baseVars, graphVars
<1>3. Transitive'
  BY <1>1, ReachableTransitive DEF Transitive
<1>4. ASSUME NEW e \in copy \union vgep \union ngep
      PROVE  <<e[1], e[2]>> \in Reachable(DirectEdges, Live)
  <2>1. e[1] \in Live /\ e[2] \in Live
    BY DEF EdgeInv, Ends
  <2>2. PICK f : f = <<e[1], e[2]>>
    OBVIOUS
  <2>3. copy \subseteq Nodes \X Nodes /\ vgep \subseteq Nodes \X Nodes
    BY DEF WaveTypeOK, BaseTypeOK, GraphTypeOK
  <2>4. f \in DirectEdges
    BY <2>2, <2>3 DEF DirectEdges
  <2>5. <<f[1], f[2]>> \in Reachable(DirectEdges, Live)
    BY <2>1, <2>2, <2>4 DEF Reachable
  <2> QED
    BY <2>2, <2>5
<1> QED
  BY <1>1, <1>2, <1>3, <1>4 DEF Along

LEMMA MergeSccWave ==
    ASSUME WaveTypeOK, Pairs, Transitive, Along, MergeScc
    PROVE  Transitive' /\ Along'
<1>1. PICK x \in mergeTodo : MergeNode(pts, x[1], x[2])
  BY DEF MergeScc
<1>2. PICK n, r : n = x[1] /\ r = x[2]
  OBVIOUS
<1>3. /\ BaseTypeOK /\ reach' = reach /\ n \in Nodes /\ r \in Nodes /\ MergeNode(pts, n, r)
      /\ <<n, r>> \in reach /\ <<r, n>> \in reach
  BY <1>1, <1>2 DEF WaveTypeOK, Pairs, MergeScc
<1>4. ASSUME NEW e \in copy' \union vgep' \union ngep' PROVE <<e[1], e[2]>> \in reach
  <2>1. MoveEdgesToRepNode(n, r)
    BY <1>3 DEF MergeNode
  <2>2. PICK f \in copy \union vgep \union ngep :
          ~ Inside(f, n, r) /\ e[1] = Onto(f[1], n, r) /\ e[2] = Onto(f[2], n, r)
    BY <1>3, <1>4, <2>1, MovedEdges
  <2>3. <<f[1], f[2]>> \in reach /\ f[1] \in Nodes /\ f[2] \in Nodes
    BY <1>3, EdgeType DEF Along
  <2>4. <<e[1], f[2]>> \in reach /\ e[1] \in Nodes
    BY <1>3, <2>2, <2>3 DEF Transitive, Onto
  <2> QED
    BY <1>3, <2>2, <2>3, <2>4 DEF Transitive, Onto
<1> QED
  BY <1>3, <1>4 DEF Transitive, Along

\* What is sent along the copy edges of a node applies them.
LEMMA HandleCopyApplies ==
    ASSUME WaveSentInv, WaveStaleInv, WaveHandleCopy, NEW e \in copy, e[1] = cur, e[2] # cur
    PROVE  Applied(e)'
<1>1. /\ BaseTypeOK /\ cur \in Nodes /\ CopySent /\ PropagateCopies(cur) /\ frames = <<>> /\ pc = "pwc"
      /\ pts \in [Nodes -> SUBSET Objs] /\ copy \subseteq Nodes \X Nodes
  BY DEF WaveSentInv, WaveTypeOK, BaseTypeOK, GraphTypeOK, PropagationInv, WaveHandleCopy,
         GepOutEdges
<1>2. NoFieldOfFI
  BY <1>1, FieldsSettled DEF WaveStaleInv, WaveCollapsePhase
<1>3. e = <<cur, e[2]>> /\ e[2] \in Nodes
  BY <1>1
<1>4. pts'[e[2]] = pts[e[2]] \union (pts[cur] \ propa[cur])
  BY <1>1, <1>3 DEF PropagateCopies
<1>5. ASSUME NEW o \in pts[cur], o \in propa[cur] PROVE o \in pts[e[2]]
  <2>1. PICK x \in pts[e[2]] : Canon(x) = Canon(o)
    BY <1>1, <1>5 DEF CopySent, Holds
  <2>2. Canon(x) = x /\ Canon(o) = o
    BY <1>1, <1>2, <1>3, <1>5 DEF NoFieldOfFI
  <2> QED
    BY <2>1, <2>2
<1>6. pts'[cur] \subseteq pts'[e[2]]
  <2>1. pts'[cur] \subseteq pts[cur]
    BY <1>1 DEF PropagateCopies
  <2> QED
    BY <1>4, <1>5, <2>1
<1> QED
  BY <1>6 DEF Applied

\* The steps between waves keep the copy edges applied, unless another round is due.
LEMMA BetweenWaves ==
    ASSUME WaveSentInv, WaveInv, EndWave \/ WavePopNode \/ PostProcess \/ EndPost \/ WaveUpdateCallGraph
                         \/ WaveConnectParams \/ WaveEndRound
    PROVE  WaveInv'
<1>1. /\ UNCHANGED <<reach, pts, gepTodo>> /\ gepTodo = {} /\ Transitive'
      /\ pc' \in {"post", "edges", "connect", "scc", "done"}
      /\ pc' = "done" => pc = "connect" /\ ~ reanalyze
      /\ copy' # copy \/ reanalyze' # reanalyze
           => PostProcess \/ WaveConnectParams \/ WaveUpdateCallGraph \/ WaveEndRound
      /\ reanalyze \in BOOLEAN
  BY DEF EndWave, WavePopNode, PostProcess, EndPost, WaveUpdateCallGraph, WaveConnectParams,
         ConnectParams, sccVars, WaveEndRound, ResolveCalls, AddPendingEdge, baseVars, ptaVars,
         wavePos, graphVars, workVars, WaveSentInv, WaveTypeOK, BaseTypeOK, GepPhase, WaveInv,
         Transitive
<1>2. \A e \in copy : (UNCHANGED pts /\ Applied(e)) => Applied(e)'
  BY DEF Applied
<1>3. CASE EndWave
  <2>1. pc = "wave" /\ stack = {} /\ pc' = "post" /\ UNCHANGED <<copy, reanalyze>>
    BY <1>3 DEF EndWave, baseVars, ptaVars, graphVars
  <2> QED
    BY <1>1, <1>2, <2>1 DEF WaveInv, Unsent, CopiesApplied
<1>4. CASE WavePopNode \/ EndPost
  <2>1. pc \in {"post", "edges"} /\ pc' \in {"post", "edges"} /\ UNCHANGED <<copy, reanalyze>>
    BY <1>4 DEF WavePopNode, EndPost, baseVars, ptaVars, graphVars
  <2> QED
    BY <1>1, <1>2, <2>1 DEF WaveInv, CopiesApplied
<1>5. CASE PostProcess
  <2>1. PICK e \in pending : AddCopyEdge(e[1], e[2]) /\ reanalyze' = (reanalyze \/ NewCopyEdge(e[1], e[2]))
    BY <1>5 DEF PostProcess
  <2>2. ~ reanalyze' => ~ reanalyze /\ copy' = copy
    BY <2>1 DEF AddCopyEdge
  <2>3. pc = "edges" /\ pc' = "edges"
    BY <1>5 DEF PostProcess
  <2> QED
    BY <1>1, <1>2, <2>2, <2>3 DEF WaveInv, CopiesApplied
<1>6. CASE WaveUpdateCallGraph
  <2>1. PICK new : pending' = UNION {c.params : c \in new} /\ reanalyze' = (reanalyze \/ new # {})
    BY <1>6 DEF WaveUpdateCallGraph, ResolveCalls
  <2>2. ~ reanalyze' => ~ reanalyze /\ pending' = {}
    BY <2>1
  <2>3. pc = "post" /\ pc' = "connect" /\ copy' = copy
    BY <1>6 DEF WaveUpdateCallGraph, ResolveCalls, graphVars
  <2> QED
    BY <1>1, <1>2, <2>2, <2>3 DEF WaveInv, CopiesApplied
<1>7. CASE WaveConnectParams
  <2>1. pending # {} /\ reanalyze' = reanalyze /\ pc = "connect" /\ pc' = "connect"
    BY <1>7 DEF WaveConnectParams, ConnectParams, sccVars, AddPendingEdge
  <2> QED
    BY <1>1, <2>1 DEF WaveInv, CopiesApplied
<1>8. CASE WaveEndRound
  <2>1. copy' = copy /\ pc' \in {"scc", "done"}
    BY <1>8 DEF WaveEndRound, graphVars
  <2>2. pc' = "done" => \A e \in copy : Applied(e)
    BY <1>1 DEF WaveInv
  <2> QED
    BY <1>1, <1>2, <2>1, <2>2 DEF WaveInv, CopiesApplied, Applied
<1> QED
  BY <1>3, <1>4, <1>5, <1>6, <1>7, <1>8

\* The node taken off the stack is one no other node of the stack reaches.
LEMMA NextOnStackWave ==
    ASSUME WaveSentInv, WaveInv, NextOnStack
    PROVE  WaveInv'
<1>1. PICK n \in stack : (\A m \in stack \ {n} : <<m, n>> \notin reach) /\ stack' = stack \ {n} /\ cur' = n
  BY DEF NextOnStack
<1>2. /\ UNCHANGED <<copy, vgep, ngep, rep, pts, reanalyze, gepTodo, reach>> /\ gepTodo = {}
      /\ pc = "wave" /\ pc' = "pwc"
  BY DEF NextOnStack, graphVars, ptaVars, WaveSentInv, GepPhase
<1>3. Transitive' /\ Live' = Live /\ (Along => Along')
  BY <1>2 DEF WaveInv, Transitive, Live, Along
<1>4. Ordered => Ordered'
  BY <1>1, <1>2, <1>3 DEF Ordered
<1>5. Unsent' = Unsent
  BY <1>1, <1>2 DEF Unsent
<1>6. \A e \in copy : Applied(e) => Applied(e)'
  BY <1>2 DEF Applied
<1> QED
  BY <1>2, <1>3, <1>4, <1>5, <1>6 DEF WaveInv, CopiesApplied

\* Points-to sets grow only at nodes that are still on the stack.
LEMMA SendingWave ==
    ASSUME WaveSentInv, WaveStaleInv, GraphInv, WaveInv, WaveHandleCopy \/ WaveHandleGep
    PROVE  WaveInv'
<1>1. /\ UNCHANGED <<copy, vgep, ngep, rep, reanalyze, reach, stack, cur>>
      /\ pc \in {"pwc", "gep"} /\ pc' = "gep"
      /\ BaseTypeOK /\ pts \in [Nodes -> SUBSET Objs] /\ copy \subseteq Nodes \X Nodes
  BY DEF WaveHandleCopy, GepOutEdges, WaveHandleGep, HandleGep, sccVars, graphVars, WaveSentInv,
         WaveTypeOK, BaseTypeOK, GraphTypeOK
<1>2. Transitive' /\ Live' = Live /\ (Along => Along') /\ (Ordered => Ordered')
  BY <1>1 DEF WaveInv, Transitive, Live, Along, Ordered
<1>3. \A e \in gepTodo' : e[1] = cur'
  BY <1>1 DEF WaveHandleCopy, GepOutEdges, WaveHandleGep, HandleGep, sccVars, WaveInv
<1> SUFFICES ASSUME ~ reanalyze PROVE \A e \in copy : e[1] \in stack \/ Applied(e)'
  BY <1>1, <1>2, <1>3 DEF WaveInv, Unsent, CopiesApplied
<1>4. Along /\ Ordered /\ \A e \in copy : e[1] \in Unsent \/ Applied(e)
  BY <1>1 DEF WaveInv
<1>5. ASSUME NEW e \in copy \union vgep \union ngep, e[1] = cur PROVE e[2] \in stack /\ e[2] # cur
  <2>1. <<cur, e[2]>> \in reach /\ e[2] \in Live /\ e[2] # cur
    BY <1>4, <1>5 DEF Along, GraphInv, EdgeInv, Ends
  <2> QED
    BY <1>1, <1>4, <2>1 DEF Ordered
<1>6. CASE WaveHandleCopy
  <2> SUFFICES ASSUME NEW e \in copy, e[1] \notin stack PROVE Applied(e)'
    OBVIOUS
  <2>1. CASE e[1] = cur
    BY <1>5, <1>6, <2>1, HandleCopyApplies
  <2>2. CASE e[1] # cur
    <3>1. Applied(e) /\ e[1] \in Nodes /\ e[2] \in Nodes
      BY <1>1, <1>4, <2>2 DEF Unsent
    <3>2. <<cur, e[1]>> \notin copy
      BY <1>5
    <3>3. pts'[e[1]] = pts[e[1]] /\ pts[e[2]] \subseteq pts'[e[2]]
      BY <1>6, <3>1, <3>2 DEF WaveHandleCopy, GepOutEdges, PropagateCopies
    <3> QED
      BY <3>1, <3>3 DEF Applied
  <2> QED
    BY <2>1, <2>2
<1>7. CASE WaveHandleGep
  <2>1. PICK g \in gepTodo : \E S : UnionPts(g[2], S)
    BY <1>7 DEF WaveHandleGep, HandleGep, sccVars, ProcessVariantGep, ProcessNormalGep
  <2>2. PICK S : pts' = [pts EXCEPT ![g[2]] = @ \union S]
    BY <2>1 DEF UnionPts
  <2>3. g[2] \in stack
    BY <1>5, <2>1 DEF WaveInv, WaveSentInv, WaveTypeOK
  <2> SUFFICES ASSUME NEW e \in copy, e[1] \notin stack PROVE Applied(e)'
    OBVIOUS
  <2>4. Applied(e) /\ e[1] # g[2] /\ e[1] \in Nodes /\ e[2] \in Nodes
    BY <1>1, <1>4, <1>7, <2>3 DEF Unsent, WaveHandleGep, HandleGep, sccVars
  <2>5. pts'[e[1]] = pts[e[1]] /\ pts[e[2]] \subseteq pts'[e[2]]
    BY <1>1, <2>2, <2>4
  <2> QED
    BY <2>4, <2>5 DEF Applied
<1> QED
  BY <1>6, <1>7

\* Collapsing changes nothing under the wave without asking for another round.
LEMMA CollapsingWave ==
    ASSUME WaveSentInv, GraphInv, WaveInv, CollapsePWC \/ WaveCollapseFields, pending' = pending
    PROVE  WaveInv'
<1>1. /\ UNCHANGED <<pc, wavePos, gepTodo, reach, stack, cur>> /\ pc \in {"pwc", "collapse"}
      /\ BaseTypeOK /\ CollapsingFI /\ (CollapseStep \/ CollapseNext)
  BY DEF CollapsePWC, WaveCollapseFields, CollapseFields, sccVars, wavePos, WaveSentInv,
         WaveTypeOK, PropagationInv
<1>2. ~ reanalyze' => ~ reanalyze /\ UNCHANGED <<pts, copy, vgep, ngep>> /\ Live' \subseteq Live
  <2>1. CASE CollapseOneField
    <3>1. Live' \subseteq Live
      BY <1>1, <2>1, CollapseOneFieldGraph DEF wavePos
    <3>2. ~ reanalyze' => ~ reanalyze
      BY <2>1 DEF CollapseOneField
    <3> QED
      BY <1>1, <2>1, <3>1, <3>2, UnseenField
  <2>2. CASE CollapseNext \/ EndCollapseField \/ CollapseOnePointee \/ EndCollapsePts
    BY <2>2 DEF CollapseNext, EndCollapseField, CollapseOnePointee, EndCollapsePts, graphVars,
                ptaVars, Live
  <2> QED
    BY <1>1, <2>1, <2>2 DEF CollapseStep
<1>3. Transitive' /\ \A e \in gepTodo' : e[1] = cur'
  BY <1>1 DEF WaveInv, Transitive
<1> SUFFICES ASSUME ~ reanalyze' PROVE Along' /\ Ordered' /\ \A e \in copy' : e[1] \in Unsent' \/ Applied(e)'
  BY <1>1, <1>3 DEF WaveInv, CopiesApplied
<1>4. Along /\ Ordered /\ \A e \in copy : e[1] \in Unsent \/ Applied(e)
  BY <1>1, <1>2 DEF WaveInv
<1> QED
  BY <1>1, <1>2, <1>4 DEF Along, Ordered, Unsent, Applied

LEMMA NextWave ==
    WaveSentInv /\ WaveStaleInv /\ GraphInv /\ Pairs /\ WaveInv /\ [WaveNext]_waveVars => WaveInv'
<1> SUFFICES ASSUME WaveSentInv, WaveStaleInv, GraphInv, Pairs, WaveInv, [WaveNext]_waveVars
             PROVE  WaveInv'
  OBVIOUS
<1>0. WaveTypeOK /\ EdgeInv
  BY DEF WaveSentInv, GraphInv
<1>1. CASE DetectSCC \/ MergeScc
  <2>1. Transitive' /\ Along'
    BY <1>0, <1>1, DetectSCCWave, MergeSccWave DEF WaveInv, MergeScc
  <2>2. pc' = "merge" /\ UNCHANGED <<gepTodo, cur>>
    BY <1>1 DEF DetectSCC, MergeScc
  <2> QED
    BY <2>1, <2>2 DEF WaveInv, CopiesApplied
<1>2. CASE EndMerge
  <2>1. /\ UNCHANGED <<copy, vgep, ngep, rep, pts, reach, stack, gepTodo, cur>>
        /\ pc = "merge" /\ pc' = "wave" /\ mergeTodo = {}
    BY <1>2 DEF EndMerge, baseVars, graphVars, ptaVars, wavePos
  <2>2. Live \subseteq stack
    BY <2>1 DEF Pairs
  <2>3. Along' /\ Transitive'
    BY <2>1 DEF WaveInv, Along, Transitive
  <2>4. Ordered'
    BY <2>1, <2>2 DEF Ordered, Live
  <2>5. \A e \in copy' : e[1] \in Unsent'
    BY <1>0, <2>1, <2>2 DEF EdgeInv, Ends, Unsent
  <2> QED
    BY <2>1, <2>3, <2>4, <2>5 DEF WaveInv, CopiesApplied
<1>3. CASE NextOnStack
  BY <1>3, NextOnStackWave
<1>4. CASE CollapsePWC \/ WaveCollapseFields
  <2>1. pending' = pending
    BY <1>4 DEF CollapsePWC, WaveCollapseFields, CollapseFields, sccVars, CollapseStep,
                CollapseNext, CollapseOneField, EndCollapseField, CollapseOnePointee,
                EndCollapsePts
  <2> QED
    BY <1>4, <2>1, CollapsingWave
<1>5. CASE WaveHandleCopy \/ WaveHandleGep
  BY <1>5, SendingWave
<1>6. CASE SkipMerged \/ WaveEndNode \/ WaveEndCollapse \/ UNCHANGED waveVars
  <2>1. /\ UNCHANGED <<copy, vgep, ngep, rep, pts, reanalyze, reach, stack, gepTodo, cur, pending>>
        /\ pc' = pc \/ (pc \in {"pwc", "gep", "collapse"} /\ pc' \in {"wave", "collapse"})
        /\ pc = "pwc" /\ pc' # pc => rep[cur] # cur
    BY <1>6 DEF SkipMerged, WaveEndNode, EndNode, sccVars, WaveEndCollapse, waveVars, baseVars,
                graphVars, ptaVars, workVars, wavePos
  <2>2. Transitive' /\ (Along => Along') /\ (\A e \in copy : Applied(e) => Applied(e)')
    BY <2>1 DEF WaveInv, Transitive, Along, Applied
  <2>3. Ordered /\ pc' # pc => Ordered'
    BY <2>1 DEF Ordered, Live
  <2>4. \A e \in copy : e[1] \in Unsent => e[1] \in Unsent'
    BY <1>0, <2>1 DEF Unsent, EdgeInv, Ends, Live
  <2>5. CASE pc' = pc
    BY <2>1, <2>2, <2>4, <2>5 DEF WaveInv, CopiesApplied, Ordered, Live, Along, Applied
  <2>6. CASE pc' # pc
    BY <2>1, <2>2, <2>3, <2>4, <2>6 DEF WaveInv, CopiesApplied
  <2> QED
    BY <2>5, <2>6
<1>7. CASE \/ EndWave \/ WavePopNode \/ PostProcess \/ EndPost \/ WaveUpdateCallGraph \/ WaveConnectParams
           \/ WaveEndRound
  BY <1>7, BetweenWaves
<1> QED
  BY <1>1, <1>2, <1>3, <1>4, <1>5, <1>6, <1>7 DEF WaveNext

(***************************************************************************)
(* When the wave solver stops, every copy edge of the graph is applied to  *)
(* all pointees of its source, for any program: a wave that is not         *)
(* followed by another one has visited the nodes in an order in which no   *)
(* points-to set grew after its edges had been looked at.                  *)
(***************************************************************************)
THEOREM CopiesDone == WaveSpec => []CopiesApplied
<1>1. WithinInv => prog \in Programs
  BY DEF WithinInv
<1>2. WaveInv => CopiesApplied
  BY DEF WaveInv
<1> QED
  BY WaveInitSent, WaveNextSent, WaveInitStale, WaveNextStale, InitWithin, NextWithin, InitGraph, NextGraph,
     InitWave, NextWave, <1>1, <1>2, PTL DEF WaveSpec
=============================================================================
