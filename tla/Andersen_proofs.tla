---------------------------- MODULE Andersen_proofs ----------------------------
(***************************************************************************)
(* Lemmas about the operations every inclusion-based solver is made of     *)
(* (module AndersenBase), and theorems about the worklist solver, for      *)
(* every program and every set of nodes.                                   *)
(***************************************************************************)
EXTENDS Andersen, FiniteSetTheorems, WellFoundedInduction, TLAPS

Frame == FieldsFrame \union PtsFrame

-----------------------------------------------------------------------------
(* The call stack *)

\* A call stack without its top frame, and with another top frame, is a call stack.
LEMMA StackLemma ==
    ASSUME NEW F, frames \in Seq(F), frames # <<>>
    PROVE  /\ Top \in F
           /\ Pop \in Seq(F)
           /\ \A fr \in F : SetTop(fr) \in Seq(F)
<1>1. Len(frames) \in Nat /\ Len(frames) # 0
  BY SMT
<1>2. Pop \in Seq(F)
  BY <1>1, SMT DEF Pop
<1>3. Top \in F
  BY <1>1, SMT DEF Top
<1>4. \A fr \in F : SetTop(fr) \in Seq(F)
  BY <1>2, SMT DEF SetTop
<1> QED
  BY <1>2, <1>3, <1>4

-----------------------------------------------------------------------------
(* Initialisation *)

\* The solver starts in a state of the right types.
LEMMA BaseInitType == BaseInit => BaseTypeOK
<1> SUFFICES ASSUME BaseInit PROVE BaseTypeOK
  OBVIOUS
<1>1. prog \in Statements
  BY ProgramsAssumption DEF BaseInit, BuildCG
<1>2. GraphTypeOK
  BY <1>1 DEF BaseInit, BuildCG, GraphTypeOK, Statements
<1>3. frames \in Seq(Frame)
  BY DEF BaseInit
<1>4. fi \subseteq Objs
  BY ObjectsAssumption DEF BaseInit
<1>5. pts \in [Nodes -> SUBSET Objs] /\ propa \in [Nodes -> SUBSET Objs]
  BY DEF BaseInit, AddrPts
<1>6. callEdges \subseteq prog.calls
  BY DEF BaseInit
<1> QED
  BY <1>2, <1>3, <1>4, <1>5, <1>6 DEF BaseInit, BaseTypeOK, Frame

-----------------------------------------------------------------------------
(* Merging *)

\* Moving the edges of a node keeps the graph a graph.
LEMMA MoveEdgesType ==
    ASSUME GraphTypeOK, NEW n \in Nodes, NEW r \in Nodes, MoveEdgesToRepNode(n, r)
    PROVE  GraphTypeOK'
<1>1. \A x \in Nodes : Onto(x, n, r) \in Nodes
  BY DEF Onto
<1>2. \A E : E \subseteq Nodes \X Nodes => Retarget(E, n, r) \subseteq Nodes \X Nodes
  BY <1>1 DEF Retarget
<1>3. \A E : E \subseteq Nodes \X Nodes \X Offsets
               => RetargetGep(E, n, r) \subseteq Nodes \X Nodes \X Offsets
  BY <1>1 DEF RetargetGep
<1>4. copy' \subseteq Nodes \X Nodes /\ load' \subseteq Nodes \X Nodes
      /\ store' \subseteq Nodes \X Nodes /\ vgep' \subseteq Nodes \X Nodes
  BY <1>2 DEF GraphTypeOK, MoveEdgesToRepNode
<1>5. ngep' \subseteq Nodes \X Nodes \X Offsets
  <2> DEFINE stay  == {e \in ngep : ~ Touches(e, n)}
             inner == {e \in ngep : Touches(e, n) /\ ~ Inside(e, n, r)}
             moved == RetargetGep(inner, n, r)
  <2>1. moved \subseteq Nodes \X Nodes \X Offsets
    BY <1>3 DEF GraphTypeOK
  <2>2. ngep' \in AddNormalGeps(stay, moved)
    BY DEF MoveEdgesToRepNode
  <2> QED
    BY <2>1, <2>2 DEF AddNormalGeps, GraphTypeOK
<1>6. rep' \in [Nodes -> Nodes] /\ pwc' \subseteq Nodes /\ prog' \in Statements
  BY <1>1 DEF GraphTypeOK, MoveEdgesToRepNode
<1> QED
  BY <1>4, <1>5, <1>6 DEF GraphTypeOK

\* Merging a node into another one keeps the points-to data well typed.
LEMMA MergeNodeType ==
    ASSUME GraphTypeOK, propa \in [Nodes -> SUBSET Objs],
           NEW p \in [Nodes -> SUBSET Objs],
           NEW n \in Nodes, NEW r \in Nodes, MergeNode(p, n, r)
    PROVE  /\ GraphTypeOK'
           /\ pts' \in [Nodes -> SUBSET Objs]
           /\ propa' \in [Nodes -> SUBSET Objs]
           /\ prog' = prog
<1>1. GraphTypeOK'
  BY MoveEdgesType DEF MergeNode
<1>2. prog' = prog
  BY DEF MergeNode, MoveEdgesToRepNode
<1> QED
  BY <1>1, <1>2 DEF MergeNode

-----------------------------------------------------------------------------
(* Handlers of the constraint edges *)

\* The copy edges of loads and stores connect nodes.
LEMMA LoadStoreEdgesType ==
    ASSUME BaseTypeOK, NEW n \in Nodes
    PROVE  LoadStoreEdges(n) \subseteq Nodes \X Nodes
<1>1. pts[n] \subseteq Nodes
  BY DEF BaseTypeOK, Nodes
<1>2. load \subseteq Nodes \X Nodes /\ store \subseteq Nodes \X Nodes
  BY DEF BaseTypeOK, GraphTypeOK
<1> QED
  BY <1>1, <1>2 DEF LoadStoreEdges

\* Adding a copy edge keeps the graph and the propagated sets well typed.
LEMMA AddCopyEdgeType ==
    ASSUME BaseTypeOK, NEW s \in Nodes, NEW d \in Nodes, AddCopyEdge(s, d)
    PROVE  /\ copy' \subseteq Nodes \X Nodes
           /\ propa' \in [Nodes -> SUBSET Objs]
<1>1. rep[s] \in Nodes /\ rep[d] \in Nodes
  BY DEF BaseTypeOK, GraphTypeOK
<1> QED
  BY <1>1 DEF BaseTypeOK, GraphTypeOK, AddCopyEdge

LEMMA AddPendingEdgeType == BaseTypeOK /\ AddPendingEdge => BaseTypeOK'
<1> SUFFICES ASSUME BaseTypeOK, AddPendingEdge PROVE BaseTypeOK'
  OBVIOUS
<1>1. PICK e \in pending :
        /\ AddCopyEdge(e[1], e[2])
        /\ pending' = pending \ {e}
        /\ wl' = IF NewCopyEdge(e[1], e[2]) THEN wl \union {rep[e[1]]} ELSE wl
  BY DEF AddPendingEdge
<1>2. e[1] \in Nodes /\ e[2] \in Nodes
  BY DEF BaseTypeOK
<1>3. copy' \subseteq Nodes \X Nodes /\ propa' \in [Nodes -> SUBSET Objs]
  BY <1>1, <1>2, AddCopyEdgeType
<1>4. wl' \subseteq Nodes
  BY <1>1, <1>2 DEF BaseTypeOK, GraphTypeOK
<1> QED
  BY <1>1, <1>3, <1>4 DEF BaseTypeOK, GraphTypeOK, AddPendingEdge

\* Sending the difference along the copy edges.
LEMMA PropagateCopiesType ==
    ASSUME BaseTypeOK, NEW n \in Nodes, PropagateCopies(n),
           UNCHANGED <<graphVars, fi, reanalyze, callEdges, workVars>>
    PROVE  BaseTypeOK'
<1>1. diff' \subseteq Objs
  BY DEF PropagateCopies, BaseTypeOK
<1>2. propa' \in [Nodes -> SUBSET Objs]
  BY DEF PropagateCopies, BaseTypeOK
<1>3. pts' \in [Nodes -> SUBSET Objs]
  BY DEF PropagateCopies, BaseTypeOK
<1>4. wl' \subseteq Nodes
  BY DEF PropagateCopies, BaseTypeOK
<1> QED
  BY <1>1, <1>2, <1>3, <1>4 DEF BaseTypeOK, GraphTypeOK, graphVars, workVars

\* What a gep makes of an object is an object.
LEMMA GepTargetType ==
    ASSUME NEW o \in Objs
    PROVE  /\ VariantGepTarget(o) \in Objs
           /\ \A k \in Offsets : NormalGepTarget(o, k) \in Objs
BY ObjectsAssumption DEF VariantGepTarget, NormalGepTarget

LEMMA UnionPtsType ==
    ASSUME BaseTypeOK, NEW d \in Nodes, NEW S \in SUBSET Objs, UnionPts(d, S)
    PROVE  pts' \in [Nodes -> SUBSET Objs] /\ wl' \subseteq Nodes
BY DEF BaseTypeOK, UnionPts

\* Processing one gep edge.
LEMMA ProcessGepType ==
    ASSUME BaseTypeOK, NEW e \in ngep \union vgep,
           IF e \in vgep THEN ProcessVariantGep(e) ELSE ProcessNormalGep(e),
           UNCHANGED <<graphVars, propa, diff, reanalyze, callEdges, pending, frames>>
    PROVE  BaseTypeOK'
<1>1. e[2] \in Nodes /\ (e \notin vgep => e[3] \in Offsets)
  BY DEF BaseTypeOK, GraphTypeOK
<1>2. diff \subseteq Objs
  BY DEF BaseTypeOK
<1>3. fi' \subseteq Objs /\ toCollapse' \subseteq Objs
  BY <1>2, ObjectsAssumption DEF BaseTypeOK, ProcessVariantGep, ProcessNormalGep
<1>4. pts' \in [Nodes -> SUBSET Objs] /\ wl' \subseteq Nodes
  <2>1. CASE e \in vgep
    BY <1>1, <1>2, <2>1, GepTargetType, UnionPtsType DEF ProcessVariantGep
  <2>2. CASE e \notin vgep
    BY <1>1, <1>2, <2>2, GepTargetType, UnionPtsType DEF ProcessNormalGep
  <2> QED
    BY <2>1, <2>2
<1> QED
  BY <1>3, <1>4 DEF BaseTypeOK, GraphTypeOK, graphVars

-----------------------------------------------------------------------------
(* Collapsing *)

\* Calling collapseField on top of a call stack.
LEMMA CallCollapseFieldType ==
    ASSUME BaseTypeOK, NEW o \in Objs, NEW st \in Seq(Frame), CallCollapseField(o, st)
    PROVE  frames' \in Seq(Frame) /\ fi' \subseteq Objs
<1>1. CASE o \in ConstOrBlk
  BY <1>1 DEF CallCollapseField, BaseTypeOK
<1>2. CASE o \notin ConstOrBlk
  <2> DEFINE fr == [kind |-> "fields", base |-> BaseOf[o], todo |-> AllFields(o) \ {BaseOf[o]}]
  <2>1. BaseOf[o] \in Objs
    BY ObjectsAssumption
  <2>2. fr \in Frame
    BY <2>1 DEF Frame, FieldsFrame, AllFields
  <2>3. frames' = Append(st, fr) /\ fi' = fi \union {BaseOf[o]}
    BY <1>2 DEF CallCollapseField
  <2> HIDE DEF fr
  <2> QED
    BY <2>1, <2>2, <2>3 DEF BaseTypeOK
<1> QED
  BY <1>1, <1>2

LEMMA CollapseNextType == BaseTypeOK /\ CollapseNext => BaseTypeOK'
<1> SUFFICES ASSUME BaseTypeOK, CollapseNext PROVE BaseTypeOK'
  OBVIOUS
<1>1. PICK o \in toCollapse :
        toCollapse' = toCollapse \ {o} /\ CallCollapseField(o, frames)
  BY DEF CollapseNext
<1>2. frames \in Seq(Frame) /\ o \in Objs
  BY DEF BaseTypeOK, Frame
<1>3. frames' \in Seq(Frame) /\ fi' \subseteq Objs
  BY <1>1, <1>2, CallCollapseFieldType
<1> QED
  BY <1>1, <1>3 DEF BaseTypeOK, GraphTypeOK, CollapseNext, graphVars, Frame

\* Moving every pointer to a field over to the base.
LEMMA RebaseType ==
    ASSUME NEW S \in SUBSET Objs, NEW f, NEW b \in Objs
    PROVE  Rebase(S, f, b) \subseteq Objs
BY DEF Rebase

LEMMA CollapseOneFieldType == BaseTypeOK /\ CollapseOneField => BaseTypeOK'
<1> SUFFICES ASSUME BaseTypeOK, CollapseOneField PROVE BaseTypeOK'
  OBVIOUS
<1> DEFINE b == Top.base
           P(f) == [x \in Nodes |-> Rebase(pts[x], f, b)]
           revPts(f) == {x \in Nodes : f \in pts[x]}
<1>1. frames \in Seq(Frame) /\ frames # <<>> /\ Top.kind = "fields"
  BY DEF BaseTypeOK, Frame, CollapseOneField
<1>2. Top \in FieldsFrame
  BY <1>1, StackLemma DEF Frame, PtsFrame
<1>3. PICK f \in Top.todo :
        /\ wl' = wl \union {rep[x] : x \in revPts(f)}
        /\ reanalyze' = (reanalyze \/ revPts(f) # {})
        /\ frames' = SetTop([Top EXCEPT !.todo = @ \ {f}])
        /\ IF rep[f] = rep[b]
             THEN pts' = P(f) /\ UNCHANGED <<graphVars, propa>>
             ELSE MergeNode(P(f), rep[f], rep[b])
  BY DEF CollapseOneField
<1>4. f \in Objs /\ b \in Objs /\ rep[f] \in Nodes /\ rep[b] \in Nodes
  BY <1>2 DEF FieldsFrame, BaseTypeOK, GraphTypeOK, Nodes
<1>5. P(f) \in [Nodes -> SUBSET Objs]
  BY <1>4, RebaseType DEF BaseTypeOK
<1>6. /\ GraphTypeOK' /\ prog' = prog
      /\ pts' \in [Nodes -> SUBSET Objs] /\ propa' \in [Nodes -> SUBSET Objs]
  <2>1. CASE rep[f] = rep[b]
    BY <1>3, <1>5, <2>1 DEF BaseTypeOK, GraphTypeOK, graphVars
  <2>2. CASE rep[f] # rep[b]
    BY <1>3, <1>4, <1>5, <2>2, MergeNodeType DEF BaseTypeOK
  <2> QED
    BY <2>1, <2>2
<1>7. frames' \in Seq(Frame)
  <2>1. [Top EXCEPT !.todo = @ \ {f}] \in Frame
    BY <1>2 DEF Frame, FieldsFrame
  <2> QED
    BY <1>1, <1>3, <2>1, StackLemma
<1>8. wl' \subseteq Nodes /\ reanalyze' \in BOOLEAN
  BY <1>3 DEF BaseTypeOK, GraphTypeOK
<1> QED
  BY <1>6, <1>7, <1>8 DEF BaseTypeOK, CollapseOneField, Frame

LEMMA EndCollapseFieldType == BaseTypeOK /\ EndCollapseField => BaseTypeOK'
<1> SUFFICES ASSUME BaseTypeOK, EndCollapseField PROVE BaseTypeOK'
  OBVIOUS
<1>1. frames \in Seq(Frame) /\ frames # <<>> /\ Top.kind = "fields"
  BY DEF BaseTypeOK, Frame, EndCollapseField
<1>2. Top \in FieldsFrame
  BY <1>1, StackLemma DEF Frame, PtsFrame
<1>3. rep[Top.base] \in Nodes
  BY <1>2 DEF FieldsFrame, BaseTypeOK, GraphTypeOK, Nodes
<1>4. [kind |-> "pts", todo |-> pts[rep[Top.base]]] \in Frame
  BY <1>3 DEF Frame, PtsFrame, BaseTypeOK
<1>5. frames' \in Seq(Frame)
  BY <1>1, <1>4, StackLemma DEF EndCollapseField
<1> QED
  BY <1>5 DEF BaseTypeOK, GraphTypeOK, EndCollapseField, graphVars, ptaVars, Frame

LEMMA CollapseOnePointeeType == BaseTypeOK /\ CollapseOnePointee => BaseTypeOK'
<1> SUFFICES ASSUME BaseTypeOK, CollapseOnePointee PROVE BaseTypeOK'
  OBVIOUS
<1>1. frames \in Seq(Frame) /\ frames # <<>> /\ Top.kind = "pts"
  BY DEF BaseTypeOK, Frame, CollapseOnePointee
<1>2. Top \in PtsFrame
  BY <1>1, StackLemma DEF Frame, FieldsFrame
<1>3. PICK o \in Top.todo :
        LET st == SetTop([Top EXCEPT !.todo = @ \ {o}])
        IN  IF IsFI(o) THEN frames' = st /\ UNCHANGED fi ELSE CallCollapseField(o, st)
  BY DEF CollapseOnePointee
<1> DEFINE st == SetTop([Top EXCEPT !.todo = @ \ {o}])
<1>4. [Top EXCEPT !.todo = @ \ {o}] \in Frame
  BY <1>2 DEF Frame, PtsFrame
<1>5. st \in Seq(Frame)
  BY <1>1, <1>4, StackLemma
<1>6. o \in Objs
  BY <1>2 DEF PtsFrame
<1>7. IF IsFI(o) THEN frames' = st /\ UNCHANGED fi ELSE CallCollapseField(o, st)
  BY <1>3
<1> HIDE DEF st
<1>8. frames' \in Seq(Frame) /\ fi' \subseteq Objs
  <2>1. CASE IsFI(o)
    BY <1>5, <1>7, <2>1 DEF BaseTypeOK
  <2>2. CASE ~ IsFI(o)
    BY <1>5, <1>6, <1>7, <2>2, CallCollapseFieldType
  <2> QED
    BY <2>1, <2>2
<1> QED
  BY <1>8 DEF BaseTypeOK, GraphTypeOK, CollapseOnePointee, graphVars, Frame

LEMMA EndCollapsePtsType == BaseTypeOK /\ EndCollapsePts => BaseTypeOK'
<1> SUFFICES ASSUME BaseTypeOK, EndCollapsePts PROVE BaseTypeOK'
  OBVIOUS
<1>1. frames' \in Seq(Frame)
  BY StackLemma DEF BaseTypeOK, EndCollapsePts, Frame
<1> QED
  BY <1>1 DEF BaseTypeOK, GraphTypeOK, EndCollapsePts, graphVars, ptaVars, Frame

\* A step of the collapsing.
LEMMA CollapseStepType == BaseTypeOK /\ CollapseStep => BaseTypeOK'
BY CollapseOneFieldType, EndCollapseFieldType, CollapseOnePointeeType, EndCollapsePtsType
   DEF CollapseStep

-----------------------------------------------------------------------------
(* The call graph *)

LEMMA ResolveCallsType == BaseTypeOK /\ ResolveCalls => BaseTypeOK'
<1> SUFFICES ASSUME BaseTypeOK, ResolveCalls PROVE BaseTypeOK'
  OBVIOUS
<1>1. PICK new \in SUBSET Resolvable :
        /\ callEdges' = callEdges \union new
        /\ pending' = UNION {c.params : c \in new}
        /\ reanalyze' = (reanalyze \/ new # {})
  BY DEF ResolveCalls
<1>2. new \subseteq prog.calls
  BY DEF Resolvable
<1>3. prog.calls \subseteq Calls
  BY DEF BaseTypeOK, GraphTypeOK, Statements
<1>4. pending' \subseteq Nodes \X Nodes
  BY <1>1, <1>2, <1>3 DEF Calls
<1>5. callEdges' \subseteq prog'.calls /\ reanalyze' \in BOOLEAN
  BY <1>1, <1>2 DEF BaseTypeOK, ResolveCalls, graphVars
<1> QED
  BY <1>4, <1>5 DEF BaseTypeOK, GraphTypeOK, ResolveCalls, graphVars

-----------------------------------------------------------------------------
(* Canonical objects *)

(***************************************************************************)
(* Once objects lose their fields, objects that were taken for the same    *)
(* one still are, and a gep yields the same object as before.              *)
(***************************************************************************)
LEMMA CanonLemma ==
    ASSUME fi \subseteq fi', NEW o \in Objs
    PROVE  /\ Canon(o) \in Objs
           /\ \A x \in Objs : Canon(x) = Canon(o) => Canon(x)' = Canon(o)'
           /\ \A k \in Offsets : \A t :
                t = NormalGepTarget(o, k) => Canon(t)' = Canon(NormalGepTarget(o, k))'
<1>1. BaseOf[o] \in Objs /\ BaseOf[BaseOf[o]] = BaseOf[o]
  BY ObjectsAssumption
<1>2. ASSUME NEW x \in Objs, Canon(x) = Canon(o) PROVE Canon(x)' = Canon(o)'
  <2>1. BaseOf[x] \in Objs /\ BaseOf[BaseOf[x]] = BaseOf[x]
    BY ObjectsAssumption
  <2> QED
    BY <1>1, <1>2, <2>1 DEF Canon, IsFI
<1>3. ASSUME NEW k \in Offsets, NEW t, t = NormalGepTarget(o, k)
      PROVE  Canon(t)' = Canon(NormalGepTarget(o, k))'
  <2>1. CASE o \in ConstOrBlk \/ IsFI(o)
    BY <1>3, <2>1 DEF NormalGepTarget, IsFI
  <2>2. CASE ~ (o \in ConstOrBlk \/ IsFI(o))
    <3>1. t = FieldOf[<<o, k>>] /\ BaseOf[t] = BaseOf[o]
      BY <1>3, <2>2, ObjectsAssumption DEF NormalGepTarget
    <3> QED
      BY <2>2, <3>1 DEF NormalGepTarget, Canon, IsFI
  <2> QED
    BY <2>1, <2>2
<1> QED
  BY <1>1, <1>2, <1>3 DEF Canon

(***************************************************************************)
(* If everything n points to is still held, now by m, then so is all that  *)
(* n held.                                                                 *)
(***************************************************************************)
LEMMA HoldsLemma ==
    ASSUME BaseTypeOK, BaseTypeOK', fi \subseteq fi',
           NEW n \in Nodes, NEW m \in Nodes,
           \A x \in pts[n] : Holds(m, x)'
    PROVE  /\ \A o \in Objs : Holds(n, o) => Holds(m, o)'
           /\ \A o \in Objs, k \in Offsets :
                Holds(n, NormalGepTarget(o, k)) => Holds(m, NormalGepTarget(o, k))'
<1>1. ASSUME NEW o \in Objs, Holds(n, o) PROVE Holds(m, o)'
  <2>1. PICK x \in pts[n] : Canon(x) = Canon(o)
    BY <1>1 DEF Holds
  <2>2. x \in Objs
    BY DEF BaseTypeOK
  <2>3. Canon(x)' = Canon(o)'
    BY <2>1, <2>2, CanonLemma
  <2>4. Holds(m, x)'
    OBVIOUS
  <2> QED
    BY <2>3, <2>4 DEF Holds
<1>2. ASSUME NEW o \in Objs, NEW k \in Offsets, Holds(n, NormalGepTarget(o, k))
      PROVE  Holds(m, NormalGepTarget(o, k))'
  <2>1. PICK t : t = NormalGepTarget(o, k)
    OBVIOUS
  <2>2. t \in Objs /\ Holds(n, t)
    BY <1>2, <2>1, GepTargetType
  <2>3. Holds(m, t)'
    BY <1>1, <2>2
  <2>4. Canon(t)' = Canon(NormalGepTarget(o, k))'
    BY <2>1, CanonLemma
  <2> QED
    BY <2>3, <2>4 DEF Holds
<1> QED
  BY <1>1, <1>2

-----------------------------------------------------------------------------
(* Steps that only add to the points-to sets *)

LEMMA GrowthLemma ==
    ASSUME BaseTypeOK, BaseTypeOK', fi \subseteq fi',
           NEW n \in Nodes, pts[n] \subseteq pts'[n]
    PROVE  /\ \A o \in Objs : Holds(n, o) => Holds(n, o)'
           /\ \A o \in Objs, k \in Offsets :
                Holds(n, NormalGepTarget(o, k)) => Holds(n, NormalGepTarget(o, k))'
<1>1. \A x \in pts[n] : Holds(n, x)'
  BY DEF Holds
<1> QED
  BY <1>1, HoldsLemma

\* The ends of an edge are nodes, and what was sent along it are objects.
LEMMA EdgeType ==
    ASSUME BaseTypeOK
    PROVE  /\ \A e \in copy : e[1] \in Nodes /\ e[2] \in Nodes
           /\ \A e \in ngep : e[1] \in Nodes /\ e[2] \in Nodes /\ e[3] \in Offsets
           /\ \A e \in vgep : e[1] \in Nodes /\ e[2] \in Nodes
           /\ \A n \in Nodes : propa[n] \subseteq Objs /\ pts[n] \subseteq Objs
BY DEF BaseTypeOK, GraphTypeOK

\* A gep with a constant offset is no gep with a variable one.
LEMMA GepKinds ==
    ASSUME BaseTypeOK PROVE \A e \in ngep : e \notin vgep
BY DEF BaseTypeOK, GraphTypeOK

\* What was sent keeps being held.
LEMMA GrowthInv ==
    ASSUME BaseTypeOK, BaseTypeOK', fi \subseteq fi',
           \A n \in Nodes : pts[n] \subseteq pts'[n],
           UNCHANGED <<propa, diff, copy, ngep, vgep>>,
           NEW todo, SentIsHeld, CopySent, GepSent(todo)
    PROVE  SentIsHeld' /\ CopySent' /\ GepSent(todo)'
<1>1. SentIsHeld'
  <2>1. ASSUME NEW n \in Nodes, NEW o \in propa[n] PROVE Holds(n, o)'
    BY <2>1, GrowthLemma, EdgeType DEF SentIsHeld
  <2> QED
    BY <2>1 DEF SentIsHeld
<1>2. CopySent'
  <2>1. ASSUME NEW e \in copy, NEW o \in propa[e[1]] PROVE Holds(e[2], o)'
    BY <2>1, GrowthLemma, EdgeType DEF CopySent
  <2> QED
    BY <2>1 DEF CopySent
<1>3. GepSent(todo)'
  <2> DEFINE Sent(e) == IF e \in todo THEN propa[e[1]] \ diff ELSE propa[e[1]]
  <2>1. ASSUME NEW e \in ngep, NEW o \in Sent(e) PROVE Holds(e[2], NormalGepTarget(o, e[3]))'
    <3>1. e[1] \in Nodes /\ e[2] \in Nodes /\ e[3] \in Offsets /\ o \in Objs
      BY <2>1, EdgeType
    <3>2. Holds(e[2], NormalGepTarget(o, e[3]))
      BY <2>1 DEF GepSent
    <3> QED
      BY <3>1, <3>2, GrowthLemma
  <2>2. ASSUME NEW e \in vgep, NEW o \in Sent(e) PROVE Holds(e[2], VariantGepTarget(o))'
    <3>1. e[1] \in Nodes /\ e[2] \in Nodes /\ o \in Objs
      BY <2>2, EdgeType
    <3>2. Holds(e[2], VariantGepTarget(o)) /\ VariantGepTarget(o) \in Objs
      BY <2>2, <3>1, GepTargetType DEF GepSent
    <3>3. \A y \in Objs : Holds(e[2], y) => Holds(e[2], y)'
      BY <3>1, GrowthLemma
    <3>4. PICK y \in Objs : y = VariantGepTarget(o)
      BY <3>2
    <3>5. Holds(e[2], y)'
      BY <3>2, <3>3, <3>4
    <3> QED
      BY <3>4, <3>5 DEF Holds, VariantGepTarget
  <2> QED
    BY <2>1, <2>2 DEF GepSent
<1> QED
  BY <1>1, <1>2, <1>3

\* A call stack that stays while objects lose their fields.
LEMMA StackKept ==
    ASSUME fi \subseteq fi', CollapsingFI, UNCHANGED frames
    PROVE  CollapsingFI'
<1>1. MergingFrame \subseteq MergingFrame'
  BY DEF MergingFrame
<1>2. \A A, B : A \subseteq B => Seq(A) \subseteq Seq(B)
  BY SMT
<1> QED
  BY <1>1, <1>2 DEF CollapsingFI

-----------------------------------------------------------------------------
(* Adding a copy edge *)

\* The propagated set of the source is cut to what the destination has sent, so holds.
LEMMA AddCopyEdgeInv ==
    ASSUME BaseTypeOK, PropagationInv({}),
           NEW a \in pending, AddCopyEdge(a[1], a[2]),
           UNCHANGED <<ngep, vgep, pts, diff, fi, frames>>
    PROVE  PropagationInv({})'
<1>1. AddCopyEdge(a[1], a[2])
  OBVIOUS
<1>2. PICK s \in Nodes, d \in Nodes : s = rep[a[1]] /\ d = rep[a[2]]
  BY DEF BaseTypeOK, GraphTypeOK
<1>3. UNCHANGED <<ngep, vgep, pts, diff, fi, frames>>
  OBVIOUS
<1>4. \A n, o : Holds(n, o) <=> Holds(n, o)'
  BY <1>3 DEF Holds, Canon, IsFI
<1>5. \A n \in Nodes : propa'[n] \subseteq propa[n]
  BY <1>1, <1>2 DEF AddCopyEdge, BaseTypeOK
<1>6. SentIsHeld'
  BY <1>4, <1>5 DEF PropagationInv, SentIsHeld
<1>7. CopySent'
  <2>1. ASSUME NEW e \in copy, NEW o \in propa'[e[1]] PROVE Holds(e[2], o)'
    BY <1>4, <1>5, <2>1, EdgeType DEF PropagationInv, CopySent
  <2>2. CASE NewCopyEdge(a[1], a[2])
    <3>1. copy' = copy \union {<<s, d>>} /\ propa'[s] = propa[s] \intersect propa[d]
      BY <1>1, <1>2, <2>2 DEF AddCopyEdge, BaseTypeOK
    <3>2. \A o \in propa[d] : Holds(d, o)
      BY DEF PropagationInv, SentIsHeld
    <3>3. \A o \in propa'[s] : Holds(d, o)'
      BY <1>4, <3>1, <3>2
    <3> QED
      BY <2>1, <3>1, <3>3 DEF CopySent
  <2>3. CASE ~ NewCopyEdge(a[1], a[2])
    BY <1>1, <2>1, <2>3 DEF AddCopyEdge, CopySent
  <2> QED
    BY <2>2, <2>3
<1>8. GepSent({})'
  <2>1. ASSUME NEW e \in ngep, NEW o \in propa'[e[1]]
        PROVE  Holds(e[2], NormalGepTarget(o, e[3]))'
    <3>1. Holds(e[2], NormalGepTarget(o, e[3]))
      BY <1>5, <2>1, EdgeType DEF PropagationInv, GepSent
    <3> QED
      BY <1>3, <3>1 DEF Holds, Canon, NormalGepTarget, IsFI
  <2>2. ASSUME NEW e \in vgep, NEW o \in propa'[e[1]]
        PROVE  Holds(e[2], VariantGepTarget(o))'
    <3>1. Holds(e[2], VariantGepTarget(o))
      BY <1>5, <2>2, EdgeType DEF PropagationInv, GepSent
    <3> QED
      BY <1>3, <3>1 DEF Holds, Canon, VariantGepTarget, IsFI
  <2> QED
    BY <1>3, <2>1, <2>2 DEF GepSent
<1>9. CollapsingFI'
  BY <1>3, StackKept DEF PropagationInv
<1> QED
  BY <1>6, <1>7, <1>8, <1>9 DEF PropagationInv

LEMMA AddPendingEdgeInv ==
    ASSUME BaseTypeOK, PropagationInv({}), AddPendingEdge
    PROVE  PropagationInv({})'
BY AddCopyEdgeInv DEF AddPendingEdge

-----------------------------------------------------------------------------
(* Sending the difference *)

(***************************************************************************)
(* The difference of n goes along its copy edges at once; the gep edges of *)
(* n owe it until they are processed.                                      *)
(***************************************************************************)
LEMMA PropagateCopiesInv ==
    ASSUME BaseTypeOK, NEW n \in Nodes, PropagationInv({}), PropagateCopies(n),
           UNCHANGED <<graphVars, fi, reanalyze, callEdges, workVars>>,
           NEW todo,
           pts[n] # propa[n] => {e \in ngep \union vgep : e[1] = n} \subseteq todo
    PROVE  PropagationInv(todo)'
<1> DEFINE new == pts[n] \ propa[n]
<1>1. BaseTypeOK'
  BY PropagateCopiesType
<1>2. UNCHANGED <<copy, ngep, vgep, fi, frames>>
  BY DEF graphVars, workVars
<1>3. /\ diff' = new
      /\ \A x \in Nodes : propa'[x] = IF x = n THEN pts[n] ELSE propa[x]
      /\ \A x \in Nodes : pts'[x] = IF <<n, x>> \in copy THEN pts[x] \union new ELSE pts[x]
  BY DEF PropagateCopies, BaseTypeOK
<1>4. \A x \in Nodes : pts[x] \subseteq pts'[x]
  BY <1>3
<1>5. \A x \in Nodes, o \in Objs : Holds(x, o) => Holds(x, o)'
  BY <1>1, <1>2, <1>4, GrowthLemma
<1>6. \A x \in Nodes, o \in Objs, k \in Offsets :
         Holds(x, NormalGepTarget(o, k)) => Holds(x, NormalGepTarget(o, k))'
  BY <1>1, <1>2, <1>4, GrowthLemma
<1>7. SentIsHeld'
  <2>1. ASSUME NEW x \in Nodes, NEW o \in propa'[x] PROVE Holds(x, o)'
    <3>1. CASE x = n
      BY <1>3, <1>4, <2>1, <3>1 DEF Holds
    <3>2. CASE x # n
      BY <1>3, <1>5, <2>1, <3>2, EdgeType DEF PropagationInv, SentIsHeld
    <3> QED
      BY <3>1, <3>2
  <2> QED
    BY <2>1 DEF SentIsHeld
<1>8. CopySent'
  <2>1. ASSUME NEW e \in copy, NEW o \in propa'[e[1]] PROVE Holds(e[2], o)'
    <3>0. e = <<e[1], e[2]>> /\ e[1] \in Nodes /\ e[2] \in Nodes
      BY DEF BaseTypeOK, GraphTypeOK
    <3>1. CASE o \in propa[e[1]]
      BY <1>5, <3>0, <3>1, EdgeType DEF PropagationInv, CopySent
    <3>2. CASE o \notin propa[e[1]]
      <4>1. e[1] = n /\ o \in new
        BY <1>3, <2>1, <3>0, <3>2
      <4>2. o \in pts'[e[2]]
        BY <1>3, <3>0, <4>1
      <4> QED
        BY <4>2 DEF Holds
    <3> QED
      BY <3>1, <3>2
  <2> QED
    BY <1>2, <2>1 DEF CopySent
<1>9. GepSent(todo)'
  <2> DEFINE Sent(e) == IF e \in todo THEN propa'[e[1]] \ diff' ELSE propa'[e[1]]
  <2>1. ASSUME NEW e \in ngep \union vgep, e[1] \in Nodes PROVE Sent(e) \subseteq propa[e[1]]
    BY <1>3, <2>1
  <2>2. ASSUME NEW e \in ngep, NEW o \in Sent(e)
        PROVE  Holds(e[2], NormalGepTarget(o, e[3]))'
    <3>1. e[1] \in Nodes /\ e[2] \in Nodes /\ e[3] \in Offsets /\ o \in propa[e[1]]
      BY <2>1, <2>2, EdgeType
    <3>2. Holds(e[2], NormalGepTarget(o, e[3])) /\ o \in Objs
      BY <3>1, EdgeType DEF PropagationInv, GepSent
    <3> QED
      BY <1>6, <3>1, <3>2
  <2>3. ASSUME NEW e \in vgep, NEW o \in Sent(e) PROVE Holds(e[2], VariantGepTarget(o))'
    <3>1. e[1] \in Nodes /\ e[2] \in Nodes /\ o \in propa[e[1]]
      BY <2>1, <2>3, EdgeType
    <3>2. Holds(e[2], VariantGepTarget(o)) /\ o \in Objs
      BY <3>1, EdgeType DEF PropagationInv, GepSent
    <3>3. PICK y \in Objs : y = VariantGepTarget(o)
      BY <3>2, GepTargetType
    <3>4. Holds(e[2], y)'
      BY <1>5, <3>1, <3>2, <3>3
    <3> QED
      BY <3>3, <3>4 DEF Holds, VariantGepTarget
  <2> QED
    BY <1>2, <2>2, <2>3 DEF GepSent
<1>10. CollapsingFI'
  BY <1>2, StackKept DEF PropagationInv
<1> QED
  BY <1>7, <1>8, <1>9, <1>10 DEF PropagationInv

-----------------------------------------------------------------------------
(* Processing a gep edge *)

LEMMA UnionPtsGrows ==
    ASSUME BaseTypeOK, NEW d \in Nodes, NEW S \in SUBSET Objs, UnionPts(d, S)
    PROVE  S \subseteq pts'[d] /\ \A n \in Nodes : pts[n] \subseteq pts'[n]
BY DEF BaseTypeOK, UnionPts

\* The gep edge e has been shown the difference, and owes nothing any more.
LEMMA ProcessGepInv ==
    ASSUME BaseTypeOK, NEW todo, PropagationInv(todo), NEW e \in ngep \union vgep,
           IF e \in vgep THEN ProcessVariantGep(e) ELSE ProcessNormalGep(e),
           UNCHANGED <<graphVars, propa, diff, reanalyze, callEdges, pending, frames>>
    PROVE  PropagationInv(todo \ {e})'
<1>1. BaseTypeOK'
  BY ProcessGepType
<1>2. fi \subseteq fi'
  BY DEF ProcessVariantGep, ProcessNormalGep
<1>3. e[2] \in Nodes /\ diff \subseteq Objs
  BY EdgeType DEF BaseTypeOK
<1>4. UNCHANGED <<propa, diff, copy, ngep, vgep, frames>>
  BY DEF graphVars
<1> DEFINE S == IF e \in vgep THEN {VariantGepTarget(o) : o \in diff}
                              ELSE {NormalGepTarget(o, e[3]) : o \in diff}
<1>5. S \in SUBSET Objs /\ UnionPts(e[2], S)
  <2>1. CASE e \in vgep
    BY <1>3, <2>1, GepTargetType DEF ProcessVariantGep
  <2>2. CASE e \notin vgep
    BY <1>3, <2>2, GepTargetType, EdgeType DEF ProcessNormalGep
  <2> QED
    BY <2>1, <2>2
<1>6. S \subseteq pts'[e[2]] /\ \A n \in Nodes : pts[n] \subseteq pts'[n]
  BY <1>3, <1>5, UnionPtsGrows
<1>7. SentIsHeld' /\ CopySent' /\ GepSent(todo)'
  BY <1>1, <1>2, <1>4, <1>6, GrowthInv DEF PropagationInv
<1>8. GepSent(todo \ {e})'
  <2>1. ASSUME NEW f \in ngep, NEW o \in propa[f[1]], f \notin todo \ {e}
        PROVE  Holds(f[2], NormalGepTarget(o, f[3]))'
    <3>1. CASE f # e \/ o \notin diff
      BY <1>4, <1>7, <2>1, <3>1 DEF GepSent
    <3>2. CASE f = e /\ o \in diff
      <4>1. PICK y : y = NormalGepTarget(o, f[3])
        OBVIOUS
      <4>2. y \in S
        BY <3>2, <4>1, GepKinds
      <4>3. o \in Objs /\ f[3] \in Offsets
        BY <1>3, <3>2, EdgeType
      <4>4. Canon(y)' = Canon(NormalGepTarget(o, f[3]))'
        BY <1>2, <4>1, <4>3, CanonLemma
      <4> QED
        BY <1>6, <3>2, <4>2, <4>4 DEF Holds
    <3> QED
      BY <3>1, <3>2
  <2>2. ASSUME NEW f \in vgep, NEW o \in propa[f[1]], f \notin todo \ {e}
        PROVE  Holds(f[2], VariantGepTarget(o))'
    <3>1. CASE f # e \/ o \notin diff
      BY <1>4, <1>7, <2>2, <3>1 DEF GepSent
    <3>2. CASE f = e /\ o \in diff
      <4>1. PICK y : y = VariantGepTarget(o)
        OBVIOUS
      <4>2. y \in pts'[f[2]]
        BY <1>6, <3>2, <4>1
      <4> QED
        BY <4>1, <4>2 DEF Holds, VariantGepTarget
    <3> QED
      BY <3>1, <3>2
  <2>3. ASSUME NEW f \in ngep, f \in todo \ {e}, NEW o \in propa[f[1]] \ diff
        PROVE  Holds(f[2], NormalGepTarget(o, f[3]))'
    BY <1>4, <1>7, <2>3 DEF GepSent
  <2>4. ASSUME NEW f \in vgep, f \in todo \ {e}, NEW o \in propa[f[1]] \ diff
        PROVE  Holds(f[2], VariantGepTarget(o))'
    BY <1>4, <1>7, <2>4 DEF GepSent
  <2> QED
    BY <1>4, <2>1, <2>2, <2>3, <2>4 DEF GepSent
<1>9. CollapsingFI'
  BY <1>2, <1>4, StackKept DEF PropagationInv
<1> QED
  BY <1>7, <1>8, <1>9 DEF PropagationInv

-----------------------------------------------------------------------------
(* Merging *)

\* An edge of the graph after a merge is an edge from before, its ends moved; it was
\* not inside the merged node.
LEMMA MovedEdges ==
    ASSUME BaseTypeOK, NEW n \in Nodes, NEW r \in Nodes, MoveEdgesToRepNode(n, r)
    PROVE  /\ \A e \in copy' : \E f \in copy : ~ Inside(f, n, r)
                /\ e[1] = Onto(f[1], n, r) /\ e[2] = Onto(f[2], n, r)
           /\ \A e \in vgep' : \E f \in vgep : ~ Inside(f, n, r)
                /\ e[1] = Onto(f[1], n, r) /\ e[2] = Onto(f[2], n, r)
           /\ \A e \in ngep' : \E f \in ngep : ~ Inside(f, n, r)
                /\ e[1] = Onto(f[1], n, r) /\ e[2] = Onto(f[2], n, r) /\ e[3] = f[3]
<1>1. ASSUME NEW E, NEW e \in Retarget(E, n, r)
      PROVE  \E f \in E : e[1] = Onto(f[1], n, r) /\ e[2] = Onto(f[2], n, r)
  BY <1>1 DEF Retarget
<1>2. ASSUME NEW E, NEW e \in RetargetGep(E, n, r)
      PROVE  \E f \in E : e[1] = Onto(f[1], n, r) /\ e[2] = Onto(f[2], n, r) /\ e[3] = f[3]
  BY <1>2 DEF RetargetGep
<1>3. \A e \in copy' : \E f \in copy : ~ Inside(f, n, r) /\
         e[1] = Onto(f[1], n, r) /\ e[2] = Onto(f[2], n, r)
  <2>1. copy' = Retarget({e \in copy : ~ Inside(e, n, r)}, n, r)
    BY DEF MoveEdgesToRepNode
  <2> QED
    BY <1>1, <2>1
<1>4. \A e \in vgep' : \E f \in vgep : ~ Inside(f, n, r) /\
         e[1] = Onto(f[1], n, r) /\ e[2] = Onto(f[2], n, r)
  <2>1. vgep' = Retarget({e \in vgep : ~ Inside(e, n, r)}, n, r)
    BY DEF MoveEdgesToRepNode
  <2> QED
    BY <1>1, <2>1
<1>5. \A e \in ngep' : \E f \in ngep : ~ Inside(f, n, r) /\
         e[1] = Onto(f[1], n, r) /\ e[2] = Onto(f[2], n, r) /\ e[3] = f[3]
  <2> DEFINE stay  == {e \in ngep : ~ Touches(e, n)}
             inner == {e \in ngep : Touches(e, n) /\ ~ Inside(e, n, r)}
             moved == RetargetGep(inner, n, r)
  <2>1. ngep' \in AddNormalGeps(stay, moved)
    BY DEF MoveEdgesToRepNode
  <2>2. ngep' \subseteq stay \union moved
    BY <2>1 DEF AddNormalGeps
  <2>3. ASSUME NEW e \in moved
        PROVE  \E f \in ngep : ~ Inside(f, n, r) /\
                 e[1] = Onto(f[1], n, r) /\ e[2] = Onto(f[2], n, r) /\ e[3] = f[3]
    BY <1>2, <2>3
  <2>4. ASSUME NEW e \in stay
        PROVE  \E f \in ngep : ~ Inside(f, n, r) /\
                 e[1] = Onto(f[1], n, r) /\ e[2] = Onto(f[2], n, r) /\ e[3] = f[3]
    BY <2>4 DEF Inside, Touches, Onto
  <2> QED
    BY <2>2, <2>3, <2>4
<1> QED
  BY <1>3, <1>4, <1>5

(***************************************************************************)
(* Merging n into r: r keeps as propagated only what both had sent, so an  *)
(* edge of either has been shown it; p is the points-to data with the      *)
(* fields of an object replaced by the object.                             *)
(***************************************************************************)
LEMMA MergeInv ==
    ASSUME BaseTypeOK, BaseTypeOK', SentIsHeld, CopySent, GepSent({}),
           NEW p \in [Nodes -> SUBSET Objs],
           \A x \in Nodes : \A o \in pts[x] : \E y \in p[x] : Canon(y) = Canon(o),
           NEW n \in Nodes, NEW r \in Nodes, MergeNode(p, n, r), UNCHANGED fi
    PROVE  SentIsHeld' /\ CopySent' /\ GepSent({})'
<1> DEFINE to(x) == Onto(x, n, r)
<1>1. \A x \in Nodes : to(x) \in Nodes
  BY DEF Onto
<1>2. \A x \in Nodes : pts'[x] = IF x = r THEN p[r] \union p[n] ELSE p[x]
  BY DEF MergeNode
<1>3. \A x \in Nodes : propa'[x] \subseteq propa[x] /\ propa'[to(x)] \subseteq propa[x]
  BY DEF MergeNode, BaseTypeOK, Onto
<1>4. \A x \in Nodes : p[x] \subseteq pts'[x] /\ p[x] \subseteq pts'[to(x)]
  BY <1>2 DEF Onto
<1> HIDE DEF to
<1>5. \A o : Canon(o)' = Canon(o)
  BY DEF Canon, IsFI
<1>6. \A x \in Nodes : \A o \in pts[x] : Holds(x, o)' /\ Holds(to(x), o)'
  BY <1>1, <1>4, <1>5 DEF Holds
<1>7. SentIsHeld'
  <2>1. ASSUME NEW x \in Nodes, NEW o \in propa'[x] PROVE Holds(x, o)'
    <3>1. o \in Objs /\ Holds(x, o)
      BY <1>3, <2>1, EdgeType DEF SentIsHeld
    <3> QED
      BY <1>6, <3>1, HoldsLemma
  <2> QED
    BY <2>1 DEF SentIsHeld
<1>8. MoveEdgesToRepNode(n, r)
  BY DEF MergeNode
<1>9. CopySent'
  <2>1. ASSUME NEW e \in copy', NEW o \in propa'[e[1]] PROVE Holds(e[2], o)'
    <3>1. PICK f \in copy : e[1] = to(f[1]) /\ e[2] = to(f[2])
      BY <1>8, MovedEdges DEF to
    <3>2. f[1] \in Nodes /\ f[2] \in Nodes /\ o \in propa[f[1]]
      BY <1>3, <2>1, <3>1, EdgeType
    <3>3. Holds(f[2], o) /\ o \in Objs
      BY <3>2, EdgeType DEF CopySent
    <3>4. Holds(to(f[2]), o)'
      BY <1>1, <1>6, <3>2, <3>3, HoldsLemma
    <3> QED
      BY <3>1, <3>4 DEF Holds
  <2> QED
    BY <2>1 DEF CopySent
<1>10. GepSent({})'
  <2>1. ASSUME NEW e \in ngep', NEW o \in propa'[e[1]]
        PROVE  Holds(e[2], NormalGepTarget(o, e[3]))'
    <3>1. PICK f \in ngep : e[1] = to(f[1]) /\ e[2] = to(f[2]) /\ e[3] = f[3]
      BY <1>8, MovedEdges DEF to
    <3>2. f[1] \in Nodes /\ f[2] \in Nodes /\ f[3] \in Offsets /\ o \in propa[f[1]]
      BY <1>3, <2>1, <3>1, EdgeType
    <3>3. Holds(f[2], NormalGepTarget(o, f[3])) /\ o \in Objs
      BY <3>2, EdgeType DEF GepSent
    <3>4. PICK y \in Objs : y = NormalGepTarget(o, f[3])
      BY <3>2, <3>3, GepTargetType
    <3>5. Holds(to(f[2]), y)'
      BY <1>1, <1>6, <3>2, <3>3, <3>4, HoldsLemma
    <3> QED
      BY <3>1, <3>4, <3>5 DEF Holds, NormalGepTarget, IsFI, Canon
  <2>2. ASSUME NEW e \in vgep', NEW o \in propa'[e[1]]
        PROVE  Holds(e[2], VariantGepTarget(o))'
    <3>1. PICK f \in vgep : e[1] = to(f[1]) /\ e[2] = to(f[2])
      BY <1>8, MovedEdges DEF to
    <3>2. f[1] \in Nodes /\ f[2] \in Nodes /\ o \in propa[f[1]]
      BY <1>3, <2>2, <3>1, EdgeType
    <3>3. Holds(f[2], VariantGepTarget(o)) /\ o \in Objs
      BY <3>2, EdgeType DEF GepSent
    <3>4. PICK y \in Objs : y = VariantGepTarget(o)
      BY <3>3, GepTargetType
    <3>5. Holds(to(f[2]), y)'
      BY <1>1, <1>6, <3>2, <3>3, <3>4, HoldsLemma
    <3> QED
      BY <3>1, <3>4, <3>5 DEF Holds, VariantGepTarget
  <2> QED
    BY <2>1, <2>2 DEF GepSent
<1> QED
  BY <1>7, <1>9, <1>10

-----------------------------------------------------------------------------
(* Collapsing *)

\* The frames that CollapsingFI allows on the call stack.
OkFrame == MergingFrame \union PtsFrame

LEMMA CallCollapseFieldInv ==
    ASSUME BaseTypeOK, NEW o \in Objs, NEW st \in Seq(OkFrame), CallCollapseField(o, st)
    PROVE  CollapsingFI' /\ fi \subseteq fi'
<1>1. fi \subseteq fi'
  BY DEF CallCollapseField
<1>2. OkFrame \subseteq OkFrame'
  BY <1>1 DEF OkFrame, MergingFrame
<1>3. \A A, B : A \subseteq B => Seq(A) \subseteq Seq(B)
  BY SMT
<1>4. PICK F : F = OkFrame'
  OBVIOUS
<1>5. st \in Seq(F)
  BY <1>2, <1>3, <1>4
<1>6. frames' \in Seq(F)
  <2>1. CASE o \in ConstOrBlk
    BY <1>5, <2>1 DEF CallCollapseField
  <2>2. CASE o \notin ConstOrBlk
    <3> DEFINE fr == [kind |-> "fields", base |-> BaseOf[o], todo |-> AllFields(o) \ {BaseOf[o]}]
    <3>1. BaseOf[o] \in Objs /\ BaseOf[BaseOf[o]] = BaseOf[o]
      BY ObjectsAssumption
    <3>2. fr \in FieldsFrame
      BY <3>1 DEF FieldsFrame, AllFields
    <3>3. BaseOf[o] \in fi' /\ frames' = Append(st, fr)
      BY <2>2 DEF CallCollapseField
    <3>4. fr \in F
      BY <1>4, <3>1, <3>2, <3>3 DEF OkFrame, MergingFrame, AllFields
    <3> HIDE DEF fr
    <3> QED
      BY <1>5, <3>3, <3>4
  <2> QED
    BY <2>1, <2>2
<1> QED
  BY <1>1, <1>4, <1>6 DEF CollapsingFI, OkFrame

LEMMA CollapseNextInv ==
    ASSUME BaseTypeOK, PropagationInv({}), CollapseNext
    PROVE  PropagationInv({})'
<1>1. PICK o \in toCollapse : CallCollapseField(o, frames)
  BY DEF CollapseNext
<1>2. o \in Objs /\ frames \in Seq(OkFrame)
  BY DEF BaseTypeOK, PropagationInv, CollapsingFI, OkFrame
<1>3. CollapsingFI' /\ fi \subseteq fi'
  BY <1>1, <1>2, CallCollapseFieldInv
<1>4. BaseTypeOK'
  BY CollapseNextType
<1>5. UNCHANGED <<propa, diff, copy, ngep, vgep, pts>>
  BY DEF CollapseNext, graphVars
<1> QED
  BY <1>3, <1>4, <1>5, GrowthInv DEF PropagationInv

\* Replacing a field by its base changes no canonical object.
LEMMA RebaseCanon ==
    ASSUME NEW S, NEW f, NEW b \in fi, BaseOf[f] = b, BaseOf[b] = b
    PROVE  \A o \in S : \E y \in Rebase(S, f, b) : Canon(y) = Canon(o)
BY DEF Rebase, Canon, IsFI

LEMMA CollapseOneFieldInv ==
    ASSUME BaseTypeOK, PropagationInv({}), CollapseOneField
    PROVE  PropagationInv({})'
<1> DEFINE b == Top.base
           P(f) == [x \in Nodes |-> Rebase(pts[x], f, b)]
<1>1. frames \in Seq(OkFrame) /\ frames # <<>> /\ Top.kind = "fields"
  BY DEF PropagationInv, CollapsingFI, OkFrame, CollapseOneField
<1>2. Top \in MergingFrame
  BY <1>1, StackLemma DEF OkFrame, PtsFrame
<1>3. PICK f \in Top.todo :
        /\ frames' = SetTop([Top EXCEPT !.todo = @ \ {f}])
        /\ IF rep[f] = rep[b]
             THEN pts' = P(f) /\ UNCHANGED <<graphVars, propa>>
             ELSE MergeNode(P(f), rep[f], rep[b])
  BY DEF CollapseOneField
<1>4. /\ f \in Objs /\ b \in Objs /\ b \in fi /\ BaseOf[f] = b /\ BaseOf[b] = b
      /\ rep[f] \in Nodes /\ rep[b] \in Nodes
  BY <1>2 DEF MergingFrame, FieldsFrame, BaseTypeOK, GraphTypeOK, Nodes
<1>5. PICK p \in [Nodes -> SUBSET Objs] : p = P(f)
  BY <1>4, RebaseType DEF BaseTypeOK
<1>6. \A x \in Nodes : \A o \in pts[x] : \E y \in p[x] : Canon(y) = Canon(o)
  BY <1>4, <1>5, RebaseCanon
<1>7. BaseTypeOK' /\ UNCHANGED <<fi, diff>>
  BY CollapseOneFieldType DEF CollapseOneField
<1>8. SentIsHeld' /\ CopySent' /\ GepSent({})'
  <2>1. CASE rep[f] # rep[b]
    BY <1>3, <1>4, <1>5, <1>6, <1>7, <2>1, MergeInv DEF PropagationInv
  <2>2. CASE rep[f] = rep[b]
    <3>1. pts' = p /\ UNCHANGED <<propa, copy, ngep, vgep>>
      BY <1>3, <1>5, <2>2 DEF graphVars
    <3>2. \A x \in Nodes : \A o \in pts[x] : Holds(x, o)'
      BY <1>6, <1>7, <3>1 DEF Holds, Canon, IsFI
    <3>3. \A x \in Nodes, o \in Objs : Holds(x, o) => Holds(x, o)'
      BY <1>7, <3>2, HoldsLemma
    <3>4. SentIsHeld' /\ CopySent'
      BY <3>1, <3>3, EdgeType DEF PropagationInv, SentIsHeld, CopySent
    <3>5. \A o, k : NormalGepTarget(o, k)' = NormalGepTarget(o, k)
      BY <1>7 DEF NormalGepTarget, IsFI
    <3>6. ASSUME NEW e \in ngep, NEW o \in propa[e[1]]
          PROVE  Holds(e[2], NormalGepTarget(o, e[3]))'
      <4>1. o \in Objs /\ e[2] \in Nodes /\ e[3] \in Offsets
        BY <3>6, EdgeType
      <4>2. PICK y \in Objs : y = NormalGepTarget(o, e[3])
        BY <4>1, GepTargetType
      <4>3. Holds(e[2], y)'
        BY <3>3, <3>6, <4>1, <4>2 DEF PropagationInv, GepSent
      <4> QED
        BY <3>5, <4>2, <4>3 DEF Holds
    <3>7. ASSUME NEW e \in vgep, NEW o \in propa[e[1]]
          PROVE  Holds(e[2], VariantGepTarget(o))'
      <4>1. o \in Objs /\ e[2] \in Nodes
        BY <3>7, EdgeType
      <4>2. PICK y \in Objs : y = VariantGepTarget(o)
        BY <4>1, GepTargetType
      <4>3. Holds(e[2], y)'
        BY <3>3, <3>7, <4>1, <4>2 DEF PropagationInv, GepSent
      <4> QED
        BY <4>2, <4>3 DEF Holds, VariantGepTarget
    <3>8. GepSent({})'
      BY <3>1, <3>6, <3>7 DEF GepSent
    <3> QED
      BY <3>4, <3>8
  <2> QED
    BY <2>1, <2>2
<1>9. CollapsingFI'
  <2>1. [Top EXCEPT !.todo = @ \ {f}] \in OkFrame
    BY <1>2 DEF OkFrame, MergingFrame, FieldsFrame
  <2>2. frames' \in Seq(OkFrame)
    BY <1>1, <1>3, <2>1, StackLemma
  <2> QED
    BY <1>7, <2>2 DEF CollapsingFI, OkFrame, MergingFrame
<1> QED
  BY <1>8, <1>9 DEF PropagationInv

LEMMA EndCollapseFieldInv ==
    ASSUME BaseTypeOK, PropagationInv({}), EndCollapseField
    PROVE  PropagationInv({})'
<1>1. frames \in Seq(OkFrame) /\ frames # <<>> /\ Top.kind = "fields"
  BY DEF PropagationInv, CollapsingFI, OkFrame, EndCollapseField
<1>2. Top.base \in Nodes
  BY <1>1, StackLemma DEF OkFrame, MergingFrame, FieldsFrame, PtsFrame, Nodes
<1>3. pts[rep[Top.base]] \subseteq Objs
  BY <1>2 DEF BaseTypeOK, GraphTypeOK
<1>4. [kind |-> "pts", todo |-> pts[rep[Top.base]]] \in OkFrame
  BY <1>3 DEF OkFrame, PtsFrame
<1>5. frames' \in Seq(OkFrame)
  BY <1>1, <1>4, StackLemma DEF EndCollapseField
<1>6. UNCHANGED <<propa, diff, copy, ngep, vgep, pts, fi>> /\ BaseTypeOK'
  BY EndCollapseFieldType DEF EndCollapseField, graphVars, ptaVars
<1>7. SentIsHeld' /\ CopySent' /\ GepSent({})'
  BY <1>6, GrowthInv DEF PropagationInv
<1> QED
  BY <1>5, <1>6, <1>7 DEF PropagationInv, CollapsingFI, OkFrame, MergingFrame

LEMMA CollapseOnePointeeInv ==
    ASSUME BaseTypeOK, PropagationInv({}), CollapseOnePointee
    PROVE  PropagationInv({})'
<1>1. frames \in Seq(OkFrame) /\ frames # <<>> /\ Top.kind = "pts"
  BY DEF PropagationInv, CollapsingFI, OkFrame, CollapseOnePointee
<1>2. Top \in PtsFrame
  BY <1>1, StackLemma DEF OkFrame, MergingFrame, FieldsFrame
<1>3. PICK o \in Top.todo :
        LET st == SetTop([Top EXCEPT !.todo = @ \ {o}])
        IN  IF IsFI(o) THEN frames' = st /\ UNCHANGED fi ELSE CallCollapseField(o, st)
  BY DEF CollapseOnePointee
<1> DEFINE st == SetTop([Top EXCEPT !.todo = @ \ {o}])
<1>4. [Top EXCEPT !.todo = @ \ {o}] \in OkFrame
  BY <1>2 DEF OkFrame, PtsFrame
<1>5. st \in Seq(OkFrame)
  BY <1>1, <1>4, StackLemma
<1>6. o \in Objs
  BY <1>2 DEF PtsFrame
<1>7. IF IsFI(o) THEN frames' = st /\ UNCHANGED fi ELSE CallCollapseField(o, st)
  BY <1>3
<1> HIDE DEF st
<1>8. CollapsingFI' /\ fi \subseteq fi'
  <2>1. CASE IsFI(o)
    BY <1>5, <1>7, <2>1 DEF CollapsingFI, OkFrame, MergingFrame
  <2>2. CASE ~ IsFI(o)
    BY <1>5, <1>6, <1>7, <2>2, CallCollapseFieldInv
  <2> QED
    BY <2>1, <2>2
<1>9. UNCHANGED <<propa, diff, copy, ngep, vgep, pts>> /\ BaseTypeOK'
  BY CollapseOnePointeeType DEF CollapseOnePointee, graphVars
<1> QED
  BY <1>8, <1>9, GrowthInv DEF PropagationInv

LEMMA EndCollapsePtsInv ==
    ASSUME BaseTypeOK, PropagationInv({}), EndCollapsePts
    PROVE  PropagationInv({})'
<1>1. frames \in Seq(OkFrame) /\ frames # <<>>
  BY DEF PropagationInv, CollapsingFI, OkFrame, EndCollapsePts
<1>2. frames' \in Seq(OkFrame)
  BY <1>1, StackLemma DEF EndCollapsePts
<1>3. UNCHANGED <<propa, diff, copy, ngep, vgep, pts, fi>> /\ BaseTypeOK'
  BY EndCollapsePtsType DEF EndCollapsePts, graphVars, ptaVars
<1>4. SentIsHeld' /\ CopySent' /\ GepSent({})'
  BY <1>3, GrowthInv DEF PropagationInv
<1> QED
  BY <1>2, <1>3, <1>4 DEF PropagationInv, CollapsingFI, OkFrame, MergingFrame

\* A step of the collapsing.
LEMMA CollapseStepInv ==
    ASSUME BaseTypeOK, PropagationInv({}), CollapseStep
    PROVE  PropagationInv({})'
BY CollapseOneFieldInv, EndCollapseFieldInv, CollapseOnePointeeInv, EndCollapsePtsInv
   DEF CollapseStep

-----------------------------------------------------------------------------
(* Initialisation, and steps that leave the points-to data alone *)

LEMMA BaseInitInv == BaseInit => PropagationInv({})
<1> SUFFICES ASSUME BaseInit PROVE PropagationInv({})
  OBVIOUS
<1>1. \A n \in Nodes : propa[n] = {}
  BY DEF BaseInit
<1>2. \A e \in copy : propa[e[1]] = {}
  BY <1>1, BaseInitType, EdgeType
<1>3. \A e \in ngep \union vgep : propa[e[1]] = {}
  BY <1>1, BaseInitType, EdgeType
<1>4. SentIsHeld /\ CopySent
  BY <1>1, <1>2 DEF SentIsHeld, CopySent
<1>5. GepSent({})
  BY <1>3 DEF GepSent
<1>6. CollapsingFI
  <2>1. frames = <<>>
    BY DEF BaseInit
  <2> QED
    BY <2>1 DEF CollapsingFI
<1> QED
  BY <1>4, <1>5, <1>6 DEF PropagationInv

LEMMA QuietInv ==
    ASSUME BaseTypeOK, BaseTypeOK', NEW todo, PropagationInv(todo),
           UNCHANGED <<graphVars, pts, propa, diff, fi, frames>>
    PROVE  PropagationInv(todo)'
<1>1. SentIsHeld' /\ CopySent' /\ GepSent(todo)'
  BY GrowthInv DEF PropagationInv, graphVars
<1>2. CollapsingFI'
  BY StackKept DEF PropagationInv
<1> QED
  BY <1>1, <1>2 DEF PropagationInv

-----------------------------------------------------------------------------
(* Fields of collapsed objects *)

InStack(st, o) == \E i \in 1 .. Len(st) : st[i].kind = "fields" /\ o \in st[i].todo

(***************************************************************************)
(* A field of an object that has lost its fields is still held only while  *)
(* its base waits to be collapsed, or a collapseField that is running has  *)
(* not come to it yet.                                                     *)
(***************************************************************************)
Due(o) == BaseOf[o] \in toCollapse \/ InStack(frames, o)

StaleDue == \A n \in Nodes : \A o \in pts[n] : Canon(o) = o \/ Due(o)

\* The difference being sent holds a stale field on the same terms.
DiffDue == \A o \in diff : Canon(o) = o \/ Due(o)

WaitingBases == \A o \in toCollapse : BaseOf[o] = o /\ o \notin ConstOrBlk

FieldInv == StaleDue /\ WaitingBases

\* Which fields a stack still has to merge, with another top frame or one more frame.
LEMMA StackFields ==
    ASSUME NEW F, frames \in Seq(F), frames # <<>>, NEW o
    PROVE  /\ InStack(frames, o) =>
                InStack(Pop, o) \/ (Top.kind = "fields" /\ o \in Top.todo)
           /\ \A fr \in F : InStack(Pop, o) => InStack(SetTop(fr), o)
           /\ \A fr \in F : fr.kind = "fields" /\ o \in fr.todo => InStack(SetTop(fr), o)
<1>1. Len(frames) \in Nat /\ Len(frames) # 0
  BY SMT
<1>2. Pop \in Seq(F) /\ Len(Pop) = Len(frames) - 1
  <2>1. Pop \in Seq(F)
    BY StackLemma
  <2>2. PICK k \in Nat : k = Len(frames) - 1
    BY <1>1, SMT
  <2>3. Len(SubSeq(frames, 1, k)) = k
    BY <1>1, <2>2, SMT
  <2> QED
    BY <2>1, <2>2, <2>3 DEF Pop
<1>3. \A i \in 1 .. Len(Pop) : Pop[i] = frames[i]
  BY <1>1, <1>2, SMT DEF Pop
<1>4. InStack(frames, o) => InStack(Pop, o) \/ (Top.kind = "fields" /\ o \in Top.todo)
  BY <1>1, <1>2, <1>3 DEF InStack, Top
<1>5. ASSUME NEW fr \in F
      PROVE  /\ Len(SetTop(fr)) = Len(Pop) + 1 /\ SetTop(fr)[Len(Pop) + 1] = fr
             /\ \A i \in 1 .. Len(Pop) : SetTop(fr)[i] = Pop[i]
  BY <1>2, SMT DEF SetTop
<1>6. ASSUME NEW fr \in F, InStack(Pop, o) PROVE InStack(SetTop(fr), o)
  <2>1. PICK i \in 1 .. Len(Pop) : Pop[i].kind = "fields" /\ o \in Pop[i].todo
    BY <1>6 DEF InStack
  <2>2. i \in 1 .. Len(SetTop(fr)) /\ SetTop(fr)[i] = Pop[i]
    BY <1>2, <1>5
  <2> QED
    BY <2>1, <2>2 DEF InStack
<1>7. ASSUME NEW fr \in F, fr.kind = "fields", o \in fr.todo PROVE InStack(SetTop(fr), o)
  <2>1. Len(Pop) + 1 \in 1 .. Len(SetTop(fr)) /\ SetTop(fr)[Len(Pop) + 1] = fr
    BY <1>2, <1>5
  <2> QED
    BY <2>1, <1>7 DEF InStack
<1> QED
  BY <1>4, <1>6, <1>7

LEMMA AppendFields ==
    ASSUME NEW F, NEW st \in Seq(F), NEW fr \in F, NEW o
    PROVE  /\ InStack(st, o) => InStack(Append(st, fr), o)
           /\ fr.kind = "fields" /\ o \in fr.todo => InStack(Append(st, fr), o)
<1>1. /\ Len(st) \in Nat /\ Len(Append(st, fr)) = Len(st) + 1
      /\ Append(st, fr)[Len(st) + 1] = fr
      /\ \A i \in 1 .. Len(st) : Append(st, fr)[i] = st[i]
  BY SMT
<1> QED
  BY <1>1 DEF InStack

\* A step that only hands pointees on makes no field stale and forgets none.
LEMMA HandOnFields ==
    ASSUME FieldInv, BaseTypeOK, UNCHANGED <<fi, toCollapse, frames>>,
           \A n \in Nodes : \A o \in pts'[n] : \E m \in Nodes : o \in pts[m]
    PROVE  FieldInv'
<1>1. \A o : Canon(o)' = Canon(o) /\ (Due(o) <=> Due(o)')
  BY DEF Canon, IsFI, Due, InStack
<1>2. WaitingBases'
  BY DEF FieldInv, WaitingBases
<1>3. ASSUME NEW n \in Nodes, NEW o \in pts'[n], Canon(o)' # o PROVE Due(o)'
  <2>1. PICK m \in Nodes : o \in pts[m]
    OBVIOUS
  <2>2. Canon(o) # o
    BY <1>1, <1>3
  <2> QED
    BY <1>1, <2>1, <2>2 DEF FieldInv, StaleDue
<1> QED
  BY <1>2, <1>3 DEF FieldInv, StaleDue

LEMMA BaseInitFields == BaseInit => FieldInv
<1> SUFFICES ASSUME BaseInit PROVE FieldInv
  OBVIOUS
<1>1. ASSUME NEW n \in Nodes, NEW o \in pts[n] PROVE Canon(o) = o
  BY <1>1, ProgramsAssumption DEF BaseInit, BuildCG, AddrPts, Canon
<1> QED
  BY <1>1 DEF FieldInv, StaleDue, WaitingBases, BaseInit

LEMMA PropagateCopiesFields ==
    ASSUME FieldInv, BaseTypeOK, NEW n \in Nodes, PropagateCopies(n),
           UNCHANGED <<fi, toCollapse, frames>>
    PROVE  FieldInv' /\ DiffDue'
<1>1. diff' \subseteq pts[n]
  BY DEF PropagateCopies
<1>2. \A d \in Nodes : \A o \in pts'[d] : \E m \in Nodes : o \in pts[m]
  BY DEF PropagateCopies
<1>3. FieldInv'
  BY <1>2, HandOnFields
<1>4. \A o : Canon(o)' = Canon(o) /\ (Due(o) <=> Due(o)')
  BY DEF Canon, IsFI, Due, InStack
<1>5. DiffDue'
  BY <1>1, <1>4 DEF FieldInv, StaleDue, DiffDue
<1> QED
  BY <1>3, <1>5

\* A gep of a stale pointee yields the pointee itself; a gep with a variable
\* offset makes fields stale and has their base wait.
LEMMA ProcessGepFields ==
    ASSUME FieldInv, DiffDue, BaseTypeOK, NEW e \in ngep \union vgep,
           IF e \in vgep THEN ProcessVariantGep(e) ELSE ProcessNormalGep(e),
           UNCHANGED <<diff, frames>>
    PROVE  FieldInv' /\ DiffDue'
<1>1. e[2] \in Nodes /\ diff \subseteq Objs /\ \A n \in Nodes : pts[n] \subseteq Objs
  BY EdgeType DEF BaseTypeOK
<1>2. CASE e \notin vgep
  <2>1. ProcessNormalGep(e) /\ UNCHANGED <<fi, toCollapse>> /\ e[3] \in Offsets
    BY <1>2, EdgeType DEF ProcessNormalGep
  <2>2. \A o : Canon(o)' = Canon(o) /\ (Due(o) <=> Due(o)')
    BY <2>1 DEF Canon, IsFI, Due, InStack
  <2>3. \A o \in diff : LET t == NormalGepTarget(o, e[3]) IN Canon(t) = t \/ Due(t)
    BY <1>1, <2>1, ObjectsAssumption DEF NormalGepTarget, DiffDue, Canon, IsFI
  <2>4. \A n \in Nodes : \A t \in pts'[n] :
          t \in pts[n] \/ \E o \in diff : t = NormalGepTarget(o, e[3])
    BY <1>1, <2>1 DEF ProcessNormalGep, UnionPts, BaseTypeOK
  <2>5. StaleDue'
    BY <2>2, <2>3, <2>4 DEF FieldInv, StaleDue
  <2>6. WaitingBases' /\ DiffDue'
    BY <2>1, <2>2 DEF FieldInv, WaitingBases, DiffDue
  <2> QED
    BY <2>5, <2>6 DEF FieldInv
<1>3. CASE e \in vgep
  <2> DEFINE new == {BaseOf[o] : o \in {x \in diff \ ConstOrBlk : ~ IsFI(x)}}
  <2>1. /\ UnionPts(e[2], {VariantGepTarget(o) : o \in diff})
        /\ fi' = fi \union new /\ toCollapse' = toCollapse \union new
    BY <1>3 DEF ProcessVariantGep
  <2>2. \A b \in new : BaseOf[b] = b /\ b \notin ConstOrBlk
    BY <1>1, ObjectsAssumption
  <2> HIDE DEF new
  <2>3. \A o : Due(o) => Due(o)'
    BY <2>1 DEF Due, InStack
  <2>4. \A o : Canon(o)' = o \/ Due(o)' \/ ~ (Canon(o) = o \/ Due(o))
    BY <2>1, <2>3 DEF Canon, IsFI, Due
  <2>5. \A o \in diff : LET t == VariantGepTarget(o) IN Canon(t) = t \/ Due(t)
    BY <1>1, ObjectsAssumption DEF VariantGepTarget, DiffDue, Canon, IsFI
  <2>6. \A n \in Nodes : \A t \in pts'[n] :
          t \in pts[n] \/ \E o \in diff : t = VariantGepTarget(o)
    BY <1>1, <2>1 DEF UnionPts, BaseTypeOK
  <2>7. StaleDue'
    BY <2>4, <2>5, <2>6 DEF FieldInv, StaleDue
  <2>8. WaitingBases' /\ DiffDue'
    BY <2>1, <2>2, <2>4 DEF FieldInv, WaitingBases, DiffDue
  <2> QED
    BY <2>7, <2>8 DEF FieldInv
<1> QED
  BY <1>2, <1>3

\* The call of collapseField puts all fields of the object on the stack.
LEMMA CallCollapseFieldFields ==
    ASSUME NEW F, NEW st \in Seq(F), NEW o \in Objs, CallCollapseField(o, st),
           FieldsFrame \subseteq F
    PROVE  /\ \A x : InStack(st, x) => InStack(frames', x)
           /\ \A x \in Objs : IsFI(x)' => IsFI(x) \/ BaseOf[x] = x \/ InStack(frames', x)
           /\ o \notin ConstOrBlk =>
                \A x \in Objs : BaseOf[x] = BaseOf[o] => BaseOf[x] = x \/ InStack(frames', x)
<1>1. CASE o \in ConstOrBlk
  BY <1>1 DEF CallCollapseField, IsFI
<1>2. CASE o \notin ConstOrBlk
  <2> DEFINE fr == [kind |-> "fields", base |-> BaseOf[o], todo |-> AllFields(o) \ {BaseOf[o]}]
  <2>1. fr \in F
    BY ObjectsAssumption DEF FieldsFrame, AllFields
  <2>2. frames' = Append(st, fr) /\ fi' = fi \union {BaseOf[o]}
    BY <1>2 DEF CallCollapseField
  <2>3. \A x : InStack(st, x) => InStack(frames', x)
    BY <2>1, <2>2, AppendFields
  <2>4. \A x : x \in fr.todo => InStack(frames', x)
    <3>1. fr.kind = "fields"
      OBVIOUS
    <3> QED
      BY <2>1, <2>2, <3>1, AppendFields
  <2>5. \A x \in Objs : BaseOf[x] = BaseOf[o] => BaseOf[x] = x \/ InStack(frames', x)
    BY <2>4 DEF AllFields
  <2> QED
    BY <2>2, <2>3, <2>5 DEF IsFI
<1> QED
  BY <1>1, <1>2

LEMMA CollapseNextFields ==
    ASSUME FieldInv, BaseTypeOK, CollapseNext
    PROVE  FieldInv'
<1>1. PICK o \in toCollapse :
        toCollapse' = toCollapse \ {o} /\ CallCollapseField(o, frames) /\ pts' = pts
  BY DEF CollapseNext
<1>2. o \in Objs /\ BaseOf[o] = o /\ o \notin ConstOrBlk /\ frames \in Seq(Frame)
  BY DEF FieldInv, WaitingBases, BaseTypeOK, Frame
<1>3. /\ \A x : InStack(frames, x) => InStack(frames', x)
      /\ \A x \in Objs : IsFI(x)' => IsFI(x) \/ BaseOf[x] = x \/ InStack(frames', x)
      /\ \A x \in Objs : BaseOf[x] = BaseOf[o] => BaseOf[x] = x \/ InStack(frames', x)
  BY <1>1, <1>2, CallCollapseFieldFields DEF Frame
<1>4. ASSUME NEW x \in Objs, Canon(x) = x \/ Due(x) PROVE Canon(x)' = x \/ Due(x)'
  BY <1>1, <1>2, <1>3, <1>4 DEF Canon, Due, IsFI, InStack
<1>5. StaleDue'
  BY <1>1, <1>4 DEF FieldInv, StaleDue, BaseTypeOK
<1> QED
  BY <1>1, <1>5 DEF FieldInv, WaitingBases

\* The field that is merged is in no points-to set any more.
LEMMA CollapseOneFieldFields ==
    ASSUME FieldInv, BaseTypeOK, CollapsingFI, CollapseOneField
    PROVE  FieldInv'
<1> DEFINE b == Top.base
           P(f) == [x \in Nodes |-> Rebase(pts[x], f, b)]
<1>1. frames \in Seq(OkFrame) /\ frames # <<>> /\ Top.kind = "fields"
  BY DEF CollapsingFI, OkFrame, CollapseOneField
<1>2. Top \in MergingFrame
  BY <1>1, StackLemma DEF OkFrame, PtsFrame
<1>3. PICK f \in Top.todo :
        /\ frames' = SetTop([Top EXCEPT !.todo = @ \ {f}])
        /\ IF rep[f] = rep[b]
             THEN pts' = P(f) /\ UNCHANGED <<graphVars, propa>>
             ELSE MergeNode(P(f), rep[f], rep[b])
  BY DEF CollapseOneField
<1>4. /\ f \in Objs /\ b \in Objs /\ BaseOf[b] = b
      /\ rep[f] \in Nodes /\ rep[b] \in Nodes
  BY <1>2 DEF MergingFrame, FieldsFrame, BaseTypeOK, GraphTypeOK, Nodes
<1>5. \A n \in Nodes : \A o \in pts'[n] : o = b \/ (o # f /\ \E m \in Nodes : o \in pts[m])
  <2>1. \A n \in Nodes : \A o \in P(f)[n] : o = b \/ (o # f /\ o \in pts[n])
    BY DEF Rebase
  <2>2. CASE rep[f] = rep[b]
    BY <1>3, <2>1, <2>2
  <2>3. CASE rep[f] # rep[b]
    <3>1. pts' = [P(f) EXCEPT ![rep[b]] = @ \union P(f)[rep[f]]]
      BY <1>3, <2>3 DEF MergeNode
    <3>2. \A n \in Nodes : \A o \in pts'[n] : o \in P(f)[n] \/ o \in P(f)[rep[f]]
      BY <1>4, <3>1
    <3> HIDE DEF P
    <3> QED
      BY <1>4, <2>1, <3>2
  <2> QED
    BY <2>2, <2>3
<1>6. UNCHANGED <<fi, toCollapse>>
  BY DEF CollapseOneField
<1>7. \A o : InStack(frames, o) => o = f \/ InStack(frames', o)
  <2> DEFINE fr == [Top EXCEPT !.todo = @ \ {f}]
  <2>1. fr \in OkFrame /\ fr.kind = "fields" /\ fr.todo = Top.todo \ {f}
    BY <1>2 DEF OkFrame, MergingFrame, FieldsFrame
  <2> HIDE DEF fr
  <2>2. frames' = SetTop(fr)
    BY <1>3 DEF fr
  <2> SUFFICES ASSUME NEW o, InStack(frames, o), o # f PROVE InStack(frames', o)
    OBVIOUS
  <2>3. InStack(Pop, o) \/ o \in fr.todo
    BY <1>1, <2>1, StackFields
  <2> QED
    BY <1>1, <2>1, <2>2, <2>3, StackFields
<1>8. ASSUME NEW n \in Nodes, NEW o \in pts'[n] PROVE Canon(o)' = o \/ Due(o)'
  <2>1. CASE o = b
    BY <1>4, <2>1 DEF Canon
  <2>2. CASE o # b
    <3>1. o # f /\ (Canon(o) = o \/ Due(o))
      BY <1>5, <1>8, <2>2 DEF FieldInv, StaleDue
    <3> QED
      BY <1>6, <1>7, <3>1 DEF Canon, IsFI, Due
  <2> QED
    BY <2>1, <2>2
<1> QED
  BY <1>6, <1>8 DEF FieldInv, StaleDue, WaitingBases

LEMMA EndCollapseFields ==
    ASSUME FieldInv, BaseTypeOK, EndCollapseField \/ EndCollapsePts
    PROVE  FieldInv'
<1>1. /\ frames \in Seq(Frame) /\ frames # <<>> /\ UNCHANGED <<pts, fi, toCollapse>>
      /\ Top.kind = "fields" => Top.todo = {}
  BY DEF EndCollapseField, EndCollapsePts, BaseTypeOK, Frame, ptaVars
<1>2. \A o : InStack(frames, o) => InStack(Pop, o)
  BY <1>1, StackFields
<1>3. frames' = Pop \/ \E fr \in Frame : frames' = SetTop(fr)
  <2>1. CASE EndCollapsePts
    BY <2>1 DEF EndCollapsePts
  <2>2. CASE EndCollapseField
    <3>1. Top.kind = "fields" /\ Top \in Frame
      BY <1>1, <2>2, StackLemma DEF EndCollapseField
    <3>2. rep[Top.base] \in Nodes
      BY <3>1 DEF Frame, FieldsFrame, PtsFrame, BaseTypeOK, GraphTypeOK, Nodes
    <3>3. [kind |-> "pts", todo |-> pts[rep[Top.base]]] \in Frame
      BY <3>2 DEF Frame, PtsFrame, BaseTypeOK
    <3> QED
      BY <2>2, <3>3 DEF EndCollapseField
  <2> QED
    BY <2>1, <2>2
<1>4. \A o : InStack(frames, o) => InStack(frames', o)
  BY <1>1, <1>2, <1>3, StackFields
<1>5. \A o : Canon(o)' = Canon(o) /\ (Due(o) => Due(o)')
  BY <1>1, <1>4 DEF Canon, IsFI, Due
<1> QED
  BY <1>1, <1>5 DEF FieldInv, StaleDue, WaitingBases

LEMMA CollapseOnePointeeFields ==
    ASSUME FieldInv, BaseTypeOK, CollapseOnePointee
    PROVE  FieldInv'
<1>1. frames \in Seq(Frame) /\ frames # <<>> /\ Top.kind = "pts"
  BY DEF CollapseOnePointee, BaseTypeOK, Frame
<1>2. Top \in PtsFrame
  BY <1>1, StackLemma DEF Frame, FieldsFrame
<1>3. PICK o \in Top.todo :
        LET st == SetTop([Top EXCEPT !.todo = @ \ {o}])
        IN  IF IsFI(o) THEN frames' = st /\ UNCHANGED fi ELSE CallCollapseField(o, st)
  BY DEF CollapseOnePointee
<1> DEFINE st == SetTop([Top EXCEPT !.todo = @ \ {o}])
<1>4. [Top EXCEPT !.todo = @ \ {o}] \in Frame
  BY <1>2 DEF Frame, PtsFrame
<1>5. st \in Seq(Frame) /\ \A x : InStack(frames, x) => InStack(st, x)
  BY <1>1, <1>4, StackLemma, StackFields
<1>6. IF IsFI(o) THEN frames' = st /\ UNCHANGED fi ELSE CallCollapseField(o, st)
  BY <1>3
<1>7. o \in Objs /\ UNCHANGED <<pts, toCollapse>>
  BY <1>2 DEF PtsFrame, CollapseOnePointee
<1> HIDE DEF st
<1>8. /\ \A x : InStack(frames, x) => InStack(frames', x)
      /\ \A x \in Objs : IsFI(x)' => IsFI(x) \/ BaseOf[x] = x \/ InStack(frames', x)
  <2>1. CASE IsFI(o)
    BY <1>5, <1>6, <2>1 DEF IsFI
  <2>2. CASE ~ IsFI(o)
    <3>1. CallCollapseField(o, st) /\ FieldsFrame \subseteq Frame
      BY <1>6, <2>2 DEF Frame
    <3> QED
      BY <1>5, <1>7, <3>1, CallCollapseFieldFields
  <2> QED
    BY <2>1, <2>2
<1>9. ASSUME NEW x \in Objs, Canon(x) = x \/ Due(x) PROVE Canon(x)' = x \/ Due(x)'
  BY <1>7, <1>8, <1>9 DEF Canon, Due, IsFI
<1>10. StaleDue'
  BY <1>7, <1>9 DEF FieldInv, StaleDue, BaseTypeOK
<1> QED
  BY <1>7, <1>10 DEF FieldInv, WaitingBases

\* A step of the collapsing.
LEMMA CollapseStepFields ==
    ASSUME FieldInv, BaseTypeOK, CollapsingFI, CollapseStep
    PROVE  FieldInv'
BY CollapseOneFieldFields, EndCollapseFields, CollapseOnePointeeFields DEF CollapseStep

\* With nothing waiting and no collapseField running, no stale field is left.
LEMMA FieldsSettled ==
    ASSUME FieldInv, toCollapse = {}, frames = <<>>
    PROVE  NoFieldOfFI
BY DEF FieldInv, StaleDue, Due, InStack, NoFieldOfFI

-----------------------------------------------------------------------------
(* Iteration.  The induction theorems of the library take the formula to   *)
(* be proved as a parameter; here it is a set of numbers.                  *)

Before == {p \in Nat \X Nat : p[1] < p[2]}

\* A set of numbers that is not empty has a least one.
LEMMA LeastNumber ==
  ASSUME NEW T, T \subseteq Nat, T # {}
  PROVE  \E m \in T : \A n \in T : m <= n
<1>1. IsWellFoundedOn(Before, Nat)
  BY NatLessThanWellFounded DEF OpToRel, Before
<1>2. PICK m \in T : \A n \in T : ~ (<<n, m>> \in Before)
  BY <1>1, WFMin
<1>3. ASSUME NEW n \in T PROVE m <= n
  <2>1. m \in Nat /\ n \in Nat /\ ~ (n < m)
    BY <1>2 DEF Before
  <2> QED
    BY <2>1
<1> QED
  BY <1>3

\* Induction: a set of numbers that holds 0 and every successor has them all.
LEMMA Inductive ==
  ASSUME NEW T, 0 \in T, \A n \in Nat : n \in T => n + 1 \in T
  PROVE  Nat \subseteq T
<1> SUFFICES ASSUME Nat \ T # {} PROVE FALSE
  OBVIOUS
<1>1. PICK m \in Nat \ T : \A n \in Nat \ T : m <= n
  BY LeastNumber
<1>2. m # 0 /\ m - 1 \in Nat
  BY <1>1
<1>3. m - 1 \in T
  BY <1>1, <1>2
<1> QED
  BY <1>1, <1>2, <1>3

\* The first n steps of an iteration from x.
Runs(X, x, step, n) ==
  {f \in [0 .. n -> X] : f[0] = x /\ \A k \in 0 .. n - 1 : f[k + 1] = step[f[k]]}

\* Every iteration of a function on a set is defined.
LEMMA IterationExists ==
  ASSUME NEW X, NEW x \in X, NEW step \in [X -> X]
  PROVE  \E g \in [Nat -> X] : g[0] = x /\ \A k \in Nat : g[k + 1] = step[g[k]]
<1> DEFINE R(n) == Runs(X, x, step, n)
           T == {n \in Nat : R(n) # {}}
<1>1. Nat \subseteq T
  <2>1. 0 \in T
    <3>1. [k \in 0 .. 0 |-> x] \in R(0)
      BY DEF Runs
    <3> QED
      BY <3>1
  <2>2. ASSUME NEW n \in Nat, n \in T PROVE n + 1 \in T
    <3>1. PICK f : f \in R(n)
      BY <2>2
    <3>2. PICK h : h = [k \in 0 .. n + 1 |-> IF k = n + 1 THEN step[f[n]] ELSE f[k]]
      OBVIOUS
    <3>3. f \in [0 .. n -> X] /\ f[0] = x /\ \A k \in 0 .. n - 1 : f[k + 1] = step[f[k]]
      BY <3>1 DEF Runs
    <3>4. \A k \in 0 .. n : h[k] = f[k]
      BY <3>2, <2>2
    <3>5. h[n + 1] = step[f[n]] /\ f[n] \in X
      BY <3>2, <3>3
    <3>6. h \in [0 .. n + 1 -> X]
      BY <3>2, <3>3
    <3>7. ASSUME NEW k \in 0 .. n PROVE h[k + 1] = step[h[k]]
      <4>1. CASE k = n
        BY <4>1, <3>4, <3>5
      <4>2. CASE k # n
        <5>1. k \in 0 .. n - 1 /\ k + 1 \in 0 .. n
          BY <4>2
        <5> QED
          BY <5>1, <3>3, <3>4
      <4> QED
        BY <4>1, <4>2
    <3>8. (n + 1) - 1 = n /\ 0 \in 0 .. n
      OBVIOUS
    <3>9. h[0] = x
      BY <3>3, <3>4, <3>8
    <3> HIDE <3>2
    <3>10. h \in R(n + 1)
      BY <3>6, <3>7, <3>8, <3>9 DEF Runs
    <3> QED
      BY <3>10
  <2> HIDE DEF T
  <2> QED
    BY <2>1, <2>2, Inductive
<1>2. ASSUME NEW m \in Nat, NEW n \in Nat, NEW f \in R(m), NEW h \in R(n), m <= n
      PROVE  \A k \in 0 .. m : f[k] = h[k]
  <2> DEFINE S == {k \in Nat : k <= m => f[k] = h[k]}
  <2>0. /\ f[0] = x /\ \A k \in 0 .. m - 1 : f[k + 1] = step[f[k]]
        /\ h[0] = x /\ \A k \in 0 .. n - 1 : h[k + 1] = step[h[k]]
    BY DEF Runs
  <2>1. 0 \in S
    BY <2>0
  <2>2. ASSUME NEW k \in Nat, k \in S PROVE k + 1 \in S
    <3> SUFFICES ASSUME k + 1 <= m PROVE f[k + 1] = h[k + 1]
      OBVIOUS
    <3>1. k \in 0 .. m - 1 /\ k \in 0 .. n - 1 /\ k <= m
      BY <1>2
    <3> QED
      BY <3>1, <2>0, <2>2
  <2>3. Nat \subseteq S
    <3> HIDE DEF S
    <3> QED
      BY <2>1, <2>2, Inductive
  <2> QED
    BY <2>3
<1>3. PICK run : run = [n \in Nat |-> CHOOSE f \in R(n) : TRUE]
  OBVIOUS
<1>4. \A n \in Nat : run[n] \in R(n)
  BY <1>1, <1>3
<1>5. PICK g : g = [n \in Nat |-> run[n][n]]
  OBVIOUS
<1>6. \A n \in Nat : run[n] \in [0 .. n -> X] /\ g[n] = run[n][n]
  BY <1>4, <1>5 DEF Runs
<1>7. g \in [Nat -> X]
  <2>1. \A n \in Nat : run[n][n] \in X
    BY <1>6
  <2> QED
    BY <1>5, <2>1
<1>8. g[0] = x
  BY <1>4, <1>6 DEF Runs
<1>9. ASSUME NEW k \in Nat PROVE g[k + 1] = step[g[k]]
  <2>1. run[k] \in R(k) /\ run[k + 1] \in R(k + 1) /\ k <= k + 1 /\ k \in 0 .. k
    BY <1>4
  <2>2. run[k][k] = run[k + 1][k]
    BY <1>2, <2>1
  <2>3. run[k + 1][k + 1] = step[run[k + 1][k]]
    BY <2>1 DEF Runs
  <2> QED
    BY <2>2, <2>3, <1>6
<1> QED
  BY <1>7, <1>8, <1>9

\* A growing sequence of subsets of a finite set that stays once it stops has stopped
\* after as many steps as the set has elements.
LEMMA GrowthStops ==
  ASSUME NEW F, IsFiniteSet(F), NEW g \in [Nat -> SUBSET F],
         \A k \in Nat : g[k] \subseteq g[k + 1],
         \A k \in Nat : g[k + 1] = g[k] => g[k + 2] = g[k + 1]
  PROVE  g[Cardinality(F) + 1] = g[Cardinality(F)]
<1> DEFINE N == Cardinality(F)
           T == {k \in Nat : g[k + 1] # g[k] => Cardinality(g[k]) >= k}
<1>1. N \in Nat /\ \A k \in Nat : IsFiniteSet(g[k]) /\ Cardinality(g[k]) \in Nat
  BY FS_CardinalityType, FS_Subset
<1>2. 0 \in T
  BY <1>1
<1>3. ASSUME NEW k \in Nat, k \in T PROVE k + 1 \in T
  <2> SUFFICES ASSUME g[k + 2] # g[k + 1] PROVE Cardinality(g[k + 1]) >= k + 1
    BY DEF T
  <2>1. g[k + 1] # g[k] /\ g[k] \subseteq g[k + 1] /\ g[k] \in SUBSET g[k + 1]
    OBVIOUS
  <2>2. IsFiniteSet(g[k + 1]) /\ k + 1 \in Nat
    BY <1>1
  <2>3. Cardinality(g[k]) <= Cardinality(g[k + 1]) /\ Cardinality(g[k]) # Cardinality(g[k + 1])
    BY <2>1, <2>2, FS_Subset
  <2>4. PICK m \in Nat : m = Cardinality(g[k])
    BY <1>1
  <2>5. PICK n \in Nat : n = Cardinality(g[k + 1])
    BY <1>1, <2>2
  <2>6. m >= k
    BY <1>3, <2>1, <2>4 DEF T
  <2>7. m <= n /\ m # n
    BY <2>3, <2>4, <2>5
  <2>8. n >= k + 1
    BY <2>6, <2>7
  <2> QED
    BY <2>5, <2>8
<1>4. N \in T
  <2> HIDE DEF T
  <2> QED
    BY <1>1, <1>2, <1>3, Inductive
<1> SUFFICES ASSUME g[N + 1] # g[N] PROVE FALSE
  OBVIOUS
<1>5. g[N] \in SUBSET F /\ g[N + 1] \in SUBSET F /\ g[N] \subseteq g[N + 1] /\ N + 1 \in Nat
  BY <1>1
<1>6. Cardinality(g[N]) >= N /\ Cardinality(g[N]) <= N
  BY <1>1, <1>4, <1>5, FS_Subset
<1>7. Cardinality(F) = Cardinality(g[N])
  BY <1>1, <1>6
<1>8. g[N] = F
  BY <1>5, <1>7, FS_Subset
<1> QED
  BY <1>5, <1>8

-----------------------------------------------------------------------------
(* The rules *)

\* The copy e holds when the points-to sets are S.
FlowOf(S, e) ==
    \/ e \in prog.copy
    \/ \E o \in Objs \ ConstObjs : \E l \in prog.load :
          o \in S[l[1]] /\ l[2] \notin NonPtrs /\ e = <<o, l[2]>>
    \/ \E o \in Objs \ ConstObjs : \E t \in prog.store :
          o \in S[t[2]] /\ t[1] \notin NonPtrs /\ e = <<t[1], o>>
    \/ \E c \in prog.calls : c.callee \in S[c.fptr] /\ e \in c.params

\* The copies of the rules, spelled out.
LEMMA RulesFlow ==
    ASSUME NEW S, NEW e PROVE e \in Rules!Flow(S) <=> FlowOf(S, e)
<1>1. e \in {<<x[1], x[2][2]>> : x \in
                {y \in (Objs \ ConstObjs) \X prog.load : y[1] \in S[y[2][1]] /\ y[2][2] \notin NonPtrs}}
      <=> \E o \in Objs \ ConstObjs : \E l \in prog.load :
            o \in S[l[1]] /\ l[2] \notin NonPtrs /\ e = <<o, l[2]>>
  <2> DEFINE Y == {y \in (Objs \ ConstObjs) \X prog.load : y[1] \in S[y[2][1]] /\ y[2][2] \notin NonPtrs}
  <2>1. ASSUME NEW x \in Y, e = <<x[1], x[2][2]>>
        PROVE  \E o \in Objs \ ConstObjs : \E l \in prog.load :
                 o \in S[l[1]] /\ l[2] \notin NonPtrs /\ e = <<o, l[2]>>
    <3>1. x[1] \in Objs \ ConstObjs /\ x[2] \in prog.load
      OBVIOUS
    <3> QED
      BY <2>1, <3>1
  <2>2. ASSUME NEW o \in Objs \ ConstObjs, NEW l \in prog.load,
               o \in S[l[1]], l[2] \notin NonPtrs, e = <<o, l[2]>>
        PROVE  \E x \in Y : e = <<x[1], x[2][2]>>
    <3>1. <<o, l>> \in Y
      BY <2>2
    <3> QED
      BY <2>2, <3>1
  <2> QED
    BY <2>1, <2>2
<1>2. e \in {<<x[2][1], x[1]>> : x \in
                {y \in (Objs \ ConstObjs) \X prog.store : y[1] \in S[y[2][2]] /\ y[2][1] \notin NonPtrs}}
      <=> \E o \in Objs \ ConstObjs : \E t \in prog.store :
            o \in S[t[2]] /\ t[1] \notin NonPtrs /\ e = <<t[1], o>>
  <2> DEFINE Y == {y \in (Objs \ ConstObjs) \X prog.store : y[1] \in S[y[2][2]] /\ y[2][1] \notin NonPtrs}
  <2>1. ASSUME NEW x \in Y, e = <<x[2][1], x[1]>>
        PROVE  \E o \in Objs \ ConstObjs : \E t \in prog.store :
                 o \in S[t[2]] /\ t[1] \notin NonPtrs /\ e = <<t[1], o>>
    <3>1. x[1] \in Objs \ ConstObjs /\ x[2] \in prog.store
      OBVIOUS
    <3> QED
      BY <2>1, <3>1
  <2>2. ASSUME NEW o \in Objs \ ConstObjs, NEW t \in prog.store,
               o \in S[t[2]], t[1] \notin NonPtrs, e = <<t[1], o>>
        PROVE  \E x \in Y : e = <<x[2][1], x[1]>>
    <3>1. <<o, t>> \in Y
      BY <2>2
    <3> QED
      BY <2>2, <3>1
  <2> QED
    BY <2>1, <2>2
<1>3. e \in UNION {c.params : c \in {x \in prog.calls : x.callee \in S[x.fptr]}}
      <=> \E c \in prog.calls : c.callee \in S[c.fptr] /\ e \in c.params
  OBVIOUS
<1> QED
  BY <1>1, <1>2, <1>3 DEF Rules!Flow, FlowOf

\* The programs are made of nodes.
LEMMA StatementsType ==
    ASSUME prog \in Statements
    PROVE  /\ \A l \in prog.load : l = <<l[1], l[2]>> /\ l[1] \in Nodes /\ l[2] \in Nodes
           /\ \A t \in prog.store : t = <<t[1], t[2]>> /\ t[1] \in Nodes /\ t[2] \in Nodes
           /\ \A c \in prog.calls : /\ c.fptr \in Nodes /\ c.callee \in Objs
                                    /\ c.params \subseteq Nodes \X Nodes
           /\ prog.copy \subseteq Nodes \X Nodes
           /\ \A e \in prog.ngep : e[1] \in Nodes /\ e[2] \in Nodes /\ e[3] \in Offsets
           /\ \A e \in prog.addr : e[1] \in Objs
BY DEF Statements, Calls, Nodes

\* Copies hold between nodes.
LEMMA FlowType ==
    ASSUME prog \in Statements, NEW S, NEW e, FlowOf(S, e)
    PROVE  e[1] \in Nodes /\ e[2] \in Nodes
<1>1. Objs \subseteq Nodes
  BY DEF Nodes
<1>2. CASE e \in prog.copy
  BY <1>2, StatementsType
<1>3. ASSUME NEW o \in Objs \ ConstObjs, NEW l \in prog.load, e = <<o, l[2]>>
      PROVE  e[1] \in Nodes /\ e[2] \in Nodes
  BY <1>1, <1>3, StatementsType
<1>4. ASSUME NEW o \in Objs \ ConstObjs, NEW t \in prog.store, e = <<t[1], o>>
      PROVE  e[1] \in Nodes /\ e[2] \in Nodes
  BY <1>1, <1>4, StatementsType
<1>5. ASSUME NEW c \in prog.calls, e \in c.params PROVE e[1] \in Nodes /\ e[2] \in Nodes
  BY <1>5, StatementsType
<1> QED
  BY <1>2, <1>3, <1>4, <1>5 DEF FlowOf

\* More facts make more copies hold.
LEMMA RulesFlowGrows ==
    ASSUME NEW S, NEW T, NEW e, prog \in Statements, FlowOf(S, e), \A n \in Nodes : S[n] \subseteq T[n]
    PROVE  FlowOf(T, e)
BY StatementsType DEF FlowOf

\* What one application of the rules gives a node.
Inferred(S, n, o) ==
    \/ o \in S[n]
    \/ \E e \in prog.addr : e[2] = n /\ o = e[1]
    \/ \E e \in Rules!Flow(S) : e[2] = n /\ o \in S[e[1]]
    \/ \E e \in prog.ngep : e[2] = n /\ \E x \in S[e[1]] : o = Rules!GepOf(x, e[3])

LEMMA InferLemma ==
    ASSUME NEW S, NEW n \in Nodes, NEW o
    PROVE  o \in Rules!Infer(S)[n] <=> Inferred(S, n, o)
<1> DEFINE A == {e[1] : e \in {x \in prog.addr : x[2] = n}}
           F == UNION {S[e[1]] : e \in {x \in Rules!Flow(S) : x[2] = n}}
           G == UNION {{Rules!GepOf(x, e[3]) : x \in S[e[1]]} : e \in {y \in prog.ngep : y[2] = n}}
<1>1. Rules!Infer(S)[n] = S[n] \union A \union F \union G
  BY DEF Rules!Infer, Nodes, Rules!Nodes
<1>2. o \in A <=> \E e \in prog.addr : e[2] = n /\ o = e[1]
  OBVIOUS
<1>3. o \in F <=> \E e \in Rules!Flow(S) : e[2] = n /\ o \in S[e[1]]
  OBVIOUS
<1>4. o \in G <=> \E e \in prog.ngep : e[2] = n /\ \E x \in S[e[1]] : o = Rules!GepOf(x, e[3])
  OBVIOUS
<1> HIDE DEF A, F, G
<1> QED
  BY <1>1, <1>2, <1>3, <1>4 DEF Inferred

\* The rules make solutions of solutions.
LEMMA InferType ==
    ASSUME prog \in Statements, NEW S \in Rules!Solutions
    PROVE  Rules!Infer(S) \in Rules!Solutions
<1>1. S \in [Nodes -> SUBSET Objs]
  BY DEF Rules!Solutions, Nodes, Rules!Nodes
<1>2. ASSUME NEW n \in Nodes, NEW o, Inferred(S, n, o) PROVE o \in Objs
  <2>1. CASE o \in S[n]
    BY <1>1, <2>1
  <2>2. CASE \E e \in prog.addr : e[2] = n /\ o = e[1]
    BY <2>2, StatementsType
  <2>3. ASSUME NEW e \in Rules!Flow(S), o \in S[e[1]] PROVE o \in Objs
    BY <1>1, <2>3, RulesFlow, FlowType
  <2>4. ASSUME NEW e \in prog.ngep, NEW x \in S[e[1]], o = Rules!GepOf(x, e[3]) PROVE o \in Objs
    <3>1. x \in Objs /\ e[3] \in Offsets
      BY <1>1, StatementsType
    <3> QED
      BY <2>4, <3>1, ObjectsAssumption DEF Rules!GepOf
  <2> QED
    BY <1>2, <2>1, <2>2, <2>3, <2>4 DEF Inferred
<1>3. \A n \in Nodes : Rules!Infer(S)[n] \subseteq Objs
  BY <1>2, InferLemma
<1>4. \E T : Rules!Infer(S) = [n \in Nodes |-> T[n]]
  <2>1. Rules!Infer(S) = [n \in Nodes |-> Rules!Infer(S)[n]]
    BY DEF Rules!Infer, Nodes, Rules!Nodes
  <2> QED
    BY <2>1
<1> QED
  BY <1>3, <1>4 DEF Rules!Solutions, Nodes, Rules!Nodes

\* More facts give more.
LEMMA InferGrows ==
    ASSUME NEW S, NEW T, NEW n \in Nodes, prog \in Statements, \A m \in Nodes : S[m] \subseteq T[m]
    PROVE  Rules!Infer(S)[n] \subseteq Rules!Infer(T)[n]
<1> SUFFICES ASSUME NEW o, Inferred(S, n, o) PROVE Inferred(T, n, o)
  BY InferLemma
<1>1. ASSUME NEW e \in Rules!Flow(S), o \in S[e[1]] PROVE e \in Rules!Flow(T) /\ o \in T[e[1]]
  BY <1>1, RulesFlow, RulesFlowGrows, FlowType
<1>2. ASSUME NEW e \in prog.ngep, NEW x \in S[e[1]] PROVE x \in T[e[1]]
  BY StatementsType
<1> QED
  BY <1>1, <1>2 DEF Inferred

\* A solution is a set of facts.
LEMMA FactsLemma ==
    /\ \A F \in SUBSET (Nodes \X Objs) :
          Rules!FromFacts(F) \in Rules!Solutions /\ Rules!Facts(Rules!FromFacts(F)) = F
    /\ \A S \in Rules!Solutions :
          Rules!Facts(S) \in SUBSET (Nodes \X Objs) /\ Rules!FromFacts(Rules!Facts(S)) = S
<1>1. ASSUME NEW F \in SUBSET (Nodes \X Objs)
      PROVE  Rules!FromFacts(F) \in Rules!Solutions /\ Rules!Facts(Rules!FromFacts(F)) = F
  <2>1. PICK S : S = Rules!FromFacts(F)
    OBVIOUS
  <2>2. S = [n \in Nodes |-> {o \in Objs : <<n, o>> \in F}]
    BY <2>1 DEF Rules!FromFacts, Nodes, Rules!Nodes
  <2>3. \A n \in Nodes : \A o : o \in S[n] <=> o \in Objs /\ <<n, o>> \in F
    BY <2>2
  <2>4. S \in Rules!Solutions
    BY <2>2 DEF Rules!Solutions, Nodes, Rules!Nodes
  <2>5. Rules!Facts(S) = UNION {{<<n, o>> : o \in S[n]} : n \in Nodes}
    BY DEF Rules!Facts, Nodes, Rules!Nodes
  <2>6. \A x : x \in Rules!Facts(S) <=> \E n \in Nodes : \E o \in S[n] : x = <<n, o>>
    BY <2>5
  <2>7. \A x \in F : \E n \in Nodes, o \in Objs : x = <<n, o>>
    OBVIOUS
  <2>8. Rules!Facts(S) = F
    BY <2>3, <2>6, <2>7
  <2> QED
    BY <2>1, <2>4, <2>8
<1>2. ASSUME NEW S \in Rules!Solutions
      PROVE  Rules!Facts(S) \in SUBSET (Nodes \X Objs) /\ Rules!FromFacts(Rules!Facts(S)) = S
  <2>1. S \in [Nodes -> SUBSET Objs]
    BY DEF Rules!Solutions, Nodes, Rules!Nodes
  <2>2. PICK F : F = Rules!Facts(S)
    OBVIOUS
  <2>3. F = UNION {{<<n, o>> : o \in S[n]} : n \in Nodes}
    BY <2>2 DEF Rules!Facts, Nodes, Rules!Nodes
  <2>4. \A n \in Nodes : \A o : <<n, o>> \in F <=> o \in S[n]
    BY <2>3
  <2>5. F \in SUBSET (Nodes \X Objs)
    BY <2>1, <2>3
  <2>6. Rules!FromFacts(F) = [n \in Nodes |-> {o \in Objs : <<n, o>> \in F}]
    BY DEF Rules!FromFacts, Nodes, Rules!Nodes
  <2>7. \A n \in Nodes : {o \in Objs : <<n, o>> \in F} = S[n]
    BY <2>1, <2>4
  <2>8. Rules!FromFacts(F) = S
    BY <2>1, <2>6, <2>7
  <2> QED
    BY <2>2, <2>5, <2>8
<1> QED
  BY <1>1, <1>2

\* One application of the rules to a set of facts.
Round(F) == Rules!Facts(Rules!Infer(Rules!FromFacts(F)))

AllFacts == SUBSET (Nodes \X Objs)

LEMMA RoundType ==
    ASSUME prog \in Statements, NEW F \in AllFacts
    PROVE  Round(F) \in AllFacts /\ F \subseteq Round(F)
<1>1. PICK S \in Rules!Solutions : S = Rules!FromFacts(F) /\ Rules!Facts(S) = F
  BY FactsLemma DEF AllFacts
<1>2. PICK T \in Rules!Solutions : T = Rules!Infer(S) /\ \A n \in Nodes : S[n] \subseteq T[n]
  BY InferType, InferLemma DEF Inferred
<1>3. Rules!Facts(T) \in AllFacts
  BY FactsLemma DEF AllFacts
<1>4. Rules!Facts(S) \subseteq Rules!Facts(T)
  BY <1>2 DEF Rules!Facts, Nodes, Rules!Nodes
<1> QED
  BY <1>1, <1>2, <1>3, <1>4 DEF Round

\* The recursion that computes the least solution is defined.
LEMMA DerivedLemma ==
    ASSUME prog \in Statements
    PROVE  /\ Rules!Derived \in [Nat -> AllFacts]
           /\ Rules!Derived[0] = Rules!Facts(Rules!AddrFacts)
           /\ \A k \in Nat : Rules!Derived[k + 1] = Round(Rules!Derived[k])
<1> DEFINE After(D) == [k \in Nat |->
                         IF k = 0 THEN Rules!Facts(Rules!AddrFacts)
                         ELSE UNION {Rules!Facts(Rules!Infer(Rules!FromFacts(F))) : F \in {D[k - 1]}}]
<1>1. Rules!AddrFacts \in Rules!Solutions
  BY DEF Rules!AddrFacts, Rules!Solutions
<1>2. PICK x0 \in AllFacts : x0 = Rules!Facts(Rules!AddrFacts)
  BY <1>1, FactsLemma DEF AllFacts
<1>3. PICK step \in [AllFacts -> AllFacts] : step = [F \in AllFacts |-> Round(F)]
  BY RoundType
<1>4. PICK g \in [Nat -> AllFacts] : g[0] = x0 /\ \A k \in Nat : g[k + 1] = step[g[k]]
  <2>1. PICK X : X = AllFacts
    OBVIOUS
  <2>2. x0 \in X /\ step \in [X -> X]
    BY <2>1
  <2>3. \E g \in [Nat -> X] : g[0] = x0 /\ \A k \in Nat : g[k + 1] = step[g[k]]
    BY <2>2, IterationExists
  <2> QED
    BY <2>1, <2>3
<1>5. \A D, k : UNION {Rules!Facts(Rules!Infer(Rules!FromFacts(F))) : F \in {D[k]}} = Round(D[k])
  BY DEF Round
<1>6. \A D : After(D) = [k \in Nat |-> IF k = 0 THEN x0 ELSE Round(D[k - 1])]
  BY <1>2, <1>5
<1>7. g = After(g)
  <2>1. ASSUME NEW k \in Nat, k # 0 PROVE g[k] = Round(g[k - 1])
    <3>1. k - 1 \in Nat /\ (k - 1) + 1 = k
      BY <2>1
    <3> QED
      BY <1>3, <1>4, <3>1
  <2>2. \A k \in Nat : g[k] = IF k = 0 THEN x0 ELSE Round(g[k - 1])
    BY <1>4, <2>1
  <2> HIDE DEF After
  <2> QED
    BY <1>4, <1>6, <2>2
<1>8. Rules!Derived = CHOOSE D : D = After(D)
  BY DEF Rules!Derived
<1> HIDE DEF After
<1>9. Rules!Derived = After(Rules!Derived)
  BY <1>7, <1>8
<1>10. PICK D : D = Rules!Derived
  OBVIOUS
<1>11. D = [k \in Nat |-> IF k = 0 THEN x0 ELSE Round(D[k - 1])]
  BY <1>6, <1>9, <1>10
<1>12. D[0] = x0 /\ \A k \in Nat : D[k + 1] = Round(D[k])
  <2>1. ASSUME NEW k \in Nat PROVE D[k + 1] = Round(D[k])
    <3>1. k + 1 \in Nat /\ k + 1 # 0 /\ (k + 1) - 1 = k
      OBVIOUS
    <3> QED
      BY <1>11, <3>1
  <2> QED
    BY <1>11, <2>1
<1>13. \A k \in Nat : D[k] \in AllFacts
  <2> DEFINE T == {k \in Nat : D[k] \in AllFacts}
  <2>1. 0 \in T /\ \A k \in Nat : k \in T => k + 1 \in T
    BY <1>12, RoundType
  <2> HIDE DEF T
  <2>2. Nat \subseteq T
    BY <2>1, Inductive
  <2> QED
    BY <2>2 DEF T
<1>14. D \in [Nat -> AllFacts]
  BY <1>11, <1>13
<1> QED
  BY <1>2, <1>10, <1>12, <1>14

(***************************************************************************)
(* After as many rounds as there are facts the rules give nothing more,    *)
(* and what they have given is in every solution.                          *)
(***************************************************************************)
LEMMA LeastLemma ==
    ASSUME prog \in Statements
    PROVE  /\ Rules!Least \in Rules!Solutions
           /\ Rules!Closed(Rules!Least)
           /\ \A B \in Rules!Solutions : Rules!Closed(B) => Rules!Below(Rules!Least, B)
<1> DEFINE N == Cardinality(Nodes \X Objs)
<1>1. PICK D \in [Nat -> AllFacts] : /\ D = Rules!Derived
                                     /\ D[0] = Rules!Facts(Rules!AddrFacts)
                                     /\ \A k \in Nat : D[k + 1] = Round(D[k])
  BY DerivedLemma
<1>2. IsFiniteSet(Nodes \X Objs)
  <2>1. Objs \in SUBSET Nodes /\ IsFiniteSet(Nodes)
    BY NodesAssumption DEF Nodes
  <2>2. IsFiniteSet(Objs)
    BY <2>1, FS_Subset
  <2> QED
    BY <2>1, <2>2, FS_Product
<1>3. N \in Nat
  BY <1>2, FS_CardinalityType
<1>4. \A k \in Nat : D[k] \subseteq D[k + 1]
  BY <1>1, RoundType
<1>5. ASSUME NEW k \in Nat, D[k + 1] = D[k] PROVE D[k + 2] = D[k + 1]
  <2>1. k + 1 \in Nat /\ (k + 1) + 1 = k + 2
    OBVIOUS
  <2> QED
    BY <1>1, <1>5, <2>1
<1>6. D \in [Nat -> SUBSET (Nodes \X Objs)]
  BY DEF AllFacts
<1>7. D[N + 1] = D[N]
  BY <1>2, <1>4, <1>5, <1>6, GrowthStops
<1>8. PICK F \in AllFacts : F = D[N] /\ Round(F) = F
  BY <1>1, <1>3, <1>7
<1>9. Rules!Least = Rules!FromFacts(F)
  <2>1. Rules!Cardinality(Nodes \X Objs) = N
    BY DEF Rules!Cardinality, Cardinality
  <2> QED
    BY <1>1, <1>8, <2>1 DEF Rules!Least, Nodes, Rules!Nodes
<1>10. PICK L \in Rules!Solutions : L = Rules!FromFacts(F)
  BY FactsLemma DEF AllFacts
<1>11. Rules!FromFacts(Rules!Facts(Rules!Infer(L))) = Rules!Infer(L)
  BY FactsLemma, InferType
<1>12. Rules!Infer(L) = L
  BY <1>8, <1>10, <1>11 DEF Round
<1>13. Rules!Closed(L)
  BY <1>12 DEF Rules!Closed, Rules!Below
<1>14. ASSUME NEW B \in Rules!Solutions, Rules!Closed(B) PROVE Rules!Below(L, B)
  <2>1. \A n \in Nodes : Rules!Infer(B)[n] \subseteq B[n]
    BY <1>14 DEF Rules!Closed, Rules!Below, Nodes, Rules!Nodes
  <2> DEFINE T == {k \in Nat : D[k] \subseteq Rules!Facts(B)}
  <2>2. \A n \in Nodes : \A o : <<n, o>> \in Rules!Facts(B) <=> o \in B[n]
    BY DEF Rules!Facts, Nodes, Rules!Nodes
  <2>3. 0 \in T
    <3>1. \A n \in Nodes : Rules!AddrFacts[n] \subseteq B[n]
      <4> SUFFICES ASSUME NEW n \in Nodes, NEW o \in Objs, <<o, n>> \in prog.addr PROVE o \in B[n]
        BY DEF Rules!AddrFacts, Nodes, Rules!Nodes
      <4>1. Inferred(B, n, o)
        BY DEF Inferred
      <4> QED
        BY <2>1, <4>1, InferLemma
    <3>2. Rules!Facts(Rules!AddrFacts) \subseteq Rules!Facts(B)
      BY <3>1 DEF Rules!Facts, Nodes, Rules!Nodes
    <3> QED
      BY <1>1, <3>2
  <2>4. ASSUME NEW k \in Nat, k \in T PROVE k + 1 \in T
    <3>1. PICK S \in Rules!Solutions : S = Rules!FromFacts(D[k])
      BY FactsLemma DEF AllFacts
    <3>2. \A n \in Nodes : S[n] \subseteq B[n]
      <4>1. \A n \in Nodes : S[n] = {o \in Objs : <<n, o>> \in D[k]}
        BY <3>1 DEF Rules!FromFacts, Nodes, Rules!Nodes
      <4> QED
        BY <2>2, <2>4, <4>1
    <3>3. \A n \in Nodes : Rules!Infer(S)[n] \subseteq B[n]
      BY <2>1, <3>2, InferGrows
    <3>4. Rules!Facts(Rules!Infer(S)) \subseteq Rules!Facts(B)
      BY <3>3 DEF Rules!Facts, Nodes, Rules!Nodes
    <3> QED
      BY <1>1, <3>1, <3>4 DEF Round
  <2>5. N \in T
    <3> HIDE DEF T
    <3> QED
      BY <1>3, <2>3, <2>4, Inductive
  <2>6. \A n \in Nodes : L[n] = {o \in Objs : <<n, o>> \in F}
    BY <1>10 DEF Rules!FromFacts, Nodes, Rules!Nodes
  <2>7. \A n \in Nodes : L[n] \subseteq B[n]
    <3> USE DEF T
    <3>1. F \subseteq Rules!Facts(B)
      BY <1>8, <2>5
    <3> HIDE DEF T
    <3> QED
      BY <2>2, <2>6, <3>1
  <2> QED
    BY <2>7 DEF Rules!Below, Nodes, Rules!Nodes
<1> QED
  BY <1>9, <1>10, <1>13, <1>14

-----------------------------------------------------------------------------
(* The worklist solver *)

\* Gep edges wait to be processed only while a node is.
GepPhase == pc # "gep" => gepTodo = {}

Inv == TypeOK /\ GepPhase /\ PropagationInv(gepTodo)

LEMMA InitInv == Init => Inv
<1> SUFFICES ASSUME Init PROVE Inv
  OBVIOUS
<1>1. BaseTypeOK /\ PropagationInv({})
  BY BaseInitType, BaseInitInv DEF Init
<1>2. cur \in Nodes
  BY NodesAssumption DEF Init
<1> QED
  BY <1>1, <1>2 DEF Init, Inv, TypeOK, Locations, GepPhase

-----------------------------------------------------------------------------
(* Types *)

\* Every step of the worklist solver keeps the types.
LEMMA NextType == TypeOK /\ GepPhase /\ [Next]_vars => TypeOK' /\ GepPhase'
<1> SUFFICES ASSUME TypeOK, GepPhase, [Next]_vars PROVE TypeOK' /\ GepPhase'
  OBVIOUS
<1> USE DEF GepPhase
<1>0. BaseTypeOK
  BY DEF TypeOK
<1>1. CASE PopNode
  <2>1. PICK n \in wl : wl' = wl \ {n} /\ cur' = rep[n] /\ pending' = LoadStoreEdges(rep[n])
    BY <1>1 DEF PopNode
  <2>2. rep[n] \in Nodes
    BY <1>0 DEF BaseTypeOK, GraphTypeOK
  <2>3. pending' \subseteq Nodes \X Nodes
    BY <1>0, <2>1, <2>2, LoadStoreEdgesType
  <2>4. BaseTypeOK'
    BY <1>0, <1>1, <2>1, <2>3 DEF PopNode, BaseTypeOK, GraphTypeOK, graphVars
  <2> QED
    BY <1>1, <2>1, <2>2, <2>4 DEF PopNode, TypeOK, Locations, graphVars
<1>2. CASE HandleLoadStore
  BY <1>2, AddPendingEdgeType DEF TypeOK, HandleLoadStore, AddPendingEdge
<1>3. CASE HandleCopy
  <2>1. BaseTypeOK'
    BY <1>3, PropagateCopiesType DEF TypeOK, HandleCopy
  <2>2. gepTodo' \subseteq ngep' \union vgep'
    BY <1>3 DEF HandleCopy, GepOutEdges, graphVars
  <2> QED
    BY <1>3, <2>1, <2>2 DEF TypeOK, HandleCopy, Locations
<1>4. CASE HandleGep
  <2>1. BaseTypeOK'
    BY <1>4, ProcessGepType DEF TypeOK, HandleGep
  <2> QED
    BY <1>4, <2>1 DEF TypeOK, HandleGep, graphVars
<1>5. CASE EndNode
  BY <1>5 DEF TypeOK, BaseTypeOK, GraphTypeOK, EndNode, baseVars, graphVars, ptaVars, workVars,
              Locations
<1>6. CASE CollapseFields
  <2>1. BaseTypeOK'
    BY <1>6, CollapseNextType, CollapseStepType DEF TypeOK, CollapseFields
  <2> QED
    BY <1>6, <2>1 DEF TypeOK, CollapseFields
<1>7. CASE EndCollapse
  BY <1>7 DEF TypeOK, BaseTypeOK, GraphTypeOK, EndCollapse, baseVars, graphVars, ptaVars,
              workVars, Locations
<1>8. CASE UpdateCallGraph
  <2>1. BaseTypeOK'
    BY <1>8, ResolveCallsType DEF TypeOK, UpdateCallGraph
  <2> QED
    BY <1>8, <2>1 DEF TypeOK, UpdateCallGraph, Locations
<1>9. CASE ConnectParams
  BY <1>9, AddPendingEdgeType DEF TypeOK, ConnectParams, AddPendingEdge
<1>10. CASE EndRound
  BY <1>10 DEF TypeOK, BaseTypeOK, GraphTypeOK, EndRound, graphVars, workVars, Locations
<1>11. CASE UNCHANGED vars
  BY <1>11 DEF TypeOK, BaseTypeOK, GraphTypeOK, vars, baseVars, graphVars, ptaVars, workVars
<1> QED
  BY <1>1, <1>2, <1>3, <1>4, <1>5, <1>6, <1>7, <1>8, <1>9, <1>10, <1>11 DEF Next

-----------------------------------------------------------------------------
(* Difference propagation *)

\* Every step of the worklist solver keeps the invariant of difference propagation.
LEMMA NextInv == Inv /\ [Next]_vars => Inv'
<1> SUFFICES ASSUME Inv, [Next]_vars PROVE PropagationInv(gepTodo)'
  BY NextType DEF Inv
<1>0. BaseTypeOK /\ BaseTypeOK' /\ PropagationInv(gepTodo) /\ GepPhase
  BY NextType DEF Inv, TypeOK
<1>1. PICK todo : todo = gepTodo'
  OBVIOUS
<1>2. SUFFICES PropagationInv(todo)'
  BY <1>1 DEF PropagationInv, GepSent
<1>3. ASSUME UNCHANGED <<graphVars, pts, propa, diff, fi, frames, gepTodo>>
      PROVE  PropagationInv(todo)'
  BY <1>0, <1>1, <1>3, QuietInv
<1>4. CASE PopNode \/ EndNode \/ EndCollapse \/ UpdateCallGraph \/ EndRound \/ UNCHANGED vars
  BY <1>3, <1>4
     DEF PopNode, EndNode, EndCollapse, UpdateCallGraph, ResolveCalls, EndRound, vars,
         baseVars, graphVars, ptaVars, workVars
<1>5. CASE HandleLoadStore \/ ConnectParams
  <2>1. gepTodo = {} /\ todo = {} /\ AddPendingEdge
    BY <1>0, <1>1, <1>5 DEF HandleLoadStore, ConnectParams, GepPhase
  <2> QED
    BY <1>0, <2>1, AddPendingEdgeInv
<1>6. CASE HandleCopy
  <2>1. gepTodo = {} /\ cur \in Nodes
    BY <1>0, <1>6 DEF HandleCopy, GepPhase, Inv, TypeOK
  <2>2. pts[cur] # propa[cur] => {e \in ngep \union vgep : e[1] = cur} \subseteq todo
    BY <1>1, <1>6 DEF HandleCopy, GepOutEdges
  <2> QED
    BY <1>0, <1>6, <2>1, <2>2, PropagateCopiesInv DEF HandleCopy
<1>7. CASE HandleGep
  <2>1. PICK e \in gepTodo :
          /\ gepTodo' = gepTodo \ {e}
          /\ IF e \in vgep THEN ProcessVariantGep(e) ELSE ProcessNormalGep(e)
    BY <1>7 DEF HandleGep
  <2>2. e \in ngep \union vgep
    BY DEF Inv, TypeOK
  <2>3. PICK old : old = gepTodo
    OBVIOUS
  <2>4. PropagationInv(old)
    BY <1>0, <2>3
  <2>5. PropagationInv(old \ {e})'
    BY <1>0, <1>7, <2>1, <2>2, <2>4, ProcessGepInv DEF HandleGep
  <2> QED
    BY <1>1, <2>1, <2>3, <2>5
<1>8. CASE CollapseFields
  <2>1. gepTodo = {} /\ todo = {}
    BY <1>0, <1>1, <1>8 DEF CollapseFields, GepPhase
  <2> QED
    BY <1>0, <1>8, <2>1, CollapseNextInv, CollapseStepInv DEF CollapseFields
<1> QED
  BY <1>4, <1>5, <1>6, <1>7, <1>8 DEF Next

(***************************************************************************)
(* The state of the worklist solver is always of the right types, for any  *)
(* program: merging, collapsing and resolving calls make only graph nodes, *)
(* objects and well-formed stack frames.                                   *)
(***************************************************************************)
THEOREM TypeCorrect == Spec => []TypeOK
<1>1. Inv => TypeOK
  BY DEF Inv
<1> QED
  BY InitInv, NextInv, <1>1, PTL DEF Spec

(***************************************************************************)
(* Difference propagation loses nothing, for any program: what a node's    *)
(* propagated set says was sent along its copy and gep edges is held, up   *)
(* to collapsed fields, by the node at the other end.                      *)
(***************************************************************************)
THEOREM PropagationSound == Spec => []PropagatedReached
<1>1. Inv => PropagatedReached
  BY DEF Inv, PropagationInv, PropagatedReached
<1> QED
  BY InitInv, NextInv, <1>1, PTL DEF Spec

-----------------------------------------------------------------------------
(* Fields of collapsed objects *)

\* Objects wait to be collapsed only from the geps of a node to the end of its processing.
CollapsePhase ==
    /\ pc \notin {"gep", "collapse"} => toCollapse = {}
    /\ pc # "collapse" => frames = <<>>

StaleInv == FieldInv /\ CollapsePhase /\ (pc = "gep" => DiffDue)

LEMMA InitStale == Init => StaleInv
<1> SUFFICES ASSUME Init PROVE StaleInv
  OBVIOUS
<1>1. FieldInv
  BY BaseInitFields DEF Init
<1> QED
  BY <1>1 DEF Init, BaseInit, StaleInv, CollapsePhase

LEMMA NextStale == Inv /\ StaleInv /\ [Next]_vars => StaleInv'
<1> SUFFICES ASSUME Inv, StaleInv, [Next]_vars PROVE StaleInv'
  OBVIOUS
<1>0. BaseTypeOK /\ CollapsingFI /\ FieldInv /\ CollapsePhase
  BY DEF Inv, TypeOK, PropagationInv, StaleInv
<1>1. ASSUME UNCHANGED <<pts, fi, toCollapse, frames>> PROVE FieldInv'
  BY <1>0, <1>1, HandOnFields
<1>2. CASE PopNode \/ HandleLoadStore \/ UpdateCallGraph \/ ConnectParams \/ EndRound
  <2>1. UNCHANGED <<pts, fi, toCollapse, frames>> /\ pc # "gep" /\ pc' # "gep"
        /\ pc \notin {"gep", "collapse"} /\ pc' \notin {"gep", "collapse"}
    BY <1>2 DEF PopNode, HandleLoadStore, UpdateCallGraph, ConnectParams, EndRound,
                AddPendingEdge, ResolveCalls, workVars
  <2> QED
    BY <1>0, <1>1, <2>1 DEF StaleInv, CollapsePhase
<1>3. CASE HandleCopy
  <2>1. cur \in Nodes /\ PropagateCopies(cur) /\ UNCHANGED <<fi, toCollapse, frames>>
        /\ pc = "loadstore" /\ pc' = "gep"
    BY <1>3 DEF HandleCopy, Inv, TypeOK, workVars
  <2>2. FieldInv' /\ DiffDue'
    BY <1>0, <2>1, PropagateCopiesFields
  <2> QED
    BY <1>0, <2>1, <2>2 DEF StaleInv, CollapsePhase
<1>4. CASE HandleGep
  <2>1. PICK e \in gepTodo :
          IF e \in vgep THEN ProcessVariantGep(e) ELSE ProcessNormalGep(e)
    BY <1>4 DEF HandleGep
  <2>2. e \in ngep \union vgep /\ UNCHANGED <<diff, frames, pc>> /\ pc = "gep" /\ DiffDue
    BY <1>4 DEF Inv, TypeOK, HandleGep, StaleInv
  <2>3. FieldInv' /\ DiffDue'
    BY <1>0, <2>1, <2>2, ProcessGepFields
  <2> QED
    BY <1>0, <2>2, <2>3 DEF StaleInv, CollapsePhase
<1>5. CASE EndNode \/ EndCollapse \/ UNCHANGED vars
  <2>1. UNCHANGED baseVars
    BY <1>5 DEF EndNode, EndCollapse, vars
  <2>2. UNCHANGED <<pts, fi, toCollapse, frames, diff>>
    BY <2>1 DEF baseVars, ptaVars, workVars
  <2>3. DiffDue <=> DiffDue'
    BY <2>2 DEF DiffDue, Canon, IsFI, Due, InStack
  <2>4. CollapsePhase' /\ (pc' = "gep" => pc = "gep")
    BY <1>0, <1>5, <2>2 DEF EndNode, EndCollapse, vars, CollapsePhase
  <2> QED
    BY <1>1, <2>2, <2>3, <2>4 DEF StaleInv
<1>6. CASE CollapseFields
  <2>1. FieldInv'
    BY <1>0, <1>6, CollapseNextFields, CollapseStepFields DEF CollapseFields
  <2>2. pc = "collapse" /\ pc' = "collapse"
    BY <1>6 DEF CollapseFields
  <2> QED
    BY <2>1, <2>2 DEF StaleInv, CollapsePhase
<1> QED
  BY <1>2, <1>3, <1>4, <1>5, <1>6 DEF Next

(***************************************************************************)
(* Between two nodes no points-to set holds a field of an object that has  *)
(* lost its fields, for any program: collapseField finds every set that    *)
(* holds the field, also sets that got it while it ran.                    *)
(***************************************************************************)
THEOREM FieldsReplaced == Spec => []NoStaleField
<1>1. StaleInv => NoStaleField
  BY FieldsSettled DEF StaleInv, CollapsePhase, NoStaleField
<1> QED
  BY InitInv, NextInv, InitStale, NextStale, <1>1, PTL DEF Spec

-----------------------------------------------------------------------------
(* The refinement of InclusionAnalysis *)

\* The limit on resolved calls is not the reason the solver stops.
CallsWithinLimit ==
    /\ CallLimit \in Nat
    /\ \A P \in Programs : IsFiniteSet(P.calls) /\ Cardinality(P.calls) <= CallLimit

Plain == prog.vgep = {}  \* the programs of which something is promised

\* Without variable offsets nothing is collapsed, so nothing is ever merged.
Unmerged ==
    /\ load = prog.load /\ store = prog.store /\ ngep = prog.ngep /\ vgep = {}
    /\ rep = [n \in Nodes |-> n]
    /\ fi = InitFI /\ toCollapse = {} /\ frames = <<>>

\* What is derived is derivable: edges hold, and the difference comes from the node.
DerivedInv ==
    /\ \A e \in copy \union pending : FlowOf(pts, e)
    /\ pc = "gep" => diff \subseteq pts[cur] /\ \A e \in gepTodo : e[1] = cur

Present(e) == e[1] = e[2] \/ e \in copy

\* A node that is neither on the worklist nor being popped has been processed to the end.
Settled(n) == n \notin wl /\ ~ (n = cur /\ pc = "loadstore")

(***************************************************************************)
(* What is derivable will be derived: by a node on the worklist, by the    *)
(* handler that is running, or by the next resolution of calls.            *)
(***************************************************************************)
OwedInv ==
    /\ \A n \in Nodes : AddrPts[n] \subseteq pts[n]
    /\ prog.copy \subseteq copy
    /\ \A n \in Nodes : Settled(n) => pts[n] = propa[n] /\ \A e \in LoadStoreEdges(n) : Present(e)
    /\ pc = "loadstore" => \A e \in LoadStoreEdges(cur) : Present(e) \/ e \in pending
    /\ \A c \in callEdges : \A e \in c.params : Present(e) \/ (pc = "connect" /\ e \in pending)
    /\ pc \notin {"loadstore", "connect"} => pending = {}
    /\ pc # "connect" => ~ reanalyze
    /\ pc = "connect" /\ ~ reanalyze => wl = {} /\ pending = {} /\ Resolvable = {}

PlainInv == Plain => Unmerged /\ DerivedInv /\ OwedInv

LEMMA FlowLemma ==
    ASSUME NEW S, NEW e PROVE e \in Abs!Flow(S) <=> FlowOf(S, e)
BY RulesFlow DEF Abs!Flow, Rules!Flow

LEMMA ProgramType ==
    ASSUME BaseTypeOK
    PROVE  /\ \A l \in prog.load : l = <<l[1], l[2]>> /\ l[1] \in Nodes /\ l[2] \in Nodes
           /\ \A t \in prog.store : t = <<t[1], t[2]>> /\ t[1] \in Nodes /\ t[2] \in Nodes
           /\ \A c \in prog.calls : /\ c.fptr \in Nodes /\ c.callee \in Objs
                                    /\ c.params \subseteq Nodes \X Nodes
           /\ prog.copy \subseteq Nodes \X Nodes
BY DEF BaseTypeOK, GraphTypeOK, Statements, Calls, Nodes

\* More pointees, more copies.
LEMMA FlowGrows ==
    ASSUME BaseTypeOK, NEW S, NEW T, \A n \in Nodes : S[n] \subseteq T[n], NEW e, FlowOf(S, e)
    PROVE  FlowOf(T, e)
BY ProgramType DEF FlowOf

\* The copies of FlowOf that a load or store asks for, node by node.
LEMMA LoadStoreFlow ==
    ASSUME BaseTypeOK, Unmerged
    PROVE  /\ \A n \in Nodes : \A e \in LoadStoreEdges(n) : FlowOf(pts, e)
           /\ \A e : FlowOf(pts, e) =>
                \/ e \in prog.copy
                \/ \E n \in Nodes : e \in LoadStoreEdges(n)
                \/ \E c \in prog.calls : c.callee \in pts[c.fptr] /\ e \in c.params
<1>1. ASSUME NEW n \in Nodes, NEW e \in LoadStoreEdges(n) PROVE FlowOf(pts, e)
  <2> DEFINE targets == pts[n] \ ConstObjs
             dsts == {l[2] : l \in {x \in load : x[1] = n}} \ NonPtrs
             srcs == {t[1] : t \in {x \in store : x[2] = n}} \ NonPtrs
  <2>1. e \in (targets \X dsts) \union (srcs \X targets)
    BY <1>1 DEF LoadStoreEdges
  <2>2. targets \subseteq Objs \ ConstObjs
    BY DEF BaseTypeOK
  <2>3. CASE e \in targets \X dsts
    <3>1. PICK o \in targets, d \in dsts : e = <<o, d>>
      BY <2>3
    <3>2. PICK l \in prog.load : l[1] = n /\ l[2] = d
      BY <3>1 DEF Unmerged
    <3> QED
      BY <2>2, <3>1, <3>2 DEF FlowOf
  <2>4. CASE e \in srcs \X targets
    <3>1. PICK o \in targets, d \in srcs : e = <<d, o>>
      BY <2>4
    <3>2. PICK t \in prog.store : t[2] = n /\ t[1] = d
      BY <3>1 DEF Unmerged
    <3> QED
      BY <2>2, <3>1, <3>2 DEF FlowOf
  <2> QED
    BY <2>1, <2>3, <2>4
<1>2. ASSUME NEW o \in Objs \ ConstObjs, NEW l \in prog.load,
             o \in pts[l[1]], l[2] \notin NonPtrs
      PROVE  l[1] \in Nodes /\ <<o, l[2]>> \in LoadStoreEdges(l[1])
  BY <1>2, ProgramType DEF LoadStoreEdges, Unmerged
<1>3. ASSUME NEW o \in Objs \ ConstObjs, NEW t \in prog.store,
             o \in pts[t[2]], t[1] \notin NonPtrs
      PROVE  t[2] \in Nodes /\ <<t[1], o>> \in LoadStoreEdges(t[2])
  BY <1>3, ProgramType DEF LoadStoreEdges, Unmerged
<1> QED
  BY <1>1, <1>2, <1>3 DEF FlowOf

LEMMA InitPlain == Init => PlainInv
<1> SUFFICES ASSUME Init, Plain PROVE Unmerged /\ DerivedInv /\ OwedInv
  BY DEF PlainInv
<1>1. BaseTypeOK
  BY BaseInitType DEF Init
<1>2. Unmerged
  BY DEF Init, BaseInit, BuildCG, Unmerged, Plain
<1>3. DerivedInv
  BY DEF Init, BaseInit, BuildCG, DerivedInv, FlowOf
<1>4. ASSUME NEW n \in Nodes, n \notin wl PROVE pts[n] = {} /\ LoadStoreEdges(n) = {}
  <2>1. pts[n] = {}
    BY <1>4 DEF Init, BaseInit
  <2> QED
    BY <2>1 DEF LoadStoreEdges
<1>5. OwedInv
  BY <1>4 DEF Init, BaseInit, BuildCG, OwedInv, Settled
<1> QED
  BY <1>2, <1>3, <1>5

\* A step that leaves the graph alone keeps it unmerged.
LEMMA UnmergedKept ==
    ASSUME Unmerged, UNCHANGED <<prog, load, store, ngep, vgep, rep, fi, toCollapse, frames>>
    PROVE  Unmerged'
BY DEF Unmerged

LEMMA ProgKept == [Next]_vars => prog' = prog
<1> SUFFICES ASSUME [Next]_vars PROVE prog' = prog
  OBVIOUS
<1>1. CASE CollapseFields
  <2>1. CASE CollapseOneField
    BY <2>1 DEF CollapseOneField, MergeNode, MoveEdgesToRepNode, graphVars
  <2>2. CASE CollapseNext \/ EndCollapseField \/ CollapseOnePointee \/ EndCollapsePts
    BY <2>2 DEF CollapseNext, EndCollapseField, CollapseOnePointee, EndCollapsePts, graphVars
  <2> QED
    BY <1>1, <2>1, <2>2 DEF CollapseFields, CollapseStep
<1>2. CASE UNCHANGED vars
  BY <1>2 DEF vars, baseVars, graphVars
<1> QED
  BY <1>1, <1>2
     DEF Next, PopNode, HandleLoadStore, HandleCopy, HandleGep, EndNode, EndCollapse,
         UpdateCallGraph, ConnectParams, EndRound, AddPendingEdge, ResolveCalls, baseVars, graphVars

\* A load or store edge, or an edge of a call, is added.
LEMMA AddPendingPlain ==
    ASSUME BaseTypeOK, Plain, Unmerged, DerivedInv, AddPendingEdge, pc' # "gep"
    PROVE  /\ Unmerged' /\ DerivedInv'
           /\ \A e \in pending : e \in pending' \/ Present(e)'
           /\ \A e : Present(e) => Present(e)'
           /\ wl \subseteq wl' /\ copy \subseteq copy' /\ pending' \subseteq pending
           /\ \A n \in Nodes \ wl' : propa'[n] = propa[n]
           /\ UNCHANGED <<prog, load, store, pts, callEdges, reanalyze>>
<1>1. PICK a \in pending :
        /\ AddCopyEdge(a[1], a[2])
        /\ pending' = pending \ {a}
        /\ wl' = IF NewCopyEdge(a[1], a[2]) THEN wl \union {rep[a[1]]} ELSE wl
        /\ UNCHANGED <<prog, load, store, ngep, vgep, rep, pwc, pts, diff, fi, reanalyze,
                       callEdges, toCollapse, frames>>
  BY DEF AddPendingEdge
<1>2. a[1] \in Nodes /\ a[2] \in Nodes /\ a = <<a[1], a[2]>> /\ rep[a[1]] = a[1] /\ rep[a[2]] = a[2]
  BY DEF BaseTypeOK, Unmerged
<1>3. /\ copy' = IF a[1] # a[2] /\ a \notin copy THEN copy \union {a} ELSE copy
      /\ wl' = IF a[1] # a[2] /\ a \notin copy THEN wl \union {a[1]} ELSE wl
      /\ propa' = IF a[1] # a[2] /\ a \notin copy
                    THEN [propa EXCEPT ![a[1]] = @ \intersect propa[a[2]]] ELSE propa
  BY <1>1, <1>2 DEF AddCopyEdge, NewCopyEdge
<1>4. \A n \in Nodes \ wl' : propa'[n] = propa[n]
  BY <1>2, <1>3 DEF BaseTypeOK
<1>5. Unmerged'
  BY <1>1, UnmergedKept
<1>6. DerivedInv'
  BY <1>1, <1>3 DEF DerivedInv, FlowOf
<1>7. \A e : Present(e) => Present(e)'
  BY <1>3 DEF Present
<1>8. Present(a)'
  BY <1>2, <1>3 DEF Present
<1> QED
  BY <1>1, <1>3, <1>4, <1>5, <1>6, <1>7, <1>8

LEMMA SameLoadStoreEdges ==
    ASSUME UNCHANGED <<load, store>>, NEW n, pts'[n] = pts[n]
    PROVE  LoadStoreEdges(n)' = LoadStoreEdges(n)
BY DEF LoadStoreEdges

LEMMA PopNodePlain ==
    ASSUME TypeOK, Plain, Unmerged, DerivedInv, OwedInv, PopNode
    PROVE  Unmerged' /\ DerivedInv' /\ OwedInv'
<1>1. PICK n \in wl : wl' = wl \ {n} /\ cur' = rep[n] /\ pending' = LoadStoreEdges(rep[n])
  BY DEF PopNode
<1>2. /\ pc = "worklist" /\ pc' = "loadstore"
      /\ UNCHANGED <<graphVars, pts, propa, diff, fi, reanalyze, callEdges, toCollapse, frames, gepTodo>>
  BY DEF PopNode
<1>3. n \in Nodes /\ rep[n] = n
  BY DEF TypeOK, BaseTypeOK, Unmerged
<1>4. Unmerged'
  BY <1>2, UnmergedKept DEF graphVars
<1>5. DerivedInv'
  <2>1. \A e \in pending' : FlowOf(pts, e)
    BY <1>1, <1>3, LoadStoreFlow DEF TypeOK
  <2> QED
    BY <1>2, <2>1 DEF DerivedInv, FlowOf, graphVars
<1>6. \A m \in Nodes : LoadStoreEdges(m)' = LoadStoreEdges(m)
  BY <1>2, SameLoadStoreEdges DEF graphVars
<1>7. \A m \in Nodes : Settled(m)' => Settled(m)
  BY <1>1, <1>2, <1>3 DEF Settled
<1>8. \A e : Present(e) <=> Present(e)'
  BY <1>2 DEF Present, graphVars
<1>9. \A m \in Nodes :
         Settled(m)' => pts'[m] = propa'[m] /\ \A e \in LoadStoreEdges(m)' : Present(e)'
  BY <1>2, <1>6, <1>7, <1>8 DEF OwedInv
<1>10. \A c \in callEdges : \A e \in c.params : Present(e)'
  BY <1>2, <1>8 DEF OwedInv
<1>11. PICK k : k = cur'
  OBVIOUS
<1>12. \A e \in LoadStoreEdges(k)' : Present(e)' \/ e \in pending'
  BY <1>1, <1>3, <1>6, <1>11
<1> QED
  BY <1>2, <1>4, <1>5, <1>9, <1>10, <1>11, <1>12
     DEF OwedInv, graphVars, AddrPts, LoadStoreEdges

LEMMA HandleLoadStorePlain ==
    ASSUME TypeOK, Plain, Unmerged, DerivedInv, OwedInv, HandleLoadStore
    PROVE  Unmerged' /\ DerivedInv' /\ OwedInv'
<1>1. AddPendingEdge /\ pc = "loadstore" /\ UNCHANGED <<pc, cur, gepTodo>> /\ BaseTypeOK
  BY DEF HandleLoadStore, TypeOK
<1>2. /\ Unmerged' /\ DerivedInv'
      /\ \A e \in pending : e \in pending' \/ Present(e)'
      /\ \A e : Present(e) => Present(e)'
      /\ wl \subseteq wl' /\ copy \subseteq copy' /\ pending' \subseteq pending
      /\ \A n \in Nodes \ wl' : propa'[n] = propa[n]
      /\ UNCHANGED <<prog, load, store, pts, callEdges, reanalyze>>
  BY <1>1, AddPendingPlain
<1>3. \A m \in Nodes : LoadStoreEdges(m)' = LoadStoreEdges(m)
  BY <1>2, SameLoadStoreEdges
<1>4. \A m \in Nodes : Settled(m)' => Settled(m) /\ m \notin wl'
  BY <1>1, <1>2 DEF Settled
<1>5. \A m \in Nodes :
         Settled(m)' => pts'[m] = propa'[m] /\ \A e \in LoadStoreEdges(m)' : Present(e)'
  BY <1>2, <1>3, <1>4 DEF OwedInv
<1>6. \A e \in LoadStoreEdges(cur)' : Present(e)' \/ e \in pending'
  BY <1>1, <1>2, <1>3 DEF OwedInv, TypeOK
<1>7. \A c \in callEdges : \A e \in c.params : Present(e)'
  BY <1>1, <1>2 DEF OwedInv
<1> QED
  BY <1>1, <1>2, <1>5, <1>6, <1>7 DEF OwedInv, AddrPts, LoadStoreEdges

LEMMA ConnectParamsPlain ==
    ASSUME TypeOK, Plain, Unmerged, DerivedInv, OwedInv, ConnectParams
    PROVE  Unmerged' /\ DerivedInv' /\ OwedInv'
<1>1. AddPendingEdge /\ pc = "connect" /\ UNCHANGED <<pc, cur, gepTodo>> /\ BaseTypeOK
  BY DEF ConnectParams, TypeOK
<1>2. /\ Unmerged' /\ DerivedInv'
      /\ \A e \in pending : e \in pending' \/ Present(e)'
      /\ \A e : Present(e) => Present(e)'
      /\ wl \subseteq wl' /\ copy \subseteq copy' /\ pending' \subseteq pending
      /\ \A n \in Nodes \ wl' : propa'[n] = propa[n]
      /\ UNCHANGED <<prog, load, store, pts, callEdges, reanalyze>>
  BY <1>1, AddPendingPlain
<1>3. \A m \in Nodes : LoadStoreEdges(m)' = LoadStoreEdges(m)
  BY <1>2, SameLoadStoreEdges
<1>4. \A m \in Nodes : Settled(m)' => Settled(m) /\ m \notin wl'
  BY <1>1, <1>2 DEF Settled
<1>5. \A m \in Nodes :
         Settled(m)' => pts'[m] = propa'[m] /\ \A e \in LoadStoreEdges(m)' : Present(e)'
  BY <1>2, <1>3, <1>4 DEF OwedInv
<1>6. reanalyze
  BY <1>1 DEF OwedInv, AddPendingEdge
<1>7. \A c \in callEdges : \A e \in c.params : Present(e)' \/ e \in pending'
  BY <1>1, <1>2 DEF OwedInv
<1> QED
  BY <1>1, <1>2, <1>5, <1>6, <1>7 DEF OwedInv, AddrPts

LEMMA HandleCopyPlain ==
    ASSUME TypeOK, Plain, Unmerged, DerivedInv, OwedInv, HandleCopy
    PROVE  Unmerged' /\ DerivedInv' /\ OwedInv'
<1> DEFINE new == pts[cur] \ propa[cur]
           grown == {d \in Nodes : <<cur, d>> \in copy /\ ~ (new \subseteq pts[d])}
<1>1. /\ pc = "loadstore" /\ pc' = "gep" /\ pending = {}
      /\ diff' = new /\ propa' = [propa EXCEPT ![cur] = pts[cur]]
      /\ pts' = [d \in Nodes |-> IF <<cur, d>> \in copy THEN pts[d] \union new ELSE pts[d]]
      /\ wl' = wl \union grown
      /\ gepTodo' \subseteq {e \in ngep \union vgep : e[1] = cur}
      /\ UNCHANGED <<graphVars, fi, reanalyze, callEdges, workVars, cur>>
  BY DEF HandleCopy, PropagateCopies, GepOutEdges
<1>2. BaseTypeOK /\ cur \in Nodes
  BY DEF TypeOK
<1> HIDE DEF new
<1>3. Unmerged'
  BY <1>1, UnmergedKept DEF graphVars, workVars
<1>4. \A n \in Nodes : pts[n] \subseteq pts'[n]
  BY <1>1
<1>5. pts'[cur] = pts[cur]
  BY <1>1, <1>2 DEF new
<1>6. DerivedInv'
  <2>1. ASSUME NEW e, FlowOf(pts, e) PROVE FlowOf(pts, e)'
    <3>1. FlowOf(pts', e)
      BY <1>2, <1>4, <2>1, FlowGrows
    <3> QED
      BY <1>1, <3>1 DEF FlowOf, graphVars
  <2> QED
    BY <1>1, <1>5, <2>1 DEF DerivedInv, graphVars, workVars, new
<1>7. \A n \in Nodes \ wl' : pts'[n] = pts[n]
  BY <1>1
<1>8. \A n \in Nodes \ wl' : pts'[n] = propa'[n]
  <2>1. \A n \in Nodes \ wl' : n # cur => Settled(n)
    BY <1>1 DEF Settled
  <2> QED
    BY <1>1, <1>2, <1>5, <1>7, <2>1 DEF OwedInv, BaseTypeOK
<1>9. \A n \in Nodes \ wl' : LoadStoreEdges(n)' = LoadStoreEdges(n)
  BY <1>1, <1>7, SameLoadStoreEdges DEF graphVars
<1>10. \A n \in Nodes \ wl' : \A e \in LoadStoreEdges(n)' : Present(e)'
  <2>1. \A n \in Nodes \ wl' : \A e \in LoadStoreEdges(n) : Present(e)
    BY <1>1 DEF OwedInv, Settled
  <2> QED
    BY <1>1, <1>9, <2>1 DEF Present, graphVars
<1>11. \A n \in Nodes : AddrPts[n]' \subseteq pts'[n]
  BY <1>1, <1>4 DEF OwedInv, AddrPts, graphVars
<1> QED
  BY <1>1, <1>3, <1>6, <1>8, <1>10, <1>11 DEF OwedInv, Settled, Present, graphVars, workVars

LEMMA HandleGepPlain ==
    ASSUME TypeOK, Plain, Unmerged, DerivedInv, OwedInv, HandleGep
    PROVE  /\ Unmerged' /\ DerivedInv' /\ OwedInv'
           /\ \E e \in prog.ngep : \E S \in SUBSET pts[e[1]] :
                pts' = [pts EXCEPT ![e[2]] = @ \union {Abs!GepOf(o, e[3]) : o \in S}]
<1>1. PICK e \in gepTodo :
        /\ gepTodo' = gepTodo \ {e}
        /\ IF e \in vgep THEN ProcessVariantGep(e) ELSE ProcessNormalGep(e)
  BY DEF HandleGep
<1>2. /\ pc = "gep" /\ UNCHANGED pc /\ BaseTypeOK
      /\ UNCHANGED <<graphVars, propa, diff, reanalyze, callEdges, pending, frames, cur>>
  BY DEF HandleGep, TypeOK
<1>3. e \in prog.ngep /\ e \in ngep /\ e[1] = cur /\ diff \subseteq pts[cur]
  BY <1>2 DEF TypeOK, Unmerged, DerivedInv
<1>4. ProcessNormalGep(e)
  BY <1>1, <1>3 DEF Unmerged
<1>5. e[2] \in Nodes /\ e[3] \in Offsets /\ cur \in Nodes
  BY <1>2, <1>3, EdgeType DEF TypeOK
<1>6. PICK T : T = {NormalGepTarget(o, e[3]) : o \in diff}
  OBVIOUS
<1>7. /\ pts' = [pts EXCEPT ![e[2]] = @ \union T]
      /\ wl' = IF T \subseteq pts[e[2]] THEN wl ELSE wl \union {e[2]}
      /\ UNCHANGED <<fi, toCollapse>>
  BY <1>4, <1>6 DEF ProcessNormalGep, UnionPts
<1>8. T = {Abs!GepOf(o, e[3]) : o \in diff}
  BY <1>6 DEF NormalGepTarget, Abs!GepOf, IsFI, Unmerged, ConstOrBlk, Abs!ConstOrBlk
<1>9. Unmerged'
  BY <1>2, <1>7, UnmergedKept DEF graphVars
<1>10. /\ \A n \in Nodes : pts[n] \subseteq pts'[n]
       /\ \A n \in Nodes \ wl' : pts'[n] = pts[n] /\ n \notin wl
  BY <1>2, <1>5, <1>7 DEF BaseTypeOK
<1>11. DerivedInv'
  <2>1. ASSUME NEW x, FlowOf(pts, x) PROVE FlowOf(pts, x)'
    <3>1. FlowOf(pts', x)
      BY <1>2, <1>10, <2>1, FlowGrows
    <3> QED
      BY <1>2, <3>1 DEF FlowOf, graphVars
  <2> QED
    BY <1>1, <1>2, <1>5, <1>10, <2>1 DEF DerivedInv, graphVars
<1>12. \A n \in Nodes \ wl' :
         pts'[n] = propa'[n] /\ \A x \in LoadStoreEdges(n)' : Present(x)'
  <2>1. \A n \in Nodes \ wl' : pts[n] = propa[n] /\ \A x \in LoadStoreEdges(n) : Present(x)
    BY <1>2, <1>10 DEF OwedInv, Settled
  <2>2. \A n \in Nodes \ wl' : LoadStoreEdges(n)' = LoadStoreEdges(n)
    BY <1>2, <1>10, SameLoadStoreEdges DEF graphVars
  <2> QED
    BY <1>2, <1>10, <2>1, <2>2 DEF Present, graphVars
<1>13. \A n \in Nodes : AddrPts[n]' \subseteq pts'[n]
  BY <1>2, <1>10 DEF OwedInv, AddrPts, graphVars
<1>14. OwedInv'
  BY <1>2, <1>12, <1>13 DEF OwedInv, Settled, Present, graphVars
<1> QED
  BY <1>3, <1>7, <1>8, <1>9, <1>11, <1>14

\* Steps between the handlers.
LEMMA QuietPlain ==
    ASSUME TypeOK, GepPhase, Plain, Unmerged, DerivedInv, OwedInv,
           EndNode \/ EndCollapse \/ UNCHANGED vars
    PROVE  Unmerged' /\ DerivedInv' /\ OwedInv'
<1>1. UNCHANGED <<baseVars, cur, gepTodo>>
  BY DEF EndNode, EndCollapse, vars
<1>2. UNCHANGED <<graphVars, pts, propa, diff, fi, wl, reanalyze, callEdges, pending, toCollapse, frames>>
  BY <1>1 DEF baseVars, ptaVars, workVars
<1>3. \/ pc = pc'
      \/ pc' # "gep" /\ pc \notin {"loadstore", "connect"} /\ pc' \notin {"loadstore", "connect"}
  BY DEF EndNode, EndCollapse, vars
<1>4. Unmerged'
  BY <1>2, UnmergedKept DEF graphVars
<1>5. DerivedInv'
  BY <1>1, <1>2, <1>3 DEF DerivedInv, FlowOf, graphVars
<1>6. \A n : LoadStoreEdges(n)' = LoadStoreEdges(n)
  BY <1>2, SameLoadStoreEdges DEF graphVars
<1>7. \A n : Settled(n)' <=> Settled(n)
  BY <1>1, <1>2, <1>3 DEF Settled
<1>8. \A e : Present(e)' <=> Present(e)
  BY <1>2 DEF Present, graphVars
<1>9. AddrPts' = AddrPts /\ Resolvable' = Resolvable
  BY <1>2 DEF AddrPts, Resolvable, graphVars
<1>10. \A n \in Nodes : Settled(n)' => pts'[n] = propa'[n] /\ \A e \in LoadStoreEdges(n)' : Present(e)'
  BY <1>2, <1>6, <1>7, <1>8 DEF OwedInv
<1>11. pc' = "loadstore" => \A e \in LoadStoreEdges(cur)' : Present(e)' \/ e \in pending'
  BY <1>1, <1>2, <1>3, <1>6, <1>8 DEF OwedInv
<1>12. \A c \in callEdges' : \A e \in c.params : Present(e)' \/ (pc' = "connect" /\ e \in pending')
  BY <1>2, <1>3, <1>8 DEF OwedInv
<1> QED
  BY <1>1, <1>2, <1>3, <1>4, <1>5, <1>9, <1>10, <1>11, <1>12 DEF OwedInv, graphVars

\* Below the limit all resolvable calls are resolved.
LEMMA AllResolved ==
    ASSUME CallsWithinLimit, BaseTypeOK, prog \in Programs, NEW new \in SUBSET Resolvable,
           Cardinality(callEdges \union new) = CallLimit
    PROVE  new = Resolvable
<1>1. /\ IsFiniteSet(prog.calls) /\ Cardinality(prog.calls) <= CallLimit /\ CallLimit \in Nat
      /\ callEdges \union new \subseteq prog.calls
  BY DEF CallsWithinLimit, BaseTypeOK, Resolvable
<1>2. callEdges \union new = prog.calls
  <2>1. PICK C : C = callEdges \union new
    OBVIOUS
  <2>2. Cardinality(C) <= Cardinality(prog.calls) /\ (Cardinality(C) = Cardinality(prog.calls) => C = prog.calls)
    BY <1>1, <2>1, FS_Subset
  <2>3. Cardinality(prog.calls) \in Nat /\ Cardinality(C) = CallLimit
    BY <1>1, <2>1, FS_CardinalityType
  <2> QED
    BY <1>1, <2>1, <2>2, <2>3
<1> QED
  BY <1>2 DEF Resolvable

LEMMA UpdateCallGraphPlain ==
    ASSUME CallsWithinLimit, prog \in Programs,
           TypeOK, Plain, Unmerged, DerivedInv, OwedInv, UpdateCallGraph
    PROVE  Unmerged' /\ DerivedInv' /\ OwedInv'
<1>1. PICK new \in SUBSET Resolvable :
        /\ new = Resolvable \/ Cardinality(callEdges \union new) = CallLimit
        /\ callEdges' = callEdges \union new
        /\ pending' = UNION {c.params : c \in new}
        /\ reanalyze' = (reanalyze \/ new # {})
  BY DEF UpdateCallGraph, ResolveCalls
<1>2. /\ pc = "worklist" /\ pc' = "connect" /\ wl = {} /\ BaseTypeOK
      /\ UNCHANGED <<graphVars, pts, propa, diff, fi, wl, toCollapse, frames, cur, gepTodo>>
  BY DEF UpdateCallGraph, ResolveCalls, TypeOK
<1>3. new = Resolvable
  BY <1>1, <1>2, AllResolved
<1>4. Unmerged'
  BY <1>2, UnmergedKept DEF graphVars
<1>5. \A c \in new : c \in prog.calls /\ c.callee \in pts[c.fptr]
  BY <1>2, ProgramType DEF Resolvable, Unmerged
<1>6. DerivedInv'
  BY <1>1, <1>2, <1>5 DEF DerivedInv, FlowOf, graphVars
<1>7. \A m \in Nodes : LoadStoreEdges(m)' = LoadStoreEdges(m)
  BY <1>2, SameLoadStoreEdges DEF graphVars
<1>8. \A m \in Nodes :
        Settled(m)' => pts'[m] = propa'[m] /\ \A e \in LoadStoreEdges(m)' : Present(e)'
  BY <1>2, <1>7 DEF OwedInv, Settled, Present, graphVars
<1>9. \A c \in callEdges' : \A e \in c.params : Present(e)' \/ e \in pending'
  BY <1>1, <1>2 DEF OwedInv, Present, graphVars
<1>10. ~ reanalyze' => pending' = {} /\ Resolvable' = {}
  BY <1>1, <1>2, <1>3 DEF Resolvable, graphVars
<1> QED
  BY <1>2, <1>4, <1>6, <1>8, <1>9, <1>10 DEF OwedInv, AddrPts, graphVars

LEMMA EndRoundPlain ==
    ASSUME TypeOK, Plain, Unmerged, DerivedInv, OwedInv, EndRound
    PROVE  Unmerged' /\ DerivedInv' /\ OwedInv'
<1>1. /\ pc = "connect" /\ pending = {} /\ pc' \in {"worklist", "done"} /\ reanalyze' = FALSE
      /\ UNCHANGED <<graphVars, pts, propa, diff, fi, wl, callEdges, workVars, cur, gepTodo>>
  BY DEF EndRound
<1>2. Unmerged'
  BY <1>1, UnmergedKept DEF graphVars, workVars
<1>3. DerivedInv'
  BY <1>1 DEF DerivedInv, FlowOf, graphVars, workVars
<1>4. \A m \in Nodes : LoadStoreEdges(m)' = LoadStoreEdges(m)
  BY <1>1, SameLoadStoreEdges DEF graphVars
<1>5. \A m \in Nodes :
        Settled(m)' => pts'[m] = propa'[m] /\ \A e \in LoadStoreEdges(m)' : Present(e)'
  BY <1>1, <1>4 DEF OwedInv, Settled, Present, graphVars
<1> QED
  BY <1>1, <1>2, <1>3, <1>5 DEF OwedInv, Present, AddrPts, graphVars, workVars

LEMMA NextPlain ==
    ASSUME CallsWithinLimit
    PROVE  prog \in Programs /\ Inv /\ PlainInv /\ [Next]_vars => PlainInv'
<1> SUFFICES ASSUME prog \in Programs, Inv, PlainInv, [Next]_vars, Plain'
             PROVE  Unmerged' /\ DerivedInv' /\ OwedInv'
  BY DEF PlainInv
<1>1. TypeOK /\ GepPhase /\ Plain /\ Unmerged /\ DerivedInv /\ OwedInv
  BY ProgKept DEF Inv, PlainInv, Plain
<1>2. ~ CollapseFields
  <2>1. toCollapse = {} /\ frames = <<>>
    BY <1>1 DEF Unmerged
  <2> QED
    BY <2>1 DEF CollapseFields, CollapseNext
<1> QED
  BY <1>1, <1>2, PopNodePlain, HandleLoadStorePlain, HandleCopyPlain, HandleGepPlain, QuietPlain,
     UpdateCallGraphPlain, ConnectParamsPlain, EndRoundPlain DEF Next

-----------------------------------------------------------------------------
(* Steps of the worklist solver as steps of the analysis *)

LEMMA SolutionType == BaseTypeOK => Solution \in Abs!Solutions
  BY DEF BaseTypeOK, GraphTypeOK, Solution, Abs!Solutions, Nodes, Abs!Nodes

LEMMA PlainSolution == BaseTypeOK /\ Unmerged => Solution = pts
  BY DEF BaseTypeOK, GraphTypeOK, Unmerged, Solution

LEMMA InitImplements == Init => Abs!Init
<1> SUFFICES ASSUME Init PROVE Abs!Init
  OBVIOUS
<1>1. prog \in Statements /\ pc # "done" /\ rep = [n \in Nodes |-> n] /\ pts = AddrPts
  BY ProgramsAssumption DEF Init, BaseInit, BuildCG
<1>2. Solution = Abs!AddrFacts
  BY <1>1 DEF Solution, Abs!AddrFacts, AddrPts, Nodes, Abs!Nodes
<1> QED
  BY <1>1, <1>2 DEF Abs!Init, Statements, Abs!Statements, Calls, Abs!Calls, Nodes, Abs!Nodes

\* Pointees that came along a copy, or from a gep, are inferred.
LEMMA CopyInferred ==
    ASSUME NEW e, FlowOf(Solution, e), e[2] \in Nodes
    PROVE  Solution[e[1]] \subseteq Abs!Infer(Solution)[e[2]]
<1>1. e \in Abs!Flow(Solution)
  BY FlowLemma
<1> QED
  BY <1>1 DEF Abs!Infer, Nodes, Abs!Nodes

LEMMA GepInferred ==
    ASSUME NEW e \in prog.ngep, e[2] \in Nodes, NEW o \in Solution[e[1]]
    PROVE  Abs!GepOf(o, e[3]) \in Abs!Infer(Solution)[e[2]]
<1> DEFINE G(n) == UNION {{Abs!GepOf(x, f[3]) : x \in Solution[f[1]]} :
                             f \in {y \in prog.ngep : y[2] = n}}
<1>1. Abs!GepOf(o, e[3]) \in G(e[2])
  OBVIOUS
<1>2. G(e[2]) \subseteq Abs!Infer(Solution)[e[2]]
  <2>1. PICK n \in Nodes : n = e[2]
    OBVIOUS
  <2>2. Abs!Infer(Solution)[n] = Solution[n]
          \union {f[1] : f \in {y \in prog.addr : y[2] = n}}
          \union (UNION {Solution[f[1]] : f \in {y \in Abs!Flow(Solution) : y[2] = n}})
          \union G(n)
    BY DEF Abs!Infer, Nodes, Abs!Nodes
  <2> HIDE DEF G
  <2> QED
    BY <2>1, <2>2
<1> QED
  BY <1>1, <1>2

LEMMA KeptInferred ==
    ASSUME NEW n \in Nodes PROVE Solution[n] \subseteq Abs!Infer(Solution)[n]
BY DEF Abs!Infer, Nodes, Abs!Nodes

\* Whatever is inferred for n comes by one of the rules.
LEMMA InferCases ==
    ASSUME NEW n \in Nodes, NEW o \in Abs!Infer(Solution)[n]
    PROVE  \/ o \in Solution[n]
           \/ \E e \in prog.addr : e[1] = o /\ e[2] = n
           \/ \E e : FlowOf(Solution, e) /\ e[2] = n /\ o \in Solution[e[1]]
           \/ \E e \in prog.ngep : e[2] = n /\ \E x \in Solution[e[1]] : o = Abs!GepOf(x, e[3])
<1> DEFINE A == {f[1] : f \in {y \in prog.addr : y[2] = n}}
           F == UNION {Solution[f[1]] : f \in {y \in Abs!Flow(Solution) : y[2] = n}}
           G == UNION {{Abs!GepOf(x, f[3]) : x \in Solution[f[1]]} :
                          f \in {y \in prog.ngep : y[2] = n}}
<1>1. Abs!Infer(Solution)[n] = Solution[n] \union A \union F \union G
  BY DEF Abs!Infer, Nodes, Abs!Nodes
<1>2. ASSUME o \in F PROVE \E e : FlowOf(Solution, e) /\ e[2] = n /\ o \in Solution[e[1]]
  BY <1>2, FlowLemma
<1>3. ASSUME o \in G
      PROVE  \E e \in prog.ngep : e[2] = n /\ \E x \in Solution[e[1]] : o = Abs!GepOf(x, e[3])
  BY <1>3
<1>4. ASSUME o \in A PROVE \E e \in prog.addr : e[1] = o /\ e[2] = n
  BY <1>4
<1> HIDE DEF A, F, G
<1> QED
  BY <1>1, <1>2, <1>3, <1>4

\* A copy edge of the graph has been applied when its source has nothing new to send.
LEMMA CopyApplied ==
    ASSUME BaseTypeOK, CopySent, NoFieldOfFI, NEW e \in copy, pts[e[1]] = propa[e[1]]
    PROVE  pts[e[1]] \subseteq pts[e[2]]
<1> SUFFICES ASSUME NEW o \in pts[e[1]] PROVE o \in pts[e[2]]
  OBVIOUS
<1>1. e[1] \in Nodes /\ e[2] \in Nodes
  BY EdgeType
<1>2. PICK x \in pts[e[2]] : Canon(x) = Canon(o)
  BY DEF CopySent, Holds
<1> QED
  BY <1>1, <1>2 DEF NoFieldOfFI

LEMMA GepApplied ==
    ASSUME BaseTypeOK, GepSent({}), NoFieldOfFI, fi = InitFI,
           NEW e \in ngep, pts[e[1]] = propa[e[1]], NEW o \in pts[e[1]]
    PROVE  Abs!GepOf(o, e[3]) \in pts[e[2]]
<1>1. e[1] \in Nodes /\ e[2] \in Nodes /\ e[3] \in Offsets /\ o \in Objs
  BY EdgeType
<1>2. PICK t \in Objs : t = NormalGepTarget(o, e[3])
  BY <1>1, GepTargetType
<1>3. t = Abs!GepOf(o, e[3])
  BY <1>2 DEF NormalGepTarget, Abs!GepOf, IsFI, ConstOrBlk, Abs!ConstOrBlk
<1>4. Holds(e[2], NormalGepTarget(o, e[3]))
  BY DEF GepSent
<1>5. PICK x \in pts[e[2]] : Canon(x) = Canon(t)
  BY <1>2, <1>4 DEF Holds
<1>6. Canon(x) = x /\ Canon(o) = o
  BY <1>1 DEF NoFieldOfFI
<1>7. Canon(t) = t
  <2>1. CASE o \in ConstOrBlk \/ IsFI(o)
    BY <1>2, <1>6, <2>1 DEF NormalGepTarget
  <2>2. CASE ~ (o \in ConstOrBlk \/ IsFI(o))
    <3>1. t = FieldOf[<<o, e[3]>>] /\ BaseOf[t] = BaseOf[o]
      BY <1>1, <1>2, <2>2, ObjectsAssumption DEF NormalGepTarget
    <3> QED
      BY <2>2, <3>1 DEF Canon, IsFI
  <2> QED
    BY <2>1, <2>2
<1> QED
  BY <1>3, <1>5, <1>6, <1>7

\* When a round ends without asking for another, every rule has been applied.
LEMMA ClosedAtEnd ==
    ASSUME BaseTypeOK, PropagationInv({}), NoFieldOfFI, Plain, Unmerged, OwedInv,
           pc = "connect", pending = {}, ~ reanalyze
    PROVE  Abs!Closed(Solution)
<1>1. Solution = pts
  BY PlainSolution
<1>2. wl = {} /\ Resolvable = {}
  BY DEF OwedInv
<1>3. \A n \in Nodes : pts[n] = propa[n] /\ \A e \in LoadStoreEdges(n) : Present(e)
  BY <1>2 DEF OwedInv, Settled
<1>4. \A e : Present(e) /\ e[1] \in Nodes => pts[e[1]] \subseteq pts[e[2]]
  BY <1>3, CopyApplied DEF Present, PropagationInv
<1>5. ASSUME NEW e, FlowOf(pts, e) PROVE Present(e) /\ e[1] \in Nodes
  <2>1. CASE e \in prog.copy
    BY <2>1, ProgramType DEF OwedInv, Present
  <2>2. ASSUME NEW n \in Nodes, e \in LoadStoreEdges(n) PROVE Present(e) /\ e[1] \in Nodes
    BY <1>3, <2>2, LoadStoreEdgesType
  <2>3. ASSUME NEW c \in prog.calls, c.callee \in pts[c.fptr], e \in c.params
        PROVE  Present(e) /\ e[1] \in Nodes
    <3>1. rep[c.fptr] = c.fptr /\ e \in Nodes \X Nodes
      BY <2>3, ProgramType DEF Unmerged
    <3>2. c \in callEdges
      BY <1>2, <2>3, <3>1 DEF Resolvable
    <3> QED
      BY <2>3, <3>1, <3>2 DEF OwedInv
  <2> QED
    BY <1>5, <2>1, <2>2, <2>3, LoadStoreFlow
<1>6. ASSUME NEW n \in Nodes, NEW o \in Abs!Infer(Solution)[n] PROVE o \in Solution[n]
  <2>1. CASE o \in Solution[n]
    BY <2>1
  <2>2. CASE \E e \in prog.addr : e[1] = o /\ e[2] = n
    <3>1. <<o, n>> \in prog.addr /\ o \in Objs
      BY <2>2 DEF BaseTypeOK, GraphTypeOK, Statements
    <3> QED
      BY <1>1, <3>1 DEF OwedInv, AddrPts
  <2>3. ASSUME NEW e, FlowOf(Solution, e), e[2] = n, o \in Solution[e[1]] PROVE o \in Solution[n]
    BY <1>1, <1>4, <1>5, <2>3
  <2>4. ASSUME NEW e \in prog.ngep, e[2] = n, NEW x \in Solution[e[1]], o = Abs!GepOf(x, e[3])
        PROVE  o \in Solution[n]
    <3>1. e \in ngep /\ e[1] \in Nodes
      BY EdgeType DEF Unmerged
    <3> QED
      BY <1>1, <1>3, <2>4, <3>1, GepApplied DEF PropagationInv, Unmerged
  <2> QED
    BY <2>1, <2>2, <2>3, <2>4, InferCases
<1> QED
  BY <1>6 DEF Abs!Closed, Abs!Below, Nodes, Abs!Nodes

\* A step that adds inferred pointees and does not stop is a Derive step.
LEMMA DeriveStep ==
    ASSUME BaseTypeOK', prog' = prog, pc # "done", pc' # "done",
           \A n \in Nodes : /\ Solution[n] \subseteq Solution'[n]
                            /\ Solution'[n] \subseteq Abs!Infer(Solution)[n]
    PROVE  Abs!Next
<1>1. PICK T : T = Solution'
  OBVIOUS
<1>2. T \in Abs!Solutions
  BY <1>1 DEF BaseTypeOK, GraphTypeOK, Solution, Abs!Solutions, Nodes, Abs!Nodes
<1>3. Abs!Below(Solution, T) /\ Abs!Below(T, Abs!Infer(Solution))
  BY <1>1 DEF Abs!Below, Nodes, Abs!Nodes
<1>4. (pc = "done")' = (pc = "done")
  OBVIOUS
<1> QED
  BY <1>1, <1>2, <1>3, <1>4 DEF Abs!Next, Abs!Derive

LEMMA StepImplements ==
    Inv /\ Inv' /\ StaleInv /\ PlainInv /\ PlainInv' /\ [Next]_vars => [Abs!Next]_(Abs!absVars)
<1> SUFFICES ASSUME Inv, Inv', StaleInv, PlainInv, PlainInv', [Next]_vars
             PROVE  Abs!Next \/ UNCHANGED Abs!absVars
  OBVIOUS
<1>0. prog' = prog /\ TypeOK /\ BaseTypeOK /\ BaseTypeOK' /\ GepPhase /\ PropagationInv(gepTodo)
  BY ProgKept DEF Inv, TypeOK
<1>1. CASE ~ Plain
  <2>1. PICK T : T = Solution'
    OBVIOUS
  <2>2. T \in Abs!Solutions
    BY <1>0, <2>1 DEF BaseTypeOK, GraphTypeOK, Solution, Abs!Solutions, Nodes, Abs!Nodes
  <2>3. (pc = "done")' \in BOOLEAN
    OBVIOUS
  <2> QED
    BY <1>0, <1>1, <2>1, <2>2, <2>3 DEF Plain, Abs!Next, Abs!Coarsen
<1>2. CASE Plain
  <2>1. Unmerged /\ DerivedInv /\ OwedInv /\ Unmerged'
    BY <1>0, <1>2 DEF PlainInv, Plain
  <2>2. Solution = pts
    BY <1>0, <2>1, PlainSolution
  <2>3. Solution' = pts'
    BY <1>0, <2>1 DEF BaseTypeOK, GraphTypeOK, Unmerged, Solution
  <2>4. ASSUME UNCHANGED pts, (pc = "done") = (pc' = "done") PROVE UNCHANGED Abs!absVars
    BY <1>0, <2>2, <2>3, <2>4 DEF Abs!absVars
  <2>5. CASE PopNode \/ HandleLoadStore \/ EndNode \/ EndCollapse \/ UpdateCallGraph
             \/ ConnectParams \/ UNCHANGED vars
    BY <2>4, <2>5
       DEF PopNode, HandleLoadStore, EndNode, EndCollapse, UpdateCallGraph, ConnectParams,
           AddPendingEdge, ResolveCalls, vars, baseVars, ptaVars
  <2>6. CASE HandleCopy
    <3> DEFINE new == pts[cur] \ propa[cur]
    <3>1. /\ pts' = [d \in Nodes |-> IF <<cur, d>> \in copy THEN pts[d] \union new ELSE pts[d]]
          /\ pc # "done" /\ pc' # "done" /\ cur \in Nodes
      BY <1>0, <2>6 DEF HandleCopy, PropagateCopies, TypeOK
    <3>2. ASSUME NEW d \in Nodes
          PROVE  pts[d] \subseteq pts'[d] /\ pts'[d] \subseteq Abs!Infer(Solution)[d]
      <4>1. pts[d] \subseteq Abs!Infer(Solution)[d]
        BY <2>2, KeptInferred
      <4>2. CASE <<cur, d>> \in copy
        <5>1. PICK e : e = <<cur, d>>
          OBVIOUS
        <5>2. FlowOf(Solution, e) /\ e[1] = cur /\ e[2] = d
          BY <2>1, <2>2, <4>2, <5>1 DEF DerivedInv
        <5>3. pts[cur] \subseteq Abs!Infer(Solution)[d]
          BY <2>2, <5>2, CopyInferred
        <5> QED
          BY <3>1, <4>1, <4>2, <5>3
      <4> QED
        BY <3>1, <4>1, <4>2
    <3> QED
      BY <1>0, <2>2, <2>3, <3>1, <3>2, DeriveStep
  <2>7. CASE HandleGep
    <3>0. PICK e \in prog.ngep : \E S \in SUBSET pts[e[1]] :
            pts' = [pts EXCEPT ![e[2]] = @ \union {Abs!GepOf(o, e[3]) : o \in S}]
      BY <1>0, <1>2, <2>1, <2>7, HandleGepPlain
    <3>1. PICK S \in SUBSET pts[e[1]] :
            pts' = [pts EXCEPT ![e[2]] = @ \union {Abs!GepOf(o, e[3]) : o \in S}]
      BY <3>0
    <3>2. pc # "done" /\ pc' # "done"
      BY <2>7 DEF HandleGep
    <3>3. e[2] \in Nodes
      BY <1>0, <2>1, EdgeType DEF Unmerged
    <3>4. {Abs!GepOf(o, e[3]) : o \in S} \subseteq Abs!Infer(Solution)[e[2]]
      BY <2>2, <3>3, GepInferred
    <3>5. \A d \in Nodes : pts[d] \subseteq pts'[d] /\ pts'[d] \subseteq Abs!Infer(Solution)[d]
      BY <1>0, <2>2, <3>1, <3>3, <3>4, KeptInferred DEF BaseTypeOK
    <3> QED
      BY <1>0, <2>2, <2>3, <3>2, <3>5, DeriveStep
  <2>8. CASE CollapseFields
    <3>1. toCollapse = {} /\ frames = <<>>
      BY <2>1 DEF Unmerged
    <3> QED
      BY <2>8, <3>1 DEF CollapseFields, CollapseNext
  <2>9. CASE EndRound
    <3>1. pc = "connect" /\ pending = {} /\ UNCHANGED pts
          /\ pc' = IF reanalyze THEN "worklist" ELSE "done"
      BY <2>9 DEF EndRound
    <3>2. CASE reanalyze
      BY <2>4, <3>1, <3>2
    <3>3. CASE ~ reanalyze
      <4>1. gepTodo = {} /\ NoFieldOfFI
        BY <1>0, <3>1, FieldsSettled DEF GepPhase, StaleInv, CollapsePhase
      <4>2. Abs!Closed(Solution)
        BY <1>0, <1>2, <2>1, <3>1, <3>3, <4>1, ClosedAtEnd
      <4>3. pc' = "done" /\ pc # "done"
        BY <3>1, <3>3
      <4> QED
        BY <1>0, <2>2, <2>3, <3>1, <4>2, <4>3 DEF Abs!Next, Abs!Finish
    <3> QED
      BY <3>2, <3>3
  <2> QED
    BY <2>5, <2>6, <2>7, <2>8, <2>9 DEF Next
<1> QED
  BY <1>1, <1>2

(***************************************************************************)
(* The worklist solver implements the analysis, for any program and as     *)
(* long as the limit on indirect calls does not stop it: every step        *)
(* derives only facts of the rules, and when it stops no rule has a fact   *)
(* left to derive.  (solveWorklist, processNode, updateCallGraph)          *)
(***************************************************************************)
THEOREM Refines == CallsWithinLimit => (Spec => Implements)
<1> SUFFICES ASSUME CallsWithinLimit PROVE Spec => Implements
  OBVIOUS
<1>1. Init => prog \in Programs
  BY DEF Init, BaseInit, BuildCG
<1>2. prog \in Programs /\ [Next]_vars => (prog \in Programs)'
  BY ProgKept
<1>3. prog \in Programs /\ Inv /\ PlainInv /\ [Next]_vars => PlainInv'
  BY NextPlain
<1> QED
  BY <1>1, <1>2, <1>3, InitInv, NextInv, InitStale, NextStale, InitPlain, InitImplements,
     StepImplements, PTL DEF Spec, Implements, Abs!Spec
-----------------------------------------------------------------------------
(* The answer *)

LEMMA RulesAreAbs ==
    Abs!Solutions = Rules!Solutions /\ \A S : Abs!Infer(S) = Rules!Infer(S)
<1>1. ASSUME NEW S PROVE Abs!Infer(S) = Rules!Infer(S)
  <2>1. Abs!Flow(S) = Rules!Flow(S)
    BY Zenon DEF Abs!Flow, Rules!Flow
  <2> QED
    BY <2>1, Zenon DEF Abs!Infer, Rules!Infer, Abs!Nodes, Rules!Nodes, Abs!GepOf, Rules!GepOf,
       Abs!ConstOrBlk, Rules!ConstOrBlk
<1> QED
  BY <1>1 DEF Abs!Solutions, Rules!Solutions, Abs!Nodes, Rules!Nodes

\* The rules leave S as it is.
Stable(S) ==
    /\ \A e \in prog.addr : e[1] \in S[e[2]]
    /\ \A e \in Nodes \X Nodes : FlowOf(S, e) => S[e[1]] \subseteq S[e[2]]
    /\ \A e \in prog.ngep : \A x \in S[e[1]] : Rules!GepOf(x, e[3]) \in S[e[2]]

\* Copies are pairs of nodes.
LEMMA FlowPair ==
    ASSUME prog \in Statements, NEW S, NEW e, FlowOf(S, e)
    PROVE  e \in Nodes \X Nodes
<1>1. Objs \subseteq Nodes
  BY DEF Nodes
<1>2. ASSUME NEW o \in Objs \ ConstObjs, NEW l \in prog.load, e = <<o, l[2]>>
      PROVE  e \in Nodes \X Nodes
  BY <1>1, <1>2, StatementsType
<1>3. ASSUME NEW o \in Objs \ ConstObjs, NEW t \in prog.store, e = <<t[1], o>>
      PROVE  e \in Nodes \X Nodes
  BY <1>1, <1>3, StatementsType
<1>4. ASSUME NEW c \in prog.calls, e \in c.params PROVE e \in Nodes \X Nodes
  BY <1>4, StatementsType
<1> QED
  BY <1>2, <1>3, <1>4, StatementsType DEF FlowOf

LEMMA StableLemma ==
    ASSUME prog \in Statements, NEW S
    PROVE  Stable(S) <=> \A n \in Nodes : Rules!Infer(S)[n] \subseteq S[n]
<1>1. \A e \in prog.addr \union prog.ngep : e[2] \in Nodes
  BY DEF Statements, Nodes
<1>2. ASSUME Stable(S), NEW n \in Nodes, NEW o, Inferred(S, n, o) PROVE o \in S[n]
  <2>1. ASSUME NEW e \in Rules!Flow(S), e[2] = n, o \in S[e[1]] PROVE o \in S[n]
    <3>1. FlowOf(S, e)
      BY RulesFlow
    <3>2. e \in Nodes \X Nodes
      BY <3>1, FlowPair
    <3> QED
      BY <1>2, <2>1, <3>1, <3>2 DEF Stable
  <2> QED
    BY <1>2, <2>1 DEF Stable, Inferred
<1>3. ASSUME \A n \in Nodes : \A o : Inferred(S, n, o) => o \in S[n] PROVE Stable(S)
  <2>1. ASSUME NEW e \in prog.addr PROVE e[1] \in S[e[2]]
    BY <1>1, <1>3 DEF Inferred
  <2>2. ASSUME NEW e \in Nodes \X Nodes, FlowOf(S, e), NEW o \in S[e[1]] PROVE o \in S[e[2]]
    <3>1. e \in Rules!Flow(S)
      BY <2>2, RulesFlow
    <3> QED
      BY <1>3, <2>2, <3>1 DEF Inferred
  <2>3. ASSUME NEW e \in prog.ngep, NEW x \in S[e[1]] PROVE Rules!GepOf(x, e[3]) \in S[e[2]]
    BY <1>1, <1>3 DEF Inferred
  <2> QED
    BY <2>1, <2>2, <2>3 DEF Stable
<1> QED
  BY <1>2, <1>3, InferLemma

AnswerInv ==
    Plain => /\ \A B \in [Nodes -> SUBSET Objs] :
                   Stable(B) => \A n \in Nodes : Solution[n] \subseteq B[n]
             /\ pc = "done" => Stable(Solution)

LEMMA InitAnswer == Init => AnswerInv
<1> SUFFICES ASSUME Init, NEW B \in [Nodes -> SUBSET Objs], Stable(B), NEW n \in Nodes
             PROVE  Solution[n] \subseteq B[n]
  BY DEF AnswerInv, Init
<1>1. Solution[n] = Abs!AddrFacts[n]
  BY InitImplements DEF Abs!Init
<1> SUFFICES ASSUME NEW o \in Objs, <<o, n>> \in prog.addr PROVE o \in B[n]
  BY <1>1 DEF Abs!AddrFacts, Nodes, Abs!Nodes
<1> QED
  BY DEF Stable

LEMMA NextAnswer ==
    ASSUME AnswerInv, prog \in Statements, [Abs!Next]_(Abs!absVars)
    PROVE  AnswerInv'
<1> SUFFICES ASSUME Plain' PROVE AnswerInv'
  BY DEF AnswerInv
<1>1. prog' = prog /\ Plain
  BY DEF Abs!Next, Abs!Derive, Abs!Finish, Abs!Coarsen, Abs!absVars, Plain
<1>2. PICK S, T : S = Solution /\ T = Solution'
  OBVIOUS
<1>3. ASSUME \A B \in [Nodes -> SUBSET Objs] : Stable(B) => \A n \in Nodes : T[n] \subseteq B[n],
             pc' = "done" => Stable(T)
      PROVE  AnswerInv'
  <2>1. \A B : Stable(B)' <=> Stable(B)
    BY <1>1 DEF Stable, FlowOf, Rules!GepOf, Rules!ConstOrBlk
  <2>2. Stable(Solution)' <=> Stable(T)
    BY <1>1, <1>2 DEF Stable, FlowOf, Rules!GepOf, Rules!ConstOrBlk
  <2> QED
    BY <1>2, <1>3, <2>1, <2>2 DEF AnswerInv, Nodes
<1>4. CASE UNCHANGED Abs!absVars
  <2>1. T = S /\ (pc = "done" <=> pc' = "done")
    BY <1>2, <1>4 DEF Abs!absVars
  <2> QED
    BY <1>1, <1>2, <1>3, <2>1 DEF AnswerInv
<1>5. CASE Abs!Finish
  <2>1. T = S /\ Abs!Closed(S)
    BY <1>2, <1>5 DEF Abs!Finish
  <2>2. \A n \in Nodes : Rules!Infer(S)[n] \subseteq S[n]
    BY <2>1, RulesAreAbs DEF Abs!Closed, Abs!Below, Nodes, Abs!Nodes
  <2> QED
    BY <1>1, <1>2, <1>3, <2>1, <2>2, StableLemma DEF AnswerInv
<1>6. CASE Abs!Derive
  <2>1. pc' # "done" /\ \A n \in Nodes : T[n] \subseteq Rules!Infer(S)[n]
    BY <1>2, <1>6, RulesAreAbs DEF Abs!Derive, Abs!Below, Nodes, Abs!Nodes
  <2>2. ASSUME NEW B \in [Nodes -> SUBSET Objs], Stable(B), NEW n \in Nodes PROVE T[n] \subseteq B[n]
    <3>1. \A m \in Nodes : S[m] \subseteq B[m]
      BY <1>1, <1>2, <2>2 DEF AnswerInv
    <3>2. Rules!Infer(S)[n] \subseteq Rules!Infer(B)[n]
      BY <3>1, InferGrows
    <3> QED
      BY <2>1, <2>2, <3>2, StableLemma
  <2> QED
    BY <1>3, <2>1, <2>2
<1> QED
  BY <1>1, <1>4, <1>5, <1>6 DEF Abs!Next, Abs!Coarsen, Plain

(***************************************************************************)
(* What the worklist solver answers in the end is the least solution of    *)
(* the rules: nothing is missed, nothing invented, whatever the order of   *)
(* the worklist and the difference sets kept.  (solveWorklist, for         *)
(* programs whose fields all have constant offsets)                        *)
(***************************************************************************)
THEOREM Solved ==
    CallsWithinLimit =>
        (Spec => [](pc = "done" /\ prog.vgep = {} => Solution = Rules!Least))
<1> SUFFICES ASSUME CallsWithinLimit
             PROVE  Spec => [](pc = "done" /\ prog.vgep = {} => Solution = Rules!Least)
  OBVIOUS
<1>1. Inv => prog \in Statements /\ Solution \in [Nodes -> SUBSET Objs]
  BY DEF Inv, TypeOK, BaseTypeOK, GraphTypeOK, Solution
<1>2. Inv /\ AnswerInv => (pc = "done" /\ prog.vgep = {} => Solution = Rules!Least)
  <2> SUFFICES ASSUME Inv, AnswerInv, pc = "done", prog.vgep = {} PROVE Solution = Rules!Least
    OBVIOUS
  <2>0. Rules!Solutions = [Nodes -> SUBSET Objs]
    BY DEF Rules!Solutions, Rules!Nodes, Nodes
  <2>1. PICK S, L : S = Solution /\ S \in Rules!Solutions /\ L = Rules!Least /\ L \in Rules!Solutions
    BY <1>1, <2>0, LeastLemma
  <2>2. \A B : Rules!Closed(B) <=> \A n \in Nodes : Rules!Infer(B)[n] \subseteq B[n]
    BY DEF Rules!Closed, Rules!Below, Nodes, Rules!Nodes
  <2>3. Stable(L)
    BY <1>1, <2>1, <2>2, LeastLemma, StableLemma
  <2>4. \A n \in Nodes : S[n] \subseteq L[n]
    BY <2>0, <2>1, <2>3 DEF AnswerInv, Plain
  <2>5. Rules!Closed(S)
    BY <1>1, <2>1, <2>2, StableLemma DEF AnswerInv, Plain
  <2>6. \A n \in Nodes : L[n] \subseteq S[n]
    BY <1>1, <2>1, <2>5, LeastLemma DEF Rules!Below, Nodes, Rules!Nodes
  <2>7. S = L
    <3>1. S \in [Nodes -> SUBSET Objs] /\ L \in [Nodes -> SUBSET Objs]
      BY <2>0, <2>1
    <3>2. \A n \in Nodes : S[n] = L[n]
      BY <2>4, <2>6
    <3> QED
      BY <3>1, <3>2
  <2> QED
    BY <2>1, <2>7
<1>3. Init => prog \in Programs
  BY DEF Init, BaseInit, BuildCG
<1>4. prog \in Programs /\ [Next]_vars => (prog \in Programs)'
  BY ProgKept
<1>5. prog \in Programs /\ Inv /\ PlainInv /\ [Next]_vars => PlainInv'
  BY NextPlain
<1>6. Inv /\ Inv' /\ StaleInv /\ PlainInv /\ PlainInv' /\ AnswerInv /\ [Next]_vars => AnswerInv'
  BY <1>1, StepImplements, NextAnswer
<1> QED
  BY <1>2, <1>3, <1>4, <1>5, <1>6, InitInv, NextInv, InitStale, NextStale, InitPlain,
     InitAnswer, PTL DEF Spec
=============================================================================
