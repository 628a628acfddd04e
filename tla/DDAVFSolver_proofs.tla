---------------------------- MODULE DDAVFSolver_proofs ----------------------------
(***************************************************************************)
(* Proofs about the demand-driven analysis, for every value-flow graph,    *)
(* pre-analysis and budget: what a query caches is below every solution of *)
(* the value-flow equations until a query runs out of budget, and below    *)
(* the pre-analysis always.                                                *)
(***************************************************************************)
EXTENDS DDAVFSolver, FiniteSetTheorems, SequenceTheorems, WellFoundedInduction, TLAPS

-----------------------------------------------------------------------------
(* The stack of activations: its top, what is below it, a new top.         *)

LEMMA FrontLast ==
  ASSUME NEW S, NEW st \in Seq(S), st # <<>>
  PROVE  /\ Len(st) \in Nat \ {0}
         /\ Last(st) = st[Len(st)] /\ Last(st) \in S
         /\ Front(st) \in Seq(S) /\ Len(Front(st)) = Len(st) - 1
         /\ \A i \in 1 .. Len(st) - 1 : Front(st)[i] = st[i]
<1>1. Len(st) \in Nat \ {0}
  OBVIOUS
<1>2. Last(st) = st[Len(st)] /\ Last(st) \in S
  BY <1>1 DEF Last
<1>3. Front(st) = SubSeq(st, 1, Len(st) - 1)
  BY DEF Front
<1>4. \A i \in 1 .. Len(st) - 1 : st[i] \in S
  BY <1>1
<1>5. /\ Front(st) \in Seq(S)
      /\ Len(Front(st)) = IF 1 <= Len(st) - 1 THEN Len(st) - 1 ELSE 0
      /\ \A i \in 1 .. Len(st) - 1 : Front(st)[i] = st[i]
  BY <1>1, <1>3, <1>4, SubSeqProperties
<1>6. Len(Front(st)) = Len(st) - 1
  <2>1. \A n \in Nat \ {0} : (IF 1 <= n - 1 THEN n - 1 ELSE 0) = n - 1
    OBVIOUS
  <2> QED
    BY <1>1, <1>5, <2>1, Zenon
<1>7. Front(st) \in Seq(S) /\ \A i \in 1 .. Len(st) - 1 : Front(st)[i] = st[i]
  BY <1>5
<1> QED
  BY <1>1, <1>2, <1>6, <1>7

LEMMA NewTop ==
  ASSUME NEW S, NEW st \in Seq(S), NEW f \in S
  PROVE  /\ st \o <<f>> \in Seq(S) /\ Len(st \o <<f>>) = Len(st) + 1
         /\ st \o <<f>> # <<>> /\ Last(st \o <<f>>) = f
         /\ (st \o <<f>>)[Len(st) + 1] = f
         /\ \A i \in 1 .. Len(st) : (st \o <<f>>)[i] = st[i]
  BY DEF Last

-----------------------------------------------------------------------------
(* Dpms and slots.                                                         *)

LEMMA DpmTypes ==
  ASSUME NEW d \in Dpms
  PROVE  /\ d = <<d[1], d[2]>> /\ d[1] \in SVFGNodes
         /\ d[1] \in TopLevel => d[2] = Lhs[d[1]] /\ d[2] \in Vars /\ Slot(d) = Var(d[2])
         /\ d[1] \notin TopLevel => d[2] \in Objs /\ Slot(d) = d
         /\ Slot(d) \in Slots
<1>1. CASE d \in {<<n, Lhs[n]>> : n \in TopLevel}
  BY <1>1, DefAssumption DEF TopLevel, Slot, Slots, Var
<1>2. CASE d \in (SVFGNodes \ TopLevel) \X Objs
  BY <1>2 DEF Slot, Slots
<1> QED
  BY <1>1, <1>2 DEF Dpms

LEMMA DefDpmTypes ==
  ASSUME NEW v \in Vars
  PROVE  DefDpm(v) \in Dpms /\ Slot(DefDpm(v)) = Var(v) /\ Var(v) \in Slots
  BY DefAssumption DEF DefDpm, Dpms, Slot, Slots, Var

LEMMA MemoryDpm ==
  ASSUME NEW n \in SVFGNodes \ TopLevel, NEW o \in Objs
  PROVE  <<n, o>> \in Dpms
  BY DEF Dpms

LEMMA NodeKind ==
  ASSUME NEW n \in SVFGNodes
  PROVE  /\ Kind[n] \in {"addr", "copy", "gep", "load", "store", "mr"}
         /\ n \in TopLevel <=> Kind[n] \notin {"store", "mr"}
  BY NodesAssumption DEF TopLevel

-----------------------------------------------------------------------------
(* The edges of the graph and what flows along them.                       *)

LEMMA DirectPredsTypes ==
  ASSUME NEW g \in Graphs, NEW calls \in SUBSET IndCalls, NEW n
  PROVE  DirectPreds(g, calls, n) \subseteq Dpms
<1> SUFFICES ASSUME NEW e \in DirectEdges(g, calls)
             PROVE  <<e[1], Lhs[e[1]]>> \in Dpms
  BY DEF DirectPreds
<1>1. e[1] \in TopLevel
  BY EdgesAssumption DEF DirectEdges
<1> QED
  BY <1>1 DEF Dpms

LEMMA IndirectPredsTypes ==
  ASSUME NEW g \in Graphs, NEW calls \in SUBSET IndCalls, NEW n, NEW o \in Objs
  PROVE  /\ IndirectPreds(g, calls, n, o) \subseteq Dpms
         /\ \A p \in IndirectPreds(g, calls, n, o) : p[1] \notin TopLevel /\ p[2] = o
<1> SUFFICES ASSUME NEW e \in IndirectEdges(g, calls)
             PROVE  <<e[1], o>> \in Dpms /\ e[1] \notin TopLevel
  BY DEF IndirectPreds
<1>1. e[1] \in SVFGNodes \ TopLevel
  BY EdgesAssumption DEF IndirectEdges
<1> QED
  BY <1>1, MemoryDpm

LEMMA PointeePredsTypes ==
  ASSUME NEW g \in Graphs, NEW calls \in SUBSET IndCalls, NEW d \in Dpms,
         Kind[d[1]] \in {"load", "store"}, NEW locals, NEW pts, NEW o \in Objs
  PROVE  PointeePreds(g, calls, locals, d, pts, o) \subseteq Dpms
<1>1. d[1] \in SVFGNodes
  BY DpmTypes
<1>2. IndirectPreds(g, calls, d[1], o) \subseteq Dpms
  BY IndirectPredsTypes
<1>3. CASE Kind[d[1]] = "load"
  BY <1>2, <1>3 DEF PointeePreds
<1>4. CASE Kind[d[1]] = "store"
  <2>1. d[2] \in Objs
    BY <1>1, <1>4, DpmTypes, NodeKind
  <2>2. IndirectPreds(g, calls, d[1], d[2]) \subseteq Dpms
    BY <2>1, IndirectPredsTypes
  <2>3. DefDpm(SrcAt[d[1]]) \in Dpms
    BY <1>1, <1>4, NodesAssumption, DefDpmTypes
  <2> QED
    BY <1>2, <1>4, <2>2, <2>3 DEF PointeePreds
<1> QED
  BY <1>3, <1>4

\* More resolved calls, more edges.
LEMMA PredsGrow ==
  ASSUME NEW g, NEW calls, NEW more, calls \subseteq more, NEW n, NEW o
  PROVE  /\ DirectPreds(g, calls, n) \subseteq DirectPreds(g, more, n)
         /\ IndirectPreds(g, calls, n, o) \subseteq IndirectPreds(g, more, n, o)
<1>1. DirectEdges(g, calls) \subseteq DirectEdges(g, more)
  BY DEF DirectEdges
<1>2. IndirectEdges(g, calls) \subseteq IndirectEdges(g, more)
  BY DEF IndirectEdges
<1> QED
  BY <1>1, <1>2 DEF DirectPreds, IndirectPreds

(***************************************************************************)
(* The pointees and the recursions known so far may allow a strong update  *)
(* that all of them forbid, never the other way round: a partial result    *)
(* misses edges and invents none.  (isStrongUpdate)                        *)
(***************************************************************************)
LEMMA StrongUpdateShrinks ==
  ASSUME NEW all \in SUBSET Objs, NEW pts \in SUBSET all, pts # {},
         NEW wider, NEW locals \in SUBSET wider, StrongUpdate(all, wider)
  PROVE  StrongUpdate(pts, locals)
<1>1. IsFiniteSet(all)
  BY NodesAssumption, FS_Subset
<1>2. PICK x : all = {x}
  BY <1>1, FS_Singleton DEF StrongUpdate
<1>3. pts = all
  BY <1>2
<1> QED
  BY <1>3 DEF StrongUpdate

LEMMA PointeePredsGrow ==
  ASSUME NEW g, NEW calls, NEW more, calls \subseteq more,
         NEW wider, NEW locals \in SUBSET wider, NEW d,
         NEW all \in SUBSET Objs, NEW pts \in SUBSET all, NEW o \in pts
  PROVE  PointeePreds(g, calls, locals, d, pts, o) \subseteq PointeePreds(g, more, wider, d, all, o)
<1>1. StrongUpdate(all, wider) => StrongUpdate(pts, locals)
  BY StrongUpdateShrinks
<1>2. /\ IndirectPreds(g, calls, d[1], o) \subseteq IndirectPreds(g, more, d[1], o)
      /\ IndirectPreds(g, calls, d[1], d[2]) \subseteq IndirectPreds(g, more, d[1], d[2])
  BY PredsGrow
<1> QED
  BY <1>1, <1>2 DEF PointeePreds

-----------------------------------------------------------------------------
(***************************************************************************)
(* Types.  An activation that reads through a pointer is one of a load or  *)
(* a store, and one that still resolves function pointers holds no value.  *)
(***************************************************************************)
Dereferences(n) == Kind[n] \in {"load", "store"} /\ n \notin Scalars

Shape(f) ==
    /\ f.stage = "fun" => f.acc = {} /\ f.pointees = {}
    /\ f.stage = "ptr" \/ f.pointees # {} => Dereferences(f.dpm[1])

ShapedFrames == {f \in Frames : Shape(f)}

ResultsOK ==
    /\ query \in Candidates \union {NoVar}
    /\ asked \subseteq Candidates
    /\ cached \in [Slots -> SUBSET Objs]
    /\ connected \subseteq IndCalls /\ inRecursion \subseteq Objs
    /\ outOfBudgetDpms \subseteq Dpms
    /\ stack \in Seq(ShapedFrames)
    /\ stack # <<>> => query \in Candidates

MarksOK ==
    /\ budget \in Budgets
    /\ backwardVisited \subseteq Dpms /\ recorded \subseteq Dpms
    /\ steps \in 0 .. budget + 1
    /\ outOfBudgetQuery \in BOOLEAN
    /\ ~outOfBudgetQuery => steps <= budget

Typed == graph \in Graphs /\ ResultsOK /\ MarksOK

LEMMA TypedTypeOK == Typed => TypeOK
<1> SUFFICES ASSUME Typed
             PROVE  TypeOK
  OBVIOUS
<1>1. \A i \in DOMAIN stack : stack[i] \in Frames
  BY DEF Typed, ResultsOK, ShapedFrames
<1> QED
  BY <1>1 DEF Typed, ResultsOK, MarksOK, TypeOK

LEMMA AnderTypes ==
  ASSUME NEW g \in Graphs
  PROVE  g.ander \in [Vars \union Objs -> SUBSET Objs]
  BY AnderAssumption DEF PreAnalysis

LEMMA RecursionTypes ==
  ASSUME NEW g \in Graphs, NEW calls \in SUBSET IndCalls
  PROVE  g.recursive[calls] \subseteq Objs
  BY RecursionAssumption

LEMMA InitTyped == Init => Typed
<1> SUFFICES ASSUME Init
             PROVE  Typed
  OBVIOUS
<1>1. Empty \in [Slots -> SUBSET Objs]
  BY DEF Empty
<1>2. ResultsOK
  <2>1. inRecursion \subseteq Objs
    BY RecursionTypes DEF Init
  <2> QED
    BY <1>1, <2>1 DEF Init, ResultsOK
<1>3. budget \in Nat /\ steps = 0 /\ outOfBudgetQuery = FALSE
  BY BudgetAssumption DEF Init
<1>4. steps \in 0 .. budget + 1 /\ steps <= budget
  BY <1>3
<1>5. MarksOK
  BY <1>3, <1>4 DEF Init, MarksOK
<1> QED
  BY <1>2, <1>5 DEF Init, Typed

LEMMA NewFrame ==
  ASSUME NEW d \in Dpms
  PROVE  Frame(d) \in ShapedFrames
<1>1. d[1] \in SVFGNodes
  BY DpmTypes
<1>2. \A f \in FunPtrsAt[d[1]] : DefDpm(f) \in Dpms
  BY <1>1, NodesAssumption, DefDpmTypes
<1>3. {DefDpm(f) : f \in FunPtrsAt[d[1]]} \in SUBSET Dpms
  BY <1>2
<1>4. Frame(d) \in Frames
  BY <1>3 DEF Frame, Frames, Stages
<1>5. Shape(Frame(d))
  BY DEF Frame, Shape
<1> QED
  BY <1>4, <1>5 DEF ShapedFrames

LEMMA TopShape ==
  ASSUME stack \in Seq(ShapedFrames), stack # <<>>
  PROVE  /\ Top \in ShapedFrames /\ Top \in Frames /\ Shape(Top)
         /\ Top.dpm \in Dpms /\ Top.todo \subseteq Dpms /\ Top.acc \subseteq Objs
         /\ Top.dpm[1] \in SVFGNodes
         /\ Front(stack) \in Seq(ShapedFrames)
<1>1. Top \in ShapedFrames /\ Front(stack) \in Seq(ShapedFrames)
  BY FrontLast DEF Top
<1>2. Top \in Frames /\ Shape(Top)
  BY <1>1 DEF ShapedFrames
<1>3. Top.dpm \in Dpms /\ Top.todo \subseteq Dpms /\ Top.acc \subseteq Objs
  BY <1>2 DEF Frames
<1>4. Top.dpm[1] \in SVFGNodes
  BY <1>3, DpmTypes
<1> QED
  BY <1>1, <1>2, <1>3, <1>4

LEMMA DeliverTyped ==
  ASSUME NEW frames \in Seq(ShapedFrames), NEW pts \in SUBSET Objs
  PROVE  Deliver(frames, pts) \in Seq(ShapedFrames)
<1>1. CASE frames # <<>> /\ Last(frames).stage \in {"ptr", "flow"}
  <2>1. Last(frames) \in ShapedFrames /\ Front(frames) \in Seq(ShapedFrames)
    BY <1>1, FrontLast
  <2>2. PICK f : f = [Last(frames) EXCEPT !.acc = @ \union pts]
    OBVIOUS
  <2>3. f \in Frames
    BY <2>1, <2>2 DEF ShapedFrames, Frames
  <2>4. f.stage = Last(frames).stage /\ f.pointees = Last(frames).pointees
        /\ f.dpm = Last(frames).dpm
    BY <2>1, <2>2 DEF ShapedFrames, Frames
  <2>5. Shape(f)
    BY <1>1, <2>1, <2>4 DEF Shape, ShapedFrames
  <2>6. Deliver(frames, pts) = Front(frames) \o <<f>>
    BY <1>1, <2>2 DEF Deliver
  <2> QED
    BY <2>1, <2>3, <2>5, <2>6 DEF ShapedFrames
<1>2. CASE ~(frames # <<>> /\ Last(frames).stage \in {"ptr", "flow"})
  BY <1>2 DEF Deliver
<1> QED
  BY <1>1, <1>2

\* New calls are joined.  (reCompute)
LEMMA ConnectTyped ==
  ASSUME Typed, NEW calls \in SUBSET IndCalls, Connect(calls)
  PROVE  connected' \subseteq IndCalls /\ inRecursion' \subseteq Objs
<1>1. connected' = connected \union calls /\ connected' \in SUBSET IndCalls
  BY DEF Connect, Typed, ResultsOK
<1>2. graph.recursive[connected'] \subseteq Objs
  BY <1>1, RecursionTypes DEF Typed
<1> QED
  BY <1>1, <1>2 DEF Connect, Typed, ResultsOK

\* findPT returns.  (findPT, computeDDAPts, handleOutOfBudgetDpm)
LEMMA ReturnToTyped ==
  ASSUME Typed, query \in Candidates, graph' = graph,
         NEW frames \in Seq(ShapedFrames), NEW d \in Dpms, NEW oob,
         NEW pts \in [Slots -> SUBSET Objs], ReturnTo(frames, d, oob, pts)
  PROVE  ResultsOK'
<1>1. ShapedFrames' = ShapedFrames
  BY DEF ShapedFrames, Frames
<1>2. pts[Slot(d)] \in SUBSET Objs
  BY DpmTypes
<1>3. stack' \in Seq(ShapedFrames)
  BY <1>2, DeliverTyped DEF ReturnTo
<1>4. CASE frames # <<>>
  BY <1>1, <1>3, <1>4 DEF ReturnTo, ResultsOK, Typed
<1>5. CASE frames = <<>>
  <2>1. Answer(oob, pts) /\ stack' = <<>>
    BY <1>5 DEF ReturnTo, Deliver
  <2>2. query' = NoVar /\ asked' = asked \union {query}
    BY <2>1 DEF Answer
  <2>3. query \in Vars
    BY NodesAssumption
  <2>4. cached' \in [Slots -> SUBSET Objs]
    <3>1. graph.ander[query] \in SUBSET Objs
      BY <2>3, AnderTypes DEF Typed
    <3> QED
      BY <2>1, <3>1, <2>3, DefDpmTypes DEF Answer
  <2>5. connected' \subseteq IndCalls /\ inRecursion' \subseteq Objs
    <3>1. CASE oob
      <4>1. PICK calls \in SUBSET IndCalls : Connect(calls)
        BY <2>1, <3>1 DEF Answer, NewCalls, Callees
      <4> QED
        BY <4>1, ConnectTyped
    <3>2. CASE ~oob
      BY <2>1, <3>2 DEF Answer, Typed, ResultsOK
    <3> QED
      BY <3>1, <3>2
  <2>6. outOfBudgetDpms' \subseteq Dpms
    BY <2>1, <2>3, DefDpmTypes DEF Answer, Typed, ResultsOK
  <2> QED
    BY <1>1, <1>3, <2>1, <2>2, <2>4, <2>5, <2>6 DEF ResultsOK, Typed
<1> QED
  BY <1>4, <1>5

\* findPT answers from the cache or begins an activation.  (findPT)
LEMMA FindPTTyped ==
  ASSUME Typed, query \in Candidates, UNCHANGED <<graph, budget>>,
         NEW frames \in Seq(ShapedFrames), NEW d \in Dpms, NEW visited \in SUBSET Dpms,
         FindPT(d, frames, visited)
  PROVE  Typed'
<1>1. cached \in [Slots -> SUBSET Objs]
  BY DEF Typed, ResultsOK
<1>2. CASE d \in visited
  <2>1. /\ backwardVisited' = visited /\ ReturnTo(frames, d, outOfBudgetQuery, cached)
        /\ UNCHANGED <<recorded, steps, outOfBudgetQuery>>
    BY <1>2 DEF FindPT
  <2>2. ResultsOK'
    BY <1>1, <2>1, ReturnToTyped
  <2> QED
    BY <2>1, <2>2 DEF Typed, MarksOK
<1>3. CASE d \notin visited
  <2>1. PICK stepped, oob :
          /\ stepped = IF outOfBudgetQuery THEN steps ELSE steps + 1
          /\ oob = (outOfBudgetQuery \/ stepped > budget)
          /\ backwardVisited' = visited \union {d} /\ recorded' = recorded \union {d}
          /\ steps' = stepped /\ outOfBudgetQuery' = oob
          /\ IF oob \/ d \in outOfBudgetDpms
             THEN ReturnTo(frames, d, oob, cached)
             ELSE /\ stack' = frames \o <<Frame(d)>>
                  /\ UNCHANGED <<query, asked, cached, connected, inRecursion, outOfBudgetDpms>>
    BY <1>3 DEF FindPT
  <2>2. MarksOK'
    <3>1. steps \in 0 .. budget + 1 /\ budget \in Nat /\ outOfBudgetQuery \in BOOLEAN
          /\ (~outOfBudgetQuery => steps <= budget)
      BY BudgetAssumption DEF Typed, MarksOK
    <3>2. steps' \in 0 .. budget + 1
      BY <2>1, <3>1
    <3>3. outOfBudgetQuery' \in BOOLEAN
      BY <2>1, Zenon
    <3>4. ASSUME ~outOfBudgetQuery'
          PROVE  steps' <= budget
      <4>1. ~outOfBudgetQuery /\ ~(stepped > budget)
        BY <2>1, <3>4, Zenon
      <4> QED
        BY <2>1, <3>1, <4>1
    <3> QED
      BY <2>1, <3>2, <3>3, <3>4 DEF Typed, MarksOK
  <2>3. CASE oob \/ d \in outOfBudgetDpms
    BY <1>1, <2>1, <2>2, <2>3, ReturnToTyped DEF Typed
  <2>4. CASE ~(oob \/ d \in outOfBudgetDpms)
    <3>1. Frame(d) \in ShapedFrames /\ ShapedFrames' = ShapedFrames
      BY NewFrame DEF ShapedFrames, Frames
    <3>2. stack' \in Seq(ShapedFrames')
      BY <2>1, <2>4, <3>1
    <3>3. ResultsOK'
      BY <2>1, <2>4, <3>2 DEF Typed, ResultsOK
    <3> QED
      BY <2>2, <3>3 DEF Typed
  <2> QED
    BY <2>3, <2>4
<1> QED
  BY <1>2, <1>3

\* A frame goes on.  (findPT, handleSingleStatement, reComputeForEdges)
LEMMA MoveTyped ==
  ASSUME Typed, stack # <<>>, NEW f \in ShapedFrames, Move(f)
  PROVE  Typed'
<1>1. Front(stack) \in Seq(ShapedFrames) /\ ShapedFrames' = ShapedFrames
  BY TopShape DEF Typed, ResultsOK, Move, ShapedFrames, Frames
<1>2. stack' \in Seq(ShapedFrames')
  BY <1>1 DEF Move, WithTop
<1>3. ResultsOK'
  BY <1>2 DEF Move, Typed, ResultsOK
<1>4. MarksOK'
  BY DEF Move, Typed, MarksOK
<1> QED
  BY <1>3, <1>4 DEF Move, Typed

LEMMA QueryTyped ==
  ASSUME Typed, NEW v \in Candidates, Query(v)
  PROVE  Typed'
<1>1. DefDpm(v) \in Dpms
  BY NodesAssumption, DefDpmTypes
<1>2. VisitedAtReset \subseteq Dpms /\ RecordedAtReset \subseteq Dpms
  BY DEF VisitedAtReset, RecordedAtReset, Typed, MarksOK
<1>3. UNCHANGED <<graph, budget, cached, connected, inRecursion, outOfBudgetDpms>>
  BY DEF Query
<1>4. budget \in Nat \ {0}
  BY BudgetAssumption DEF Typed, MarksOK
<1>5. 0 \in 0 .. budget + 1 /\ 1 \in 0 .. budget + 1 /\ 0 <= budget /\ 1 <= budget
  BY <1>4
<1>6. ShapedFrames' = ShapedFrames
  BY <1>3 DEF ShapedFrames, Frames
<1>7. CASE DefDpm(v) \in VisitedAtReset
  <2>1. /\ asked' = asked \union {v} /\ backwardVisited' = VisitedAtReset
        /\ recorded' = RecordedAtReset /\ steps' = 0 /\ outOfBudgetQuery' = FALSE
        /\ UNCHANGED <<query, stack>>
    BY <1>7 DEF Query
  <2>2. MarksOK'
    BY <1>2, <1>3, <1>5, <2>1 DEF Typed, MarksOK
  <2>3. ResultsOK'
    BY <1>3, <1>6, <2>1 DEF Typed, ResultsOK
  <2> QED
    BY <1>3, <2>2, <2>3 DEF Typed
<1>8. CASE DefDpm(v) \notin VisitedAtReset
  <2>1. /\ query' = v /\ backwardVisited' = VisitedAtReset \union {DefDpm(v)}
        /\ recorded' = RecordedAtReset \union {DefDpm(v)} /\ steps' = 1
        /\ outOfBudgetQuery' = FALSE /\ stack' = <<Frame(DefDpm(v))>> /\ UNCHANGED asked
    BY <1>8 DEF Query
  <2>2. MarksOK'
    BY <1>1, <1>2, <1>3, <1>5, <2>1 DEF Typed, MarksOK
  <2>3. stack' \in Seq(ShapedFrames)
    BY <1>1, <2>1, NewFrame
  <2>4. ResultsOK'
    BY <1>3, <1>6, <2>1, <2>3 DEF Typed, ResultsOK
  <2> QED
    BY <1>3, <2>2, <2>4 DEF Typed
<1> QED
  BY <1>7, <1>8

\* A call taken out of todo leaves the frame as it was otherwise.
LEMMA TakenFrame ==
  ASSUME NEW f \in ShapedFrames, NEW d, NEW g, g = [f EXCEPT !.todo = @ \ {d}]
  PROVE  g \in ShapedFrames
<1>1. g \in Frames
  BY DEF ShapedFrames, Frames
<1>2. /\ g.dpm = f.dpm /\ g.stage = f.stage /\ g.acc = f.acc /\ g.pointees = f.pointees
  BY DEF ShapedFrames, Frames
<1>3. Shape(g)
  BY <1>2 DEF ShapedFrames, Shape
<1> QED
  BY <1>1, <1>2, <1>3 DEF ShapedFrames

LEMMA CallTyped ==
  ASSUME Typed, stack # <<>>, NEW d \in Dpms, Trace(d) \/ Redo(d)
  PROVE  Typed'
<1>1. PICK f : f = [Top EXCEPT !.todo = @ \ {d}]
  OBVIOUS
<1>2. f \in ShapedFrames /\ Front(stack) \in Seq(ShapedFrames) /\ query \in Candidates
  BY <1>1, TopShape, TakenFrame DEF Typed, ResultsOK
<1>3. WithTop(f) \in Seq(ShapedFrames)
  BY <1>2 DEF WithTop
<1>4. PICK visited \in SUBSET Dpms : FindPT(d, WithTop(f), visited)
  BY <1>1 DEF Trace, Redo, Typed, MarksOK
<1>5. UNCHANGED <<graph, budget>>
  BY DEF Trace, Redo
<1> QED
  BY <1>2, <1>3, <1>4, <1>5, FindPTTyped

\* What handleSingleStatement makes of a frame that has resolved its function pointers.
Handled(n) ==
    CASE n \in Scalars -> [Top EXCEPT !.stage = "flow"]
      [] Kind[n] = "addr" -> [Top EXCEPT !.stage = "flow", !.acc = {ObjAt[n]}]
      [] Kind[n] \in {"copy", "gep"} ->
             [Top EXCEPT !.stage = "flow", !.todo = DirectPreds(graph, connected, n)]
      [] Kind[n] = "mr" ->
             [Top EXCEPT !.stage = "flow",
                         !.todo = IndirectPreds(graph, connected, n, Top.dpm[2])]
      [] OTHER -> [Top EXCEPT !.stage = "ptr", !.todo = {DefDpm(PtrAt[n])}]

\* The frame it leaves, by the kind of the statement.
LEMMA HandledCases ==
  ASSUME Typed, stack # <<>>, Top.stage = "fun", Top.todo = {}, NEW f, f = Handled(Top.dpm[1])
  PROVE  /\ f \in Frames /\ f.dpm = Top.dpm /\ f.pointees = {}
         /\ \/ /\ f.stage = "flow" /\ f.acc = {} /\ f.todo = {}
            \/ /\ Top.dpm[1] \notin Scalars /\ Kind[Top.dpm[1]] = "addr"
               /\ f.stage = "flow" /\ f.acc = {ObjAt[Top.dpm[1]]} /\ f.todo = {}
            \/ /\ Top.dpm[1] \notin Scalars /\ Kind[Top.dpm[1]] \in {"copy", "gep"}
               /\ f.stage = "flow" /\ f.acc = {}
               /\ f.todo = DirectPreds(graph, connected, Top.dpm[1])
            \/ /\ Top.dpm[1] \notin Scalars /\ Kind[Top.dpm[1]] = "mr"
               /\ f.stage = "flow" /\ f.acc = {}
               /\ f.todo = IndirectPreds(graph, connected, Top.dpm[1], Top.dpm[2])
            \/ /\ Dereferences(Top.dpm[1])
               /\ f.stage = "ptr" /\ f.acc = {} /\ f.todo = {DefDpm(PtrAt[Top.dpm[1]])}
<1>1. /\ Top \in Frames /\ Top.dpm[1] \in SVFGNodes /\ Top.dpm \in Dpms
      /\ Top.acc = {} /\ Top.pointees = {}
  BY TopShape DEF Typed, ResultsOK, Shape
<1>2. connected \in SUBSET IndCalls /\ graph \in Graphs
  BY DEF Typed, ResultsOK
<1>3. Stages = {"fun", "ptr", "flow", "calls", "redo"}
  BY DEF Stages
<1>4. CASE Top.dpm[1] \in Scalars
  <2>1. f = [Top EXCEPT !.stage = "flow"]
    BY <1>4, NodesAssumption DEF Handled
  <2>2. /\ f \in Frames /\ f.dpm = Top.dpm /\ f.pointees = {}
        /\ f.stage = "flow" /\ f.acc = {} /\ f.todo = {}
    BY <1>1, <1>3, <2>1 DEF Frames
  <2> QED
    BY <2>2
<1>5. CASE Top.dpm[1] \notin Scalars /\ Kind[Top.dpm[1]] = "addr"
  <2>1. ObjAt[Top.dpm[1]] \in Objs
    BY <1>1, <1>5, NodesAssumption
  <2>2. f = [Top EXCEPT !.stage = "flow", !.acc = {ObjAt[Top.dpm[1]]}]
    BY <1>5 DEF Handled
  <2>3. {ObjAt[Top.dpm[1]]} \in SUBSET Objs
    BY <2>1
  <2>4. /\ f \in Frames /\ f.dpm = Top.dpm /\ f.pointees = {}
        /\ f.stage = "flow" /\ f.acc = {ObjAt[Top.dpm[1]]} /\ f.todo = {}
    BY <1>1, <1>3, <2>2, <2>3 DEF Frames
  <2> QED
    BY <1>5, <2>4
<1>6. CASE Top.dpm[1] \notin Scalars /\ Kind[Top.dpm[1]] \in {"copy", "gep"}
  <2>1. PICK preds \in SUBSET Dpms : preds = DirectPreds(graph, connected, Top.dpm[1])
    BY <1>2, DirectPredsTypes
  <2>2. f = [Top EXCEPT !.stage = "flow", !.todo = preds]
    BY <1>6, <2>1 DEF Handled
  <2>3. /\ f \in Frames /\ f.dpm = Top.dpm /\ f.pointees = {}
        /\ f.stage = "flow" /\ f.acc = {} /\ f.todo = preds
    BY <1>1, <1>3, <2>2 DEF Frames
  <2> QED
    BY <1>6, <2>1, <2>3
<1>7. CASE Top.dpm[1] \notin Scalars /\ Kind[Top.dpm[1]] = "mr"
  <2>1. Top.dpm[2] \in Objs
    BY <1>1, <1>7, DpmTypes, NodeKind
  <2>2. PICK preds \in SUBSET Dpms :
           preds = IndirectPreds(graph, connected, Top.dpm[1], Top.dpm[2])
    BY <1>2, <2>1, IndirectPredsTypes
  <2>3. f = [Top EXCEPT !.stage = "flow", !.todo = preds]
    BY <1>7, <2>2 DEF Handled
  <2>4. /\ f \in Frames /\ f.dpm = Top.dpm /\ f.pointees = {} /\ f.stage = "flow"
        /\ f.acc = {} /\ f.todo = preds
    BY <1>1, <1>3, <2>3 DEF Frames
  <2> QED
    BY <1>7, <2>2, <2>4
<1>8. CASE Dereferences(Top.dpm[1])
  <2>1. PtrAt[Top.dpm[1]] \in Vars
    BY <1>1, <1>8, NodesAssumption DEF Dereferences
  <2>2. DefDpm(PtrAt[Top.dpm[1]]) \in Dpms
    BY <2>1, DefDpmTypes
  <2>3. f = [Top EXCEPT !.stage = "ptr", !.todo = {DefDpm(PtrAt[Top.dpm[1]])}]
    BY <1>8 DEF Handled, Dereferences
  <2>4. {DefDpm(PtrAt[Top.dpm[1]])} \in SUBSET Dpms
    BY <2>2
  <2>5. /\ f \in Frames /\ f.dpm = Top.dpm /\ f.pointees = {}
        /\ f.stage = "ptr" /\ f.acc = {} /\ f.todo = {DefDpm(PtrAt[Top.dpm[1]])}
    BY <1>1, <1>3, <2>3, <2>4 DEF Frames
  <2> QED
    BY <1>8, <2>5
<1> QED
  BY <1>1, <1>4, <1>5, <1>6, <1>7, <1>8, NodeKind DEF Dereferences

LEMMA HandleStatementTyped ==
  ASSUME Typed, stack # <<>>, HandleStatement
  PROVE  Typed'
<1>1. Top.stage = "fun" /\ Top.todo = {}
  BY DEF HandleStatement, Move
<1>2. PICK f : f = Handled(Top.dpm[1]) /\ Move(f)
  BY DEF HandleStatement, Handled
<1>3. f \in Frames /\ Shape(f)
  BY <1>1, <1>2, HandledCases DEF Shape
<1> QED
  BY <1>2, <1>3, MoveTyped DEF ShapedFrames

LEMMA PointerFoundTyped ==
  ASSUME Typed, stack # <<>>, PointerFound
  PROVE  Typed'
<1>1. PICK f : /\ f = [Top EXCEPT !.stage = "flow", !.acc = {}, !.pts = Top.acc,
                                  !.pointees = Top.acc]
               /\ Move(f)
  BY DEF PointerFound
<1>2. Top \in Frames /\ Dereferences(Top.dpm[1]) /\ Top.acc \subseteq Objs
  BY TopShape DEF Typed, ResultsOK, PointerFound, Shape
<1>3. f \in Frames /\ f.dpm = Top.dpm /\ f.stage = "flow"
  BY <1>1, <1>2 DEF Frames, Stages
<1> QED
  BY <1>1, <1>2, <1>3, MoveTyped DEF ShapedFrames, Shape

LEMMA TracePointeeTyped ==
  ASSUME Typed, stack # <<>>, NEW o \in Objs, TracePointee(o)
  PROVE  Typed'
<1>1. PICK f : /\ f = [Top EXCEPT !.pointees = @ \ {o},
                        !.todo = PointeePreds(graph, connected, inRecursion, Top.dpm, Top.pts, o)]
               /\ Move(f)
  BY DEF TracePointee
<1>2. /\ Top \in Frames /\ Dereferences(Top.dpm[1]) /\ Top.dpm \in Dpms
      /\ Top.stage = "flow"
  BY TopShape DEF Typed, ResultsOK, TracePointee, Shape
<1>3. PointeePreds(graph, connected, inRecursion, Top.dpm, Top.pts, o) \subseteq Dpms
  BY <1>2, PointeePredsTypes DEF Typed, ResultsOK, Dereferences
<1>4. f \in Frames /\ f.dpm = Top.dpm /\ f.stage = "flow"
  BY <1>1, <1>2, <1>3 DEF Frames
<1> QED
  BY <1>1, <1>2, <1>4, MoveTyped DEF ShapedFrames, Shape

\* What updateCachedPointsTo adds: the fields of a gep, or the values themselves.
Result(n, pts) == IF Kind[n] = "gep" THEN ProcessGepPts(n, pts) ELSE pts

LEMMA ResultTypes ==
  ASSUME NEW n \in SVFGNodes, NEW pts \in SUBSET Objs
  PROVE  Result(n, pts) \subseteq Objs
  BY NodesAssumption DEF Result, ProcessGepPts

LEMMA UpdateTyped ==
  ASSUME Typed, stack # <<>>, Update
  PROVE  Typed'
<1>1. PICK known, new :
        /\ known = cached[Slot(Top.dpm)] \union Result(Top.dpm[1], Top.acc)
        /\ new = NewCalls(known, Top.dpm[2])
        /\ IF known = cached[Slot(Top.dpm)]
           THEN ReturnTo(Front(stack), Top.dpm, outOfBudgetQuery, cached)
           ELSE /\ cached' = [cached EXCEPT ![Slot(Top.dpm)] = known]
                /\ Connect(new)
                /\ stack' = WithTop([Top EXCEPT !.stage = "calls", !.edges = EdgesOf(new)])
                /\ UNCHANGED <<query, asked, outOfBudgetDpms>>
  BY DEF Update, Result
<1>2. /\ UNCHANGED <<graph, budget, backwardVisited, recorded, steps, outOfBudgetQuery>>
      /\ Top.pointees = {}
  BY DEF Update
<1>3. /\ Top \in Frames /\ Top.dpm \in Dpms /\ Front(stack) \in Seq(ShapedFrames)
      /\ Top.acc \subseteq Objs /\ Top.dpm[1] \in SVFGNodes
      /\ cached \in [Slots -> SUBSET Objs] /\ query \in Candidates /\ graph \in Graphs
  BY TopShape DEF Typed, ResultsOK
<1>4. MarksOK'
  BY <1>2 DEF Typed, MarksOK
<1>5. CASE known = cached[Slot(Top.dpm)]
  <2>1. ResultsOK'
    BY <1>1, <1>2, <1>3, <1>5, ReturnToTyped
  <2> QED
    BY <1>2, <1>3, <1>4, <2>1 DEF Typed
<1>6. CASE known # cached[Slot(Top.dpm)]
  <2>1. PICK f : /\ f = [Top EXCEPT !.stage = "calls", !.edges = EdgesOf(new)]
                 /\ stack' = Front(stack) \o <<f>>
    BY <1>1, <1>6 DEF WithTop
  <2>2. new \subseteq IndCalls
    BY <1>1 DEF NewCalls, Callees
  <2>3. EdgesOf(new) \subseteq DirectEdges(graph, IndCalls) \union IndirectEdges(graph, IndCalls)
    BY <2>2 DEF EdgesOf, DirectEdges, IndirectEdges
  <2>4. f \in Frames /\ f.stage = "calls" /\ f.pointees = {}
    BY <1>2, <1>3, <2>1, <2>3 DEF Frames, Stages
  <2>5. f \in ShapedFrames /\ ShapedFrames' = ShapedFrames
    BY <1>2, <2>4 DEF ShapedFrames, Shape, Frames
  <2>6. stack' \in Seq(ShapedFrames')
    BY <1>3, <2>1, <2>5, NewTop
  <2>7. known \subseteq Objs
    BY <1>1, <1>3, ResultTypes, DpmTypes
  <2>8. cached' \in [Slots -> SUBSET Objs]
    BY <1>1, <1>3, <1>6, <2>7
  <2>9. /\ connected' \subseteq IndCalls /\ inRecursion' \subseteq Objs
        /\ UNCHANGED <<query, asked, outOfBudgetDpms>>
    BY <1>1, <1>6, <2>2, ConnectTyped
  <2>10. ResultsOK'
    BY <1>3, <2>2, <2>6, <2>8, <2>9 DEF Typed, ResultsOK
  <2> QED
    BY <1>2, <1>3, <1>4, <2>10 DEF Typed
<1> QED
  BY <1>5, <1>6

\* A frame in recomputation: any edges and recorded dpms may be left to it.
LEMMA RecomputingTyped ==
  ASSUME Typed, stack # <<>>, (\E e \in Top.edges : FollowEdge(e)) \/ CallsRedone
  PROVE  Typed'
<1>1. /\ Top \in Frames /\ Shape(Top) /\ Top.edges \subseteq
            DirectEdges(graph, IndCalls) \union IndirectEdges(graph, IndCalls)
  BY TopShape DEF Typed, ResultsOK, Frames
<1>2. CASE \E e \in Top.edges : FollowEdge(e)
  <2>1. PICK e \in Top.edges : FollowEdge(e)
    BY <1>2
  <2>2. PICK f : f = [Top EXCEPT !.edges = @ \ {e}, !.todo = Affected(e)] /\ Move(f)
    BY <2>1 DEF FollowEdge
  <2>3. Affected(e) \subseteq Dpms
    BY DEF Affected, Typed, MarksOK
  <2>4. f \in Frames
    BY <1>1, <2>2, <2>3 DEF Frames
  <2>5. f.stage = Top.stage /\ f.pointees = Top.pointees /\ f.dpm = Top.dpm /\ f.acc = Top.acc
    BY <1>1, <2>2 DEF Frames
  <2> QED
    BY <1>1, <2>2, <2>4, <2>5, MoveTyped DEF ShapedFrames, Shape
<1>3. CASE CallsRedone
  <2>1. PICK f, E : /\ E = DirectEdges(graph, connected) \union IndirectEdges(graph, connected)
                    /\ f = [Top EXCEPT !.stage = "redo", !.edges = {e \in E : e[1] = Top.dpm[1]}]
                    /\ Move(f)
    BY <1>3 DEF CallsRedone
  <2>2. E \subseteq DirectEdges(graph, IndCalls) \union IndirectEdges(graph, IndCalls)
    BY <2>1 DEF Typed, ResultsOK, DirectEdges, IndirectEdges
  <2>3. f \in Frames
    BY <1>1, <2>1, <2>2 DEF Frames, Stages
  <2>4. f.stage = "redo" /\ f.pointees = Top.pointees /\ f.dpm = Top.dpm
    BY <1>1, <2>1 DEF Frames
  <2> QED
    BY <1>1, <2>1, <2>3, <2>4, MoveTyped DEF ShapedFrames, Shape
<1> QED
  BY <1>2, <1>3

LEMMA RecomputedTyped ==
  ASSUME Typed, stack # <<>>, Recomputed
  PROVE  Typed'
<1>1. /\ UNCHANGED <<graph, budget, backwardVisited, recorded, steps, outOfBudgetQuery>>
      /\ ReturnTo(Front(stack), Top.dpm, outOfBudgetQuery, cached)
  BY DEF Recomputed
<1>2. /\ Top.dpm \in Dpms /\ Front(stack) \in Seq(ShapedFrames)
      /\ cached \in [Slots -> SUBSET Objs] /\ query \in Candidates
  BY TopShape DEF Typed, ResultsOK
<1>3. ResultsOK'
  BY <1>1, <1>2, ReturnToTyped
<1>4. MarksOK'
  BY <1>1 DEF Typed, MarksOK
<1> QED
  BY <1>1, <1>3, <1>4 DEF Typed

LEMMA StepTyped == Typed /\ [Next]_vars => Typed'
<1>1. ASSUME Typed, UNCHANGED vars
      PROVE  Typed'
  BY <1>1 DEF vars, Typed, ResultsOK, MarksOK, ShapedFrames, Frames
<1> QED
  BY <1>1, QueryTyped, CallTyped, HandleStatementTyped, PointerFoundTyped, TracePointeeTyped,
     UpdateTyped, RecomputingTyped, RecomputedTyped DEF Next

LEMMA TypedHolds == Spec => []Typed
  BY InitTyped, StepTyped, PTL DEF Spec

(***************************************************************************)
(* The variables keep their types: every dpm asked for is one of the graph *)
(* and every value a set of objects, whatever indirect calls have been     *)
(* joined.  (FlowDDA, DDAVFSolver)                                         *)
(***************************************************************************)
THEOREM TypeCorrect == Spec => []TypeOK
  BY TypedTypeOK, TypedHolds, PTL

-----------------------------------------------------------------------------
(***************************************************************************)
(* A bound is a value of every slot that no statement of the graph adds    *)
(* to.  What flows into a statement below a bound stays below it, along    *)
(* the edges of any calls the bound resolves and also from a part of the   *)
(* pointees of a load or store.                                            *)
(***************************************************************************)
Bound(g, B) ==
    /\ B \in [Slots -> SUBSET Objs]
    /\ \A d \in Dpms : Value(g, B, d) \subseteq B[Slot(d)]

LEMMA AddrBound ==
  ASSUME NEW g, NEW B, Bound(g, B), NEW d \in Dpms, Kind[d[1]] = "addr"
  PROVE  ObjAt[d[1]] \in B[Slot(d)]
<1>1. d[1] \notin Scalars
  BY NodesAssumption
<1>2. Value(g, B, d) = {ObjAt[d[1]]}
  BY <1>1 DEF Value
<1> QED
  BY <1>2 DEF Bound

LEMMA DirectBound ==
  ASSUME NEW g, NEW B, Bound(g, B), NEW d \in Dpms, Kind[d[1]] \in {"copy", "gep"},
         NEW calls \in SUBSET ResolvedBy(B), NEW p \in DirectPreds(g, calls, d[1])
  PROVE  Result(d[1], B[Slot(p)]) \subseteq B[Slot(d)]
<1>1. d[1] \notin Scalars
  BY NodesAssumption
<1>2. p \in DirectPreds(g, ResolvedBy(B), d[1])
  BY PredsGrow
<1>3. PICK all : all = UNION {B[Slot(q)] : q \in DirectPreds(g, ResolvedBy(B), d[1])}
  OBVIOUS
<1>4. B[Slot(p)] \subseteq all
  BY <1>2, <1>3
<1>5. CASE Kind[d[1]] = "copy"
  <2>1. Value(g, B, d) = all
    BY <1>1, <1>3, <1>5 DEF Value
  <2> QED
    BY <1>4, <1>5, <2>1 DEF Bound, Result
<1>6. CASE Kind[d[1]] = "gep"
  <2>1. Value(g, B, d) = ProcessGepPts(d[1], all)
    BY <1>1, <1>3, <1>6 DEF Value
  <2> QED
    BY <1>4, <1>6, <2>1 DEF Bound, Result, ProcessGepPts
<1> QED
  BY <1>5, <1>6

LEMMA RegionBound ==
  ASSUME NEW g, NEW B, Bound(g, B), NEW d \in Dpms, Kind[d[1]] = "mr",
         NEW calls \in SUBSET ResolvedBy(B), NEW p \in IndirectPreds(g, calls, d[1], d[2])
  PROVE  B[Slot(p)] \subseteq B[Slot(d)]
<1>1. d[1] \notin Scalars
  BY NodesAssumption
<1>2. p \in IndirectPreds(g, ResolvedBy(B), d[1], d[2])
  BY PredsGrow
<1>3. Value(g, B, d) = UNION {B[Slot(q)] : q \in IndirectPreds(g, ResolvedBy(B), d[1], d[2])}
  BY <1>1 DEF Value
<1> QED
  BY <1>2, <1>3 DEF Bound

LEMMA PointeeBound ==
  ASSUME NEW g, NEW B, Bound(g, B), NEW d \in Dpms, Dereferences(d[1]),
         NEW calls \in SUBSET ResolvedBy(B), NEW locals \in SUBSET g.recursive[ResolvedBy(B)],
         NEW pts \in SUBSET B[Var(PtrAt[d[1]])],
         NEW o \in pts, NEW p \in PointeePreds(g, calls, locals, d, pts, o)
  PROVE  B[Slot(p)] \subseteq B[Slot(d)]
<1>1. d[1] \in SVFGNodes
  BY DpmTypes
<1>2. PtrAt[d[1]] \in Vars
  BY <1>1, NodesAssumption DEF Dereferences
<1>3. PICK all : all = B[Var(PtrAt[d[1]])] /\ all \in SUBSET Objs
  BY <1>2, DefDpmTypes DEF Bound
<1>4. p \in PointeePreds(g, ResolvedBy(B), g.recursive[ResolvedBy(B)], d, all, o)
  BY <1>3, PointeePredsGrow
<1>5. Value(g, B, d) =
        UNION {B[Slot(q)] : q \in UNION {
            PointeePreds(g, ResolvedBy(B), g.recursive[ResolvedBy(B)], d, all, x) : x \in all}}
  BY <1>3 DEF Value, Dereferences
<1>6. o \in all
  BY <1>3
<1> QED
  BY <1>4, <1>5, <1>6 DEF Bound

-----------------------------------------------------------------------------
(***************************************************************************)
(* Below a bound: what is cached, the calls that are joined and what every *)
(* activation holds or may still be handed, also by the one above it.      *)
(***************************************************************************)
Feeds(f, pts, B) ==
    /\ f.stage = "ptr" => pts \subseteq B[Var(PtrAt[f.dpm[1]])]
    /\ f.stage = "flow" => Result(f.dpm[1], pts) \subseteq B[Slot(f.dpm)]

FrameBelow(f, B) ==
    /\ Feeds(f, f.acc, B)
    /\ \A p \in f.todo : Feeds(f, B[Slot(p)], B)
    /\ f.pointees # {} => f.pointees \subseteq f.pts /\ f.pts \subseteq B[Var(PtrAt[f.dpm[1]])]

StackBelow(st, B) ==
    /\ \A i \in 1 .. Len(st) : FrameBelow(st[i], B)
    /\ \A i \in 1 .. Len(st) - 1 : Feeds(st[i], B[Slot(st[i + 1].dpm)], B)

CallsBelow(B) ==
    /\ connected \subseteq ResolvedBy(B)
    /\ inRecursion \subseteq graph.recursive[ResolvedBy(B)]

Below(B) ==
    /\ \A s \in Slots : cached[s] \subseteq B[s]
    /\ CallsBelow(B)
    /\ StackBelow(stack, B)

LEMMA FeedsLess ==
  ASSUME NEW f, NEW pts, NEW more, pts \subseteq more, NEW B, Feeds(f, more, B)
  PROVE  Feeds(f, pts, B)
<1>1. Result(f.dpm[1], pts) \subseteq Result(f.dpm[1], more)
  BY DEF Result, ProcessGepPts
<1> QED
  BY <1>1 DEF Feeds

LEMMA FeedsUnion ==
  ASSUME NEW f, NEW pts, NEW more, NEW B, Feeds(f, pts, B), Feeds(f, more, B)
  PROVE  Feeds(f, pts \union more, B)
<1>1. Result(f.dpm[1], pts \union more) =
        Result(f.dpm[1], pts) \union Result(f.dpm[1], more)
  BY DEF Result, ProcessGepPts
<1> QED
  BY <1>1 DEF Feeds

LEMMA PushBelow ==
  ASSUME NEW S, NEW st \in Seq(S), NEW B, StackBelow(st, B), NEW f \in S, FrameBelow(f, B),
         st # <<>> => Feeds(Last(st), B[Slot(f.dpm)], B)
  PROVE  StackBelow(st \o <<f>>, B)
<1>1. /\ Len(st \o <<f>>) = Len(st) + 1 /\ (st \o <<f>>)[Len(st) + 1] = f
      /\ \A i \in 1 .. Len(st) : (st \o <<f>>)[i] = st[i]
      /\ Len(st) \in Nat
  BY NewTop
<1>2. ASSUME NEW i \in 1 .. Len(st) + 1
      PROVE  FrameBelow((st \o <<f>>)[i], B)
  <2>1. i \in 1 .. Len(st) \/ i = Len(st) + 1
    BY <1>1
  <2> QED
    BY <1>1, <2>1 DEF StackBelow
<1>3. ASSUME NEW i \in 1 .. Len(st)
      PROVE  Feeds((st \o <<f>>)[i], B[Slot((st \o <<f>>)[i + 1].dpm)], B)
  <2>1. CASE i = Len(st)
    <3>1. Len(st) # 0
      BY <1>1
    <3>2. st # <<>>
      BY <3>1
    <3>3. Last(st) = st[Len(st)]
      BY DEF Last
    <3> QED
      BY <1>1, <2>1, <3>2, <3>3
  <2>2. CASE i # Len(st)
    <3>1. i \in 1 .. Len(st) - 1 /\ i + 1 \in 1 .. Len(st)
      BY <1>1, <2>2
    <3> QED
      BY <1>1, <3>1 DEF StackBelow
  <2> QED
    BY <2>1, <2>2
<1>4. Len(st \o <<f>>) - 1 = Len(st)
  BY <1>1
<1> QED
  BY <1>1, <1>2, <1>3, <1>4 DEF StackBelow

LEMMA PopBelow ==
  ASSUME NEW S, NEW st \in Seq(S), st # <<>>, NEW B, StackBelow(st, B)
  PROVE  /\ FrameBelow(Last(st), B) /\ StackBelow(Front(st), B)
         /\ Front(st) # <<>> => Feeds(Last(Front(st)), B[Slot(Last(st).dpm)], B)
<1>1. /\ Len(st) \in Nat \ {0} /\ Last(st) = st[Len(st)]
      /\ Front(st) \in Seq(S) /\ Len(Front(st)) = Len(st) - 1
      /\ \A i \in 1 .. Len(st) - 1 : Front(st)[i] = st[i]
  BY FrontLast
<1>2. FrameBelow(Last(st), B)
  BY <1>1 DEF StackBelow
<1>3. StackBelow(Front(st), B)
  <2>1. \A i \in 1 .. Len(st) - 1 : i \in 1 .. Len(st)
    BY <1>1
  <2>2. \A i \in 1 .. Len(st) - 2 : i \in 1 .. Len(st) - 1 /\ i + 1 \in 1 .. Len(st) - 1
    BY <1>1
  <2>3. Len(Front(st)) - 1 = Len(st) - 2
    BY <1>1
  <2> QED
    BY <1>1, <2>1, <2>2, <2>3 DEF StackBelow
<1>4. ASSUME Front(st) # <<>>
      PROVE  Feeds(Last(Front(st)), B[Slot(Last(st).dpm)], B)
  <2>1. /\ Len(Front(st)) \in Nat \ {0}
        /\ Last(Front(st)) = Front(st)[Len(Front(st))]
    BY <1>1, <1>4, FrontLast
  <2>2. Len(st) - 1 \in 1 .. Len(st) - 1 /\ Len(st) - 1 + 1 = Len(st)
    BY <1>1, <2>1
  <2>3. Last(Front(st)) = st[Len(st) - 1]
    BY <1>1, <2>1, <2>2
  <2> QED
    BY <1>1, <2>2, <2>3 DEF StackBelow
<1> QED
  BY <1>2, <1>3, <1>4

\* A frame that keeps its dpm takes the place of the top.
LEMMA ReplaceBelow ==
  ASSUME NEW S, NEW st \in Seq(S), st # <<>>, NEW B, StackBelow(st, B),
         NEW f \in S, f.dpm = Last(st).dpm, FrameBelow(f, B)
  PROVE  StackBelow(Front(st) \o <<f>>, B)
<1>1. /\ Front(st) \in Seq(S) /\ StackBelow(Front(st), B)
      /\ Front(st) # <<>> => Feeds(Last(Front(st)), B[Slot(f.dpm)], B)
  BY FrontLast, PopBelow
<1> QED
  BY <1>1, PushBelow

LEMMA DeliverBelow ==
  ASSUME NEW B, NEW frames \in Seq(ShapedFrames), StackBelow(frames, B), NEW pts,
         frames # <<>> => Feeds(Last(frames), pts, B), pts \subseteq Objs
  PROVE  StackBelow(Deliver(frames, pts), B)
<1>1. CASE frames # <<>> /\ Last(frames).stage \in {"ptr", "flow"}
  <2>1. Last(frames) \in ShapedFrames /\ Last(frames) \in Frames /\ FrameBelow(Last(frames), B)
    BY <1>1, FrontLast, PopBelow DEF ShapedFrames
  <2>2. PICK f : f = [Last(frames) EXCEPT !.acc = @ \union pts]
    OBVIOUS
  <2>3. /\ f \in Frames /\ f.dpm = Last(frames).dpm /\ f.stage = Last(frames).stage
        /\ f.todo = Last(frames).todo /\ f.pts = Last(frames).pts
        /\ f.pointees = Last(frames).pointees /\ f.acc = Last(frames).acc \union pts
    BY <2>1, <2>2 DEF Frames
  <2>4. f \in ShapedFrames
    BY <1>1, <2>1, <2>3 DEF ShapedFrames, Shape
  <2>5. Feeds(Last(frames), f.acc, B)
    BY <1>1, <2>1, <2>3, FeedsUnion DEF FrameBelow
  <2>6. FrameBelow(f, B)
    BY <2>1, <2>3, <2>5 DEF FrameBelow, Feeds
  <2>7. StackBelow(Front(frames) \o <<f>>, B)
    BY <1>1, <2>3, <2>4, <2>6, ReplaceBelow
  <2> QED
    BY <1>1, <2>2, <2>7 DEF Deliver
<1>2. CASE ~(frames # <<>> /\ Last(frames).stage \in {"ptr", "flow"})
  BY <1>2 DEF Deliver
<1> QED
  BY <1>1, <1>2

-----------------------------------------------------------------------------
(***************************************************************************)
(* Every step keeps the analysis below a bound, if the pre-analysis is     *)
(* below it as well or no query runs out of budget.                        *)
(***************************************************************************)
Fallback(B) ==
    outOfBudgetDpms' = {} \/ \A v \in Vars : graph.ander[v] \subseteq B[Var(v)]

\* The calls a variable below the bound resolves are calls the bound resolves.
LEMMA CalleesBelow ==
  ASSUME NEW B, NEW v \in Vars, NEW pts \in SUBSET B[Var(v)]
  PROVE  Callees(pts, v) \subseteq ResolvedBy(B)
  BY DEF Callees, ResolvedBy

\* A recursion of fewer calls is one of more.  (reCompute, _callGraphSCC)
LEMMA ConnectBelow ==
  ASSUME Typed, NEW B, CallsBelow(B), NEW calls \in SUBSET ResolvedBy(B), Connect(calls),
         graph' = graph
  PROVE  CallsBelow(B)'
<1>1. ResolvedBy(B) \in SUBSET IndCalls
  BY DEF ResolvedBy, Callees
<1>2. connected' \in SUBSET ResolvedBy(B) /\ connected' \in SUBSET IndCalls
  BY <1>1 DEF Connect, CallsBelow
<1>3. graph.recursive[connected'] \subseteq graph.recursive[ResolvedBy(B)]
  BY <1>1, <1>2, RecursionAssumption DEF Typed
<1> QED
  BY <1>2, <1>3 DEF Connect, CallsBelow

LEMMA ReturnToBelow ==
  ASSUME Typed, query \in Candidates, NEW B, Bound(graph, B), Fallback(B),
         CallsBelow(B), graph' = graph,
         NEW frames \in Seq(ShapedFrames), StackBelow(frames, B), NEW d \in Dpms,
         frames # <<>> => Feeds(Last(frames), B[Slot(d)], B), NEW oob,
         NEW pts \in [Slots -> SUBSET Objs], \A s \in Slots : pts[s] \subseteq B[s],
         ReturnTo(frames, d, oob, pts)
  PROVE  Below(B)'
<1>1. pts[Slot(d)] \in SUBSET Objs /\ pts[Slot(d)] \subseteq B[Slot(d)]
  BY DpmTypes
<1>2. frames # <<>> => Feeds(Last(frames), pts[Slot(d)], B)
  BY <1>1, FeedsLess
<1>3. StackBelow(stack', B)
  BY <1>1, <1>2, DeliverBelow DEF ReturnTo
<1>4. CASE frames # <<>>
  <2>1. cached' = pts /\ UNCHANGED <<connected, inRecursion>>
    BY <1>4 DEF ReturnTo
  <2> QED
    BY <1>3, <2>1 DEF Below, CallsBelow
<1>5. CASE frames = <<>>
  <2>1. Answer(oob, pts)
    BY <1>5 DEF ReturnTo
  <2>2. query \in Vars /\ Var(query) \in Slots
    BY NodesAssumption, DefDpmTypes
  <2>3. CASE ~oob
    BY <1>3, <2>1, <2>3 DEF Answer, Below, CallsBelow
  <2>4. CASE oob
    <3>1. PICK known : known = pts[Var(query)] \union graph.ander[query]
      OBVIOUS
    <3>2. /\ cached' = [pts EXCEPT ![Var(query)] = known]
          /\ Connect(IF known = pts[Var(query)] THEN {} ELSE NewCalls(known, query))
          /\ outOfBudgetDpms' = outOfBudgetDpms \union {DefDpm(query)}
      BY <2>1, <2>4, <3>1 DEF Answer
    <3>3. graph.ander[query] \subseteq B[Var(query)]
      BY <2>2, <3>2 DEF Fallback
    <3>4. known \subseteq B[Var(query)]
      BY <2>2, <3>1, <3>3
    <3>5. \A s \in Slots : cached'[s] \subseteq B[s]
      BY <3>2, <3>4
    <3>6. CallsBelow(B)'
      <4>1. PICK calls : /\ calls = (IF known = pts[Var(query)] THEN {} ELSE NewCalls(known, query))
                         /\ Connect(calls)
        BY <3>2
      <4>2. calls \subseteq ResolvedBy(B)
        BY <2>2, <3>4, <4>1, CalleesBelow DEF NewCalls
      <4> QED
        BY <4>1, <4>2, ConnectBelow
    <3> QED
      BY <1>3, <3>5, <3>6 DEF Below
  <2> QED
    BY <2>3, <2>4
<1> QED
  BY <1>4, <1>5

LEMMA NewFrameBelow ==
  ASSUME NEW d, NEW B
  PROVE  FrameBelow(Frame(d), B)
  BY DEF FrameBelow, Frame, Feeds

LEMMA FindPTBelow ==
  ASSUME Typed, query \in Candidates, NEW B, Bound(graph, B), Fallback(B), Below(B),
         NEW frames \in Seq(ShapedFrames), StackBelow(frames, B), NEW d \in Dpms,
         frames # <<>> => Feeds(Last(frames), B[Slot(d)], B), NEW visited,
         FindPT(d, frames, visited), graph' = graph
  PROVE  Below(B)'
<1>1. /\ cached \in [Slots -> SUBSET Objs] /\ \A s \in Slots : cached[s] \subseteq B[s]
      /\ CallsBelow(B)
  BY DEF Typed, ResultsOK, Below
<1>2. CASE \E oob : ReturnTo(frames, d, oob, cached)
  BY <1>1, <1>2, ReturnToBelow
<1>3. CASE stack' = frames \o <<Frame(d)>> /\ UNCHANGED <<graph, cached, connected, inRecursion>>
  <2>1. Frame(d) \in ShapedFrames /\ Frame(d).dpm = d
    BY NewFrame DEF Frame
  <2>2. StackBelow(stack', B)
    BY <1>3, <2>1, NewFrameBelow, PushBelow
  <2> QED
    BY <1>1, <1>3, <2>2 DEF Below, CallsBelow
<1>4. \/ \E oob : ReturnTo(frames, d, oob, cached)
      \/ stack' = frames \o <<Frame(d)>> /\ UNCHANGED <<cached, connected, inRecursion>>
  BY DEF FindPT
<1> QED
  BY <1>2, <1>3, <1>4

LEMMA MoveBelow ==
  ASSUME Typed, stack # <<>>, NEW B, Below(B), NEW f \in ShapedFrames,
         f.dpm = Top.dpm, FrameBelow(f, B), Move(f)
  PROVE  Below(B)'
<1>1. stack' = Front(stack) \o <<f>> /\ UNCHANGED <<graph, cached, connected, inRecursion>>
  BY DEF Move, WithTop
<1>2. StackBelow(stack', B)
  BY <1>1, ReplaceBelow DEF Typed, ResultsOK, Below, Top
<1> QED
  BY <1>1, <1>2 DEF Below, CallsBelow

LEMMA TopBelow ==
  ASSUME Typed, stack # <<>>, NEW B, Below(B)
  PROVE  /\ FrameBelow(Top, B) /\ StackBelow(Front(stack), B)
         /\ Front(stack) # <<>> => Feeds(Last(Front(stack)), B[Slot(Top.dpm)], B)
  BY PopBelow DEF Typed, ResultsOK, Below, Top

LEMMA QueryBelow ==
  ASSUME Typed, NEW B, Below(B), NEW v \in Candidates, Query(v)
  PROVE  Below(B)'
<1>1. UNCHANGED <<graph, cached, connected, inRecursion>>
  BY DEF Query
<1>2. CASE UNCHANGED stack
  BY <1>1, <1>2 DEF Below, CallsBelow
<1>3. CASE stack' = <<Frame(DefDpm(v))>>
  <2>1. StackBelow(<<Frame(DefDpm(v))>>, B)
    BY NewFrameBelow DEF StackBelow
  <2> QED
    BY <1>1, <1>3, <2>1 DEF Below, CallsBelow
<1> QED
  BY <1>2, <1>3 DEF Query

LEMMA CallBelow ==
  ASSUME Typed, stack # <<>>, NEW B, Bound(graph, B), Fallback(B), Below(B),
         NEW d \in Dpms, Trace(d) \/ Redo(d)
  PROVE  Below(B)'
<1>1. PICK f : f = [Top EXCEPT !.todo = @ \ {d}]
  OBVIOUS
<1>2. /\ Top \in ShapedFrames /\ Front(stack) \in Seq(ShapedFrames) /\ query \in Candidates
      /\ FrameBelow(Top, B)
  BY TopShape, TopBelow DEF Typed, ResultsOK
<1>3. /\ f \in ShapedFrames /\ f.dpm = Top.dpm /\ f.stage = Top.stage /\ f.acc = Top.acc
      /\ f.pts = Top.pts /\ f.pointees = Top.pointees /\ f.todo = Top.todo \ {d}
  <2>1. f \in ShapedFrames
    BY <1>1, <1>2, TakenFrame
  <2> QED
    BY <1>1, <1>2, <2>1 DEF ShapedFrames, Frames
<1>4. FrameBelow(f, B)
  BY <1>2, <1>3 DEF FrameBelow, Feeds
<1>5. StackBelow(WithTop(f), B)
  BY <1>2, <1>3, <1>4, ReplaceBelow DEF WithTop, Top, Below, Typed, ResultsOK
<1>6. /\ WithTop(f) \in Seq(ShapedFrames) /\ Last(WithTop(f)) = f
  BY <1>2, <1>3, NewTop DEF WithTop
<1>7. Feeds(f, B[Slot(d)], B)
  <2>1. CASE Trace(d)
    BY <1>2, <1>3, <2>1 DEF Trace, FrameBelow, Feeds
  <2>2. CASE Redo(d)
    BY <1>3, <2>2 DEF Redo, Feeds
  <2> QED
    BY <2>1, <2>2
<1>8. graph' = graph /\ \E visited : FindPT(d, WithTop(f), visited)
  BY <1>1 DEF Trace, Redo
<1> QED
  BY <1>2, <1>5, <1>6, <1>7, <1>8, FindPTBelow

LEMMA HandleStatementBelow ==
  ASSUME Typed, stack # <<>>, NEW B, Bound(graph, B), Below(B), HandleStatement
  PROVE  Below(B)'
<1>1. Top.stage = "fun" /\ Top.todo = {}
  BY DEF HandleStatement, Move
<1>2. PICK f : f = Handled(Top.dpm[1]) /\ Move(f)
  BY DEF HandleStatement, Handled
<1>3. PICK d, n : d = Top.dpm /\ n = d[1]
  OBVIOUS
<1>4. d \in Dpms /\ n \in SVFGNodes /\ connected \in SUBSET ResolvedBy(B)
  BY <1>3, TopShape DEF Typed, ResultsOK, Below, CallsBelow
<1>5. /\ f \in Frames /\ f.dpm = d /\ f.pointees = {}
      /\ \/ /\ f.stage = "flow" /\ f.acc = {} /\ f.todo = {}
         \/ /\ n \notin Scalars /\ Kind[n] = "addr"
            /\ f.stage = "flow" /\ f.acc = {ObjAt[n]} /\ f.todo = {}
         \/ /\ n \notin Scalars /\ Kind[n] \in {"copy", "gep"}
            /\ f.stage = "flow" /\ f.acc = {} /\ f.todo = DirectPreds(graph, connected, n)
         \/ /\ n \notin Scalars /\ Kind[n] = "mr"
            /\ f.stage = "flow" /\ f.acc = {}
            /\ f.todo = IndirectPreds(graph, connected, n, d[2])
         \/ /\ Dereferences(n)
            /\ f.stage = "ptr" /\ f.acc = {} /\ f.todo = {DefDpm(PtrAt[n])}
  BY <1>1, <1>2, <1>3, HandledCases
<1>6. Result(n, {}) = {}
  BY DEF Result, ProcessGepPts
<1>7. FrameBelow(f, B)
  <2>1. CASE f.stage = "flow" /\ f.acc = {} /\ f.todo = {}
    BY <1>3, <1>5, <1>6, <2>1 DEF FrameBelow, Feeds
  <2>2. CASE /\ n \notin Scalars /\ Kind[n] = "addr"
             /\ f.stage = "flow" /\ f.acc = {ObjAt[n]} /\ f.todo = {}
    <3>1. Result(n, f.acc) \subseteq B[Slot(d)]
      BY <1>3, <1>4, <2>2, AddrBound DEF Result
    <3> QED
      BY <1>3, <1>5, <2>2, <3>1 DEF FrameBelow, Feeds
  <2>3. CASE /\ n \notin Scalars /\ Kind[n] \in {"copy", "gep"}
             /\ f.stage = "flow" /\ f.acc = {} /\ f.todo = DirectPreds(graph, connected, n)
    <3>1. ASSUME NEW p \in f.todo
          PROVE  Result(n, B[Slot(p)]) \subseteq B[Slot(d)]
      <4>1. p \in DirectPreds(graph, connected, d[1])
        BY <1>3, <2>3
      <4> QED
        BY <1>3, <1>4, <2>3, <4>1, DirectBound
    <3> QED
      BY <1>3, <1>5, <1>6, <2>3, <3>1 DEF FrameBelow, Feeds
  <2>4. CASE /\ n \notin Scalars /\ Kind[n] = "mr"
             /\ f.stage = "flow" /\ f.acc = {}
             /\ f.todo = IndirectPreds(graph, connected, n, d[2])
    <3>1. ASSUME NEW p \in f.todo
          PROVE  Result(n, B[Slot(p)]) \subseteq B[Slot(d)]
      <4>1. p \in IndirectPreds(graph, connected, d[1], d[2])
        BY <1>3, <2>4
      <4>2. B[Slot(p)] \subseteq B[Slot(d)]
        BY <1>3, <1>4, <2>4, <4>1, RegionBound
      <4> QED
        BY <2>4, <4>2 DEF Result
    <3> QED
      BY <1>3, <1>5, <1>6, <2>4, <3>1 DEF FrameBelow, Feeds
  <2>5. CASE /\ Dereferences(n)
             /\ f.stage = "ptr" /\ f.acc = {} /\ f.todo = {DefDpm(PtrAt[n])}
    <3>1. PtrAt[n] \in Vars
      BY <1>4, <2>5, NodesAssumption DEF Dereferences
    <3>2. Slot(DefDpm(PtrAt[n])) = Var(PtrAt[n])
      BY <3>1, DefDpmTypes
    <3> QED
      BY <1>3, <1>5, <2>5, <3>2 DEF FrameBelow, Feeds
  <2> QED
    BY <1>5, <2>1, <2>2, <2>3, <2>4, <2>5
<1>8. f \in ShapedFrames
  BY <1>3, <1>5 DEF ShapedFrames, Shape
<1> QED
  BY <1>2, <1>3, <1>5, <1>7, <1>8, MoveBelow

LEMMA PointerFoundBelow ==
  ASSUME Typed, stack # <<>>, NEW B, Below(B), PointerFound
  PROVE  Below(B)'
<1>1. PICK f : /\ f = [Top EXCEPT !.stage = "flow", !.acc = {}, !.pts = Top.acc,
                                  !.pointees = Top.acc]
               /\ Move(f)
  BY DEF PointerFound
<1>2. /\ Top \in Frames /\ Dereferences(Top.dpm[1]) /\ Top.acc \subseteq Objs
      /\ FrameBelow(Top, B) /\ Top.stage = "ptr" /\ Top.todo = {}
  BY TopShape, TopBelow DEF Typed, ResultsOK, PointerFound, Shape, Move
<1>3. /\ f \in Frames /\ f.dpm = Top.dpm /\ f.stage = "flow" /\ f.acc = {}
      /\ f.pts = Top.acc /\ f.pointees = Top.acc /\ f.todo = {}
  BY <1>1, <1>2 DEF Frames, Stages
<1>4. Top.acc \subseteq B[Var(PtrAt[Top.dpm[1]])]
  BY <1>2 DEF FrameBelow, Feeds
<1>5. FrameBelow(f, B)
  BY <1>3, <1>4 DEF FrameBelow, Feeds, Result, ProcessGepPts
<1>6. f \in ShapedFrames
  BY <1>2, <1>3 DEF ShapedFrames, Shape
<1> QED
  BY <1>1, <1>3, <1>5, <1>6, MoveBelow

LEMMA TracePointeeBelow ==
  ASSUME Typed, stack # <<>>, NEW B, Bound(graph, B), Below(B), NEW o \in Objs, TracePointee(o)
  PROVE  Below(B)'
<1>1. PICK f : /\ f = [Top EXCEPT !.pointees = @ \ {o},
                        !.todo = PointeePreds(graph, connected, inRecursion, Top.dpm, Top.pts, o)]
               /\ Move(f)
  BY DEF TracePointee
<1>2. /\ Top \in Frames /\ Dereferences(Top.dpm[1]) /\ Top.dpm \in Dpms
      /\ Top.stage = "flow" /\ o \in Top.pointees /\ FrameBelow(Top, B)
  BY TopShape, TopBelow DEF Typed, ResultsOK, TracePointee, Shape
<1>3. PointeePreds(graph, connected, inRecursion, Top.dpm, Top.pts, o) \subseteq Dpms
  BY <1>2, PointeePredsTypes DEF Typed, ResultsOK, Dereferences
<1>4. /\ f \in Frames /\ f.dpm = Top.dpm /\ f.stage = "flow" /\ f.acc = Top.acc
      /\ f.pts = Top.pts /\ f.pointees = Top.pointees \ {o}
      /\ f.todo = PointeePreds(graph, connected, inRecursion, Top.dpm, Top.pts, o)
  BY <1>1, <1>2, <1>3 DEF Frames
<1>5. /\ Top.pts \in SUBSET B[Var(PtrAt[Top.dpm[1]])] /\ o \in Top.pts
      /\ Top.pointees \subseteq Top.pts
  BY <1>2 DEF FrameBelow
<1>6. ASSUME NEW p \in f.todo
      PROVE  B[Slot(p)] \subseteq B[Slot(Top.dpm)]
  <2>1. p \in PointeePreds(graph, connected, inRecursion, Top.dpm, Top.pts, o)
    BY <1>4
  <2>2. /\ connected \in SUBSET ResolvedBy(B)
        /\ inRecursion \in SUBSET graph.recursive[ResolvedBy(B)]
    BY DEF Below, CallsBelow
  <2> QED
    BY <1>2, <1>5, <2>1, <2>2, PointeeBound
<1>7. FrameBelow(f, B)
  BY <1>2, <1>4, <1>5, <1>6 DEF FrameBelow, Feeds, Result, Dereferences
<1>8. f \in ShapedFrames
  BY <1>2, <1>4 DEF ShapedFrames, Shape
<1> QED
  BY <1>1, <1>4, <1>7, <1>8, MoveBelow

LEMMA UpdateBelow ==
  ASSUME Typed, stack # <<>>, NEW B, Bound(graph, B), Fallback(B), Below(B), Update
  PROVE  Below(B)'
<1>1. PICK known, new :
        /\ known = cached[Slot(Top.dpm)] \union Result(Top.dpm[1], Top.acc)
        /\ new = NewCalls(known, Top.dpm[2])
        /\ IF known = cached[Slot(Top.dpm)]
           THEN ReturnTo(Front(stack), Top.dpm, outOfBudgetQuery, cached)
           ELSE /\ cached' = [cached EXCEPT ![Slot(Top.dpm)] = known]
                /\ Connect(new)
                /\ stack' = WithTop([Top EXCEPT !.stage = "calls", !.edges = EdgesOf(new)])
                /\ UNCHANGED <<query, asked, outOfBudgetDpms>>
  BY DEF Update, Result
<1>2. Top.stage = "flow" /\ Top.todo = {} /\ Top.pointees = {}
  BY DEF Update
<1>3. /\ Top \in Frames /\ Top.dpm \in Dpms /\ Front(stack) \in Seq(ShapedFrames)
      /\ cached \in [Slots -> SUBSET Objs] /\ query \in Candidates
      /\ Top \in ShapedFrames
  BY TopShape DEF Typed, ResultsOK
<1>4. /\ FrameBelow(Top, B) /\ StackBelow(Front(stack), B)
      /\ Front(stack) # <<>> => Feeds(Last(Front(stack)), B[Slot(Top.dpm)], B)
  BY TopBelow
<1>5. CASE known = cached[Slot(Top.dpm)]
  <2>1. graph' = graph
    BY DEF Update
  <2> QED
    BY <1>1, <1>3, <1>4, <1>5, <2>1, ReturnToBelow DEF Below
<1>6. CASE known # cached[Slot(Top.dpm)]
  <2>1. PICK f : /\ f = [Top EXCEPT !.stage = "calls", !.edges = EdgesOf(new)]
                 /\ stack' = Front(stack) \o <<f>>
    BY <1>1, <1>6 DEF WithTop
  <2>2. f.dpm = Top.dpm /\ f.stage = "calls" /\ f.pointees = {}
    BY <1>2, <1>3, <2>1 DEF Frames
  <2>3. FrameBelow(f, B)
    BY <2>2 DEF FrameBelow, Feeds
  <2>4. Front(stack) # <<>> => Feeds(Last(Front(stack)), B[Slot(f.dpm)], B)
    BY <1>4, <2>2
  <2>5. StackBelow(stack', B)
    <3>1. Front(stack) \in Seq(ShapedFrames \union {f}) /\ f \in ShapedFrames \union {f}
      BY <1>3
    <3> QED
      BY <1>4, <2>1, <2>3, <2>4, <3>1, PushBelow
  <2>6. known \subseteq B[Slot(Top.dpm)]
    BY <1>1, <1>2, <1>3, <1>4, DpmTypes DEF FrameBelow, Feeds, Below
  <2>7. \A s \in Slots : cached'[s] \subseteq B[s]
    BY <1>1, <1>3, <1>6, <2>6 DEF Below
  <2>8. new \subseteq ResolvedBy(B)
    <3>1. CASE Top.dpm[1] \in TopLevel
      <4>1. Top.dpm[2] \in Vars /\ Slot(Top.dpm) = Var(Top.dpm[2])
        BY <1>3, <3>1, DpmTypes
      <4> QED
        BY <1>1, <2>6, <4>1, CalleesBelow DEF NewCalls
    <3>2. CASE Top.dpm[1] \notin TopLevel
      <4>1. Top.dpm[2] \notin Vars
        BY <1>3, <3>2, DpmTypes, NodesAssumption
      <4> QED
        BY <1>1, <4>1, EdgesAssumption DEF NewCalls, Callees
    <3> QED
      BY <3>1, <3>2
  <2>9. CallsBelow(B)'
    <3>1. Connect(new) /\ graph' = graph
      BY <1>1, <1>6 DEF Update
    <3> QED
      BY <2>8, <3>1, ConnectBelow DEF Below
  <2> QED
    BY <2>5, <2>7, <2>9 DEF Below
<1> QED
  BY <1>5, <1>6

LEMMA RecomputingBelow ==
  ASSUME Typed, Typed', stack # <<>>, NEW B, Below(B),
         (\E e \in Top.edges : FollowEdge(e)) \/ CallsRedone
  PROVE  Below(B)'
<1>1. Top \in Frames /\ FrameBelow(Top, B) /\ Shape(Top)
  BY TopShape, TopBelow DEF Typed, ResultsOK
<1>2. PICK f : /\ \/ \E e : /\ f = [Top EXCEPT !.edges = @ \ {e}, !.todo = Affected(e)]
                              /\ Top.stage \in {"calls", "redo"}
                  \/ \E E : f = [Top EXCEPT !.stage = "redo", !.edges = E]
               /\ Move(f)
  BY DEF FollowEdge, CallsRedone
<1>3. /\ f.dpm = Top.dpm /\ f.pointees = Top.pointees /\ f.pts = Top.pts
      /\ f.stage \in {"calls", "redo"}
  BY <1>1, <1>2 DEF Frames
<1>4. FrameBelow(f, B)
  BY <1>1, <1>3 DEF FrameBelow, Feeds
<1>5. stack' = Front(stack) \o <<f>> /\ UNCHANGED <<graph, cached, connected, inRecursion>>
  BY <1>2 DEF Move, WithTop
<1>6. StackBelow(stack', B)
  <2>1. stack \in Seq(ShapedFrames \union {f}) /\ f \in ShapedFrames \union {f}
    BY DEF Typed, ResultsOK
  <2> QED
    BY <1>3, <1>4, <1>5, <2>1, ReplaceBelow DEF Below, Top
<1> QED
  BY <1>5, <1>6 DEF Below, CallsBelow

LEMMA RecomputedBelow ==
  ASSUME Typed, stack # <<>>, NEW B, Bound(graph, B), Fallback(B), Below(B), Recomputed
  PROVE  Below(B)'
<1>1. ReturnTo(Front(stack), Top.dpm, outOfBudgetQuery, cached) /\ graph' = graph
  BY DEF Recomputed
<1>2. /\ Top.dpm \in Dpms /\ Front(stack) \in Seq(ShapedFrames)
      /\ cached \in [Slots -> SUBSET Objs] /\ query \in Candidates
  BY TopShape DEF Typed, ResultsOK
<1>3. /\ StackBelow(Front(stack), B)
      /\ Front(stack) # <<>> => Feeds(Last(Front(stack)), B[Slot(Top.dpm)], B)
  BY TopBelow
<1> QED
  BY <1>1, <1>2, <1>3, ReturnToBelow DEF Below

LEMMA StepBelow ==
  ASSUME Typed, Typed', [Next]_vars, NEW B, Bound(graph, B), Fallback(B), Below(B)
  PROVE  Below(B)'
<1>1. CASE UNCHANGED vars
  BY <1>1 DEF vars, Below, CallsBelow
<1>2. CASE \E v \in Candidates : Query(v)
  BY <1>2, QueryBelow
<1>3. CASE stack # <<>> /\ \E d \in Dpms : Trace(d) \/ Redo(d)
  BY <1>3, CallBelow
<1>4. CASE stack # <<>> /\ HandleStatement
  BY <1>4, HandleStatementBelow
<1>5. CASE stack # <<>> /\ PointerFound
  BY <1>5, PointerFoundBelow
<1>6. CASE stack # <<>> /\ \E o \in Objs : TracePointee(o)
  BY <1>6, TracePointeeBelow
<1>7. CASE stack # <<>> /\ Update
  BY <1>7, UpdateBelow
<1>8. CASE stack # <<>> /\ ((\E e \in Top.edges : FollowEdge(e)) \/ CallsRedone)
  BY <1>8, RecomputingBelow
<1>9. CASE stack # <<>> /\ Recomputed
  BY <1>9, RecomputedBelow
<1> QED
  BY <1>1, <1>2, <1>3, <1>4, <1>5, <1>6, <1>7, <1>8, <1>9 DEF Next

LEMMA InitBelow ==
  ASSUME Init, NEW B
  PROVE  Below(B)
<1>1. ResolvedBy(B) \in SUBSET IndCalls
  BY DEF ResolvedBy, Callees
<1>2. graph.recursive[{}] \subseteq graph.recursive[ResolvedBy(B)]
  BY <1>1, RecursionAssumption DEF Init
<1>3. CallsBelow(B)
  BY <1>2 DEF Init, CallsBelow
<1> QED
  BY <1>3 DEF Init, Empty, Below, StackBelow

-----------------------------------------------------------------------------
(* Below every solution of the value-flow equations.                       *)

LEMMA OutOfBudgetGrows == [Next]_vars => outOfBudgetDpms \subseteq outOfBudgetDpms'
<1> SUFFICES ASSUME [Next]_vars
             PROVE  outOfBudgetDpms \subseteq outOfBudgetDpms'
  OBVIOUS
<1>1. ASSUME NEW frames, NEW d, NEW oob, NEW pts, ReturnTo(frames, d, oob, pts)
      PROVE  outOfBudgetDpms \subseteq outOfBudgetDpms'
  BY <1>1 DEF ReturnTo, Answer
<1>2. ASSUME NEW d, NEW frames, NEW visited, FindPT(d, frames, visited)
      PROVE  outOfBudgetDpms \subseteq outOfBudgetDpms'
  BY <1>1, <1>2 DEF FindPT
<1>3. ASSUME NEW f, Move(f)
      PROVE  outOfBudgetDpms \subseteq outOfBudgetDpms'
  BY <1>3 DEF Move
<1>4. CASE (\E v \in Candidates : Query(v)) \/ UNCHANGED vars
  BY <1>4 DEF Query, vars
<1>5. CASE \E d \in Dpms : Trace(d) \/ Redo(d)
  BY <1>2, <1>5 DEF Trace, Redo
<1>6. CASE HandleStatement \/ PointerFound \/ CallsRedone
  BY <1>3, <1>6 DEF HandleStatement, PointerFound, CallsRedone
<1>7. CASE (\E o \in Objs : TracePointee(o)) \/ \E e \in Top.edges : FollowEdge(e)
  BY <1>3, <1>7 DEF TracePointee, FollowEdge
<1>8. CASE Update \/ Recomputed
  BY <1>1, <1>8 DEF Update, Recomputed
<1> QED
  BY <1>4, <1>5, <1>6, <1>7, <1>8 DEF Next

LEMMA SolutionIsBound ==
  ASSUME NEW g, NEW S \in [Slots -> SUBSET Objs], Grown(g, S) = S
  PROVE  Bound(g, S)
<1> SUFFICES ASSUME NEW d \in Dpms
             PROVE  Value(g, S, d) \subseteq S[Slot(d)]
  BY DEF Bound
<1>1. Slot(d) \in Slots
  BY DpmTypes
<1>2. S[Slot(d)] = S[Slot(d)] \union UNION {Value(g, S, e) : e \in {x \in Dpms : Slot(x) = Slot(d)}}
  BY <1>1 DEF Grown
<1> QED
  BY <1>2

BelowBounds ==
    outOfBudgetDpms = {} =>
        \A B \in [Slots -> SUBSET Objs] : Bound(graph, B) => Below(B)

LEMMA BelowBoundsHolds == Spec => []BelowBounds
<1>1. Init => BelowBounds
  BY InitBelow DEF BelowBounds
<1>2. Typed /\ Typed' /\ BelowBounds /\ [Next]_vars => BelowBounds'
  <2> SUFFICES ASSUME Typed, Typed', BelowBounds, [Next]_vars, outOfBudgetDpms' = {},
                      NEW B \in [Slots -> SUBSET Objs], Bound(graph, B)'
               PROVE  Below(B)'
    BY DEF BelowBounds
  <2>1. graph' = graph
    BY DEF Next, vars, Query, Trace, Redo, HandleStatement, PointerFound, TracePointee, Update,
           FollowEdge, CallsRedone, Recomputed, Move
  <2>2. Bound(graph, B)
    BY <2>1
  <2>3. outOfBudgetDpms = {}
    BY OutOfBudgetGrows
  <2>4. Below(B) /\ Fallback(B)
    BY <2>2, <2>3 DEF BelowBounds, Fallback
  <2> QED
    BY <2>2, <2>4, StepBelow
<1> QED
  BY <1>1, <1>2, TypedHolds, PTL DEF Spec

(***************************************************************************)
(* Nothing is cached that some solution of the equations lacks, as long as *)
(* no query ran out of budget: strong updates made on partial results,     *)
(* calls joined on the way and recomputation included.  (updateCachedPoints*)
(* To, isStrongUpdate, reCompute)                                          *)
(***************************************************************************)
BelowSolutions ==
    outOfBudgetDpms = {} =>
        \A S \in [Slots -> SUBSET Objs] :
            Grown(graph, S) = S => \A s \in Slots : cached[s] \subseteq S[s]

THEOREM Precise == Spec => []BelowSolutions
<1>1. BelowBounds => BelowSolutions
  BY SolutionIsBound DEF BelowBounds, BelowSolutions, Below
<1> QED
  BY <1>1, BelowBoundsHolds, PTL

LEMMA LeastHolds == Spec => [](graph \in Graphs /\ least.now = Least(graph))
<1>1. Init => graph \in Graphs /\ least.now = Least(graph)
  BY DEF Init
<1>2. graph \in Graphs /\ least.now = Least(graph) /\ [Next]_vars
        => (graph \in Graphs /\ least.now = Least(graph))'
  <2> SUFFICES ASSUME graph \in Graphs, least.now = Least(graph), [Next]_vars
               PROVE  UNCHANGED <<graph, least>>
    OBVIOUS
  <2> QED
    BY DEF Next, vars, Query, Trace, Redo, HandleStatement, PointerFound, TracePointee, Update,
           FollowEdge, CallsRedone, Recomputed, Move
<1> QED
  BY <1>1, <1>2, PTL DEF Spec

-----------------------------------------------------------------------------
(* The least solution.                                                     *)

\* An iteration over a set that is left only where the step changes nothing is defined.
LEMMA RecursionExists ==
  ASSUME NEW D, NEW step \in [D -> D]
  PROVE  \E h : h = [S \in D |-> IF step[S] = S THEN S ELSE h[step[S]]]
<1> DEFINE Holds(C, S) == S \in C /\ \A U \in C : step[U] \in C
           Reached(S) == {T \in D : \A C \in SUBSET D : Holds(C, S) => T \in C}
           Ends(S) == {T \in Reached(S) : step[T] = T}
           End(S) == CHOOSE T : T \in Ends(S)
<1>1. ASSUME NEW S \in D, step[S] = S PROVE End(S) = S
  <2>1. Holds({S}, S) /\ {S} \in SUBSET D
    BY <1>1
  <2>2. Reached(S) = {S}
    BY <2>1
  <2>3. Ends(S) = {S}
    BY <1>1, <2>2
  <2> QED
    BY <2>3
<1>2. ASSUME NEW S \in D, step[S] # S PROVE End(S) = End(step[S])
  <2>1. step[S] \in D
    OBVIOUS
  <2>2. ASSUME NEW T \in Reached(step[S]) PROVE T \in Reached(S)
    BY <2>2
  <2>3. ASSUME NEW T \in Reached(S), T # S PROVE T \in Reached(step[S])
    <3> SUFFICES ASSUME NEW C \in SUBSET D, Holds(C, step[S])
                 PROVE  T \in C
      BY <2>3
    <3>1. Holds(C \union {S}, S) /\ C \union {S} \in SUBSET D
      OBVIOUS
    <3>2. T \in C \union {S}
      BY <3>1
    <3> QED
      BY <2>3, <3>2
  <2> HIDE DEF Reached
  <2>4. Ends(S) = Ends(step[S])
    BY <1>2, <2>2, <2>3
  <2> HIDE DEF Ends
  <2> QED
    BY <2>4
<1> HIDE DEF End
<1>3. PICK h : h = [S \in D |-> End(S)]
  OBVIOUS
<1>4. \A S \in D : h[S] = IF step[S] = S THEN S ELSE h[step[S]]
  BY <1>1, <1>2, <1>3
<1>5. h = [S \in D |-> IF step[S] = S THEN S ELSE h[step[S]]]
  BY <1>3, <1>4
<1> QED
  BY <1>5

\* It ends where the step changes nothing, and in any set of states the step does not leave.
LEMMA RecursionEnds ==
  ASSUME NEW D, NEW step \in [D -> D], NEW size \in [D -> Nat],
         \A S \in D : step[S] # S => size[step[S]] < size[S],
         NEW h, h = [S \in D |-> IF step[S] = S THEN S ELSE h[step[S]]],
         NEW C \in SUBSET D, \A S \in C : step[S] \in C,
         NEW x \in C
  PROVE  h[x] \in C /\ step[h[x]] = h[x]
<1> DEFINE Before == {p \in Nat \X Nat : p[1] < p[2]}
           Bad == {S \in C : ~ (h[S] \in C /\ step[h[S]] = h[S])}
           Sizes == {size[S] : S \in Bad}
<1> SUFFICES ASSUME x \in Bad PROVE FALSE
  OBVIOUS
<1>1. IsWellFoundedOn(Before, Nat)
  BY NatLessThanWellFounded DEF OpToRel
<1>2. Sizes \subseteq Nat /\ Sizes # {}
  <2>1. \A S \in Bad : size[S] \in Nat
    <3>1. \A S \in Bad : S \in D
      OBVIOUS
    <3> HIDE DEF Bad
    <3> QED
      BY <3>1
  <2>2. size[x] \in Sizes
    OBVIOUS
  <2> HIDE DEF Bad
  <2> QED
    BY <2>1, <2>2
<1>3. PICK m \in Sizes : \A n \in Sizes : ~ (<<n, m>> \in Before)
  <2> HIDE DEF Before, Sizes
  <2> QED
    BY <1>1, <1>2, WFMin
<1>4. PICK S \in Bad : size[S] = m
  OBVIOUS
<1>5. S \in D /\ step[S] \in C /\ step[S] \in D
  OBVIOUS
<1>6. h[S] = IF step[S] = S THEN S ELSE h[step[S]]
  BY <1>5
<1>7. step[S] # S
  BY <1>6
<1>8. size[step[S]] < m /\ size[step[S]] \in Nat /\ m \in Nat
  BY <1>4, <1>5, <1>7
<1>9. step[S] \notin Bad
  BY <1>3, <1>8
<1> QED
  BY <1>5, <1>6, <1>7, <1>9

Solutions == [Slots -> SUBSET Objs]

LEMMA SlotsFinite == IsFiniteSet(Slots)
<1>1. IsFiniteSet({Var(v) : v \in Vars})
  <2>1. IsFiniteSet({"top"} \X Vars)
    BY NodesAssumption, FS_Singleton, FS_Product
  <2>2. {Var(v) : v \in Vars} = {"top"} \X Vars
    BY DEF Var
  <2> QED
    BY <2>1, <2>2
<1>2. IsFiniteSet(SVFGNodes \ TopLevel)
  BY NodesAssumption, FS_Subset
<1>3. IsFiniteSet((SVFGNodes \ TopLevel) \X Objs)
  BY <1>2, NodesAssumption, FS_Product
<1> QED
  BY <1>1, <1>3, FS_Union DEF Slots

LEMMA ValueType ==
  ASSUME NEW g \in Graphs, NEW S \in Solutions, NEW d \in Dpms
  PROVE  Value(g, S, d) \subseteq Objs
<1>1. PICK n, calls : n = d[1] /\ n \in SVFGNodes /\ calls = ResolvedBy(S)
  BY DpmTypes
<1>2. calls \in SUBSET IndCalls
  BY <1>1 DEF ResolvedBy, Callees
<1>3. \A ps \in SUBSET Dpms : UNION {S[Slot(p)] : p \in ps} \subseteq Objs
  BY DpmTypes DEF Solutions
<1>4. UNION {S[Slot(p)] : p \in DirectPreds(g, calls, n)} \subseteq Objs
  BY <1>2, <1>3, DirectPredsTypes
<1>5. CASE n \in Scalars
  BY <1>1, <1>5, NodesAssumption DEF Value
<1>6. CASE Kind[n] = "addr"
  <2>1. n \notin Scalars /\ ObjAt[n] \in Objs
    BY <1>1, <1>6, NodesAssumption
  <2>2. Value(g, S, d) = {ObjAt[n]}
    BY <1>1, <1>6, <2>1 DEF Value
  <2> QED
    BY <2>1, <2>2
<1>7. CASE Kind[n] = "copy"
  <2>1. n \notin Scalars
    BY <1>1, <1>7, NodesAssumption
  <2>2. Value(g, S, d) = UNION {S[Slot(p)] : p \in DirectPreds(g, calls, n)}
    BY <1>1, <1>7, <2>1 DEF Value
  <2> QED
    BY <1>4, <2>2
<1>8. CASE Kind[n] = "gep"
  <2>1. n \notin Scalars /\ FieldAt[n] \in [Objs -> Objs]
    BY <1>1, <1>8, NodesAssumption
  <2>2. Value(g, S, d) = ProcessGepPts(n, UNION {S[Slot(p)] : p \in DirectPreds(g, calls, n)})
    BY <1>1, <1>8, <2>1 DEF Value
  <2> QED
    BY <1>4, <2>1, <2>2 DEF ProcessGepPts
<1>9. CASE Kind[n] = "mr"
  <2>1. n \notin Scalars /\ d[2] \in Objs
    BY <1>1, <1>9, NodesAssumption, NodeKind, DpmTypes
  <2>2. Value(g, S, d) = UNION {S[Slot(p)] : p \in IndirectPreds(g, calls, n, d[2])}
    BY <1>1, <1>9, <2>1 DEF Value
  <2> QED
    BY <1>2, <1>3, <2>1, <2>2, IndirectPredsTypes
<1>10. CASE n \notin Scalars /\ Kind[n] \in {"load", "store"}
  <2>1. PICK pts : pts = S[Var(PtrAt[n])] /\ pts \subseteq Objs
    BY <1>1, <1>10, NodesAssumption, DefDpmTypes DEF Solutions
  <2>2. Value(g, S, d) =
          UNION {S[Slot(p)] : p \in UNION {
              PointeePreds(g, calls, g.recursive[calls], d, pts, o) : o \in pts}}
    BY <1>1, <1>10, <2>1 DEF Value
  <2>3. \A o \in pts : PointeePreds(g, calls, g.recursive[calls], d, pts, o) \subseteq Dpms
    BY <1>1, <1>2, <1>10, <2>1, PointeePredsTypes
  <2> QED
    BY <1>3, <2>2, <2>3
<1> QED
  BY <1>1, <1>5, <1>6, <1>7, <1>8, <1>9, <1>10, NodeKind

LEMMA GrownType ==
  ASSUME NEW g \in Graphs, NEW S \in Solutions
  PROVE  Grown(g, S) \in Solutions
<1>1. ASSUME NEW s \in Slots
      PROVE  S[s] \union UNION {Value(g, S, d) : d \in {e \in Dpms : Slot(e) = s}} \in SUBSET Objs
  BY ValueType DEF Solutions
<1> QED
  BY <1>1 DEF Grown, Solutions

\* A step that changes something adds a fact: there are finitely many.
LEMMA GrownSmaller ==
  ASSUME NEW g \in Graphs
  PROVE  \E size \in [Solutions -> Nat] :
            \A S \in Solutions : Grown(g, S) # S => size[Grown(g, S)] < size[S]
<1> DEFINE All == Slots \X Objs
           Missing(S) == {p \in All : p[2] \notin S[p[1]]}
<1>1. IsFiniteSet(All)
  BY SlotsFinite, NodesAssumption, FS_Product
<1>2. \A S : IsFiniteSet(Missing(S)) /\ Cardinality(Missing(S)) \in Nat
  BY <1>1, FS_Subset, FS_CardinalityType
<1>3. PICK size : size = [S \in Solutions |-> Cardinality(Missing(S))]
  OBVIOUS
<1>4. size \in [Solutions -> Nat]
  BY <1>2, <1>3
<1>5. ASSUME NEW S \in Solutions, Grown(g, S) # S
      PROVE  size[Grown(g, S)] < size[S]
  <2>1. PICK G \in Solutions : G = Grown(g, S)
    BY GrownType
  <2>2. \A s \in Slots : S[s] \subseteq G[s]
    BY <2>1 DEF Grown
  <2>3. PICK s \in Slots : G[s] # S[s]
    BY <1>5, <2>1 DEF Solutions
  <2>4. PICK o \in Objs : o \in G[s] /\ o \notin S[s]
    BY <2>1, <2>2, <2>3 DEF Solutions
  <2>5. <<s, o>> \in Missing(S) /\ <<s, o>> \notin Missing(G)
    BY <2>4
  <2>6. Missing(G) \in SUBSET Missing(S) /\ Missing(G) # Missing(S)
    BY <2>2, <2>5
  <2> HIDE DEF Missing
  <2>7. Cardinality(Missing(G)) <= Cardinality(Missing(S))
        /\ Cardinality(Missing(G)) # Cardinality(Missing(S))
    BY <1>2, <2>6, FS_Subset
  <2>8. size[G] = Cardinality(Missing(G)) /\ size[S] = Cardinality(Missing(S))
    BY <1>3
  <2> QED
    BY <1>2, <2>1, <2>7, <2>8
<1> QED
  BY <1>4, <1>5

(***************************************************************************)
(* The equations grow with what they are given, so that what is below a    *)
(* solution stays below it: a load or store may be updated strongly with   *)
(* fewer pointees, never weakly only with fewer.                           *)
(***************************************************************************)
LEMMA GrownBelow ==
  ASSUME NEW g \in Graphs, NEW S \in Solutions, NEW T \in Solutions, Grown(g, T) = T,
         \A s \in Slots : S[s] \subseteq T[s]
  PROVE  \A s \in Slots : Grown(g, S)[s] \subseteq T[s]
<1>1. Bound(g, T)
  BY SolutionIsBound DEF Solutions
<1>2. ResolvedBy(S) \subseteq ResolvedBy(T)
  <2>1. \A v \in Vars : S[Var(v)] \subseteq T[Var(v)]
    BY DefDpmTypes
  <2> QED
    BY <2>1 DEF ResolvedBy, Callees
<1>3. ResolvedBy(S) \in SUBSET ResolvedBy(T) /\ ResolvedBy(S) \in SUBSET IndCalls
  BY <1>2 DEF ResolvedBy, Callees
<1>4. \A ps \in SUBSET Dpms : \A p \in ps : S[Slot(p)] \subseteq T[Slot(p)]
  BY DpmTypes
<1>5. ASSUME NEW d \in Dpms PROVE Value(g, S, d) \subseteq T[Slot(d)]
  <2>1. PICK n, calls : n = d[1] /\ n \in SVFGNodes /\ calls = ResolvedBy(S)
    BY DpmTypes
  <2>2. DirectPreds(g, calls, n) \subseteq Dpms
    BY <1>3, <2>1, DirectPredsTypes
  <2>3. CASE n \in Scalars
    BY <2>1, <2>3, NodesAssumption DEF Value
  <2>4. CASE Kind[n] = "addr"
    <3>1. n \notin Scalars
      BY <2>1, <2>4, NodesAssumption
    <3>2. Value(g, S, d) = {ObjAt[n]}
      BY <2>1, <2>4, <3>1 DEF Value
    <3> QED
      BY <1>1, <2>1, <2>4, <3>2, AddrBound
  <2>5. CASE Kind[n] = "copy"
    <3>1. n \notin Scalars
      BY <2>1, <2>5, NodesAssumption
    <3>2. Value(g, S, d) = UNION {S[Slot(p)] : p \in DirectPreds(g, calls, n)}
      BY <2>1, <2>5, <3>1 DEF Value
    <3>3. \A p \in DirectPreds(g, calls, n) : T[Slot(p)] \subseteq T[Slot(d)]
      BY <1>1, <1>3, <2>1, <2>5, DirectBound DEF Result
    <3> QED
      BY <1>4, <2>2, <3>2, <3>3
  <2>6. CASE Kind[n] = "gep"
    <3>1. n \notin Scalars
      BY <2>1, <2>6, NodesAssumption
    <3>2. Value(g, S, d) = ProcessGepPts(n, UNION {S[Slot(p)] : p \in DirectPreds(g, calls, n)})
      BY <2>1, <2>6, <3>1 DEF Value
    <3>3. \A p \in DirectPreds(g, calls, n) : ProcessGepPts(n, T[Slot(p)]) \subseteq T[Slot(d)]
      BY <1>1, <1>3, <2>1, <2>6, DirectBound DEF Result, ProcessGepPts
    <3> QED
      BY <1>4, <2>2, <3>2, <3>3 DEF ProcessGepPts
  <2>7. CASE Kind[n] = "mr"
    <3>1. n \notin Scalars /\ d[2] \in Objs
      BY <2>1, <2>7, NodesAssumption, NodeKind, DpmTypes
    <3>2. Value(g, S, d) = UNION {S[Slot(p)] : p \in IndirectPreds(g, calls, n, d[2])}
      BY <2>1, <2>7, <3>1 DEF Value
    <3>3. \A p \in IndirectPreds(g, calls, n, d[2]) : T[Slot(p)] \subseteq T[Slot(d)]
      BY <1>1, <1>3, <2>1, <2>7, RegionBound
    <3>4. IndirectPreds(g, calls, n, d[2]) \subseteq Dpms
      BY <1>3, <2>1, <3>1, IndirectPredsTypes
    <3> QED
      BY <1>4, <3>2, <3>3, <3>4
  <2>8. CASE n \notin Scalars /\ Kind[n] \in {"load", "store"}
    <3>1. PICK pts : pts = S[Var(PtrAt[n])] /\ pts \subseteq Objs /\ pts \in SUBSET T[Var(PtrAt[n])]
      BY <2>1, <2>8, NodesAssumption, DefDpmTypes DEF Solutions
    <3>2. Value(g, S, d) =
            UNION {S[Slot(p)] : p \in UNION {
                PointeePreds(g, calls, g.recursive[calls], d, pts, o) : o \in pts}}
      BY <2>1, <2>8, <3>1 DEF Value
    <3>3. \A o \in pts : PointeePreds(g, calls, g.recursive[calls], d, pts, o) \subseteq Dpms
      BY <1>3, <2>1, <2>8, <3>1, PointeePredsTypes
    <3>4. \A o \in pts : \A p \in PointeePreds(g, calls, g.recursive[calls], d, pts, o) :
             T[Slot(p)] \subseteq T[Slot(d)]
      <4>1. Dereferences(d[1]) /\ pts \in SUBSET T[Var(PtrAt[d[1]])] /\ calls \in SUBSET ResolvedBy(T)
        BY <1>3, <2>1, <2>8, <3>1 DEF Dereferences
      <4>2. g.recursive[calls] \in SUBSET g.recursive[ResolvedBy(T)]
        BY <1>3, <2>1, RecursionAssumption DEF ResolvedBy, Callees
      <4> QED
        BY <1>1, <4>1, <4>2, PointeeBound
    <3> QED
      BY <1>4, <3>2, <3>3, <3>4
  <2> QED
    BY <2>1, <2>3, <2>4, <2>5, <2>6, <2>7, <2>8, NodeKind
<1> SUFFICES ASSUME NEW s \in Slots PROVE Grown(g, S)[s] \subseteq T[s]
  OBVIOUS
<1>6. Grown(g, S)[s] = S[s] \union UNION {Value(g, S, d) : d \in {e \in Dpms : Slot(e) = s}}
  BY DEF Grown
<1> QED
  BY <1>5, <1>6

\* The iteration ends in a solution, and no solution is below it.
LEMMA LeastSolution ==
  ASSUME NEW g \in Graphs
  PROVE  /\ Least(g) \in Solutions /\ Grown(g, Least(g)) = Least(g)
         /\ \A T \in Solutions :
               Grown(g, T) = T => \A s \in Slots : Least(g)[s] \subseteq T[s]
<1>1. PICK D : D = Solutions
  OBVIOUS
<1>2. PICK step : step = [S \in D |-> Grown(g, S)]
  OBVIOUS
<1>3. step \in [D -> D]
  BY <1>1, <1>2, GrownType
<1>4. PICK size \in [D -> Nat] : \A S \in D : step[S] # S => size[step[S]] < size[S]
  BY <1>1, <1>2, <1>3, GrownSmaller
<1> DEFINE Lfp(h) == [S \in D |-> IF Grown(g, S) = S THEN S ELSE h[Grown(g, S)]]
           Rec(h) == [S \in D |-> IF step[S] = S THEN S ELSE h[step[S]]]
<1>5. Least(g) = (CHOOSE h : h = Lfp(h))[Empty]
  BY <1>1 DEF Least, Solutions
<1>6. \A h : Lfp(h) = Rec(h)
  BY <1>2
<1>7. \E h : h = Rec(h)
  BY <1>3, RecursionExists
<1>8. PICK h : h = Rec(h) /\ Least(g) = h[Empty]
  <2> HIDE DEF Lfp, Rec
  <2> QED
    BY <1>5, <1>6, <1>7
<1>9. Empty \in D
  BY <1>1 DEF Empty, Solutions
<1>10. ASSUME NEW C \in SUBSET D, \A S \in C : step[S] \in C, Empty \in C
       PROVE  h[Empty] \in C /\ step[h[Empty]] = h[Empty]
  BY <1>3, <1>4, <1>8, <1>10, RecursionEnds
<1>11. Least(g) \in Solutions /\ Grown(g, Least(g)) = Least(g)
  BY <1>1, <1>2, <1>3, <1>8, <1>9, <1>10
<1>12. ASSUME NEW T \in Solutions, Grown(g, T) = T
       PROVE  \A s \in Slots : Least(g)[s] \subseteq T[s]
  <2> DEFINE C == {S \in D : \A s \in Slots : S[s] \subseteq T[s]}
  <2>1. \A S \in C : step[S] \in C
    BY <1>1, <1>2, <1>3, <1>12, GrownBelow
  <2>2. Empty \in C
    BY <1>9 DEF Empty
  <2>3. h[Empty] \in C
    <3> HIDE DEF C
    <3>1. C \in SUBSET D
      BY DEF C
    <3> QED
      BY <1>10, <2>1, <2>2, <3>1
  <2> QED
    BY <1>8, <2>3
<1> QED
  BY <1>11, <1>12

(***************************************************************************)
(* In particular the answers are not above the least solution.             *)
(* (updateCachedPointsTo)                                                  *)
(***************************************************************************)
THEOREM Exact == Spec => []AnswerExact
<1>1. BelowSolutions /\ graph \in Graphs /\ least.now = Least(graph) => AnswerExact
  BY LeastSolution DEF BelowSolutions, AnswerExact, Solutions
<1> QED
  BY <1>1, Precise, LeastHolds, PTL

-----------------------------------------------------------------------------
(* Below the pre-analysis.                                                 *)

AnderBound(g) == [s \in Slots |-> g.ander[s[2]]]

\* The pre-analysis closes every statement, with one value for each object.
LEMMA AnderIsBound ==
  ASSUME NEW g \in Graphs
  PROVE  Bound(g, AnderBound(g))
<1>1. PICK A, B : A = g.ander /\ B = AnderBound(g)
  OBVIOUS
<1>2. A \in [Vars \union Objs -> SUBSET Objs]
  BY <1>1, AnderTypes
<1>3. \A s \in Slots : s[2] \in Vars \union Objs
  BY DEF Slots, Var
<1>4. B \in [Slots -> SUBSET Objs] /\ \A s \in Slots : B[s] = A[s[2]]
  BY <1>1, <1>2, <1>3 DEF AnderBound
<1>5. \A d \in Dpms : B[Slot(d)] = A[d[2]]
  BY <1>4, DpmTypes DEF Slot, Var
<1>6. \A v \in Vars : B[Var(v)] = A[v]
  BY <1>4, DefDpmTypes DEF Var
<1>7. PICK calls : calls = ResolvedBy(B)
  OBVIOUS
<1>8. calls = UNION {Callees(A[v], v) : v \in Vars} /\ calls \subseteq IndCalls
  BY <1>6, <1>7 DEF ResolvedBy, Callees
<1>9. /\ \A e \in DirectEdges(g, calls) :
           /\ Kind[e[2]] = "copy" => A[Lhs[e[1]]] \subseteq A[Lhs[e[2]]]
           /\ Kind[e[2]] = "gep" => \A o \in A[Lhs[e[1]]] : FieldAt[e[2]][o] \in A[Lhs[e[2]]]
      /\ \A n \in SVFGNodes \ Scalars :
           /\ Kind[n] = "addr" => ObjAt[n] \in A[Lhs[n]]
           /\ Kind[n] = "load" => \A o \in A[PtrAt[n]] : A[o] \subseteq A[Lhs[n]]
           /\ Kind[n] = "store" => \A o \in A[PtrAt[n]] : A[SrcAt[n]] \subseteq A[o]
  BY <1>1, <1>8, AnderAssumption DEF PreAnalysis
<1> SUFFICES ASSUME NEW d \in Dpms
             PROVE  Value(g, B, d) \subseteq A[d[2]]
  BY <1>1, <1>4, <1>5 DEF Bound
<1>10. PICK n : n = d[1] /\ n \in SVFGNodes
  BY DpmTypes
<1>11. ASSUME NEW o \in Objs, NEW p \in IndirectPreds(g, calls, n, o)
       PROVE  B[Slot(p)] = A[o]
  BY <1>5, <1>8, <1>11, IndirectPredsTypes
<1>12. ASSUME NEW p \in DirectPreds(g, calls, n)
       PROVE  \E e \in DirectEdges(g, calls) : e[2] = n /\ B[Slot(p)] = A[Lhs[e[1]]]
  <2>1. PICK e \in DirectEdges(g, calls) : e[2] = n /\ p = <<e[1], Lhs[e[1]]>>
    BY <1>12 DEF DirectPreds
  <2>2. p \in Dpms
    BY <1>8, <1>12, DirectPredsTypes
  <2> QED
    BY <1>5, <2>1, <2>2
<1>13. CASE n \in Scalars
  BY <1>10, <1>13, NodesAssumption DEF Value
<1>14. CASE Kind[n] = "addr"
  <2>1. d[2] = Lhs[n] /\ n \notin Scalars
    BY <1>10, <1>14, DpmTypes, NodeKind, NodesAssumption
  <2>2. Value(g, B, d) = {ObjAt[n]}
    BY <1>10, <1>14, <2>1 DEF Value
  <2> QED
    BY <1>9, <1>10, <1>14, <2>1, <2>2
<1>15. CASE Kind[n] = "copy"
  <2>1. d[2] = Lhs[n] /\ n \notin Scalars
    BY <1>10, <1>15, DpmTypes, NodeKind, NodesAssumption
  <2>2. Value(g, B, d) = UNION {B[Slot(p)] : p \in DirectPreds(g, calls, n)}
    BY <1>7, <1>10, <1>15, <2>1 DEF Value
  <2> QED
    BY <1>9, <1>12, <1>15, <2>1, <2>2
<1>16. CASE Kind[n] = "gep"
  <2>1. d[2] = Lhs[n] /\ n \notin Scalars
    BY <1>10, <1>16, DpmTypes, NodeKind, NodesAssumption
  <2>2. Value(g, B, d) = ProcessGepPts(n, UNION {B[Slot(p)] : p \in DirectPreds(g, calls, n)})
    BY <1>7, <1>10, <1>16, <2>1 DEF Value
  <2> SUFFICES ASSUME NEW p \in DirectPreds(g, calls, n), NEW o \in B[Slot(p)]
               PROVE  FieldAt[n][o] \in A[Lhs[n]]
    BY <2>1, <2>2 DEF ProcessGepPts
  <2> QED
    BY <1>9, <1>12, <1>16
<1>17. CASE Kind[n] = "mr"
  <2>1. d[2] \in Objs /\ n \notin Scalars
    BY <1>10, <1>17, DpmTypes, NodeKind, NodesAssumption
  <2>2. Value(g, B, d) = UNION {B[Slot(p)] : p \in IndirectPreds(g, calls, n, d[2])}
    BY <1>7, <1>10, <1>17, <2>1 DEF Value
  <2> QED
    BY <1>11, <2>1, <2>2
<1>18. CASE Dereferences(n)
  <2>1. PICK all : all = A[PtrAt[n]] /\ all \subseteq Objs /\ all = B[Var(PtrAt[n])]
    BY <1>2, <1>6, <1>10, <1>18, NodesAssumption DEF Dereferences
  <2>2. Value(g, B, d) =
          UNION {B[Slot(p)] : p \in UNION {
              PointeePreds(g, calls, g.recursive[calls], d, all, o) : o \in all}}
    BY <1>7, <1>10, <1>18, <2>1 DEF Value, Dereferences
  <2> SUFFICES ASSUME NEW o \in all,
                      NEW p \in PointeePreds(g, calls, g.recursive[calls], d, all, o)
               PROVE  B[Slot(p)] \subseteq A[d[2]]
    BY <2>2
  <2>3. CASE Kind[n] = "load"
    <3>1. d[2] = Lhs[n] /\ p \in IndirectPreds(g, calls, n, o)
      BY <1>10, <2>3, DpmTypes, NodeKind DEF PointeePreds
    <3>2. B[Slot(p)] = A[o]
      BY <1>11, <2>1, <3>1
    <3> QED
      BY <1>9, <1>10, <1>18, <2>1, <2>3, <3>1, <3>2 DEF Dereferences
  <2>4. CASE Kind[n] = "store"
    <3>1. d[2] \in Objs
      BY <1>10, <2>4, DpmTypes, NodeKind
    <3>2. CASE p \in IndirectPreds(g, calls, n, d[2])
      BY <1>11, <3>1, <3>2
    <3>3. CASE o = d[2] /\ p = DefDpm(SrcAt[n])
      <4>1. SrcAt[n] \in Vars
        BY <1>10, <2>4, NodesAssumption
      <4>2. B[Slot(p)] = A[SrcAt[n]]
        BY <1>6, <3>3, <4>1, DefDpmTypes
      <4> QED
        BY <1>9, <1>10, <1>18, <2>1, <2>4, <3>3, <4>2 DEF Dereferences
    <3> QED
      BY <1>10, <2>4, <3>2, <3>3 DEF PointeePreds
  <2> QED
    BY <1>18, <2>3, <2>4 DEF Dereferences
<1> QED
  BY <1>10, <1>13, <1>14, <1>15, <1>16, <1>17, <1>18, NodeKind DEF Dereferences

BelowAnder == graph \in Graphs /\ Below(AnderBound(graph))

LEMMA BelowAnderHolds == Spec => []BelowAnder
<1>1. Init => BelowAnder
  BY InitBelow DEF BelowAnder, Init
<1>2. Typed /\ Typed' /\ BelowAnder /\ [Next]_vars => BelowAnder'
  <2> SUFFICES ASSUME Typed, Typed', BelowAnder, [Next]_vars
               PROVE  BelowAnder'
    OBVIOUS
  <2>1. graph' = graph
    BY DEF Next, vars, Query, Trace, Redo, HandleStatement, PointerFound, TracePointee, Update,
           FollowEdge, CallsRedone, Recomputed, Move
  <2>2. PICK B : B = AnderBound(graph)
    OBVIOUS
  <2>3. Bound(graph, B) /\ Below(B)
    BY <2>2, AnderIsBound DEF BelowAnder
  <2>4. \A v \in Vars : B[Var(v)] = graph.ander[v]
    BY <2>2, DefDpmTypes DEF AnderBound, Var
  <2>5. Below(B)'
    BY <2>3, <2>4, StepBelow DEF Fallback
  <2>6. B = AnderBound(graph')
    BY <2>1, <2>2
  <2>7. Below(AnderBound(graph))'
    BY <2>5, <2>6
  <2> QED
    BY <2>1, <2>7 DEF BelowAnder
<1> QED
  BY <1>1, <1>2, TypedHolds, PTL DEF Spec

(***************************************************************************)
(* No query gives a variable or an object more than the pre-analysis has,  *)
(* whether it is answered within budget or not.  (handleOutOfBudgetDpm,    *)
(* updateCachedPointsTo)                                                   *)
(***************************************************************************)
THEOREM BelowPreAnalysis == Spec => []NeverWorse
<1>1. BelowAnder => NeverWorse
  BY DEF BelowAnder, Below, AnderBound, NeverWorse
<1> QED
  BY <1>1, BelowAnderHolds, PTL

-----------------------------------------------------------------------------
(* Marks.                                                                  *)

(***************************************************************************)
(* A recorded dpm keeps its mark, also through the clearing and marking    *)
(* again of a recomputation.  (clearbkVisited, resetQuery)                 *)
(***************************************************************************)
THEOREM MarkFound == Spec => []ClearFindsMark
<1>1. Init => ClearFindsMark
  BY DEF Init, ClearFindsMark
<1>2. ClearFindsMark /\ [Next]_vars => ClearFindsMark'
  <2> SUFFICES ASSUME ClearFindsMark, [Next]_vars
               PROVE  ClearFindsMark'
    OBVIOUS
  <2>1. ASSUME NEW d, NEW frames, FindPT(d, frames, backwardVisited)
        PROVE  ClearFindsMark'
    BY <2>1 DEF FindPT, ClearFindsMark
  <2>2. ASSUME NEW d, NEW frames, FindPT(d, frames, backwardVisited \ {d})
        PROVE  ClearFindsMark'
    BY <2>2 DEF FindPT, ClearFindsMark
  <2>3. CASE \E v \in Candidates : Query(v)
    BY <2>3 DEF Query, ClearFindsMark, RecordedAtReset
  <2>4. CASE \E d \in Dpms : Trace(d) \/ Redo(d)
    BY <2>1, <2>2, <2>4 DEF Trace, Redo
  <2>5. CASE UNCHANGED <<backwardVisited, recorded>>
    BY <2>5 DEF ClearFindsMark
  <2>6. HandleStatement \/ PointerFound \/ Update \/ CallsRedone \/ Recomputed
          \/ (\E o \in Objs : TracePointee(o)) \/ (\E e \in Top.edges : FollowEdge(e))
          \/ UNCHANGED vars => UNCHANGED <<backwardVisited, recorded>>
    BY DEF HandleStatement, PointerFound, Update, CallsRedone, Recomputed, TracePointee,
           FollowEdge, Move, vars
  <2> QED
    BY <2>3, <2>4, <2>5, <2>6 DEF Next
<1> QED
  BY <1>1, <1>2, PTL DEF Spec
=============================================================================
