------------------------------ MODULE DDAVFSolver ------------------------------
(***************************************************************************)
(* The demand-driven, flow-sensitive points-to analysis (FlowDDA over the  *)
(* template DDAVFSolver).  A query walks the sparse value-flow graph       *)
(* backwards by the recursion findPT, with its results cached; a value     *)
(* that grows is pushed forward again to the statements visited by the     *)
(* same query, and a query over budget falls back to the pre-analysis.     *)
(*                                                                         *)
(* A dpm <<n, x>> asks for x at graph node n: the variable n defines, or   *)
(* the object x behind n when n is a store or a memory region node.        *)
(***************************************************************************)
EXTENDS Naturals, FiniteSets, Sequences, SequencesExt

CONSTANTS
    SVFGNodes, Vars, Objs,
    Kind,        \* node -> addr, copy (phis, parameters, returns), gep, load, store, mr
    Lhs,         \* getLHSTopLevPtr, of the nodes of top-level pointers
    Def,         \* getDefSVFGNode
    ObjAt,       \* addr node -> its object, as handleAddr adds it
    FieldAt,     \* gep node -> [Objs -> Objs], processGepPts of one object
    PtrAt,       \* load or store node -> the variable dereferenced
    SrcAt,       \* store node -> the variable stored
    FunPtrsAt,   \* node -> the function pointers resolveFunPtr looks up there
    Scalars,     \* loads and stores whose value is no pointer
    ConstObjs,   \* isConstantObj
    Singletons,  \* no heap object, array or field-insensitive object
    IndCalls,    \* [fptr, callee, direct, indirect]: the edges that join site and callee
    Graphs,      \* [direct, indirect, ander, recursive]: the edges of the value-flow graph
                 \* without IndCalls; the pre-analysis, [Vars \union Objs -> SUBSET Objs];
                 \* and, [SUBSET IndCalls -> SUBSET Objs], the locals of the functions
                 \* in a cycle of the call graph that has these calls
    Candidates,  \* the variables the client asks for
    Budgets      \* the values of the step budget

TopLevel == {n \in SVFGNodes : Kind[n] \notin {"store", "mr"}}

\* Where a result is cached: by variable at top level, by dpm behind memory.
Var(v) == <<"top", v>>
Slot(d) == IF d[1] \in TopLevel THEN Var(d[2]) ELSE d
Slots == {Var(v) : v \in Vars} \union ((SVFGNodes \ TopLevel) \X Objs)
Dpms == {<<n, Lhs[n]>> : n \in TopLevel} \union ((SVFGNodes \ TopLevel) \X Objs)
DefDpm(v) == <<Def[v], v>>

Empty == [s \in Slots |-> {}]
NoVar == "none"

-----------------------------------------------------------------------------
(* The graph: edges are <<src, dst>>, and <<src, dst, guard>> if indirect. *)

DirectEdges(g, calls) == g.direct \union UNION {c.direct : c \in calls}
IndirectEdges(g, calls) == g.indirect \union UNION {c.indirect : c \in calls}

\* The dpms backtraceAlongDirectVF and backtraceAlongIndirectVF go to.
DirectPreds(g, calls, n) ==
    {<<e[1], Lhs[e[1]]>> : e \in {f \in DirectEdges(g, calls) : f[2] = n}}

IndirectPreds(g, calls, n, o) ==
    IF o \in ConstObjs THEN {}
    ELSE {<<e[1], o>> : e \in {f \in IndirectEdges(g, calls) : f[2] = n /\ o \in f[3]}}

\* isStrongUpdate, with the locals that isLocalCVarInRecursion finds in a recursion.
StrongUpdate(pts, locals) == Cardinality(pts) = 1 /\ pts \subseteq Singletons \ locals

\* What one pointee o of a load or a store makes the traversal of d visit.
PointeePreds(g, calls, locals, d, pts, o) ==
    LET n == d[1] IN
    IF Kind[n] = "load" THEN IndirectPreds(g, calls, n, o)
    ELSE IF o # d[2] THEN IndirectPreds(g, calls, n, d[2])
    ELSE {DefDpm(SrcAt[n])}
         \union (IF StrongUpdate(pts, locals) THEN {} ELSE IndirectPreds(g, calls, n, o))

\* Mutant of ProcessGepPts: the field is not taken.
ProcessGepPtsBase(n, pts) == pts

ProcessGepPts(n, pts) == {FieldAt[n][o] : o \in pts}

Callees(pts, v) == {c \in IndCalls : c.fptr = v /\ c.callee \in pts}

(***************************************************************************)
(* The pre-analysis is flow-insensitive: it closes every statement without *)
(* regard to order, one set for each memory object, and has the indirect   *)
(* calls its own result resolves.                                          *)
(***************************************************************************)
PreAnalysis(g) ==
    LET A == g.ander
        calls == UNION {Callees(A[v], v) : v \in Vars}
    IN  /\ A \in [Vars \union Objs -> SUBSET Objs]
        /\ \A e \in DirectEdges(g, calls) :
              /\ Kind[e[2]] = "copy" => A[Lhs[e[1]]] \subseteq A[Lhs[e[2]]]
              /\ Kind[e[2]] = "gep" =>
                     \A o \in A[Lhs[e[1]]] : FieldAt[e[2]][o] \in A[Lhs[e[2]]]
        /\ \A n \in SVFGNodes \ Scalars :
              /\ Kind[n] = "addr" => ObjAt[n] \in A[Lhs[n]]
              /\ Kind[n] = "load" => \A o \in A[PtrAt[n]] : A[o] \subseteq A[Lhs[n]]
              /\ Kind[n] = "store" => \A o \in A[PtrAt[n]] : A[SrcAt[n]] \subseteq A[o]

ASSUME AnderAssumption == \A g \in Graphs : PreAnalysis(g)
ASSUME BudgetAssumption == Budgets \subseteq Nat \ {0}
ASSUME DefAssumption ==
    /\ Def \in [Vars -> TopLevel]
    /\ Lhs \in [TopLevel -> Vars]
    /\ \A v \in Vars : Lhs[Def[v]] = v

(***************************************************************************)
(* Variables and objects are told apart by their node ids.  Top-level      *)
(* pointers flow along direct edges, objects along indirect ones, between  *)
(* stores and memory regions and from there to loads.                      *)
(***************************************************************************)
ASSUME NodesAssumption ==
    /\ Kind \in [SVFGNodes -> {"addr", "copy", "gep", "load", "store", "mr"}]
    /\ Scalars \subseteq {n \in SVFGNodes : Kind[n] \in {"load", "store"}}
    /\ IsFiniteSet(SVFGNodes) /\ IsFiniteSet(Vars) /\ IsFiniteSet(Objs)
    /\ Vars \intersect Objs = {} /\ Candidates \subseteq Vars
    /\ \A n \in SVFGNodes :
          /\ Kind[n] = "addr" => ObjAt[n] \in Objs
          /\ Kind[n] = "gep" => FieldAt[n] \in [Objs -> Objs]
          /\ Kind[n] \in {"load", "store"} => PtrAt[n] \in Vars
          /\ Kind[n] = "store" => SrcAt[n] \in Vars
          /\ FunPtrsAt[n] \subseteq Vars
ASSUME EdgesAssumption ==
    /\ \A c \in IndCalls : c.fptr \in Vars
    /\ \A g \in Graphs \union IndCalls :
          /\ \A e \in g.direct : e[1] \in TopLevel
          /\ \A e \in g.indirect : e[1] \in SVFGNodes \ TopLevel

\* A call that joins the graph may close a cycle of it and opens none.
ASSUME RecursionAssumption ==
    \A g \in Graphs :
        /\ g.recursive \in [SUBSET IndCalls -> SUBSET Objs]
        /\ \A C, D \in SUBSET IndCalls : C \subseteq D => g.recursive[C] \subseteq g.recursive[D]

-----------------------------------------------------------------------------
(***************************************************************************)
(* What a query should answer: the least solution of the value-flow        *)
(* equations, with the indirect calls the solution itself resolves.        *)
(***************************************************************************)
ResolvedBy(S) == UNION {Callees(S[Var(v)], v) : v \in Vars}

Value(g, S, d) ==
    LET n == d[1]
        calls == ResolvedBy(S)
        All(preds) == UNION {S[Slot(p)] : p \in preds}
        Through(pts) ==
            All(UNION {PointeePreds(g, calls, g.recursive[calls], d, pts, o) : o \in pts})
    IN  CASE n \in Scalars -> {}
          [] Kind[n] = "addr" -> {ObjAt[n]}
          [] Kind[n] = "copy" -> All(DirectPreds(g, calls, n))
          [] Kind[n] = "gep" -> ProcessGepPts(n, All(DirectPreds(g, calls, n)))
          [] Kind[n] = "mr" -> All(IndirectPreds(g, calls, n, d[2]))
          [] OTHER -> Through(S[Var(PtrAt[n])])

Grown(g, S) ==
    [s \in Slots |-> S[s] \union UNION {Value(g, S, d) : d \in {e \in Dpms : Slot(e) = s}}]

Least(g) ==
    LET lfp[S \in [Slots -> SUBSET Objs]] == IF Grown(g, S) = S THEN S ELSE lfp[Grown(g, S)]
    IN  lfp[Empty]

\* g, were the recursions of its call graph those it has before any indirect call joins.
RecursionAtStart(g) ==
    [g EXCEPT !.recursive = [calls \in SUBSET IndCalls |-> g.recursive[{}]]]

-----------------------------------------------------------------------------
VARIABLES
    graph,
    least,              \* history: the least solution for graph, "now", and "atStart"
                        \* for RecursionAtStart(graph)
    budget,
    query,              \* the variable being asked for, or NoVar
    asked,              \* the variables answered
    cached,             \* dpmToTLCPtSetMap (by variable) and dpmToADCPtSetMap
    backwardVisited,
    recorded,           \* locToDpmSetMap: the dpms this query visited
    steps,              \* _NumOfStep
    outOfBudgetQuery,
    outOfBudgetDpms,
    connected,          \* the indirect calls joined to the graph
    inRecursion,        \* the locals _callGraphSCC last found in a recursion
    stack               \* the activations of findPT

vars == <<graph, least, budget, query, asked, cached, backwardVisited, recorded, steps,
          outOfBudgetQuery, outOfBudgetDpms, connected, inRecursion, stack>>

(***************************************************************************)
(* An activation: resolving function pointers ("fun"), tracing the pointer *)
(* of a load or store ("ptr") or the values that flow in ("flow"), then    *)
(* recomputing along new call edges ("calls") and out-edges ("redo").      *)
(* todo are the calls of findPT the stage still makes; acc is pts.         *)
(***************************************************************************)
Stages == {"fun", "ptr", "flow", "calls", "redo"}
Frame(d) ==
    [dpm |-> d, stage |-> "fun", todo |-> {DefDpm(f) : f \in FunPtrsAt[d[1]]},
     acc |-> {}, pts |-> {}, pointees |-> {}, edges |-> {}]

Top == Last(stack)
WithTop(f) == Front(stack) \o <<f>>

\* The value of a findPT handed to the activation that called it.
Deliver(frames, pts) ==
    IF frames # <<>> /\ Last(frames).stage \in {"ptr", "flow"}
    THEN Front(frames) \o <<[Last(frames) EXCEPT !.acc = @ \union pts]>>
    ELSE frames

\* Mutant of NewCalls: the calls the pre-analysis has are joined, reached or not.
NewCallsAny(pts, v) == {c \in IndCalls : c.fptr = v} \ connected

NewCalls(pts, v) == Callees(pts, v) \ connected

\* The edges that join these calls to the graph.
EdgesOf(calls) == UNION {c.direct \union c.indirect : c \in calls}

\* reCompute: new calls are joined, and if they bring edges, the cycles found again.
Connect(calls) ==
    /\ connected' = connected \union calls
    /\ inRecursion' = IF EdgesOf(calls) = {} THEN inRecursion
                      ELSE graph.recursive[connected']

(***************************************************************************)
(* The end of computeDDAPts: handleOutOfBudgetDpm gives the variable the   *)
(* result of the pre-analysis.  The recomputation it starts finds every    *)
(* dpm over budget and leaves it as it is.                                 *)
(***************************************************************************)
Answer(oob, pts) ==
    /\ query' = NoVar
    /\ asked' = asked \union {query}
    /\ IF oob
       THEN LET v == query
                known == pts[Var(v)] \union graph.ander[v]
            IN  /\ cached' = [pts EXCEPT ![Var(v)] = known]
                /\ Connect(IF known = pts[Var(v)] THEN {} ELSE NewCalls(known, v))
                /\ outOfBudgetDpms' = outOfBudgetDpms \union {DefDpm(v)}
       ELSE cached' = pts /\ UNCHANGED <<connected, inRecursion, outOfBudgetDpms>>

\* findPT returns to the activations below, or ends the query.
ReturnTo(frames, d, oob, pts) ==
    /\ stack' = Deliver(frames, pts[Slot(d)])
    /\ IF frames = <<>> THEN Answer(oob, pts)
       ELSE cached' = pts /\ UNCHANGED <<query, asked, connected, inRecursion, outOfBudgetDpms>>

(***************************************************************************)
(* findPT of d, called from frames with visited as the marks: a marked     *)
(* dpm is answered from the cache, and so is any dpm over budget.          *)
(***************************************************************************)
FindPT(d, frames, visited) ==
    LET stepped == IF outOfBudgetQuery THEN steps ELSE steps + 1
        oob == outOfBudgetQuery \/ stepped > budget
    IN  \/ /\ d \in visited
           /\ backwardVisited' = visited
           /\ ReturnTo(frames, d, outOfBudgetQuery, cached)
           /\ UNCHANGED <<recorded, steps, outOfBudgetQuery>>
        \/ /\ d \notin visited
           /\ backwardVisited' = visited \union {d}
           /\ recorded' = recorded \union {d}
           /\ steps' = stepped
           /\ outOfBudgetQuery' = oob
           /\ IF oob \/ d \in outOfBudgetDpms
              THEN ReturnTo(frames, d, oob, cached)
              ELSE /\ stack' = frames \o <<Frame(d)>>
                   /\ UNCHANGED <<query, asked, cached, connected, inRecursion, outOfBudgetDpms>>

Init ==
    /\ graph \in Graphs
    /\ least = [now |-> Least(graph), atStart |-> Least(RecursionAtStart(graph))]
    /\ budget \in Budgets
    /\ query = NoVar
    /\ asked = {}
    /\ cached = Empty
    /\ backwardVisited = {}
    /\ recorded = {}
    /\ steps = 0
    /\ outOfBudgetQuery = FALSE
    /\ outOfBudgetDpms = {}
    /\ connected = {}
    /\ inRecursion = graph.recursive[{}]
    /\ stack = <<>>

-----------------------------------------------------------------------------
\* Mutant of VisitedAtReset: the marks of a query over budget stay.
VisitedAtResetAll == backwardVisited

\* resetQuery: the marks of a query that ran out of budget are taken back.
VisitedAtReset ==
    IF outOfBudgetQuery THEN backwardVisited \ (recorded \ outOfBudgetDpms) ELSE backwardVisited

\* Mutant of RecordedAtReset: the dpms of the last query stay recorded.
RecordedAtResetAll == recorded

\* resetQuery: locToDpmSetMap is cleared.
RecordedAtReset == {}

\* computeDDAPts(v), up to the first activation of findPT.
Query(v) ==
    LET d == DefDpm(v)
    IN  /\ query = NoVar
        /\ v \notin asked
        /\ UNCHANGED <<graph, least, budget, cached, connected, inRecursion, outOfBudgetDpms>>
        /\ IF d \in VisitedAtReset
           THEN /\ asked' = asked \union {v}
                /\ backwardVisited' = VisitedAtReset
                /\ recorded' = RecordedAtReset
                /\ steps' = 0
                /\ outOfBudgetQuery' = FALSE
                /\ UNCHANGED <<query, stack>>
           ELSE /\ query' = v
                /\ backwardVisited' = VisitedAtReset \union {d}
                /\ recorded' = RecordedAtReset \union {d}
                /\ steps' = 1
                /\ outOfBudgetQuery' = FALSE
                /\ stack' = <<Frame(d)>>
                /\ UNCHANGED asked

\* backwardPropDpm, and the lookups of resolveFunPtr.
Trace(d) ==
    /\ Top.stage \in {"fun", "ptr", "flow"}
    /\ d \in Top.todo
    /\ FindPT(d, WithTop([Top EXCEPT !.todo = @ \ {d}]), backwardVisited)
    /\ UNCHANGED <<graph, least, budget>>

\* The step of a frame from one stage to the next, when the stage is done.
Move(f) ==
    /\ Top.todo = {}
    /\ stack' = WithTop(f)
    /\ UNCHANGED <<graph, least, budget, query, asked, cached, backwardVisited, recorded, steps,
                   outOfBudgetQuery, outOfBudgetDpms, connected, inRecursion>>

HandleStatement ==
    LET n == Top.dpm[1] IN
    /\ Top.stage = "fun"
    /\ Move(CASE n \in Scalars -> [Top EXCEPT !.stage = "flow"]
              [] Kind[n] = "addr" -> [Top EXCEPT !.stage = "flow", !.acc = {ObjAt[n]}]
              [] Kind[n] \in {"copy", "gep"} ->
                     [Top EXCEPT !.stage = "flow", !.todo = DirectPreds(graph, connected, n)]
              [] Kind[n] = "mr" ->
                     [Top EXCEPT !.stage = "flow",
                                 !.todo = IndirectPreds(graph, connected, n, Top.dpm[2])]
              [] OTHER -> [Top EXCEPT !.stage = "ptr", !.todo = {DefDpm(PtrAt[n])}])

PointerFound ==
    /\ Top.stage = "ptr"
    /\ Move([Top EXCEPT !.stage = "flow", !.acc = {}, !.pts = Top.acc, !.pointees = Top.acc])

TracePointee(o) ==
    /\ Top.stage = "flow"
    /\ o \in Top.pointees
    /\ Move([Top EXCEPT !.pointees = @ \ {o},
                        !.todo = PointeePreds(graph, connected, inRecursion, Top.dpm, Top.pts, o)])

(***************************************************************************)
(* updateCachedPointsTo: a value that grew resolves the calls through the  *)
(* variable and starts reCompute; otherwise findPT returns.                *)
(***************************************************************************)
Update ==
    LET d == Top.dpm
        found == IF Kind[d[1]] = "gep" THEN ProcessGepPts(d[1], Top.acc) ELSE Top.acc
        known == cached[Slot(d)] \union found
        new == NewCalls(known, d[2])
    IN  /\ Top.stage = "flow" /\ Top.todo = {} /\ Top.pointees = {}
        /\ IF known = cached[Slot(d)]
           THEN ReturnTo(Front(stack), d, outOfBudgetQuery, cached)
           ELSE /\ cached' = [cached EXCEPT ![Slot(d)] = known]
                /\ Connect(new)
                /\ stack' = WithTop([Top EXCEPT !.stage = "calls", !.edges = EdgesOf(new)])
                /\ UNCHANGED <<query, asked, outOfBudgetDpms>>
        /\ UNCHANGED <<graph, least, budget, backwardVisited, recorded, steps, outOfBudgetQuery>>

\* The dpms at the target of e that reComputeForEdges visits again.
Affected(e) ==
    LET indirect == Len(e) = 3 IN
    {d \in recorded :
        /\ d[1] = e[2]
        /\ Top.stage = "redo" /\ indirect /\ Kind[e[2]] # "load" => d[2] = Top.dpm[2]}

\* Mutant of FollowEdge: an edge that is followed stays in the set.
FollowEdgeAgain(e) ==
    /\ Top.stage \in {"calls", "redo"}
    /\ e \in Top.edges
    /\ Move([Top EXCEPT !.todo = Affected(e)])

FollowEdge(e) ==
    /\ Top.stage \in {"calls", "redo"}
    /\ e \in Top.edges
    /\ Move([Top EXCEPT !.edges = @ \ {e}, !.todo = Affected(e)])

Redo(d) ==
    /\ Top.stage \in {"calls", "redo"}
    /\ d \in Top.todo
    /\ FindPT(d, WithTop([Top EXCEPT !.todo = @ \ {d}]), backwardVisited \ {d})
    /\ UNCHANGED <<graph, least, budget>>

CallsRedone ==
    /\ Top.stage = "calls" /\ Top.edges = {}
    /\ Move([Top EXCEPT !.stage = "redo",
                 !.edges = {e \in DirectEdges(graph, connected)
                                  \union IndirectEdges(graph, connected) : e[1] = Top.dpm[1]}])

Recomputed ==
    /\ Top.stage = "redo" /\ Top.edges = {} /\ Top.todo = {}
    /\ ReturnTo(Front(stack), Top.dpm, outOfBudgetQuery, cached)
    /\ UNCHANGED <<graph, least, budget, backwardVisited, recorded, steps, outOfBudgetQuery>>

Next ==
    \/ \E v \in Candidates : Query(v)
    \/ /\ stack # <<>>
       /\ \/ \E d \in Dpms : Trace(d) \/ Redo(d)
          \/ HandleStatement
          \/ PointerFound
          \/ \E o \in Objs : TracePointee(o)
          \/ Update
          \/ \E e \in Top.edges : FollowEdge(e)
          \/ CallsRedone
          \/ Recomputed

Spec == Init /\ [][Next]_vars /\ WF_vars(Next)

-----------------------------------------------------------------------------
Frames ==
    [dpm : Dpms, stage : Stages, todo : SUBSET Dpms, acc : SUBSET Objs, pts : SUBSET Objs,
     pointees : SUBSET Objs,
     edges : SUBSET (DirectEdges(graph, IndCalls) \union IndirectEdges(graph, IndCalls))]

\* State types.
TypeOK ==
    /\ budget \in Budgets
    /\ query \in Candidates \union {NoVar}
    /\ asked \subseteq Candidates
    /\ cached \in [Slots -> SUBSET Objs]
    /\ backwardVisited \subseteq Dpms /\ recorded \subseteq Dpms
    /\ outOfBudgetDpms \subseteq Dpms
    /\ steps \in 0 .. budget + 1
    /\ outOfBudgetQuery \in BOOLEAN
    /\ connected \subseteq IndCalls /\ inRecursion \subseteq Objs
    /\ \A i \in DOMAIN stack : stack[i] \in Frames

(***************************************************************************)
(* Once a query is answered, within budget or not and whatever was asked   *)
(* before it, the variable has every pointee of the least solution, its    *)
(* strong updates being those the recursions before any joined call allow: *)
(* a call that closes a cycle refreshes _callGraphSCC, but a store already *)
(* traversed is not traversed again for it.                                *)
(***************************************************************************)
AnswerSound ==
    \A v \in asked : least.atStart[Var(v)] \subseteq cached[Var(v)]

(***************************************************************************)
(* As long as no query ran out of budget nothing is cached that the least  *)
(* solution lacks: a strong update made on a partial result and repaired   *)
(* later, or a call resolved on the way, costs no precision.               *)
(***************************************************************************)
AnswerExact ==
    outOfBudgetDpms = {} => \A s \in Slots : cached[s] \subseteq least.now[s]

\* No query ever gives a variable more than the pre-analysis has for it.
NeverWorse ==
    \A s \in Slots : cached[s] \subseteq graph.ander[s[2]]

(***************************************************************************)
(* A dpm that the query recorded is marked, so clearbkVisited finds the    *)
(* mark it asserts.                                                        *)
(***************************************************************************)
ClearFindsMark == recorded \subseteq backwardVisited

\* Every query is answered: recomputation along value-flow cycles ends.
Terminates == <>[](asked = Candidates /\ stack = <<>>)
=============================================================================
