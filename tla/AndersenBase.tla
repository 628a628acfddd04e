----------------------------- MODULE AndersenBase -----------------------------
(***************************************************************************)
(* What every inclusion-based solver is made of (WPA/Andersen.h,           *)
(* Andersen.cpp, WPASolver.h, MutablePointsToDS.h): points-to sets with    *)
(* the part of them that was already propagated, the worklist, the         *)
(* handlers of the constraint edges, merging of nodes, collapsing of the   *)
(* fields of an object and the on-the-fly call graph.                      *)
(*                                                                         *)
(* The program is sequential; a loop over a set of edges, pointees or      *)
(* fields is one step per element, in any order, so that no property rests *)
(* on the numbering of nodes.  For the same reason the worklist is a set.  *)
(***************************************************************************)
EXTENDS ConsG, Sequences

CONSTANT CallLimit  \* Options::IndirectCallLimit

VARIABLES
    pts,        \* points-to set of every node; stale for merged nodes
    propa,      \* propaPtsMap: what was already sent along the out-edges
    diff,       \* diffPtsMap of the node being processed
    fi,         \* base objects whose isFieldInsensitive() is true
    wl,         \* the worklist
    reanalyze,  \* another round of the solver is due
    callEdges,  \* indirect calls already resolved (getIndCallMap)
    pending,    \* copy edges the running handler has still to add
    toCollapse, \* nodesToBeCollapsed
    frames      \* call stack of collapseField and collapseNodePts

ptaVars == <<pts, propa, diff, fi, wl, reanalyze, callEdges>>
workVars == <<pending, toCollapse, frames>>
baseVars == <<graphVars, ptaVars, workVars>>

FieldsFrame == [kind : {"fields"}, base : Objs, todo : SUBSET Objs]
PtsFrame == [kind : {"pts"}, todo : SUBSET Objs]

BaseTypeOK ==
    /\ GraphTypeOK
    /\ pts \in [Nodes -> SUBSET Objs]
    /\ propa \in [Nodes -> SUBSET Objs]
    /\ diff \subseteq Objs
    /\ fi \subseteq Objs
    /\ wl \subseteq Nodes
    /\ reanalyze \in BOOLEAN
    /\ callEdges \subseteq prog.calls
    /\ pending \subseteq Nodes \X Nodes
    /\ toCollapse \subseteq Objs
    /\ frames \in Seq(FieldsFrame \union PtsFrame)

\* processAllAddr.
AddrPts == [n \in Nodes |-> {o \in Objs : <<o, n>> \in prog.addr}]

\* Andersen::initialize.
BaseInit ==
    /\ BuildCG
    /\ pts = AddrPts
    /\ propa = [n \in Nodes |-> {}]
    /\ diff = {}
    /\ fi = InitFI
    /\ wl = {n \in Nodes : pts[n] # {}}
    /\ reanalyze = FALSE
    /\ callEdges = {}
    /\ pending = {}
    /\ toCollapse = {}
    /\ frames = <<>>

-----------------------------------------------------------------------------
(* Objects and geps *)

\* isFieldInsensitive asks the base object.
IsFI(o) == BaseOf[o] \in fi

AllFields(o) == {f \in Objs : BaseOf[f] = BaseOf[o]}

\* What a gep edge with offset k makes of a pointee (processGepPts).
NormalGepTarget(o, k) ==
    IF o \in ConstOrBlk \/ IsFI(o) THEN o ELSE FieldOf[<<o, k>>]

VariantGepTarget(o) == IF o \in ConstOrBlk THEN o ELSE BaseOf[o]

-----------------------------------------------------------------------------
(* Load and store edges *)

\* Mutant of LoadStoreEdges: a store copies out of the cell instead of into it.
LoadStoreEdgesBackwards(n) ==
    LET targets == pts[n] \ ConstObjs
        dsts == {e[2] : e \in {l \in load : l[1] = n}} \ NonPtrs
        srcs == {e[1] : e \in {s \in store : s[2] = n}} \ NonPtrs
    IN  (targets \X dsts) \union (targets \X srcs)

\* The copy edges handleLoadStore of node n asks for (processLoad, processStore).
LoadStoreEdges(n) ==
    LET targets == pts[n] \ ConstObjs
        dsts == {e[2] : e \in {l \in load : l[1] = n}} \ NonPtrs
        srcs == {e[1] : e \in {s \in store : s[2] = n}} \ NonPtrs
    IN  (targets \X dsts) \union (srcs \X targets)

\* Mutant of AddCopyEdge: the source keeps its propagated set.
AddCopyEdgeUncut(s, d) ==
    /\ copy' = IF NewCopyEdge(s, d) THEN copy \union {<<rep[s], rep[d]>>} ELSE copy
    /\ UNCHANGED propa

(***************************************************************************)
(* Andersen::addCopyEdge: only when the edge is new is the propagated part *)
(* of the source cut down to what the destination has already seen.        *)
(***************************************************************************)
AddCopyEdge(s, d) ==
    IF NewCopyEdge(s, d)
      THEN /\ copy' = copy \union {<<rep[s], rep[d]>>}
           /\ propa' = [propa EXCEPT ![rep[s]] = @ \intersect propa[rep[d]]]
      ELSE UNCHANGED <<copy, propa>>

\* One edge of a load, a store or a call; a new edge puts its source on the worklist.
AddPendingEdge ==
    \E e \in pending :
        /\ AddCopyEdge(e[1], e[2])
        /\ pending' = pending \ {e}
        /\ wl' = IF NewCopyEdge(e[1], e[2]) THEN wl \union {rep[e[1]]} ELSE wl
        /\ UNCHANGED <<prog, load, store, ngep, vgep, rep, pwc, pts, diff, fi, reanalyze,
                       callEdges, toCollapse, frames>>

-----------------------------------------------------------------------------
(* Copy and gep edges *)

\* computeDiffPts, then processCopy for every copy edge out of n.
PropagateCopies(n) ==
    LET new == pts[n] \ propa[n]
        grown == {d \in Nodes : <<n, d>> \in copy /\ ~ (new \subseteq pts[d])}
    IN  /\ diff' = new
        /\ propa' = [propa EXCEPT ![n] = pts[n]]
        /\ pts' = [d \in Nodes |-> IF <<n, d>> \in copy THEN pts[d] \union new ELSE pts[d]]
        /\ wl' = wl \union grown

UnionPts(d, S) ==
    /\ pts' = [pts EXCEPT ![d] = @ \union S]
    /\ wl' = IF S \subseteq pts[d] THEN wl ELSE wl \union {d}

\* processGepPts for an edge with a constant offset.
ProcessNormalGep(e) ==
    /\ UnionPts(e[2], {NormalGepTarget(o, e[3]) : o \in diff})
    /\ UNCHANGED <<fi, toCollapse>>

\* processGepPts for an edge with a variable offset: its pointees lose their fields.
ProcessVariantGep(e) ==
    LET new == {BaseOf[o] : o \in {x \in diff \ ConstOrBlk : ~ IsFI(x)}}
    IN  /\ UnionPts(e[2], {VariantGepTarget(o) : o \in diff})
        /\ fi' = fi \union new
        /\ toCollapse' = toCollapse \union new

-----------------------------------------------------------------------------
(* Merging and collapsing *)

\* mergeSrcToTgt on points-to data p, for distinct representatives n and r.
MergeNode(p, n, r) ==
    /\ MoveEdgesToRepNode(n, r)
    /\ pts' = [p EXCEPT ![r] = @ \union p[n]]
    /\ propa' = [propa EXCEPT ![r] = @ \intersect propa[n]]

Top == frames[Len(frames)]
Pop == SubSeq(frames, 1, Len(frames) - 1)
SetTop(fr) == Append(Pop, fr)

\* The call of collapseField(o), on top of the stack st.
CallCollapseField(o, st) ==
    IF o \in ConstOrBlk
      THEN frames' = st /\ UNCHANGED fi
      ELSE /\ frames' = Append(st, [kind |-> "fields", base |-> BaseOf[o],
                                    todo |-> AllFields(o) \ {BaseOf[o]}])
           /\ fi' = fi \union {BaseOf[o]}

\* collapseFields takes the next node of nodesToBeCollapsed.
CollapseNext ==
    \E o \in toCollapse :
        /\ toCollapse' = toCollapse \ {o}
        /\ CallCollapseField(o, frames)
        /\ UNCHANGED <<graphVars, pts, propa, diff, wl, reanalyze, callEdges, pending>>

\* Mutant of Rebase: the field stays in the set.
RebaseAdding(S, f, b) == IF f \in S THEN S \union {b} ELSE S

\* clearPts and addPts for one points-to set that may hold field f of base b.
Rebase(S, f, b) == IF f \in S THEN (S \ {f}) \union {b} ELSE S

\* Every pointer to field f points to the base instead, then f is merged into it.
CollapseOneField ==
    /\ frames # <<>> /\ Top.kind = "fields"
    /\ \E f \in Top.todo :
        LET b == Top.base
            revPts == {x \in Nodes : f \in pts[x]}
            p == [x \in Nodes |-> Rebase(pts[x], f, b)]
        IN  /\ wl' = wl \union {rep[x] : x \in revPts}
            /\ reanalyze' = (reanalyze \/ revPts # {})
            /\ frames' = SetTop([Top EXCEPT !.todo = @ \ {f}])
            /\ IF rep[f] = rep[b]
                 THEN pts' = p /\ UNCHANGED <<graphVars, propa>>
                 ELSE MergeNode(p, rep[f], rep[b])
    /\ UNCHANGED <<diff, fi, callEdges, pending, toCollapse>>

\* The end of collapseField: a base that became a PWC has its pointees collapsed.
EndCollapseField ==
    /\ frames # <<>> /\ Top.kind = "fields" /\ Top.todo = {}
    /\ frames' = IF rep[Top.base] \in pwc
                   THEN SetTop([kind |-> "pts", todo |-> pts[rep[Top.base]]])
                   ELSE Pop
    /\ UNCHANGED <<graphVars, ptaVars, pending, toCollapse>>

\* One element of the clone collapseNodePts iterates over.
CollapseOnePointee ==
    /\ frames # <<>> /\ Top.kind = "pts"
    /\ \E o \in Top.todo :
        LET st == SetTop([Top EXCEPT !.todo = @ \ {o}])
        IN  IF IsFI(o) THEN frames' = st /\ UNCHANGED fi ELSE CallCollapseField(o, st)
    /\ UNCHANGED <<graphVars, pts, propa, diff, wl, reanalyze, callEdges, pending, toCollapse>>

EndCollapsePts ==
    /\ frames # <<>> /\ Top.kind = "pts" /\ Top.todo = {}
    /\ frames' = Pop
    /\ UNCHANGED <<graphVars, ptaVars, pending, toCollapse>>

CollapseStep ==
    CollapseOneField \/ EndCollapseField \/ CollapseOnePointee \/ EndCollapsePts

-----------------------------------------------------------------------------
(* The on-the-fly call graph *)

\* Mutant of Resolvable: a call that is resolved is resolved again.
ResolvableAgain == {c \in prog.calls : c.callee \in pts[rep[c.fptr]]}

Resolvable == {c \in prog.calls \ callEdges : c.callee \in pts[rep[c.fptr]]}

(***************************************************************************)
(* updateCallGraph: every call the points-to sets now resolve, until the   *)
(* limit on resolved calls is reached, gets its argument and return edges  *)
(* connected; another round follows if there was one.                      *)
(***************************************************************************)
ResolveCalls ==
    \E new \in SUBSET Resolvable :
        /\ Cardinality(callEdges \union new) <= CallLimit
        /\ new = Resolvable \/ Cardinality(callEdges \union new) = CallLimit
        /\ callEdges' = callEdges \union new
        /\ pending' = UNION {c.params : c \in new}
        /\ reanalyze' = (reanalyze \/ new # {})
        /\ UNCHANGED <<graphVars, pts, propa, diff, fi, wl, toCollapse, frames>>

-----------------------------------------------------------------------------
(* What the properties of the solvers are made of *)

\* getPts: a merged node answers with the points-to set of its representative.
Solution == [n \in Nodes |-> pts[rep[n]]]

\* The rules of the analysis, and the least solution of the program.
Rules == INSTANCE InclusionAnalysis WITH sol <- Solution, done <- FALSE

(***************************************************************************)
(* A field of an object that has become field-insensitive stands for its   *)
(* base: collapseField will replace it, or already has.                    *)
(***************************************************************************)
Canon(o) == IF IsFI(o) THEN BaseOf[o] ELSE o

NoFieldOfFI == \A n \in Nodes : \A o \in pts[n] : Canon(o) = o

\* Node n points to o, up to collapsing.
Holds(n, o) == \E x \in pts[n] : Canon(x) = Canon(o)

CopySent == \A e \in copy : \A o \in propa[e[1]] : Holds(e[2], o)

\* The gep edges in todo have still to be shown the current difference.
GepSent(todo) ==
    LET Sent(e) == IF e \in todo THEN propa[e[1]] \ diff ELSE propa[e[1]]
    IN  /\ \A e \in ngep : \A o \in Sent(e) : Holds(e[2], NormalGepTarget(o, e[3]))
        /\ \A e \in vgep : \A o \in Sent(e) : Holds(e[2], VariantGepTarget(o))

(***************************************************************************)
(* What makes the two inductive: only what a node has is ever counted as   *)
(* sent, and the fields a running collapseField has still to merge belong  *)
(* to an object that is field-insensitive already.                         *)
(***************************************************************************)
SentIsHeld == \A n \in Nodes : \A o \in propa[n] : Holds(n, o)

MergingFrame ==
    {fr \in FieldsFrame : fr.base \in fi /\ \A f \in fr.todo \union {fr.base} : BaseOf[f] = fr.base}

CollapsingFI == frames \in Seq(MergingFrame \union PtsFrame)

PropagationInv(todo) == SentIsHeld /\ CollapsingFI /\ CopySent /\ GepSent(todo)
=============================================================================
