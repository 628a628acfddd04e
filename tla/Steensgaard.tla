------------------------------ MODULE Steensgaard ------------------------------
(***************************************************************************)
(* Class Steensgaard, the unification-based pointer analysis (option       *)
(* -steens): the nodes of the constraint graph are gathered in equivalence *)
(* classes, and a class has the points-to set of its representative        *)
(* (WPA/Steensgaard.h, Steensgaard.cpp, inside the rounds of               *)
(* AndersenBase::solveConstraints).  The edges of the constraint graph     *)
(* stay where they are: rep and pwc of ConsG do not change.                *)
(***************************************************************************)
EXTENDS ConsG, SequencesExt

CONSTANT CallLimit  \* Options::IndirectCallLimit

VARIABLES
    pts,        \* points-to set of every node, current for representatives only
    ec,         \* nodeToECMap, total: a node that was never unified maps to itself
    subs,       \* nodeToSubsMap, total
    wl,         \* the worklist, first in first out without duplicates
    callEdges,  \* indirect calls already resolved
    pending,    \* copy edges a resolved call has still to add
    reanalyze,  \* another round is due
    pc,         \* where solveWorklist is
    cur,        \* the node it popped
    iterated,   \* the representative whose points-to set it iterates over
    pointees,   \* what is left of this set
    obj,        \* the pointee it is at
    unions      \* <<node, ec>> calls of ecUnion left in the current loop

ptaVars == <<pts, ec, subs, wl>>
callVars == <<callEdges, pending, reanalyze>>
loopVars == <<cur, iterated, pointees, obj, unions>>
vars == <<graphVars, ptaVars, callVars, pc, loopVars>>

Locations == {"addr", "pop", "pointees", "stores", "loads", "copies", "geps", "connect", "done"}

TypeOK ==
    /\ GraphTypeOK
    /\ pts \in [Nodes -> SUBSET Objs]
    /\ ec \in [Nodes -> Nodes]
    /\ subs \in [Nodes -> SUBSET Nodes]
    /\ wl \in Seq(Nodes) /\ IsInjective(wl)
    /\ callEdges \subseteq prog.calls
    /\ pending \subseteq Nodes \X Nodes
    /\ reanalyze \in BOOLEAN
    /\ pc \in Locations
    /\ cur \in Nodes /\ iterated \in Nodes /\ obj \in Nodes
    /\ pointees \subseteq Objs
    /\ unions \subseteq Nodes \X Nodes

Init ==
    /\ BuildCG
    /\ pts = [n \in Nodes |-> {}]
    /\ ec = [n \in Nodes |-> n]
    /\ subs = [n \in Nodes |-> {}]
    /\ wl = <<>>
    /\ callEdges = {} /\ pending = {} /\ reanalyze = FALSE
    /\ pc = "addr"
    /\ cur = CHOOSE n \in Nodes : TRUE  \* not read before it is set
    /\ iterated = cur /\ obj = cur
    /\ pointees = {} /\ unions = {}

-----------------------------------------------------------------------------
(* Equivalence classes *)

\* pushIntoWorklist: the representative is pushed.
Push(queue, n) == IF Contains(queue, ec[n]) THEN queue ELSE Append(queue, ec[n])

(***************************************************************************)
(* setEC moves the members recorded for the node itself, not those of its  *)
(* class, and empties the record last: also when the node is the           *)
(* representative it moves to.                                             *)
(***************************************************************************)
SetEC(node, to) ==
    LET r == ec[to]
        moved == subs[node] \union {node}
    IN  /\ ec' = [n \in Nodes |-> IF n \in moved THEN r ELSE ec[n]]
        /\ subs' = [subs EXCEPT ![r] = @ \union moved, ![node] = {}]

\* Mutant of ECUnion: the class is pushed although nothing is new in it.
ECUnionPushing(node, to) ==
    /\ pts' = [pts EXCEPT ![ec[to]] = @ \union pts[ec[node]]]
    /\ wl' = Push(wl, to)
    /\ SetEC(node, to)

\* ecUnion: unionPts, the push and setEC.
ECUnion(node, to) ==
    /\ pts' = [pts EXCEPT ![ec[to]] = @ \union pts[ec[node]]]
    /\ wl' = IF pts' = pts THEN wl ELSE Push(wl, to)
    /\ SetEC(node, to)

-----------------------------------------------------------------------------
(* solveWorklist *)

\* addPts writes to the points-to set of the node itself.
ProcessAllAddr ==
    /\ pc = "addr"
    /\ pts' = [n \in Nodes |-> pts[n] \union {o \in Objs : <<o, n>> \in prog.addr}]
    /\ LET pushed == {ec[n] : n \in {x \in Nodes : pts'[x] # pts[x]}}
       IN  \E order \in SetToSeqs(pushed \ ToSet(wl)) : wl' = wl \o order
    /\ pc' = "pop"
    /\ UNCHANGED <<graphVars, ec, subs, callVars, loopVars>>

PopNode ==
    /\ pc = "pop" /\ wl # <<>>
    /\ wl' = Tail(wl)
    /\ cur' = ec[Head(wl)]
    /\ iterated' = ec[cur']
    /\ pointees' = pts[iterated']
    /\ pc' = "pointees"
    /\ UNCHANGED <<graphVars, pts, ec, subs, callVars, obj, unions>>

NextPointee ==
    /\ pc = "pointees"
    /\ \E o \in pointees :
        /\ obj' = o
        /\ pointees' = pointees \ {o}
        /\ unions' = {<<e[1], o>> : e \in {x \in store : x[2] = cur}}
    /\ pc' = "stores"
    /\ UNCHANGED <<graphVars, ptaVars, callVars, cur, iterated>>

(***************************************************************************)
(* The points-to set under the loop is the one ecUnion may extend; whether *)
(* the iterator still meets a new member depends on where it stands.       *)
(***************************************************************************)
Unify ==
    /\ pc \in {"stores", "loads", "copies", "geps"}
    /\ \E u \in unions :
        /\ ECUnion(u[1], u[2])
        /\ unions' = unions \ {u}
    /\ IF pc \in {"stores", "loads"}
         THEN \E seen \in SUBSET (pts'[iterated] \ pts[iterated]) :
                pointees' = pointees \union seen
         ELSE UNCHANGED pointees
    /\ UNCHANGED <<graphVars, callVars, pc, cur, iterated, obj>>

\* Mutant of EndStores: the pointee is unified with the pointer it is loaded through.
EndStoresBackwards ==
    /\ pc = "stores" /\ unions = {}
    /\ unions' = {<<obj, e[1]>> : e \in {x \in load : x[1] = cur}}
    /\ pc' = "loads"
    /\ UNCHANGED <<graphVars, ptaVars, callVars, cur, iterated, pointees, obj>>

EndStores ==
    /\ pc = "stores" /\ unions = {}
    /\ unions' = {<<obj, e[2]>> : e \in {x \in load : x[1] = cur}}
    /\ pc' = "loads"
    /\ UNCHANGED <<graphVars, ptaVars, callVars, cur, iterated, pointees, obj>>

EndLoads ==
    /\ pc = "loads" /\ unions = {}
    /\ pc' = "pointees"
    /\ UNCHANGED <<graphVars, ptaVars, callVars, loopVars>>

EndPointees ==
    /\ pc = "pointees" /\ pointees = {}
    /\ unions' = {e \in copy : e[1] = cur}
    /\ pc' = "copies"
    /\ UNCHANGED <<graphVars, ptaVars, callVars, cur, iterated, pointees, obj>>

EndCopies ==
    /\ pc = "copies" /\ unions = {}
    /\ unions' = {e \in vgep \union {<<x[1], x[2]>> : x \in ngep} : e[1] = cur}
    /\ pc' = "geps"
    /\ UNCHANGED <<graphVars, ptaVars, callVars, cur, iterated, pointees, obj>>

EndGeps ==
    /\ pc = "geps" /\ unions = {}
    /\ pc' = "pop"
    /\ UNCHANGED <<graphVars, ptaVars, callVars, loopVars>>

-----------------------------------------------------------------------------
(* The on-the-fly call graph *)

\* getPts asks the class of the node.
Solution == [n \in Nodes |-> pts[ec[n]]]

Resolvable == {c \in prog.calls \ callEdges : c.callee \in Solution[c.fptr]}

UpdateCallGraph ==
    /\ pc = "pop" /\ wl = <<>>
    /\ \E new \in SUBSET Resolvable :
        /\ Cardinality(callEdges \union new) <= CallLimit
        /\ new = Resolvable \/ Cardinality(callEdges \union new) = CallLimit
        /\ callEdges' = callEdges \union new
        /\ pending' = UNION {c.params : c \in new}
        /\ reanalyze' = (new # {})
    /\ pc' = "connect"
    /\ UNCHANGED <<graphVars, ptaVars, loopVars>>

\* The ends of a new copy edge are the representatives of argument and parameter.
ConnectParams ==
    /\ pc = "connect"
    /\ \E e \in pending :
        LET s == ec[e[1]]
            d == ec[e[2]]
        IN  /\ pending' = pending \ {e}
            /\ IF NewCopyEdge(s, d)
                 THEN copy' = copy \union {<<s, d>>} /\ wl' = Push(wl, s)
                 ELSE UNCHANGED <<copy, wl>>
    /\ UNCHANGED <<prog, load, store, ngep, vgep, rep, pwc, pts, ec, subs, callEdges, reanalyze,
                   pc, loopVars>>

EndRound ==
    /\ pc = "connect" /\ pending = {}
    /\ pc' = IF reanalyze THEN "addr" ELSE "done"
    /\ reanalyze' = FALSE
    /\ UNCHANGED <<graphVars, ptaVars, callEdges, pending, loopVars>>

Next ==
    \/ ProcessAllAddr \/ PopNode
    \/ NextPointee \/ Unify \/ EndStores \/ EndLoads \/ EndPointees \/ EndCopies \/ EndGeps
    \/ UpdateCallGraph \/ ConnectParams \/ EndRound

Spec == Init /\ [][Next]_vars

FairSpec == Spec /\ WF_vars(Next)

-----------------------------------------------------------------------------
(* Properties *)

Ideal == INSTANCE UnificationAnalysis WITH Prog <- prog

(***************************************************************************)
(* The analysis unifies no more than its rules ask for: two nodes end in   *)
(* one class, and a pointee in the set of a class, only if every           *)
(* unification of the program says so, whatever classes were split on the  *)
(* way.  (ecUnion, setEC)                                                  *)
(***************************************************************************)
OnlyAsked ==
    pc = "done" =>
        \A c \in Ideal!Unifications :
            /\ \A m, n \in Nodes : ec[m] = ec[n] => c[m] = c[n]
            /\ \A n \in Nodes : Solution[n] \subseteq Ideal!Pointees(c, n)

(***************************************************************************)
(* "q = p : EC(q) == EC(p)" (comment in solveWorklist): a copy whose       *)
(* source points to something has both ends in one class when the solver   *)
(* stops.                                                                  *)
(***************************************************************************)
CopiesUnified ==
    pc = "done" => \A e \in copy : Solution[e[1]] # {} => ec[e[1]] = ec[e[2]]

\* solveConstraints stops, although the loop's own unions extend what it iterates over.
Terminates == <>(pc = "done")
=============================================================================
