-------------------------- MODULE Steensgaard_proofs --------------------------
(***************************************************************************)
(* Theorems about the unification-based solver, for every program and      *)
(* every set of nodes.                                                     *)
(***************************************************************************)
EXTENDS Steensgaard, FiniteSetTheorems, TLAPS

\* Worklists hold no node twice.
Queue == {q \in Seq(Nodes) : IsInjective(q)}

-----------------------------------------------------------------------------
(* The worklist *)

LEMMA PushType ==
    ASSUME ec \in [Nodes -> Nodes], NEW q \in Queue, NEW n \in Nodes
    PROVE  Push(q, n) \in Queue
<1>1. CASE Contains(q, ec[n])
  BY <1>1 DEF Push
<1>2. CASE ~ Contains(q, ec[n])
  <2>1. /\ q \in Seq(Nodes) /\ ec[n] \in Nodes /\ Push(q, n) = Append(q, ec[n])
        /\ \A i \in 1 .. Len(q) : q[i] # ec[n]
        /\ \A i, j \in 1 .. Len(q) : q[i] = q[j] => i = j
    BY <1>2 DEF Queue, Push, Contains, IsInjective
  <2>2. PICK p : p = Append(q, ec[n])
    OBVIOUS
  <2>3. /\ p \in Seq(Nodes) /\ DOMAIN p = 1 .. Len(q) + 1 /\ Len(q) \in Nat
        /\ \A i \in 1 .. Len(q) : p[i] = q[i]
        /\ p[Len(q) + 1] = ec[n]
    BY <2>1, <2>2
  <2>4. \A i, j \in DOMAIN p : p[i] = p[j] => i = j
    BY <2>1, <2>3
  <2> QED
    BY <2>1, <2>2, <2>3, <2>4 DEF Queue, IsInjective
<1> QED
  BY <1>1, <1>2

LEMMA TailType == ASSUME NEW q \in Queue, q # <<>> PROVE Tail(q) \in Queue /\ Head(q) \in Nodes
<1>1. /\ q \in Seq(Nodes) /\ Len(q) \in Nat /\ Len(q) > 0 /\ DOMAIN q = 1 .. Len(q)
      /\ \A i, j \in 1 .. Len(q) : q[i] = q[j] => i = j
  BY DEF Queue, IsInjective
<1>2. PICK p : p = Tail(q)
  OBVIOUS
<1>3. /\ p \in Seq(Nodes) /\ DOMAIN p = 1 .. Len(q) - 1
      /\ \A i \in 1 .. Len(q) - 1 : p[i] = q[i + 1]
  BY <1>1, <1>2
<1>4. \A i, j \in DOMAIN p : p[i] = p[j] => i = j
  BY <1>1, <1>3
<1>5. Head(q) \in Nodes
  BY <1>1
<1> QED
  BY <1>2, <1>3, <1>4, <1>5 DEF Queue, IsInjective

\* Pushing several nodes in any order.
LEMMA PushAllType ==
    ASSUME NEW q \in Queue, NEW S \in SUBSET Nodes, NEW order \in SetToSeqs(S \ ToSet(q))
    PROVE  q \o order \in Queue
<1> DEFINE T == S \ ToSet(q)
           k == Cardinality(T)
<1>1. k \in Nat
  BY NodesAssumption, FS_Subset, FS_CardinalityType
<1>2. /\ order \in [1 .. k -> T]
      /\ \A i, j \in 1 .. k : i # j => order[i] # order[j]
  BY DEF SetToSeqs
<1> HIDE DEF T, k
<1>3. T \subseteq Nodes /\ \A i \in 1 .. Len(q) : q[i] \notin T
  BY DEF T, ToSet, Queue
<1>4. /\ q \in Seq(Nodes) /\ Len(q) \in Nat
      /\ \A i, j \in 1 .. Len(q) : q[i] = q[j] => i = j
  BY DEF Queue, IsInjective
<1>5. order \in Seq(Nodes) /\ Len(order) = k
  BY <1>1, <1>2, <1>3
<1>6. PICK p : p = q \o order
  OBVIOUS
<1>7. /\ p \in Seq(Nodes) /\ Len(p) = Len(q) + k /\ DOMAIN p = 1 .. Len(q) + k
      /\ \A i \in 1 .. Len(q) : p[i] = q[i]
      /\ \A i \in Len(q) + 1 .. Len(q) + k : p[i] = order[i - Len(q)]
  BY <1>1, <1>4, <1>5, <1>6
<1>8. \A i \in DOMAIN p : \/ i \in 1 .. Len(q) /\ p[i] = q[i]
                          \/ i - Len(q) \in 1 .. k /\ p[i] = order[i - Len(q)]
  BY <1>1, <1>4, <1>7
<1>9. ASSUME NEW i \in DOMAIN p, NEW j \in DOMAIN p, p[i] = p[j] PROVE i = j
  <2>1. i \in Nat /\ j \in Nat
    BY <1>1, <1>4, <1>7
  <2>2. CASE i \in 1 .. Len(q) /\ j \in 1 .. Len(q)
    BY <1>4, <1>7, <1>9, <2>2
  <2>3. CASE i - Len(q) \in 1 .. k /\ j - Len(q) \in 1 .. k
    <3>1. i \in Len(q) + 1 .. Len(q) + k /\ j \in Len(q) + 1 .. Len(q) + k
      BY <1>1, <1>4, <2>1, <2>3
    <3>2. order[i - Len(q)] = order[j - Len(q)]
      BY <1>7, <1>9, <3>1
    <3>3. i - Len(q) = j - Len(q)
      BY <1>2, <2>3, <3>2
    <3> QED
      BY <1>4, <2>1, <3>3
  <2>4. CASE i \in 1 .. Len(q) /\ j - Len(q) \in 1 .. k
    BY <1>2, <1>3, <1>8, <1>9, <1>4, <1>7, <2>4, <2>1
  <2>5. CASE j \in 1 .. Len(q) /\ i - Len(q) \in 1 .. k
    BY <1>2, <1>3, <1>8, <1>9, <1>4, <1>7, <2>5, <2>1
  <2> QED
    BY <1>8, <2>2, <2>3, <2>4, <2>5
<1> QED
  BY <1>6, <1>7, <1>9 DEF Queue, IsInjective

-----------------------------------------------------------------------------
(* Types *)

LEMMA InitType == Init => TypeOK
<1> SUFFICES ASSUME Init PROVE TypeOK
  OBVIOUS
<1>1. cur \in Nodes
  BY NodesAssumption DEF Init
<1>2. GraphTypeOK
  BY ProgramsAssumption DEF Init, BuildCG, GraphTypeOK, Statements
<1>3. wl \in Seq(Nodes) /\ IsInjective(wl)
  BY DEF Init, IsInjective
<1>4. /\ pts \in [Nodes -> SUBSET Objs] /\ ec \in [Nodes -> Nodes] /\ subs \in [Nodes -> SUBSET Nodes]
      /\ callEdges = {} /\ pending = {} /\ reanalyze = FALSE /\ pc = "addr"
      /\ iterated = cur /\ obj = cur /\ pointees = {} /\ unions = {}
  BY DEF Init
<1> QED
  BY <1>1, <1>2, <1>3, <1>4 DEF TypeOK, Locations

LEMMA ECUnionType ==
    ASSUME TypeOK, NEW m \in Nodes, NEW n \in Nodes, ECUnion(m, n)
    PROVE  /\ pts' \in [Nodes -> SUBSET Objs] /\ ec' \in [Nodes -> Nodes]
           /\ subs' \in [Nodes -> SUBSET Nodes] /\ wl' \in Queue
<1>1. /\ ec \in [Nodes -> Nodes] /\ subs \in [Nodes -> SUBSET Nodes]
      /\ pts \in [Nodes -> SUBSET Objs] /\ wl \in Queue
  BY DEF TypeOK, Queue
<1>2. /\ pts' = [pts EXCEPT ![ec[n]] = @ \union pts[ec[m]]]
      /\ wl' = IF pts' = pts THEN wl ELSE Push(wl, n)
      /\ ec' = [x \in Nodes |-> IF x \in subs[m] \union {m} THEN ec[n] ELSE ec[x]]
      /\ subs' = [subs EXCEPT ![ec[n]] = @ \union (subs[m] \union {m}), ![m] = {}]
  BY DEF ECUnion, SetEC
<1>3. ec[n] \in Nodes /\ ec[m] \in Nodes
  BY <1>1
<1>4. subs[m] \union {m} \subseteq Nodes
  BY <1>1
<1>5. subs' \in [Nodes -> SUBSET Nodes]
  BY <1>1, <1>2, <1>3, <1>4
<1>6. pts' \in [Nodes -> SUBSET Objs] /\ ec' \in [Nodes -> Nodes]
  BY <1>1, <1>2, <1>3
<1>7. wl' \in Queue
  BY <1>1, <1>2, PushType
<1> QED
  BY <1>5, <1>6, <1>7

\* Every step keeps the types.
LEMMA NextType == TypeOK /\ [Next]_vars => TypeOK'
<1> SUFFICES ASSUME TypeOK, [Next]_vars PROVE TypeOK'
  OBVIOUS
<1>0. /\ ec \in [Nodes -> Nodes] /\ pts \in [Nodes -> SUBSET Objs] /\ wl \in Queue
      /\ Objs \subseteq Nodes
  BY DEF TypeOK, Queue, Nodes
<1>1. CASE ProcessAllAddr
  <2>1. pts' \in [Nodes -> SUBSET Objs]
    BY <1>0, <1>1 DEF ProcessAllAddr
  <2>2. PICK S, order : /\ S = {ec[n] : n \in {x \in Nodes : pts'[x] # pts[x]}}
                        /\ order \in SetToSeqs(S \ ToSet(wl))
                        /\ wl' = wl \o order
    BY <1>1 DEF ProcessAllAddr
  <2>3. S \in SUBSET Nodes
    BY <1>0, <2>2
  <2>4. wl' \in Queue
    BY <1>0, <2>2, <2>3, PushAllType
  <2> QED
    BY <1>1, <2>1, <2>4 DEF ProcessAllAddr, TypeOK, Locations, Queue, graphVars, callVars, loopVars,
                            GraphTypeOK
<1>2. CASE PopNode
  <2>1. wl' \in Queue /\ Head(wl) \in Nodes
    BY <1>0, <1>2, TailType DEF PopNode
  <2>2. cur' \in Nodes /\ iterated' \in Nodes /\ pointees' \subseteq Objs
    BY <1>0, <1>2, <2>1 DEF PopNode
  <2> QED
    BY <1>2, <2>1, <2>2 DEF PopNode, TypeOK, Locations, Queue, graphVars, callVars, GraphTypeOK
<1>3. CASE NextPointee
  <2>1. PICK o \in pointees : /\ obj' = o /\ pointees' = pointees \ {o}
                              /\ unions' = {<<e[1], o>> : e \in {x \in store : x[2] = cur}}
    BY <1>3 DEF NextPointee
  <2>2. o \in Nodes /\ pointees' \subseteq Objs
    BY <1>0, <2>1 DEF TypeOK
  <2>3. \A e \in store : e[1] \in Nodes
    BY DEF TypeOK, GraphTypeOK
  <2>4. unions' \subseteq Nodes \X Nodes
    BY <2>1, <2>2, <2>3
  <2> QED
    BY <1>3, <2>1, <2>2, <2>4 DEF NextPointee, TypeOK, Locations, graphVars, ptaVars, callVars,
                                  GraphTypeOK
<1>4. CASE Unify
  <2>1. PICK u \in unions : ECUnion(u[1], u[2]) /\ unions' = unions \ {u}
    BY <1>4 DEF Unify
  <2>2. u[1] \in Nodes /\ u[2] \in Nodes /\ iterated \in Nodes
    BY DEF TypeOK
  <2>3. /\ pts' \in [Nodes -> SUBSET Objs] /\ ec' \in [Nodes -> Nodes]
        /\ subs' \in [Nodes -> SUBSET Nodes] /\ wl' \in Queue
    BY <2>1, <2>2, ECUnionType
  <2>4. pointees' \subseteq Objs
    <3>1. CASE pc \in {"stores", "loads"}
      <4>1. PICK seen \in SUBSET (pts'[iterated] \ pts[iterated]) : pointees' = pointees \union seen
        BY <1>4, <3>1 DEF Unify
      <4> QED
        BY <2>2, <2>3, <4>1 DEF TypeOK
    <3>2. CASE pc \notin {"stores", "loads"}
      BY <1>4, <3>2 DEF Unify, TypeOK
    <3> QED
      BY <3>1, <3>2
  <2> QED
    BY <1>4, <2>1, <2>3, <2>4 DEF Unify, TypeOK, Queue, graphVars, callVars, GraphTypeOK
<1>5. CASE EndStores \/ EndPointees \/ EndCopies
  <2>1. /\ \A e \in load : e[2] \in Nodes
        /\ \A e \in ngep : e[1] \in Nodes /\ e[2] \in Nodes
        /\ copy \subseteq Nodes \X Nodes /\ vgep \subseteq Nodes \X Nodes /\ obj \in Nodes
    BY DEF TypeOK, GraphTypeOK
  <2>2. unions' \subseteq Nodes \X Nodes
    <3>1. CASE EndStores
      BY <2>1, <3>1 DEF EndStores
    <3>2. CASE EndPointees
      BY <2>1, <3>2 DEF EndPointees
    <3>3. CASE EndCopies
      <4>1. {<<x[1], x[2]>> : x \in ngep} \subseteq Nodes \X Nodes
        BY <2>1
      <4> QED
        BY <2>1, <3>3, <4>1 DEF EndCopies
    <3> QED
      BY <1>5, <3>1, <3>2, <3>3
  <2>3. /\ pc' \in Locations
        /\ UNCHANGED <<graphVars, ptaVars, callVars, cur, iterated, pointees, obj>>
    BY <1>5 DEF EndStores, EndPointees, EndCopies, Locations
  <2> QED
    BY <2>2, <2>3 DEF TypeOK, graphVars, ptaVars, callVars, GraphTypeOK
<1>6. CASE EndLoads \/ EndGeps
  <2>1. pc' \in Locations /\ UNCHANGED <<graphVars, ptaVars, callVars, loopVars>>
    BY <1>6 DEF EndLoads, EndGeps, Locations
  <2> QED
    BY <2>1 DEF TypeOK, graphVars, ptaVars, callVars, loopVars, GraphTypeOK
<1>7. CASE UpdateCallGraph
  <2>1. PICK new \in SUBSET Resolvable : /\ callEdges' = callEdges \union new
                                         /\ pending' = UNION {c.params : c \in new}
                                         /\ reanalyze' = (new # {})
    BY <1>7 DEF UpdateCallGraph
  <2>2. new \subseteq prog.calls /\ prog.calls \subseteq Calls
    BY DEF Resolvable, TypeOK, GraphTypeOK, Statements
  <2>3. pending' \subseteq Nodes \X Nodes
    BY <2>1, <2>2 DEF Calls
  <2>4. pc' \in Locations /\ UNCHANGED <<graphVars, ptaVars, loopVars>>
    BY <1>7 DEF UpdateCallGraph, Locations
  <2> QED
    BY <2>1, <2>2, <2>3, <2>4 DEF TypeOK, graphVars, ptaVars, loopVars, GraphTypeOK
<1>8. CASE ConnectParams
  <2>1. PICK e \in pending :
          /\ pending' = pending \ {e}
          /\ IF NewCopyEdge(ec[e[1]], ec[e[2]])
               THEN copy' = copy \union {<<ec[e[1]], ec[e[2]]>>} /\ wl' = Push(wl, ec[e[1]])
               ELSE UNCHANGED <<copy, wl>>
    BY <1>8 DEF ConnectParams
  <2>2. ec[e[1]] \in Nodes /\ ec[e[2]] \in Nodes
    BY <1>0 DEF TypeOK
  <2>3. wl' \in Queue
    BY <1>0, <2>1, <2>2, PushType
  <2>4. copy' \subseteq Nodes \X Nodes
    BY <2>1, <2>2 DEF TypeOK, GraphTypeOK
  <2> QED
    BY <1>8, <2>1, <2>3, <2>4 DEF ConnectParams, TypeOK, Queue, loopVars, GraphTypeOK
<1>9. CASE EndRound
  BY <1>9 DEF EndRound, TypeOK, Locations, graphVars, ptaVars, loopVars, GraphTypeOK
<1>10. CASE UNCHANGED vars
  BY <1>10 DEF TypeOK, vars, graphVars, ptaVars, callVars, loopVars, GraphTypeOK
<1> QED
  BY <1>1, <1>2, <1>3, <1>4, <1>5, <1>6, <1>7, <1>8, <1>9, <1>10 DEF Next

(***************************************************************************)
(* The state of the solver stays well typed, and its worklist never holds  *)
(* a node twice, for any program.                                          *)
(***************************************************************************)
THEOREM TypeCorrect == Spec => []TypeOK
  BY InitType, NextType, PTL DEF Spec

-----------------------------------------------------------------------------
(* Nothing is unified that the rules do not ask for *)

\* Only copies are ever added to the constraint graph.
AsBuilt ==
    /\ load = prog.load /\ store = prog.store
    /\ ngep = prog.ngep /\ vgep = prog.vgep

(***************************************************************************)
(* The solver respects the classes c: what it has unified, or is about to, *)
(* is one class of c, and what it has in a points-to set, or still has to  *)
(* go through, is a pointee under c.  The members setEC leaves behind are  *)
(* in the class they were in.                                              *)
(***************************************************************************)
Respects(c) ==
    /\ \A n \in Nodes : c[ec[n]] = c[n]
    /\ \A n \in Nodes : \A m \in subs[n] : c[m] = c[n]
    /\ \A n \in Nodes : pts[n] \subseteq Ideal!Pointees(c, n)
    /\ \A e \in copy \union pending \union unions : c[e[1]] = c[e[2]]
    /\ c[iterated] = c[cur]
    /\ pointees \subseteq Ideal!Pointees(c, cur)
    /\ pc = "stores" => obj \in Ideal!Pointees(c, cur)

AskedInv == AsBuilt /\ \A c \in Ideal!Unifications : Respects(c)

\* What it means to be a unification.
LEMMA AskedLemma ==
    ASSUME NEW c \in Ideal!Unifications
    PROVE  /\ \A e \in prog.copy \union prog.vgep \union prog.ngep : c[e[1]] = c[e[2]]
           /\ \A e \in prog.store : \A o \in Ideal!Pointees(c, e[2]) : c[e[1]] = c[o]
           /\ \A e \in prog.load : \A o \in Ideal!Pointees(c, e[1]) : c[o] = c[e[2]]
           /\ \A x \in prog.calls : x.callee \in Ideal!Pointees(c, x.fptr) =>
                \A e \in x.params : c[e[1]] = c[e[2]]
<1>1. \A e \in Ideal!Asked(c) : c[e[1]] = c[e[2]]
  BY DEF Ideal!Unifications
<1>2. ASSUME NEW e \in prog.ngep PROVE c[e[1]] = c[e[2]]
  <2>1. <<e[1], e[2]>> \in Ideal!Asked(c)
    BY DEF Ideal!Asked
  <2> QED
    BY <1>1, <2>1
<1>3. ASSUME NEW e \in prog.store, NEW o \in Ideal!Pointees(c, e[2]) PROVE c[e[1]] = c[o]
  <2>1. <<e[1], o>> \in Ideal!Asked(c)
    BY DEF Ideal!Asked
  <2> QED
    BY <1>1, <2>1
<1>4. ASSUME NEW e \in prog.load, NEW o \in Ideal!Pointees(c, e[1]) PROVE c[o] = c[e[2]]
  <2>1. <<o, e[2]>> \in Ideal!Asked(c)
    BY DEF Ideal!Asked
  <2> QED
    BY <1>1, <2>1
<1>5. \A e \in prog.copy \union prog.vgep : c[e[1]] = c[e[2]]
  BY <1>1 DEF Ideal!Asked
<1>6. ASSUME NEW x \in prog.calls, x.callee \in Ideal!Pointees(c, x.fptr), NEW e \in x.params
      PROVE  c[e[1]] = c[e[2]]
  <2>1. e \in Ideal!Asked(c)
    BY <1>6 DEF Ideal!Asked
  <2> QED
    BY <1>1, <2>1
<1> QED
  BY <1>2, <1>3, <1>4, <1>5, <1>6

\* The members of a class have the same pointees.
LEMMA SamePointees ==
    ASSUME NEW c, NEW m, NEW n, c[m] = c[n]
    PROVE  Ideal!Pointees(c, m) = Ideal!Pointees(c, n)
BY DEF Ideal!Pointees

\* The unifications are those of the program, which stays.
LEMMA SameUnifications ==
    ASSUME prog' = prog
    PROVE  /\ Ideal!Unifications' = Ideal!Unifications
           /\ \A c, n : Ideal!Pointees(c, n)' = Ideal!Pointees(c, n)
<1>1. ASSUME NEW c, NEW n PROVE Ideal!Pointees(c, n)' = Ideal!Pointees(c, n)
  BY DEF Ideal!Pointees
<1>2. ASSUME NEW c PROVE Ideal!Asked(c)' = Ideal!Asked(c)
  BY <1>1 DEF Ideal!Asked
<1> QED
  BY <1>1, <1>2 DEF Ideal!Unifications, Ideal!ClassMaps

LEMMA InitAsked == Init => AskedInv
<1> SUFFICES ASSUME Init PROVE AskedInv
  OBVIOUS
<1>1. AsBuilt /\ copy = prog.copy
  BY DEF Init, BuildCG, AsBuilt
<1>2. ASSUME NEW c \in Ideal!Unifications PROVE Respects(c)
  <2>1. \A e \in copy : c[e[1]] = c[e[2]]
    BY <1>1, AskedLemma
  <2> QED
    BY <2>1 DEF Init, Respects
<1> QED
  BY <1>1, <1>2 DEF AskedInv

\* Unifying two nodes of a class of c.
LEMMA ECUnionRespects ==
    ASSUME TypeOK, NEW m \in Nodes, NEW n \in Nodes, ECUnion(m, n),
           NEW c, Respects(c), c[m] = c[n], prog' = prog
    PROVE  /\ \A x \in Nodes : c[ec'[x]] = c[x]
           /\ \A x \in Nodes : \A y \in subs'[x] : c[y] = c[x]
           /\ \A x \in Nodes : pts'[x] \subseteq Ideal!Pointees(c, x)
<1>1. /\ ec \in [Nodes -> Nodes] /\ subs \in [Nodes -> SUBSET Nodes]
      /\ pts \in [Nodes -> SUBSET Objs]
  BY DEF TypeOK
<1>2. /\ pts' = [pts EXCEPT ![ec[n]] = @ \union pts[ec[m]]]
      /\ ec' = [x \in Nodes |-> IF x \in subs[m] \union {m} THEN ec[n] ELSE ec[x]]
      /\ subs' = [subs EXCEPT ![ec[n]] = @ \union (subs[m] \union {m}), ![m] = {}]
  BY DEF ECUnion, SetEC
<1>3. /\ ec[n] \in Nodes /\ ec[m] \in Nodes
      /\ c[ec[n]] = c[n] /\ c[ec[m]] = c[n]
      /\ \A y \in subs[m] \union {m} : c[y] = c[n]
  BY <1>1 DEF Respects
<1>4. \A x \in Nodes : c[ec'[x]] = c[x]
  BY <1>1, <1>2, <1>3 DEF Respects
<1>5. ASSUME NEW x \in Nodes, NEW y \in subs'[x] PROVE c[y] = c[x]
  <2>1. y \in subs[x] \/ (x = ec[n] /\ y \in subs[m] \union {m})
    BY <1>1, <1>2, <1>3, <1>5
  <2> QED
    BY <1>3, <2>1 DEF Respects
<1>6. ASSUME NEW x \in Nodes PROVE pts'[x] \subseteq Ideal!Pointees(c, x)
  <2>1. pts[x] \subseteq Ideal!Pointees(c, x) /\ pts[ec[m]] \subseteq Ideal!Pointees(c, ec[m])
    BY <1>3 DEF Respects
  <2>2. x = ec[n] => Ideal!Pointees(c, ec[m]) = Ideal!Pointees(c, x)
    BY <1>3, SamePointees
  <2>3. pts'[x] = IF x = ec[n] THEN pts[x] \union pts[ec[m]] ELSE pts[x]
    BY <1>1, <1>2, <1>3
  <2> QED
    BY <2>1, <2>2, <2>3
<1> QED
  BY <1>4, <1>5, <1>6

LEMMA NextAsked == TypeOK /\ AskedInv /\ [Next]_vars => AskedInv'
<1> SUFFICES ASSUME TypeOK, AskedInv, [Next]_vars PROVE AskedInv'
  OBVIOUS
<1>1. prog' = prog /\ AsBuilt'
  BY DEF AskedInv, AsBuilt, Next, vars, ProcessAllAddr, PopNode, NextPointee, Unify, EndStores,
         EndLoads, EndPointees, EndCopies, EndGeps, UpdateCallGraph, ConnectParams, EndRound, graphVars
<1> SUFFICES ASSUME NEW c \in Ideal!Unifications PROVE Respects(c)'
  BY <1>1, SameUnifications DEF AskedInv
<1>2. /\ \A n \in Nodes : c[ec[n]] = c[n]
      /\ \A n \in Nodes : \A m \in subs[n] : c[m] = c[n]
      /\ \A n \in Nodes : pts[n] \subseteq Ideal!Pointees(c, n)
      /\ \A e \in copy \union pending \union unions : c[e[1]] = c[e[2]]
      /\ c[iterated] = c[cur]
      /\ pointees \subseteq Ideal!Pointees(c, cur)
      /\ pc = "stores" => obj \in Ideal!Pointees(c, cur)
  BY DEF AskedInv, Respects
<1>3. /\ ec \in [Nodes -> Nodes] /\ pts \in [Nodes -> SUBSET Objs] /\ wl \in Seq(Nodes)
      /\ cur \in Nodes /\ iterated \in Nodes
  BY DEF TypeOK
<1>4. \A n : Ideal!Pointees(c, n)' = Ideal!Pointees(c, n)
  BY <1>1, SameUnifications
<1>5. CASE ProcessAllAddr
  <2>1. ASSUME NEW n \in Nodes PROVE pts'[n] \subseteq Ideal!Pointees(c, n)
    <3>1. pts'[n] = pts[n] \union {o \in Objs : <<o, n>> \in prog.addr}
      BY <1>5 DEF ProcessAllAddr
    <3>2. \A o \in Objs : <<o, n>> \in prog.addr => o \in Ideal!Pointees(c, n)
      BY DEF Ideal!Pointees
    <3> QED
      BY <1>2, <3>1, <3>2
  <2> QED
    BY <1>2, <1>4, <1>5, <2>1 DEF Respects, ProcessAllAddr, graphVars, callVars, loopVars
<1>6. CASE PopNode
  <2>1. cur' \in Nodes /\ iterated' = ec[cur'] /\ pointees' = pts[iterated'] /\ pc' = "pointees"
    BY <1>3, <1>6 DEF PopNode
  <2>2. c[iterated'] = c[cur'] /\ iterated' \in Nodes
    BY <1>2, <1>3, <2>1
  <2>3. pointees' \subseteq Ideal!Pointees(c, cur')
    BY <1>2, <2>1, <2>2, SamePointees
  <2> QED
    BY <1>2, <1>4, <1>6, <2>1, <2>2, <2>3 DEF Respects, PopNode, graphVars, callVars
<1>7. CASE NextPointee
  <2>1. PICK o \in pointees : /\ obj' = o /\ pointees' = pointees \ {o}
                              /\ unions' = {<<e[1], o>> : e \in {x \in store : x[2] = cur}}
    BY <1>7 DEF NextPointee
  <2>2. o \in Ideal!Pointees(c, cur)
    BY <1>2, <2>1
  <2>3. \A e \in unions' : c[e[1]] = c[e[2]]
    BY <2>1, <2>2, AskedLemma DEF AskedInv, AsBuilt
  <2> QED
    BY <1>2, <1>4, <1>7, <2>1, <2>2, <2>3 DEF Respects, NextPointee, graphVars, ptaVars, callVars
<1>8. CASE Unify
  <2>1. PICK u \in unions : ECUnion(u[1], u[2]) /\ unions' = unions \ {u}
    BY <1>8 DEF Unify
  <2>2. u[1] \in Nodes /\ u[2] \in Nodes /\ c[u[1]] = c[u[2]] /\ Respects(c)
    BY <1>2 DEF TypeOK, AskedInv
  <2>3. /\ \A x \in Nodes : c[ec'[x]] = c[x]
        /\ \A x \in Nodes : \A y \in subs'[x] : c[y] = c[x]
        /\ \A x \in Nodes : pts'[x] \subseteq Ideal!Pointees(c, x)
    BY <1>1, <2>1, <2>2, ECUnionRespects
  <2>4. pointees' \subseteq Ideal!Pointees(c, cur)
    <3>1. pts'[iterated] \subseteq Ideal!Pointees(c, cur)
      BY <1>2, <1>3, <2>3, SamePointees
    <3>2. pointees' \subseteq pointees \union pts'[iterated]
      BY <1>8 DEF Unify
    <3> QED
      BY <1>2, <3>1, <3>2
  <2> QED
    BY <1>2, <1>4, <1>8, <2>1, <2>3, <2>4 DEF Respects, Unify, graphVars, callVars
<1>9. CASE EndStores \/ EndPointees \/ EndCopies
  <2>1. \A e \in unions' : c[e[1]] = c[e[2]]
    <3>1. CASE EndStores
      <4>1. obj \in Ideal!Pointees(c, cur) /\ unions' = {<<obj, e[2]>> : e \in {x \in load : x[1] = cur}}
        BY <1>2, <3>1 DEF EndStores
      <4> QED
        BY <4>1, AskedLemma DEF AskedInv, AsBuilt
    <3>2. CASE EndPointees
      BY <1>2, <3>2 DEF EndPointees
    <3>3. CASE EndCopies
      <4>1. \A e \in unions' : e \in vgep \/ \E x \in ngep : e = <<x[1], x[2]>>
        BY <3>3 DEF EndCopies
      <4> QED
        BY <4>1, AskedLemma DEF AskedInv, AsBuilt
    <3> QED
      BY <1>9, <3>1, <3>2, <3>3
  <2>2. /\ UNCHANGED <<graphVars, ptaVars, callVars, cur, iterated, pointees, obj>>
        /\ pc' # "stores"
    BY <1>9 DEF EndStores, EndPointees, EndCopies
  <2> QED
    BY <1>2, <1>4, <2>1, <2>2 DEF Respects, graphVars, ptaVars, callVars
<1>10. CASE EndLoads \/ EndGeps \/ EndRound
  <2>1. UNCHANGED <<graphVars, ptaVars, pending, loopVars>> /\ pc' # "stores"
    BY <1>10 DEF EndLoads, EndGeps, EndRound, callVars
  <2> QED
    BY <1>2, <1>4, <2>1 DEF Respects, graphVars, ptaVars, loopVars
<1>11. CASE UpdateCallGraph
  <2>1. \A e \in pending' : \E x \in prog.calls : x.callee \in pts[ec[x.fptr]] /\ e \in x.params
    <3>1. \A x \in prog.calls : x.fptr \in Nodes
      BY DEF TypeOK, GraphTypeOK, Statements, Calls, Nodes
    <3> QED
      BY <1>11, <3>1 DEF UpdateCallGraph, Resolvable, Solution
  <2>2. ASSUME NEW e \in pending' PROVE c[e[1]] = c[e[2]]
    <3>1. PICK x \in prog.calls : x.callee \in pts[ec[x.fptr]] /\ e \in x.params
      BY <2>1
    <3>2. x.fptr \in Nodes
      BY DEF TypeOK, GraphTypeOK, Statements, Calls, Nodes
    <3>3. x.callee \in Ideal!Pointees(c, x.fptr)
      BY <1>2, <1>3, <3>1, <3>2, SamePointees
    <3> QED
      BY <3>1, <3>3, AskedLemma
  <2>3. UNCHANGED <<graphVars, ptaVars, loopVars>> /\ pc' # "stores"
    BY <1>11 DEF UpdateCallGraph
  <2> QED
    BY <1>2, <1>4, <2>2, <2>3 DEF Respects, graphVars, ptaVars, loopVars
<1>12. CASE ConnectParams
  <2>1. PICK e \in pending :
          /\ pending' = pending \ {e}
          /\ copy' \subseteq copy \union {<<ec[e[1]], ec[e[2]]>>}
    BY <1>12 DEF ConnectParams
  <2>2. e[1] \in Nodes /\ e[2] \in Nodes
    BY DEF TypeOK
  <2>3. \A f \in copy' : c[f[1]] = c[f[2]]
    BY <1>2, <2>1, <2>2
  <2>4. UNCHANGED <<pts, ec, subs, pc, loopVars>>
    BY <1>12 DEF ConnectParams
  <2> QED
    BY <1>2, <1>4, <2>1, <2>3, <2>4 DEF Respects, loopVars
<1>13. CASE UNCHANGED vars
  BY <1>2, <1>4, <1>13 DEF Respects, vars, graphVars, ptaVars, callVars, loopVars
<1> QED
  BY <1>5, <1>6, <1>7, <1>8, <1>9, <1>10, <1>11, <1>12, <1>13 DEF Next

(***************************************************************************)
(* For any program the solver unifies no more than its rules ask for: its  *)
(* classes and points-to sets are within every unification, also though    *)
(* setEC splits classes and the loops extend what they iterate over.       *)
(***************************************************************************)
THEOREM NothingBeyond == Spec => []OnlyAsked
<1>1. TypeOK /\ AskedInv => OnlyAsked
  <2> SUFFICES ASSUME TypeOK, AskedInv, NEW c \in Ideal!Unifications
               PROVE  /\ \A m, n \in Nodes : ec[m] = ec[n] => c[m] = c[n]
                      /\ \A n \in Nodes : Solution[n] \subseteq Ideal!Pointees(c, n)
    BY DEF OnlyAsked
  <2>1. Respects(c) /\ ec \in [Nodes -> Nodes]
    BY DEF AskedInv, TypeOK
  <2>2. \A m, n \in Nodes : ec[m] = ec[n] => c[m] = c[n]
    BY <2>1 DEF Respects
  <2>3. \A n \in Nodes : pts[ec[n]] \subseteq Ideal!Pointees(c, n)
    BY <2>1, SamePointees DEF Respects
  <2> QED
    BY <2>2, <2>3 DEF Solution
<1> QED
  BY InitType, NextType, InitAsked, NextAsked, <1>1, PTL DEF Spec
=============================================================================
