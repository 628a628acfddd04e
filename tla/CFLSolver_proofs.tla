---------------------------- MODULE CFLSolver_proofs ----------------------------
(***************************************************************************)
(* Proofs about the CFL-reachability solvers, for every grammar, graph and *)
(* set of indirect calls: the standard solver implements CFLReachability;  *)
(* the one with successor and predecessor maps adds derivable edges only,  *)
(* never pushes the null of addCFLEdge, and when it stops it has applied   *)
(* every production to every edge, but for pairs with a copy of a resolved *)
(* call.                                                                   *)
(***************************************************************************)
EXTENDS POCRSolver, TLAPS

\* The productions of a loop are those that read the edge in hand.
TodoReads ==
    /\ pc = "single" => \A p \in todo : p \in SingleProds /\ p[2] = cur[2]
    /\ pc = "first" => \A p \in todo : p \in PairProds /\ p[2] = cur[2]
    /\ pc = "second" => \A p \in todo : p \in PairProds /\ p[3] = cur[2]

\* Where calls are resolved, the graph holds every copy together with its reverse,
\* or the edges these are derived from.
BothWays == Calls # {} => Paired(edges)

Inv == TypeOK /\ TodoReads /\ BothWays /\ EpsilonCovered /\ Covered

-----------------------------------------------------------------------------
(* What a production derives is an edge.  (CFLSolver.cpp:processCFLEdge)   *)

LEMMA EpsilonEdgesType ==
  ASSUME NEW N \in SUBSET GNodes
  PROVE  EpsilonEdges(N) \subseteq AllEdges
  BY GrammarAssumption DEF EpsilonEdges, AllEdges

LEMMA BySingleType ==
  ASSUME NEW p \in SingleProds, NEW y \in AllEdges
  PROVE  BySingle(p, y) \in AllEdges
  BY GrammarAssumption DEF BySingle, AllEdges

LEMMA ByFirstType ==
  ASSUME NEW p \in PairProds, NEW y \in AllEdges, NEW E \in SUBSET AllEdges
  PROVE  ByFirst(p, y, E) \subseteq AllEdges
  BY GrammarAssumption DEF ByFirst, AllEdges

LEMMA BySecondType ==
  ASSUME NEW p \in PairProds, NEW y \in AllEdges, NEW E \in SUBSET AllEdges
  PROVE  BySecond(p, y, E) \subseteq AllEdges
  BY GrammarAssumption DEF BySecond, AllEdges

LEMMA CallEdgesType ==
  ASSUME NEW E \in SUBSET AllEdges
  PROVE  /\ CallEdges(E) \subseteq AllEdges
         /\ \A e \in CallEdges(E) : e[2] \in CopyKinds
<1> SUFFICES ASSUME NEW c \in Calls
             PROVE  /\ CopyEdges(c, E) \subseteq AllEdges
                    /\ \A e \in CopyEdges(c, E) : e[2] \in CopyKinds
  BY DEF CallEdges, Reached
<1>1. c.src \in GNodes /\ c.dst \in GNodes
  BY GraphsAssumption DEF CallSites
<1> QED
  BY <1>1, GrammarAssumption DEF CopyEdges, AllEdges, CopyKinds

-----------------------------------------------------------------------------
(***************************************************************************)
(* Copies and their reverses: what productions derive of the one they      *)
(* derive of the other, so that addCopyEdge, which looks for the copy      *)
(* alone, finds neither or both.  (CFLAlias::addCopyEdge)                  *)
(***************************************************************************)

\* A set of edges a production gives: none of a symbol that gives copies, and
\* copies only from an edge of the graph.
Given(new) ==
    /\ new \subseteq AllEdges
    /\ \A e \in new : e[2] \notin CopySources
    /\ \A e \in new : e[2] \in CopyKinds =>
          \E p \in SingleProds, y \in edges : p[2] = y[2] /\ BySingle(p, y) = e

LEMMA CopySource ==
  ASSUME NEW p \in SingleProds, p[1] \in CopyKinds
  PROVE  p[2] \in CopySources
  BY DEF CopyKinds, CopySources, SourcesOf

LEMMA SingleGiven ==
  ASSUME NEW p \in SingleProds, NEW y \in edges, p[2] = y[2], edges \subseteq AllEdges
  PROVE  Given({BySingle(p, y)})
<1>1. BySingle(p, y) \in AllEdges /\ BySingle(p, y)[2] = p[1]
  BY BySingleType DEF BySingle
<1>2. p[1] \notin CopySources
  BY CopyAssumption
<1> QED
  BY <1>1, <1>2 DEF Given

LEMMA PairGiven ==
  ASSUME NEW p \in PairProds, NEW new \in SUBSET AllEdges, \A e \in new : e[2] = p[1]
  PROVE  Given(new)
  BY CopyAssumption DEF Given, Productions

LEMMA EpsilonGiven ==
  ASSUME NEW N \in SUBSET GNodes
  PROVE  Given(EpsilonEdges(N))
<1>1. \A e \in EpsilonEdges(N) : e[2] \in EpsilonProds
  BY DEF EpsilonEdges
<1> QED
  BY <1>1, EpsilonEdgesType, CopyAssumption DEF Given

\* Given edges lead from one node to another by a copy only where edges did before.
LEMMA GivenForward ==
  ASSUME edges \subseteq AllEdges, NEW new, Given(new), NEW i, NEW j
  PROVE  /\ Forward(edges \union new, i, j) <=> Forward(edges, i, j)
         /\ Backward(edges \union new, i, j) <=> Backward(edges, i, j)
<1>1. ASSUME NEW K \in CopyKinds, NEW X \in {K} \union SourcesOf(K), <<i, X, j>> \in new
      PROVE  \E Y \in {K} \union SourcesOf(K) : <<i, Y, j>> \in edges
  <2>1. X = K
    BY <1>1 DEF Given, CopySources, CopyKinds
  <2>2. PICK p \in SingleProds, y \in edges : p[2] = y[2] /\ BySingle(p, y) = <<i, X, j>>
    BY <1>1, <2>1 DEF Given
  <2>3. p[1] = K /\ y = <<i, p[2], j>>
    BY <2>1, <2>2 DEF BySingle, AllEdges
  <2>4. p[2] \in SourcesOf(K)
    BY <2>3 DEF SourcesOf
  <2> QED
    BY <2>3, <2>4
<1> QED
  BY <1>1 DEF Forward, Backward, CopyKinds

LEMMA GivenBothWays ==
  ASSUME edges \subseteq AllEdges, BothWays, NEW new, Given(new), edges' = edges \union new
  PROVE  BothWays'
  BY GivenForward DEF BothWays, Paired

\* With all single productions applied a copy is there exactly if its reverse is,
\* so that nothing addCopyEdge adds is there before.
LEMMA CallsFresh ==
  ASSUME edges \subseteq AllEdges, BothWays,
         \A p \in SingleProds, y \in edges : p[2] = y[2] => BySingle(p, y) \in edges
  PROVE  /\ CallEdges(edges) \intersect edges = {}
         /\ CallPushes(edges) = CallEdges(edges)
         /\ Calls # {} => Paired(edges \union CallEdges(edges))
<1>1. ASSUME NEW K \in CopyKinds, NEW i \in GNodes, NEW j \in GNodes,
             NEW X \in {K} \union SourcesOf(K), <<i, X, j>> \in edges
      PROVE  <<i, K, j>> \in edges
  <2>1. CASE X = K
    BY <1>1, <2>1
  <2>2. CASE X \in SourcesOf(K)
    <3>1. PICK p \in SingleProds : p[1] = K /\ p[2] = X
      BY <2>2 DEF SourcesOf
    <3>2. BySingle(p, <<i, X, j>>) = <<i, K, j>>
      BY <3>1 DEF BySingle
    <3> QED
      BY <1>1, <3>1, <3>2
  <2> QED
    BY <2>1, <2>2
<1>2. ASSUME NEW c \in Calls, <<c.src, Copy, c.dst>> \notin edges
      PROVE  <<c.dst, Copybar, c.src>> \notin edges
  <2>1. c.src \in GNodes /\ c.dst \in GNodes
    BY GraphsAssumption DEF CallSites
  <2>2. ~ Forward(edges, c.src, c.dst)
    BY <1>1, <1>2, <2>1 DEF Forward, CopyKinds
  <2>3. ~ Backward(edges, c.dst, c.src)
    BY <2>1, <2>2 DEF BothWays, Paired
  <2> QED
    BY <2>3 DEF Backward
<1>3. CallEdges(edges) \intersect edges = {}
  <2>1. \A c \in Calls : CopyEdges(c, edges) \intersect edges = {}
    BY <1>2 DEF CopyEdges
  <2> QED
    BY <2>1 DEF CallEdges, Reached
<1>4. CallPushes(edges) = CallEdges(edges)
  BY <1>3 DEF CallPushes
<1>5. ASSUME Calls # {}, NEW i \in GNodes, NEW j \in GNodes
      PROVE  Forward(edges \union CallEdges(edges), i, j)
                <=> Backward(edges \union CallEdges(edges), j, i)
  <2>1. Forward(edges, i, j) <=> Backward(edges, j, i)
    BY <1>5 DEF BothWays, Paired
  <2>2. \A X \in {Copy} \union SourcesOf(Copy) :
           <<i, X, j>> \in CallEdges(edges) => X = Copy
    BY CallEdgesType, CopyAssumption DEF CopyKinds, CopySources
  <2>3. \A X \in {Copybar} \union SourcesOf(Copybar) :
           <<j, X, i>> \in CallEdges(edges) => X = Copybar
    BY CallEdgesType, CopyAssumption DEF CopyKinds, CopySources
  <2>4. <<i, Copy, j>> \in CallEdges(edges) <=> <<j, Copybar, i>> \in CallEdges(edges)
    <3>1. ASSUME NEW c \in Calls
          PROVE  <<i, Copy, j>> \in CopyEdges(c, edges) <=> <<j, Copybar, i>> \in CopyEdges(c, edges)
      BY CopyAssumption DEF CopyEdges
    <3> QED
      BY <3>1 DEF CallEdges, Reached
  <2> QED
    BY <2>1, <2>2, <2>3, <2>4 DEF Forward, Backward
<1> QED
  BY <1>3, <1>4, <1>5 DEF Paired

-----------------------------------------------------------------------------
(* Adding edges that the worklist gets keeps what is covered covered.      *)

LEMMA InitInv == Init => Inv
  BY GraphsAssumption, PairedAssumption
     DEF Init, Inv, TypeOK, TodoReads, BothWays, EpsilonCovered, Covered, Productions

\* BothWays speaks of the graph alone.
LEMMA BothWaysUnchanged == BothWays /\ edges' = edges => BothWays'
  BY DEF BothWays

LEMMA InitializeInv == Inv /\ Initialize => Inv'
<1> SUFFICES ASSUME Inv, Initialize
             PROVE  Inv'
  OBVIOUS
<1>1. /\ pc = "initialize" /\ pc' = "pop" /\ cur' = cur /\ todo' = todo
      /\ edges' = edges \union EpsilonEdges(GNodes)
      /\ edges' \subseteq wl' /\ wl \subseteq edges /\ wl' = wl \union edges'
      /\ edges \subseteq AllEdges /\ todo \subseteq Productions
  BY DEF Inv, TypeOK, Initialize
<1>2. TypeOK'
  BY <1>1, EpsilonEdgesType DEF TypeOK
<1>3. TodoReads' /\ EpsilonCovered'
  BY <1>1 DEF TodoReads, EpsilonCovered
<1>4. BothWays'
  <2>1. Given(EpsilonEdges(GNodes))
    BY EpsilonGiven
  <2> QED
    BY <1>1, <2>1, GivenBothWays DEF Inv
<1>5. Covered'
  BY <1>1 DEF Covered, SinglesCovered, PairsCovered
<1> QED
  BY <1>2, <1>3, <1>4, <1>5 DEF Inv

LEMMA PopEdgeInv == Inv /\ PopEdge => Inv'
<1> SUFFICES ASSUME Inv, PopEdge
             PROVE  Inv'
  OBVIOUS
<1>1. PICK y \in wl : wl' = wl \ {y} /\ cur' = y /\ todo' = {p \in SingleProds : p[2] = y[2]}
  BY DEF PopEdge
<1>2. pc = "pop" /\ pc' = "single" /\ edges' = edges
  BY DEF PopEdge
<1>3. TypeOK' /\ TodoReads' /\ EpsilonCovered'
  BY <1>1, <1>2 DEF Inv, TypeOK, TodoReads, EpsilonCovered, Productions
<1>4. SinglesCovered'
  BY <1>1, <1>2 DEF Inv, Covered, SinglesCovered, SingleOwed
<1>5. PairsCovered'
  BY <1>1, <1>2 DEF Inv, Covered, PairsCovered, FirstOwed, SecondOwed
<1>6. BothWays'
  BY BothWaysUnchanged DEF Inv, PopEdge
<1> QED
  BY <1>6, <1>3, <1>4, <1>5 DEF Inv, Covered

LEMMA ApplySingleInv == Inv /\ ApplySingle => Inv'
<1> SUFFICES ASSUME Inv, ApplySingle
             PROVE  Inv'
  OBVIOUS
<1>1. PICK p \in todo : AddEdges({BySingle(p, cur)}) /\ todo' = todo \ {p}
  BY DEF ApplySingle
<1>2. pc = "single" /\ pc' = "single" /\ cur' = cur
  BY DEF ApplySingle
<1>3. p \in SingleProds /\ cur \in edges /\ edges \subseteq AllEdges
  BY <1>2 DEF Inv, TypeOK, TodoReads
<1>4. PICK new : /\ new = BySingle(p, cur) /\ new \in AllEdges
                 /\ edges' = edges \union {new} /\ wl' = wl \union ({new} \ edges)
  BY <1>1, <1>3, BySingleType DEF AddEdges
<1>5. TypeOK' /\ TodoReads' /\ EpsilonCovered'
  BY <1>1, <1>2, <1>4 DEF Inv, TypeOK, TodoReads, EpsilonCovered
<1>6. SinglesCovered'
  BY <1>1, <1>2, <1>4 DEF Inv, Covered, SinglesCovered, SingleOwed
<1>7. PairsCovered'
  BY <1>1, <1>2, <1>4 DEF Inv, Covered, PairsCovered, FirstOwed, SecondOwed
<1>8. BothWays'
  <2>1. p[2] = cur[2]
    BY <1>2 DEF Inv, TodoReads
  <2>2. Given({new})
    BY <1>3, <1>4, <2>1, SingleGiven
  <2> QED
    BY <1>3, <1>4, <2>2, GivenBothWays DEF Inv
<1> QED
  BY <1>8, <1>5, <1>6, <1>7 DEF Inv, Covered

LEMMA EndSingleInv == Inv /\ EndSingle => Inv'
<1> SUFFICES ASSUME Inv, EndSingle
             PROVE  Inv'
  OBVIOUS
<1>1. TypeOK' /\ TodoReads' /\ EpsilonCovered'
  BY DEF Inv, TypeOK, TodoReads, EpsilonCovered, EndSingle, Productions
<1>2. SinglesCovered'
  BY DEF Inv, Covered, SinglesCovered, SingleOwed, EndSingle
<1>3. PairsCovered'
  BY DEF Inv, Covered, PairsCovered, FirstOwed, SecondOwed, EndSingle
<1>4. BothWays'
  BY BothWaysUnchanged DEF Inv, EndSingle
<1> QED
  BY <1>4, <1>1, <1>2, <1>3 DEF Inv, Covered

LEMMA ApplyFirstInv == Inv /\ ApplyFirst => Inv'
<1> SUFFICES ASSUME Inv, ApplyFirst
             PROVE  Inv'
  OBVIOUS
<1>1. PICK p \in todo : AddEdges(ByFirst(p, cur, edges)) /\ todo' = todo \ {p}
  BY DEF ApplyFirst
<1>2. pc = "first" /\ pc' = "first" /\ cur' = cur
  BY DEF ApplyFirst
<1>3. p \in PairProds /\ cur \in edges /\ edges \in SUBSET AllEdges
  BY <1>2 DEF Inv, TypeOK, TodoReads
<1>4. PICK new : /\ new = ByFirst(p, cur, edges) /\ new \subseteq AllEdges
                 /\ edges' = edges \union new /\ wl' = wl \union (new \ edges)
  BY <1>1, <1>3, ByFirstType DEF AddEdges
<1>5. TypeOK' /\ TodoReads' /\ EpsilonCovered'
  BY <1>1, <1>2, <1>4 DEF Inv, TypeOK, TodoReads, EpsilonCovered
<1>6. SinglesCovered'
  BY <1>1, <1>2, <1>4 DEF Inv, Covered, SinglesCovered, SingleOwed
<1>7. \A z \in edges : p[3] = z[2] /\ cur[3] = z[1] => <<cur[1], p[1], z[3]>> \in new
  BY <1>4 DEF ByFirst
<1>8. PairsCovered'
  BY <1>1, <1>2, <1>4, <1>7 DEF Inv, Covered, PairsCovered, FirstOwed, SecondOwed
<1>9. BothWays'
  <2>1. \A e \in new : e[2] = p[1]
    BY <1>4 DEF ByFirst
  <2>2. Given(new)
    BY <1>3, <1>4, <2>1, PairGiven
  <2> QED
    BY <1>3, <1>4, <2>2, GivenBothWays DEF Inv
<1> QED
  BY <1>9, <1>5, <1>6, <1>8 DEF Inv, Covered

LEMMA EndFirstInv == Inv /\ EndFirst => Inv'
<1> SUFFICES ASSUME Inv, EndFirst
             PROVE  Inv'
  OBVIOUS
<1>1. TypeOK' /\ TodoReads' /\ EpsilonCovered'
  BY DEF Inv, TypeOK, TodoReads, EpsilonCovered, EndFirst, Productions
<1>2. SinglesCovered'
  BY DEF Inv, Covered, SinglesCovered, SingleOwed, EndFirst
<1>3. PairsCovered'
  BY DEF Inv, Covered, PairsCovered, FirstOwed, SecondOwed, EndFirst
<1>4. BothWays'
  BY BothWaysUnchanged DEF Inv, EndFirst
<1> QED
  BY <1>4, <1>1, <1>2, <1>3 DEF Inv, Covered

LEMMA ApplySecondInv == Inv /\ ApplySecond => Inv'
<1> SUFFICES ASSUME Inv, ApplySecond
             PROVE  Inv'
  OBVIOUS
<1>1. PICK p \in todo : AddEdges(BySecond(p, cur, edges)) /\ todo' = todo \ {p}
  BY DEF ApplySecond
<1>2. pc = "second" /\ pc' = "second" /\ cur' = cur
  BY DEF ApplySecond
<1>3. p \in PairProds /\ cur \in edges /\ edges \in SUBSET AllEdges
  BY <1>2 DEF Inv, TypeOK, TodoReads
<1>4. PICK new : /\ new = BySecond(p, cur, edges) /\ new \subseteq AllEdges
                 /\ edges' = edges \union new /\ wl' = wl \union (new \ edges)
  BY <1>1, <1>3, BySecondType DEF AddEdges
<1>5. TypeOK' /\ TodoReads' /\ EpsilonCovered'
  BY <1>1, <1>2, <1>4 DEF Inv, TypeOK, TodoReads, EpsilonCovered
<1>6. SinglesCovered'
  BY <1>1, <1>2, <1>4 DEF Inv, Covered, SinglesCovered, SingleOwed
<1>7. \A y \in edges : p[2] = y[2] /\ y[3] = cur[1] => <<y[1], p[1], cur[3]>> \in new
  BY <1>4 DEF BySecond
<1>8. PairsCovered'
  BY <1>1, <1>2, <1>4, <1>7 DEF Inv, Covered, PairsCovered, FirstOwed, SecondOwed
<1>9. BothWays'
  <2>1. \A e \in new : e[2] = p[1]
    BY <1>4 DEF BySecond
  <2>2. Given(new)
    BY <1>3, <1>4, <2>1, PairGiven
  <2> QED
    BY <1>3, <1>4, <2>2, GivenBothWays DEF Inv
<1> QED
  BY <1>9, <1>5, <1>6, <1>8 DEF Inv, Covered

LEMMA EndEdgeInv == Inv /\ EndEdge => Inv'
<1> SUFFICES ASSUME Inv, EndEdge
             PROVE  Inv'
  OBVIOUS
<1>1. TypeOK' /\ TodoReads' /\ EpsilonCovered'
  BY DEF Inv, TypeOK, TodoReads, EpsilonCovered, EndEdge
<1>2. SinglesCovered'
  BY DEF Inv, Covered, SinglesCovered, SingleOwed, EndEdge
<1>3. PairsCovered'
  BY DEF Inv, Covered, PairsCovered, FirstOwed, SecondOwed, EndEdge
<1>4. BothWays'
  BY BothWaysUnchanged DEF Inv, EndEdge
<1> QED
  BY <1>4, <1>1, <1>2, <1>3 DEF Inv, Covered

LEMMA UpdateCallGraphInv == Inv /\ UpdateCallGraph => Inv'
<1> SUFFICES ASSUME Inv, UpdateCallGraph
             PROVE  Inv'
  OBVIOUS
<1>1. /\ pc = "pop" /\ wl = {} /\ cur' = cur /\ todo' = todo
      /\ pc' = IF wl' = {} THEN "done" ELSE "initialize"
      /\ edges \in SUBSET AllEdges
  BY DEF UpdateCallGraph, Inv, TypeOK
<1>2. /\ CallEdges(edges) \intersect edges = {}
      /\ CallPushes(edges) = CallEdges(edges)
      /\ Calls # {} => Paired(edges \union CallEdges(edges))
  <2>1. \A p \in SingleProds, y \in edges : p[2] = y[2] => BySingle(p, y) \in edges
    BY <1>1 DEF Inv, Covered, SinglesCovered, SingleOwed
  <2> QED
    BY <1>1, <2>1, CallsFresh DEF Inv
<1>3. PICK new : /\ new = CallEdges(edges) /\ new \subseteq AllEdges
                 /\ edges' = edges \union new /\ wl' = new
  BY <1>1, <1>2, CallEdgesType DEF UpdateCallGraph
<1>4. TypeOK' /\ TodoReads'
  BY <1>1, <1>3 DEF Inv, TypeOK, TodoReads
<1>5. BothWays'
  BY <1>2, <1>3 DEF BothWays
<1>6. CASE pc' = "initialize"
  BY <1>4, <1>5, <1>6 DEF Inv, EpsilonCovered, Covered
<1>7. CASE pc' = "done"
  <2>1. wl' = {} /\ edges' = edges
    BY <1>1, <1>3, <1>7
  <2>2. EpsilonCovered' /\ SinglesCovered' /\ PairsCovered'
    BY <2>1, <1>1, <1>7
       DEF Inv, EpsilonCovered, Covered, SinglesCovered, PairsCovered,
           SingleOwed, FirstOwed, SecondOwed
  <2> QED
    BY <2>2, <1>4, <1>5 DEF Inv, Covered
<1> QED
  BY <1>1, <1>6, <1>7

LEMMA StepInv == Inv /\ [Next]_vars => Inv'
<1>1. ASSUME Inv, UNCHANGED vars
      PROVE  Inv'
  <2>1. TypeOK' /\ TodoReads' /\ EpsilonCovered'
    BY <1>1 DEF vars, Inv, TypeOK, TodoReads, EpsilonCovered
  <2>2. Covered'
    BY <1>1 DEF vars, Inv, Covered, SinglesCovered, PairsCovered, SingleOwed, FirstOwed, SecondOwed
  <2>3. BothWays'
    BY <1>1, BothWaysUnchanged DEF vars, Inv
  <2> QED
    BY <2>1, <2>2, <2>3 DEF Inv
<1> QED
  BY <1>1, InitializeInv, PopEdgeInv, ApplySingleInv, EndSingleInv, ApplyFirstInv,
     EndFirstInv, ApplySecondInv, EndEdgeInv, UpdateCallGraphInv DEF Next

\* What TodoReads, BothWays and Covered are for: they hold of every behaviour.
LEMMA InvHolds == Spec => []Inv
  BY InitInv, StepInv, PTL DEF Spec

\* The variables keep their types; the worklist holds edges of the graph alone.
THEOREM TypeCorrect == Spec => []TypeOK
<1>1. Inv => TypeOK
  BY DEF Inv
<1> QED
  BY <1>1, InvHolds, PTL

\* No derivation is forgotten, whichever of its edges is taken first.  (processCFLEdge)
THEOREM NothingForgotten == Spec => []Covered
<1>1. Inv => Covered
  BY DEF Inv
<1> QED
  BY <1>1, InvHolds, PTL

-----------------------------------------------------------------------------
(* The refinement: every step derives edges, stops, or stutters.           *)

Derived == Abs!Derivable(edges)

\* The operators of CFLGraph are the same in both modules.
LEMMA SameEpsilon == Abs!EpsilonEdges(GNodes) = EpsilonEdges(GNodes)
  BY DEF EpsilonEdges, Abs!EpsilonEdges

LEMMA SameSingle ==
  ASSUME NEW p, NEW y
  PROVE  Abs!BySingle(p, y) = BySingle(p, y)
  BY DEF BySingle, Abs!BySingle

LEMMA SameFirst ==
  ASSUME NEW p, NEW y, NEW E
  PROVE  Abs!ByFirst(p, y, E) = ByFirst(p, y, E)
  BY DEF ByFirst, Abs!ByFirst

LEMMA SameCalls ==
  ASSUME NEW E
  PROVE  Abs!CallEdges(E) = CallEdges(E)
  BY DEF CallEdges, Abs!CallEdges, Reached, Abs!Reached, CopyEdges, Abs!CopyEdges

LEMMA EpsilonDerivable == EpsilonEdges(GNodes) \subseteq Derived
  BY SameEpsilon DEF Derived, Abs!Derivable

LEMMA SingleDerivable ==
  ASSUME NEW p \in SingleProds, NEW y \in edges, p[2] = y[2]
  PROVE  BySingle(p, y) \in Derived
  BY SameSingle DEF Derived, Abs!Derivable, Abs!SingleEdges

LEMMA FirstDerivable ==
  ASSUME NEW p \in PairProds, NEW y \in edges, p[2] = y[2]
  PROVE  ByFirst(p, y, edges) \subseteq Derived
  BY SameFirst DEF Derived, Abs!Derivable, Abs!PairEdges

LEMMA SecondDerivable ==
  ASSUME NEW p \in PairProds, NEW z \in edges, p[3] = z[2]
  PROVE  BySecond(p, z, edges) \subseteq Derived
<1> SUFFICES ASSUME NEW y \in edges, y[3] = z[1], y[2] = p[2]
             PROVE  <<y[1], p[1], z[3]>> \in Derived
  BY DEF BySecond
<1>1. <<y[1], p[1], z[3]>> \in ByFirst(p, y, edges)
  BY DEF ByFirst
<1> QED
  BY <1>1, FirstDerivable

LEMMA CallsDerivable == CallEdges(edges) \subseteq Derived
  BY SameCalls DEF Derived, Abs!Derivable

\* With the worklist empty and no production due, only a call can give an edge.
LEMMA NothingDerivable ==
  ASSUME Inv, pc = "pop", wl = {}, CallEdges(edges) \subseteq edges
  PROVE  Derived \subseteq edges
<1>1. EpsilonEdges(GNodes) \subseteq edges
  BY DEF Inv, EpsilonCovered
<1>2. \A y \in edges, p \in SingleProds : p[2] = y[2] => BySingle(p, y) \in edges
  BY DEF Inv, Covered, SinglesCovered, SingleOwed
<1>3. \A y \in edges, p \in PairProds : p[2] = y[2] => ByFirst(p, y, edges) \subseteq edges
  <2> SUFFICES ASSUME NEW y \in edges, NEW p \in PairProds, NEW z \in edges,
                      p[2] = y[2], z[1] = y[3], z[2] = p[3]
               PROVE  <<y[1], p[1], z[3]>> \in edges
    BY DEF ByFirst
  <2> QED
    BY DEF Inv, Covered, PairsCovered, FirstOwed, SecondOwed
<1>4. Abs!EpsilonEdges(GNodes) \subseteq edges
  BY <1>1, SameEpsilon
<1>5. Abs!SingleEdges(edges) \subseteq edges
  BY <1>2, SameSingle DEF Abs!SingleEdges
<1>6. Abs!PairEdges(edges) \subseteq edges
  BY <1>3, SameFirst DEF Abs!PairEdges
<1>7. Abs!CallEdges(edges) \subseteq edges
  BY SameCalls
<1> QED
  BY <1>4, <1>5, <1>6, <1>7 DEF Derived, Abs!Derivable

LEMMA InitImplements == Init => Abs!Init
  BY DEF Init, Abs!Init

\* A step that adds derivable edges and does not stop is a Derive step.
LEMMA DeriveStep ==
  ASSUME Inv, Inv', pc # "done", pc' # "done",
         NEW new \in SUBSET Derived, edges' = edges \union new
  PROVE  Abs!Next
<1>1. edges' \in SUBSET Abs!AllEdges
  BY DEF Inv, TypeOK, AllEdges, Abs!AllEdges
<1>2. edges \subseteq edges' /\ edges' \subseteq edges \union Abs!Derivable(edges)
  BY DEF Derived
<1>3. (pc = "done")' = (pc = "done")
  OBVIOUS
<1>4. Abs!Derive
  BY <1>1, <1>2, <1>3 DEF Abs!Derive
<1> QED
  BY <1>4 DEF Abs!Next

LEMMA StepImplements == Inv /\ Inv' /\ [Next]_vars => [Abs!Next]_(Abs!absVars)
<1> SUFFICES ASSUME Inv, Inv', [Next]_vars
             PROVE  Abs!Next \/ UNCHANGED Abs!absVars
  OBVIOUS
<1>1. CASE Initialize
  BY <1>1, EpsilonDerivable, DeriveStep DEF Initialize
<1>2. CASE ApplySingle
  <2>1. PICK p \in todo : edges' = edges \union {BySingle(p, cur)}
    BY <1>2 DEF ApplySingle, AddEdges
  <2>2. p \in SingleProds /\ p[2] = cur[2] /\ cur \in edges /\ pc = "single" /\ pc' = "single"
    BY <1>2 DEF ApplySingle, Inv, TypeOK, TodoReads
  <2> QED
    BY <2>1, <2>2, SingleDerivable, DeriveStep
<1>3. CASE ApplyFirst
  <2>1. PICK p \in todo : edges' = edges \union ByFirst(p, cur, edges)
    BY <1>3 DEF ApplyFirst, AddEdges
  <2>2. p \in PairProds /\ p[2] = cur[2] /\ cur \in edges /\ pc = "first" /\ pc' = "first"
    BY <1>3 DEF ApplyFirst, Inv, TypeOK, TodoReads
  <2> QED
    BY <2>1, <2>2, FirstDerivable, DeriveStep
<1>4. CASE ApplySecond
  <2>1. PICK p \in todo : edges' = edges \union BySecond(p, cur, edges)
    BY <1>4 DEF ApplySecond, AddEdges
  <2>2. p \in PairProds /\ p[3] = cur[2] /\ cur \in edges /\ pc = "second" /\ pc' = "second"
    BY <1>4 DEF ApplySecond, Inv, TypeOK, TodoReads
  <2> QED
    BY <2>1, <2>2, SecondDerivable, DeriveStep
<1>5. CASE UpdateCallGraph
  <2>1. /\ pc = "pop" /\ wl = {} /\ edges' = edges \union CallEdges(edges)
        /\ wl' = CallPushes(edges)
        /\ pc' = IF wl' = {} THEN "done" ELSE "initialize"
    BY <1>5 DEF UpdateCallGraph
  <2>2. CASE pc' = "initialize"
    BY <2>1, <2>2, CallsDerivable, DeriveStep
  <2>3. CASE pc' = "done"
    <3>1. CallEdges(edges) \subseteq edges /\ edges' = edges
      BY <2>1, <2>3 DEF CallPushes
    <3>2. Abs!Derivable(edges) \subseteq edges
      BY <2>1, <3>1, NothingDerivable DEF Derived
    <3> QED
      BY <2>1, <2>3, <3>1, <3>2 DEF Abs!Next, Abs!Finish
  <2> QED
    BY <2>1, <2>2, <2>3
<1>6. CASE PopEdge \/ EndSingle \/ EndFirst \/ EndEdge
  <2>1. edges' = edges /\ pc # "done" /\ pc' # "done"
    BY <1>6 DEF PopEdge, EndSingle, EndFirst, EndEdge
  <2> QED
    BY <2>1 DEF Abs!absVars
<1>7. CASE UNCHANGED vars
  BY <1>7 DEF vars, Abs!absVars
<1> QED
  BY <1>1, <1>2, <1>3, <1>4, <1>5, <1>6, <1>7 DEF Next

(***************************************************************************)
(* The solver implements CFLReachability: it adds derivable edges alone    *)
(* and stops only when none is missing.  (processCFLEdge, solve,           *)
(* updateCallGraph)                                                        *)
(***************************************************************************)
THEOREM Correct == Spec => Implements
  BY InvHolds, InitImplements, StepImplements, PTL DEF Spec, Implements, Abs!Spec

-----------------------------------------------------------------------------
(***************************************************************************)
(* The solver with maps.  They lag behind the graph by copy edges of calls *)
(* alone.                                                                  *)
(***************************************************************************)

\* An edge the maps lack is one of a call that is reached, and a copy edge no
\* production will ever derive.
Lag ==
    \A e \in edges \ data :
        /\ e \in Connected(edges)
        /\ e[2] \in CopyKinds
        /\ \A p \in SingleProds, y \in edges : p[2] = y[2] => BySingle(p, y) # e

\* As in CFLSolver, but the edges of a pair production are read from the maps.
POCRSinglesCovered ==
    \A p \in SingleProds, y \in edges :
        p[2] = y[2] => \/ BySingle(p, y) \in data
                       \/ y \in wl
                       \/ y = cur /\ SingleOwed(p)

POCRPairsCovered ==
    \A p \in PairProds, y, z \in data :
        p[2] = y[2] /\ p[3] = z[2] /\ y[3] = z[1] =>
            \/ <<y[1], p[1], z[3]>> \in data
            \/ y \in wl \/ z \in wl
            \/ y = cur /\ FirstOwed(p)
            \/ z = cur /\ SecondOwed(p)

POCRCovered == pc # "initialize" => POCRSinglesCovered /\ POCRPairsCovered

POCRInv == POCRTypeOK /\ TodoReads /\ BothWays /\ Lag /\ POCRCovered

-----------------------------------------------------------------------------
(***************************************************************************)
(* What one loop does to edges, data and wl.  A derived edge that the maps *)
(* lack is not in the graph either, so addCFLEdge answers no null.         *)
(* (POCRSolver::processCFLEdge, addCFLEdge)                                *)
(***************************************************************************)

LEMMA GivenNotLagging ==
  ASSUME Lag, NEW new, Given(new)
  PROVE  new \intersect edges \subseteq data
  BY DEF Lag, Given

\* A call that is reached stays so.
LEMMA ConnectedGrows ==
  ASSUME NEW E, NEW F, E \subseteq F
  PROVE  Connected(E) \subseteq Connected(F)
  BY DEF Connected, Reached

LEMMA CallEdgesConnected ==
  ASSUME NEW E
  PROVE  CallEdges(E) \subseteq Connected(E)
  BY DEF CallEdges, Connected, CopyEdges

\* Given edges added to graph and maps leave the maps lagging by the same edges.
LEMMA LagKept ==
  ASSUME Lag, edges \subseteq AllEdges, data \subseteq edges, NEW new, Given(new),
         edges' = edges \union new, data' = data \union new
  PROVE  Lag'
<1> SUFFICES ASSUME NEW e \in edges \ data, NEW p \in SingleProds, NEW y \in new,
                    p[2] = y[2]
             PROVE  BySingle(p, y) # e
  BY ConnectedGrows DEF Lag
<1>1. p[2] \notin CopySources
  BY DEF Given
<1>2. p[1] \notin CopyKinds
  BY <1>1, CopySource
<1>3. BySingle(p, y)[2] = p[1] /\ e[2] \in CopyKinds
  BY DEF BySingle, Lag
<1> QED
  BY <1>2, <1>3

LEMMA AddEdgesEffect ==
  ASSUME POCRTypeOK, BothWays, Lag, NEW new, NEW read \in SUBSET GNodes, Given(new), POCRAddEdges(new, read)
  PROVE  /\ edges' = edges \union new /\ data' = data \union new
         /\ wl' = wl \union (new \ data) /\ keys' \subseteq GNodes
         /\ edges' \subseteq AllEdges /\ data' \subseteq edges' /\ wl' \subseteq edges'
         /\ BothWays' /\ Lag'
<1>1. new \intersect edges \subseteq data
  BY GivenNotLagging
<1>2. wl' = wl \union (new \ data)
  BY <1>1 DEF POCRAddEdges
<1>3. data \subseteq edges /\ edges \subseteq AllEdges /\ keys \subseteq GNodes /\ wl \subseteq edges
  BY DEF POCRTypeOK, TypeOK
<1>4. data' = data \union new /\ edges' = edges \union new
  BY <1>3 DEF POCRAddEdges
<1>5. new \subseteq AllEdges
  BY DEF Given
<1>6. keys' \subseteq GNodes
  <2>1. \A e \in new : e[1] \in GNodes
    BY <1>5 DEF AllEdges
  <2> QED
    BY <2>1, <1>3 DEF POCRAddEdges
<1>7. BothWays' /\ Lag'
  BY <1>3, <1>4, LagKept, GivenBothWays
<1> QED
  BY <1>2, <1>3, <1>4, <1>5, <1>6, <1>7

-----------------------------------------------------------------------------
(* The invariant, one action at a time.                                    *)

LEMMA POCRInitInv == POCRInit => POCRInv
<1> SUFFICES ASSUME POCRInit
             PROVE  POCRInv
  OBVIOUS
<1>1. edges \subseteq AllEdges /\ data = edges
  BY GraphsAssumption DEF POCRInit, Init
<1>2. keys \subseteq GNodes
  BY <1>1 DEF POCRInit, Init, AllEdges
<1> QED
  BY <1>1, <1>2, PairedAssumption
     DEF POCRInit, Init, POCRInv, POCRTypeOK, TypeOK, TodoReads, BothWays, Lag, POCRCovered,
         Productions

LEMMA POCRInitializeInv == POCRInv /\ POCRInitialize => POCRInv'
<1> SUFFICES ASSUME POCRInv, POCRInitialize
             PROVE  POCRInv'
  OBVIOUS
<1>1. PICK new : /\ new = EpsilonEdges(keys) \ data
                 /\ data' = data \union new /\ edges' = edges \union new
                 /\ wl' = wl \union edges' \union {NullEdge : e \in new \intersect edges}
  BY DEF POCRInitialize
<1>2. /\ pc = "initialize" /\ pc' = "pop" /\ UNCHANGED <<keys, cur, todo>>
      /\ edges \subseteq AllEdges /\ data \subseteq edges /\ wl \subseteq edges
      /\ keys \subseteq GNodes /\ todo \subseteq Productions /\ BothWays /\ Lag
  BY DEF POCRInitialize, POCRInv, POCRTypeOK, TypeOK
<1>3. Given(new)
  BY <1>1, <1>2, EpsilonGiven DEF Given
<1>4. new \intersect edges = {}
  BY <1>1, <1>2, <1>3, GivenNotLagging
<1>5. wl' = edges'
  BY <1>1, <1>2, <1>4
<1>6. new \subseteq AllEdges
  BY <1>3 DEF Given
<1>7. POCRTypeOK'
  BY <1>1, <1>2, <1>5, <1>6 DEF POCRTypeOK, TypeOK
<1>8. BothWays' /\ Lag'
  BY <1>1, <1>2, <1>3, LagKept, GivenBothWays
<1>9. TodoReads'
  BY <1>2 DEF TodoReads
<1>10. POCRCovered'
  BY <1>5, <1>7 DEF POCRCovered, POCRSinglesCovered, POCRPairsCovered, POCRTypeOK, TypeOK
<1> QED
  BY <1>7, <1>8, <1>9, <1>10 DEF POCRInv

\* Lag speaks of the graph and the maps alone.
LEMMA LagUnchanged == Lag /\ UNCHANGED <<edges, data>> => Lag'
  BY DEF Lag

LEMMA POCRControlInv == POCRInv /\ POCRControl => POCRInv'
<1> SUFFICES ASSUME POCRInv, POCRControl
             PROVE  POCRInv'
  OBVIOUS
<1>1. UNCHANGED <<edges, data, keys>>
  BY DEF POCRControl, PopEdge, EndSingle, EndFirst, EndEdge
<1>2. BothWays' /\ Lag'
  BY <1>1, LagUnchanged, BothWaysUnchanged DEF POCRInv
<1>3. CASE PopEdge
  <2>1. PICK y \in wl : wl' = wl \ {y} /\ cur' = y /\ todo' = {p \in SingleProds : p[2] = y[2]}
    BY <1>3 DEF PopEdge
  <2>2. pc = "pop" /\ pc' = "single"
    BY <1>3 DEF PopEdge
  <2>3. POCRTypeOK' /\ TodoReads'
    BY <1>1, <2>1, <2>2 DEF POCRInv, POCRTypeOK, TypeOK, TodoReads, Productions
  <2>4. POCRSinglesCovered'
    BY <1>1, <2>1, <2>2 DEF POCRInv, POCRCovered, POCRSinglesCovered, SingleOwed
  <2>5. POCRPairsCovered'
    BY <1>1, <2>1, <2>2 DEF POCRInv, POCRCovered, POCRPairsCovered, FirstOwed, SecondOwed
  <2> QED
    BY <1>2, <2>3, <2>4, <2>5 DEF POCRInv, POCRCovered
<1>4. CASE EndSingle \/ EndFirst \/ EndEdge
  <2>1. POCRTypeOK' /\ TodoReads'
    BY <1>1, <1>4
       DEF POCRInv, POCRTypeOK, TypeOK, TodoReads, EndSingle, EndFirst, EndEdge, Productions
  <2>2. POCRSinglesCovered'
    BY <1>1, <1>4
       DEF POCRInv, POCRCovered, POCRSinglesCovered, SingleOwed, EndSingle, EndFirst, EndEdge
  <2>3. POCRPairsCovered'
    BY <1>1, <1>4
       DEF POCRInv, POCRCovered, POCRPairsCovered, FirstOwed, SecondOwed, EndSingle, EndFirst,
           EndEdge
  <2> QED
    BY <1>2, <2>1, <2>2, <2>3 DEF POCRInv, POCRCovered
<1> QED
  BY <1>3, <1>4 DEF POCRControl

LEMMA POCRApplySingleInv == POCRInv /\ POCRApplySingle => POCRInv'
<1> SUFFICES ASSUME POCRInv, POCRApplySingle
             PROVE  POCRInv'
  OBVIOUS
<1>1. PICK p \in todo : POCRAddEdges({BySingle(p, cur)}, {}) /\ todo' = todo \ {p}
  BY DEF POCRApplySingle
<1>2. pc = "single" /\ pc' = "single" /\ cur' = cur
  BY DEF POCRApplySingle
<1>3. p \in SingleProds /\ p[2] = cur[2] /\ cur \in edges /\ edges \subseteq AllEdges
  BY <1>2 DEF POCRInv, POCRTypeOK, TypeOK, TodoReads
<1>4. PICK new : new = {BySingle(p, cur)} /\ Given(new) /\ POCRAddEdges(new, {})
  BY <1>1, <1>3, SingleGiven
<1>5. /\ edges' = edges \union new /\ data' = data \union new
      /\ wl' = wl \union (new \ data) /\ keys' \subseteq GNodes
      /\ edges' \subseteq AllEdges /\ data' \subseteq edges' /\ wl' \subseteq edges'
      /\ BothWays' /\ Lag'
  BY <1>4, AddEdgesEffect DEF POCRInv
<1>6. POCRTypeOK' /\ TodoReads'
  BY <1>1, <1>2, <1>5 DEF POCRInv, POCRTypeOK, TypeOK, TodoReads
<1>7. data \subseteq edges
  BY DEF POCRInv, POCRTypeOK, TypeOK
<1>8. POCRSinglesCovered'
  <2> SUFFICES ASSUME NEW q \in SingleProds, NEW y \in edges', q[2] = y[2]
               PROVE  BySingle(q, y) \in data' \/ y \in wl' \/ (y = cur' /\ SingleOwed(q)')
    BY DEF POCRSinglesCovered
  <2>1. CASE y \in edges
    BY <2>1, <1>1, <1>2, <1>4, <1>5 DEF POCRInv, POCRCovered, POCRSinglesCovered, SingleOwed
  <2>2. CASE y \notin edges
    BY <2>2, <1>5, <1>7
  <2> QED
    BY <2>1, <2>2
<1>9. POCRPairsCovered'
  BY <1>1, <1>2, <1>5 DEF POCRInv, POCRCovered, POCRPairsCovered, FirstOwed, SecondOwed
<1> QED
  BY <1>5, <1>6, <1>8, <1>9 DEF POCRInv, POCRCovered

LEMMA POCRApplyFirstInv == POCRInv /\ POCRApplyFirst => POCRInv'
<1> SUFFICES ASSUME POCRInv, POCRApplyFirst
             PROVE  POCRInv'
  OBVIOUS
<1>1. PICK p \in todo : POCRAddEdges(ByFirst(p, cur, data), {cur[3]}) /\ todo' = todo \ {p}
  BY DEF POCRApplyFirst
<1>2. pc = "first" /\ pc' = "first" /\ cur' = cur
  BY DEF POCRApplyFirst
<1>3. /\ p \in PairProds /\ cur \in AllEdges /\ edges \in SUBSET AllEdges
      /\ data \in SUBSET AllEdges /\ data \subseteq edges
  BY <1>2 DEF POCRInv, POCRTypeOK, TypeOK, TodoReads
<1>4. PICK new : new = ByFirst(p, cur, data) /\ POCRAddEdges(new, {cur[3]})
  BY <1>1
<1>5. Given(new)
  <2>1. new \in SUBSET AllEdges
    BY <1>3, <1>4, ByFirstType
  <2>2. \A e \in new : e[2] = p[1]
    BY <1>4 DEF ByFirst
  <2> QED
    BY <2>1, <2>2, <1>3, PairGiven
<1>6. {cur[3]} \in SUBSET GNodes
  BY <1>3 DEF AllEdges
<1>7. /\ edges' = edges \union new /\ data' = data \union new
      /\ wl' = wl \union (new \ data) /\ keys' \subseteq GNodes
      /\ edges' \subseteq AllEdges /\ data' \subseteq edges' /\ wl' \subseteq edges'
      /\ BothWays' /\ Lag'
  BY <1>4, <1>5, <1>6, AddEdgesEffect DEF POCRInv
<1>8. POCRTypeOK' /\ TodoReads'
  BY <1>1, <1>2, <1>7 DEF POCRInv, POCRTypeOK, TypeOK, TodoReads
<1>9. POCRSinglesCovered'
  BY <1>2, <1>3, <1>7 DEF POCRInv, POCRCovered, POCRSinglesCovered, SingleOwed
<1>10. \A z \in data : p[3] = z[2] /\ cur[3] = z[1] => <<cur[1], p[1], z[3]>> \in new
  BY <1>4 DEF ByFirst
<1>11. POCRPairsCovered'
  BY <1>1, <1>2, <1>7, <1>10 DEF POCRInv, POCRCovered, POCRPairsCovered, FirstOwed, SecondOwed
<1> QED
  BY <1>7, <1>8, <1>9, <1>11 DEF POCRInv, POCRCovered

LEMMA POCRApplySecondInv == POCRInv /\ POCRApplySecond => POCRInv'
<1> SUFFICES ASSUME POCRInv, POCRApplySecond
             PROVE  POCRInv'
  OBVIOUS
<1>1. PICK p \in todo : POCRAddEdges(BySecond(p, cur, data), {}) /\ todo' = todo \ {p}
  BY DEF POCRApplySecond
<1>2. pc = "second" /\ pc' = "second" /\ cur' = cur
  BY DEF POCRApplySecond
<1>3. /\ p \in PairProds /\ cur \in AllEdges /\ edges \in SUBSET AllEdges
      /\ data \in SUBSET AllEdges /\ data \subseteq edges
  BY <1>2 DEF POCRInv, POCRTypeOK, TypeOK, TodoReads
<1>4. PICK new : new = BySecond(p, cur, data) /\ POCRAddEdges(new, {})
  BY <1>1
<1>5. Given(new)
  <2>1. new \in SUBSET AllEdges
    BY <1>3, <1>4, BySecondType
  <2>2. \A e \in new : e[2] = p[1]
    BY <1>4 DEF BySecond
  <2> QED
    BY <2>1, <2>2, <1>3, PairGiven
<1>6. /\ edges' = edges \union new /\ data' = data \union new
      /\ wl' = wl \union (new \ data) /\ keys' \subseteq GNodes
      /\ edges' \subseteq AllEdges /\ data' \subseteq edges' /\ wl' \subseteq edges'
      /\ BothWays' /\ Lag'
  BY <1>4, <1>5, AddEdgesEffect DEF POCRInv
<1>7. POCRTypeOK' /\ TodoReads'
  BY <1>1, <1>2, <1>6 DEF POCRInv, POCRTypeOK, TypeOK, TodoReads
<1>8. POCRSinglesCovered'
  BY <1>2, <1>3, <1>6 DEF POCRInv, POCRCovered, POCRSinglesCovered, SingleOwed
<1>9. \A y \in data : p[2] = y[2] /\ y[3] = cur[1] => <<y[1], p[1], cur[3]>> \in new
  BY <1>4 DEF BySecond
<1>10. POCRPairsCovered'
  BY <1>1, <1>2, <1>6, <1>9 DEF POCRInv, POCRCovered, POCRPairsCovered, FirstOwed, SecondOwed
<1> QED
  BY <1>6, <1>7, <1>8, <1>10 DEF POCRInv, POCRCovered

\* A call is connected when all copies the graph gives by itself are in the maps.
LEMMA UpdateCallGraphLag ==
  ASSUME POCRInv, POCRUpdateCallGraph
  PROVE  Lag'
<1>1. pc = "pop" /\ wl = {} /\ data' = data /\ edges \in SUBSET AllEdges
  BY DEF POCRUpdateCallGraph, UpdateCallGraph, POCRInv, POCRTypeOK, TypeOK
<1>2. PICK new : /\ new = CallEdges(edges) /\ edges' = edges \union new
                 /\ \A e \in new : e[2] \in CopyKinds
  BY <1>1, CallEdgesType DEF POCRUpdateCallGraph, UpdateCallGraph
<1>3. \A p \in SingleProds, y \in edges : p[2] = y[2] => BySingle(p, y) \in data
  BY <1>1 DEF POCRInv, POCRCovered, POCRSinglesCovered, SingleOwed
<1> SUFFICES ASSUME NEW e \in edges' \ data
             PROVE  /\ e \in Connected(edges')
                    /\ e[2] \in CopyKinds
                    /\ \A p \in SingleProds, y \in edges' : p[2] = y[2] => BySingle(p, y) # e
  BY <1>1 DEF Lag
<1>4. e[2] \in CopyKinds
  BY <1>2 DEF POCRInv, Lag
<1>5. e \in Connected(edges')
  <2>1. e \in Connected(edges)
    BY <1>2, CallEdgesConnected DEF POCRInv, Lag
  <2> QED
    BY <1>2, <2>1, ConnectedGrows
<1>6. ASSUME NEW p \in SingleProds, NEW y \in new, p[2] = y[2]
      PROVE  BySingle(p, y) # e
  <2>1. p[2] \notin CopySources
    BY <1>2, <1>6, CopyAssumption
  <2>2. p[1] \notin CopyKinds
    BY <2>1, CopySource
  <2> QED
    BY <2>2, <1>4 DEF BySingle
<1> QED
  BY <1>2, <1>3, <1>4, <1>5, <1>6

LEMMA POCRUpdateCallGraphInv == POCRInv /\ POCRUpdateCallGraph => POCRInv'
<1> SUFFICES ASSUME POCRInv, POCRUpdateCallGraph
             PROVE  POCRInv'
  OBVIOUS
<1>1. /\ pc = "pop" /\ wl = {} /\ UNCHANGED <<data, keys, cur, todo>>
      /\ pc' = IF wl' = {} THEN "done" ELSE "initialize"
      /\ edges \in SUBSET AllEdges /\ data \subseteq edges
  BY DEF POCRUpdateCallGraph, UpdateCallGraph, POCRInv, POCRTypeOK, TypeOK
<1>2. /\ CallEdges(edges) \intersect edges = {}
      /\ CallPushes(edges) = CallEdges(edges)
      /\ Calls # {} => Paired(edges \union CallEdges(edges))
  <2>1. \A p \in SingleProds, y \in edges : p[2] = y[2] => BySingle(p, y) \in edges
    BY <1>1 DEF POCRInv, POCRCovered, POCRSinglesCovered, SingleOwed
  <2> QED
    BY <1>1, <2>1, CallsFresh DEF POCRInv
<1>3. PICK new : /\ new = CallEdges(edges) /\ new \subseteq AllEdges
                 /\ edges' = edges \union new /\ wl' = new
  BY <1>1, <1>2, CallEdgesType DEF POCRUpdateCallGraph, UpdateCallGraph
<1>4. POCRTypeOK' /\ TodoReads'
  BY <1>1, <1>3 DEF POCRInv, POCRTypeOK, TypeOK, TodoReads
<1>5. BothWays' /\ Lag'
  BY <1>2, <1>3, UpdateCallGraphLag DEF BothWays
<1>6. CASE pc' = "initialize"
  BY <1>4, <1>5, <1>6 DEF POCRInv, POCRCovered
<1>7. CASE pc' = "done"
  <2>1. wl' = {} /\ edges' = edges
    BY <1>1, <1>3, <1>7
  <2>2. POCRSinglesCovered' /\ POCRPairsCovered'
    BY <2>1, <1>1, <1>7
       DEF POCRInv, POCRCovered, POCRSinglesCovered, POCRPairsCovered, SingleOwed, FirstOwed, SecondOwed
  <2> QED
    BY <2>2, <1>4, <1>5 DEF POCRInv, POCRCovered
<1> QED
  BY <1>1, <1>6, <1>7

LEMMA POCRStepInv == POCRInv /\ [POCRNext]_pocrVars => POCRInv'
<1>1. ASSUME POCRInv, UNCHANGED pocrVars
      PROVE  POCRInv'
  <2>1. POCRTypeOK' /\ TodoReads' /\ BothWays' /\ Lag'
    BY <1>1, LagUnchanged, BothWaysUnchanged DEF pocrVars, vars, POCRInv, POCRTypeOK, TypeOK, TodoReads
  <2>2. POCRCovered'
    BY <1>1 DEF pocrVars, vars, POCRInv, POCRCovered, POCRSinglesCovered, POCRPairsCovered,
                SingleOwed, FirstOwed, SecondOwed
  <2> QED
    BY <2>1, <2>2 DEF POCRInv
<1> QED
  BY <1>1, POCRInitializeInv, POCRControlInv, POCRApplySingleInv, POCRApplyFirstInv,
     POCRApplySecondInv, POCRUpdateCallGraphInv DEF POCRNext

LEMMA POCRInvHolds == POCRSpec => []POCRInv
  BY POCRInitInv, POCRStepInv, PTL DEF POCRSpec

(***************************************************************************)
(* The variables keep their types: what is popped is always an edge of the *)
(* graph, never the null addCFLEdge answers for an edge the maps lack and  *)
(* the graph has, or for a copybar edge addCopyEdge did not look for.      *)
(* (POCRSolver::processCFLEdge, CFLAlias::addCopyEdge)                     *)
(***************************************************************************)
THEOREM MapsTypeCorrect == POCRSpec => []POCRTypeOK
<1>1. POCRInv => POCRTypeOK
  BY DEF POCRInv
<1> QED
  BY <1>1, POCRInvHolds, PTL

-----------------------------------------------------------------------------
(* The graph is closed when the solver stops, but for what its maps lack.  *)

\* Nothing waits and nothing is owed once the solver has stopped.
DoneEmpty == pc = "done" => wl = {}

LEMMA DoneEmptyHolds == POCRSpec => []DoneEmpty
<1>1. POCRInit => DoneEmpty
  BY DEF POCRInit, Init, DoneEmpty
<1>2. DoneEmpty /\ [POCRNext]_pocrVars => DoneEmpty'
  <2> SUFFICES ASSUME DoneEmpty, [POCRNext]_pocrVars
               PROVE  DoneEmpty'
    OBVIOUS
  <2>1. CASE UNCHANGED pocrVars
    BY <2>1 DEF pocrVars, vars, DoneEmpty
  <2>2. CASE POCRUpdateCallGraph
    BY <2>2 DEF POCRUpdateCallGraph, UpdateCallGraph, DoneEmpty
  <2>3. CASE \/ POCRInitialize \/ POCRControl
             \/ POCRApplySingle \/ POCRApplyFirst \/ POCRApplySecond
    BY <2>3 DEF DoneEmpty, POCRInitialize, POCRControl, PopEdge, EndSingle, EndFirst, EndEdge,
                POCRApplySingle, POCRApplyFirst, POCRApplySecond
  <2> QED
    BY <2>1, <2>2, <2>3 DEF POCRNext
<1> QED
  BY <1>1, <1>2, PTL DEF POCRSpec

LEMMA CoveredCloses == POCRInv /\ DoneEmpty => ProductionsApplied
<1> SUFFICES ASSUME POCRInv, DoneEmpty, pc = "done"
             PROVE  /\ \A y \in edges, p \in SingleProds :
                           p[2] = y[2] => BySingle(p, y) \in edges
                    /\ \A y \in data, p \in PairProds : PairApplied(p, y, data)
                    /\ edges \ data \subseteq Connected(edges)
  BY DEF ProductionsApplied
<1>1. POCRSinglesCovered /\ POCRPairsCovered /\ wl = {} /\ data \subseteq edges
  BY DEF POCRInv, POCRCovered, POCRTypeOK, TypeOK, DoneEmpty
<1>2. \A y \in edges, p \in SingleProds : p[2] = y[2] => BySingle(p, y) \in edges
  BY <1>1 DEF POCRSinglesCovered, SingleOwed
<1>3. \A y \in data, p \in PairProds : PairApplied(p, y, data)
  <2> SUFFICES ASSUME NEW y \in data, NEW p \in PairProds, NEW z \in data,
                      p[2] = y[2], z[1] = y[3], z[2] = p[3]
               PROVE  <<y[1], p[1], z[3]>> \in edges
    BY DEF PairApplied, ByFirst
  <2> QED
    BY <1>1 DEF POCRPairsCovered, FirstOwed, SecondOwed
<1>4. edges \ data \subseteq Connected(edges)
  BY DEF POCRInv, Lag
<1> QED
  BY <1>2, <1>3, <1>4

(***************************************************************************)
(* For every grammar, graph and set of calls: when the solver stops every  *)
(* production has been applied to every edge of the graph, whichever of    *)
(* its edges came first, but for productions of two symbols that one of    *)
(* the copies of a resolved call belongs to.  (processCFLEdge,             *)
(* CFLAlias::addCopyEdge)                                                  *)
(***************************************************************************)
THEOREM Closed == POCRSpec => []ProductionsApplied
  BY POCRInvHolds, DoneEmptyHolds, CoveredCloses, PTL

-----------------------------------------------------------------------------
(* The refinement: every step adds derivable edges or none.                *)

POCRDerived == POCRAbs!Derivable(edges)

LEMMA POCRSameSingle ==
  ASSUME NEW p, NEW y
  PROVE  POCRAbs!BySingle(p, y) = BySingle(p, y)
  BY DEF BySingle, POCRAbs!BySingle

LEMMA POCRSameFirst ==
  ASSUME NEW p, NEW y, NEW E
  PROVE  POCRAbs!ByFirst(p, y, E) = ByFirst(p, y, E)
  BY DEF ByFirst, POCRAbs!ByFirst

LEMMA POCRSameCalls ==
  ASSUME NEW E
  PROVE  POCRAbs!CallEdges(E) = CallEdges(E)
  BY DEF CallEdges, POCRAbs!CallEdges, Reached, POCRAbs!Reached, CopyEdges, POCRAbs!CopyEdges

LEMMA POCREpsilonDerivable ==
  ASSUME POCRTypeOK
  PROVE  EpsilonEdges(keys) \subseteq POCRDerived
<1>1. EpsilonEdges(keys) \subseteq POCRAbs!EpsilonEdges(GNodes)
  BY DEF POCRTypeOK, TypeOK, EpsilonEdges, POCRAbs!EpsilonEdges
<1> QED
  BY <1>1 DEF POCRDerived, POCRAbs!Derivable

LEMMA POCRSingleDerivable ==
  ASSUME NEW p \in SingleProds, NEW y \in edges, p[2] = y[2]
  PROVE  BySingle(p, y) \in POCRDerived
  BY POCRSameSingle DEF POCRDerived, POCRAbs!Derivable, POCRAbs!SingleEdges

\* What the maps give follows from the graph, which has all their edges.
LEMMA POCRFirstDerivable ==
  ASSUME NEW p \in PairProds, NEW y \in edges, p[2] = y[2], data \subseteq edges
  PROVE  ByFirst(p, y, data) \subseteq POCRDerived
<1>1. ByFirst(p, y, data) \subseteq ByFirst(p, y, edges)
  BY DEF ByFirst
<1>2. ByFirst(p, y, edges) \subseteq POCRDerived
  BY POCRSameFirst DEF POCRDerived, POCRAbs!Derivable, POCRAbs!PairEdges
<1> QED
  BY <1>1, <1>2

LEMMA POCRSecondDerivable ==
  ASSUME NEW p \in PairProds, NEW z \in edges, p[3] = z[2], data \subseteq edges
  PROVE  BySecond(p, z, data) \subseteq POCRDerived
<1> SUFFICES ASSUME NEW y \in data, y[3] = z[1], y[2] = p[2]
             PROVE  <<y[1], p[1], z[3]>> \in POCRDerived
  BY DEF BySecond
<1>1. <<y[1], p[1], z[3]>> \in ByFirst(p, y, edges)
  BY DEF ByFirst
<1>2. ByFirst(p, y, edges) \subseteq POCRDerived
  BY POCRSameFirst DEF POCRDerived, POCRAbs!Derivable, POCRAbs!PairEdges
<1> QED
  BY <1>1, <1>2

LEMMA POCRCallsDerivable == CallEdges(edges) \subseteq POCRDerived
  BY POCRSameCalls DEF POCRDerived, POCRAbs!Derivable

LEMMA POCRInitImplements == POCRInit => POCRAbs!Init
  BY DEF POCRInit, Init, POCRAbs!Init

\* A step that adds derivable edges is a Derive step.
LEMMA POCRDeriveStep ==
  ASSUME POCRTypeOK', NEW new \in SUBSET POCRDerived, edges' = edges \union new
  PROVE  POCRAbs!Next
<1>1. edges' \in SUBSET POCRAbs!AllEdges
  BY DEF POCRTypeOK, TypeOK, AllEdges, POCRAbs!AllEdges
<1>2. edges \subseteq edges' /\ edges' \subseteq edges \union POCRAbs!Derivable(edges)
  BY DEF POCRDerived
<1>3. POCRAbs!Derive
  BY <1>1, <1>2 DEF POCRAbs!Derive
<1> QED
  BY <1>3 DEF POCRAbs!Next

LEMMA POCRStepImplements ==
  POCRInv /\ POCRInv' /\ [POCRNext]_pocrVars => [POCRAbs!Next]_(POCRAbs!absVars)
<1> SUFFICES ASSUME POCRInv, POCRInv', [POCRNext]_pocrVars
             PROVE  POCRAbs!Next \/ UNCHANGED POCRAbs!absVars
  OBVIOUS
<1> USE DEF POCRInv
<1>0. data \subseteq edges
  BY DEF POCRTypeOK, TypeOK
<1>1. CASE POCRInitialize
  <2>1. PICK new \in SUBSET EpsilonEdges(keys) : edges' = edges \union new
    BY <1>1 DEF POCRInitialize
  <2> QED
    BY <2>1, POCREpsilonDerivable, POCRDeriveStep
<1>2. CASE POCRApplySingle
  <2>1. PICK p \in todo : edges' = edges \union ({BySingle(p, cur)} \ data)
    BY <1>2 DEF POCRApplySingle, POCRAddEdges
  <2>2. p \in SingleProds /\ p[2] = cur[2] /\ cur \in edges
    BY <1>2 DEF POCRApplySingle, POCRTypeOK, TypeOK, TodoReads
  <2>3. {BySingle(p, cur)} \ data \in SUBSET POCRDerived
    BY <2>2, POCRSingleDerivable
  <2> QED
    BY <2>1, <2>3, POCRDeriveStep
<1>3. CASE POCRApplyFirst
  <2>1. PICK p \in todo : edges' = edges \union (ByFirst(p, cur, data) \ data)
    BY <1>3 DEF POCRApplyFirst, POCRAddEdges
  <2>2. p \in PairProds /\ p[2] = cur[2] /\ cur \in edges
    BY <1>3 DEF POCRApplyFirst, POCRTypeOK, TypeOK, TodoReads
  <2>3. ByFirst(p, cur, data) \ data \in SUBSET POCRDerived
    BY <1>0, <2>2, POCRFirstDerivable
  <2> QED
    BY <2>1, <2>3, POCRDeriveStep
<1>4. CASE POCRApplySecond
  <2>1. PICK p \in todo : edges' = edges \union (BySecond(p, cur, data) \ data)
    BY <1>4 DEF POCRApplySecond, POCRAddEdges
  <2>2. p \in PairProds /\ p[3] = cur[2] /\ cur \in edges
    BY <1>4 DEF POCRApplySecond, POCRTypeOK, TypeOK, TodoReads
  <2>3. BySecond(p, cur, data) \ data \in SUBSET POCRDerived
    BY <1>0, <2>2, POCRSecondDerivable
  <2> QED
    BY <2>1, <2>3, POCRDeriveStep
<1>5. CASE POCRUpdateCallGraph
  BY <1>5, POCRCallsDerivable, POCRDeriveStep DEF POCRUpdateCallGraph, UpdateCallGraph
<1>6. CASE POCRControl
  BY <1>6 DEF POCRControl, PopEdge, EndSingle, EndFirst, EndEdge, POCRAbs!absVars
<1>7. CASE UNCHANGED pocrVars
  BY <1>7 DEF pocrVars, vars, POCRAbs!absVars
<1> QED
  BY <1>1, <1>2, <1>3, <1>4, <1>5, <1>6, <1>7 DEF POCRNext

(***************************************************************************)
(* Every edge the solver adds is derivable from the edges the graph then   *)
(* has, also while its maps lag behind the graph.  (processCFLEdge)        *)
(***************************************************************************)
THEOREM Derives == POCRSpec => OnlyDerivable
  BY POCRInvHolds, POCRInitImplements, POCRStepImplements, PTL
     DEF POCRSpec, OnlyDerivable, POCRAbs!Spec
=============================================================================
