-------------------------------- MODULE CFLGraph --------------------------------
(***************************************************************************)
(* The input of the CFL-reachability solvers: a graph whose edges carry    *)
(* symbols (Graphs/CFLGraph.h) and a normalised grammar, whose productions *)
(* have at most two symbols on the right (CFL/CFGrammar.h).  An edge X(i,j)*)
(* is <<i, X, j>>.                                                         *)
(***************************************************************************)
EXTENDS Naturals, FiniteSets

CONSTANTS
    GNodes,         \* the nodes of the graph
    Symbols,        \* terminals and nonterminals
    EpsilonProds,   \* X for X -> epsilon
    SingleProds,    \* <<X, Y>> for X -> Y
    PairProds,      \* <<X, Y, Z>> for X -> Y Z
    Graphs,         \* the graphs to solve, each a set of edges
    Calls,          \* the indirect calls of the program, see below
    Targets,        \* <<v, f>>: a V edge to v makes f a target (getCFLPts)
    StartKind, Copy, Copybar  \* symbols the clients name

AllEdges == GNodes \X Symbols \X GNodes

(***************************************************************************)
(* An indirect call through ptr that may reach the function fun, whose     *)
(* argument src and parameter dst are to be connected if it does.          *)
(***************************************************************************)
CallSites == [ptr : GNodes, fun : GNodes, src : GNodes, dst : GNodes]

ASSUME GrammarAssumption ==
    /\ EpsilonProds \subseteq Symbols
    /\ SingleProds \subseteq Symbols \X Symbols
    /\ PairProds \subseteq Symbols \X Symbols \X Symbols
    /\ {StartKind, Copy, Copybar} \subseteq Symbols

ASSUME GraphsAssumption ==
    /\ \A G \in Graphs : G \subseteq AllEdges
    /\ Calls \subseteq CallSites

(***************************************************************************)
(* The grammars of CFL/grammar derive copy and copybar from a terminal     *)
(* alone, if at all (copy -> vgep): one that no production gives.          *)
(***************************************************************************)
CopyKinds == {Copy, Copybar}
SourcesOf(X) == {p[2] : p \in {q \in SingleProds : q[1] = X}}
CopySources == SourcesOf(Copy) \union SourcesOf(Copybar)

ASSUME CopyAssumption ==
    /\ Copy # Copybar
    /\ \A p \in PairProds : p[1] \notin CopyKinds
    /\ \A X \in EpsilonProds : X \notin CopyKinds
    /\ \A X \in CopySources :
          /\ X \notin CopyKinds \union EpsilonProds
          /\ \A p \in SingleProds \union PairProds : p[1] # X

(***************************************************************************)
(* Calls are resolved for graphs built from a program alone, by            *)
(* buildBigraph or buildBiPEGgraph, and these add an edge together with    *)
(* its reverse: copy with copybar, vgep with vgepbar.                      *)
(***************************************************************************)
Forward(E, i, j) == \E X \in {Copy} \union SourcesOf(Copy) : <<i, X, j>> \in E
Backward(E, i, j) == \E X \in {Copybar} \union SourcesOf(Copybar) : <<i, X, j>> \in E

Paired(E) == \A i, j \in GNodes : Forward(E, i, j) <=> Backward(E, j, i)

ASSUME PairedAssumption == Calls # {} => \A G \in Graphs : Paired(G)

-----------------------------------------------------------------------------
\* The self edges of the epsilon productions.
EpsilonEdges(N) == {<<i, X, i>> : i \in N, X \in EpsilonProds}

\* What an edge y gives with production p alone, as first and as second symbol.
BySingle(p, y) == <<y[1], p[1], y[3]>>

ByFirst(p, y, E) == {<<y[1], p[1], z[3]>> : z \in {e \in E : e[1] = y[3] /\ e[2] = p[3]}}

BySecond(p, y, E) == {<<z[1], p[1], y[3]>> : z \in {e \in E : e[3] = y[1] /\ e[2] = p[2]}}

\* The calls whose function pointer has a V edge to one of the function's nodes.
Reached(E) == {c \in Calls : \E t \in Targets : t[2] = c.fun /\ <<c.ptr, StartKind, t[1]>> \in E}

\* The edges addCopyEdge adds for a call.
CopyEdges(c, E) ==
    IF <<c.src, Copy, c.dst>> \in E
      THEN {}
      ELSE {<<c.src, Copy, c.dst>>, <<c.dst, Copybar, c.src>>}

CallEdges(E) == UNION {CopyEdges(c, E) : c \in Reached(E)}

\* What addCFLEdge answers for an edge the graph has.
NullEdge == <<>>

\* What addCopyEdge pushes: it looks for the copy edge alone, and would push
\* the null it gets for a copybar edge that is there without it.
CallPushes(E) == {IF e \in E THEN NullEdge ELSE e : e \in CallEdges(E)}
=============================================================================
