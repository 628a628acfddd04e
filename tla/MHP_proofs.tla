------------------------------- MODULE MHP_proofs -------------------------------
(***************************************************************************)
(* Theorems about the thread creation tree and the interleaving analysis,  *)
(* for every set of programs and every bound on the threads of a run.      *)
(***************************************************************************)
EXTENDS MHP, FiniteSetTheorems, SequenceTheorems, WellFoundedInduction, TLAPS

-----------------------------------------------------------------------------
(* Induction, as a set of numbers. *)

Before == {p \in Nat \X Nat : p[1] < p[2]}

\* A set of numbers that holds 0 and every successor has them all.
LEMMA Inductive ==
  ASSUME NEW T, 0 \in T, \A n \in Nat : n \in T => n + 1 \in T
  PROVE  Nat \subseteq T
<1> SUFFICES ASSUME Nat \ T # {} PROVE FALSE
  OBVIOUS
<1>1. IsWellFoundedOn(Before, Nat)
  BY NatLessThanWellFounded DEF OpToRel, Before
<1>2. PICK m \in Nat \ T : \A n \in Nat \ T : ~ (<<n, m>> \in Before)
  BY <1>1, WFMin
<1>3. m # 0 /\ m - 1 \in Nat /\ m - 1 < m
  BY <1>2
<1>4. m - 1 \in T
  BY <1>2, <1>3 DEF Before
<1> QED
  BY <1>2, <1>3, <1>4

-----------------------------------------------------------------------------
(* Pushing a finite set to a worklist. *)

\* The sequence of s, if list gives those of the smaller sets.
ListStep(list, s) ==
  IF s = {} THEN <<>>
  ELSE LET x == CHOOSE y \in s : TRUE IN Append(list[s \ {x}], x)

IsListing(list, S) == \A s \in SUBSET S : list[s] = ListStep(list, s)

\* The recursion that lists the subsets of a finite set is defined.
LEMMA ListingExists ==
  ASSUME NEW S, IsFiniteSet(S)
  PROVE  \E list : list = [s \in SUBSET S |-> ListStep(list, s)]
<1> DEFINE Listing(list, n) ==
             \A s \in SUBSET S : Cardinality(s) <= n => list[s] = ListStep(list, s)
           T == {n \in Nat : \E list \in [SUBSET S -> Seq(S)] : Listing(list, n)}
<1>0. \A s \in SUBSET S : IsFiniteSet(s) /\ Cardinality(s) \in Nat
  BY FS_Subset, FS_CardinalityType
<1>1. 0 \in T
  <2>1. PICK list : list = [s \in SUBSET S |-> <<>>]
    OBVIOUS
  <2>2. list \in [SUBSET S -> Seq(S)]
    BY <2>1
  <2>3. ASSUME NEW s \in SUBSET S, Cardinality(s) <= 0 PROVE list[s] = ListStep(list, s)
    <3>1. s = {}
      BY <1>0, <2>3, FS_EmptySet
    <3> QED
      BY <2>1, <3>1 DEF ListStep
  <2> QED
    BY <2>2, <2>3
<1>2. ASSUME NEW n \in Nat, n \in T PROVE n + 1 \in T
  <2>1. PICK list \in [SUBSET S -> Seq(S)] : Listing(list, n)
    BY <1>2
  <2>2. PICK next : next = [s \in SUBSET S |-> ListStep(list, s)]
    OBVIOUS
  <2>3. ASSUME NEW s \in SUBSET S PROVE ListStep(list, s) \in Seq(S)
    <3>1. CASE s = {}
      BY <3>1 DEF ListStep
    <3>2. CASE s # {}
      <4>1. PICK x : x = CHOOSE y \in s : TRUE
        OBVIOUS
      <4>2. x \in S /\ s \ {x} \in SUBSET S
        BY <3>2, <4>1
      <4>3. Append(list[s \ {x}], x) \in Seq(S)
        BY <4>2
      <4> QED
        BY <3>2, <4>1, <4>3 DEF ListStep
    <3> QED
      BY <3>1, <3>2
  <2>4. next \in [SUBSET S -> Seq(S)]
    BY <2>2, <2>3
  <2>5. ASSUME NEW s \in SUBSET S, Cardinality(s) <= n + 1 PROVE next[s] = ListStep(next, s)
    <3>1. next[s] = ListStep(list, s)
      BY <2>2
    <3>2. CASE s = {}
      BY <3>1, <3>2 DEF ListStep
    <3>3. CASE s # {}
      <4>1. PICK x : x = CHOOSE y \in s : TRUE
        OBVIOUS
      <4>2. x \in s /\ s \ {x} \in SUBSET S
        BY <3>3, <4>1
      <4>3. Cardinality(s \ {x}) = Cardinality(s) - 1
        BY <1>0, <4>2, FS_RemoveElement
      <4>4. Cardinality(s \ {x}) <= n
        BY <1>0, <2>5, <4>3
      <4>5. list[s \ {x}] = ListStep(list, s \ {x})
        BY <2>1, <4>2, <4>4
      <4>6. next[s \ {x}] = list[s \ {x}]
        BY <2>2, <4>2, <4>5
      <4> QED
        BY <3>1, <3>3, <4>1, <4>6 DEF ListStep
    <3> QED
      BY <3>2, <3>3
  <2> QED
    BY <2>4, <2>5
<1>3. Cardinality(S) \in T
  <2> HIDE DEF T
  <2> QED
    BY <1>0, <1>1, <1>2, Inductive
<1>4. PICK list \in [SUBSET S -> Seq(S)] : Listing(list, Cardinality(S))
  BY <1>3
<1>5. \A s \in SUBSET S : list[s] = ListStep(list, s)
  BY <1>4, FS_Subset
<1>6. list = [s \in SUBSET S |-> ListStep(list, s)]
  BY <1>5
<1> QED
  BY <1>6

\* A collection that holds the empty set, and a set once it holds it less each of its
\* elements, has all subsets of a finite set.
LEMMA SubsetInduction ==
  ASSUME NEW S, IsFiniteSet(S), NEW D, {} \in D,
         \A s \in SUBSET S : s # {} /\ (\A x \in s : s \ {x} \in D) => s \in D
  PROVE  SUBSET S \subseteq D
<1> DEFINE T == {n \in Nat : \A s \in SUBSET S : Cardinality(s) <= n => s \in D}
<1>0. \A s \in SUBSET S : IsFiniteSet(s) /\ Cardinality(s) \in Nat /\ Cardinality(s) <= Cardinality(S)
  BY FS_Subset, FS_CardinalityType
<1>1. 0 \in T
  <2>1. ASSUME NEW s \in SUBSET S, Cardinality(s) <= 0 PROVE s \in D
    <3>1. s = {}
      BY <1>0, <2>1, FS_EmptySet
    <3> QED
      BY <3>1
  <2> QED
    BY <2>1
<1>2. ASSUME NEW n \in Nat, n \in T PROVE n + 1 \in T
  <2>1. ASSUME NEW s \in SUBSET S, Cardinality(s) <= n + 1 PROVE s \in D
    <3>1. CASE s # {}
      <4>1. ASSUME NEW x \in s PROVE s \ {x} \in D
        <5>1. Cardinality(s \ {x}) = Cardinality(s) - 1
          BY <1>0, FS_RemoveElement
        <5>2. Cardinality(s \ {x}) <= n /\ s \ {x} \in SUBSET S
          BY <1>0, <2>1, <5>1
        <5> QED
          BY <1>2, <5>2
      <4> QED
        BY <3>1, <4>1
    <3> QED
      BY <3>1
  <2> QED
    BY <2>1
<1>3. Cardinality(S) \in T
  <2> HIDE DEF T
  <2> QED
    BY <1>0, <1>1, <1>2, Inductive
<1> QED
  BY <1>0, <1>3

\* It gives a sequence over the set.
LEMMA ListingType ==
  ASSUME NEW S, IsFiniteSet(S), NEW list, IsListing(list, S)
  PROVE  list[S] \in Seq(S)
<1> DEFINE D == {s \in SUBSET S : list[s] \in Seq(S)}
<1>1. {} \in D
  <2>1. list[{}] = <<>>
    BY DEF IsListing, ListStep
  <2>2. <<>> \in Seq(S)
    OBVIOUS
  <2> QED
    BY <2>1, <2>2, Zenon
<1>2. ASSUME NEW s \in SUBSET S, s # {}, \A y \in s : s \ {y} \in D PROVE s \in D
  <2>1. PICK x : x = CHOOSE y \in s : TRUE
    OBVIOUS
  <2>2. x \in s /\ x \in S /\ s \ {x} \in D
    BY <1>2, <2>1
  <2>3. list[s] = Append(list[s \ {x}], x)
    BY <1>2, <2>1 DEF IsListing, ListStep
  <2>4. list[s \ {x}] \in Seq(S)
    BY <2>2
  <2>5. Append(list[s \ {x}], x) \in Seq(S)
    BY <2>2, <2>4
  <2> QED
    BY <2>3, <2>5, Zenon
<1>3. SUBSET S \subseteq D
  <2> HIDE DEF D
  <2> QED
    BY <1>1, <1>2, SubsetInduction
<1> QED
  BY <1>3

\* What Listed makes of a finite set is a sequence over it.
LEMMA ListedType ==
  ASSUME NEW S, IsFiniteSet(S)
  PROVE  Listed(S) \in Seq(S)
<1>1. PICK list : /\ list = CHOOSE g : g = [s \in SUBSET S |-> ListStep(g, s)]
                  /\ Listed(S) = list[S]
  BY DEF Listed, FoldSet, MapThenFoldSet, ListStep
<1>2. list = [s \in SUBSET S |-> ListStep(list, s)]
  BY <1>1, ListingExists
<1>3. IsListing(list, S)
  BY <1>2 DEF IsListing
<1> QED
  BY <1>1, <1>3, ListingType

-----------------------------------------------------------------------------
(* Finite programs. *)

\* The image of a finite set is finite.
LEMMA ImageFinite ==
  ASSUME NEW S, IsFiniteSet(S), NEW f, S \subseteq DOMAIN f
  PROVE  IsFiniteSet({f[x] : x \in S})
<1>1. PICK g : g = [x \in S |-> f[x]]
  OBVIOUS
<1>2. g \in Surjection(S, {f[x] : x \in S})
  BY <1>1 DEF Surjection
<1> QED
  BY <1>2, FS_Surjection

LEMMA NodesFinite ==
  ASSUME NEW p \in Programs
  PROVE  /\ IsFiniteSet(Nodes(p)) /\ IsFiniteSet(Sites(p))
         /\ \A n \in Nodes(p) : n = <<n[1], n[2]>> /\ n[1] \in Funs(p) /\ n[2] \in DOMAIN p.body[n[1]]
         /\ \A f \in Funs(p) : \A i \in DOMAIN p.body[f] : <<f, i>> \in Nodes(p)
         /\ \A f \in Funs(p) : 0 \notin DOMAIN p.body[f]
         /\ \A f \in Funs(p) : \A i \in DOMAIN p.body[f] : 1 \in DOMAIN p.body[f]
<1>1. PICK g : g = [f \in Funs(p) |-> {f} \X DOMAIN p.body[f]]
  OBVIOUS
<1>2. ASSUME NEW f \in Funs(p) PROVE IsFiniteSet(g[f])
  <2>1. PICK n \in Nat : n = Len(p.body[f]) /\ DOMAIN p.body[f] = 1 .. n
    BY ProgramsAssumption
  <2>2. IsFiniteSet(1 .. n)
    BY FS_Interval
  <2>3. IsFiniteSet({f} \X (1 .. n))
    BY <2>2, FS_Singleton, FS_Product
  <2> QED
    BY <1>1, <2>1, <2>3
<1>3. Nodes(p) = UNION {g[f] : f \in Funs(p)}
  BY <1>1 DEF Nodes
<1>4. IsFiniteSet({g[f] : f \in Funs(p)})
  <2>1. IsFiniteSet(Funs(p)) /\ Funs(p) \subseteq DOMAIN g
    BY <1>1, ProgramsAssumption
  <2> QED
    BY <2>1, ImageFinite
<1>5. IsFiniteSet(Nodes(p))
  BY <1>2, <1>3, <1>4, FS_UNION
<1>6. IsFiniteSet(Sites(p))
  BY <1>5, FS_Subset DEF Sites
<1>7. /\ \A n \in Nodes(p) : n = <<n[1], n[2]>> /\ n[1] \in Funs(p) /\ n[2] \in DOMAIN p.body[n[1]]
      /\ \A f \in Funs(p) : \A i \in DOMAIN p.body[f] : <<f, i>> \in Nodes(p)
  BY DEF Nodes
<1>8. ASSUME NEW f \in Funs(p)
      PROVE  0 \notin DOMAIN p.body[f] /\ (\A i \in DOMAIN p.body[f] : 1 \in DOMAIN p.body[f])
  <2>1. PICK n \in Nat : n = Len(p.body[f]) /\ DOMAIN p.body[f] = 1 .. n
    BY ProgramsAssumption
  <2> QED
    BY <2>1
<1> QED
  BY <1>5, <1>6, <1>7, <1>8

-----------------------------------------------------------------------------
(* The thread creation tree. *)

RoutineCtp(t) == [tid |-> t, cxt |-> t[1], proc |-> Callee(program, t[2])]

\* What waits in the worklist has been visited, and belongs to a thread of the tree.
Known == ctpList \in Seq(visitedCTPs) /\ \A c \in visitedCTPs : c.tid \in DOMAIN routines

\* A thread but the main one has been visited at its routine, and one thread made it.
Made ==
  \A t \in DOMAIN routines \ {MainThread} :
      RoutineCtp(t) \in visitedCTPs /\ \E u : Parents(t) = {u}

\* Edges lead to threads of the tree, none to the main thread.
Ends == \A e \in tctEdges : e[2] \in DOMAIN routines /\ e[2] # MainThread

TreeInv == program \in Programs /\ Known /\ Made /\ Ends

LEMMA InitTree == Init => TreeInv
<1> SUFFICES ASSUME Init PROVE TreeInv
  OBVIOUS
<1>1. PICK main : main = CHOOSE f \in EntryFuns(program) : TRUE
  OBVIOUS
<1>2. PICK ctps : ctps = {[tid |-> MainThread, cxt |-> <<>>, proc |-> f] :
                             f \in {main} \intersect Candidates[program]}
  OBVIOUS
<1>3. /\ program \in Programs /\ ctpList = Listed(ctps) /\ visitedCTPs = ctps
      /\ routines = [t \in {c.tid : c \in ctps} |-> main] /\ tctEdges = {}
  BY <1>1, <1>2 DEF Init
<1>4. IsFiniteSet(ctps)
  <2>1. ctps \subseteq {[tid |-> MainThread, cxt |-> <<>>, proc |-> main]}
    BY <1>2
  <2>2. IsFiniteSet({[tid |-> MainThread, cxt |-> <<>>, proc |-> main]})
    BY FS_Singleton
  <2> QED
    BY <2>1, <2>2, FS_Subset
<1>5. Known
  <2>1. ctpList \in Seq(visitedCTPs)
    BY <1>3, <1>4, ListedType
  <2>2. \A c \in visitedCTPs : c.tid \in DOMAIN routines
    BY <1>3
  <2> QED
    BY <2>1, <2>2 DEF Known
<1>6. DOMAIN routines \subseteq {MainThread}
  BY <1>2, <1>3
<1> QED
  BY <1>3, <1>5, <1>6 DEF TreeInv, Made, Ends

LEMMA StepTree == TreeInv /\ handleCallRelations => TreeInv'
<1> SUFFICES ASSUME TreeInv, handleCallRelations PROVE TreeInv'
  OBVIOUS
<1> DEFINE c == Head(ctpList)
           sites == {s \in Sites(program) : s[1] = c.proc /\ isCandidateFun(c.proc)}
           forks == sites \intersect Forks(program)
           Thread(s) == IF s \in forks THEN Spawnee(c.cxt, s) ELSE c.tid
           Ctp(s) == [tid |-> Thread(s), cxt |-> PushCxt(c.cxt, s), proc |-> Callee(program, s)]
           new == {s \in sites : Ctp(s) \notin visitedCTPs}
           made == {Thread(s) : s \in forks} \ DOMAIN routines
           ctps == {Ctp(s) : s \in new}
<1>1. /\ ctpList # <<>>
      /\ ctpList' = Tail(ctpList) \o Listed(ctps)
      /\ visitedCTPs' = visitedCTPs \union ctps
      /\ DOMAIN routines' = made \union DOMAIN routines
      /\ tctEdges' = tctEdges \union {<<c.tid, Thread(s)>> : s \in new \intersect forks}
      /\ program' = program
  BY DEF handleCallRelations
<1>2. /\ program \in Programs /\ c \in visitedCTPs /\ Tail(ctpList) \in Seq(visitedCTPs)
      /\ c.tid \in DOMAIN routines
  <2>1. program \in Programs /\ ctpList \in Seq(visitedCTPs)
    BY DEF TreeInv, Known
  <2>2. c \in visitedCTPs /\ Tail(ctpList) \in Seq(visitedCTPs)
    <3>1. ctpList # <<>>
      BY <1>1
    <3> HIDE <1>1
    <3> QED
      BY <2>1, <3>1, HeadTailProperties
  <2>3. c.tid \in DOMAIN routines
    BY <2>2 DEF TreeInv, Known
  <2> QED
    BY <2>1, <2>2, <2>3
<1>3. DOMAIN routines' = made \union DOMAIN routines
  BY <1>1
<1>4. IsFiniteSet(ctps)
  <2>1. new \subseteq Sites(program) /\ IsFiniteSet(Sites(program))
    BY <1>2, NodesFinite
  <2>2. PICK f : f = [s \in new |-> Ctp(s)]
    OBVIOUS
  <2>3. ctps = {f[s] : s \in new} /\ new \subseteq DOMAIN f
    BY <2>2
  <2>4. IsFiniteSet(new)
    BY <2>1, FS_Subset
  <2> HIDE DEF ctps, new
  <2> QED
    BY <2>3, <2>4, ImageFinite
<1>5. \A s \in forks : /\ Thread(s) = <<PushCxt(c.cxt, s), s>> /\ Thread(s) # MainThread
                       /\ Ctp(s) = RoutineCtp(Thread(s))
  <2> SUFFICES ASSUME NEW s \in forks
               PROVE  /\ Thread(s) = <<PushCxt(c.cxt, s), s>> /\ Thread(s) # MainThread
                      /\ Ctp(s) = RoutineCtp(Thread(s))
    OBVIOUS
  <2>1. Thread(s) = <<PushCxt(c.cxt, s), s>> /\ s \in Nodes(program)
    BY DEF Spawnee, Sites
  <2>2. s[2] # 0
    BY <1>2, <2>1, NodesFinite
  <2>3. Thread(s)[2] = s /\ Thread(s)[1] = PushCxt(c.cxt, s)
    BY <2>1
  <2>4. Thread(s) # MainThread
    BY <2>2, <2>3 DEF MainThread, nullptr
  <2>5. Ctp(s) = RoutineCtp(Thread(s))
    BY <2>3 DEF RoutineCtp
  <2> QED
    BY <2>1, <2>4, <2>5
<1>6. \A s \in new : Ctp(s).tid \in made \union DOMAIN routines
  <2>1. ASSUME NEW s \in new PROVE Thread(s) \in made \union DOMAIN routines
    BY <1>2
  <2> QED
    BY <2>1
<1>7. Known'
  <2>1. Listed(ctps) \in Seq(ctps)
    BY <1>4, ListedType
  <2>2. Tail(ctpList) \in Seq(visitedCTPs') /\ Listed(ctps) \in Seq(visitedCTPs')
    BY <1>1, <1>2, <2>1, SeqMonotonic
  <2>3. ctpList' \in Seq(visitedCTPs')
    <3> HIDE DEF ctps, c
    <3> QED
      BY <1>1, <2>2
  <2>4. \A d \in visitedCTPs : d.tid \in DOMAIN routines'
    BY <1>3 DEF TreeInv, Known
  <2>5. \A d \in ctps : d.tid \in DOMAIN routines'
    BY <1>3, <1>6
  <2> QED
    BY <1>1, <2>3, <2>4, <2>5 DEF Known
<1>8. Ends'
  <2>1. ASSUME NEW s \in new \intersect forks
        PROVE  Thread(s) \in DOMAIN routines' /\ Thread(s) # MainThread
    BY <1>3, <1>5
  <2>2. \A e \in tctEdges : e[2] \in DOMAIN routines' /\ e[2] # MainThread
    BY <1>3 DEF TreeInv, Ends
  <2>3. ASSUME NEW e \in tctEdges' \ tctEdges
        PROVE  e[2] \in DOMAIN routines' /\ e[2] # MainThread
    <3>1. PICK s \in new \intersect forks : e = <<c.tid, Thread(s)>>
      BY <1>1, <2>3
    <3> QED
      BY <2>1, <3>1
  <2> QED
    BY <2>2, <2>3 DEF Ends
<1>9. Made'
  <2> SUFFICES ASSUME NEW t \in DOMAIN routines' \ {MainThread}
               PROVE  RoutineCtp(t)' \in visitedCTPs' /\ \E u : Parents(t)' = {u}
    BY DEF Made
  <2>1. RoutineCtp(t)' = RoutineCtp(t)
    BY <1>1 DEF RoutineCtp
  <2>2. Parents(t)' = Parents(t) \union {c.tid : s \in {r \in new \intersect forks : Thread(r) = t}}
    <3>1. ASSUME NEW u \in Parents(t)'
          PROVE  u \in Parents(t) \/ (u = c.tid /\ \E r \in new \intersect forks : Thread(r) = t)
      <4>1. PICK e \in tctEdges' : e[2] = t /\ u = e[1]
        BY DEF Parents
      <4>2. CASE e \in tctEdges
        BY <4>1, <4>2 DEF Parents
      <4>3. CASE e \notin tctEdges
        <5>1. PICK r \in new \intersect forks : e = <<c.tid, Thread(r)>>
          BY <1>1, <4>1, <4>3
        <5> QED
          BY <4>1, <5>1
      <4> QED
        BY <4>2, <4>3
    <3>2. Parents(t) \subseteq Parents(t)'
      BY <1>1 DEF Parents
    <3>3. ASSUME NEW r \in new \intersect forks, Thread(r) = t PROVE c.tid \in Parents(t)'
      <4>1. <<c.tid, t>> \in tctEdges'
        BY <1>1, <3>3
      <4> QED
        BY <4>1 DEF Parents
    <3> HIDE DEF new, forks, Thread, c
    <3> QED
      BY <3>1, <3>2, <3>3
  <2>3. CASE t \in DOMAIN routines
    <3>1. RoutineCtp(t) \in visitedCTPs /\ \E u : Parents(t) = {u}
      BY <2>3 DEF TreeInv, Made
    <3>2. ASSUME NEW r \in new \intersect forks, Thread(r) = t PROVE FALSE
      BY <1>5, <3>1, <3>2
    <3>3. Parents(t)' = Parents(t)
      BY <2>2, <3>2
    <3> QED
      BY <1>1, <2>1, <3>1, <3>3
  <2>4. CASE t \notin DOMAIN routines
    <3>1. PICK s \in forks : Thread(s) = t
      BY <1>3, <2>4
    <3>2. Ctp(s) = RoutineCtp(t) /\ Ctp(s).tid = t
      BY <1>5, <3>1
    <3>3. s \in new
      BY <2>4, <3>2 DEF TreeInv, Known
    <3>4. RoutineCtp(t) \in visitedCTPs'
      BY <1>1, <3>2, <3>3
    <3>5. Parents(t) = {}
      BY <2>4 DEF TreeInv, Ends, Parents
    <3>6. Parents(t)' = {c.tid}
      BY <2>2, <3>1, <3>3, <3>5
    <3> QED
      BY <2>1, <3>4, <3>6
  <2> QED
    BY <2>3, <2>4
<1> QED
  BY <1>1, <1>2, <1>7, <1>8, <1>9 DEF TreeInv

\* No other step touches the tree.
LEMMA StepsKeepTree == [Next]_vars => handleCallRelations \/ UNCHANGED <<program, tctVars>>
<1> SUFFICES ASSUME [Next]_vars, ~ handleCallRelations PROVE UNCHANGED <<program, tctVars>>
  OBVIOUS
<1>1. CASE UNCHANGED vars
  BY <1>1 DEF vars
<1>2. CASE Analysis
  BY <1>2 DEF Analysis, analyze, StartRoot, handleNonCandidateFun, handleFork, handleJoin,
              handleCall, handleRet, handleIntra, Visit, EndAnalysis
<1>3. CASE Run
  BY <1>3 DEF Run, RunStmt, RunFork, RunJoin, RunCall, RunExit, Ready
<1> QED
  BY <1>1, <1>2, <1>3 DEF Next

LEMMA NextTree == TreeInv /\ [Next]_vars => TreeInv'
<1> SUFFICES ASSUME TreeInv, UNCHANGED <<program, tctVars>> PROVE TreeInv'
  BY StepTree, StepsKeepTree
<1>1. \A t : RoutineCtp(t)' = RoutineCtp(t) /\ Parents(t)' = Parents(t)
  BY DEF RoutineCtp, Parents, tctVars
<1> QED
  BY <1>1 DEF TreeInv, Known, Made, Ends, tctVars

\* No thread is created by two threads, and every thread but the main one by another, in
\* every program: what TCT::getParentThread asserts, whose callers climb the tree with it.
THEOREM OneParentAlways == Spec => []OneParent
<1>1. TreeInv => OneParent
  <2> SUFFICES ASSUME TreeInv, NEW t \in DOMAIN routines
               PROVE  Cardinality(Parents(t)) = (IF t = MainThread THEN 0 ELSE 1)
    BY DEF OneParent
  <2>1. CASE t = MainThread
    <3>1. Parents(t) = {}
      BY <2>1 DEF TreeInv, Ends, Parents
    <3> QED
      BY <2>1, <3>1, FS_EmptySet
  <2>2. CASE t # MainThread
    <3>1. \E u : Parents(t) = {u}
      BY <2>2 DEF TreeInv, Made
    <3> QED
      BY <2>2, <3>1, FS_Singleton
  <2> QED
    BY <2>1, <2>2
<1> QED
  BY <1>1, InitTree, NextTree, PTL DEF Spec

-----------------------------------------------------------------------------
(* The interleaving analysis. *)

IsCts(c) == c = Cts(c.tid, c.cxt, c.node)

\* What is known is known of a thread statement.
Formed == \A e \in interleaving : e = <<e[1], e[2]>> /\ IsCts(e[1])

\* Once the analysis is done, what is known of a statement of a function that takes no
\* part in forking is known of all its statements, for the same thread and context.
Spread ==
  phase = "run" =>
      \A e \in interleaving :
          ~ isCandidateFun(e[1].node[1]) =>
              \A i \in DOMAIN program.body[e[1].node[1]] :
                  <<[e[1] EXCEPT !.node = <<e[1].node[1], i>>], e[2]>> \in interleaving

CacheInv == program \in Programs /\ Formed /\ Spread

LEMMA AtFormed ==
  ASSUME NEW c, IsCts(c), NEW n
  PROVE  [c EXCEPT !.node = n] = Cts(c.tid, c.cxt, n) /\ IsCts([c EXCEPT !.node = n])
<1>1. c = [tid |-> c.tid, cxt |-> c.cxt, node |-> c.node]
  BY DEF IsCts, Cts
<1>2. [c EXCEPT !.node = n] = Cts(c.tid, c.cxt, n)
  BY <1>1 DEF Cts
<1> QED
  BY <1>2 DEF IsCts, Cts

\* A visit adds what holds at a statement to others, which stays thread statements as
\* nothing holds at what is none.
LEMMA VisitFormed ==
  ASSUME Formed, NEW c, NEW targets, Visit(c, targets),
         IsCts(c) => \A d \in targets : IsCts(d)
  PROVE  Formed' /\ UNCHANGED <<program, phase>>
<1>1. interleaving' = interleaving \union (targets \X getInterleavingThreads(c))
  BY DEF Visit, addInterleavingThreads
<1>2. CASE getInterleavingThreads(c) = {}
  BY <1>1, <1>2 DEF Formed, Visit
<1>3. CASE getInterleavingThreads(c) # {}
  <2>1. IsCts(c)
    BY <1>3 DEF Formed, getInterleavingThreads
  <2>2. ASSUME NEW e \in interleaving' PROVE e = <<e[1], e[2]>> /\ IsCts(e[1])
    BY <1>1, <2>1 DEF Formed
  <2> QED
    BY <2>2 DEF Formed, Visit
<1> QED
  BY <1>2, <1>3

LEMMA InitCache == Init => CacheInv
BY DEF Init, CacheInv, Formed, Spread

LEMMA StartRootCache == Formed /\ StartRoot => Formed' /\ UNCHANGED <<program, phase>>
<1> SUFFICES ASSUME Formed, StartRoot PROVE Formed' /\ UNCHANGED <<program, phase>>
  OBVIOUS
<1>1. PICK t : t = Head(roots)
  OBVIOUS
<1>2. PICK X : X = {Cts(t, t[1], Entry(routines[t]))} \union AfterForks(t) \union SiblingEntries(t)
  OBVIOUS
<1>3. interleaving' = interleaving \union (X \X {t}) /\ UNCHANGED <<program, phase>>
  BY <1>1, <1>2 DEF StartRoot, addInterleavingThreads
<1>4. ASSUME NEW c \in X PROVE IsCts(c)
  <2>1. \A u, x, n : IsCts(Cts(u, x, n))
    BY DEF IsCts, Cts
  <2>2. CASE c \in {Cts(t, t[1], Entry(routines[t]))}
    BY <2>1, <2>2
  <2>3. CASE c \in AfterForks(t)
    <3>1. PICK u, n : c = Cts(getParentThread(u), forkCxts[u], n)
      BY <2>3 DEF AfterForks
    <3> QED
      BY <2>1, <3>1
  <2>4. CASE c \in SiblingEntries(t)
    <3>1. PICK u : c = Cts(u, u[1], Entry(routines[u]))
      BY <2>4 DEF SiblingEntries
    <3> QED
      BY <2>1, <3>1
  <2> QED
    BY <1>2, <2>2, <2>3, <2>4
<1>5. ASSUME NEW e \in interleaving' PROVE e = <<e[1], e[2]>> /\ IsCts(e[1])
  BY <1>3, <1>4 DEF Formed
<1> QED
  BY <1>3, <1>5 DEF Formed

\* The statement a handler visits is the head of its list.
VisitStep ==
  \/ handleNonCandidateFun \/ handleFork \/ handleJoin \/ handleCall \/ handleRet \/ handleIntra

LEMMA VisitStepCache == Formed /\ VisitStep => Formed' /\ UNCHANGED <<program, phase>>
<1> SUFFICES ASSUME Formed, VisitStep PROVE Formed' /\ UNCHANGED <<program, phase>>
  OBVIOUS
<1>1. PICK c : c = Head(cxtStmtList)
  OBVIOUS
<1>2. \A u, x, n : IsCts(Cts(u, x, n))
  BY DEF IsCts, Cts
<1>3. \A nodes : IsCts(c) => \A d \in At(c, nodes) : IsCts(d)
  BY AtFormed DEF At
<1>4. IsCts(c) => \A d \in Intra(c) : IsCts(d)
  BY <1>3 DEF Intra
<1>5. IsCts(Called(c))
  BY <1>2 DEF Called
<1>6. CASE handleNonCandidateFun
  <2>1. \E nodes : Visit(c, At(c, nodes))
    BY <1>1, <1>6 DEF handleNonCandidateFun
  <2> QED
    BY <1>3, <2>1, VisitFormed
<1>7. CASE handleFork
  <2>1. \E d : IsCts(d) /\ Visit(c, Intra(c) \union {d})
    BY <1>1, <1>2, <1>7 DEF handleFork
  <2> QED
    BY <1>4, <2>1, VisitFormed
<1>8. CASE handleJoin
  <2>1. \E nodes : Visit(c, Intra(c) \union At(c, nodes))
    BY <1>1, <1>8 DEF handleJoin
  <2> QED
    BY <1>3, <1>4, <2>1, VisitFormed
<1>9. CASE handleCall
  <2>1. \E goOn : goOn \in {{}, Intra(c)} /\ Visit(c, {Called(c)} \union goOn)
    BY <1>1, <1>9 DEF handleCall
  <2> QED
    BY <1>4, <1>5, <2>1, VisitFormed
<1>10. CASE handleRet
  <2> DEFINE sites == {s \in Sites(program) \ Forks(program) : Callee(program, s) = c.node[1]}
             cxts == UNION {MatchedCxts(c.cxt, s) : s \in sites}
             targets == {Cts(c.tid, x, n) : x \in cxts, n \in OutEdges(program, c.node)}
  <2>1. Visit(c, targets)
    BY <1>1, <1>10 DEF handleRet
  <2>2. \A d \in targets : IsCts(d)
    BY <1>2
  <2> HIDE DEF targets
  <2> QED
    BY <2>1, <2>2, VisitFormed
<1>11. CASE handleIntra
  BY <1>1, <1>4, <1>11, VisitFormed DEF handleIntra
<1> QED
  BY <1>6, <1>7, <1>8, <1>9, <1>10, <1>11 DEF VisitStep

\* What is known of the i-th statement of the same function.
CopyAt(e, i) == <<[e[1] EXCEPT !.node = <<e[1].node[1], i>>], e[2]>>

LEMMA CopyForm ==
  ASSUME NEW e, IsCts(e[1]), NEW i
  PROVE  CopyAt(e, i) = <<Cts(e[1].tid, e[1].cxt, <<e[1].node[1], i>>), e[2]>>
BY AtFormed DEF CopyAt

LEMMA CopyLemma ==
  ASSUME NEW e, IsCts(e[1]), NEW i
  PROVE  /\ IsCts(CopyAt(e, i)[1]) /\ CopyAt(e, i) = <<CopyAt(e, i)[1], CopyAt(e, i)[2]>>
         /\ CopyAt(e, i)[1].node[1] = e[1].node[1]
         /\ \A j : CopyAt(CopyAt(e, i), j) = CopyAt(e, j)
<1>1. PICK d : d = CopyAt(e, i)
  OBVIOUS
<1>2. d = <<Cts(e[1].tid, e[1].cxt, <<e[1].node[1], i>>), e[2]>>
  BY <1>1, CopyForm
<1>3. IsCts(d[1]) /\ d = <<d[1], d[2]>>
  BY <1>2 DEF IsCts, Cts
<1>4. d[1].tid = e[1].tid /\ d[1].cxt = e[1].cxt /\ d[1].node[1] = e[1].node[1] /\ d[2] = e[2]
  BY <1>2 DEF Cts
<1>5. ASSUME NEW j PROVE CopyAt(d, j) = CopyAt(e, j)
  <2>1. CopyAt(d, j) = <<Cts(d[1].tid, d[1].cxt, <<d[1].node[1], j>>), d[2]>>
    BY <1>3, CopyForm
  <2>2. CopyAt(e, j) = <<Cts(e[1].tid, e[1].cxt, <<e[1].node[1], j>>), e[2]>>
    BY CopyForm
  <2> QED
    BY <1>4, <2>1, <2>2
<1> QED
  BY <1>1, <1>3, <1>4, <1>5

\* What the last step of the analysis adds needs no addition itself.
LEMMA EndAnalysisCache == Formed /\ EndAnalysis => Formed' /\ Spread' /\ UNCHANGED program
<1> SUFFICES ASSUME Formed, EndAnalysis PROVE Formed' /\ Spread' /\ UNCHANGED program
  OBVIOUS
<1> DEFINE Plain == {e \in interleaving : ~ isCandidateFun(e[1].node[1])}
           Body(e) == DOMAIN program.body[e[1].node[1]]
<1>1. /\ interleaving' = interleaving \union UNION {{CopyAt(e, i) : i \in Body(e)} : e \in Plain}
      /\ UNCHANGED program
  BY DEF EndAnalysis, updateNonCandidateFunInterleaving, CopyAt
<1>2. \A f : isCandidateFun(f)' <=> isCandidateFun(f)
  BY <1>1 DEF isCandidateFun
<1>3. \A e \in Plain : e \in interleaving /\ IsCts(e[1])
  BY DEF Formed
<1>4. Formed'
  <2>1. ASSUME NEW e \in interleaving' PROVE e = <<e[1], e[2]>> /\ IsCts(e[1])
    <3>1. CASE e \in interleaving
      BY <3>1 DEF Formed
    <3>2. CASE e \notin interleaving
      <4>1. PICK d \in Plain : \E i \in Body(d) : e = CopyAt(d, i)
        BY <1>1, <3>2
      <4> QED
        BY <1>3, <4>1, CopyLemma
    <3> QED
      BY <3>1, <3>2
  <2> QED
    BY <2>1 DEF Formed
<1>5. ASSUME NEW e \in interleaving', ~ isCandidateFun(e[1].node[1]), NEW j \in Body(e)
      PROVE  CopyAt(e, j) \in interleaving'
  <2>1. CASE e \in interleaving
    BY <1>1, <1>5, <2>1
  <2>2. CASE e \notin interleaving
    <3>1. PICK d \in Plain : \E i \in Body(d) : e = CopyAt(d, i)
      BY <1>1, <2>2
    <3>2. IsCts(d[1])
      BY <1>3
    <3>3. e[1].node[1] = d[1].node[1] /\ CopyAt(e, j) = CopyAt(d, j)
      BY <3>1, <3>2, CopyLemma
    <3>4. j \in Body(d)
      BY <3>3
    <3> QED
      BY <1>1, <3>3, <3>4
  <2> QED
    BY <2>1, <2>2
<1>6. Spread'
  BY <1>1, <1>2, <1>5 DEF Spread, CopyAt
<1> QED
  BY <1>1, <1>4, <1>6

LEMMA NextCache == CacheInv /\ [Next]_vars => CacheInv'
<1> SUFFICES ASSUME CacheInv, [Next]_vars PROVE CacheInv'
  OBVIOUS
<1>1. CASE UNCHANGED <<program, phase, interleaving>>
  <2>1. \A f : isCandidateFun(f)' <=> isCandidateFun(f)
    BY <1>1 DEF isCandidateFun
  <2> QED
    BY <1>1, <2>1 DEF CacheInv, Formed, Spread
<1>2. CASE handleCallRelations \/ UNCHANGED vars \/ Run
  BY <1>1, <1>2 DEF handleCallRelations, vars, mhpVars, Run, RunStmt, RunFork, RunJoin, RunCall,
                    RunExit, Ready
<1>3. CASE analyze
  BY <1>3 DEF analyze, CacheInv, Formed, Spread, mhpVars
<1>4. CASE StartRoot \/ VisitStep
  <2>1. phase = "mhp"
    BY <1>4 DEF StartRoot, VisitStep, handleNonCandidateFun, handleFork, handleJoin, handleCall,
                handleRet, handleIntra, Popped
  <2>2. Formed' /\ UNCHANGED <<program, phase>>
    BY <1>4, StartRootCache, VisitStepCache DEF CacheInv
  <2> QED
    BY <2>1, <2>2 DEF CacheInv, Spread
<1>5. CASE EndAnalysis
  BY <1>5, EndAnalysisCache DEF CacheInv
<1> QED
  BY <1>2, <1>3, <1>4, <1>5 DEF Next, Analysis, VisitStep

\* Two thread statements of a plain function are known to the same threads.
LEMMA SameInterleaving ==
  ASSUME CacheInv, phase = "run", NEW c, IsCts(c), NEW m \in Nodes(program), c.node = m,
         ~ isCandidateFun(m[1]), NEW i \in DOMAIN program.body[m[1]]
  PROVE  /\ [c EXCEPT !.node = <<m[1], i>>] = Cts(c.tid, c.cxt, <<m[1], i>>)
         /\ getInterleavingThreads([c EXCEPT !.node = <<m[1], i>>]) = getInterleavingThreads(c)
<1> DEFINE d == [c EXCEPT !.node = <<m[1], i>>]
<1>1. d = Cts(c.tid, c.cxt, <<m[1], i>>) /\ IsCts(d)
  BY AtFormed
<1>2. d.node = <<m[1], i>> /\ d.node[1] = m[1] /\ m = <<m[1], m[2]>> /\ m[2] \in DOMAIN program.body[m[1]]
  <2>1. m = <<m[1], m[2]>> /\ m[2] \in DOMAIN program.body[m[1]]
    BY NodesFinite DEF CacheInv
  <2>2. d.node = <<m[1], i>>
    BY <1>1 DEF Cts
  <2> HIDE DEF d
  <2> QED
    BY <2>1, <2>2
<1>3. [d EXCEPT !.node = <<d.node[1], m[2]>>] = c
  <2> HIDE DEF d
  <2>1. [d EXCEPT !.node = m] = Cts(d.tid, d.cxt, m)
    BY <1>1, AtFormed
  <2>2. d.tid = c.tid /\ d.cxt = c.cxt
    BY <1>1 DEF Cts
  <2>3. Cts(c.tid, c.cxt, m) = c
    BY DEF IsCts
  <2> QED
    BY <1>2, <2>1, <2>2, <2>3
<1> HIDE DEF d
<1>4. ASSUME NEW e \in interleaving, e[1] = c PROVE <<d, e[2]>> \in interleaving
  <2>1. \A j \in DOMAIN program.body[m[1]] : <<[c EXCEPT !.node = <<m[1], j>>], e[2]>> \in interleaving
    BY <1>4 DEF CacheInv, Spread
  <2> QED
    BY <2>1 DEF d
<1>5. ASSUME NEW e \in interleaving, e[1] = d PROVE <<c, e[2]>> \in interleaving
  <2>1. \A j \in DOMAIN program.body[m[1]] : <<[d EXCEPT !.node = <<d.node[1], j>>], e[2]>> \in interleaving
    BY <1>2, <1>5 DEF CacheInv, Spread
  <2>2. <<[d EXCEPT !.node = <<d.node[1], m[2]>>], e[2]>> \in interleaving
    BY <1>2, <2>1
  <2> QED
    BY <1>3, <2>2
<1>6. getInterleavingThreads(d) = getInterleavingThreads(c)
  <2>1. ASSUME NEW t \in getInterleavingThreads(c) PROVE t \in getInterleavingThreads(d)
    <3>1. PICK e \in interleaving : e[1] = c /\ t = e[2]
      BY DEF getInterleavingThreads
    <3>2. <<d, t>> \in interleaving
      BY <1>4, <3>1
    <3> QED
      BY <3>2 DEF getInterleavingThreads
  <2>2. ASSUME NEW t \in getInterleavingThreads(d) PROVE t \in getInterleavingThreads(c)
    <3>1. PICK e \in interleaving : e[1] = d /\ t = e[2]
      BY DEF getInterleavingThreads
    <3>2. <<c, t>> \in interleaving
      BY <1>5, <3>1
    <3> QED
      BY <3>2 DEF getInterleavingThreads
  <2> QED
    BY <2>1, <2>2
<1> QED
  BY <1>1, <1>6 DEF d

\* A thread statement of one statement of a plain function gives one of any other, of the
\* same thread and known to the same threads.
LEMMA OtherStmt ==
  ASSUME CacheInv, phase = "run", NEW m \in Nodes(program), ~ isCandidateFun(m[1]),
         NEW i \in DOMAIN program.body[m[1]], NEW c \in ThreadStmts(m)
  PROVE  \E d \in ThreadStmts(<<m[1], i>>) :
             d.tid = c.tid /\ getInterleavingThreads(d) = getInterleavingThreads(c)
<1>1. PICK e \in interleaving : c = e[1] /\ c.node = m
  BY DEF ThreadStmts
<1>2. IsCts(c)
  BY <1>1 DEF CacheInv, Formed
<1>3. PICK d : d = [c EXCEPT !.node = <<m[1], i>>]
  OBVIOUS
<1>4. d = Cts(c.tid, c.cxt, <<m[1], i>>) /\ getInterleavingThreads(d) = getInterleavingThreads(c)
  BY <1>1, <1>2, <1>3, SameInterleaving
<1>5. PICK t : t \in getInterleavingThreads(d)
  BY <1>1, <1>4 DEF getInterleavingThreads
<1>6. d \in ThreadStmts(<<m[1], i>>) /\ d.tid = c.tid
  BY <1>4, <1>5 DEF ThreadStmts, getInterleavingThreads, Cts
<1> QED
  BY <1>4, <1>6

\* Two statements of plain functions have the answer of any other two of them.
LEMMA SameAnswer ==
  ASSUME CacheInv, phase = "run",
         NEW m \in Nodes(program), ~ isCandidateFun(m[1]), NEW i \in DOMAIN program.body[m[1]],
         NEW n \in Nodes(program), ~ isCandidateFun(n[1]), NEW j \in DOMAIN program.body[n[1]],
         mayHappenInParallelInst(m, n)
  PROVE  mayHappenInParallelInst(<<m[1], i>>, <<n[1], j>>)
<1>1. PICK c \in ThreadStmts(m), d \in ThreadStmts(n) :
          IF c.tid = d.tid THEN MultiForked(c.tid)
          ELSE d.tid \in getInterleavingThreads(c) /\ c.tid \in getInterleavingThreads(d)
  BY DEF mayHappenInParallelInst
<1>2. PICK a \in ThreadStmts(<<m[1], i>>) :
          a.tid = c.tid /\ getInterleavingThreads(a) = getInterleavingThreads(c)
  BY OtherStmt
<1>3. PICK b \in ThreadStmts(<<n[1], j>>) :
          b.tid = d.tid /\ getInterleavingThreads(b) = getInterleavingThreads(d)
  BY OtherStmt
<1> QED
  BY <1>1, <1>2, <1>3 DEF mayHappenInParallelInst

\* Two statements of functions that take no part in forking have the answer of the entries
\* of their functions, in every program: mayHappenInParallelCache keeps one answer for all
\* pairs of statements of two such functions.
THEOREM CacheAlwaysAgrees == Spec => []CacheAgrees
<1>1. CacheInv => CacheAgrees
  <2> SUFFICES ASSUME CacheInv, phase = "run",
                      NEW m \in Nodes(program), ~ isCandidateFun(m[1]),
                      NEW n \in Nodes(program), ~ isCandidateFun(n[1])
               PROVE  mayHappenInParallelInst(m, n)
                      <=> mayHappenInParallelInst(Entry(m[1]), Entry(n[1]))
    BY DEF CacheAgrees
  <2>1. /\ m = <<m[1], m[2]>> /\ m[2] \in DOMAIN program.body[m[1]] /\ 1 \in DOMAIN program.body[m[1]]
        /\ n = <<n[1], n[2]>> /\ n[2] \in DOMAIN program.body[n[1]] /\ 1 \in DOMAIN program.body[n[1]]
        /\ Entry(m[1]) \in Nodes(program) /\ Entry(n[1]) \in Nodes(program)
    BY NodesFinite DEF CacheInv, Entry
  <2>2. mayHappenInParallelInst(m, n) => mayHappenInParallelInst(Entry(m[1]), Entry(n[1]))
    BY <2>1, SameAnswer DEF Entry
  <2>3. Entry(m[1])[1] = m[1] /\ Entry(n[1])[1] = n[1]
    BY DEF Entry
  <2>4. ASSUME mayHappenInParallelInst(Entry(m[1]), Entry(n[1])) PROVE mayHappenInParallelInst(m, n)
    <3>1. mayHappenInParallelInst(<<m[1], m[2]>>, <<n[1], n[2]>>)
      BY <2>1, <2>3, <2>4, SameAnswer
    <3> QED
      BY <2>1, <3>1
  <2> QED
    BY <2>2, <2>4
<1> QED
  BY <1>1, InitCache, NextCache, PTL DEF Spec
=============================================================================
