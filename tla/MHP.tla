---------------------------------- MODULE MHP ----------------------------------
(***************************************************************************)
(* May-happen-in-parallel analysis of programs that create threads.  TCT   *)
(* walks the call graph and makes a thread for every fork site and calling *)
(* context; MHP then tells every statement of every thread, by a worklist  *)
(* over the ICFG, which threads may run at the same time.                  *)
(*                                                                         *)
(* When the analysis is done the module runs the program itself, with all  *)
(* interleavings of its threads, so that the answers can be judged.        *)
(***************************************************************************)
EXTENDS Naturals, FiniteSets, SequencesExt

CONSTANTS
    Programs,    \* [body : [functions -> Seq([kind, to])], jumps : SUBSET <<f, i, j>>]
    MaxThreads   \* threads alive or ended at most in a run

VARIABLES
    program,
    phase,        \* "tct", "mhp" or "run"
    ctpList, visitedCTPs,
    routines,     \* ctToRoutineFunMap: thread -> function
    forkCxts,     \* ctToForkCxtMap: thread -> context of its fork site
    tctEdges,     \* <<parent, child>>
    roots,        \* the nodes of the TCT, in the order they were made, that
                  \* analyzeInterleaving has still to begin with
    cxtStmtList,
    interleaving, \* threadStmtToTheadInterLeav: <<thread statement, thread>>
    procs,        \* the threads of the run
    ran           \* history of the run: <<statement, thread>>

tctVars == <<ctpList, visitedCTPs, routines, forkCxts, tctEdges>>
mhpVars == <<cxtStmtList, interleaving>>
runVars == <<procs, ran>>
vars == <<program, phase, roots, tctVars, mhpVars, runVars>>

G == INSTANCE Graphs

\* A set pushed to a worklist, in some order.
Listed(S) == FoldSet(LAMBDA e, list : Append(list, e), <<>>, S)

-----------------------------------------------------------------------------
(***************************************************************************)
(* A node is <<f, i>>, the i-th of its function.  Bodies end with "ret"    *)
(* and "exit".  A call or a fork goes to a function, a join to the fork    *)
(* whose thread it waits for.  A jump <<f, i, j>> with j <= i is a loop.   *)
(***************************************************************************)
Funs(p) == DOMAIN p.body
Nodes(p) == UNION {{f} \X DOMAIN p.body[f] : f \in Funs(p)}
Kind(p, n) == p.body[n[1]][n[2]].kind
Callee(p, n) == p.body[n[1]][n[2]].to
Entry(f) == <<f, 1>>
Forks(p) == {n \in Nodes(p) : Kind(p, n) = "fork"}
Sites(p) == {n \in Nodes(p) : Kind(p, n) \in {"call", "fork"}}

After(p, n) ==
    {m \in Nodes(p) :
        m[1] = n[1] /\ (m[2] = n[2] + 1 \/ <<n[1], n[2], m[2]>> \in p.jumps)}

(***************************************************************************)
(* The ICFG edges that stay in a function.  A call of a defined function   *)
(* has an edge to its entry and none to the node that follows; a fork has  *)
(* both.                                                                   *)
(***************************************************************************)
OutEdges(p, n) ==
    {m \in Nodes(p) :
        /\ m[1] = n[1]
        /\ \/ Kind(p, n) \notin {"call", "exit"} /\ m \in After(p, n)
           \/ n \in Sites(p) /\ m = Entry(Callee(p, n))
           \/ /\ Kind(p, n) = "exit"
              /\ \E s \in Sites(p) : Callee(p, s) = n[1] /\ m \in After(p, s)}

(***************************************************************************)
(* Facts of a program that TCT::build collects first.                      *)
(***************************************************************************)
CallGraph(p) == {<<s[1], Callee(p, s)>> : s \in Sites(p)}
Paths == [p \in Programs |-> G!ConnectionsIn([node |-> Funs(p), edge |-> CallGraph(p)])]
InCycle(p, f) == \E e \in CallGraph(p) : e[1] = f /\ Paths[p][e[2], f]
SameCallGraphSCC(p, f, g) == Paths[p][f, g] /\ Paths[p][g, f]

EntryFuns(p) == {f \in Funs(p) : \A s \in Sites(p) : Callee(p, s) # f}
ASSUME OneEntryAssumption == \A p \in Programs : Cardinality(EntryFuns(p)) = 1
ASSUME ProgramsAssumption ==
    \A p \in Programs :
        /\ IsFiniteSet(Funs(p))
        /\ \A f \in Funs(p) : Len(p.body[f]) \in Nat /\ DOMAIN p.body[f] = 1 .. Len(p.body[f])
ASSUME MaxThreadsAssumption == MaxThreads \in Nat

\* markRelProcs: what leads to a fork or a join, and the routines of the forks.
MarkRelProcs(p) ==
    {f \in Funs(p) :
        \/ \E n \in Nodes(p) : Kind(p, n) \in {"fork", "join"} /\ Paths[p][f, n[1]]
        \/ \E s \in Forks(p) : f = Callee(p, s)}
Candidates == [p \in Programs |-> MarkRelProcs(p)]
isCandidateFun(f) == f \in Candidates[program]

\* The sites a run may have come through when it is at n.
SitesAbove(p, n) == {s \in Sites(p) : Paths[p][Callee(p, s), n[1]]}
HasLoopInfo(p, n) ==
    \E j \in p.jumps : j[1] = n[1] /\ j[3] <= j[2] /\ n[2] \in j[3] .. j[2]

\* Mutant of IsInLoopInstruction: the loops of the callers are not looked at.
IsInOwnLoop(p, n) == HasLoopInfo(p, n)

IsInLoopInstruction(p, n) == \E m \in SitesAbove(p, n) \union {n} : HasLoopInfo(p, m)
IsInRecursion(p, n) == \E f \in Funs(p) : Paths[p][f, n[1]] /\ InCycle(p, f)

-----------------------------------------------------------------------------
(***************************************************************************)
(* A calling context is a sequence of call sites.  A thread is <<cxt, s>>  *)
(* for the fork site s, and <<cxt, nullptr>> for the main thread.          *)
(***************************************************************************)
nullptr == <<"nullptr", 0>>
MainThread == <<<<>>, nullptr>>

PushCxt(cxt, site) ==
    LET caller == site[1]
    IN  IF isCandidateFun(caller) /\ ~SameCallGraphSCC(program, caller, Callee(program, site))
        THEN Append(cxt, site) ELSE cxt

\* matchCxt: the contexts a return to site goes on with, none if it does not match.
MatchedCxts(cxt, site) ==
    IF \/ ~isCandidateFun(site[1]) \/ cxt = <<>>
       \/ SameCallGraphSCC(program, site[1], Callee(program, site))
    THEN {cxt}
    ELSE {c \in {Front(cxt)} : Last(cxt) = site}

\* Mutant of Spawnee: threads are told apart by their fork site alone.
SpawneeOfSite(cxt, site) == <<<<>>, site>>

Spawnee(cxt, site) == <<PushCxt(cxt, site), site>>

Parents(t) == {e[1] : e \in {d \in tctEdges : d[2] = t}}
hasParentThread(t) == Cardinality(Parents(t)) = 1
getParentThread(t) == CHOOSE u \in Parents(t) : TRUE

\* getAncestorThread: up the tree as long as there is one parent.
getAncestorThread(t) ==
    LET up[k \in Nat] ==
            IF k = 0 THEN {t}
            ELSE up[k - 1] \union {getParentThread(u) : u \in {w \in up[k - 1] : hasParentThread(w)}}
    IN  up[Cardinality(tctEdges)]

getSiblingThread(t) ==
    {e[2] : e \in {d \in tctEdges : hasParentThread(t) /\ d[1] = getParentThread(t)}} \ {t}

\* collectMultiForkedThreads marks from the main thread downwards.
MultiForked(t) ==
    \E u \in getAncestorThread(t) :
        /\ u # MainThread
        /\ IsInLoopInstruction(program, u[2]) \/ IsInRecursion(program, u[2])

-----------------------------------------------------------------------------
(* The thread creation tree.  A ctp is a function in a context of a thread. *)

Init ==
    /\ program \in Programs
    /\ phase = "tct"
    /\ LET main == CHOOSE f \in EntryFuns(program) : TRUE
           ctps == {[tid |-> MainThread, cxt |-> <<>>, proc |-> f] :
                        f \in {main} \intersect Candidates[program]}
       IN  /\ ctpList = Listed(ctps)
           /\ visitedCTPs = ctps
           /\ routines = [t \in {c.tid : c \in ctps} |-> main]
           /\ forkCxts = [t \in {c.tid : c \in ctps} |-> <<>>]
           /\ roots = Listed({c.tid : c \in ctps})
    /\ tctEdges = {}
    /\ cxtStmtList = <<>> /\ interleaving = {}
    /\ procs = <<>> /\ ran = {}

\* handleCallRelation for all calls and forks of the function of a popped ctp.
handleCallRelations ==
    LET c == Head(ctpList)
        sites == {s \in Sites(program) : s[1] = c.proc /\ isCandidateFun(c.proc)}
        forks == sites \intersect Forks(program)
        Thread(s) == IF s \in forks THEN Spawnee(c.cxt, s) ELSE c.tid
        Ctp(s) == [tid |-> Thread(s), cxt |-> PushCxt(c.cxt, s), proc |-> Callee(program, s)]
        new == {s \in sites : Ctp(s) \notin visitedCTPs}
        made == {Thread(s) : s \in forks} \ DOMAIN routines
    IN  /\ phase = "tct" /\ ctpList # <<>>
        /\ ctpList' = Tail(ctpList) \o Listed({Ctp(s) : s \in new})
        /\ visitedCTPs' = visitedCTPs \union {Ctp(s) : s \in new}
        /\ routines' = [t \in made \union DOMAIN routines |->
                            IF t \in made THEN Callee(program, t[2]) ELSE routines[t]]
        /\ forkCxts' = [t \in made \union DOMAIN forkCxts |->
                            IF t \in made THEN c.cxt ELSE forkCxts[t]]
        /\ roots' = roots \o Listed(made)
        /\ tctEdges' = tctEdges \union {<<c.tid, Thread(s)>> : s \in new \intersect forks}
        /\ UNCHANGED <<program, phase, mhpVars, runVars>>

analyze ==
    /\ phase = "tct" /\ ctpList = <<>>
    /\ phase' = "mhp"
    /\ UNCHANGED <<program, roots, tctVars, mhpVars, runVars>>

-----------------------------------------------------------------------------
(* The interleaving analysis.  A thread statement is a node in a context.  *)

Cts(t, cxt, n) == [tid |-> t, cxt |-> cxt, node |-> n]
getInterleavingThreads(c) == {e[2] : e \in {d \in interleaving : d[1] = c}}

\* Mutant of addInterleavingThreads: a statement is visited again unchanged.
addUnchanged(list, pairs) ==
    /\ interleaving' = interleaving \union pairs
    /\ cxtStmtList' = list \o Listed({e[1] : e \in pairs} \ ToSet(list))

\* What changes is pushed to the worklist, which holds nothing twice.
addInterleavingThreads(list, pairs) ==
    /\ interleaving' = interleaving \union pairs
    /\ cxtStmtList' = list \o Listed({e[1] : e \in pairs \ interleaving} \ ToSet(list))

\* updateAncestorThreads: the statements after the forks that led to t.
AfterForks(t) ==
    UNION {{Cts(getParentThread(u), forkCxts[u], n) : n \in OutEdges(program, u[2])} :
               u \in getAncestorThread(t) \ {MainThread}}

\* updateSiblingThreads, whose happens-before pairs are never filled.
SiblingEntries(t) ==
    {Cts(u, u[1], Entry(routines[u])) : u \in UNION {getSiblingThread(a) : a \in getAncestorThread(t)}}

StartRoot ==
    /\ phase = "mhp" /\ roots # <<>> /\ cxtStmtList = <<>>
    /\ roots' = Tail(roots)
    /\ LET t == Head(roots)
           begun == {Cts(t, t[1], Entry(routines[t]))}
       IN  addInterleavingThreads(<<>>, (begun \union AfterForks(t) \union SiblingEntries(t)) \X {t})
    /\ UNCHANGED <<program, phase, tctVars, runVars>>

Visit(c, targets) ==
    /\ addInterleavingThreads(Tail(cxtStmtList), targets \X getInterleavingThreads(c))
    /\ UNCHANGED <<program, phase, tctVars, roots, runVars>>

Popped(kinds) ==
    /\ phase = "mhp" /\ cxtStmtList # <<>>
    /\ LET n == Head(cxtStmtList).node
       IN  isCandidateFun(n[1]) /\ Kind(program, n) \in kinds

At(c, nodes) == {[c EXCEPT !.node = n] : n \in nodes}
Intra(c) == At(c, OutEdges(program, c.node))
Called(c) == Cts(c.tid, PushCxt(c.cxt, c.node), Entry(Callee(program, c.node)))

handleNonCandidateFun ==
    LET c == Head(cxtStmtList)
    IN  /\ phase = "mhp" /\ cxtStmtList # <<>>
        /\ ~isCandidateFun(c.node[1])
        /\ Visit(c, At(c, {Entry(e[2]) : e \in {d \in CallGraph(program) : d[1] = c.node[1]}}))

\* Mutant of handleFork: the new thread does not learn what runs beside its parent.
handleForkAlone ==
    LET c == Head(cxtStmtList) IN Popped({"fork"}) /\ Visit(c, Intra(c))

handleFork ==
    LET c == Head(cxtStmtList)
        t == Spawnee(c.cxt, c.node)
    IN  /\ Popped({"fork"})
        /\ Visit(c, Intra(c) \union {Cts(t, t[1], Entry(Callee(program, c.node)))})

\* No join is ever matched with its fork; a loop of joins is also left at once.
handleJoin ==
    LET c == Head(cxtStmtList)
        Exits == {m \in Nodes(program) :
                     /\ HasLoopInfo(program, c.node) /\ ~HasLoopInfo(program, m)
                     /\ m[1] = c.node[1] /\ m[2] > c.node[2]
                     /\ \A k \in c.node[2] .. m[2] - 1 : HasLoopInfo(program, <<m[1], k>>)}
    IN  Popped({"join"}) /\ Visit(c, Intra(c) \union At(c, Exits))

handleCall ==
    LET c == Head(cxtStmtList)
        goOn == IF isCandidateFun(Callee(program, c.node)) THEN {} ELSE Intra(c)
    IN  Popped({"call"}) /\ Visit(c, {Called(c)} \union goOn)

\* The returning thread goes on at the successors of its own return statement.
handleRet ==
    LET c == Head(cxtStmtList)
        sites == {s \in Sites(program) \ Forks(program) : Callee(program, s) = c.node[1]}
        cxts == UNION {MatchedCxts(c.cxt, s) : s \in sites}
    IN  Popped({"ret"}) /\ Visit(c, {Cts(c.tid, x, n) : x \in cxts, n \in OutEdges(program, c.node)})

handleIntra ==
    LET c == Head(cxtStmtList) IN Popped({"stmt", "exit"}) /\ Visit(c, Intra(c))

\* Mutant of updateNonCandidateFunInterleaving: only the entries have an answer.
keepNonCandidateFunInterleaving == interleaving' = interleaving

\* What holds at the entry of a non-candidate function holds in all of it.
updateNonCandidateFunInterleaving ==
    interleaving' =
        interleaving \union
        UNION {{<<[e[1] EXCEPT !.node = <<e[1].node[1], i>>], e[2]>> :
                    i \in DOMAIN program.body[e[1].node[1]]} :
               e \in {d \in interleaving : ~isCandidateFun(d[1].node[1])}}

EndAnalysis ==
    /\ phase = "mhp" /\ roots = <<>> /\ cxtStmtList = <<>>
    /\ updateNonCandidateFunInterleaving
    /\ phase' = "run"
    /\ procs' = <<[at |-> Entry(CHOOSE f \in EntryFuns(program) : TRUE), stack |-> <<>>,
                   fork |-> nullptr]>>
    /\ UNCHANGED <<program, tctVars, roots, cxtStmtList, ran>>

-----------------------------------------------------------------------------
(* The answers. *)

ThreadStmts(n) == {c \in {e[1] : e \in interleaving} : c.node = n}

mayHappenInParallelInst(m, n) ==
    \E c \in ThreadStmts(m), d \in ThreadStmts(n) :
        IF c.tid = d.tid THEN MultiForked(c.tid)
        ELSE d.tid \in getInterleavingThreads(c) /\ c.tid \in getInterleavingThreads(d)

executedByTheSameThread(m, n) ==
    \A c \in ThreadStmts(m), d \in ThreadStmts(n) : c.tid = d.tid /\ ~MultiForked(c.tid)

-----------------------------------------------------------------------------
(***************************************************************************)
(* The run of the program: each thread has a node it is about to execute   *)
(* and a stack of call sites; it has ended when its node is "done".        *)
(***************************************************************************)
done == <<"done", 0>>

Goes(k, n, stack) == [procs EXCEPT ![k] = [@ EXCEPT !.at = n, !.stack = stack]]

Ready(k, kinds) ==
    /\ phase = "run" /\ procs[k].at # done
    /\ Kind(program, procs[k].at) \in kinds
    /\ UNCHANGED <<program, phase, roots, tctVars, mhpVars>>

RunStmt(k) ==
    /\ Ready(k, {"stmt", "ret"})
    /\ \E n \in After(program, procs[k].at) : procs' = Goes(k, n, procs[k].stack)
    /\ ran' = IF Kind(program, procs[k].at) = "stmt"
              THEN ran \union {<<procs[k].at, k>>} ELSE ran

RunFork(k) ==
    /\ Ready(k, {"fork"})
    /\ Len(procs) < MaxThreads
    /\ \E n \in After(program, procs[k].at) :
          procs' = Append(Goes(k, n, procs[k].stack),
                          [at |-> Entry(Callee(program, procs[k].at)), stack |-> <<>>,
                           fork |-> procs[k].at])
    /\ UNCHANGED ran

RunJoin(k) ==
    /\ Ready(k, {"join"})
    /\ \E t \in DOMAIN procs :
          procs[t].at = done /\ procs[t].fork = Callee(program, procs[k].at)
    /\ \E n \in After(program, procs[k].at) : procs' = Goes(k, n, procs[k].stack)
    /\ UNCHANGED ran

RunCall(k) ==
    /\ Ready(k, {"call"})
    /\ procs' = Goes(k, Entry(Callee(program, procs[k].at)), Append(procs[k].stack, procs[k].at))
    /\ UNCHANGED ran

RunExit(k) ==
    LET stack == procs[k].stack
    IN  /\ Ready(k, {"exit"})
        /\ \/ stack = <<>> /\ procs' = Goes(k, done, <<>>)
           \/ /\ stack # <<>>
              /\ \E n \in After(program, Last(stack)) : procs' = Goes(k, n, Front(stack))
        /\ UNCHANGED ran

-----------------------------------------------------------------------------
Analysis ==
    \/ handleCallRelations \/ analyze \/ StartRoot
    \/ handleNonCandidateFun \/ handleFork \/ handleJoin \/ handleCall \/ handleRet \/ handleIntra
    \/ EndAnalysis

Run ==
    \E k \in DOMAIN procs : RunStmt(k) \/ RunFork(k) \/ RunJoin(k) \/ RunCall(k) \/ RunExit(k)

Next == Analysis \/ Run

Spec == Init /\ [][Next]_vars /\ WF_vars(Analysis)

-----------------------------------------------------------------------------
(* Properties *)

AtStmt(k) == procs[k].at # done /\ Kind(program, procs[k].at) = "stmt"

\* Two statements that two threads of the run are about to execute at the same
\* time may happen in parallel (MHP::mayHappenInParallelInst).
RacesSeen ==
    \A j, k \in DOMAIN procs :
        j # k /\ AtStmt(j) /\ AtStmt(k) => mayHappenInParallelInst(procs[j].at, procs[k].at)

\* Statements said to be executed by the same thread are never executed by two
\* threads of the run (MHP::executedByTheSameThread).
SameThreadHolds ==
    phase = "run" =>
        \A e, d \in ran : e[2] # d[2] => ~executedByTheSameThread(e[1], d[1])

\* No thread is created by two threads, and every thread but the main one by
\* another (the assertions of TCT::getParentThread).
OneParent ==
    phase # "tct" =>
        \A t \in DOMAIN routines : Cardinality(Parents(t)) = (IF t = MainThread THEN 0 ELSE 1)

\* Any two statements of two functions that take no part in forking have the
\* answer of any other two, as mayHappenInParallelCache supposes.
CacheAgrees ==
    phase = "run" =>
        LET plain == {n \in Nodes(program) : ~isCandidateFun(n[1])}
        IN  \A m, n \in plain :
                mayHappenInParallelInst(m, n)
                <=> mayHappenInParallelInst(Entry(m[1]), Entry(n[1]))

\* A statement a thread is about to execute is known to some thread, so that it
\* is not taken for one of a dead function (MHP::mayHappenInParallelInst).
LiveHasThread == \A k \in DOMAIN procs : AtStmt(k) => ThreadStmts(procs[k].at) # {}

\* Both worklists drain: the analysis ends on every program (TCT::build and
\* MHP::analyzeInterleaving).
Terminates == <>(phase = "run")
=============================================================================
