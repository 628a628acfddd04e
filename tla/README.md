# Specifications of SVFmemplus

SVFmemplus is the SVF static analysis framework (pointer analysis, value flow,
CFL reachability, thread analysis, abstract execution) with memory-error
checkers on top that write alert documents. This directory holds TLA+ models of
its solvers, of four of the analyses built on them and of its alert store, TLC
configurations that check them on small instances, and TLAPS proofs about them.
`PROJECT.json` maps every definition to the source lines it stands for.

Paths below are relative to `src/svf/` unless they start otherwise.

## 1. Inventory

The program runs as one sequential process per tool (`wpa`, `saber`, `bof`,
`ae`, `dda`, `mta`, `cfl`): bitcode is turned into an SVFIR, graphs are built
from it, analyses run to a fixed point, and checkers write results. There are
no threads. What is hard is elsewhere: worklists whose order decides when a
fact is seen, data structures that change under a loop that reads them, cached
and differential state that must not go stale, rounds that restart one
another, and files that survive the process.

| Part | State | Operations | Talks to | What makes it correct |
|---|---|---|---|---|
| Inclusion-based solver, worklist (`WPA/Andersen`) | points-to sets, propagated parts, worklist, constraint graph, field-insensitive objects, call edges | address seeding, load/store, copy, gep handlers, field collapsing, call resolution, outer rounds | constraint graph (adds, moves edges), SVFIR, call graph | least solution of the rules in any order; nothing counted as sent that did not arrive; no field of a collapsed object survives; termination |
| Inclusion-based solver, wave (`WPA/AndersenWaveDiff`, the default) | the same, with SCC representatives and the topological stack | SCC detection, merging, the wave, positive weight cycles, post-processing of loads and stores | as above, `Graphs/SCC.h` | the same, across merges in every round |
| Constraint graph (`Graphs/ConsG`) | nodes, edges by kind, representatives, PWC marks | edge addition with duplicate checks, moving the edges of merged nodes | written by the solvers while they iterate | no edge lost by a merge |
| AndersenSCD, AndersenSFR, CSC | variants of the above | | | as above |
| Unification-based solver (`WPA/Steensgaard`) | equivalence classes, members, points-to sets, worklist | `ecUnion`, `setEC`, the worklist loop, rounds | constraint graph | nothing unified that was not asked for; everything that was; termination although a loop extends the set it walks |
| Flow-sensitive solvers (`WPA/FlowSensitive`, `VersionedFlowSensitive`) | IN/OUT sets per node, versions | propagation, strong updates, call resolution | SVFG, points-to tables | soundness of strong updates, no stale version |
| Framework (`MemoryModel/PointerAnalysis*`) | call map, resolved-call counter | field insensitivity, call resolution, alias queries | all pointer analyses | the call limit is the only thing that stops resolution |
| Points-to tables, persistent sets | sets, reverse sets, differences, memoised operations | union, difference, remapping | all analyses | reverse sets agree; cached results agree with the operation |
| SVFIR, ICFG, call graph, CHG, CDG, VFG, SVFG, MSSA | graphs | single-pass builders, SVFGOPT rewriting | read by everything | |
| CFL solvers (`CFL/CFLSolver`) | labelled edges, worklist; successor and predecessor maps (POCR); trees (hybrid) | epsilon edges, single and pair productions | CFL graph, clients | closure under the grammar, nothing else derived, termination |
| CFL clients (`CFL/CFLAlias`, `CFLVF`) | call map | rounds of solving and call resolution | solver and graph | edges added between rounds are seen |
| Demand-driven analysis (`DDA`) | cached points-to sets by variable and by dpm, visited marks, locations recorded for a dpm, step budget | `findPT` and its recursion, `reCompute`, strong updates, call resolution, `handleOutOfBudgetDpm` | SVFG (extended while queried), Andersen as the fallback | an answer is the least solution or the pre-analysis, also when the next query reuses what this one left; a cycle loses nothing; termination |
| Thread analysis (`MTA`: TCT, MHP, locks) | thread tree with contexts, worklists over context-sensitive statements, interleavings, query cache | `TCT::build`, `MHP` handlers for forks, joins, calls, returns and steps, pair queries | ICFG, call graph | statements of two threads that can run at once are answered so |
| SABER (`SABER`) | slices, path conditions | forward/backward slicing, guard fixpoint, verdicts | SVFG, alert store | no path lost by context limits |
| Buffer overflow checker (`BOF`), LLM triage | range caches by variable and context, offsets and visits of pointers by call context, pending reports; verdict files | demand-driven ranges, guard and loop narrowing, pointer propagation into calls and returns, reports; one external call | alert store | what leaves a buffer is reported; a MUST happens |
| Abstract execution (`AE`) | abstract state after each ICFG node, the stack of nested cycles | widening, narrowing, branch refinement, interval arithmetic | ICFG, WTO | intervals contain the values; cycles end, in fixpoints |
| Alert store (`Util/UnifiedAlertWriter` and its callers) | one file per alert, temporary files, `currentFiles` | write (read old, temporary file, rename, second try), removal of stale files | files annotated by later tools | a run that says true has left every alert with its annotations; a kill at any point loses nothing |
| LLVM front end, options, statistics, tools, vendored code | | | | |

`PROJECT.json` lists each of them with its files and the reason for its status,
and the hazards at the line where they bite.

## 2. Modules

    Program            programs as the constraint graph builder sees them
    ConsG              the constraint graph                     Graphs/ConsG.cpp
      AndersenBase     handlers shared by the inclusion solvers WPA/Andersen.cpp
        Andersen       the worklist solver
          AndersenWave the wave solver, derived from it         WPA/AndersenWaveDiff.cpp
      Steensgaard      the unification-based solver             WPA/Steensgaard.cpp
    InclusionAnalysis  abstract: derive by the rules, stop when closed
    UnificationAnalysis  abstract: the least unification of a program
    CFLGraph           labelled graphs, grammars, indirect calls
      CFLSolver        the standard solver in CFLAlias's rounds CFL/CFLSolver.cpp
        POCRSolver     the solver with successor maps
      CFLReachability  abstract: derive by the grammar, stop when closed
    AlertStore         alert documents over runs and kills      Util/UnifiedAlertWriter.cpp
    DDAVFSolver        demand-driven queries and their cache    DDA/DDAVFSolver.h, FlowDDA.cpp
    MHP                thread tree and interleavings            MTA/TCT.cpp, MHP.cpp
    IntervalValue      the intervals of abstract execution      AE/Core/IntervalValue.h
      AbstractInterpretation  functions, cycles, branches       AE/Svfexe/AbstractInterpretation.cpp
      IntervalRegister a number and its interval, both domains
    RangeDomain        the intervals of the overflow checker    BOF/RangeAnalysis.h
      RangeAnalysis    ranges on demand, guards, loops          BOF/RangeAnalysis.cpp
        BufferOverflowChecker  offsets of pointers, reports     BOF/BufferOverflowChecker.cpp
    *_proofs           TLAPS proofs about the module of that name (section 5);
                       CFLSolver_proofs is about both CFL solvers,
                       IntervalRegister_proofs about both interval domains
    MC*                menus of inputs, with .cfg files

`MHP`, `AbstractInterpretation` and `BufferOverflowChecker` judge an analysis by
what it is for: when it has finished, the module goes on to *run* the program
that was analysed, in every way it can run on the inputs, and the invariants
compare the run with what the analysis said.

Conventions. `pc` says where the outermost loop is; a handler that loops over a
set of edges or pointees takes one element per step, in any order, unless a
comment says why the whole loop may be one step. The numbering of nodes, which
fixes those orders in the code, is therefore no assumption of any property, and
the worklists of the inclusion and CFL solvers are sets. The first-in-first-out
worklist of Steensgaard is a sequence. A definition named after another one with a suffix, with
the comment "Mutant of", is the same definition with a plausible bug; it is not
used by the specification and serves to show that a property can fail.

**Andersen, AndersenWave.** `pts`, `propa` and `diff` are the three tables of
`DiffPTData`; `rep` and `pwc` are the representatives and PWC marks of
`ConstraintGraph`. `frames` is the call stack of `collapseField` and
`collapseNodePts`, which call each other while the caller is propagating. Like
the class it models, `AndersenWave` extends `Andersen`: it inherits the handlers it does
not override and the properties that read alike, and what it overrides has the
prefix `Wave`. An SCC gets any of its nodes as representative.

**Steensgaard.** `ec` and `subs` are `nodeToECMap` and `nodeToSubsMap`.
`iterated` is the representative over whose points-to set the loop runs while
its own unions extend it.

**CFLSolver, POCRSolver.** `edges` is `cflEdgeSet`, `data` what `succMap` and
`predMap` hold; `wl` may hold the null pointer `addCFLEdge` can return, which
`POCRSolver` pushes for an edge its maps lack and the graph has, and
`addCopyEdge` (`CFLAlias.h:119-120`) for a `copybar` edge that is there without its
`copy` (`CallPushes`). Calls are resolved by `CFLAlias::updateCallGraph` when the
worklist is empty, and the solver then starts again from `initialize`.

**AlertStore.** A document is a number of annotations, a file is absent, a
document, or torn. Every file operation of `UnifiedAlertWriter::write` and
`removeStale` is a step that may fail; the process may be killed between any
two. `Annotate` is the environment: later stages of the pipeline
(`src/README.md:93-104`) that run between two checker runs.

**DDAVFSolver.** A dpm is a location and what is asked there. The recursion of
`findPT` is a stack of calls, each with what it has collected and the edges it
has still to visit; the recomputation of a grown value (`reCompute`) runs on top
of it as in the code. `cached` is `getCachedTLPointsTo`/`ADPointsTo`,
`backwardVisited`, the recorded locations and the out-of-budget set are those of
the class; a query that exhausts its steps answers with the pre-analysis. Two
queries follow one another with what the class keeps between them. A call that
is joined may make a function recursive: `graph.recursive` gives the locals
concerned for every set of joined calls, `inRecursion` those `_callGraphSCC` has
found, refreshed as in `reCompute`, and `StrongUpdate` asks for them.

**MHP.** Three phases: `tct` makes the threads from fork sites and calling
contexts with the worklist of `TCT`; `mhp` begins an analysis at each node of the
tree, in the order they were made, and propagates `interleaving` over statements
of threads in contexts with the handlers of `MHP`; `run` interleaves the threads.

**AbstractInterpretation.** `stack` holds the calls of `handleWTOComponents` and
`handleCycleWTO`, so that a cycle within a cycle is iterated within each of its
iterations. `abstractTrace` has the state after each node; a key missing from a
state's maps is `Bottom`. `IntervalValue` has the arithmetic, with infinities
where numbers of `Bits` bits end (63 in the code), and with the powers of two that `|`,
`^` and `<<` compute in an `int` of `IntBits` bits (31): `ToInt` wraps around and
`OneShifted` masks its distance, as the processor does where C++ leaves them
undefined. `GoesWrong` names the operands on which that loses the number.
`IntervalRegister` composes those operations in any order, next to those of
`RangeDomain`, whose infinities are machine numbers, on operands that do not go wrong.

**RangeAnalysis, BufferOverflowChecker.** `analyzeVarRange` is a recursive
function from variable, context, depth and cache to range and cache: the order of
its queries matters, for an unfinished variable is `TOP` in the cache, and the
cache outlives the query. A context is 0 or a call. The checker's phases are
`initialize` (buffers enter the worklist, once for each of the first calls of their
function), `bind`, `propagate` (one entry of the worklist a step: offsets join,
then widen at the third visit), `flush` (reports kept by access), then `run`, with
a stack of frames. The order in which the C++ compiler evaluates the arguments of
`meet(a(), b())` is not specified by the language and changes the cache:
`leftFirst` is a choice.

## 3. Runs

| Run | Instance | Distinct states | Shows |
|---|---|---|---|
| `andersen` | all programs of at most 5 of 15 statements without geps, at most 5 of 8 with constant geps on top of two address statements, and at most 4 with variable offsets | 462,182 | the worklist solver implements `InclusionAnalysis`: derives nothing else, stops at the least solution, stops; collapsing leaves no field behind and loses nothing that was propagated |
| `wave` | two address statements and at most 4 of 12 without geps, or at most 3 of 12 with | 710,873 | the same for the wave solver; all copies applied; nothing beyond the least solution |
| `steens` | at most 5 of 13 statements | 73,392 | stops, and unifies no more than asked |
| `cfl` | graphs of at most 2 edges over 3 nodes, copies and variable geps with their reverses; an indirect call; a grammar with matched calls and returns that derives copies from geps and reads them in pairs | 890,397 | implements `CFLReachability`, and stops |
| `pocr` | the same with a call of two arguments | 1,668,647 | closed under productions but for pairs with a copy of the call, derives nothing else, never pushes null, stops |
| `alerts` | 2 alerts, 3 runs, 1 annotation, 2 kinds of failures per run | 301,200 | the promises of `AlertStore_proofs`, and that every run that is not killed ends |
| `dda` | 64 value-flow graphs with cycles, strong updates, a gep, an indirect call that closes a recursion or none; two queries; budgets 5 and 100 | 1,056,913 | an answer misses nothing of the least solution with the recursions known at the start, and within the budget has nothing the one with all recursions lacks; it is never worse than the pre-analysis; a query finds the marks of the one before it cleared; it ends |
| `threads` | nine programs with forks in loops, helpers, routines and recursion, and all programs whose main has 3 and routine has 2 statements | 81,238 | no two statements the analysis keeps apart run at once, with up to three threads; one parent per thread; the cached pair answer is the uncached one |
| `interp` | counting loops of all comparisons, starts, limits and steps, nested loops, branches on arguments, late stores; delays 1 to 3; five inputs | 78,569 | values are within the intervals; a cycle ends in a fixpoint; the number of iterations does not depend on the values |
| `intervals` | 4-bit numbers and 3-bit ints, every operation with every operand of the menu, any number of times | 12,463 | the interval contains the number, in both domains, for operands that do not go wrong |
| `bof` | 4864 functions: counting loops, nested guards, masks, walking pointers, calls from two sites, recursion, buffers of callees; both evaluation orders; five inputs | 217,818 | a run that leaves a buffer was reported; a MUST is right unless its pointer was visited again |
| `bof_join` | branches without an else | | a violation, section 6 |

Bounds. The menus in `MCPrograms` were chosen so that a program of 4 or 5
statements has copy cycles, cycles through memory, stores through a pointer to
itself, an indirect call that only resolved pointees reach and whose
connections change the pointers again, a constant object, and positive weight
cycles; every action of every module fires in a passing run. One round of a
solver that changes nothing ends it, so the state spaces are finite without
further bounds. `CallLimit` (the option `-ind-call-limit`) is set above what the programs
reach: at the limit resolution stops silently and nothing is promised. In
`cfl` and `pocr` node 1 is a function, and the call through node 2 is resolved
only in the graphs that lead to it; two edges are enough for a matched call and
return across the connected call. `MaxRuns = 3` lets a run find what the two
before it left behind, `MaxFaults = 2` bounds the kinds of failures in one run,
so that a failure of the rename can meet one of the removal or of the second
rename; a failure of one kind may strike any number of times.

In `dda` the budget 5 runs out in the middle of the larger queries, so that later
ones meet what it left; 100 never runs out. Where a store can overwrite another,
the object stored to is a local of a function that is recursive from the start, or
once the call is joined, or never. In
`threads` `MaxThreads = 3` lets one fork statement make two threads beside main,
which is what "the same thread twice" is about. `interp` has `Bits = 8` and runs
that stop beyond `MaxVal = 9`, so that no run meets the end of the numbers while
widening still jumps over everything it can reach; `intervals` has the ends of
the numbers, and of the ints, within reach instead: its operands have few bounds (-2, 1, 5
and the infinities), but operations and joins make every interval of 4 bits from them. `bof` keeps all the code's limits at values
that the functions stay below (`MAX_CALL_DEPTH`, `MAX_SEED_CONTEXTS`, `MaxDepth`):
beyond them the checker gives up by design. `Slack`, by which a bound counts as
infinite, is scaled to the 6 bits.

Every run sets `CHECK_DEADLOCK FALSE`: the solvers stop when they are done,
and the alert store when `MaxRuns` is reached.

Fairness. Each solver is one sequential loop, so `WF_vars(Next)` only says that
the process goes on executing. In `AlertStore` only `RunStep` is fair: a run
that is not killed goes on; runs need not start, documents need not be
annotated, operations may fail as often as `MaxFaults` lets them, and the kill
may or may not come. In `MHP` only the analysis is fair, not the threads of the
program it looks at. `AbstractInterpretation` and `BufferOverflowChecker` state no
fairness: `IterationsBounded` bounds the former by a number, which says more; that
the latter ends is not checked.
Termination of all solvers is checked, not proved.

## 4. What the abstract specifications say

`InclusionAnalysis` is the analysis without an order: a step adds any facts
that one application of the rules written on the handlers of `Andersen.cpp`
gives, and the analysis may stop only when no rule gives more. `Implements` in `Andersen` is
this specification under the mapping `sol <- Solution` (a merged node answers
with the set of its representative) and `done <- pc = "done"`. A variable gep
changes the objects themselves: for programs that have one, `Coarsen` promises
nothing about the solution, and `NoStaleField` and `PropagatedReached` stand for
it. The wave solver is compared with
the least solution at the end (`NothingInvented`), because a merge gives a node
facts several derivations ahead.

`CFLReachability` is the same for a grammar. `CFLSolver` implements it outright;
`POCRSolver` implements its steps (`OnlyDerivable`) and, for its maps may lag
behind the graph, not its end.

`DDAVFSolver` is compared with the least solution of the value-flow equations of
its graph, with strong updates, a definition that knows of no cache, marks or
order. The recursions that rule strong updates out are those of the calls the
solution resolves (`AnswerExact`), or those of the call graph before any of them
(`AnswerSound`, `RecursionAtStart`): between the two lies a store the analysis
updated strongly before it learnt of the recursion (section 6).

`InclusionAnalysis!Least` is the least solution, the rules iterated as often as
there are facts; `Reachable` in `AndersenWave` is the closure SCC detection walks.
`UnificationAnalysis` has no order either: `Unifications` are the maps of nodes
to classes under which every statement unifies what the comments in
`Steensgaard::solveWorklist` ask for. `OnlyAsked` says that the solver ends
within every one of them.

## 5. Proofs

TLAPS proves the following for all values of the constants that satisfy the
assumptions of the modules: any program, graph, grammar, budget, number of runs.
No theorem bounds anything the runs bound. The invariants behind them were first
checked by TLC on the instance of the component's run.

**What is assumed.** `NodesAssumption`, `ObjectsAssumption` and
`ProgramsAssumption` (`Program`): finitely many nodes; a field has the base of its
object; only base objects have their address taken, statements are about
variables, in SSA form, without the self copies and duplicate geps `addCopyCGEdge`
and `addNormalGepCGEdge` drop, and copies join pointers. `CopyAssumption` and
`PairedAssumption` (`CFLGraph`): the copy symbols come from terminals alone, as in
`include/CFL/grammar`, and where calls are resolved every copy or variable gep of
the graph has its reverse, as `buildBigraph` and `buildBiPEGgraph` add them. (Calls
are resolved for graphs built from a program alone, `CFLAlias.cpp:234`.) `AnderAssumption`, `NodesAssumption`,
`EdgesAssumption` and `RecursionAssumption` (`DDAVFSolver`): the graph is finite and
typed by the kinds of its nodes, the pre-analysis is closed under the statements,
and a recursion stays one when calls are joined. `AlertStore` and
`CFLGraph` assume types. `OneEntryAssumption` and `ProgramsAssumption` (`MHP`): one
function nobody calls or forks, finitely many functions, bodies that are sequences.
`BitsAssumption`, `IntBitsAssumption` (`IntervalValue`) and `OperandsAssumption`
(`IntervalRegister`): an `int` has at least two bits and no more than a number, and
second operands are pairs of bounds of their domain.
TLC evaluates each of them in the runs of its module.

**Andersen, AndersenWave** (the first part of `Andersen_proofs` has one lemma for each
handler of `AndersenBase`, for both; the theorems about the wave solver have the
prefix `Wave` where the worklist solver has one of the same name).

- `TypeCorrect`, and `PropagationSound` (`PropagatedReached`): what the propagated
  set of a node says was sent along a copy or gep edge is held at the other end,
  up to `Canon` (a field of a field-insensitive object stands for its base) and
  up to the gep edges the running handler owes. Not inductive alone: a merge
  intersects propagated sets, which says something about the moved edges only if
  what a node has sent is also what it holds (`SentIsHeld`), and a running
  `collapseField` merges fields safely only if its frame belongs to an object
  already field-insensitive (`CollapsingFI`).
- `FieldsReplaced` (`NoStaleField`, `WaveNoStaleField`). `StaleInv` says why a stale field may be there
  for the moment: its base waits in `toCollapse`, or is in the frame of a
  `collapseField` further down the stack that still has the field to do
  (`FieldInv`), or the field is in the difference a gep handler is about to
  replace (`DiffDue`).
- `Andersen`: `Refines` (`Implements`), the steps of the solver against
  `InclusionAnalysis`. `PlainInv`, for programs without variable offsets: nothing
  is merged (`Unmerged`), every edge is one the rules have (`DerivedInv`), and what
  they have and the graph lacks is owed by a node on the worklist, the running
  handler or the next call resolution (`OwedInv`); at the end nobody owes
  anything. `Solved` then says that the answer *is* `Least`.
  Both need `CallsWithinLimit`: at the limit the code stops by design.
- `AndersenWave`: `NothingBeyond` (`NothingInvented`). `Within(B)` holds for every
  solution `B` of the rules: points-to sets and edges are within `B`, and nodes
  merged, or in one SCC of the graph SCC detection saw, have one value in `B`.
- `AndersenWave`: `CopiesDone` (`CopiesApplied`). Between waves a copy edge may
  lack pointees if its source waits for the next one. `GraphInv` says that edges
  join representatives, that no edge is a loop, and that a field nobody points to
  is untouched or merged into its base. `WaveInv`: unless another round is due
  (`reanalyze`), the edges of nodes taken off the stack are applied, and no edge
  leads back from a node still on the stack to one taken off, by the order of
  `reach`.
- `LeastLemma`: the iteration `Least` is defined by ends in a solution, which is
  within every other. A recursive function over the naturals is one here; the
  induction is on a *set* of numbers (`Inductive`, from `WFMin`).

**Steensgaard**: `TypeCorrect` and `NothingBeyond` (`OnlyAsked`). `Respects(c)`,
for every unification `c`: classes, their members (also those `setEC` leaves
behind), points-to sets, edges, unions to be made and the pointees of the loop
are within `c`.

**CFLSolver**: `TypeCorrect`, `NothingForgotten` (`Covered`) and `Correct`
(`Implements`). The invariant is `TypeOK`, `TodoReads` (the loop at hand
reads productions that fit its edge), `EpsilonCovered` and `Covered`: what two
edges derive is in the graph, or one of the two waits in the worklist, or it is
the current edge and the loop that would find it is still due. With an empty
worklist that is what the abstract `Finish` asks.

**POCRSolver** (in `CFLSolver_proofs`, like the class derives from `CFLSolver`):
`MapsTypeCorrect` (`POCRTypeOK`: a null edge is never pushed), `Derives`
(`OnlyDerivable`) and `Closed` (`ProductionsApplied`). The invariant of both solvers
has `BothWays`: copies, or what derives them, lead from one node to another
exactly if their reverses lead back. With all single productions applied, which
an empty worklist means, a copy is then there exactly if its `copybar` is, and
`addCopyEdge` finds neither or both. Without `PairedAssumption` TLC finds the null
pushed. `Lag` says that maps and graph differ by copy edges of reached calls alone,
and that such an edge is derivable by nothing else, so that no production meets an
edge its maps lack. In the end the graph is closed, under any grammar, but for
pairs with such an edge (section 6).

**DDAVFSolver**: `TypeCorrect`; `Precise`: until a query exceeds its budget what is
cached is within *every* solution of the graph's equations; `Exact`
(`AnswerExact`), the same for the least one; `BelowPreAnalysis` (`NeverWorse`), for
any budget; `MarkFound` (`ClearFindsMark`). All but the last are instances of one
invariant, `Below(B)`: cache, joined calls and every activation of the stack are
below `B`, and an activation stays so with what the one above it will return
(`StackBelow`). `B` need only bound the equations (`Bound`); the pre-analysis does.
The point that could fail is a strong update on a partial result, of pointees or of
recursions, which `StrongUpdateShrinks` settles: what all of them allow, fewer allow. `LeastSolution` proves that the recursion `Least`
is defined by ends, in the least solution.

**MHP**: `OneParentAlways` (`OneParent`), for recursive programs as well. `TreeInv`
says why a thread gets no second parent, although its fork statement may be met
through several contexts: a thread but the main one exists only once the item for
its routine is in `visitedCTPs` (`Made`), and `addEdge` runs only when that
item was new; whatever the worklist holds has been visited and belongs to a
thread of the tree (`Known`). `CacheAlwaysAgrees` (`CacheAgrees`): when the analysis is
over, what is known of one statement of a function that takes no part in forking
is known of all (`Spread`), which nothing before the last step says, for the
handlers visit such a function at its entry alone. Pushing a *set* to a worklist
is a recursion over its subsets; `ListingType` proves what it yields by induction
on finite subsets (`SubsetInduction`).

**IntervalRegister**: `NumberContained` (`ValueContained`), at every pair of widths, for
both domains. The invariant `Contained` adds that the interval is a pair of bounds of its
domain and the value one of its numbers. The work is one lemma for each
operator, gathered in `ArithmeticHas`, `CompareHas` and `OperationHas`, so the
composition of any number of them is a step of the invariant. Products and
quotients of two intervals have their extremes in the corners
(`ProductCorners`, `QuotientCorners`), which for a quotient holds only after
`IntervalValue` has cut both intervals at zero (`Pieces`), and at infinite bounds only with
what `DivideBounds` does there; shifts to the right are the same about `Floor`.
`OrNumber` and its neighbours bound the bits of a number in two's complement, negative
ones included, and `OneShiftedIs` says when a power of two fits an `int`. The two
conditions of the model are hypotheses here, and every part of them is needed
(section 6): `GoesWrong` of `IntervalValue`, and that of `RangeDomain`.

**AlertStore**: `TypeCorrect`, `WritesPersist`, `StaleGone`, `CleanRuns`,
`KillsAreSafe`, and the action property `CutsAloneTear`. The invariant adds to the
types: directory entries are plain values (`FilesPlain`), what the write at hand
carries (`InHand`), that an alert is written, still to come, or the run will
return false (`Accounted`), that documents not written yet are as they were
(`DocumentsKept`), and what removal has left to visit (`Removing`).

**Only model-checked.**

- Termination (`Terminates`, `RunEnds`): liveness under fairness.
- `AnswerSound` of `DDAVFSolver`. It holds for the graphs of the run and fails for
  others (section 6), so it is no theorem without an account of the graphs
  `SVFGBuilder` builds, which is not modelled.
- `RacesSeen` and `SameThreadHolds` of `MHP`. Both hold for the programs of the run and
  fail for others (section 6: statements behind calls of functions that fork,
  for one), so they are no theorems of the module as it stands.
- `AbstractInterpretation`, `BufferOverflowChecker`. They rest on recursion over data
  (queries of ranges, folds over the nodes of a cycle), whose results for every
  input need an induction over that data. The arithmetic they use is that of
  `IntervalRegister`, which is proved.
- That the wave solver misses nothing: it does (`LoadsAndStoresApplied`).

## 6. Where the code and its comments disagree

The run `bof_join` expects a violation. `refineByGuards`
(`lib/BOF/RangeGuardNarrowing.cpp:270`) says "The load executes only when the
branch took the guarded successor"; the block behind an `if` without an `else`, or
behind a loop with a `break`, is such a successor, and the other side joins in
it. In `if (n >= SIZE) log(); buf[n] = 0;` the access is taken to be safe. The
functions of the run `bof` have an `else` with a block of its own.

The following are violations TLC finds as well, in configurations that are no
runs of the project. Each says what a comment or an assertion near the line does.

| To see it | Property | What happens |
|---|---|---|
| `MCWaveCycle.cfg` with `MCAndersenWave` | `LoadsAndStoresApplied` | merging an SCC adds pointees to its representative without pushing it, and post-processing looks at pushed nodes only (`WPA/AndersenWaveDiff.cpp:97`, `WPA/Andersen.cpp:859`): loads and stores are not applied to these pointees |
| `MCAndersenCollapse.cfg` with `MCAndersen` | `CopiesApplied` | `collapseField` grows the base object's points-to set without pushing it (`Andersen.cpp:774`): copies out of the base are not applied. The wave solver's extra round repairs it |
| `MCSteensMember.cfg` with `MCSteensgaard` | `CopiesUnified` | a class that grows has its representative pushed, whose own edges alone are looked at |
| `MCPOCRSolver.cfg` with `GraphClosed` as invariant | `GraphClosed` | the copy edges of a resolved call are missing from the solver's maps (`CFL/CFLAlias.h:119`): a production that reads them, as `Fbar -> copybar Fbar` does, misses pairs whose other edge comes later |
| `MCAlertStore.cfg` with `WriteTrueReadable` as invariant | `WriteTrueReadable` | the stream is not checked after writing (`UnifiedAlertWriter.cpp:283`): a truncated document is installed and the run returns true |
| `MCDDAVFSolver.cfg` with `PhiMenu <- ParmMenu`, `Candidates = {"x"}` | `AnswerSound` | an actual-parameter node shares the variable, and so the cached set, with the node that defines it (`FlowDDA.h:160-165`): one of them finds nothing new and pushes nothing |
| `MCDDAVFSolver.cfg` with `least.now` for `least.atStart` in `AnswerSound` | `AnswerSound` | a joined call makes the function of a local recursive and `_callGraphSCC` is found again (`DDAVFSolver.h:265-267`), but a store to the local that was updated strongly is not traversed again: for `*a = b; *a = f; v = *x` with `x` and `a` pointing to it, `v` and `x` lack what `b` has |
| `MCMHP.cfg` with `Programs <- CallPrograms` | `LiveHasThread` | a return is followed to the successors of the return statement (`MHP.cpp:338`): the statements behind the call of a function that forks are never reached, and then belong to no thread |
| `MCAbstractInterpretation.cfg` with `Programs <- LateStorePrograms`, `Bits = 6`, `Delays = {3}` | `FixpointReached` | widening keeps only what the previous state of the head has (`AE/Core/AbstractState.cpp:59-78`): an object first stored to within the loop after that is not part of the comparison |
| `MCIntervalRegister.cfg` with `OperateInterval` without its guard `~GoesWrong(op, interval, w)` | `ValueContained` | `next_power_of_2` and the left shift compute `1 << i` in an `int` (`IntervalValue.h:914,918,998,1027`), and `BoundedInt` shifts by distances beyond its width (`NumericValue.h:522`). So `[0, 2^31] \| [0, 1]` is `[0, 0]`, a shift to the left by 31 changes the sign, and `[-8, -2] >> [0, 64]` is `[-8, -2]`; each of the three loses the number by itself |
| `MCBufferOverflowChecker.cfg` with `Programs <- WalkingPrograms` | `EveryMustIsCertain` | a MUST recorded at a pointer's first visit is kept when the pointer gets more offsets (`BufferOverflowChecker.cpp:578`), as for `p = a; for (..) p++; p[-1]` |

What reading showed and the inputs of the runs therefore avoid:

- *Abstract execution.* With a widening delay of 0 loop bodies are never analysed.
  A branch narrows the memory its register was loaded from even if a store came
  between (`AbstractInterpretation.cpp:405`), as in `while (i++ < 10)`. Unsigned
  comparisons, `lshr`, `udiv` and `urem` are computed as signed ones; `ICMP_ULE` and
  `ICMP_SLE` are missing from the tables of opposite predicates; the smallest
  64-bit number has no opposite. The state of a
  node that turns out not to be reachable stays from the iteration before.
- *Threads.* `ForkJoinAnalysis` recognises no join in a loop (`isSameSCEV` is
  always false), which costs precision alone. `TCT` takes a program to
  have one entry function.
- *Overflow checker.* A value without a definition the analysis knows is
  `BOTTOM` and is joined away (`i = 0; if (c) i = input(); a[i]` has the index
  `[0, 0]`), although the comment says "unknown, not unreachable"; a second
  query finds `TOP`. `refineByLoop` narrows loads behind the step as well
  (`while (i < 10) { i++; a[i]; }`) and takes its direction from the first
  matching store. The test for stores behind a guard sees the immediate children
  in the dominator tree alone. `if (i++ < 10)` has its store between the
  load compared and the branch. Subtracting `TOP` negates the smallest number;
  `ashr` of negative numbers by a range of distances is too narrow. The depth of
  calls is no part of the key of a visit.

Two quieter facts the model of the alert store shows and its properties state
as exceptions: a write that fails makes `removeStale` delete the alert's
existing document (the run does return false), and a directory that cannot be
listed is taken for an empty one (the run may return true).

## 7. What is left out of the modelled parts

- Inclusion solvers: heap allocators reached through indirect calls, virtual
  tables and thread creation (their copies are part of a program's `calls`);
  difference propagation is on (`-diff`, the default); field objects exist from
  the start rather than being created on first use; reading and writing
  analysis results; statistics, time limits.
- ConsG: printing and the copy of the graph kept for offline analyses.
- SCC detection is modelled by its result, weak topological orders are inputs.
- CFL: attributes of symbols, the parsers for grammars and graphs, dummy heap
  nodes of calls, the limit on resolved calls, the order of the worklist, the
  hybrid solver.
- Alert store: the digest, JSON text, scores and suppression; a kill of the
  process, not of the operating system (the code does not sync); annotations
  during a run, which the pipeline does not make.
- Demand-driven analysis: `ContextDDA`, the clients, and the pre-analysis, which is
  the inclusion analysis of the same program, flow-insensitively.
- Threads: parallel loops, locks (`LockAnalysis`), statistics, annotations.
- Abstract execution: calls and their recursion modes, switches, addresses and
  geps, external functions, floating point, the detectors, the relation domain.
- Overflow checker: heap buffers and allocation sizes, the checks of `memcpy`,
  `strcpy` and the like, symbolic affine bounds, struct fields, phi and select,
  semantic rules and triage by a model; slots whose address is taken.

Not modelled at all, with the reason in `PROJECT.json`: `AndersenSCD` and
`AndersenSFR` (overrides of the wave solver), the flow-sensitive solvers, persistent
points-to sets, SABER's slices and checkers, LLM triage, the single-pass builders
of graphs and the LLVM front end, tools and vendored code. Most of the 130,000
lines are among these, so that the share of the lines the models cover is small:
the models are of the fixpoint engines, where the order of steps matters.

## 8. Plan

Done: inclusion, unification and CFL solvers with their abstract specifications;
the alert store; the demand-driven solver against the least solution of its
equations; threads, abstract execution and the overflow checker against runs of
the programs they analyse. Proofs of every safety property of the inclusion,
unification and CFL solvers and of the alert store, of those of the
demand-driven solver but one, of the thread tree and the pair cache, and of the
arithmetic of both interval domains.

Proofs left, in order of importance:

1. `Solved` for the wave solver, for programs in which no cycle is merged.
2. What `SVFGBuilder` guarantees of a graph, as an assumption strong enough for
   `AnswerSound`; the same of ICFGs for `RacesSeen`.

Models left: `POCRHybridSolver` as a third CFL solver against `CFLReachability`;
`SCCDetection` with its stack against `SccOf`; `AndersenSCD`; lock spans; the
flow-sensitive solver's strong updates; the persistent points-to cache.

Theorems go to one `_proofs` module per component; new runs replace those whose
question a theorem answers for every instance.
