----------------------------- MODULE RangeAnalysis -----------------------------
(***************************************************************************)
(* The range analysis of the buffer overflow checker.  analyzeVarRange     *)
(* asks for the range of a variable on demand, by recursion along its      *)
(* definitions, with a cache that holds TOP for a variable still being     *)
(* computed.  The range of a load is narrowed by the branches that compare *)
(* its memory slot, and in loops by the induction they are recognised for. *)
(*                                                                         *)
(* A program is compiled without optimisation: scalars live in slots, and  *)
(* every use is a load of its own.                                         *)
(***************************************************************************)
EXTENDS RangeDomain, FiniteSets, Sequences, SequencesExt

CONSTANTS
    Vars,      \* every variable of the programs: values, slots, buffers, constants
    MaxDepth,  \* MAX_RECURSION_DEPTH
    Slack      \* bounds that near to infinity count as infinite: 1024 in the code

NoVar == "none"
NoContext == 0

-----------------------------------------------------------------------------
(***************************************************************************)
(* A program is a record of                                                *)
(*   code      its statements [op, dst, args, bb], block by block, a call  *)
(*             with its callee as well; a store has its address as dst;    *)
(*             an "elem" is a gep into an array, a "gep" one of a pointer  *)
(*   blocks    [fun, cond, succ]: with two successors the block branches   *)
(*             on cond, and the first is taken if it holds                 *)
(*   funs      [formals, ret], main the first to run                       *)
(*   const     the values of its constants                                 *)
(*   buffers   the variables of its buffers, as they are declared          *)
(*   size      their sizes                home  their functions            *)
(*   pointers  the variables that are pointers to buffers                  *)
(*   leftFirst whether the compiler of the checker evaluates the arguments *)
(*             of a call from left to right                                *)
(*   domTree   DomTree of its blocks    loops  LoopMap of its blocks       *)
(***************************************************************************)
Blocks(blocks) == DOMAIN blocks
Binary == {"add", "sub", "mul", "and"}
Comparisons == {"LT", "LE", "GT", "GE", "EQ", "NE"}

Entry(blocks, f) == Min({b \in Blocks(blocks) : blocks[b].fun = f})
Succs(blocks, b) == ToSet(blocks[b].succ)

\* The blocks reached from those of S without passing through avoid.
ReachFrom(blocks, S, avoid) ==
    LET reach[T \in SUBSET Blocks(blocks)] ==
            LET U == (T \union UNION {Succs(blocks, b) : b \in T}) \ avoid
            IN  IF U = T THEN T ELSE reach[U]
    IN  reach[S \ avoid]

(***************************************************************************)
(* The dominator tree as SVFIRBuilder copies it: a block and its children, *)
(* the blocks it dominates with no other block in between.                 *)
(***************************************************************************)
StrictDominators(blocks, b) ==
    {a \in Blocks(blocks) \ {b} :
        /\ blocks[a].fun = blocks[b].fun
        /\ b \notin ReachFrom(blocks, {Entry(blocks, blocks[b].fun)}, {a})}
DomTree(blocks) ==
    {<<a, b>> \in Blocks(blocks) \X Blocks(blocks) :
        LET above == StrictDominators(blocks, b)
        IN  a \in above /\ Cardinality(StrictDominators(blocks, a)) = Cardinality(above) - 1}

\* The blocks of the innermost loop around each block, none if there is no loop.
LoopMap(blocks) ==
    LET Heads == {h \in Blocks(blocks) : \E u \in Blocks(blocks) :
                     h \in Succs(blocks, u) /\ (u = h \/ h \in StrictDominators(blocks, u))}
        LoopOf(h) ==
            {b \in ReachFrom(blocks, {h}, {}) :
                b = h \/ (/\ h \in StrictDominators(blocks, b)
                          /\ h \in ReachFrom(blocks, Succs(blocks, b), {}))}
    IN  [b \in Blocks(blocks) |->
            LET around == {LoopOf(h) : h \in {k \in Heads : b \in LoopOf(k)}}
            IN  IF around = {} THEN {}
                ELSE CHOOSE l \in around : \A m \in around : Cardinality(l) <= Cardinality(m)]

dominate(p, a, b) == a = b \/ <<a, b>> \in p.domTree

\* The statements that give v a value, in order.
InEdges(p, v) ==
    SelectSeq(p.code, LAMBDA s : s.dst = v /\ s.op \in {"load", "store", "copy"} \union Binary)

(***************************************************************************)
(* locationToken: equal for two variables that the code takes for the same *)
(* location or value.                                                      *)
(***************************************************************************)
locationToken(p, v) ==
    LET Made(x, ops) == {i \in DOMAIN p.code : p.code[i].dst = x /\ p.code[i].op \in ops}
        By(x, ops) == p.code[Min(Made(x, ops))].args
        token[x \in Vars] ==
            CASE x \in DOMAIN p.const -> <<"C", x>>
              [] Made(x, {"copy"}) # {} -> token[By(x, {"copy"})[1]]
              [] Made(x, {"gep", "elem"}) # {} ->
                     <<"G", token[By(x, {"gep", "elem"})[1]], By(x, {"gep", "elem"})[2]>>
              [] Made(x, {"load"}) # {} -> <<"L", token[By(x, {"load"})[1]]>>
              [] OTHER -> <<"O", x>>
    IN  token[v]

-----------------------------------------------------------------------------
(* Guards: buildGuardIndex and evalGuardInterval. *)

\* What the branches say of the value with the token valTok, on either side.
GuardsOf(p, valTok) ==
    LET Cmps(cond) == SelectSeq(p.code, LAMBDA s : s.dst = cond /\ s.op \in Comparisons)
        Guards(b) ==
            LET cmp == Cmps(p.blocks[b].cond)[1]
                Side(k) == [pred |-> cmp.op, idxIsOp0 |-> k = 1, bndSide |-> cmp.args[3 - k]]
                sides == SelectSeq(<<1, 2>>, LAMBDA k :
                            /\ locationToken(p, cmp.args[k]) = valTok
                            /\ k = 2 => locationToken(p, cmp.args[1]) # valTok)
                At(i, k) == [side |-> Side(k), succBB |-> p.blocks[b].succ[i], branchBB |-> b,
                             condTrue |-> i = 1]
            IN  IF p.blocks[b].cond = NoVar \/ Cmps(p.blocks[b].cond) = <<>> \/ sides = <<>>
                THEN <<>> ELSE <<At(1, sides[1]), At(2, sides[1])>>
    IN  FlattenSeq([b \in Blocks(p.blocks) |-> Guards(b)])

swapCmp == [LT |-> "GT", LE |-> "GE", GT |-> "LT", GE |-> "LE", EQ |-> "EQ", NE |-> "NE"]
negCmp == [LT |-> "GE", LE |-> "GT", GT |-> "LE", GE |-> "LT", EQ |-> "NE", NE |-> "EQ"]
decBound(u) == IF u <= NINF + Slack THEN u ELSE u - 1
incBound(l) == IF l >= INF - Slack THEN l ELSE l + 1

\* What a branch says of the value, given the range of what it is compared with.
evalGuardInterval(g, bnd) ==
    LET said == IF g.side.idxIsOp0 THEN g.side.pred ELSE swapCmp[g.side.pred]
        c == IF g.condTrue THEN said ELSE negCmp[said]
    IN  CASE isBottom(bnd) \/ bnd = TOP -> TOP
          [] c = "LT" -> <<NINF, decBound(bnd[2])>>
          [] c = "LE" -> <<NINF, bnd[2]>>
          [] c = "GT" -> <<incBound(bnd[1]), INF>>
          [] c = "GE" -> <<bnd[1], INF>>
          [] c = "EQ" -> bnd
          [] OTHER -> TOP

-----------------------------------------------------------------------------
(***************************************************************************)
(* A query is [var, cxt, depth, cache]; its result [range, cache] has the  *)
(* cache it leaves.  Those below ask further queries of analyze, the       *)
(* function of analyzeVarRange.                                            *)
(***************************************************************************)
Contexts(p) == {NoContext} \union {i \in DOMAIN p.code : p.code[i].op = "call"}
EmptyCache(p) == [k \in Contexts(p) \X Vars |-> BOTTOM]

Query(v, cxt, depth, cache) == [var |-> v, cxt |-> cxt, depth |-> depth, cache |-> cache]
Ask(analyze, v, q, cache) == analyze[Query(v, q.cxt, 0, cache)]

SameSlot(p, s) == SelectSeq(p.code, LAMBDA t :
    t.op = "store" /\ locationToken(p, t.dst) = locationToken(p, s.args[1]))

Tighter(r, by) == IF isBottom(meet(r, by)) THEN r ELSE meet(r, by)

\* Mutant of Killed: no store undoes a guard.
NeverKilled(p, s, g) == FALSE

Killed(p, s, g) == \E i \in DOMAIN SameSlot(p, s) : dominate(p, g.succBB, SameSlot(p, s)[i].bb)

refineByGuards(p, analyze, q, s, found) ==
    LET Narrowed(r, g) ==
            LET bnd == Ask(analyze, g.side.bndSide, q, r.cache)
            IN  IF /\ p.blocks[g.succBB].fun = p.blocks[s.bb].fun
                   /\ dominate(p, g.succBB, s.bb)
                   /\ p.loops[g.succBB] = {}
                   /\ ~Killed(p, s, g)
                THEN [range |-> Tighter(r.range, evalGuardInterval(g, bnd.range)),
                      cache |-> bnd.cache]
                ELSE r
    IN  FoldLeft(Narrowed, found, GuardsOf(p, locationToken(p, s.dst)))

(***************************************************************************)
(* The direction in which the first store of the loop that adds a constant *)
(* to the slot changes it, 0 if there is none.                             *)
(***************************************************************************)
Direction(p, analyze, q, s, cache) ==
    LET loop == p.loops[s.bb]
        valTok == locationToken(p, s.dst)
        Is(v) == locationToken(p, v) = valTok
        Sums(st) == SelectSeq(InEdges(p, st.args[1]), LAMBDA t :
                        t.op \in {"add", "sub"} /\ (Is(t.args[1]) \/ Is(t.args[2])))
        Sign(t, other) ==
            LET step == IF t.op = "sub" THEN -other[1] ELSE other[1]
            IN  CASE ~isConstant(other) \/ step = 0 -> 0 [] step > 0 -> 1 [] OTHER -> -1
        By(t, other) == [dir |-> Sign(t, other.range), cache |-> other.cache]
        First(r, sums) ==
            IF sums = <<>> THEN r
            ELSE LET args == sums[1].args
                 IN  By(sums[1], Ask(analyze, IF Is(args[1]) THEN args[2] ELSE args[1], q, r.cache))
        Look(r, st) == IF r.dir # 0 \/ st.bb \notin loop THEN r ELSE First(r, Sums(st))
    IN  FoldLeft(Look, [dir |-> 0, cache |-> cache], SameSlot(p, s))

\* The range of the values the slot has before the loop, in front of the guard.
InitRange(p, analyze, q, s, g, cache) ==
    LET Joined(r, st) ==
            LET value == Ask(analyze, st.args[1], q, r.cache)
            IN  IF st.bb \in p.loops[s.bb] \/ ~dominate(p, st.bb, g.branchBB) THEN r
                ELSE [range |-> join(r.range, value.range), cache |-> value.cache]
    IN  FoldLeft(Joined, [range |-> BOTTOM, cache |-> cache], SameSlot(p, s))

\* What the slot can have within the loop, from its start in its direction to the guard.
LoopRange(dir, init, by) == IF dir > 0 THEN <<init[1], by[2]>> ELSE <<by[1], init[2]>>

refineByLoop(p, analyze, q, s, found) ==
    LET Narrowed(g, dir, init) ==
            LET bnd == Ask(analyze, g.side.bndSide, q, init.cache)
                by == LoopRange(dir, init.range, evalGuardInterval(g, bnd.range))
            IN  IF isBottom(init.range) THEN [found EXCEPT !.cache = init.cache]
                ELSE [range |-> Tighter(found.range, by), cache |-> bnd.cache]
        Stepping(g, step) ==
            IF step.dir = 0 THEN [found EXCEPT !.cache = step.cache]
            ELSE Narrowed(g, step.dir, InitRange(p, analyze, q, s, g, step.cache))
        ByFirst(guards) ==
            IF guards = <<>> THEN found
            ELSE Stepping(guards[1], Direction(p, analyze, q, s, found.cache))
    IN  ByFirst(SelectSeq(GuardsOf(p, locationToken(p, s.dst)), LAMBDA g :
                    g.succBB \in p.loops[s.bb] /\ dominate(p, g.succBB, s.bb)))

\* Outside of loops only a range that is unbounded on a side is narrowed.
refineLoad(p, analyze, q, s, found) ==
    IF p.loops[s.bb] # {} THEN refineByLoop(p, analyze, q, s, found)
    ELSE IF found.range[2] >= INF - Slack \/ found.range[1] <= NINF + Slack
         THEN refineByGuards(p, analyze, q, s, found)
    ELSE found

-----------------------------------------------------------------------------
Cached(found, q) == [found EXCEPT !.cache[<<q.cxt, q.var>>] = found.range]

(***************************************************************************)
(* The operands of a sum are the arguments of a call, evaluated in an      *)
(* order that is the compiler's; those of a bitwise operator are not, and  *)
(* count as unknown if they have no definition.                            *)
(***************************************************************************)
BinaryRange(p, ask, s, cache) ==
    LET first == IF p.leftFirst \/ s.op = "and" THEN 1 ELSE 2
        one == ask[<<s.args[first], cache>>]
        two == ask[<<s.args[3 - first], one.cache>>]
        Operand(r) == IF s.op = "and" /\ isBottom(r) THEN TOP ELSE r
        ranges == IF first = 1 THEN <<one.range, two.range>> ELSE <<two.range, one.range>>
    IN  [range |-> Operation(s.op, Operand(ranges[1]), Operand(ranges[2])), cache |-> two.cache]

\* What a variable counts for while it is being computed.
Provisional == TOP

analyzeVarRange(p, bindings, query) ==
    LET Caches == [Contexts(p) \X Vars -> (NINF .. INF) \X (NINF .. INF)]
        analyze[q \in [var : Vars, cxt : Contexts(p), depth : 0 .. MaxDepth, cache : Caches]] ==
            LET here == <<q.cxt, q.var>>
                ask == [a \in Vars \X Caches |-> analyze[Query(a[1], q.cxt, q.depth + 1, a[2])]]
                Joined(r, s) ==
                    LET value == IF s.op \in Binary THEN BinaryRange(p, ask, s, r.cache)
                                 ELSE ask[<<s.args[1], r.cache>>]
                    IN  [range |-> join(r.range, value.range), cache |-> value.cache]
                load == InEdges(p, q.var)[1]
                Refined(found) ==
                    CASE isBottom(found.range) -> found
                      [] load.op = "load" -> Cached(refineLoad(p, analyze, q, load, found), q)
                      [] OTHER -> Cached(found, q)
                known == [range |-> q.cache[here], cache |-> q.cache]
            IN  CASE q.depth = MaxDepth -> [known EXCEPT !.range = TOP]
                  [] here \in DOMAIN bindings -> [known EXCEPT !.range = bindings[here]]
                  [] ~isBottom(known.range) -> known
                  [] q.var \in DOMAIN p.const ->
                         Cached([known EXCEPT !.range = Constant(p.const[q.var])], q)
                  [] OTHER -> Refined(FoldLeft(Joined,
                         [range |-> BOTTOM, cache |-> [q.cache EXCEPT ![here] = Provisional]],
                         InEdges(p, q.var)))
    IN  analyze[query]
=============================================================================
