------------------------ MODULE AbstractInterpretation ------------------------
(***************************************************************************)
(* Abstract execution of a function over intervals.  The analysis visits   *)
(* the nodes of the ICFG in the order of their weak topological order and  *)
(* iterates its cycles: WidenDelay times as they are, then widening until  *)
(* nothing changes, then narrowing.                                        *)
(*                                                                         *)
(* When it is done the module runs the function, so that the states found  *)
(* can be judged.                                                          *)
(***************************************************************************)
EXTENDS IntervalValue, FiniteSets, Sequences, TLC

CONSTANTS
    Programs,     \* [stmts : [nodes -> statements], edges, wto, delay]
    Regs, Objs,   \* registers, assigned once each, and memory objects
    Args, Inputs, \* the registers that are arguments, and the values they may have
    MaxVal        \* bound: a run that computes a larger value stops

ASSUME BoundAssumption == MaxVal \in Nat /\ MaxVal < Infinity
ASSUME ArgsAssumption == Args \subseteq Regs /\ Inputs \subseteq -MaxVal .. MaxVal

VARIABLES
    program,
    phase,        \* "analyse" or "run"
    stack,        \* the calls of handleWTOComponents and handleCycleWTO, innermost first
    abstractTrace,\* node -> the state after it, of the nodes handled
    at, env       \* of the run: the node executed last, and the values so far

vars == <<program, phase, stack, abstractTrace, at, env>>
runVars == <<at, env>>

Keys == Regs \union Objs
NoReg == "none"

-----------------------------------------------------------------------------
(***************************************************************************)
(* Abstract states.  A key that is missing from the maps of the code has   *)
(* the value Bottom here: the code treats both alike.                      *)
(***************************************************************************)
EmptyState == [k \in Keys |-> Bottom]
joinStates(as, bs) == [k \in Keys |-> joinWith(as[k], bs[k])]

\* Only what is an interval on both sides is widened or narrowed.
widening(as, bs) ==
    [k \in Keys |-> IF Bottom \in {as[k], bs[k]} THEN as[k] ELSE widenWith(as[k], bs[k])]
narrowing(as, bs) ==
    [k \in Keys |-> IF Bottom \in {as[k], bs[k]} THEN as[k] ELSE narrowWith(as[k], bs[k])]

\* An operand is a register, or a number if its register is NoReg.
ValueOf(as, o) == IF o.reg = NoReg THEN <<o.num, o.num>> ELSE as[o.reg]
Known(as, o) == IF ValueOf(as, o) = Bottom THEN Top ELSE ValueOf(as, o)

\* updateStateOnLoad, Store, Binary and Cmp: registers without a value become Top.
handleSVFStatement(s, as) ==
    LET operands == {o.reg : o \in {s.a, s.b}} \ {NoReg}
        bs == IF s.op \in Operators \union {"cmp"}
              THEN [k \in Keys |-> IF k \in operands /\ as[k] = Bottom THEN Top ELSE as[k]]
              ELSE as
    IN  CASE s.op \in {"load", "store"} -> [bs EXCEPT ![s.dst] = ValueOf(as, s.a)]
          [] s.op \in Operators ->
              [bs EXCEPT ![s.dst] = Arithmetic(s.op, Known(as, s.a), Known(as, s.b))]
          [] s.op = "cmp" -> [bs EXCEPT ![s.dst] = Compare(s.pred, Known(as, s.a), Known(as, s.b))]

(***************************************************************************)
(* The branch an edge takes: succ of the comparison cmp.  The tables of    *)
(* reverse and of exchanged predicates have no entry for LE.               *)
(***************************************************************************)
reversePredicate == [EQ |-> "NE", NE |-> "EQ", GT |-> "LE", GE |-> "LT", LT |-> "GE",
                     LE |-> "none", none |-> "none"]
switchPredicate == [EQ |-> "EQ", NE |-> "NE", GT |-> "LT", GE |-> "LE", LT |-> "GT",
                    LE |-> "none", none |-> "none"]

\* What remains possible of the left operand when the predicate holds.
Possible(pred, rhs) ==
    CASE pred = "EQ" -> rhs
      [] pred = "GT" -> <<safeAdd(lb(rhs), 1), Infinity>>
      [] pred = "GE" -> <<lb(rhs), Infinity>>
      [] pred = "LT" -> <<-Infinity, safeAdd(ub(rhs), -1)>>
      [] pred = "LE" -> <<-Infinity, ub(rhs)>>
      [] OTHER -> Top

isCmpBranchFeasible(as, cmp, succ) == meetWith(as[cmp.dst], <<succ, succ>>) # Bottom

LoadedFrom(p, r) ==
    {p.stmts[n].a.reg : n \in {m \in DOMAIN p.stmts : p.stmts[m].op = "load" /\ p.stmts[m].dst = r}}

\* Mutant of Refined: the branch not taken refines as the one taken does.
RefinedAlike(p, as, cmp, succ) ==
    IF isNumeral(ValueOf(as, cmp.b)) /\ ~isNumeral(ValueOf(as, cmp.a))
    THEN [as EXCEPT ![cmp.a.reg] = meetWith(@, Possible(cmp.pred, ValueOf(as, cmp.b)))]
    ELSE as

\* A comparison with a number narrows the register and the memory it was loaded from.
Refined(p, as, cmp, succ) ==
    LET swap == isNumeral(ValueOf(as, cmp.a)) /\ ~isNumeral(ValueOf(as, cmp.b))
        op0 == IF swap THEN cmp.b ELSE cmp.a
        op1 == IF swap THEN cmp.a ELSE cmp.b
        ordered == IF swap THEN switchPredicate[cmp.pred] ELSE cmp.pred
        pred == IF succ = 0 THEN reversePredicate[ordered] ELSE ordered
    IN  IF isNumeral(ValueOf(as, op0)) \/ ~isNumeral(ValueOf(as, op1)) THEN as
        ELSE [k \in Keys |->
                IF k \in {op0.reg} \union LoadedFrom(p, op0.reg)
                THEN meetWith(as[k], Possible(pred, ValueOf(as, op1))) ELSE as[k]]

\* mergeStatesFromPredecessors: the states that come in along the feasible edges.
Incoming(p, trace, n) ==
    LET edges == {e \in p.edges : e.dst = n /\ e.src \in DOMAIN trace}
        plain == {e \in edges : e.cmp = 0}
        taken == {e \in edges \ plain :
                     isCmpBranchFeasible(trace[e.src], p.stmts[e.cmp], e.succ)}
    IN  {trace[e.src] : e \in plain}
        \union {Refined(p, trace[e.src], p.stmts[e.cmp], e.succ) : e \in taken}

Merged(states) == FoldSet(joinStates, EmptyState, states)

-----------------------------------------------------------------------------
(* A component of the order is [head, cycle, body]; cycle tells the kinds. *)

Feasible(n) == Incoming(program, abstractTrace, n) # {}
Put(n, as) == (n :> as) @@ abstractTrace

\* The state of n after handleWTOComponent; the old one stays if nothing comes in.
Handled(n) ==
    IF Feasible(n)
    THEN handleSVFStatement(program.stmts[n], Merged(Incoming(program, abstractTrace, n)))
    ELSE abstractTrace[n]

Components(comps) == [kind |-> "components", todo |-> comps]
Cycle(c, iter, increasing) ==
    [kind |-> "cycle", cycle |-> c, iter |-> iter, increasing |-> increasing]

Init ==
    /\ program \in Programs
    /\ phase = "analyse"
    /\ stack = <<Components(program.wto)>>
    /\ abstractTrace = (0 :> EmptyState)
    /\ at = 0 /\ env = <<>>

InComponents(cycle) ==
    /\ phase = "analyse"
    /\ Head(stack).kind = "components" /\ Head(stack).todo # <<>>
    /\ Head(Head(stack).todo).cycle = cycle

Rest == <<Components(Tail(Head(stack).todo))>> \o Tail(stack)

handleSingletonWTO ==
    /\ InComponents(FALSE)
    /\ LET n == Head(Head(stack).todo).head
       IN  abstractTrace' = IF Feasible(n) THEN Put(n, Handled(n)) ELSE abstractTrace
    /\ stack' = Rest
    /\ UNCHANGED <<program, phase, runVars>>

\* handleWTOComponent of a cycle: its head is merged before the first iteration.
beginCycleWTO ==
    /\ InComponents(TRUE)
    /\ LET c == Head(Head(stack).todo)
       IN  IF Feasible(c.head)
           THEN /\ abstractTrace' =
                       Put(c.head, Merged(Incoming(program, abstractTrace, c.head)))
                /\ stack' = <<Cycle(c, 0, TRUE)>> \o Rest
           ELSE stack' = Rest /\ UNCHANGED abstractTrace
    /\ UNCHANGED <<program, phase, runVars>>

endComponents ==
    /\ phase = "analyse"
    /\ Head(stack).kind = "components" /\ Head(stack).todo = <<>>
    /\ stack' = Tail(stack)
    /\ IF Tail(stack) = <<>>
       THEN phase' = "run" /\ env' \in [Args -> Inputs]  \* the run begins
       ELSE UNCHANGED <<phase, env>>
    /\ UNCHANGED <<program, abstractTrace, at>>

InCycle(increasing, delayed) ==
    /\ phase = "analyse" /\ Head(stack).kind = "cycle"
    /\ Head(stack).increasing = increasing
    /\ (Head(stack).iter < program.delay) = delayed

\* The body is handled next.
Iterate(increasing) ==
    LET f == Head(stack)
    IN  <<Components(f.cycle.body), Cycle(f.cycle, f.iter + 1, increasing)>> \o Tail(stack)

iterateCycle ==
    /\ InCycle(TRUE, TRUE)
    /\ LET head == Head(stack).cycle.head IN abstractTrace' = Put(head, Handled(head))
    /\ stack' = Iterate(TRUE)
    /\ UNCHANGED <<program, phase, runVars>>

widenCycle ==
    /\ InCycle(TRUE, FALSE)
    /\ LET head == Head(stack).cycle.head
           widened == widening(abstractTrace[head], Handled(head))
       IN  /\ abstractTrace' = Put(head, widened)
           /\ stack' = IF widened = abstractTrace[head]
                       THEN <<[Head(stack) EXCEPT !.increasing = FALSE]>> \o Tail(stack)
                       ELSE Iterate(TRUE)
    /\ UNCHANGED <<program, phase, runVars>>

narrowCycle ==
    /\ InCycle(FALSE, FALSE)
    /\ LET head == Head(stack).cycle.head
           narrowed == narrowing(abstractTrace[head], Handled(head))
       IN  /\ abstractTrace' = Put(head, narrowed)
           /\ stack' = IF narrowed = abstractTrace[head] THEN Tail(stack) ELSE Iterate(FALSE)
    /\ UNCHANGED <<program, phase, runVars>>

-----------------------------------------------------------------------------
(* The run of the function. *)

Concrete(o) == IF o.reg = NoReg THEN o.num ELSE env[o.reg]

Executed(s) ==
    LET value ==
            CASE s.op \in {"load", "store"} -> Concrete(s.a)
              [] s.op \in Operators -> Result(s.op, Concrete(s.a), Concrete(s.b))
              [] s.op = "cmp" -> IF Holds(s.pred, Concrete(s.a), Concrete(s.b)) THEN 1 ELSE 0
    IN  (s.dst :> value) @@ env

Run ==
    /\ phase = "run"
    /\ \E e \in program.edges :
          /\ e.src = at
          /\ e.cmp # 0 => env[program.stmts[e.cmp].dst] = e.succ
          /\ at' = e.dst
          /\ env' = Executed(program.stmts[e.dst])
          /\ \A k \in DOMAIN env' : env'[k] \in -MaxVal .. MaxVal
    /\ UNCHANGED <<program, phase, stack, abstractTrace>>

Next ==
    \/ handleSingletonWTO \/ beginCycleWTO \/ endComponents
    \/ iterateCycle \/ widenCycle \/ narrowCycle
    \/ Run

Spec == Init /\ [][Next]_vars

-----------------------------------------------------------------------------
(* Properties *)

\* Every value of the run is within the interval found for it, where there is
\* one, and no node that runs was found unreachable (AbstractInterpretation::analyse).
Sound ==
    phase = "run" =>
        /\ at \in DOMAIN abstractTrace
        /\ \A k \in DOMAIN env :
              abstractTrace[at][k] # Bottom =>
                  containedWithin(<<env[k], env[k]>>, abstractTrace[at][k])

\* Once a cycle is narrowed, its head has all that its predecessors still give
\* for each memory object (AbstractInterpretation::handleCycleWTO).
FixpointReached ==
    phase = "analyse" /\ Head(stack).kind = "cycle" /\ ~Head(stack).increasing =>
        LET head == Head(stack).cycle.head
        IN  \A o \in Objs : containedWithin(Handled(head)[o], abstractTrace[head][o])

\* An iteration after the delay makes a bound infinite or takes an infinite one back,
\* so their number does not depend on the values (AbstractInterpretation::handleCycleWTO).
IterationsBounded ==
    \A d \in DOMAIN stack :
        stack[d].kind = "cycle" =>
            LET known == {k \in Keys : abstractTrace[stack[d].cycle.head][k] # Bottom}
            IN  stack[d].iter <= program.delay + 4 * Cardinality(known)
=============================================================================
