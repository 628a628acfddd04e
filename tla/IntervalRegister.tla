------------------------- MODULE IntervalRegister -------------------------
(***************************************************************************)
(* A register that a program computes with and the interval found for it:  *)
(* operations, comparisons and the joins of paths, one after the other.    *)
(* The program has two interval domains: IntervalValue, of the abstract    *)
(* execution, and Range, of the buffer overflow checker.                   *)
(***************************************************************************)
EXTENDS IntervalValue

CONSTANTS
    Operands,      \* the intervals the second operands are known to be in,
    RangeOperands  \* and the ranges

R == INSTANCE RangeDomain

ASSUME OperandsAssumption ==
    /\ Operands \subseteq (-Infinity .. Infinity) \X (-Infinity .. Infinity)
    /\ RangeOperands \subseteq (R!NINF .. R!INF) \X (R!NINF .. R!INF)

VARIABLES
    domain,  \* "IntervalValue" or "Range"
    value,   \* the number in the register
    interval \* and the interval found for it

vars == <<domain, value, interval>>

Second == IF domain = "Range" THEN RangeOperands ELSE Operands
MachineNumbers == IF domain = "Range" THEN R!NINF .. R!INF ELSE Numbers
In(w) == {y \in MachineNumbers : Contains(w, y)}

Init ==
    /\ domain \in {"IntervalValue", "Range"}
    /\ interval \in Second
    /\ value \in In(interval)

\* An operation with an undefined result, or one that is no number, ends the run.
OperateInterval ==
    \E op \in Operators, w \in Operands :
        /\ domain = "IntervalValue"
        /\ ~GoesWrong(op, interval, w)
        /\ \E y \in In(w) : Defined(op, value, y) /\ value' = Result(op, value, y)
        /\ value' \in Numbers
        /\ interval' = Arithmetic(op, interval, w)
        /\ UNCHANGED domain

\* A logical shift to the right fills the sign with zeros.
LogicalShift(x, y) == (IF x < 0 THEN x + Pow2[Bits + 1] ELSE x) \div Pow2[y]

OperateRange ==
    \E op \in Operators \union {"lshr"}, w \in RangeOperands :
        /\ domain = "Range"
        /\ ~R!GoesWrong(op, interval, w)
        /\ \E y \in In(w) :
              IF op = "lshr" THEN y \in 0 .. Bits /\ value' = LogicalShift(value, y)
              ELSE Defined(op, value, y) /\ value' = Result(op, value, y)
        /\ value' \in MachineNumbers
        /\ interval' = R!Operation(op, interval, w)
        /\ UNCHANGED domain

\* Ranges are not compared.
Test ==
    \E pred \in Predicates, w \in Operands :
        /\ domain = "IntervalValue"
        /\ \E y \in In(w) : value' = IF Holds(pred, value, y) THEN 1 ELSE 0
        /\ interval' = Compare(pred, interval, w)
        /\ UNCHANGED domain

\* Another path leads to the same point, or a loop to its head.
Merge ==
    \E w \in Second :
        /\ value' \in {value} \union In(w)
        /\ interval' \in IF domain = "Range" THEN {R!join(interval, w), R!widening(interval, w)}
                         ELSE {joinWith(interval, w), widenWith(interval, w)}
        /\ UNCHANGED domain

\* The number is known to be in w as well.
Narrow ==
    \E w \in Second :
        /\ Contains(w, value)
        /\ interval' \in IF domain = "Range" THEN {R!meet(interval, w)}
                         ELSE {meetWith(interval, w), narrowWith(interval, w)}
        /\ UNCHANGED <<domain, value>>

Next == OperateInterval \/ OperateRange \/ Test \/ Merge \/ Narrow

Spec == Init /\ [][Next]_vars

-----------------------------------------------------------------------------
(* Properties *)

\* However the register is computed, its number is within the interval found for
\* it (the operators of IntervalValue and of Range).
ValueContained == interval # Bottom /\ Contains(interval, value)
=============================================================================
