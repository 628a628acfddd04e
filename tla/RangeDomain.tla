------------------------------ MODULE RangeDomain ------------------------------
(***************************************************************************)
(* The intervals of the buffer overflow checker (class Range).  A range is *)
(* a pair of numbers of the machine; its largest and smallest number stand *)
(* for the infinities, and a range whose bounds are the wrong way round is *)
(* empty.                                                                  *)
(***************************************************************************)
EXTENDS Integers, FiniteSetsExt

CONSTANT Bits  \* of a number, without its sign: 63 in the code

V == INSTANCE IntervalValue WITH IntBits <- Bits  \* what the operators of C++ do with numbers

INF == V!Pow2[Bits] - 1
NINF == -V!Pow2[Bits]
TOP == <<NINF, INF>>
BOTTOM == <<INF, NINF>>
Constant(x) == <<x, x>>

isBottom(r) == r[1] > r[2]
isConstant(r) == r[1] = r[2]
isSubset(r, s) == s[1] <= r[1] /\ r[2] <= s[2]
Ends(r) == {r[1], r[2]}

\* safeAdd and safeMul.
Saturated(x) == Max({NINF, Min({INF, x})})

\* The smallest number has no opposite: it stays as it is.
Negated(x) == IF x = NINF THEN NINF ELSE -x

join(r, s) ==
    IF isBottom(r) THEN s ELSE IF isBottom(s) THEN r
    ELSE <<Min({r[1], s[1]}), Max({r[2], s[2]})>>

meet(r, s) ==
    IF isBottom(r) \/ isBottom(s) THEN BOTTOM ELSE <<Max({r[1], s[1]}), Min({r[2], s[2]})>>

widening(prev, next) ==
    IF isBottom(prev) THEN next ELSE IF isBottom(next) THEN prev
    ELSE <<IF next[1] < prev[1] THEN NINF ELSE prev[1],
           IF next[2] > prev[2] THEN INF ELSE prev[2]>>

-----------------------------------------------------------------------------
(* The operators, on ranges that are not empty. *)

Hull(results) == <<Min(results), Max(results)>>

add(r, s) == <<Saturated(r[1] + s[1]), Saturated(r[2] + s[2])>>
sub(r, s) == <<Saturated(r[1] + Negated(s[2])), Saturated(r[2] + Negated(s[1]))>>
mul(r, s) == Hull({Saturated(x * y) : x \in Ends(r), y \in Ends(s)})
div(r, s) ==
    IF isSubset(Constant(0), s) THEN TOP ELSE Hull({V!Quotient(x, y) : x \in Ends(r), y \in Ends(s)})

mod(r, s) ==
    LET most == Max({V!Abs(y) : y \in Ends(s)}) - 1
    IN  IF isSubset(Constant(0), s) THEN TOP
        ELSE IF isConstant(r) /\ isConstant(s) THEN Constant(V!Remainder(r[1], s[1]))
        ELSE IF isConstant(s) /\ r[1] >= 0 THEN <<0, Min({r[2], most})>>
        ELSE <<-most, most>>

bit_and(r, s) ==
    IF isConstant(r) /\ isConstant(s) THEN Constant(V!BitAnd(r[1], s[1]))
    ELSE IF r[1] >= 0 /\ s[1] >= 0 THEN <<0, Min({r[2], s[2]})>>
    ELSE IF r[1] >= 0 THEN <<0, r[2]>>
    ELSE IF s[1] >= 0 THEN <<0, s[2]>>
    ELSE TOP

\* One less than the power of two above both ranges.
Covering(r, s) == V!Pow2[Min({i \in 0 .. Bits : V!Pow2[i] > Max({r[2], s[2]})})] - 1

bit_or(r, s) ==
    IF isConstant(r) /\ isConstant(s) THEN Constant(V!BitOr(r[1], s[1]))
    ELSE IF r[1] >= 0 /\ s[1] >= 0 THEN <<Max({r[1], s[1]}), Covering(r, s)>>
    ELSE TOP

bit_xor(r, s) ==
    IF isConstant(r) /\ isConstant(s) THEN Constant(V!BitXor(r[1], s[1]))
    ELSE IF r[1] >= 0 /\ s[1] >= 0 THEN <<0, Covering(r, s)>>
    ELSE TOP

shl(r, s) ==
    IF s[1] < 0 \/ s[2] >= Bits THEN TOP
    ELSE <<Saturated(r[1] * V!Pow2[IF r[1] >= 0 THEN s[1] ELSE s[2]]),
           Saturated(r[2] * V!Pow2[IF r[2] >= 0 THEN s[2] ELSE s[1]])>>

ashr(r, s) ==
    IF s[1] < 0 THEN TOP
    ELSE <<r[1] \div V!Pow2[Min({s[2], Bits})], r[2] \div V!Pow2[Min({s[1], Bits})]>>

lshr(r, s) == IF r[1] < 0 THEN TOP ELSE ashr(r, s)

Operation(op, r, s) ==
    CASE isBottom(r) \/ isBottom(s) -> BOTTOM
      [] op = "add" -> add(r, s)      [] op = "sub" -> sub(r, s)
      [] op = "mul" -> mul(r, s)      [] op = "div" -> div(r, s)
      [] op = "rem" -> mod(r, s)      [] op = "and" -> bit_and(r, s)
      [] op = "or" -> bit_or(r, s)    [] op = "xor" -> bit_xor(r, s)
      [] op = "shl" -> shl(r, s)      [] op = "shr" -> ashr(r, s)
      [] op = "lshr" -> lshr(r, s)

(***************************************************************************)
(* Operands the operators go wrong on.  The opposite, the absolute value   *)
(* and the quotient of the smallest number overflow; ashr takes its result *)
(* for monotonic in the distance, which it is not below zero.              *)
(***************************************************************************)
GoesWrong(op, r, s) ==
    \/ op \in {"sub", "div", "rem"} /\ s[1] = NINF
    \/ op \in {"div", "rem"} /\ r[1] = NINF /\ -1 \in Ends(s)
    \/ op = "shr" /\ r[1] < 0 /\ ~isConstant(s)
=============================================================================
