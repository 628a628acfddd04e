--------------------------- MODULE IntervalValue ---------------------------
(***************************************************************************)
(* The interval domain.  An interval is a pair of bounds, or Bottom.  A    *)
(* bound is a number of Bits bits and a sign, or infinite; the smallest    *)
(* number of the code, which has no opposite, is left out, and Infinity    *)
(* stands where the numbers end, so that a sum or a product that leaves    *)
(* them becomes infinite.                                                  *)
(***************************************************************************)
EXTENDS Integers, FiniteSetsExt

CONSTANTS
    Bits,    \* of a number, without its sign: 63 in the code,
    IntBits  \* and of an int, which some operators compute in: 31

ASSUME BitsAssumption == Bits \in Nat \ {0}
ASSUME IntBitsAssumption == IntBits \in 2 .. Bits

\* 2 to the power of n.
Pow2[n \in Nat] == IF n = 0 THEN 1 ELSE 2 * Pow2[n - 1]

Infinity == Pow2[Bits]
Numbers == 1 - Infinity .. Infinity - 1
Infinite(x) == x \in {-Infinity, Infinity}

Bottom == <<>>
Top == <<-Infinity, Infinity>>
lb(v) == v[1]
ub(v) == v[2]
isNumeral(v) == v # Bottom /\ lb(v) = ub(v)
Contains(v, x) == lb(v) <= x /\ x <= ub(v)
containedWithin(v, w) == v = Bottom \/ (w # Bottom /\ lb(w) <= lb(v) /\ ub(v) <= ub(w))
create(x, y) == IF x <= y THEN <<x, y>> ELSE Bottom

-----------------------------------------------------------------------------
(* The lattice. *)

joinWith(v, w) ==
    IF v = Bottom THEN w ELSE IF w = Bottom THEN v
    ELSE <<Min({lb(v), lb(w)}), Max({ub(v), ub(w)})>>

JoinOf(values) ==
    LET found == values \ {Bottom}
    IN  IF found = {} THEN Bottom
        ELSE <<Min({lb(v) : v \in found}), Max({ub(v) : v \in found})>>

meetWith(v, w) ==
    IF Bottom \in {v, w} THEN Bottom
    ELSE create(Max({lb(v), lb(w)}), Min({ub(v), ub(w)}))

\* Mutant of widenWith: a bound grows to the new one.
joinBounds(v, w) == joinWith(v, w)

\* Mutant of widenWith: only the upper bound is widened.
widenAbove(v, w) == <<lb(v), IF ub(w) > ub(v) THEN Infinity ELSE ub(v)>>

widenWith(v, w) ==
    IF v = Bottom THEN w ELSE IF w = Bottom THEN v
    ELSE <<IF lb(w) < lb(v) THEN -Infinity ELSE lb(v),
           IF ub(w) > ub(v) THEN Infinity ELSE ub(v)>>

narrowWith(v, w) ==
    IF Bottom \in {v, w} THEN Bottom
    ELSE <<IF Infinite(lb(v)) THEN lb(w) ELSE lb(v), IF Infinite(ub(v)) THEN ub(w) ELSE ub(v)>>

-----------------------------------------------------------------------------
(* Arithmetic on bounds. *)

Saturated(x) == Max({-Infinity, Min({Infinity, x})})
Abs(x) == IF x < 0 THEN -x ELSE x

(***************************************************************************)
(* A number as an int, and 1 << n, which is one as well.  What C++ leaves  *)
(* undefined of them is what the processor does: a sum wraps around, and   *)
(* only the last bits of a distance count.                                 *)
(***************************************************************************)
ToInt(x) == ((x + Pow2[IntBits]) % Pow2[IntBits + 1]) - Pow2[IntBits]
OneShifted(n) == ToInt(Pow2[n % (IntBits + 1)])

\* Division towards zero.
Quotient(x, y) == IF (x < 0) = (y < 0) THEN Abs(x) \div Abs(y) ELSE -(Abs(x) \div Abs(y))
Remainder(x, y) == x - y * Quotient(x, y)

safeAdd(x, y) ==
    IF Infinity \in {x, y} THEN Infinity
    ELSE IF -Infinity \in {x, y} THEN -Infinity
    ELSE Saturated(x + y)

safeMul(x, y) == Saturated(x * y)

DivideBounds(x, y) ==
    IF ~Infinite(x) THEN IF Infinite(y) THEN 0 ELSE Quotient(x, y)
    ELSE IF ~Infinite(y) THEN IF y >= 0 THEN x ELSE -x
    ELSE IF x = y THEN Infinity ELSE -Infinity

ShiftBounds(x, y) ==
    IF x = 0 \/ Infinite(x) THEN x
    ELSE IF Infinite(y) THEN IF x >= 0 THEN 0 ELSE -1
    ELSE x \div Pow2[y % (Bits + 1)]

\* Bit i of x in two's complement, and the number with the bits b[0 .. Bits].
Bit(x, i) == (x \div Pow2[i]) % 2
OfBits(b) ==
    LET low[n \in 0 .. Bits] == IF n = 0 THEN 0 ELSE low[n - 1] + Pow2[n - 1] * b[n - 1]
    IN  low[Bits] - Infinity * b[Bits]

BitAnd(x, y) == OfBits([i \in 0 .. Bits |-> Bit(x, i) * Bit(y, i)])
BitOr(x, y) == OfBits([i \in 0 .. Bits |-> Max({Bit(x, i), Bit(y, i)})])
BitXor(x, y) == OfBits([i \in 0 .. Bits |-> (Bit(x, i) + Bit(y, i)) % 2])

-----------------------------------------------------------------------------
(* Arithmetic on intervals that are not Bottom. *)

\* The interval between the results on the bounds.
Bounds(v) == {lb(v), ub(v)}
Hull(results) == <<Min(results), Max(results)>>
Number(x) == <<x, x>>

Plus(v, w) == IF Top \in {v, w} THEN Top ELSE <<safeAdd(lb(v), lb(w)), safeAdd(ub(v), ub(w))>>
Minus(v, w) == IF Top \in {v, w} THEN Top ELSE <<safeAdd(lb(v), -ub(w)), safeAdd(ub(v), -lb(w))>>
Times(v, w) == Hull({safeMul(x, y) : x \in Bounds(v), y \in Bounds(w)})

\* An interval is cut at zero before it is divided or divides.
WithoutZero(v) ==
    IF Contains(v, 0) THEN {create(lb(v), -1), create(1, ub(v))} \ {Bottom} ELSE {v}
ZeroOf(v) == IF Contains(v, 0) THEN {Number(0)} ELSE {}

Over(v, w) ==
    LET Quotients(p, q) == {DivideBounds(x, y) : x \in Bounds(p), y \in Bounds(q)}
    IN  IF WithoutZero(w) = {} THEN Bottom
        ELSE JoinOf({Hull(Quotients(p, q)) : p \in WithoutZero(v), q \in WithoutZero(w)}
                    \union ZeroOf(v))

\* Mutant of Modulo: the bound of the divisor is one too small.
ModuloUpTo(v, w) ==
    IF isNumeral(v) /\ isNumeral(w) /\ w # Number(0) THEN Number(Remainder(lb(v), lb(w)))
    ELSE LET most == Min({Max({Abs(lb(v)), Abs(ub(v))}),
                          safeAdd(Max({Abs(lb(w)), ub(w)}), -2)})
         IN  <<IF lb(v) < 0 THEN -most ELSE 0, IF lb(v) < 0 /\ ub(v) <= 0 THEN 0 ELSE most>>

Modulo(v, w) ==
    IF Contains(w, 0) THEN IF v = Number(0) THEN v ELSE Top
    ELSE IF isNumeral(v) /\ isNumeral(w) THEN Number(Remainder(lb(v), lb(w)))
    ELSE LET most == Min({Max({Abs(lb(v)), Abs(ub(v))}),
                          safeAdd(Max({Abs(lb(w)), ub(w)}), -1)})
         IN  <<IF lb(v) < 0 THEN -most ELSE 0, IF lb(v) < 0 /\ ub(v) <= 0 THEN 0 ELSE most>>

\* The least distance is looked at, the greatest is not.
ShiftLimit == IntBits + 1
Positive(w) == meetWith(w, <<0, Infinity>>)

ShiftLeft(v, w) ==
    IF v = Top /\ w = Top THEN Top
    ELSE IF Positive(w) = Bottom THEN Bottom
    ELSE LET by == Positive(w)
             least == ToInt(lb(by))
         IN  Times(v, <<IF least >= ShiftLimit \/ Infinite(lb(by)) THEN -Infinity ELSE OneShifted(least),
                        IF Infinite(ub(by)) THEN Infinity ELSE OneShifted(ToInt(ub(by)))>>)

ShiftRight(v, w) ==
    IF v = Top /\ w = Top THEN Top
    ELSE IF Positive(w) = Bottom THEN Bottom
    ELSE LET Shifted(p) == {ShiftBounds(x, y) : x \in Bounds(p), y \in Bounds(Positive(w))}
         IN  JoinOf({Hull(Shifted(p)) : p \in WithoutZero(v)} \union ZeroOf(v))

And(v, w) ==
    IF isNumeral(v) /\ isNumeral(w) THEN Number(BitAnd(lb(v), lb(w)))
    ELSE IF lb(v) >= 0 /\ lb(w) >= 0 THEN <<0, Min({ub(v), ub(w)})>>
    ELSE IF lb(v) >= 0 THEN <<0, ub(v)>>
    ELSE IF lb(w) >= 0 THEN <<0, ub(w)>>
    ELSE Top

nextPowerOf2(x) == OneShifted(Min({i \in 1 .. Bits : Pow2[i] > x}))

\* The bits that may be set in the operands are known.
BitsKnown(v, w) == lb(v) >= 0 /\ lb(w) >= 0 /\ ~Infinite(ub(v)) /\ ~Infinite(ub(w))

Joined(v, w) ==
    IF BitsKnown(v, w) THEN <<0, ToInt(nextPowerOf2(Max({ub(v), ub(w)})) - 1)>> ELSE Top

Or(v, w) == IF isNumeral(v) /\ isNumeral(w) THEN Number(BitOr(lb(v), lb(w))) ELSE Joined(v, w)
Xor(v, w) == IF isNumeral(v) /\ isNumeral(w) THEN Number(BitXor(lb(v), lb(w))) ELSE Joined(v, w)

Arithmetic(op, v, w) ==
    CASE Bottom \in {v, w} -> Bottom
      [] op = "add" -> Plus(v, w)      [] op = "sub" -> Minus(v, w)
      [] op = "mul" -> Times(v, w)     [] op = "div" -> Over(v, w)
      [] op = "rem" -> Modulo(v, w)    [] op = "and" -> And(v, w)
      [] op = "or" -> Or(v, w)
      [] op = "xor" -> Xor(v, w)
      [] op = "shl" -> ShiftLeft(v, w) [] op = "shr" -> ShiftRight(v, w)

(***************************************************************************)
(* Operands the operators go wrong on.  A power of two is computed in an   *)
(* int, by | and ^ that above the bounds and by << that of the distance;   *)
(* and >> takes distances for smaller than the width of a number.          *)
(***************************************************************************)
GoesWrong(op, v, w) ==
    \/ /\ op \in {"or", "xor"} /\ ~(isNumeral(v) /\ isNumeral(w)) /\ BitsKnown(v, w)
       /\ Max({ub(v), ub(w)}) >= Pow2[IntBits - 1]
    \/ op = "shl" /\ ub(w) >= IntBits /\ ~Infinite(ub(w))
    \/ op = "shr" /\ ub(w) > Bits /\ ~Infinite(ub(w))

(***************************************************************************)
(* A comparison is [1, 1] or [0, 0] when it always or never holds, [0, 1]  *)
(* when it depends, and anything when an operand may be anything.          *)
(***************************************************************************)
Always(pred, v, w) ==
    CASE pred = "EQ" -> isNumeral(v) /\ v = w
      [] pred = "NE" -> meetWith(v, w) = Bottom
      [] pred = "GT" -> lb(v) > ub(w)
      [] pred = "GE" -> lb(v) >= ub(w)
      [] pred = "LT" -> ub(v) < lb(w)
      [] pred = "LE" -> ub(v) <= lb(w)
Opposite == [EQ |-> "NE", NE |-> "EQ", GT |-> "LE", GE |-> "LT", LT |-> "GE", LE |-> "GT"]
Compare(pred, v, w) ==
    IF Bottom \in {v, w} THEN Bottom
    ELSE IF Top \in {v, w} THEN Top
    ELSE IF Always(pred, v, w) THEN Number(1)
    ELSE IF Always(Opposite[pred], v, w) THEN Number(0)
    ELSE <<0, 1>>

-----------------------------------------------------------------------------
(* What the operators of the program do with numbers. *)

Operators == {"add", "sub", "mul", "div", "rem", "and", "or", "xor", "shl", "shr"}
Predicates == {"EQ", "NE", "GT", "GE", "LT", "LE"}

Defined(op, x, y) ==
    CASE op \in {"div", "rem"} -> y # 0
      [] op \in {"shl", "shr"} -> y \in 0 .. Bits
      [] OTHER -> TRUE

Result(op, x, y) ==
    CASE op = "add" -> x + y            [] op = "sub" -> x - y
      [] op = "mul" -> x * y            [] op = "div" -> Quotient(x, y)
      [] op = "rem" -> Remainder(x, y)  [] op = "and" -> BitAnd(x, y)
      [] op = "or" -> BitOr(x, y)       [] op = "xor" -> BitXor(x, y)
      [] op = "shl" -> x * Pow2[y]          [] op = "shr" -> x \div Pow2[y]

Holds(pred, x, y) ==
    CASE pred = "EQ" -> x = y [] pred = "NE" -> x # y
      [] pred = "GT" -> x > y [] pred = "GE" -> x >= y
      [] pred = "LT" -> x < y [] pred = "LE" -> x <= y
=============================================================================
