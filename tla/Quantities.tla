----------------------------- MODULE Quantities -----------------------------
(***************************************************************************)
(* The quantities of the requirement language: exact rationals, written    *)
(* <<numerator, denominator>> with a positive denominator, and dimensions, *)
(* vectors of integer exponents.  The code has seven base dimensions; two  *)
(* of them tell everything apart that the language does with a dimension.  *)
(* Doubles are taken as the numbers they stand for: rounding and overflow  *)
(* are left out.                                                           *)
(***************************************************************************)
EXTENDS Integers

Bases == {"Length", "Time"}

Scalar == [b \in Bases |-> 0]

Base(i) == [Scalar EXCEPT ![i] = 1]

Times(d, e) == [b \in Bases |-> d[b] + e[b]]

Per(d, e) == [b \in Bases |-> d[b] - e[b]]

Powi(d, n) == [b \in Bases |-> n * d[b]]

(* A dimension has a root when all its exponents are even.                 *)
Even(d) == \A b \in Bases : d[b] % 2 = 0

HalfOf(d) == [b \in Bases |-> d[b] \div 2]

(* The dimensions every extension can name without declaring them.         *)
Builtin ==
    [n \in {"Scalar", "Length", "Time", "Velocity", "Frequency"} |->
        CASE n = "Scalar"    -> Scalar
          [] n = "Length"    -> Base("Length")
          [] n = "Time"      -> Base("Time")
          [] n = "Velocity"  -> Per(Base("Length"), Base("Time"))
          [] n = "Frequency" -> Per(Scalar, Base("Time"))]
-----------------------------------------------------------------------------
Whole(n) == <<n, 1>>

Zero == Whole(0)
One  == Whole(1)

Plus(x, y)  == <<x[1] * y[2] + y[1] * x[2], x[2] * y[2]>>
Minus(x, y) == <<x[1] * y[2] - y[1] * x[2], x[2] * y[2]>>
Prod(x, y)  == <<x[1] * y[1], x[2] * y[2]>>

(* y is not zero.                                                          *)
Quot(x, y) ==
    IF y[1] > 0 THEN <<x[1] * y[2], x[2] * y[1]>>
                ELSE <<-(x[1] * y[2]), -(x[2] * y[1])>>

Opposite(x) == <<-x[1], x[2]>>

Less(x, y)   == x[1] * y[2] < y[1] * x[2]
AtMost(x, y) == ~Less(y, x)
Equal(x, y)  == x[1] * y[2] = y[1] * x[2]

Lesser(x, y)  == IF Less(y, x) THEN y ELSE x
Greater(x, y) == IF Less(x, y) THEN y ELSE x

Compares(c, x, y) ==
    CASE c = "<"  -> Less(x, y)
      [] c = "<=" -> AtMost(x, y)
      [] c = ">"  -> Less(y, x)
      [] c = ">=" -> AtMost(y, x)
      [] c = "==" -> Equal(x, y)
      [] c = "!=" -> ~Equal(x, y)

IsWhole(x) == x[1] % x[2] = 0
Integer(x) == x[1] \div x[2]

(* x to a natural power.                                                   *)
Power(x, n) == <<x[1] ^ n, x[2] ^ n>>

(* A rational has a rational root when numerator times denominator is a    *)
(* square.  Points with an irrational root are outside the instances.      *)
Roots(x) == {s \in 0 .. (x[1] * x[2]) : s * s = x[1] * x[2]}

HasRoot(x) == x[1] >= 0 /\ Roots(x) # {}

RootOf(x) == <<CHOOSE s \in Roots(x) : TRUE, x[2]>>
=============================================================================
