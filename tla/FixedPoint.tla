------------------------------ MODULE FixedPoint ------------------------------
(***************************************************************************)
(* The integer arithmetic of the game.  Quantities are kept in thousandths *)
(* in signed words; products and quotients go through the compiler's       *)
(* 64-bit helpers, whose division truncates towards zero.                  *)
(***************************************************************************)
EXTENDS Integers

Magnitude(x) == IF x < 0 THEN -x ELSE x

\* _alldiv: signed division, truncated towards zero.
AllDiv(a, b) ==
    LET q == Magnitude(a) \div Magnitude(b)
    IN  IF (a < 0) = (b < 0) THEN q ELSE -q

\* The product of two quantities in thousandths.
Permille(a, b) == AllDiv(a * b, 1000)

\* x of max in thousandths; -1 when there is no maximum.
RatioOf(x, max) == IF max = 0 THEN -1 ELSE AllDiv(x * 1000, max)

AtLeast(low, x) == IF x < low THEN low ELSE x
AtMost(high, x) == IF x > high THEN high ELSE x
Clamp(low, high, x) == AtLeast(low, AtMost(high, x))
===============================================================================
