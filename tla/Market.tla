-------------------------------- MODULE Market --------------------------------
(***************************************************************************)
(* The daily price of one good, pass 0x00482930: how far supply covers     *)
(* demand, the sensitivity curve 0x00482610 with its root 0x0048C080, the  *)
(* price the market heads for, the day's step and the limits around the    *)
(* base price.  Everything is fixed point with 15 bits of fraction.        *)
(***************************************************************************)
EXTENDS Integers, Sequences, FixedPoint

One       == 32768
MaxStep   == 328        \* what a day may move a price, 0x0125B9E0
MinFactor == 6554       \* a fifth, 0x00E45C30 truncated
MaxFactor == 163840     \* five times, 0x00E45C28 truncated

\* Below which share of the demand a factor applies: T1..T13 and R1..R13.
Curve == << [below |->  1638, factor |->  7307], [below |->  2163, factor |->  8454],
            [below |->  2720, factor |->  9437], [below |->  3277, factor |-> 10355],
            [below |->  3637, factor |-> 10912], [below |->  4096, factor |-> 11567],
            [below |->  4653, factor |-> 12354], [below |->  5439, factor |-> 13369],
            [below |->  6554, factor |-> 14647], [below |->  8192, factor |-> 16384],
            [below |-> 10912, factor |-> 18907], [below |-> 16384, factor |-> 22938],
            [below |-> 21823, factor |-> 26739] >>

\* One turn of Newton's iteration for the root of n.
Turned(n, x) == (x + n \div x) \div 2

\* The integer nearest to the root of n, for positive n of at most 31 bits: Newton's
\* iteration from above, then a look at the half.
NearestRoot(n) ==
    LET newton[x \in Nat \ {0}] ==
            IF Turned(n, x) >= x THEN x ELSE newton[Turned(n, x)]
        floor == newton[65536]
    IN  IF n > floor * (floor + 1) THEN floor + 1 ELSE floor

\* How strongly the price answers to a share of the demand that is covered.
Sensitivity[ratio \in Int] ==
    LET steps == {i \in DOMAIN Curve : ratio < Curve[i].below}
    IN  IF steps = {} THEN NearestRoot(ratio * One)
        ELSE Curve[CHOOSE i \in steps : \A j \in steps : i <= j].factor

\* The share of the demand that is covered.
Coverage(supply, demand) == AllDiv(supply * One, demand)

\* What the pass reads of a good.
Quote == [base : Nat, supply : Nat, demand : Nat \ {0}]

\* Where the price of a good is heading.
Target[good \in Quote] ==
    (good.base * Sensitivity[Coverage(good.supply, good.demand)]) \div One

MinPrice(base) == (base * MinFactor) \div One
MaxPrice(base) == (base * MaxFactor) \div One

\* Mutant of Delta: the day's step is taken however near the target is.
DeltaAlways(price, target) ==
    CASE target > price -> MaxStep
      [] target < price -> -MaxStep
      [] OTHER          -> 0

\* Mutant of Delta: prices are sticky, a fall waits for the limits.
DeltaUpwards(price, target) ==
    IF target - price > MaxStep THEN MaxStep ELSE 0

\* What the day moves the price: a whole step, or nothing within one step.
Delta(price, target) ==
    CASE target - price >  MaxStep -> MaxStep
      [] target - price < -MaxStep -> -MaxStep
      [] OTHER                     -> 0

\* The limits come last.
NextPrice(base, price, target) ==
    Clamp(MinPrice(base), MaxPrice(base), price + Delta(price, target))
===============================================================================
