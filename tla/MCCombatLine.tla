----------------------------- MODULE MCCombatLine -----------------------------
(* Small instances of CombatLine. *)
EXTENDS CombatLine, TLC

\* The columns of the verification battery.
FromZero == 0 .. Columns - 1

\* The left flank, a centre column and the right flank of a line of six: gaps of
\* every width open up between them.
FlanksAndCentre == {0, 2, 5}
===============================================================================
