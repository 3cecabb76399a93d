----------------------------- MODULE BattleVictory -----------------------------
(***************************************************************************)
(* The verdict of CCombat::EvaluateVictoryAndStackwipe (0x0059C630):       *)
(* whether a battle is over and who has won it.  st and mo are, by side,   *)
(* the strength that 0x005DC0E0 adds up and whether the side has an        *)
(* operational unit (vtable + 0x58); trapped is retreat_province_id = -1.  *)
(*                                                                         *)
(* The routine wipes out a side that has no operational unit left when the *)
(* other has more than twice its strength or the province has no way out,  *)
(* first the defender, then, with what is left of the defender, the        *)
(* attacker.  The wipe is in its local variables only: it counts when the  *)
(* battle ends on the same call.                                           *)
(***************************************************************************)
EXTENDS Integers

Side == {"attacker", "defender"}
Enemy(s) == IF s = "attacker" THEN "defender" ELSE "attacker"

\* Half of a strength, as the routine compares it.
HalfOf(x) == x \div 2

\* Side s is broken and its enemy, e strong, is twice as strong or s is trapped.
\* Mutant: the morale of the side is not asked for.
WipedWhateverMorale(m, x, e, trapped) == HalfOf(e) > x \/ trapped
Wiped(m, x, e, trapped) == ~m /\ (HalfOf(e) > x \/ trapped)

\* Mutant of Left: the way out of the province is not looked up for the attacker.
LeftAttackerEscapes(st, mo, trapped) ==
    LET d == IF Wiped(mo["defender"], st["defender"], st["attacker"], trapped)
             THEN 0 ELSE st["defender"]
        a == IF Wiped(mo["attacker"], st["attacker"], d, FALSE)
             THEN 0 ELSE st["attacker"]
    IN  [s \in Side |-> IF s = "attacker" THEN a ELSE d]

\* The strengths that are left: the defender's is settled first.
Left(st, mo, trapped) ==
    LET d == IF Wiped(mo["defender"], st["defender"], st["attacker"], trapped)
             THEN 0 ELSE st["defender"]
        a == IF Wiped(mo["attacker"], st["attacker"], d, trapped)
             THEN 0 ELSE st["attacker"]
    IN  [s \in Side |-> IF s = "attacker" THEN a ELSE d]

\* The overrun quota: strength * 1000 / (threshold * 1000), -1 without divisor.
Quota(x, threshold) == IF threshold = 0 THEN -1 ELSE x \div threshold

\* Side s has won: its enemy is gone, it is not, and its quota is positive; with
\* the check asked for, the enemy must have been able to retreat.
Wins(s, l, threshold, check, canRetreat) ==
    /\ l[s] # 0 /\ l[Enemy(s)] = 0
    /\ check => canRetreat[Enemy(s)]
    /\ Quota(l[s], threshold) > l[Enemy(s)]

Verdict(st, mo, trapped, threshold, check, canRetreat) ==
    LET l == Left(st, mo, trapped)
    IN  IF Wins("attacker", l, threshold, check, canRetreat) THEN "attacker"
        ELSE IF Wins("defender", l, threshold, check, canRetreat) THEN "defender"
        ELSE "none"

-------------------------------------------------------------------------------
(* The same with the sides exchanged.                                      *)

Swapped(f) == [s \in Side |-> f[Enemy(s)]]
Opposite(w) == IF w \in Side THEN Enemy(w) ELSE w
===============================================================================
