-------------------------------- MODULE Forces --------------------------------
(***************************************************************************)
(* How the game adds up an army: strength, morale, cohesion and combat     *)
(* power of sub-units, formations and the combatants of a battle.  U is a  *)
(* set of sub-units, and the functions give of each its strength (+0x3C),  *)
(* organization (+0x40), type and so on; A is a set of armies.  Strength   *)
(* and organization are in thousandths.                                    *)
(***************************************************************************)
EXTENDS FixedPoint, FiniteSets, FiniteSetsExt, Functions

Total(f, U) == SumFunctionOnSet(f, U)

-------------------------------------------------------------------------------
(* Sub-units and formations.                                               *)

\* What a type is worth.  A land type is worth the sum of the words from 0x228 to
\* 0x240 but one, times that one, 0x238: the word the attack reads as its
\* defense.  The fighting ships multiply by evasion and torpedoes, the other ships
\* do not fight.
CombatRating(type) ==
    IF type.land THEN Permille(type.recon + type.attack + type.fire + type.shock
                                 + type.support + type.maneuver, type.defense)
    ELSE IF type.auxiliary THEN 0
    ELSE Permille(type.guns + type.hull + type.armor,
                  1000 + type.evasion + type.torpedo)

\* Strong enough and organized enough to be reckoned with.
MinStrength == 100
MinOrg      == 1000
IsOperational(strength, org) == strength >= MinStrength /\ org >= MinOrg

\* Mutant: the penalty of a broken sub-unit doubles instead of halving.
FullPowerDoubled(rating, strength, max, org, maxOrg, exp, rebel) ==
    LET health == Permille(RatioOf(strength, max), rating)
        morale == Permille(RatioOf(IF rebel THEN 0 ELSE org, maxOrg), health)
        power  == Permille(morale, 1000 + Permille(exp, 10))
    IN  IF IsOperational(strength, org) THEN power ELSE AllDiv(power * 2000, 1000)

\* What a sub-unit is worth: rating by the part of its men that is left, the part
\* of its morale (none if its people rebel) and experience; half when broken.
FullPower(rating, strength, max, org, maxOrg, exp, rebel) ==
    LET health == Permille(RatioOf(strength, max), rating)
        morale == Permille(RatioOf(IF rebel THEN 0 ELSE org, maxOrg), health)
        power  == Permille(morale, 1000 + Permille(exp, 10))
    IN  IF IsOperational(strength, org) THEN power ELSE AllDiv(power * 1000, 2000)

\* The same without morale and experience.
EffectivePower(rating, strength, max) == Permille(RatioOf(strength, max), rating)

\* A formation of powers, scaled by the technology of its country.
FormationPower(power, U, tech) == Permille(Total(power, U), 1000 + tech)

\* A formation divides by the count it keeps (+0x40), not by its list.
FormationAverage(f, U, count) ==
    IF count = 0 THEN Total(f, U) ELSE AllDiv(Total(f, U) * 1000, count * 1000)
CohesionUndivided(f, U, count) == Total(f, U)   \* mutant: as with no count
CohesionAverage(f, U, count) ==
    IF count <= 0 THEN Total(f, U) ELSE AllDiv(Total(f, U) * 1000, count * 1000)

StrengthRatio(U, strength, max, count) ==
    CohesionAverage([u \in U |-> RatioOf(strength[u], max[u])], U, count)
MoraleRatio(U, org, maxOrg, rebel, count) ==
    CohesionAverage([u \in U |-> RatioOf(IF rebel[u] THEN 0 ELSE org[u],
                                         maxOrg[u])], U, count)

\* CUnit::CalculateAverageMorale: the average, lifted by doctrine and leader.
ArmyMorale(U, org, count, doctrine, leader) ==
    Permille(Permille(FormationAverage(org, U, count), 1000 + doctrine),
             1000 + leader)

-------------------------------------------------------------------------------
(* The combatants of a battle: sets of armies.                             *)

\* Regiments count the men they have, ships the strength of their type.
EffectiveStrength(U, land, strength, max) ==
    Total([u \in U |-> IF land[u] THEN strength[u] ELSE max[u]], U)

\* The morale of the armies, weighted by their sub-units.
CombatantMorale(A, count, morale) ==
    LET weighted == Total([a \in A |-> AllDiv(count[a] * 1000 * morale[a], 1000)], A)
        all      == Total(count, A)
    IN  IF all > 0 THEN AllDiv(weighted * 1000, all * 1000) ELSE weighted
===============================================================================
