----------------------------- MODULE MCLandBattle -----------------------------
(* Two regiments and a battery against a regiment and a battery. *)
EXTENDS LandBattle, TLC

CONSTANTS a1, a2, ag, d1, dg

Regiments == {a1, a2, ag, d1, dg}
Sides == [u \in Regiments |-> IF u \in {a1, a2, ag} THEN "attacker" ELSE "defender"]

Infantry == [land |-> TRUE, category |-> 1, recon |-> 500, attack |-> 1000,
             fire |-> 1000, shock |-> 2000, defense |-> 1000, support |-> 0,
             maneuver |-> 1000, tactics |-> 1000, doctrine |-> 0]
Irregular == [Infantry EXCEPT !.defense = 0]
Artillery == [Infantry EXCEPT !.category = 2, !.fire = 3000, !.shock = 0,
                              !.support = 500, !.defense = 800, !.doctrine = 500]
Types == [u \in Regiments |-> IF u \in {ag, dg} THEN Artillery
                              ELSE IF u = a2 THEN Irregular ELSE Infantry]

Strengths == (a1 :> 5000) @@ (a2 :> 1000) @@ (ag :> 3000) @@ (d1 :> 3000) @@ (dg :> 900)
Orders    == (a1 :> 1030) @@ (a2 :> 4000) @@ (ag :> 1100) @@ (d1 :> 1300) @@ (dg :> 2000)
Later  == {a2}
Technologies == {0, -27500}
Dice == {0, 9}
Provinces ==
    { [controller |-> "defender", war |-> TRUE, fort |-> 2000, recon |-> 1000,
       ratio |-> 500, inactive |-> {}],
      [controller |-> "attacker", war |-> TRUE, fort |-> 2000, recon |-> 0,
       ratio |-> 0, inactive |-> {dg}] }
Limits == {0, 1}
===============================================================================
