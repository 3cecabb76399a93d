------------------------------ MODULE LandBattle ------------------------------
(***************************************************************************)
(* The days of a land battle: the reserve of each side goes into the line, *)
(* every regiment in the line attacks (CLandCombatant::                    *)
(* ExecuteRegimentAttack, 0x0059A8E0), the damage it deals waits in its    *)
(* target until dusk (CCombatant::CommitCasualties.., 0x005DC330), and     *)
(* then the battle is judged (CCombat::EvaluateVictoryAndStackwipe).       *)
(*                                                                         *)
(* Every regiment has two words of damage.  The attack adds casualties to  *)
(* one and the loss of organization to the other, and the commit takes     *)
(* them out again; CasualtyWord and LossWord are the two words as the      *)
(* attack knows them, PendingCasualties and PendingLoss as the commit      *)
(* does.                                                                   *)
(***************************************************************************)
EXTENDS Forces, Sequences, BattleVictory

CONSTANTS
    Unit, SideOf, Type,        \* the regiments, their sides and unit types
    Nobody,                    \* a null pointer to a regiment
    Men, Order,                \* strength and organization they begin with
    Late,                      \* regiments that reach the battle on a later day
    Columns,                   \* columns of the line
    TechFrontage, Terrain,     \* what the calculation of the frontage reads
    Grounds,                   \* what a battle may find: controller, war, fort and
                               \* recon of the province, inactive armies (+0xA4)
    Rolls,                     \* the dice
    CasualtyWord, LossWord,    \* the attack adds to 0x70 and 0x6C
    PendingCasualties, PendingLoss,   \* the commit reads 0x6C and 0x70
    Thresholds,                \* the ratio_threshold arguments of the callers
    MaxDay                     \* bound on the days

Word == {"6C", "70"}

ASSUME LandBattleAssumption ==
    /\ IsFiniteSet(Unit) /\ Nobody \notin Unit
    /\ SideOf \in [Unit -> Side]
    /\ Men \in [Unit -> Nat] /\ Order \in [Unit -> Nat]
    /\ Late \subseteq Unit
    /\ Columns \in Nat /\ MaxDay \in Nat
    /\ TechFrontage \subseteq Int /\ Terrain \in Int
    /\ {CasualtyWord, LossWord} = Word
    /\ {PendingCasualties, PendingLoss} = Word
    /\ Rolls \subseteq Int /\ Thresholds \subseteq Nat
    /\ \A u \in Unit :
          /\ {Type[u].fire, Type[u].shock, Type[u].support, Type[u].maneuver,
               Type[u].tactics} \subseteq Nat
          /\ {Type[u].defense, Type[u].doctrine} \subseteq Int
    /\ \A g \in Grounds : {g.fort, g.recon, g.ratio} \subseteq Nat

Of(s) == {u \in Unit : SideOf[u] = s}
Category == {Type[u].category : u \in Unit}

VARIABLES
    phase,      \* "deploy", "fire", "commit", "over" or "night"
    day,
    place,      \* by unit: "away", "reserve", "front", "back" or "routed"
    column,     \* by unit: where in its row it stands
    reserve,    \* by side: its reserve, the first to go first
    strength,   \* by unit: +0x3C
    org,        \* by unit: +0x40
    pending,    \* by unit and word: +0x6C and +0x70
    target,     \* by unit: +0x7C, +0x80
    roll, fire, \* by side: the dice of the day; fire or shock
    fired,      \* the units that have attacked today
    open,       \* by side: the categories whose losses are not committed yet
    ground,     \* the one of Grounds it found
    dealt,      \* history: the casualties dealt to each unit since the dawn
    dawn,       \* history: the strengths at dawn
    bill,       \* history: by side, what the commits of the day returned
    left, winner  \* the last verdict: strengths left by side, and the winner

battle == <<phase, day, place, column, reserve, strength, org, pending, target,
            roll, fire, fired, open, ground, dealt, dawn, bill, left, winner>>

-------------------------------------------------------------------------------
(* The line.                                                               *)

\* Columns the two sides can use: the least of the technologies, by the terrain.
Frontage(tech, terrain) ==
    LET least == Min({30000} \cup {AtLeast(2000, 30000 + t) : t \in tech})
    IN  AtLeast(2000, Permille(least, 1000 + terrain)) \div 1000

Width == AtMost(Columns, Frontage(TechFrontage, Terrain))

Standing(s, row, c) == {u \in Of(s) : place[u] = row /\ column[u] = c}
InLine == {u \in Unit : place[u] \in {"front", "back"}}
Operational(u) == IsOperational(strength[u], org[u])

\* CSubUnit::CompareTacticalValue: what a regiment is worth in the line.
TacticalScore(u) ==
    LET stats == Type[u].fire + Type[u].shock + Type[u].maneuver
    IN  (((org[u] * stats) \div 1000) * strength[u]) \div 1000
TacticallyLess(u, v) == TacticalScore(u) < TacticalScore(v)

\* Mutant: the regiment goes to the end.
Appended(queue, u) == Append(queue, u)

\* Where u goes in a reserve: before the first that is worth less.
Inserted(queue, u) ==
    LET n == Cardinality({i \in DOMAIN queue : ~TacticallyLess(queue[i], u)})
    IN  SubSeq(queue, 1, n) \o <<u>> \o SubSeq(queue, n + 1, Len(queue))

\* The orders in which the regiments U can stand in a reserve.
Ordered(U) == {q \in [1 .. Cardinality(U) -> U] :
                 \A i, j \in DOMAIN q :
                    i < j => q[i] # q[j] /\ ~TacticallyLess(q[i], q[j])}

-------------------------------------------------------------------------------
(* The attack of one regiment.                                             *)

\* The operational enemies within reach of u in a row, by column.
InReach(u, row, near) ==
    {v \in Of(Enemy(SideOf[u])) : /\ place[v] = row /\ Operational(v)
                                  /\ Magnitude(column[v] - column[u]) <= near}

\* The one in front, or else the one furthest to the left.
FirstOf(u, row, reach) ==
    LET opposite == InReach(u, row, 0)
        flanks   == InReach(u, row, reach)
    IN  IF opposite # {} THEN CHOOSE v \in opposite : TRUE
        ELSE IF flanks # {} THEN CHOOSE v \in flanks :
                                    \A w \in flanks : column[v] <= column[w]
        ELSE Nobody

\* CLandCombatant::FindTargetRegiment: the front row, then the back row.
FindTarget(u) ==
    LET reach == Type[u].maneuver \div 1000
        front == FirstOf(u, "front", reach)
    IN  IF front # Nobody THEN front ELSE FirstOf(u, "back", reach)

\* CCombat::LookupDiceDamage.
DamageTable == <<20, 40, 60, 80, 100, 120, 160, 200, 250,
                 300, 350, 400, 450, 500, 600, 700, 800, 900>>
DiceDamage(r) == DamageTable[1 + Clamp(0, 17, r + 2)]

\* The damage of u before the target takes it: dice, support, attack, men, fort.
RawDamage(u, men) ==
    LET t       == Type[u]
        s       == SideOf[u]
        attack  == 1000 + Permille(100, IF fire THEN t.fire ELSE t.shock)
        support == IF place[u] = "front" THEN 1000 ELSE t.support
        hit     == Permille(Permille(Permille(DiceDamage(roll[s]), support),
                                     attack), men)
        recon   == IF ground.ratio < 1000 THEN Permille(ground.ratio, ground.recon)
                   ELSE ground.recon
        fort    == AtLeast(0, ground.fort \div 1000 - recon \div 1000)
        behind  == ground.controller # s /\ ground.war /\ fort > 0
    IN  IF behind THEN AllDiv(hit * 1000, 1000 + fort * 100) ELSE hit

\* What the target v loses: men by its tactics and defense, organization by the
\* tactics of its country.
Damage(u, v, men) ==
    LET hit == AllDiv(RawDamage(u, men) * 1000, 1000 + Permille(Type[v].tactics, 10))
        cas == IF Type[v].defense > 0 THEN AllDiv(hit * 10000, Type[v].defense)
               ELSE hit * 10
        loss == IF Type[v].doctrine > 0
                THEN AllDiv(hit * 1000, 1000 + Type[v].doctrine) ELSE hit
    IN  [casualties |-> Permille(cas, 200), loss |-> Permille(loss, 200)]

-------------------------------------------------------------------------------
(* The days.                                                               *)

Init ==
    /\ phase = "deploy" /\ day = 1
    /\ place = [u \in Unit |-> IF u \in Late THEN "away" ELSE "reserve"]
    /\ column = [u \in Unit |-> 0]
    /\ strength = Men /\ org = Order
    /\ \E a \in Ordered(Of("attacker") \ Late), d \in Ordered(Of("defender") \ Late) :
          reserve = [s \in Side |-> IF s = "attacker" THEN a ELSE d]
    /\ pending = [u \in Unit |-> [w \in Word |-> 0]]
    /\ target = [u \in Unit |-> Nobody]
    /\ roll = [s \in Side |-> 0] /\ fire = TRUE
    /\ fired = {}
    /\ open = [s \in Side |-> {}]
    /\ ground \in Grounds
    /\ dealt = [u \in Unit |-> 0] /\ dawn = Men
    /\ bill = [s \in Side |-> 0]
    /\ left = [s \in Side |-> 0] /\ winner = "none"

\* CombatantLineState::InsertReserveRegiment.
Arrive(u) ==
    /\ phase = "deploy" /\ place[u] = "away"
    /\ place' = [place EXCEPT ![u] = "reserve"]
    /\ reserve' = [reserve EXCEPT ![SideOf[u]] = Inserted(@, u)]
    /\ UNCHANGED <<phase, day, column, strength, org, pending, target, roll, fire,
                   fired, open, ground, dealt, dawn, bill, left, winner>>

\* The first of the reserve goes into the line: guns behind it.
Deploy(s) ==
    /\ phase = "deploy" /\ reserve[s] # <<>>
    /\ LET u   == Head(reserve[s])
           row == IF Type[u].support > 0 THEN "back" ELSE "front"
       IN  \E c \in 0 .. Width - 1 :
              /\ Standing(s, row, c) = {}
              /\ place' = [place EXCEPT ![u] = row]
              /\ column' = [column EXCEPT ![u] = c]
    /\ reserve' = [reserve EXCEPT ![s] = Tail(@)]
    /\ UNCHANGED <<phase, day, strength, org, pending, target, roll, fire, fired,
                   open, ground, dealt, dawn, bill, left, winner>>

\* The line is pruned: the broken leave it.
Rout(u) ==
    /\ phase = "deploy" /\ u \in InLine /\ ~Operational(u)
    /\ place' = [place EXCEPT ![u] = "routed"]
    /\ UNCHANGED <<phase, day, column, reserve, strength, org, pending, target,
                   roll, fire, fired, open, ground, dealt, dawn, bill,
                   left, winner>>

\* Nobody in the reserve of s could still go into the line.
Deployed(s) ==
    reserve[s] # <<>> =>
        LET row == IF Type[Head(reserve[s])].support > 0 THEN "back" ELSE "front"
        IN  \A c \in 0 .. Width - 1 : Standing(s, row, c) # {}

\* The dice are thrown, for fire and shock by turns.
StartDay ==
    /\ phase = "deploy" /\ InLine # {} /\ \A s \in Side : Deployed(s)
    /\ roll' \in [Side -> Rolls] /\ fire' = ~fire
    /\ phase' = "fire"
    /\ dawn' = strength
    /\ UNCHANGED <<day, place, column, reserve, strength, org, pending, target,
                   fired, open, ground, dealt, bill, left, winner>>

\* Mutant of Strike: the damage is taken at once.
StrikeAtOnce(v, d) ==
    /\ pending' = [pending EXCEPT ![v][CasualtyWord] = @ + d.casualties,
                                  ![v][LossWord]     = @ + d.loss]
    /\ strength' = [strength EXCEPT ![v] = AtLeast(0, @ - d.casualties)]
    /\ dealt' = [dealt EXCEPT ![v] = @ + d.casualties]

\* The damage is added to the two words of the target, and waits there.
Strike(v, d) ==
    /\ pending' = [pending EXCEPT ![v][CasualtyWord] = @ + d.casualties,
                                  ![v][LossWord]     = @ + d.loss]
    /\ dealt' = [dealt EXCEPT ![v] = @ + d.casualties]
    /\ UNCHANGED strength

\* The whole routine: nothing for an inactive army; a regiment that finds no
\* target forgets the one it had.
Attack(u) ==
    /\ phase = "fire" /\ u \in InLine \ fired
    /\ fired' = fired \cup {u}
    /\ LET v == FindTarget(u)
       IN  /\ target' = IF u \in ground.inactive THEN target
                        ELSE [target EXCEPT ![u] = v]
           /\ IF u \in ground.inactive \/ v = Nobody
              THEN UNCHANGED <<strength, pending, dealt>>
              ELSE Strike(v, Damage(u, v, strength[u]))
    /\ UNCHANGED <<phase, day, place, column, reserve, org, roll, fire, open,
                   ground, dawn, bill, left, winner>>

\* Dusk.
EndFire ==
    /\ phase = "fire" /\ InLine \subseteq fired
    /\ phase' = "commit"
    /\ open' = [s \in Side |-> Category]
    /\ UNCHANGED <<day, place, column, reserve, strength, org, pending, target,
                   roll, fire, fired, ground, dealt, dawn, bill, left, winner>>

\* CRegiment::CommitCombatDamage: no word takes a regiment below nothing.
Lost(u, word, has) == AtMost(has, AtLeast(0, pending[u][word]))

\* Mutant of Cleared: the words of all regiments are cleared.
ClearedAll(U) == [u \in Unit |-> [w \in Word |-> 0]]
Cleared(U) == [u \in Unit |-> IF u \in U THEN [w \in Word |-> 0] ELSE pending[u]]

\* The regiments U of side s take their damage, and s is billed for the men.
Commit(s, U) ==
    LET men  == [u \in U |-> Lost(u, PendingCasualties, strength[u])]
        loss == [u \in U |-> Lost(u, PendingLoss, org[u])]
    IN  /\ strength' = [u \in Unit |-> strength[u] - IF u \in U THEN men[u] ELSE 0]
        /\ org' = [u \in Unit |-> org[u] - IF u \in U THEN loss[u] ELSE 0]
        /\ pending' = Cleared(U)
        /\ bill' = [bill EXCEPT ![s] = @ + Total(men, U)]

\* CommitCasualtiesAndMoraleLoss.
CommitTotal(s) ==
    /\ phase = "commit" /\ open[s] = Category
    /\ Commit(s, Of(s))
    /\ open' = [open EXCEPT ![s] = {}]
    /\ UNCHANGED <<phase, day, place, column, reserve, target, roll, fire, fired,
                   ground, dealt, dawn, left, winner>>

\* CommitCasualtiesByUnitType: the regiments of one category, the rest untouched.
CommitByType(s, category) ==
    /\ phase = "commit" /\ category \in open[s]
    /\ Commit(s, {u \in Of(s) : Type[u].category = category})
    /\ open' = [open EXCEPT ![s] = @ \ {category}]
    /\ UNCHANGED <<phase, day, place, column, reserve, target, roll, fire, fired,
                   ground, dealt, dawn, left, winner>>

\* What the verdict is given: the men of a side, and whether any of them stand.
Present(s) == {u \in Of(s) : place[u] # "away"}
Troops == [s \in Side |-> EffectiveStrength(Present(s), [u \in Unit |-> TRUE],
                                           strength, Men)]
Stands == [s \in Side |-> \E u \in Present(s) : place[u] # "routed" /\ Operational(u)]

\* The battle is judged; with the debug pause set the routine returns at once.
Judge ==
    /\ phase = "commit" /\ \A s \in Side : open[s] = {}
    /\ \E threshold \in Thresholds, check, pocket, debugPause \in BOOLEAN,
          canRetreat \in [Side -> BOOLEAN] :
          LET st == Troops
              mo == Stands
              w  == IF debugPause THEN "none"
                    ELSE Verdict(st, mo, pocket, threshold, check, canRetreat)
          IN  /\ winner' = w
              /\ left' = IF w = "none" THEN left ELSE Left(st, mo, pocket)
              /\ phase' = IF w # "none" THEN "over"
                          ELSE IF day = MaxDay THEN "night" ELSE "deploy"
    /\ day' = AtMost(MaxDay, day + 1)
    /\ fired' = {} /\ roll' = [s \in Side |-> 0]
    /\ dealt' = [u \in Unit |-> 0] /\ bill' = [s \in Side |-> 0]
    /\ UNCHANGED <<place, column, reserve, strength, org, pending, target, fire,
                   open, ground, dawn>>

Next == \/ \E u \in Unit : Arrive(u) \/ Rout(u) \/ Attack(u)
        \/ \E s \in Side : \/ Deploy(s) \/ CommitTotal(s)
                           \/ \E c \in Category : CommitByType(s, c)
        \/ StartDay \/ EndFire \/ Judge

Spec == Init /\ [][Next]_battle

-------------------------------------------------------------------------------

TypeOK ==
    /\ phase \in {"deploy", "fire", "commit", "over", "night"}
    /\ day \in 1 .. MaxDay
    /\ place \in [Unit -> {"away", "reserve", "front", "back", "routed"}]
    /\ column \in [Unit -> 0 .. Columns - 1]
    /\ \A s \in Side : reserve[s] \in Seq(Of(s))
    /\ \A u \in Unit : /\ strength[u] \in 0 .. Men[u] /\ org[u] \in 0 .. Order[u]
                       /\ target[u] \in Of(Enemy(SideOf[u])) \cup {Nobody}
                       /\ \A w \in Word : pending[u][w] \in Nat
    /\ fired \subseteq Unit
    /\ open \in [Side -> SUBSET Category]
    /\ winner \in Side \cup {"none"}

\* The attacks of a day are simultaneous: whatever the order in which the
\* regiments attack, at dusk each has the casualties that all its attackers would
\* inflict with the men they had at dawn.
FireIsSimultaneous ==
    phase = "commit" /\ (\A s \in Side : open[s] = Category) =>
        \A v \in Unit :
            LET attackers == {u \in fired \ ground.inactive : FindTarget(u) = v}
            IN  pending[v][CasualtyWord]
                  = Total([u \in attackers |-> Damage(u, v, dawn[u]).casualties],
                          attackers)

Committed == phase = "commit" /\ \A s \in Side : open[s] = {}
Toll(u) == AtMost(dawn[u], dealt[u])

\* What the attacks dealt in the day comes out of the strength at dusk, and no
\* more: the words of the two routines are the same words.
CasualtiesThinTheRanks ==
    Committed => \A u \in Unit : strength[u] = dawn[u] - Toll(u)

\* Committed in total or category by category, in any order, a side is billed
\* for the men it lost, each of them once, and no damage waits for another day.
TheBillIsPaid ==
    Committed => \A s \in Side :
        /\ bill[s] = Total([u \in Of(s) |-> Toll(u)], Of(s))
        /\ \A u \in Of(s) : \A w \in Word : pending[u][w] = 0

Worth(u) == CombatRating(Type[u])
Power(u, men, order) ==
    FullPower(Worth(u), men, Men[u], order, Order[u], 0, FALSE)

\* Losses never make a regiment worth more: broken, it counts for half of what is
\* left, whichever of its two thresholds it fell below.
NobodyGrowsStrongerByLosing == 
    [][\A u \in Unit : Power(u, strength'[u], org'[u])
                         <= Power(u, strength[u], org[u])]_<<strength, org>>

\* The reserve is in the order of tactical value, best first, whoever arrives
\* later.
ReserveBestFirst ==
    \A s \in Side : \A i, j \in DOMAIN reserve[s] :
        i < j => ~TacticallyLess(reserve[s][i], reserve[s][j])

\* No average exceeds what it is made of, for all its truncations: the cohesion of a
\* side, in men and in morale, is a part of the whole; the morale of a combatant of
\* two armies, averaged army by army, lies between those of its worst and its best
\* regiment; and its armies are worth no more than their men alone would be, nor
\* than their cohesion times what the best of them is worth.
AveragesKeepWithinTheirParts ==
    Committed => \A s \in Side :
        LET U        == Of(s)
            n        == Cardinality(U)
            A        == {U \cap Late, U \ Late} \ {{}}
            morale   == CombatantMorale(A, [a \in A |-> Cardinality(a)],
                            [a \in A |-> ArmyMorale(a, org, Cardinality(a), 0, 0)])
            full     == [u \in U |-> Power(u, strength[u], org[u])]
            men      == [u \in U |-> EffectivePower(Worth(u), strength[u], Men[u])]
            cohesion == StrengthRatio(U, strength, Men, n)
        IN  /\ cohesion \in 0 .. 1000
            /\ MoraleRatio(U, org, Order, [u \in U |-> FALSE], n) \in 0 .. 1000
            /\ morale \in Min({org[u] : u \in U}) .. Max({org[u] : u \in U})
            /\ FormationPower(full, U, 0) <= FormationPower(men, U, 0)
            /\ FormationPower(men, U, 0)
                 <= Permille(n * (cohesion + 1), Max({Worth(u) : u \in U}))

\* A battle that is over has a winner that is alive and that the verdict takes
\* nothing from; the other side is gone, and it had no operational regiment left.
OnlyBrokenSidesFall ==
    phase = "over" => /\ winner \in Side
                      /\ left[winner] > 0 /\ left[winner] = Troops[winner]
                      /\ left[Enemy(winner)] = 0
                      /\ left[Enemy(winner)] < Troops[Enemy(winner)]
                           => ~Stands[Enemy(winner)]

\* The routine settles the defender first and judges the attacker by what is
\* left, and yet the roles do not matter: exchanging the sides exchanges the
\* verdict.
RolesDoNotMatter ==
    Committed =>
      LET st == Troops
          mo == Stands
      IN  \A threshold \in Thresholds, check, pocket \in BOOLEAN,
             canRetreat \in [Side -> BOOLEAN] :
             Verdict(Swapped(st), Swapped(mo), pocket, threshold, check,
                     Swapped(canRetreat))
               = Opposite(Verdict(st, mo, pocket, threshold, check, canRetreat))
===============================================================================
