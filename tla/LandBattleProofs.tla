--------------------------- MODULE LandBattleProofs ----------------------------
(***************************************************************************)
(* What holds of a land battle of any regiments, arrivals, dice and days.  *)
(* The casualties of a day are what the ranks lose and what the sides are  *)
(* billed for, where the attack and the commit mean the same words; the    *)
(* reserve of each side is best first; the attacks of a day are            *)
(* simultaneous; the verdict does not depend on the roles and lets only    *)
(* the broken fall; nobody grows stronger by losing; the routines that     *)
(* count the troops agree, and no average exceeds what it is made of.      *)
(***************************************************************************)
EXTENDS LandBattle, CollectionLemmas, SequenceTheorems

(* The arithmetic of the damage. *)

LEMMA DivisionOfNaturals ==
  ASSUME NEW a \in Nat, NEW b \in Nat \ {0}
  PROVE  AllDiv(a, b) \in Nat
  <1>1. Magnitude(a) = a /\ Magnitude(b) = b
    BY DEF Magnitude
  <1>2. a \div b \in Nat
    OBVIOUS
  <1> QED
    BY <1>1, <1>2 DEF AllDiv

LEMMA ProductOfNaturals ==
  ASSUME NEW a \in Nat, NEW b \in Nat
  PROVE  Permille(a, b) \in Nat
  <1>1. a * b \in Nat
    OBVIOUS
  <1> QED
    BY <1>1, DivisionOfNaturals DEF Permille

LEMMA DiceAreNatural ==
  ASSUME NEW r \in Int
  PROVE  DiceDamage(r) \in Nat
  <1>1. 1 + Clamp(0, 17, r + 2) \in 1 .. 18
    BY DEF Clamp, AtLeast, AtMost
  <1>2. \A i \in 1 .. 18 : DamageTable[i] \in Nat
    BY DEF DamageTable
  <1> QED
    BY <1>1, <1>2 DEF DiceDamage

LEMMA RawDamageIsNatural ==
  ASSUME NEW u \in Unit, NEW men \in Nat, ground \in Grounds, roll \in [Side -> Int]
  PROVE  RawDamage(u, men) \in Nat
  <1>. DEFINE t       == Type[u]
              attack  == 1000 + Permille(100, IF fire THEN t.fire ELSE t.shock)
              support == IF place[u] = "front" THEN 1000 ELSE t.support
              dice    == DiceDamage(roll[SideOf[u]])
              hit     == Permille(Permille(Permille(dice, support), attack), men)
              recon   == IF ground.ratio < 1000 THEN Permille(ground.ratio, ground.recon)
                         ELSE ground.recon
              fort    == AtLeast(0, ground.fort \div 1000 - recon \div 1000)
  <1>1. SideOf[u] \in Side /\ t.fire \in Nat /\ t.shock \in Nat /\ t.support \in Nat
        /\ ground.fort \in Nat /\ ground.recon \in Nat /\ ground.ratio \in Nat
    BY LandBattleAssumption DEF LandBattleAssumption
  <1>2. attack \in Nat
    <2>1. Permille(100, IF fire THEN t.fire ELSE t.shock) \in Nat
      <3>1. CASE fire
        BY <3>1, <1>1, ProductOfNaturals
      <3>2. CASE ~fire
        BY <3>2, <1>1, ProductOfNaturals
      <3> QED
        BY <3>1, <3>2
    <2> QED
      BY <2>1
  <1>3. support \in Nat
    BY <1>1
  <1>4. dice \in Nat
    BY <1>1, DiceAreNatural
  <1>5. hit \in Nat
    <2>. HIDE DEF dice, support, attack
    <2>1. Permille(dice, support) \in Nat
      BY <1>3, <1>4, ProductOfNaturals
    <2>2. Permille(Permille(dice, support), attack) \in Nat
      BY <2>1, <1>2, ProductOfNaturals
    <2> QED
      BY <2>2, ProductOfNaturals
  <1>6. recon \in Nat
    BY <1>1, ProductOfNaturals
  <1>7. fort \in Nat
    <2>1. ground.fort \div 1000 \in Nat /\ recon \div 1000 \in Nat
      BY <1>1, <1>6
    <2> QED
      BY <2>1 DEF AtLeast
  <1>8. AllDiv(hit * 1000, 1000 + fort * 100) \in Nat
    <2>. HIDE DEF hit, fort
    <2>1. hit * 1000 \in Nat /\ 1000 + fort * 100 \in Nat \ {0}
      BY <1>5, <1>7
    <2> QED
      BY <2>1, DivisionOfNaturals
  <1>. HIDE DEF hit, fort
  <1>9. RawDamage(u, men)
          = IF ground.controller # SideOf[u] /\ ground.war /\ fort > 0
            THEN AllDiv(hit * 1000, 1000 + fort * 100) ELSE hit
    BY DEF RawDamage, hit, fort
  <1> QED
    BY <1>5, <1>8, <1>9

LEMMA DamageIsNatural ==
  ASSUME NEW u \in Unit, NEW v \in Unit, NEW men \in Nat,
         ground \in Grounds, roll \in [Side -> Int]
  PROVE  Damage(u, v, men) \in [casualties : Nat, loss : Nat]
  <1>. DEFINE raw  == RawDamage(u, men)
              t    == Type[v]
              hit  == AllDiv(raw * 1000, 1000 + Permille(t.tactics, 10))
              cas  == IF t.defense > 0 THEN AllDiv(hit * 10000, t.defense)
                      ELSE hit * 10
              loss == IF t.doctrine > 0 THEN AllDiv(hit * 1000, 1000 + t.doctrine)
                      ELSE hit
  <1>1. t.tactics \in Nat /\ t.defense \in Int /\ t.doctrine \in Int
    BY LandBattleAssumption DEF LandBattleAssumption
  <1>2. raw \in Nat
    BY RawDamageIsNatural
  <1>3. hit \in Nat
    <2>. HIDE DEF raw
    <2>1. Permille(t.tactics, 10) \in Nat
      BY <1>1, ProductOfNaturals
    <2>2. raw * 1000 \in Nat /\ 1000 + Permille(t.tactics, 10) \in Nat \ {0}
      BY <1>2, <2>1
    <2> QED
      BY <2>2, DivisionOfNaturals
  <1>. HIDE DEF hit
  <1>4. cas \in Nat
    <2>1. CASE t.defense > 0
      <3>1. hit * 10000 \in Nat /\ t.defense \in Nat \ {0}
        BY <1>1, <1>3, <2>1
      <3> QED
        BY <3>1, <2>1, DivisionOfNaturals
    <2>2. CASE ~(t.defense > 0)
      BY <1>3, <2>2
    <2> QED
      BY <2>1, <2>2
  <1>5. loss \in Nat
    <2>1. CASE t.doctrine > 0
      <3>1. hit * 1000 \in Nat /\ 1000 + t.doctrine \in Nat \ {0}
        BY <1>1, <1>3, <2>1
      <3> QED
        BY <3>1, <2>1, DivisionOfNaturals
    <2>2. CASE ~(t.doctrine > 0)
      BY <1>3, <2>2
    <2> QED
      BY <2>1, <2>2
  <1>. HIDE DEF cas, loss
  <1>6. Permille(cas, 200) \in Nat /\ Permille(loss, 200) \in Nat
    BY <1>4, <1>5, ProductOfNaturals
  <1>7. Damage(u, v, men)
          = [casualties |-> Permille(cas, 200), loss |-> Permille(loss, 200)]
    BY DEF Damage, cas, loss, hit, raw
  <1> QED
    BY <1>6, <1>7

-------------------------------------------------------------------------------
(* The invariant.                                                          *)

\* The types the argument needs.
Figures ==
    /\ phase \in {"deploy", "fire", "commit", "over", "night"}
    /\ ground \in Grounds /\ roll \in [Side -> Int]
    /\ strength \in [Unit -> Nat] /\ dawn \in [Unit -> Nat]
    /\ dealt \in [Unit -> Nat]
    /\ pending \in [Unit -> [Word -> Nat]]
    /\ open \in [Side -> SUBSET Category]

\* The damage of u has been taken today.
Settled(u) == phase = "commit" /\ Type[u].category \notin open[SideOf[u]]

\* Until it is settled, what u was dealt is what waits for it, and its ranks are
\* those of the dawn; then nothing waits, and they are less by the toll.
Account(u) ==
    /\ Settled(u) => pending[u][CasualtyWord] = 0 /\ strength[u] = dawn[u] - Toll(u)
    /\ ~Settled(u) => /\ pending[u][CasualtyWord] = dealt[u]
                      /\ phase \in {"fire", "commit"} => strength[u] = dawn[u]
    /\ phase \notin {"fire", "commit"} => dealt[u] = 0

IInv == Figures /\ \A u \in Unit : Account(u)

LEMMA WordFacts ==
  /\ CasualtyWord \in Word /\ LossWord \in Word /\ CasualtyWord # LossWord
  /\ PendingCasualties \in Word
  <1>1. {CasualtyWord, LossWord} = Word /\ {PendingCasualties, PendingLoss} = Word
    BY LandBattleAssumption DEF LandBattleAssumption
  <1>2. CasualtyWord # LossWord
    BY <1>1 DEF Word
  <1> QED
    BY <1>1, <1>2

LEMMA InitInvariant == Init => IInv
  <1>. SUFFICES ASSUME Init PROVE IInv
    OBVIOUS
  <1>1. Figures
    <2>1. roll \in [Side -> Int] /\ pending \in [Unit -> [Word -> Nat]]
          /\ dealt \in [Unit -> Nat] /\ open \in [Side -> SUBSET Category]
      BY DEF Init
    <2>2. strength \in [Unit -> Nat] /\ dawn \in [Unit -> Nat]
      BY LandBattleAssumption DEF Init, LandBattleAssumption
    <2> QED
      BY <2>1, <2>2 DEF Init, Figures
  <1>2. ASSUME NEW u \in Unit PROVE Account(u)
    BY WordFacts DEF Init, Account, Settled
  <1> QED
    BY <1>1, <1>2 DEF IInv

LEMMA TwoWords ==
  ASSUME NEW p \in [Word -> Nat], NEW C \in Word, NEW L \in Word, C # L,
         NEW a \in Nat, NEW b \in Nat
  PROVE  /\ [p EXCEPT ![C] = @ + a, ![L] = @ + b] \in [Word -> Nat]
         /\ [p EXCEPT ![C] = @ + a, ![L] = @ + b][C] = p[C] + a
  <1>. DEFINE q == [p EXCEPT ![C] = @ + a]
  <1>1. q \in [Word -> Nat] /\ q[C] = p[C] + a
    OBVIOUS
  <1>2. [p EXCEPT ![C] = @ + a, ![L] = @ + b] = [q EXCEPT ![L] = @ + b]
    OBVIOUS
  <1>. HIDE DEF q
  <1>3. [q EXCEPT ![L] = @ + b] \in [Word -> Nat] /\ [q EXCEPT ![L] = @ + b][C] = q[C]
    BY <1>1
  <1> QED
    BY <1>1, <1>2, <1>3

\* What an attack leaves in the words of its target, and of the others.
LEMMA StrikeFacts ==
  ASSUME pending \in [Unit -> [Word -> Nat]], dealt \in [Unit -> Nat],
         NEW v \in Unit, NEW d \in [casualties : Nat, loss : Nat], Strike(v, d)
  PROVE  /\ pending' \in [Unit -> [Word -> Nat]] /\ dealt' \in [Unit -> Nat]
         /\ \A u \in Unit : u # v => pending'[u] = pending[u] /\ dealt'[u] = dealt[u]
         /\ dealt'[v] = dealt[v] + d.casualties
         /\ pending'[v][CasualtyWord] = pending[v][CasualtyWord] + d.casualties
         /\ strength' = strength
  <1>. DEFINE C == CasualtyWord
              L == LossWord
  <1>1. /\ pending' = [pending EXCEPT ![v][C] = @ + d.casualties,
                                      ![v][L] = @ + d.loss]
        /\ dealt' = [dealt EXCEPT ![v] = @ + d.casualties]
        /\ strength' = strength
    BY DEF Strike
  <1>2. C \in Word /\ L \in Word /\ C # L
    BY WordFacts
  <1>3. d.casualties \in Nat /\ d.loss \in Nat /\ pending[v] \in [Word -> Nat]
    OBVIOUS
  <1>4. /\ \A u \in Unit : u # v => pending'[u] = pending[u] /\ dealt'[u] = dealt[u]
        /\ pending'[v] = [pending[v] EXCEPT ![C] = @ + d.casualties, ![L] = @ + d.loss]
        /\ dealt'[v] = dealt[v] + d.casualties
    BY <1>1
  <1>5. pending'[v] \in [Word -> Nat] /\ pending'[v][C] = pending[v][C] + d.casualties
    BY <1>2, <1>3, <1>4, TwoWords
  <1>6. pending' \in [Unit -> [Word -> Nat]]
    <2>1. \A u \in Unit : pending'[u] \in [Word -> Nat]
      BY <1>4, <1>5
    <2>2. pending' = [u \in Unit |-> pending'[u]]
      BY <1>1
    <2> QED
      BY <2>1, <2>2
  <1>7. dealt' \in [Unit -> Nat]
    BY <1>1, <1>3
  <1> QED
    BY <1>1, <1>4, <1>5, <1>6, <1>7

\* An attack adds to the damage that waits what it adds to the damage dealt.
LEMMA StrikeKeeps ==
  ASSUME IInv, phase = "fire", phase' = phase, UNCHANGED <<ground, roll, dawn, open>>,
         NEW v, NEW d, v \in Unit => d \in [casualties : Nat, loss : Nat],
         Strike(v, d)
  PROVE  IInv'
  <1>. DEFINE C == CasualtyWord
              L == LossWord
  <1>1. /\ Figures /\ \A u \in Unit : Account(u)
        /\ C \in Word /\ L \in Word /\ C # L
    BY WordFacts DEF IInv
  <1>2. /\ pending' = [pending EXCEPT ![v][C] = @ + d.casualties,
                                      ![v][L] = @ + d.loss]
        /\ dealt' = [dealt EXCEPT ![v] = @ + d.casualties]
        /\ strength' = strength
    BY DEF Strike
  <1>3. CASE v \notin Unit
    <2>1. pending' = pending /\ dealt' = dealt
      BY <1>1, <1>2, <1>3 DEF Figures
    <2> QED
      BY <2>1, <1>1, <1>2 DEF IInv, Figures, Account, Settled, Toll
  <1>4. CASE v \in Unit
    <2>1. /\ pending' \in [Unit -> [Word -> Nat]] /\ dealt' \in [Unit -> Nat]
          /\ \A u \in Unit : u # v => pending'[u] = pending[u] /\ dealt'[u] = dealt[u]
          /\ dealt'[v] = dealt[v] + d.casualties
          /\ pending'[v][C] = pending[v][C] + d.casualties
      BY <1>1, <1>4, StrikeFacts DEF Figures
    <2>2. Figures'
      BY <1>1, <1>2, <2>1 DEF Figures
    <2>3. ASSUME NEW u \in Unit PROVE Account(u)'
      <3>1. ~Settled(u) /\ ~Settled(u)'
        BY DEF Settled
      <3>2. pending[u][C] = dealt[u] /\ strength[u] = dawn[u]
        BY <1>1, <3>1 DEF Account
      <3>3. pending'[u][C] = dealt'[u]
        BY <2>1, <3>2
      <3> QED
        BY <1>2, <3>1, <3>2, <3>3 DEF Account
    <2> QED
      BY <2>2, <2>3 DEF IInv
  <1> QED
    BY <1>3, <1>4

LEMMA AttackKeeps ==
  ASSUME IInv, NEW u \in Unit, Attack(u)
  PROVE  IInv'
  <1>1. Figures /\ phase = "fire" /\ phase' = phase
        /\ UNCHANGED <<ground, roll, dawn, open>>
    BY DEF Attack, IInv
  <1>. DEFINE v == FindTarget(u)
  <1>2. CASE u \in ground.inactive \/ v = Nobody
    <2>1. UNCHANGED <<strength, pending, dealt>>
      BY <1>2 DEF Attack
    <2> QED
      BY <1>1, <2>1 DEF IInv, Figures, Account, Settled, Toll
  <1>3. CASE ~(u \in ground.inactive \/ v = Nobody)
    <2>. DEFINE d == Damage(u, v, strength[u])
    <2>1. Strike(v, d)
      BY <1>3 DEF Attack
    <2>2. v \in Unit => d \in [casualties : Nat, loss : Nat]
      BY <1>1, DamageIsNatural DEF Figures
    <2>. HIDE DEF v, d
    <2> QED
      BY <1>1, <2>1, <2>2, StrikeKeeps
  <1> QED
    BY <1>2, <1>3

\* A commit of some regiments of a side that have not been committed today, when
\* these and no others leave open.
LEMMA CommitKeeps ==
  ASSUME CasualtyWord = PendingCasualties,
         IInv, phase = "commit", NEW s \in Side, NEW U \in SUBSET Of(s), Commit(s, U),
         UNCHANGED <<phase, ground, roll, dawn, dealt>>,
         open' \in [Side -> SUBSET Category],
         \A u \in U : ~Settled(u) /\ Settled(u)',
         \A u \in Unit \ U : Settled(u)' <=> Settled(u)
  PROVE  IInv'
  <1>. DEFINE C == CasualtyWord
              men == [u \in U |-> Lost(u, C, strength[u])]
  <1>1. /\ Figures /\ \A u \in Unit : Account(u)
        /\ C \in Word /\ U \subseteq Unit
    BY WordFacts DEF IInv, Of
  <1>2. /\ strength' = [u \in Unit |-> strength[u] - IF u \in U THEN men[u] ELSE 0]
        /\ pending' = Cleared(U)
    BY DEF Commit
  <1>3. /\ pending' \in [Unit -> [Word -> Nat]]
        /\ \A u \in U : pending'[u][C] = 0
        /\ \A u \in Unit \ U : pending'[u] = pending[u]
    BY <1>1, <1>2 DEF Cleared, Figures
  <1>4. ASSUME NEW u \in U
        PROVE  /\ strength'[u] = dawn[u] - Toll(u) /\ strength'[u] \in Nat
               /\ Toll(u)' = Toll(u)
    <2>1. pending[u][C] = dealt[u] /\ strength[u] = dawn[u]
          /\ dealt[u] \in Nat /\ dawn[u] \in Nat
      BY <1>1, <1>4 DEF Account, Figures
    <2>2. men[u] = Toll(u)
      BY <2>1 DEF Lost, Toll, AtMost, AtLeast
    <2>3. strength'[u] = strength[u] - men[u]
      BY <1>1, <1>2
    <2>4. Toll(u) \in 0 .. dawn[u]
      BY <2>1 DEF Toll, AtMost
    <2>5. Toll(u)' = Toll(u)
      BY DEF Toll
    <2>. HIDE DEF men
    <2> QED
      BY <2>1, <2>2, <2>3, <2>4, <2>5
  <1>5. ASSUME NEW u \in Unit \ U
        PROVE  strength'[u] = strength[u]
    <2>1. strength'[u] = strength[u] - 0 /\ strength[u] \in Nat
      BY <1>1, <1>2 DEF Figures
    <2> QED
      BY <2>1
  <1>6. strength' \in [Unit -> Nat]
    <2>1. \A u \in Unit : strength'[u] \in Nat
      BY <1>1, <1>4, <1>5 DEF Figures
    <2> QED
      BY <1>2, <2>1
  <1>7. Figures'
    BY <1>1, <1>3, <1>6 DEF Figures
  <1>8. ASSUME NEW u \in Unit PROVE Account(u)'
    <2>1. CASE u \in U
      BY <2>1, <1>3, <1>4 DEF Account
    <2>2. CASE u \notin U
      <3>1. /\ strength'[u] = strength[u] /\ pending'[u] = pending[u]
            /\ dealt' = dealt /\ dawn' = dawn /\ phase' = phase
            /\ Settled(u)' <=> Settled(u)
        <4>1. strength'[u] = strength[u] /\ pending'[u] = pending[u]
          BY <2>2, <1>3, <1>5
        <4>2. dealt' = dealt /\ dawn' = dawn /\ phase' = phase
          OBVIOUS
        <4>3. Settled(u)' <=> Settled(u)
          BY <2>2
        <4> QED
          BY <4>1, <4>2, <4>3
      <3>2. Toll(u)' = Toll(u)
        BY DEF Toll
      <3> QED
        BY <1>1, <3>1, <3>2 DEF Account
    <2> QED
      BY <2>1, <2>2
  <1> QED
    BY <1>7, <1>8 DEF IInv

LEMMA CommitTotalKeeps ==
  ASSUME CasualtyWord = PendingCasualties, IInv, NEW s \in Side, CommitTotal(s)
  PROVE  IInv'
  <1>1. /\ phase = "commit" /\ open[s] = Category /\ Commit(s, Of(s))
        /\ open' = [open EXCEPT ![s] = {}]
        /\ UNCHANGED <<phase, ground, roll, dawn, dealt>>
    BY DEF CommitTotal
  <1>2. open \in [Side -> SUBSET Category]
    BY DEF IInv, Figures
  <1>3. open' \in [Side -> SUBSET Category]
    BY <1>1, <1>2
  <1>4. \A u \in Of(s) : ~Settled(u) /\ Settled(u)'
    <2>1. \A u \in Of(s) : SideOf[u] = s /\ Type[u].category \in Category
      BY DEF Of, Category
    <2> QED
      BY <1>1, <1>2, <2>1 DEF Settled
  <1>5. \A u \in Unit \ Of(s) : Settled(u)' <=> Settled(u)
    <2>1. \A u \in Unit \ Of(s) : SideOf[u] # s /\ SideOf[u] \in Side
      BY LandBattleAssumption DEF LandBattleAssumption, Of
    <2> QED
      BY <1>1, <1>2, <2>1 DEF Settled
  <1> QED
    BY <1>1, <1>3, <1>4, <1>5, CommitKeeps

LEMMA CommitByTypeKeeps ==
  ASSUME CasualtyWord = PendingCasualties, IInv,
         NEW s \in Side, NEW c \in Category, CommitByType(s, c)
  PROVE  IInv'
  <1>. DEFINE U == {u \in Of(s) : Type[u].category = c}
  <1>1. /\ phase = "commit" /\ c \in open[s] /\ Commit(s, U)
        /\ open' = [open EXCEPT ![s] = @ \ {c}]
        /\ UNCHANGED <<phase, ground, roll, dawn, dealt>>
    BY DEF CommitByType
  <1>2. open \in [Side -> SUBSET Category]
    BY DEF IInv, Figures
  <1>3. open' \in [Side -> SUBSET Category]
    BY <1>1, <1>2
  <1>4. \A u \in U : ~Settled(u) /\ Settled(u)'
    <2>1. \A u \in U : SideOf[u] = s /\ Type[u].category = c
      BY DEF Of
    <2>. HIDE DEF U
    <2> QED
      BY <1>1, <1>2, <2>1 DEF Settled
  <1>5. \A u \in Unit \ U : Settled(u)' <=> Settled(u)
    <2>1. \A u \in Unit \ U : /\ SideOf[u] \in Side
                              /\ SideOf[u] = s => Type[u].category # c
      BY LandBattleAssumption DEF LandBattleAssumption, Of
    <2>. HIDE DEF U
    <2> QED
      BY <1>1, <1>2, <2>1 DEF Settled
  <1> QED
    BY <1>1, <1>3, <1>4, <1>5, CommitKeeps

\* The steps that deal and take nothing.
LEMMA OtherStepsKeep ==
  ASSUME IInv,
         \/ \E u \in Unit : Arrive(u) \/ Rout(u)
         \/ \E s \in Side : Deploy(s)
         \/ StartDay \/ EndFire \/ Judge \/ UNCHANGED battle
  PROVE  IInv'
  <1>. USE DEF IInv
  <1>1. Figures /\ \A u \in Unit : Account(u)
    OBVIOUS
  <1>2. CASE \/ \E u \in Unit : Arrive(u) \/ Rout(u)
             \/ \E s \in Side : Deploy(s)
             \/ UNCHANGED battle
    <2>1. UNCHANGED <<phase, ground, roll, strength, dawn, dealt, pending, open>>
      BY <1>2 DEF Arrive, Rout, Deploy, battle
    <2> QED
      BY <2>1, <1>1 DEF Figures, Account, Settled, Toll
  <1>3. CASE StartDay
    <2>1. /\ phase = "deploy" /\ phase' = "fire" /\ dawn' = strength
          /\ roll' \in [Side -> Rolls]
          /\ UNCHANGED <<ground, strength, dealt, pending, open>>
      BY <1>3 DEF StartDay
    <2>2. Figures'
      BY <2>1, <1>1, LandBattleAssumption DEF LandBattleAssumption, Figures
    <2>3. ASSUME NEW u \in Unit PROVE Account(u)'
      BY <2>1, <1>1 DEF Account, Settled
    <2> QED
      BY <2>2, <2>3
  <1>4. CASE EndFire
    <2>1. /\ phase = "fire" /\ phase' = "commit" /\ open' = [s \in Side |-> Category]
          /\ UNCHANGED <<ground, roll, dawn, strength, dealt, pending>>
      BY <1>4 DEF EndFire
    <2>2. Figures'
      BY <2>1, <1>1 DEF Figures
    <2>3. ASSUME NEW u \in Unit PROVE Account(u)'
      <3>1. SideOf[u] \in Side /\ Type[u].category \in Category
        BY LandBattleAssumption DEF LandBattleAssumption, Category
      <3>2. ~Settled(u) /\ ~Settled(u)'
        BY <2>1, <3>1 DEF Settled
      <3> QED
        BY <2>1, <3>2, <1>1 DEF Account
    <2> QED
      BY <2>2, <2>3
  <1>5. CASE Judge
    <2>1. /\ phase = "commit" /\ \A s \in Side : open[s] = {}
          /\ dealt' = [u \in Unit |-> 0] /\ roll' = [s \in Side |-> 0]
          /\ UNCHANGED <<ground, dawn, strength, pending, open>>
      BY <1>5 DEF Judge
    <2>2. phase' \in {"over", "night", "deploy"}
      BY <1>5 DEF Judge
    <2>3. Figures'
      BY <2>1, <2>2, <1>1 DEF Figures
    <2>4. ASSUME NEW u \in Unit PROVE Account(u)'
      <3>1. Settled(u) /\ ~Settled(u)'
        BY <2>1, <2>2, LandBattleAssumption DEF LandBattleAssumption, Settled
      <3>2. pending'[u][CasualtyWord] = 0 /\ dealt'[u] = 0
        BY <2>1, <3>1, <1>1 DEF Account
      <3> QED
        BY <2>2, <3>1, <3>2 DEF Account
    <2> QED
      BY <2>3, <2>4
  <1> QED
    BY <1>2, <1>3, <1>4, <1>5

LEMMA NextKeeps ==
  ASSUME CasualtyWord = PendingCasualties
  PROVE  IInv /\ [Next]_battle => IInv'
  <1>. SUFFICES ASSUME IInv, [Next]_battle PROVE IInv'
    OBVIOUS
  <1>1. ASSUME NEW u \in Unit, Attack(u) PROVE IInv'
    BY <1>1, AttackKeeps
  <1>2. ASSUME NEW s \in Side, CommitTotal(s) PROVE IInv'
    BY <1>2, CommitTotalKeeps
  <1>3. ASSUME NEW s \in Side, NEW c \in Category, CommitByType(s, c) PROVE IInv'
    BY <1>3, CommitByTypeKeeps
  <1>4. ASSUME \/ \E u \in Unit : Arrive(u) \/ Rout(u)
               \/ \E s \in Side : Deploy(s)
               \/ StartDay \/ EndFire \/ Judge \/ UNCHANGED battle
        PROVE  IInv'
    BY <1>4, OtherStepsKeep
  <1> QED
    BY <1>1, <1>2, <1>3, <1>4 DEF Next

LEMMA ThinnedByTheToll == IInv => CasualtiesThinTheRanks
  <1>. SUFFICES ASSUME IInv, Committed, NEW u \in Unit
                PROVE  strength[u] = dawn[u] - Toll(u)
    BY DEF CasualtiesThinTheRanks
  <1>1. Account(u)
    BY DEF IInv
  <1>2. Settled(u)
    BY LandBattleAssumption DEF LandBattleAssumption, Committed, Settled
  <1> QED
    BY <1>1, <1>2 DEF Account

\* When the commit takes the casualties from the word the attack adds them to, a
\* day takes from every regiment what its attackers dealt it and no more than it
\* had, committed in total or category by category, whatever the other word, the
\* dice and the order of the attacks: where the contracts' names for the words
\* differ is the only thing that stands between the two routines.
THEOREM CasualtiesAreTaken ==
  ASSUME CasualtyWord = PendingCasualties
  PROVE  Spec => []CasualtiesThinTheRanks
  <1>1. Init => IInv
    BY InitInvariant
  <1>2. IInv /\ [Next]_battle => IInv'
    BY NextKeeps
  <1>3. IInv => CasualtiesThinTheRanks
    BY ThinnedByTheToll
  <1> QED
    BY <1>1, <1>2, <1>3, PTL DEF Spec

-------------------------------------------------------------------------------
(* Numbers and positions.                                                  *)

\* A set of naturals has a least element.
LEMMA Least ==
  ASSUME NEW S \in SUBSET Nat, S # {}
  PROVE  \E x \in S : \A y \in S : x <= y
  <1>. DEFINE R == StrictSubsetOrdering(Nat)
              T == {1 .. x : x \in S}
  <1>1. IsWellFoundedOn(R, FiniteSubsetsOf(Nat))
    BY FS_StrictSubsetOrderingWellFounded
  <1>2. T \subseteq FiniteSubsetsOf(Nat) /\ T # {}
    <2>1. \A x \in S : 1 .. x \in SUBSET Nat /\ IsFiniteSet(1 .. x)
      BY FS_Interval
    <2> QED
      BY <2>1 DEF FiniteSubsetsOf
  <1>3. PICK t \in T : \A s \in T : ~ (<<s, t>> \in R)
    <2>. HIDE DEF R, T
    <2> QED
      BY <1>1, <1>2, WFMin
  <1>4. PICK x \in S : t = 1 .. x
    OBVIOUS
  <1>5. ASSUME NEW y \in S, y < x PROVE FALSE
    <2>1. 1 .. y \subseteq 1 .. x /\ x \in 1 .. x /\ x \notin 1 .. y
      BY <1>5
    <2>2. <<1 .. y, 1 .. x>> \in R
      BY <2>1 DEF StrictSubsetOrdering
    <2> QED
      BY <1>3, <1>4, <2>2
  <1> QED
    BY <1>5

\* A set of positions that has whatever comes before any of its members is an
\* initial segment as long as it has members.
LEMMA Segment ==
  ASSUME NEW n \in Nat, NEW S \in SUBSET (1 .. n),
         \A j \in S : \A i \in 1 .. j : i \in S
  PROVE  Cardinality(S) \in 0 .. n /\ S = 1 .. Cardinality(S)
  <1>. DEFINE T == (1 .. n + 1) \ S
  <1>1. T \in SUBSET Nat /\ n + 1 \in T
    OBVIOUS
  <1>2. PICK k \in T : \A y \in T : k <= y
    BY <1>1, Least
  <1>3. k \in 1 .. n + 1 /\ k \notin S
    OBVIOUS
  <1>4. S = 1 .. k - 1
    <2>1. ASSUME NEW i \in 1 .. k - 1 PROVE i \in S
      BY <1>2, <1>3
    <2>2. ASSUME NEW i \in S PROVE i \in 1 .. k - 1
      <3>1. i \in 1 .. n /\ \A j \in 1 .. i : j \in S
        OBVIOUS
      <3>2. ~(k <= i)
        BY <1>3, <3>1
      <3> QED
        BY <1>3, <3>1, <3>2
    <2> QED
      BY <2>1, <2>2
  <1>5. Cardinality(1 .. k - 1) = k - 1
    <2>1. k - 1 \in Int /\ 1 \in Int
      BY <1>3
    <2>2. Cardinality(1 .. k - 1) = IF 1 > k - 1 THEN 0 ELSE (k - 1) - 1 + 1
      BY <2>1, FS_Interval
    <2> QED
      BY <2>2, <1>3
  <1> QED
    BY <1>3, <1>4, <1>5

-------------------------------------------------------------------------------
(* The order of the reserve.                                               *)

LEMMA ScoreIsNatural ==
  ASSUME org \in [Unit -> Nat], strength \in [Unit -> Nat], NEW u \in Unit
  PROVE  TacticalScore(u) \in Nat
  <1>. DEFINE stats == Type[u].fire + Type[u].shock + Type[u].maneuver
              ready == (org[u] * stats) \div 1000
  <1>1. stats \in Nat
    BY LandBattleAssumption DEF LandBattleAssumption
  <1>. HIDE DEF stats
  <1>2. org[u] \in Nat /\ strength[u] \in Nat
    OBVIOUS
  <1>3. ready \in Nat
    <2>1. org[u] * stats \in Nat
      BY <1>1, <1>2
    <2> QED
      BY <2>1
  <1>. HIDE DEF ready
  <1>4. ready * strength[u] \in Nat
    BY <1>2, <1>3
  <1>5. (ready * strength[u]) \div 1000 \in Nat
    BY <1>4
  <1> QED
    BY <1>5 DEF TacticalScore, stats, ready

\* Best first.
InOrder(q) == \A i, j \in 1 .. Len(q) : i < j => q[i] # q[j] /\ ~TacticallyLess(q[i], q[j])

\* A sequence with u put in behind its first n elements.
Spliced(q, u, n) == SubSeq(q, 1, n) \o <<u>> \o SubSeq(q, n + 1, Len(q))

LEMMA Splice ==
  ASSUME NEW U, NEW q \in Seq(U), NEW u \in U, NEW n \in 0 .. Len(q)
  PROVE  /\ Spliced(q, u, n) \in Seq(U) /\ Len(Spliced(q, u, n)) = Len(q) + 1
         /\ \A i \in 1 .. n : Spliced(q, u, n)[i] = q[i]
         /\ Spliced(q, u, n)[n + 1] = u
         /\ \A i \in n + 2 .. Len(q) + 1 : Spliced(q, u, n)[i] = q[i - 1]
  <1>. DEFINE f == SubSeq(q, 1, n)
              b == SubSeq(q, n + 1, Len(q))
              g == f \o <<u>>
              r == g \o b
  <1>1. /\ f \in Seq(U) /\ Len(f) = n /\ \A i \in 1 .. n : f[i] = q[i]
    OBVIOUS
  <1>2. /\ b \in Seq(U) /\ Len(b) = Len(q) - n
        /\ \A i \in 1 .. Len(q) - n : b[i] = q[n + i]
    OBVIOUS
  <1>. HIDE DEF f, b
  <1>3. g \in Seq(U) /\ Len(g) = n + 1 /\ g[n + 1] = u /\ \A i \in 1 .. n : g[i] = f[i]
    BY <1>1
  <1>. HIDE DEF g
  <1>4. /\ r \in Seq(U) /\ Len(r) = Len(q) + 1
        /\ \A i \in 1 .. Len(q) + 1 :
              r[i] = IF i <= n + 1 THEN g[i] ELSE b[i - (n + 1)]
    <2>1. /\ r \in Seq(U) /\ Len(r) = Len(g) + Len(b)
          /\ \A i \in 1 .. Len(g) + Len(b) :
                r[i] = IF i <= Len(g) THEN g[i] ELSE b[i - Len(g)]
      BY <1>2, <1>3, ConcatProperties
    <2>2. Len(g) + Len(b) = Len(q) + 1
      BY <1>2, <1>3
    <2>. HIDE DEF r
    <2> QED
      BY <1>3, <2>1, <2>2
  <1>. HIDE DEF r
  <1>5. \A i \in 1 .. n : r[i] = q[i]
    BY <1>1, <1>3, <1>4
  <1>6. r[n + 1] = u
    BY <1>3, <1>4
  <1>7. ASSUME NEW i \in n + 2 .. Len(q) + 1 PROVE r[i] = q[i - 1]
    <2>1. r[i] = b[i - (n + 1)]
      BY <1>4
    <2>2. i - (n + 1) \in 1 .. Len(q) - n /\ n + (i - (n + 1)) = i - 1
      OBVIOUS
    <2> QED
      BY <1>2, <2>1, <2>2
  <1>8. Spliced(q, u, n) = r
    BY DEF Spliced, r, g, f, b
  <1> QED
    BY <1>4, <1>5, <1>6, <1>7, <1>8

\* u stands in r behind the first n of q, which are worth as much or more, and
\* before the others, which are worth less.
PutIn(r, q, u, n) ==
    /\ r \in Seq(Unit) /\ Len(r) = Len(q) + 1
    /\ \A i \in 1 .. n : r[i] = q[i] /\ ~TacticallyLess(q[i], u)
    /\ r[n + 1] = u
    /\ \A i \in n + 2 .. Len(q) + 1 : r[i] = q[i - 1] /\ TacticallyLess(q[i - 1], u)

LEMMA InsertedPositions ==
  ASSUME NEW q \in Seq(Unit), NEW u \in Unit, InOrder(q),
         \A x \in Unit : TacticalScore(x) \in Nat
  PROVE  \E n \in 0 .. Len(q) : PutIn(Inserted(q, u), q, u, n)
  <1>. DEFINE L == Len(q)
              S == {i \in DOMAIN q : ~TacticallyLess(q[i], u)}
  <1>1. L \in Nat /\ DOMAIN q = 1 .. L /\ \A i \in 1 .. L : q[i] \in Unit
    OBVIOUS
  <1>2. S \in SUBSET (1 .. L)
    BY <1>1
  <1>3. \A j \in S : \A i \in 1 .. j : i \in S
    <2>. SUFFICES ASSUME NEW j \in S, NEW i \in 1 .. j PROVE i \in S
      OBVIOUS
    <2>1. i \in 1 .. L /\ j \in 1 .. L /\ ~TacticallyLess(q[j], u)
      BY <1>1
    <2>2. i = j \/ ~TacticallyLess(q[i], q[j])
      BY <2>1 DEF InOrder
    <2>3. ~TacticallyLess(q[i], u)
      BY <1>1, <2>1, <2>2 DEF TacticallyLess
    <2> QED
      BY <1>1, <2>1, <2>3
  <1>4. PICK n \in 0 .. Len(q) : n = Cardinality(S) /\ S = 1 .. n
    <2>. HIDE DEF S
    <2> QED
      BY <1>1, <1>2, <1>3, Segment
  <1>5. \A i \in 1 .. L : i \in 1 .. n <=> ~TacticallyLess(q[i], u)
    BY <1>1, <1>4
  <1>6. Inserted(q, u) = Spliced(q, u, n)
    BY <1>4 DEF Inserted, Spliced
  <1>7. /\ Inserted(q, u) \in Seq(Unit) /\ Len(Inserted(q, u)) = L + 1
        /\ \A i \in 1 .. n : Inserted(q, u)[i] = q[i]
        /\ Inserted(q, u)[n + 1] = u
        /\ \A i \in n + 2 .. L + 1 : Inserted(q, u)[i] = q[i - 1]
    <2>1. Spliced(q, u, n) \in Seq(Unit) /\ Len(Spliced(q, u, n)) = Len(q) + 1
      BY Splice
    <2>2. \A i \in 1 .. n : Spliced(q, u, n)[i] = q[i]
      BY Splice
    <2>3. Spliced(q, u, n)[n + 1] = u
      BY Splice
    <2>4. \A i \in n + 2 .. Len(q) + 1 : Spliced(q, u, n)[i] = q[i - 1]
      BY Splice
    <2> QED
      BY <2>1, <2>2, <2>3, <2>4, <1>6
  <1>8. \A i \in 1 .. n : ~TacticallyLess(q[i], u)
    BY <1>1, <1>4, <1>5
  <1>9. ASSUME NEW i \in n + 2 .. L + 1 PROVE TacticallyLess(q[i - 1], u)
    <2>1. i - 1 \in 1 .. L /\ i - 1 \notin 1 .. n
      BY <1>1, <1>4
    <2> QED
      BY <1>5, <2>1
  <1> QED
    BY <1>4, <1>7, <1>8, <1>9 DEF PutIn

-------------------------------------------------------------------------------
(* The reserve stays in order.                                             *)

LEMMA WidthIsInteger == Width \in Int
  <1>. DEFINE S == {30000} \cup {AtLeast(2000, 30000 + t) : t \in TechFrontage}
              ground1 == Permille(Min(S), 1000 + Terrain)
  <1>1. S \in SUBSET Nat /\ S # {}
    BY LandBattleAssumption DEF LandBattleAssumption, AtLeast
  <1>. HIDE DEF S
  <1>2. Min(S) \in Nat
    <2>1. \E x \in S : \A y \in S : x <= y
      BY <1>1, Least
    <2>2. Min(S) \in S
      BY <2>1 DEF Min
    <2> QED
      BY <1>1, <2>2
  <1>3. Min(S) * (1000 + Terrain) \in Int
    BY <1>2, LandBattleAssumption DEF LandBattleAssumption
  <1>4. ground1 \in Int
    <2>. DEFINE a == Min(S) * (1000 + Terrain)
                q == Magnitude(a) \div Magnitude(1000)
    <2>1. Magnitude(a) \in Nat /\ Magnitude(1000) = 1000
      BY <1>3 DEF Magnitude
    <2>2. q \in Nat
      BY <2>1
    <2>3. AllDiv(a, 1000) \in {q, -q}
      BY DEF AllDiv
    <2>. HIDE DEF a, q
    <2>4. AllDiv(a, 1000) \in Int
      BY <2>2, <2>3
    <2> QED
      BY <2>4 DEF Permille, a
  <1>. HIDE DEF ground1
  <1>5. AtLeast(2000, ground1) \div 1000 \in Int
    BY <1>4 DEF AtLeast
  <1>6. Frontage(TechFrontage, Terrain) = AtLeast(2000, ground1) \div 1000
    BY DEF Frontage, S, ground1
  <1> QED
    BY <1>5, <1>6, LandBattleAssumption DEF LandBattleAssumption, Width, AtMost

\* The types the argument needs.
Ranks ==
    /\ place \in [Unit -> {"away", "reserve", "front", "back", "routed"}]
    /\ column \in [Unit -> Nat]
    /\ strength \in [Unit -> Nat] /\ org \in [Unit -> Nat]
    /\ dealt \in [Unit -> Nat]
    /\ pending \in [Unit -> [Word -> Nat]]
    /\ ground \in Grounds /\ roll \in [Side -> Int]
    /\ reserve \in [Side -> Seq(Unit)]

\* Nothing strikes a regiment before it stands in the line.
Unhurt == \A u \in Unit : place[u] \in {"away", "reserve"} =>
                             \A w \in Word : pending[u][w] = 0

\* The reserve of s: its own regiments, waiting there, best first.
Waiting(s, q) ==
    /\ InOrder(q)
    /\ \A i \in 1 .. Len(q) : SideOf[q[i]] = s /\ place[q[i]] = "reserve"

QInv == Ranks /\ Unhurt /\ \A s \in Side : Waiting(s, reserve[s])

LEMMA FirstStands ==
  ASSUME Ranks, NEW u \in Unit, NEW row, NEW reach
  PROVE  LET v == FirstOf(u, row, reach)
         IN  v = Nobody \/ (v \in Unit /\ place[v] = row /\ Operational(v))
  <1>. DEFINE opposite == InReach(u, row, 0)
              flanks == InReach(u, row, reach)
  <1>1. \A v \in opposite \cup flanks : v \in Unit /\ place[v] = row /\ Operational(v)
    BY DEF InReach, Of
  <1>2. CASE opposite # {}
    <2>1. FirstOf(u, row, reach) \in opposite
      <3>. HIDE DEF opposite
      <3>1. (CHOOSE v \in opposite : TRUE) \in opposite
        BY <1>2
      <3> QED
        BY <3>1, <1>2 DEF FirstOf, opposite
    <2> QED
      BY <1>1, <2>1
  <1>3. CASE opposite = {} /\ flanks # {}
    <2>1. FirstOf(u, row, reach) = CHOOSE v \in flanks : \A w \in flanks : column[v] <= column[w]
      BY <1>3 DEF FirstOf
    <2>. HIDE DEF flanks, opposite
    <2>2. \E v \in flanks : \A w \in flanks : column[v] <= column[w]
      <3>. DEFINE K == {column[v] : v \in flanks}
      <3>1. K \in SUBSET Nat /\ K # {}
        BY <1>1, <1>3 DEF Ranks
      <3>2. PICK k \in K : \A l \in K : k <= l
        <4>. HIDE DEF K
        <4> QED
          BY <3>1, Least
      <3> QED
        BY <3>2
    <2>3. FirstOf(u, row, reach) \in flanks
      BY <2>1, <2>2
    <2> QED
      BY <1>1, <2>3
  <1>4. CASE opposite = {} /\ flanks = {}
    BY <1>4 DEF FirstOf
  <1> QED
    BY <1>2, <1>3, <1>4

LEMMA TargetStands ==
  ASSUME Ranks, NEW u \in Unit
  PROVE  \/ FindTarget(u) = Nobody
         \/ /\ FindTarget(u) \in Unit /\ place[FindTarget(u)] \in {"front", "back"}
            /\ Operational(FindTarget(u))
  <1>. DEFINE reach == Type[u].maneuver \div 1000
              f == FirstOf(u, "front", reach)
              b == FirstOf(u, "back", reach)
  <1>1. f = Nobody \/ (f \in Unit /\ place[f] = "front" /\ Operational(f))
    BY FirstStands
  <1>2. b = Nobody \/ (b \in Unit /\ place[b] = "back" /\ Operational(b))
    BY FirstStands
  <1>3. FindTarget(u) = IF f # Nobody THEN f ELSE b
    BY DEF FindTarget
  <1>. HIDE DEF f, b
  <1> QED
    BY <1>1, <1>2, <1>3

\* A reserve q stays in order while its regiments keep their men and places.
LEMMA WaitingStays ==
  ASSUME NEW q \in Seq(Unit), NEW s \in Side, Waiting(s, q),
         \A i \in 1 .. Len(q) : /\ place'[q[i]] = "reserve"
                                /\ strength'[q[i]] = strength[q[i]]
                                /\ org'[q[i]] = org[q[i]]
  PROVE  InOrder(q)' /\ \A i \in 1 .. Len(q) : SideOf[q[i]] = s /\ place'[q[i]] = "reserve"
  <1>1. \A i \in 1 .. Len(q) : TacticalScore(q[i])' = TacticalScore(q[i])
    BY DEF TacticalScore
  <1>2. \A i, j \in 1 .. Len(q) :
           TacticallyLess(q[i], q[j])' <=> TacticallyLess(q[i], q[j])
    BY <1>1 DEF TacticallyLess
  <1> QED
    BY <1>2 DEF Waiting, InOrder

\* The steps that leave the reserves alone.
LEMMA ReservesStay ==
  ASSUME QInv, reserve' = reserve,
         \A u \in Unit : place[u] = "reserve" =>
             place'[u] = "reserve" /\ strength'[u] = strength[u] /\ org'[u] = org[u]
  PROVE  (\A s \in Side : Waiting(s, reserve[s]))'
  <1>. SUFFICES ASSUME NEW s \in Side PROVE Waiting(s, reserve[s])'
    OBVIOUS
  <1>1. reserve[s] \in Seq(Unit) /\ Waiting(s, reserve[s])
    BY DEF QInv, Ranks
  <1>2. PICK q \in Seq(Unit) : q = reserve[s]
    BY <1>1
  <1>3. \A i \in 1 .. Len(q) : q[i] \in Unit /\ place[q[i]] = "reserve"
    BY <1>1, <1>2 DEF Waiting
  <1>4. InOrder(q)' /\ \A i \in 1 .. Len(q) : SideOf[q[i]] = s /\ place'[q[i]] = "reserve"
    BY <1>1, <1>2, <1>3, WaitingStays
  <1>5. reserve'[s] = q
    BY <1>2
  <1> QED
    BY <1>4, <1>5 DEF Waiting, InOrder, TacticallyLess, TacticalScore

LEMMA InitReserves == Init => QInv
  <1>. SUFFICES ASSUME Init PROVE QInv
    OBVIOUS
  <1>. USE LandBattleAssumption DEF LandBattleAssumption
  <1>1. /\ place = [u \in Unit |-> IF u \in Late THEN "away" ELSE "reserve"]
        /\ column = [u \in Unit |-> 0] /\ strength = Men /\ org = Order
        /\ pending = [u \in Unit |-> [w \in Word |-> 0]]
        /\ roll = [s \in Side |-> 0] /\ ground \in Grounds
        /\ dealt = [u \in Unit |-> 0]
    BY DEF Init
  <1>2. PICK a \in Ordered(Of("attacker") \ Late), d \in Ordered(Of("defender") \ Late) :
           reserve = [s \in Side |-> IF s = "attacker" THEN a ELSE d]
    BY DEF Init
  <1>3. ASSUME NEW s \in Side, NEW q \in Ordered(Of(s) \ Late)
        PROVE  q \in Seq(Unit) /\ Waiting(s, q)
    <2>. DEFINE U == Of(s) \ Late
                n == Cardinality(U)
    <2>1. /\ q \in [1 .. n -> U]
          /\ \A i, j \in DOMAIN q : i < j => q[i] # q[j] /\ ~TacticallyLess(q[i], q[j])
      BY DEF Ordered
    <2>2. n \in Nat
      <3>1. U \subseteq Unit
        BY DEF Of
      <3>2. IsFiniteSet(U)
        BY <3>1, FS_Subset
      <3> QED
        BY <3>2, FS_CardinalityType
    <2>3. \A u \in U : u \in Unit /\ SideOf[u] = s /\ place[u] = "reserve"
      BY <1>1 DEF Of
    <2>. HIDE DEF U, n
    <2>4. q \in Seq(U) /\ Len(q) = n /\ DOMAIN q = 1 .. n
      BY <2>1, <2>2
    <2>5. q \in Seq(Unit)
      BY <2>3, <2>4
    <2>6. \A i \in 1 .. Len(q) : q[i] \in U
      BY <2>4
    <2>7. InOrder(q)
      BY <2>1, <2>4 DEF InOrder
    <2> QED
      BY <2>3, <2>5, <2>6, <2>7 DEF Waiting
  <1>4. a \in Seq(Unit) /\ Waiting("attacker", a)
    BY <1>3 DEF Side
  <1>5. d \in Seq(Unit) /\ Waiting("defender", d)
    BY <1>3 DEF Side
  <1>6. Ranks
    BY <1>1, <1>2, <1>4, <1>5 DEF Ranks
  <1>7. Unhurt
    BY <1>1 DEF Unhurt
  <1>8. \A s \in Side : Waiting(s, reserve[s])
    BY <1>2, <1>4, <1>5 DEF Side
  <1> QED
    BY <1>6, <1>7, <1>8 DEF QInv

\* A regiment that arrives is put in its place.
LEMMA ArriveReserves ==
  ASSUME QInv, NEW u \in Unit, Arrive(u)
  PROVE  QInv'
  <1>. DEFINE s == SideOf[u]
  <1>1. /\ place[u] = "away" /\ place' = [place EXCEPT ![u] = "reserve"]
        /\ reserve' = [reserve EXCEPT ![s] = Inserted(reserve[s], u)]
        /\ UNCHANGED <<column, strength, org, dealt, pending, ground, roll>>
    BY DEF Arrive
  <1>2. Ranks /\ Unhurt /\ (\A t \in Side : Waiting(t, reserve[t])) /\ s \in Side
    BY LandBattleAssumption DEF LandBattleAssumption, QInv
  <1>3. PICK q \in Seq(Unit) : q = reserve[s]
    BY <1>2 DEF Ranks
  <1>4. InOrder(q)
        /\ \A i \in 1 .. Len(q) : SideOf[q[i]] = s /\ place[q[i]] = "reserve" /\ q[i] # u
    BY <1>1, <1>2, <1>3 DEF Ranks, Waiting
  <1>5. \A x \in Unit : TacticalScore(x) \in Nat
    BY <1>2, ScoreIsNatural DEF Ranks
  <1>. HIDE DEF s
  <1>6. PICK r : r = Inserted(q, u)
    OBVIOUS
  <1>7. PICK n \in 0 .. Len(q) : PutIn(r, q, u, n)
    BY <1>4, <1>5, <1>6, InsertedPositions
  <1>. USE DEF PutIn
  <1>8. ASSUME NEW i \in 1 .. Len(r)
        PROVE  \/ i = n + 1 /\ r[i] = u
               \/ i \in 1 .. n /\ r[i] = q[i] /\ i \in 1 .. Len(q)
               \/ i \in n + 2 .. Len(q) + 1 /\ r[i] = q[i - 1] /\ i - 1 \in 1 .. Len(q)
    BY <1>4, <1>7
  <1>9. InOrder(r)
    <2>. SUFFICES ASSUME NEW i \in 1 .. Len(r), NEW j \in 1 .. Len(r), i < j
                  PROVE  r[i] # r[j] /\ ~TacticallyLess(r[i], r[j])
      BY DEF InOrder
    <2>1. CASE i \in 1 .. n /\ j \in 1 .. n
      BY <2>1, <1>4, <1>7, <1>8 DEF InOrder
    <2>2. CASE i \in 1 .. n /\ j = n + 1
      <3>1. r[i] = q[i] /\ r[j] = u /\ ~TacticallyLess(q[i], u) /\ i \in 1 .. Len(q)
        BY <2>2, <1>7
      <3> QED
        BY <3>1, <1>4
    <2>3. CASE i \in 1 .. n /\ j \in n + 2 .. Len(q) + 1
      <3>1. r[i] = q[i] /\ r[j] = q[j - 1] /\ i < j - 1
            /\ i \in 1 .. Len(q) /\ j - 1 \in 1 .. Len(q)
        BY <2>3, <1>4, <1>7
      <3> QED
        BY <3>1, <1>4 DEF InOrder
    <2>4. CASE i = n + 1 /\ j \in n + 2 .. Len(q) + 1
      <3>1. r[i] = u /\ r[j] = q[j - 1] /\ j - 1 \in 1 .. Len(q)
            /\ TacticallyLess(q[j - 1], u) /\ q[j - 1] \in Unit /\ q[j - 1] # u
        BY <2>4, <1>4, <1>7
      <3>2. ~TacticallyLess(u, q[j - 1])
        BY <3>1, <1>5 DEF TacticallyLess
      <3> QED
        BY <3>1, <3>2
    <2>5. CASE i \in n + 2 .. Len(q) + 1 /\ j \in n + 2 .. Len(q) + 1
      <3>1. r[i] = q[i - 1] /\ r[j] = q[j - 1] /\ i - 1 < j - 1
            /\ i - 1 \in 1 .. Len(q) /\ j - 1 \in 1 .. Len(q)
        BY <2>5, <1>4, <1>7
      <3> QED
        BY <3>1, <1>4 DEF InOrder
    <2> QED
      BY <2>1, <2>2, <2>3, <2>4, <2>5, <1>4, <1>7
  <1>10. ASSUME NEW i \in 1 .. Len(r)
         PROVE  r[i] \in Unit /\ SideOf[r[i]] = s /\ place'[r[i]] = "reserve"
    <2>1. r[i] = u \/ \E j \in 1 .. Len(q) : r[i] = q[j]
      BY <1>8
    <2>2. CASE r[i] = u
      BY <2>2, <1>1, <1>2 DEF Ranks, s
    <2>3. CASE \E j \in 1 .. Len(q) : r[i] = q[j]
      <3>1. r[i] \in Unit /\ SideOf[r[i]] = s /\ place[r[i]] = "reserve" /\ r[i] # u
        BY <2>3, <1>4
      <3> QED
        BY <3>1, <1>1, <1>2 DEF Ranks
    <2> QED
      BY <2>1, <2>2, <2>3
  <1>11. \A x \in Unit : TacticalScore(x)' = TacticalScore(x)
    BY <1>1 DEF TacticalScore
  <1>12. Waiting(s, r)'
    BY <1>9, <1>10, <1>11 DEF Waiting, InOrder, TacticallyLess
  <1>13. Ranks'
    <2>1. reserve' = [reserve EXCEPT ![s] = r] /\ r \in Seq(Unit)
      BY <1>1, <1>3, <1>6, <1>7
    <2>2. reserve' \in [Side -> Seq(Unit)]
      BY <2>1, <1>2 DEF Ranks
    <2>3. place' \in [Unit -> {"away", "reserve", "front", "back", "routed"}]
      BY <1>1, <1>2 DEF Ranks
    <2> QED
      BY <2>2, <2>3, <1>1, <1>2 DEF Ranks
  <1>14. Unhurt'
    BY <1>1, <1>2 DEF Ranks, Unhurt
  <1>15. ASSUME NEW t \in Side PROVE Waiting(t, reserve[t])'
    <2>1. CASE t = s
      <3>1. reserve'[t] = r
        BY <2>1, <1>1, <1>2, <1>3, <1>6 DEF Ranks
      <3> QED
        BY <2>1, <3>1, <1>12 DEF Waiting, InOrder, TacticallyLess, TacticalScore
    <2>2. CASE t # s
      <3>1. PICK p \in Seq(Unit) : p = reserve[t] /\ p = reserve'[t]
        BY <2>2, <1>1, <1>2 DEF Ranks
      <3>2. Waiting(t, p)
        BY <3>1, <1>2
      <3>3. \A i \in 1 .. Len(p) : /\ place'[p[i]] = "reserve"
                                   /\ strength'[p[i]] = strength[p[i]]
                                   /\ org'[p[i]] = org[p[i]]
        <4>. SUFFICES ASSUME NEW i \in 1 .. Len(p) PROVE place'[p[i]] = "reserve"
          BY <1>1
        <4>1. p[i] \in Unit /\ place[p[i]] = "reserve"
          BY <3>2 DEF Waiting
        <4> QED
          BY <4>1, <1>1, <1>2 DEF Ranks
      <3>4. InOrder(p)' /\ \A i \in 1 .. Len(p) : SideOf[p[i]] = t /\ place'[p[i]] = "reserve"
        BY <3>2, <3>3, WaitingStays
      <3> QED
        BY <3>1, <3>4 DEF Waiting, InOrder, TacticallyLess, TacticalScore
    <2> QED
      BY <2>1, <2>2
  <1> QED
    BY <1>13, <1>14, <1>15 DEF QInv

\* The first of the reserve goes into the line, and the others move up.
LEMMA DeployReserves ==
  ASSUME QInv, NEW s \in Side, Deploy(s)
  PROVE  QInv'
  <1>1. Ranks /\ Unhurt /\ \A t \in Side : Waiting(t, reserve[t])
    BY DEF QInv
  <1>2. PICK q \in Seq(Unit) : q = reserve[s]
    BY <1>1 DEF Ranks
  <1>3. q # <<>> /\ Waiting(s, q)
    BY <1>1, <1>2 DEF Deploy
  <1>4. PICK u : u = Head(q)
    OBVIOUS
  <1>5. PICK row \in {"front", "back"}, c \in 0 .. Width - 1 :
           /\ place' = [place EXCEPT ![u] = row]
           /\ column' = [column EXCEPT ![u] = c]
    <2>. DEFINE row == IF Type[u].support > 0 THEN "back" ELSE "front"
    <2>1. u = Head(reserve[s])
      BY <1>2, <1>4
    <2>2. PICK c \in 0 .. Width - 1 : /\ place' = [place EXCEPT ![u] = row]
                                     /\ column' = [column EXCEPT ![u] = c]
      BY <2>1 DEF Deploy
    <2>3. row \in {"front", "back"}
      OBVIOUS
    <2>. HIDE DEF row
    <2> QED
      BY <2>2, <2>3
  <1>6. PICK r : r = Tail(q)
    OBVIOUS
  <1>7. /\ reserve' = [reserve EXCEPT ![s] = r]
        /\ UNCHANGED <<strength, org, dealt, pending, ground, roll>>
    BY <1>2, <1>6 DEF Deploy
  <1>8. /\ u = q[1] /\ u \in Unit /\ r \in Seq(Unit) /\ Len(r) = Len(q) - 1
        /\ \A i \in 1 .. Len(r) : r[i] = q[i + 1] /\ i + 1 \in 1 .. Len(q)
        /\ 1 \in 1 .. Len(q) /\ Len(q) \in Nat
    BY <1>3, <1>4, <1>6
  <1>9. c \in Nat
    BY WidthIsInteger
  <1>10. SideOf[u] = s /\ place[u] = "reserve"
    BY <1>3, <1>8 DEF Waiting
  <1>11. Ranks'
    <2>1. reserve' \in [Side -> Seq(Unit)]
      BY <1>1, <1>7, <1>8 DEF Ranks
    <2>2. place' \in [Unit -> {"away", "reserve", "front", "back", "routed"}]
      BY <1>1, <1>5, <1>8 DEF Ranks
    <2>3. column' \in [Unit -> Nat]
      BY <1>1, <1>5, <1>9 DEF Ranks
    <2> QED
      BY <2>1, <2>2, <2>3, <1>1, <1>7 DEF Ranks
  <1>12. Unhurt'
    BY <1>1, <1>5, <1>7, <1>10 DEF Ranks, Unhurt
  <1>13. \A x \in Unit : x # u => place'[x] = place[x]
    BY <1>1, <1>5 DEF Ranks
  <1>14. \A i \in 1 .. Len(r) : r[i] \in Unit /\ r[i] # u
    <2>. SUFFICES ASSUME NEW i \in 1 .. Len(r) PROVE r[i] \in Unit /\ r[i] # u
      OBVIOUS
    <2>1. 1 < i + 1 /\ i + 1 \in 1 .. Len(q)
      BY <1>8
    <2>2. q[1] # q[i + 1]
      BY <1>3, <1>8, <2>1 DEF Waiting, InOrder
    <2> QED
      BY <1>8, <2>2
  <1>15. Waiting(s, r)
    <2>1. \A i \in 1 .. Len(r) : SideOf[r[i]] = s /\ place[r[i]] = "reserve"
      BY <1>3, <1>8 DEF Waiting
    <2>2. ASSUME NEW i \in 1 .. Len(r), NEW j \in 1 .. Len(r), i < j
          PROVE  r[i] # r[j] /\ ~TacticallyLess(r[i], r[j])
      <3>1. r[i] = q[i + 1] /\ r[j] = q[j + 1] /\ i + 1 < j + 1
            /\ i + 1 \in 1 .. Len(q) /\ j + 1 \in 1 .. Len(q)
        BY <1>8, <2>2
      <3> QED
        BY <3>1, <1>3 DEF Waiting, InOrder
    <2> QED
      BY <2>1, <2>2 DEF Waiting, InOrder
  <1>16. ASSUME NEW t \in Side PROVE Waiting(t, reserve[t])'
    <2>1. PICK p \in Seq(Unit) : p = reserve'[t]
      BY <1>1, <1>7, <1>8 DEF Ranks
    <2>2. Waiting(t, p) /\ \A i \in 1 .. Len(p) : p[i] # u
      <3>1. CASE t = s
        BY <3>1, <2>1, <1>1, <1>7, <1>14, <1>15 DEF Ranks
      <3>2. CASE t # s
        <4>1. p = reserve[t]
          BY <3>2, <2>1, <1>1, <1>7 DEF Ranks
        <4>2. Waiting(t, p)
          BY <4>1, <1>1
        <4> QED
          BY <4>2, <3>2, <1>10 DEF Waiting
      <3> QED
        BY <3>1, <3>2
    <2>3. \A i \in 1 .. Len(p) : p[i] \in Unit /\ place[p[i]] = "reserve"
      BY <2>1, <2>2 DEF Waiting
    <2>4. \A i \in 1 .. Len(p) : /\ place'[p[i]] = "reserve"
                                 /\ strength'[p[i]] = strength[p[i]]
                                 /\ org'[p[i]] = org[p[i]]
      BY <2>2, <2>3, <1>7, <1>13
    <2>5. InOrder(p)' /\ \A i \in 1 .. Len(p) : SideOf[p[i]] = t /\ place'[p[i]] = "reserve"
      BY <2>2, <2>4, WaitingStays
    <2> QED
      BY <2>1, <2>5 DEF Waiting, InOrder, TacticallyLess, TacticalScore
  <1> QED
    BY <1>11, <1>12, <1>16 DEF QInv

\* The steps that leave the men and the reserves as they are.
LEMMA IdleReserves ==
  ASSUME QInv, \/ \E u \in Unit : Rout(u)
               \/ StartDay \/ EndFire \/ Judge \/ UNCHANGED battle
  PROVE  QInv'
  <1>1. Ranks /\ Unhurt
    BY DEF QInv
  <1>2. UNCHANGED <<column, reserve, strength, org, pending, ground>>
    BY DEF Rout, StartDay, EndFire, Judge, battle
  <1>3. dealt' \in [Unit -> Nat] /\ roll' \in [Side -> Int]
    <2>1. CASE StartDay
      BY <2>1, <1>1, LandBattleAssumption DEF LandBattleAssumption, StartDay, Ranks
    <2>2. CASE Judge
      BY <2>2, <1>1 DEF Judge, Ranks
    <2>3. CASE (\E u \in Unit : Rout(u)) \/ EndFire \/ UNCHANGED battle
      BY <2>3, <1>1 DEF Rout, EndFire, battle, Ranks
    <2> QED
      BY <2>1, <2>2, <2>3
  <1>4. /\ place' \in [Unit -> {"away", "reserve", "front", "back", "routed"}]
        /\ \A u \in Unit : place'[u] \in {"away", "reserve"} => place'[u] = place[u]
        /\ \A u \in Unit : place[u] = "reserve" => place'[u] = "reserve"
    <2>1. CASE \E u \in Unit : Rout(u)
      <3>1. PICK v \in Unit : place[v] # "reserve" /\ place' = [place EXCEPT ![v] = "routed"]
        BY <2>1 DEF Rout, InLine
      <3> QED
        BY <3>1, <1>1 DEF Ranks
    <2>2. CASE StartDay \/ EndFire \/ Judge \/ UNCHANGED battle
      <3>1. place' = place
        BY <2>2 DEF StartDay, EndFire, Judge, battle
      <3> QED
        BY <3>1, <1>1 DEF Ranks
    <2> QED
      BY <2>1, <2>2
  <1>5. Ranks'
    BY <1>1, <1>2, <1>3, <1>4 DEF Ranks
  <1>6. Unhurt'
    BY <1>1, <1>2, <1>4 DEF Unhurt
  <1>7. (\A s \in Side : Waiting(s, reserve[s]))'
    BY <1>2, <1>4, ReservesStay
  <1> QED
    BY <1>5, <1>6, <1>7 DEF QInv

\* An attack strikes regiments of the line.
LEMMA AttackReserves ==
  ASSUME QInv, NEW u \in Unit, Attack(u)
  PROVE  QInv'
  <1>1. Ranks /\ Unhurt
    BY DEF QInv
  <1>2. UNCHANGED <<place, column, reserve, org, ground, roll>>
    BY DEF Attack
  <1>. DEFINE v == FindTarget(u)
  <1>3. CASE u \in ground.inactive \/ v = Nobody
    <2>1. UNCHANGED <<strength, pending, dealt>>
      BY <1>3 DEF Attack
    <2>2. Ranks' /\ Unhurt'
      BY <1>1, <1>2, <2>1 DEF Ranks, Unhurt
    <2>3. (\A s \in Side : Waiting(s, reserve[s]))'
      BY <1>2, <2>1, ReservesStay
    <2> QED
      BY <2>2, <2>3 DEF QInv
  <1>4. CASE ~(u \in ground.inactive \/ v = Nobody)
    <2>. DEFINE d == Damage(u, v, strength[u])
    <2>1. Strike(v, d)
      BY <1>4 DEF Attack
    <2>2. v \in Unit /\ place[v] \in {"front", "back"}
      BY <1>1, <1>4, TargetStands
    <2>3. d \in [casualties : Nat, loss : Nat]
      BY <1>1, <2>2, DamageIsNatural DEF Ranks
    <2>. HIDE DEF v, d
    <2>4. /\ pending' \in [Unit -> [Word -> Nat]] /\ dealt' \in [Unit -> Nat]
          /\ \A x \in Unit : x # v => pending'[x] = pending[x]
          /\ strength' = strength
      BY <1>1, <2>1, <2>2, <2>3, StrikeFacts DEF Ranks
    <2>5. Ranks'
      BY <1>1, <1>2, <2>4 DEF Ranks
    <2>6. Unhurt'
      BY <1>1, <1>2, <2>2, <2>4 DEF Unhurt
    <2>7. (\A s \in Side : Waiting(s, reserve[s]))'
      BY <1>2, <2>4, ReservesStay
    <2> QED
      BY <2>5, <2>6, <2>7 DEF QInv
  <1> QED
    BY <1>3, <1>4

\* A commit takes nothing from a regiment that nothing has struck.
LEMMA CommitReserves ==
  ASSUME QInv, NEW s \in Side, NEW U \in SUBSET Unit, Commit(s, U),
         UNCHANGED <<place, column, reserve, dealt, ground, roll>>
  PROVE  QInv'
  <1>. DEFINE men == [u \in U |-> Lost(u, PendingCasualties, strength[u])]
              loss == [u \in U |-> Lost(u, PendingLoss, org[u])]
  <1>1. Ranks /\ Unhurt
    BY DEF QInv
  <1>2. PendingCasualties \in Word /\ PendingLoss \in Word
    BY LandBattleAssumption DEF LandBattleAssumption
  <1>3. /\ strength' = [u \in Unit |-> strength[u] - IF u \in U THEN men[u] ELSE 0]
        /\ org' = [u \in Unit |-> org[u] - IF u \in U THEN loss[u] ELSE 0]
        /\ pending' = Cleared(U)
    BY DEF Commit
  <1>4. ASSUME NEW u \in Unit, NEW w \in Word, NEW has \in Nat
        PROVE  /\ Lost(u, w, has) \in 0 .. has
               /\ pending[u][w] = 0 => Lost(u, w, has) = 0
    BY <1>1 DEF Ranks, Lost, AtMost, AtLeast
  <1>5. ASSUME NEW u \in U
        PROVE  /\ men[u] \in 0 .. strength[u] /\ loss[u] \in 0 .. org[u]
               /\ place[u] = "reserve" => men[u] = 0 /\ loss[u] = 0
    <2>1. u \in Unit /\ strength[u] \in Nat /\ org[u] \in Nat
      BY <1>1 DEF Ranks
    <2>2. men[u] \in 0 .. strength[u] /\ loss[u] \in 0 .. org[u]
      BY <1>2, <1>4, <2>1
    <2>3. place[u] = "reserve" => men[u] = 0 /\ loss[u] = 0
      <3>1. place[u] = "reserve" => pending[u][PendingCasualties] = 0 /\ pending[u][PendingLoss] = 0
        BY <1>1, <1>2, <2>1 DEF Unhurt
      <3> QED
        BY <3>1, <1>2, <1>4, <2>1
    <2> QED
      BY <2>2, <2>3
  <1>. HIDE DEF men, loss
  <1>6. ASSUME NEW u \in Unit
        PROVE  /\ strength'[u] \in Nat /\ org'[u] \in Nat
               /\ place[u] = "reserve" => strength'[u] = strength[u] /\ org'[u] = org[u]
    <2>1. strength[u] \in Nat /\ org[u] \in Nat
      BY <1>1 DEF Ranks
    <2>2. CASE u \in U
      <3>1. strength'[u] = strength[u] - men[u] /\ org'[u] = org[u] - loss[u]
        BY <2>2, <1>3
      <3> QED
        BY <2>1, <2>2, <3>1, <1>5
    <2>3. CASE u \notin U
      <3>1. strength'[u] = strength[u] - 0 /\ org'[u] = org[u] - 0
        BY <2>3, <1>3
      <3> QED
        BY <2>1, <3>1
    <2> QED
      BY <2>2, <2>3
  <1>7. strength' \in [Unit -> Nat] /\ org' \in [Unit -> Nat]
    BY <1>3, <1>6
  <1>8. /\ pending' \in [Unit -> [Word -> Nat]]
        /\ \A u \in Unit : \A w \in Word : pending'[u][w] \in {0, pending[u][w]}
    BY <1>1, <1>3 DEF Ranks, Cleared
  <1>9. Ranks'
    BY <1>1, <1>7, <1>8 DEF Ranks
  <1>10. Unhurt'
    BY <1>1, <1>8 DEF Unhurt
  <1>11. (\A t \in Side : Waiting(t, reserve[t]))'
    BY <1>6, ReservesStay
  <1> QED
    BY <1>9, <1>10, <1>11 DEF QInv

LEMMA NextReserves == QInv /\ [Next]_battle => QInv'
  <1>. SUFFICES ASSUME QInv, [Next]_battle PROVE QInv'
    OBVIOUS
  <1>1. ASSUME NEW u \in Unit, Arrive(u) PROVE QInv'
    BY <1>1, ArriveReserves
  <1>2. ASSUME NEW u \in Unit, Attack(u) PROVE QInv'
    BY <1>2, AttackReserves
  <1>3. ASSUME NEW s \in Side, Deploy(s) PROVE QInv'
    BY <1>3, DeployReserves
  <1>4. ASSUME NEW s \in Side, CommitTotal(s) PROVE QInv'
    <2>1. Of(s) \in SUBSET Unit
      BY DEF Of
    <2>2. Commit(s, Of(s)) /\ UNCHANGED <<place, column, reserve, dealt, ground, roll>>
      BY <1>4 DEF CommitTotal
    <2> QED
      BY <2>1, <2>2, CommitReserves
  <1>5. ASSUME NEW s \in Side, NEW c \in Category, CommitByType(s, c) PROVE QInv'
    <2>1. PICK U \in SUBSET Unit : U = {u \in Of(s) : Type[u].category = c}
      BY DEF Of
    <2>2. Commit(s, U) /\ UNCHANGED <<place, column, reserve, dealt, ground, roll>>
      BY <1>5, <2>1 DEF CommitByType
    <2> QED
      BY <2>2, CommitReserves
  <1>6. ASSUME \/ \E u \in Unit : Rout(u)
               \/ StartDay \/ EndFire \/ Judge \/ UNCHANGED battle
        PROVE  QInv'
    BY <1>6, IdleReserves
  <1> QED
    BY <1>1, <1>2, <1>3, <1>4, <1>5, <1>6 DEF Next

\* Whatever the regiments, their arrivals and the days, the reserve of each side is
\* best first: the insertion finds the one place, and what changes the worth of a
\* regiment, its men and its organization, changes only in the line.
THEOREM ReserveInOrder == Spec => []ReserveBestFirst
  <1>1. Init => QInv
    BY InitReserves
  <1>2. QInv /\ [Next]_battle => QInv'
    BY NextReserves
  <1>3. QInv => ReserveBestFirst
    <2>. SUFFICES ASSUME QInv, NEW s \in Side,
                         NEW i \in DOMAIN reserve[s], NEW j \in DOMAIN reserve[s], i < j
                  PROVE  ~TacticallyLess(reserve[s][i], reserve[s][j])
      BY DEF ReserveBestFirst
    <2>1. PICK q \in Seq(Unit) : q = reserve[s]
      BY DEF QInv, Ranks
    <2>2. InOrder(q) /\ i \in 1 .. Len(q) /\ j \in 1 .. Len(q)
      BY <2>1 DEF QInv, Waiting
    <2> QED
      BY <2>1, <2>2 DEF InOrder
  <1> QED
    BY <1>1, <1>2, <1>3, PTL DEF Spec

-------------------------------------------------------------------------------
(* The verdict.                                                            *)

\* Two sides cannot both be twice as strong as the other.
LEMMA OneIsWeaker ==
  ASSUME NEW a \in Nat, NEW d \in Nat
  PROVE  ~(HalfOf(a) > d /\ HalfOf(d) > a) /\ ~(HalfOf(0) > a)
  BY DEF HalfOf

\* Which sides are wiped out does not depend on which is settled first.
LEMMA LeftIsSymmetric ==
  ASSUME NEW st \in [Side -> Nat], NEW mo \in [Side -> BOOLEAN], NEW trapped \in BOOLEAN
  PROVE  /\ Left(st, mo, trapped) \in [Side -> Nat]
         /\ \A s \in Side :
               Left(st, mo, trapped)[s]
                 = IF Wiped(mo[s], st[s], st[Enemy(s)], trapped) THEN 0 ELSE st[s]
  <1>. DEFINE A == st["attacker"]
              D == st["defender"]
              d == IF Wiped(mo["defender"], D, A, trapped) THEN 0 ELSE D
              a == IF Wiped(mo["attacker"], A, d, trapped) THEN 0 ELSE A
              b == IF Wiped(mo["attacker"], A, D, trapped) THEN 0 ELSE A
  <1>1. A \in Nat /\ D \in Nat
    BY DEF Side
  <1>2. a = b
    <2>1. CASE Wiped(mo["defender"], D, A, trapped) /\ ~trapped
      <3>1. HalfOf(A) > D /\ d = 0
        BY <2>1 DEF Wiped
      <3>2. ~(HalfOf(D) > A) /\ ~(HalfOf(0) > A)
        BY <1>1, <3>1, OneIsWeaker
      <3> QED
        BY <2>1, <3>1, <3>2 DEF Wiped
    <2>2. CASE ~Wiped(mo["defender"], D, A, trapped)
      BY <2>2
    <2>3. CASE trapped
      BY <2>3 DEF Wiped
    <2> QED
      BY <2>1, <2>2, <2>3
  <1>3. Left(st, mo, trapped) = [s \in Side |-> IF s = "attacker" THEN a ELSE d]
    BY DEF Left
  <1>4. d \in Nat /\ a \in Nat
    BY <1>1
  <1>. HIDE DEF a
  <1>5. Left(st, mo, trapped) \in [Side -> Nat]
    BY <1>3, <1>4
  <1>6. \A s \in Side : Left(st, mo, trapped)[s]
           = IF Wiped(mo[s], st[s], st[Enemy(s)], trapped) THEN 0 ELSE st[s]
    BY <1>2, <1>3 DEF Side, Enemy
  <1> QED
    BY <1>5, <1>6

\* For any strengths, thresholds and answers to the questions the routine asks,
\* exchanging the sides exchanges the verdict, though the routine settles the
\* defender first and asks for the attacker's victory first.
THEOREM VerdictIsSymmetric ==
  ASSUME NEW st \in [Side -> Nat], NEW mo \in [Side -> BOOLEAN], NEW trapped \in BOOLEAN,
         NEW threshold \in Nat, NEW check \in BOOLEAN, NEW canRetreat \in [Side -> BOOLEAN]
  PROVE  Verdict(Swapped(st), Swapped(mo), trapped, threshold, check, Swapped(canRetreat))
           = Opposite(Verdict(st, mo, trapped, threshold, check, canRetreat))
  <1>. DEFINE l == Left(st, mo, trapped)
              m == Left(Swapped(st), Swapped(mo), trapped)
              w(s) == Wins(s, l, threshold, check, canRetreat)
              v(s) == Wins(s, m, threshold, check, Swapped(canRetreat))
  <1>1. /\ \A s \in Side : Enemy(s) \in Side /\ Enemy(Enemy(s)) = s
        /\ Swapped(st) \in [Side -> Nat] /\ Swapped(mo) \in [Side -> BOOLEAN]
        /\ \A s \in Side : /\ Swapped(st)[s] = st[Enemy(s)]
                            /\ Swapped(mo)[s] = mo[Enemy(s)]
                            /\ Swapped(canRetreat)[s] = canRetreat[Enemy(s)]
    BY DEF Side, Enemy, Swapped
  <1>2. /\ l \in [Side -> Nat]
        /\ \A s \in Side : l[s] = IF Wiped(mo[s], st[s], st[Enemy(s)], trapped)
                                  THEN 0 ELSE st[s]
    BY LeftIsSymmetric
  <1>3. /\ m \in [Side -> Nat]
        /\ \A s \in Side : m[s] = IF Wiped(Swapped(mo)[s], Swapped(st)[s],
                                           Swapped(st)[Enemy(s)], trapped)
                                  THEN 0 ELSE Swapped(st)[s]
    BY <1>1, LeftIsSymmetric
  <1>. HIDE DEF l, m
  <1>4. \A s \in Side : m[s] = l[Enemy(s)]
    BY <1>1, <1>2, <1>3
  <1>5. \A s \in Side : v(s) <=> w(Enemy(s))
    BY <1>1, <1>4 DEF Wins
  <1>6. ~(w("attacker") /\ w("defender"))
    BY DEF Wins, Enemy
  <1>. HIDE DEF v, w
  <1>7. v("attacker") <=> w("defender")
    BY <1>5 DEF Side, Enemy
  <1>8. v("defender") <=> w("attacker")
    BY <1>5 DEF Side, Enemy
  <1>9. Verdict(st, mo, trapped, threshold, check, canRetreat)
          = IF w("attacker") THEN "attacker" ELSE IF w("defender") THEN "defender" ELSE "none"
    BY DEF Verdict, w, l
  <1>10. Verdict(Swapped(st), Swapped(mo), trapped, threshold, check, Swapped(canRetreat))
          = IF v("attacker") THEN "attacker" ELSE IF v("defender") THEN "defender" ELSE "none"
    BY DEF Verdict, v, m
  <1> QED
    BY <1>6, <1>7, <1>8, <1>9, <1>10 DEF Opposite, Side, Enemy

\* The winner of any verdict is alive and keeps all its men, and a side that is
\* wiped out for it had no operational regiment left.
THEOREM WinnersAreWhole ==
  ASSUME NEW st \in [Side -> Nat], NEW mo \in [Side -> BOOLEAN], NEW trapped \in BOOLEAN,
         NEW threshold \in Nat, NEW check \in BOOLEAN, NEW canRetreat \in [Side -> BOOLEAN],
         NEW s \in Side, s = Verdict(st, mo, trapped, threshold, check, canRetreat)
  PROVE  LET l == Left(st, mo, trapped)
         IN  /\ l[s] > 0 /\ l[s] = st[s] /\ l[Enemy(s)] = 0
             /\ st[Enemy(s)] > 0 => ~mo[Enemy(s)]
  <1>. DEFINE l == Left(st, mo, trapped)
  <1>1. Enemy(s) \in Side
    BY DEF Side, Enemy
  <1>2. /\ l \in [Side -> Nat]
        /\ \A r \in Side : l[r] = IF Wiped(mo[r], st[r], st[Enemy(r)], trapped)
                                  THEN 0 ELSE st[r]
    BY LeftIsSymmetric
  <1>3. Wins(s, l, threshold, check, canRetreat)
    BY DEF Verdict, Side
  <1>. HIDE DEF l
  <1>4. l[s] \in Nat /\ l[s] # 0 /\ l[Enemy(s)] = 0
    BY <1>2, <1>3 DEF Wins
  <1>5. l[s] > 0 /\ l[s] = st[s]
    BY <1>2, <1>4
  <1>6. st[Enemy(s)] > 0 => ~mo[Enemy(s)]
    BY <1>1, <1>2, <1>4 DEF Wiped
  <1> QED
    BY <1>4, <1>5, <1>6 DEF l

-------------------------------------------------------------------------------
(* The verdict on a battle. *)

LEMMA OwnRegiments ==
  ASSUME NEW s \in Side
  PROVE  /\ Of(s) \in SUBSET Unit /\ IsFiniteSet(Of(s))
         /\ Present(s) \in SUBSET Unit /\ IsFiniteSet(Present(s))
  <1>1. Of(s) \in SUBSET Unit /\ Present(s) \in SUBSET Unit
    BY DEF Of, Present
  <1> QED
    BY <1>1, FS_Subset, LandBattleAssumption DEF LandBattleAssumption

\* What the verdict is given are numbers of men and answers.
LEMMA TroopsAreCounted ==
  ASSUME Ranks
  PROVE  Troops \in [Side -> Nat] /\ Stands \in [Side -> BOOLEAN]
  <1>1. ASSUME NEW s \in Side PROVE Troops[s] \in Nat
    <2>. DEFINE U == Present(s)
                land == [u \in Unit |-> TRUE]
                f == [u \in U |-> IF land[u] THEN strength[u] ELSE Men[u]]
    <2>1. U \in SUBSET Unit /\ IsFiniteSet(U)
      BY OwnRegiments
    <2>2. \A u \in U : f[u] \in Nat
      BY <2>1, LandBattleAssumption DEF Ranks, LandBattleAssumption
    <2>3. Troops[s] = SumFunctionOnSet(f, U)
      BY DEF Troops, EffectiveStrength, Total
    <2>. HIDE DEF U, f
    <2> QED
      BY <2>1, <2>2, <2>3, SumOfNaturals
  <1>2. Troops = [s \in Side |-> Troops[s]]
    BY DEF Troops
  <1>3. Stands \in [Side -> BOOLEAN]
    BY DEF Stands
  <1> QED
    BY <1>1, <1>2, <1>3

\* In every battle that can be fought, whatever is left of the two sides at dusk and
\* whatever the routine is asked, exchanging the sides exchanges the verdict.
THEOREM SidesAreTreatedAlike == Spec => []RolesDoNotMatter
  <1>1. Init => QInv
    BY InitReserves
  <1>2. QInv /\ [Next]_battle => QInv'
    BY NextReserves
  <1>3. QInv => RolesDoNotMatter
    <2>. SUFFICES ASSUME QInv,
                         NEW threshold \in Thresholds,
                         NEW check \in BOOLEAN, NEW pocket \in BOOLEAN,
                         NEW canRetreat \in [Side -> BOOLEAN]
                  PROVE  Verdict(Swapped(Troops), Swapped(Stands), pocket, threshold,
                                 check, Swapped(canRetreat))
                           = Opposite(Verdict(Troops, Stands, pocket, threshold, check,
                                              canRetreat))
      BY DEF RolesDoNotMatter
    <2>1. threshold \in Nat
      BY LandBattleAssumption DEF LandBattleAssumption
    <2>2. Troops \in [Side -> Nat] /\ Stands \in [Side -> BOOLEAN]
      BY TroopsAreCounted DEF QInv
    <2> QED
      BY <2>1, <2>2, VerdictIsSymmetric
  <1> QED
    BY <1>1, <1>2, <1>3, PTL DEF Spec

LEMMA NextVerdict == QInv /\ OnlyBrokenSidesFall /\ [Next]_battle => OnlyBrokenSidesFall'
  <1>. SUFFICES ASSUME QInv, OnlyBrokenSidesFall, [Next]_battle, phase' = "over"
                PROVE  OnlyBrokenSidesFall'
    BY DEF OnlyBrokenSidesFall
  <1>1. ASSUME UNCHANGED <<place, strength, org>>
        PROVE  Troops' = Troops /\ Stands' = Stands
    BY <1>1 DEF Troops, Stands, EffectiveStrength, Present, Operational
  <1>2. CASE UNCHANGED battle
    <2>1. UNCHANGED <<place, strength, org, phase, winner, left>>
      BY <1>2 DEF battle
    <2>2. Troops' = Troops /\ Stands' = Stands
      BY <2>1, <1>1
    <2> QED
      BY <2>1, <2>2 DEF OnlyBrokenSidesFall
  <1>3. CASE Judge
    <2>1. UNCHANGED <<place, strength, org>>
      BY <1>3 DEF Judge
    <2>2. Troops' = Troops /\ Stands' = Stands
      BY <2>1, <1>1
    <2>3. PICK threshold \in Thresholds, check \in BOOLEAN, pocket \in BOOLEAN,
               debugPause \in BOOLEAN, canRetreat \in [Side -> BOOLEAN] :
            LET w == IF debugPause THEN "none"
                     ELSE Verdict(Troops, Stands, pocket, threshold, check, canRetreat)
            IN  /\ winner' = w
                /\ left' = IF w = "none" THEN left ELSE Left(Troops, Stands, pocket)
                /\ phase' = IF w # "none" THEN "over"
                            ELSE IF day = MaxDay THEN "night" ELSE "deploy"
      BY <1>3 DEF Judge
    <2>. DEFINE w == Verdict(Troops, Stands, pocket, threshold, check, canRetreat)
    <2>4. w # "none" /\ winner' = w /\ left' = Left(Troops, Stands, pocket)
      BY <2>3
    <2>5. w \in Side
      BY <2>4 DEF Verdict, Side
    <2>6. Troops \in [Side -> Nat] /\ Stands \in [Side -> BOOLEAN] /\ threshold \in Nat
      BY TroopsAreCounted, LandBattleAssumption DEF QInv, LandBattleAssumption
    <2>7. PICK s \in Side : s = w
      BY <2>5
    <2>8. /\ Left(Troops, Stands, pocket)[s] > 0
          /\ Left(Troops, Stands, pocket)[s] = Troops[s]
          /\ Left(Troops, Stands, pocket)[Enemy(s)] = 0
          /\ Troops[Enemy(s)] > 0 => ~Stands[Enemy(s)]
      BY <2>6, <2>7, WinnersAreWhole
    <2>9. winner' = s
      BY <2>4, <2>7
    <2>. HIDE DEF w
    <2> QED
      BY <2>2, <2>4, <2>8, <2>9 DEF OnlyBrokenSidesFall
  <1>4. CASE Next /\ ~Judge
    <2>1. phase # "over"
      BY <1>4 DEF Next, Arrive, Rout, Attack, Deploy, CommitTotal, CommitByType,
                  StartDay, EndFire
    <2>2. phase' \in {phase, "fire", "commit"}
      BY <1>4 DEF Next, Arrive, Rout, Attack, Deploy, CommitTotal, CommitByType,
                  StartDay, EndFire
    <2> QED
      BY <2>1, <2>2
  <1> QED
    BY <1>2, <1>3, <1>4

\* No battle ends with a dead winner, with a winner that the verdict robbed of men, or
\* with the loss of a side that could still fight.
THEOREM LosersAreBroken == Spec => []OnlyBrokenSidesFall
  <1>1. Init => QInv /\ OnlyBrokenSidesFall
    <2>1. Init => OnlyBrokenSidesFall
      BY DEF Init, OnlyBrokenSidesFall
    <2> QED
      BY <2>1, InitReserves
  <1>2. QInv /\ OnlyBrokenSidesFall /\ [Next]_battle => (QInv /\ OnlyBrokenSidesFall)'
    BY NextReserves, NextVerdict
  <1> QED
    BY <1>1, <1>2, PTL DEF Spec

-------------------------------------------------------------------------------
(* The damage of a day. *)

\* The two choices of a target are choices from a set of regiments and its columns.
AnyOf(U) == CHOOSE v \in U : TRUE
Leftmost(U, at) == CHOOSE v \in U : \A w \in U : at[v] <= at[w]

LEMMA FirstIsChosen ==
  \A u, row, reach :
     FirstOf(u, row, reach)
       = IF InReach(u, row, 0) # {} THEN AnyOf(InReach(u, row, 0))
         ELSE IF InReach(u, row, reach) # {}
              THEN Leftmost(InReach(u, row, reach), column)
         ELSE Nobody
  BY Zenon DEF FirstOf, AnyOf, Leftmost

\* Where everybody stands and what they have, nobody chooses another target.
LEMMA TargetsStay ==
  ASSUME UNCHANGED <<place, column, strength, org>>, NEW u
  PROVE  FindTarget(u)' = FindTarget(u)
  <1>1. ASSUME NEW row, NEW near PROVE InReach(u, row, near)' = InReach(u, row, near)
    BY DEF InReach, Operational
  <1>2. ASSUME NEW row, NEW reach PROVE FirstOf(u, row, reach)' = FirstOf(u, row, reach)
    <2>1. FirstOf(u, row, reach)'
            = IF InReach(u, row, 0)' # {} THEN AnyOf(InReach(u, row, 0)')
              ELSE IF InReach(u, row, reach)' # {}
                   THEN Leftmost(InReach(u, row, reach)', column')
              ELSE Nobody
      BY Zenon DEF FirstOf, AnyOf, Leftmost
    <2> QED
      BY <1>1, <2>1, FirstIsChosen
  <1> QED
    BY <1>2 DEF FindTarget

\* With the same dice in the same place, a regiment deals the same damage.
LEMMA DamageStays ==
  ASSUME UNCHANGED <<place, ground, roll, fire>>, NEW u, NEW v, NEW men
  PROVE  Damage(u, v, men)' = Damage(u, v, men)
  <1>1. RawDamage(u, men)' = RawDamage(u, men)
    BY DEF RawDamage
  <1> QED
    BY <1>1 DEF Damage

\* Who has struck v today, and the casualties each inflicts with the men of the dawn.
Attackers(v) == {u \in fired \ ground.inactive : FindTarget(u) = v}
Volley(v) == [u \in Attackers(v) |-> Damage(u, v, dawn[u]).casualties]

\* From the dice to the first commit.
Fresh == phase = "fire" \/ (phase = "commit" /\ \A s \in Side : open[s] = Category)

Emptied(u) == \A w \in Word : pending[u][w] = 0

\* The casualties that wait are those of the volleys so far, fired with the men of the
\* dawn; a regiment that is settled, and every regiment outside the hours of the
\* attack and the commit, has nothing waiting.
DInv ==
    /\ dawn \in [Unit -> Nat] /\ open \in [Side -> SUBSET Category]
    /\ fired \in SUBSET Unit
    /\ phase \notin {"fire", "commit"} => fired = {} /\ \A u \in Unit : Emptied(u)
    /\ phase = "commit" => \A u \in Unit : Settled(u) => Emptied(u)
    /\ phase = "fire" => strength = dawn
    /\ Fresh => \A v \in Unit :
                   pending[v][CasualtyWord] = Total(Volley(v), Attackers(v))

LEMMA VolleyStays ==
  ASSUME UNCHANGED <<place, column, strength, org, ground, roll, fire, fired, dawn>>,
         NEW v
  PROVE  Attackers(v)' = Attackers(v) /\ Volley(v)' = Volley(v)
  <1>1. ASSUME NEW u PROVE FindTarget(u)' = FindTarget(u)
    BY TargetsStay
  <1>2. Attackers(v)' = Attackers(v)
    BY <1>1 DEF Attackers
  <1>3. ASSUME NEW u, NEW men PROVE Damage(u, v, men)' = Damage(u, v, men)
    BY DamageStays
  <1> QED
    BY <1>2, <1>3 DEF Volley

\* A regiment that has attacked is counted from then on, and no other volley changes.
LEMMA AttackVolley ==
  ASSUME Ranks, DInv, NEW u \in Unit, Attack(u)
  PROVE  DInv'
  <1>1. /\ phase = "fire" /\ phase' = "fire" /\ u \in Unit \ fired
        /\ fired' = fired \cup {u}
        /\ UNCHANGED <<place, column, org, ground, roll, fire, dawn, open>>
    BY DEF Attack
  <1>. PICK v : v = FindTarget(u)
    OBVIOUS
  <1>. DEFINE C == CasualtyWord
              d == Damage(u, v, strength[u])
              idle == u \in ground.inactive \/ v = Nobody
  <1>2. C \in Word
    BY WordFacts
  <1>3. strength = dawn /\ Fresh /\ fired \in SUBSET Unit /\ IsFiniteSet(fired)
    BY <1>1, FS_Subset, LandBattleAssumption DEF DInv, Fresh, LandBattleAssumption
  <1>4. idle => UNCHANGED <<strength, pending, dealt>>
    BY DEF Attack
  <1>5. ~idle => Strike(v, d)
    BY DEF Attack
  <1>6. ~idle => v \in Unit /\ d \in [casualties : Nat, loss : Nat]
    <2>1. ~idle => v \in Unit
      BY TargetStands
    <2>2. v \in Unit => d \in [casualties : Nat, loss : Nat]
      BY DamageIsNatural DEF Ranks
    <2> QED
      BY <2>1, <2>2
  <1>. HIDE DEF d
  <1>7. ~idle => /\ strength' = strength
                 /\ \A x \in Unit : x # v => pending'[x] = pending[x]
                 /\ pending'[v][C] = pending[v][C] + d.casualties
    BY <1>5, <1>6, StrikeFacts DEF Ranks
  <1>8. strength' = strength
    BY <1>4, <1>7
  <1>9. ASSUME NEW x PROVE FindTarget(x)' = FindTarget(x)
    BY <1>1, <1>8, TargetsStay
  <1>10. ASSUME NEW x \in Unit, ~(~idle /\ x = v)
         PROVE  Attackers(x)' = Attackers(x) /\ pending'[x][C] = pending[x][C]
    <2>1. u \in ground.inactive \/ FindTarget(u) # x
      BY <1>10, LandBattleAssumption DEF LandBattleAssumption
    <2>2. Attackers(x)' = Attackers(x)
      BY <1>1, <1>9, <2>1 DEF Attackers
    <2> QED
      BY <1>4, <1>7, <1>10, <2>2
  <1>11. ASSUME ~idle PROVE Attackers(v)' = Attackers(v) \cup {u} /\ u \notin Attackers(v)
    BY <1>1, <1>9, <1>11 DEF Attackers
  <1>12. ASSUME NEW x, NEW y, NEW men PROVE Damage(y, x, men)' = Damage(y, x, men)
    BY <1>1, DamageStays
  <1>13. ASSUME NEW x \in Unit
         PROVE  /\ IsFiniteSet(Attackers(x))
                /\ \A y \in Attackers(x) : Volley(x)[y] \in Nat /\ Volley(x)'[y] = Volley(x)[y]
    <2>1. Attackers(x) \in SUBSET fired /\ Attackers(x) \subseteq Attackers(x)'
      BY <1>1, <1>9 DEF Attackers
    <2>2. ASSUME NEW y \in Attackers(x)
          PROVE  Volley(x)[y] \in Nat /\ Volley(x)'[y] = Volley(x)[y]
      <3>1. y \in Unit /\ dawn[y] \in Nat
        BY <1>3, <2>1 DEF DInv
      <3>2. Damage(y, x, dawn[y]) \in [casualties : Nat, loss : Nat]
        BY <3>1, DamageIsNatural DEF Ranks
      <3>3. Damage(y, x, dawn[y])' = Damage(y, x, dawn[y])
        BY <1>1, <1>12
      <3>4. /\ Volley(x)[y] = Damage(y, x, dawn[y]).casualties
            /\ Volley(x)'[y] = (Damage(y, x, dawn[y]).casualties)'
        BY <2>1 DEF Volley
      <3> QED
        BY <1>1, <1>12, <3>2, <3>3, <3>4
    <2> QED
      BY <1>3, <2>1, <2>2, FS_Subset
  <1>14. ASSUME NEW x \in Unit
         PROVE  pending'[x][C] = Total(Volley(x)', Attackers(x)')
    <2>1. pending[x][C] = Total(Volley(x), Attackers(x))
      BY <1>3 DEF DInv
    <2>2. CASE ~(~idle /\ x = v)
      <3>1. Attackers(x)' = Attackers(x) /\ pending'[x][C] = pending[x][C]
        BY <1>10, <2>2
      <3>2. Total(Volley(x)', Attackers(x)) = Total(Volley(x), Attackers(x))
        BY <1>13, SumSame DEF Total
      <3> QED
        BY <2>1, <3>1, <3>2
    <2>3. CASE ~idle /\ x = v
      <3>1. Attackers(x)' = Attackers(x) \cup {u} /\ u \notin Attackers(x)
        BY <1>11, <2>3
      <3>2. Volley(x)'[u] = d.casualties
        <4>1. Volley(x)'[u] = (Damage(u, x, dawn[u]).casualties)'
          BY <3>1 DEF Volley
        <4>2. dawn'[u] = strength[u] /\ x = v
          BY <1>1, <1>3, <2>3
        <4> QED
          BY <1>1, <1>12, <4>1, <4>2 DEF d
      <3>3. d.casualties \in Nat
        BY <1>6, <2>3
      <3>4. \A y \in Attackers(x) \cup {u} : Volley(x)'[y] \in Int
        BY <1>13, <3>2, <3>3
      <3>5. SumFunctionOnSet(Volley(x)', Attackers(x) \cup {u})
              = Volley(x)'[u] + SumFunctionOnSet(Volley(x)', Attackers(x))
        BY <1>13, <3>1, <3>4, SumOfOneMore
      <3>6. SumFunctionOnSet(Volley(x)', Attackers(x)) = SumFunctionOnSet(Volley(x), Attackers(x))
        BY <1>13, SumSame
      <3>7. pending'[x][C] = pending[x][C] + d.casualties /\ pending[x][C] \in Nat
        BY <1>2, <1>7, <2>3 DEF Ranks
      <3> QED
        BY <2>1, <3>1, <3>2, <3>3, <3>5, <3>6, <3>7 DEF Total
    <2> QED
      BY <2>2, <2>3
  <1>15. dawn' \in [Unit -> Nat] /\ open' \in [Side -> SUBSET Category] /\ fired' \in SUBSET Unit
    BY <1>1 DEF DInv
  <1> QED
    BY <1>1, <1>3, <1>8, <1>14, <1>15 DEF DInv

\* Some regiments of a side are settled: nothing waits for them any more.
LEMMA CommitVolley ==
  ASSUME QInv, DInv, phase = "commit", NEW s \in Side, NEW U \in SUBSET Of(s),
         pending' = Cleared(U), UNCHANGED <<phase, fired, dawn>>,
         open' \in [Side -> SUBSET Category],
         (\A t \in Side : open'[t] = Category) => Unit = {},
         \A u \in Unit \ U : Settled(u)' => Settled(u)
  PROVE  DInv'
  <1>1. U \subseteq Unit
    BY DEF Of
  <1>2. ASSUME NEW u \in Unit, Settled(u)' PROVE Emptied(u)'
    <2>1. CASE u \in U
      BY <1>1, <2>1 DEF Emptied, Cleared
    <2>2. CASE u \notin U
      <3>1. Emptied(u)
        BY <1>2, <2>2 DEF DInv
      <3>2. pending'[u] = pending[u]
        BY <2>2 DEF Cleared
      <3> QED
        BY <3>1, <3>2 DEF Emptied
    <2> QED
      BY <2>1, <2>2
  <1>3. Fresh' => Unit = {}
    BY DEF Fresh
  <1> QED
    BY <1>2, <1>3 DEF DInv

LEMMA CommitTotalVolley ==
  ASSUME QInv, DInv, NEW s \in Side, CommitTotal(s)
  PROVE  DInv'
  <1>1. /\ phase = "commit" /\ open[s] = Category /\ pending' = Cleared(Of(s))
        /\ open' = [open EXCEPT ![s] = {}] /\ UNCHANGED <<phase, fired, dawn>>
    BY DEF CommitTotal, Commit
  <1>2. open \in [Side -> SUBSET Category]
    BY DEF DInv
  <1>3. open' \in [Side -> SUBSET Category] /\ open'[s] = {}
    BY <1>1, <1>2
  <1>4. (\A t \in Side : open'[t] = Category) => Unit = {}
    BY <1>3 DEF Category
  <1>5. \A u \in Unit \ Of(s) : Settled(u)' => Settled(u)
    <2>1. \A u \in Unit \ Of(s) : SideOf[u] # s /\ SideOf[u] \in Side
      BY LandBattleAssumption DEF LandBattleAssumption, Of
    <2> QED
      BY <1>1, <1>2, <2>1 DEF Settled
  <1> QED
    BY <1>1, <1>3, <1>4, <1>5, CommitVolley

LEMMA CommitByTypeVolley ==
  ASSUME QInv, DInv, NEW s \in Side, NEW c \in Category, CommitByType(s, c)
  PROVE  DInv'
  <1>. DEFINE U == {u \in Of(s) : Type[u].category = c}
  <1>1. /\ phase = "commit" /\ c \in open[s] /\ pending' = Cleared(U)
        /\ open' = [open EXCEPT ![s] = @ \ {c}] /\ UNCHANGED <<phase, fired, dawn>>
    BY DEF CommitByType, Commit
  <1>2. open \in [Side -> SUBSET Category]
    BY DEF DInv
  <1>3. open' \in [Side -> SUBSET Category] /\ c \notin open'[s]
    BY <1>1, <1>2
  <1>4. (\A t \in Side : open'[t] = Category) => Unit = {}
    BY <1>3
  <1>5. \A u \in Unit \ U : Settled(u)' => Settled(u)
    <2>1. \A u \in Unit \ U : /\ SideOf[u] \in Side
                              /\ SideOf[u] # s \/ Type[u].category # c
      BY LandBattleAssumption DEF LandBattleAssumption, Of
    <2>. HIDE DEF U
    <2> QED
      BY <1>1, <1>2, <2>1 DEF Settled
  <1>6. U \in SUBSET Of(s)
    OBVIOUS
  <1>. HIDE DEF U
  <1> QED
    BY <1>1, <1>3, <1>4, <1>5, <1>6, CommitVolley

\* The other steps.
LEMMA OtherVolleys ==
  ASSUME QInv, DInv,
         \/ \E u \in Unit : Arrive(u) \/ Rout(u)
         \/ \E s \in Side : Deploy(s)
         \/ StartDay \/ EndFire \/ Judge \/ UNCHANGED battle
  PROVE  DInv'
  <1>1. CASE \/ \E u \in Unit : Arrive(u) \/ Rout(u)
             \/ \E s \in Side : Deploy(s)
    <2>1. phase = "deploy" /\ UNCHANGED <<phase, strength, dawn, open, fired, pending>>
      BY <1>1 DEF Arrive, Rout, Deploy
    <2> QED
      BY <2>1 DEF DInv, Fresh, Emptied
  <1>2. CASE StartDay
    <2>1. /\ phase = "deploy" /\ phase' = "fire" /\ dawn' = strength
          /\ UNCHANGED <<strength, open, fired, pending>>
      BY <1>2 DEF StartDay
    <2>2. fired = {} /\ \A u \in Unit : Emptied(u)
      BY <2>1 DEF DInv
    <2>3. ASSUME NEW v \in Unit
          PROVE  pending'[v][CasualtyWord] = Total(Volley(v)', Attackers(v)')
      <3>1. Attackers(v)' = {}
        BY <2>1, <2>2 DEF Attackers
      <3>2. Total(Volley(v)', {}) = 0
        BY SumOfNone DEF Total
      <3> QED
        BY <2>1, <2>2, <3>1, <3>2, WordFacts DEF Emptied
    <2>4. dawn' \in [Unit -> Nat]
      BY <2>1 DEF QInv, Ranks
    <2> QED
      BY <2>1, <2>3, <2>4 DEF DInv
  <1>3. CASE EndFire
    <2>1. /\ phase = "fire" /\ phase' = "commit" /\ open' = [s \in Side |-> Category]
          /\ UNCHANGED <<place, column, strength, org, ground, roll, fire, fired, dawn,
                         pending>>
      BY <1>3 DEF EndFire
    <2>2. ASSUME NEW u \in Unit PROVE ~Settled(u)'
      BY <2>1, LandBattleAssumption DEF LandBattleAssumption, Settled, Category
    <2>3. ASSUME NEW v PROVE Attackers(v)' = Attackers(v) /\ Volley(v)' = Volley(v)
      BY <2>1, VolleyStays
    <2>4. \A v \in Unit : pending[v][CasualtyWord] = Total(Volley(v), Attackers(v))
      BY <2>1 DEF DInv, Fresh
    <2>5. \A v \in Unit : pending'[v][CasualtyWord] = Total(Volley(v)', Attackers(v)')
      BY <2>1, <2>3, <2>4
    <2> QED
      BY <2>1, <2>2, <2>5 DEF DInv
  <1>4. CASE Judge
    <2>1. /\ phase = "commit" /\ \A s \in Side : open[s] = {}
          /\ fired' = {} /\ UNCHANGED <<dawn, open, pending>>
      BY <1>4 DEF Judge
    <2>2. phase' \in {"over", "night", "deploy"}
      BY <1>4 DEF Judge
    <2>3. ASSUME NEW u \in Unit PROVE Emptied(u)'
      <3>1. Settled(u)
        BY <2>1, LandBattleAssumption DEF LandBattleAssumption, Settled
      <3> QED
        BY <2>1, <3>1 DEF DInv, Emptied
    <2> QED
      BY <2>1, <2>2, <2>3 DEF DInv, Fresh
  <1>5. CASE UNCHANGED battle
    <2>1. UNCHANGED <<place, column, strength, org, ground, roll, fire, fired, dawn,
                      pending, open, phase>>
      BY <1>5 DEF battle
    <2>2. ASSUME NEW v PROVE Attackers(v)' = Attackers(v) /\ Volley(v)' = Volley(v)
      BY <2>1, VolleyStays
    <2> QED
      BY <2>1, <2>2 DEF DInv, Fresh, Emptied, Settled
  <1> QED
    BY <1>1, <1>2, <1>3, <1>4, <1>5

LEMMA NextVolley == QInv /\ DInv /\ [Next]_battle => DInv'
  <1>. SUFFICES ASSUME QInv, DInv, [Next]_battle PROVE DInv'
    OBVIOUS
  <1>1. ASSUME NEW u \in Unit, Attack(u) PROVE DInv'
    BY <1>1, AttackVolley DEF QInv
  <1>2. ASSUME NEW s \in Side, CommitTotal(s) PROVE DInv'
    BY <1>2, CommitTotalVolley
  <1>3. ASSUME NEW s \in Side, NEW c \in Category, CommitByType(s, c) PROVE DInv'
    BY <1>3, CommitByTypeVolley
  <1>4. ASSUME \/ \E u \in Unit : Arrive(u) \/ Rout(u)
               \/ \E s \in Side : Deploy(s)
               \/ StartDay \/ EndFire \/ Judge \/ UNCHANGED battle
        PROVE  DInv'
    BY <1>4, OtherVolleys
  <1> QED
    BY <1>1, <1>2, <1>3, <1>4 DEF Next

LEMMA InitVolley == Init => DInv
  <1>. SUFFICES ASSUME Init PROVE DInv
    OBVIOUS
  <1>1. phase = "deploy" /\ fired = {} /\ dawn = Men /\ open = [s \in Side |-> {}]
        /\ pending = [u \in Unit |-> [w \in Word |-> 0]]
    BY DEF Init
  <1> QED
    BY <1>1, LandBattleAssumption DEF LandBattleAssumption, DInv, Fresh, Emptied

\* Whatever the regiments, the dice and the order in which they attack, at dusk every
\* regiment has the casualties its attackers inflict with the men they had at dawn: no
\* shot of the day weakens a later one.
THEOREM VolleysAreSimultaneous == Spec => []FireIsSimultaneous
  <1>1. Init => QInv /\ DInv
    BY InitReserves, InitVolley
  <1>2. QInv /\ DInv /\ [Next]_battle => (QInv /\ DInv)'
    BY NextReserves, NextVolley
  <1>3. QInv /\ DInv => FireIsSimultaneous
    BY DEF DInv, Fresh, FireIsSimultaneous, Volley, Attackers
  <1> QED
    BY <1>1, <1>2, <1>3, PTL DEF Spec

-------------------------------------------------------------------------------
(* The bill of a day. *)

\* The regiments of s that are settled, and what they have lost.
Paid(s) == {u \in Of(s) : Settled(u)}
Charge(s) == [u \in Paid(s) |-> Toll(u)]

\* A side has been billed for the regiments that are settled.
BInv == bill \in [Side -> Int] /\ \A s \in Side : bill[s] = Total(Charge(s), Paid(s))

LEMMA NobodyPaid ==
  ASSUME NEW s \in Side, Paid(s) = {}
  PROVE  Total(Charge(s), Paid(s)) = 0
  BY SumOfNone DEF Total

\* A commit of some regiments of a side bills it for these.
LEMMA CommitBills ==
  ASSUME CasualtyWord = PendingCasualties, IInv, BInv, phase = "commit",
         NEW s \in Side, NEW U \in SUBSET Of(s), Commit(s, U),
         UNCHANGED <<phase, dawn, dealt>>,
         \A u \in U : ~Settled(u) /\ Settled(u)',
         \A u \in Unit \ U : Settled(u)' <=> Settled(u)
  PROVE  BInv'
  <1>. DEFINE men == [u \in U |-> Lost(u, PendingCasualties, strength[u])]
              old == Paid(s)
  <1>1. /\ Figures /\ \A u \in Unit : Account(u)
        /\ U \subseteq Unit /\ bill \in [Side -> Int]
    BY DEF IInv, BInv, Of
  <1>2. bill' = [bill EXCEPT ![s] = @ + Total(men, U)]
    BY DEF Commit
  <1>3. ASSUME NEW u \in Unit PROVE Toll(u)' = Toll(u) /\ Toll(u) \in Int
    BY <1>1 DEF Toll, AtMost, Figures
  <1>4. ASSUME NEW u \in U PROVE men[u] = Toll(u)
    <2>1. pending[u][CasualtyWord] = dealt[u] /\ strength[u] = dawn[u]
          /\ dealt[u] \in Nat /\ dawn[u] \in Nat
      BY <1>1 DEF Account, Figures
    <2> QED
      BY <2>1 DEF Lost, Toll, AtMost, AtLeast
  <1>5. IsFiniteSet(old) /\ IsFiniteSet(U) /\ old \in SUBSET Unit
    <2>1. old \in SUBSET Unit
      BY DEF Paid, Of
    <2> QED
      BY <1>1, <2>1, FS_Subset, LandBattleAssumption DEF LandBattleAssumption
  <1>6. Paid(s)' = old \cup U /\ old \cap U = {}
    BY DEF Paid, Of
  <1>7. Total(Charge(s)', Paid(s)') = Total(Charge(s), old) + Total(men, U)
    <2>. DEFINE f == Charge(s)'
    <2>1. \A u \in old \cup U : f[u] = Toll(u) /\ f[u] \in Int
      BY <1>1, <1>3, <1>5, <1>6 DEF Charge
    <2>2. \A u \in old : f[u] = Charge(s)[u]
      BY <2>1 DEF Charge
    <2>3. \A u \in U : f[u] = men[u]
      BY <1>4, <2>1
    <2>. HIDE DEF f, men, old
    <2>4. SumFunctionOnSet(f, old \cup U) = SumFunctionOnSet(f, old) + SumFunctionOnSet(f, U)
      BY <1>5, <1>6, <2>1, SumOfUnion
    <2>5. SumFunctionOnSet(f, old) = SumFunctionOnSet(Charge(s), old)
      BY <1>5, <2>2, SumSame
    <2>6. SumFunctionOnSet(f, U) = SumFunctionOnSet(men, U)
      BY <1>5, <2>3, SumSame
    <2> QED
      BY <1>6, <2>4, <2>5, <2>6 DEF Total, f
  <1>8. Total(men, U) \in Int
    <2>1. \A u \in U : men[u] \in Int
      BY <1>1, <1>3, <1>4
    <2>. HIDE DEF men
    <2> QED
      BY <1>5, <2>1, SumType DEF Total
  <1>9. ASSUME NEW t \in Side PROVE bill'[t] = Total(Charge(t)', Paid(t)')
    <2>1. bill[t] = Total(Charge(t), Paid(t))
      BY DEF BInv
    <2>2. CASE t = s
      BY <1>1, <1>2, <1>7, <2>1, <2>2
    <2>3. CASE t # s
      <3>1. Paid(t)' = Paid(t)
        BY <2>3 DEF Paid, Of
      <3>2. Charge(t)' = Charge(t)
        BY <1>3, <3>1 DEF Charge, Paid, Of
      <3>3. bill'[t] = bill[t]
        BY <1>1, <1>2, <2>3
      <3> QED
        BY <2>1, <3>1, <3>2, <3>3
    <2> QED
      BY <2>2, <2>3
  <1>10. bill' \in [Side -> Int]
    BY <1>1, <1>2, <1>8
  <1> QED
    BY <1>9, <1>10 DEF BInv

LEMMA CommitTotalBills ==
  ASSUME CasualtyWord = PendingCasualties, IInv, BInv, NEW s \in Side, CommitTotal(s)
  PROVE  BInv'
  <1>1. /\ phase = "commit" /\ open[s] = Category /\ Commit(s, Of(s))
        /\ open' = [open EXCEPT ![s] = {}]
        /\ UNCHANGED <<phase, dawn, dealt>>
    BY DEF CommitTotal
  <1>2. open \in [Side -> SUBSET Category]
    BY DEF IInv, Figures
  <1>3. \A u \in Of(s) : ~Settled(u) /\ Settled(u)'
    <2>1. \A u \in Of(s) : SideOf[u] = s /\ Type[u].category \in Category
      BY DEF Of, Category
    <2> QED
      BY <1>1, <1>2, <2>1 DEF Settled
  <1>4. \A u \in Unit \ Of(s) : Settled(u)' <=> Settled(u)
    <2>1. \A u \in Unit \ Of(s) : SideOf[u] # s /\ SideOf[u] \in Side
      BY LandBattleAssumption DEF LandBattleAssumption, Of
    <2> QED
      BY <1>1, <1>2, <2>1 DEF Settled
  <1> QED
    BY <1>1, <1>3, <1>4, CommitBills

LEMMA CommitByTypeBills ==
  ASSUME CasualtyWord = PendingCasualties, IInv, BInv,
         NEW s \in Side, NEW c \in Category, CommitByType(s, c)
  PROVE  BInv'
  <1>. DEFINE U == {u \in Of(s) : Type[u].category = c}
  <1>1. /\ phase = "commit" /\ c \in open[s] /\ Commit(s, U)
        /\ open' = [open EXCEPT ![s] = @ \ {c}]
        /\ UNCHANGED <<phase, dawn, dealt>>
    BY DEF CommitByType
  <1>2. open \in [Side -> SUBSET Category]
    BY DEF IInv, Figures
  <1>3. \A u \in U : SideOf[u] = s /\ Type[u].category = c
    BY DEF Of
  <1>4. \A u \in Unit \ U : SideOf[u] \in Side /\ (SideOf[u] # s \/ Type[u].category # c)
    BY LandBattleAssumption DEF LandBattleAssumption, Of
  <1>5. U \in SUBSET Of(s)
    OBVIOUS
  <1>. HIDE DEF U
  <1>6. \A u \in U : ~Settled(u) /\ Settled(u)'
    BY <1>1, <1>2, <1>3 DEF Settled
  <1>7. \A u \in Unit \ U : Settled(u)' <=> Settled(u)
    BY <1>1, <1>2, <1>4 DEF Settled
  <1> QED
    BY <1>1, <1>5, <1>6, <1>7, CommitBills

LEMMA OtherBills ==
  ASSUME IInv, BInv,
         \/ \E u \in Unit : Arrive(u) \/ Rout(u) \/ Attack(u)
         \/ \E s \in Side : Deploy(s)
         \/ StartDay \/ EndFire \/ Judge \/ UNCHANGED battle
  PROVE  BInv'
  <1>1. CASE UNCHANGED battle
    <2>1. UNCHANGED <<phase, bill, open, dawn, dealt>>
      BY <1>1 DEF battle
    <2>2. \A u : Settled(u)' = Settled(u) /\ Toll(u)' = Toll(u)
      BY <2>1 DEF Settled, Toll
    <2>3. \A s \in Side : Paid(s)' = Paid(s) /\ Charge(s)' = Charge(s)
      BY <2>2 DEF Paid, Charge
    <2> QED
      BY <2>1, <2>3 DEF BInv
  <1>2. CASE ~(UNCHANGED battle)
    <2>1. /\ \/ phase' # "commit"
             \/ phase' = "commit" /\ open' = [s \in Side |-> Category]
          /\ \/ phase # "commit" /\ bill' = bill
             \/ bill' = [s \in Side |-> 0]
      BY <1>2 DEF Arrive, Rout, Attack, Deploy, StartDay, EndFire, Judge
    <2>2. \A u \in Unit : ~Settled(u)'
      BY <2>1, LandBattleAssumption DEF LandBattleAssumption, Settled, Category
    <2>3. ASSUME NEW s \in Side PROVE bill'[s] = Total(Charge(s)', Paid(s)')
      <3>1. Paid(s)' = {}
        BY <2>2 DEF Paid, Of
      <3>2. Total(Charge(s)', {}) = 0
        BY SumOfNone DEF Total
      <3>3. phase # "commit" => bill[s] = 0
        <4>1. phase # "commit" => Paid(s) = {}
          BY DEF Paid, Settled
        <4> QED
          BY <4>1, NobodyPaid DEF BInv
      <3> QED
        BY <2>1, <3>1, <3>2, <3>3
    <2> QED
      BY <2>1, <2>3 DEF BInv
  <1> QED
    BY <1>1, <1>2

LEMMA NextBills ==
  ASSUME CasualtyWord = PendingCasualties
  PROVE  IInv /\ BInv /\ [Next]_battle => BInv'
  <1>. SUFFICES ASSUME IInv, BInv, [Next]_battle PROVE BInv'
    OBVIOUS
  <1>1. ASSUME NEW s \in Side, CommitTotal(s) PROVE BInv'
    BY <1>1, CommitTotalBills
  <1>2. ASSUME NEW s \in Side, NEW c \in Category, CommitByType(s, c) PROVE BInv'
    BY <1>2, CommitByTypeBills
  <1>3. ASSUME \/ \E u \in Unit : Arrive(u) \/ Rout(u) \/ Attack(u)
               \/ \E s \in Side : Deploy(s)
               \/ StartDay \/ EndFire \/ Judge \/ UNCHANGED battle
        PROVE  BInv'
    BY <1>3, OtherBills
  <1> QED
    BY <1>1, <1>2, <1>3 DEF Next

LEMMA InitBills == Init => BInv
  <1>. SUFFICES ASSUME Init PROVE BInv
    OBVIOUS
  <1>1. phase = "deploy" /\ bill = [s \in Side |-> 0]
    BY DEF Init
  <1>2. ASSUME NEW s \in Side PROVE bill[s] = Total(Charge(s), Paid(s))
    <2>1. Paid(s) = {}
      BY <1>1 DEF Paid, Settled
    <2> QED
      BY <1>1, <2>1, NobodyPaid
  <1> QED
    BY <1>1, <1>2 DEF BInv

\* Where the attack and the commit mean the same words: committed in total or category
\* by category, in any order, a side is billed for the men each of its regiments lost,
\* once, and no damage waits for another day.
THEOREM LossesAreBilledOnce ==
  ASSUME CasualtyWord = PendingCasualties
  PROVE  Spec => []TheBillIsPaid
  <1>. DEFINE Inv == IInv /\ QInv /\ DInv /\ BInv
  <1>1. Init => Inv
    BY InitInvariant, InitReserves, InitVolley, InitBills
  <1>2. Inv /\ [Next]_battle => Inv'
    BY NextKeeps, NextReserves, NextVolley, NextBills
  <1>3. Inv => TheBillIsPaid
    <2>. SUFFICES ASSUME Inv, Committed, NEW s \in Side
                  PROVE  /\ bill[s] = Total([u \in Of(s) |-> Toll(u)], Of(s))
                         /\ \A u \in Of(s) : \A w \in Word : pending[u][w] = 0
      BY DEF TheBillIsPaid
    <2>1. \A u \in Of(s) : u \in Unit /\ Settled(u)
      BY DEF Of, Settled, Committed
    <2>2. Paid(s) = Of(s)
      BY <2>1 DEF Paid
    <2>3. bill[s] = Total([u \in Of(s) |-> Toll(u)], Of(s))
      BY <2>2 DEF BInv, Charge
    <2>4. \A u \in Of(s) : Emptied(u)
      BY <2>1 DEF DInv, Committed
    <2> QED
      BY <2>3, <2>4 DEF Emptied
  <1>. HIDE DEF Inv
  <1> QED
    BY <1>1, <1>2, <1>3, PTL DEF Spec

-------------------------------------------------------------------------------
(* What a regiment is worth. *)

LEMMA Quotient ==
  ASSUME NEW x \in Int, NEW n \in Int, n > 0
  PROVE  x \div n \in Int /\ n * (x \div n) <= x /\ x < n * (x \div n) + n
  OBVIOUS

LEMMA QuotientKeepsOrder ==
  ASSUME NEW x \in Int, NEW y \in Int, x <= y, NEW n \in Int, n > 0
  PROVE  x \div n <= y \div n
  <1>. DEFINE p == x \div n
              q == y \div n
  <1>1. p \in Int /\ n * p <= x /\ q \in Int /\ y < n * q + n
    BY Quotient
  <1>. HIDE DEF p, q
  <1>2. SUFFICES ASSUME p >= q + 1 PROVE FALSE
    BY <1>1 DEF p, q
  <1>3. n * p >= n * (q + 1)
    BY <1>1, <1>2
  <1>4. n * (q + 1) = n * q + n /\ n * q \in Int /\ n * p \in Int
    BY <1>1
  <1> QED
    BY <1>1, <1>3, <1>4

\* A quotient of a number between two multiples.
LEMMA QuotientBetween ==
  ASSUME NEW x \in Int, NEW n \in Int, n > 0, NEW a \in Int, NEW b \in Int,
         n * a <= x, x <= n * b
  PROVE  x \div n \in a .. b
  <1>. DEFINE p == x \div n
  <1>1. p \in Int /\ n * p <= x /\ x < n * p + n
    BY Quotient
  <1>. HIDE DEF p
  <1>2. p >= a
    <2>. SUFFICES ASSUME p + 1 <= a PROVE FALSE
      BY <1>1
    <2>1. n * (p + 1) <= n * a
      BY <1>1
    <2>2. n * (p + 1) = n * p + n
      BY <1>1
    <2>3. n * p \in Int /\ n * a \in Int
      BY <1>1
    <2> QED
      BY <1>1, <2>1, <2>2, <2>3
  <1>3. p <= b
    <2>. SUFFICES ASSUME p >= b + 1 PROVE FALSE
      BY <1>1
    <2>1. n * p >= n * (b + 1)
      BY <1>1
    <2>2. n * (b + 1) = n * b + n
      OBVIOUS
    <2>3. n * p \in Int /\ n * b \in Int
      BY <1>1
    <2> QED
      BY <1>1, <2>1, <2>2, <2>3
  <1> QED
    BY <1>1, <1>2, <1>3 DEF p

LEMMA NaturalDivision ==
  ASSUME NEW a \in Nat, NEW b \in Nat \ {0}
  PROVE  AllDiv(a, b) = a \div b /\ a \div b \in Nat
  <1>1. a \div b \in Nat
    OBVIOUS
  <1> QED
    BY <1>1 DEF AllDiv, Magnitude

LEMMA PermilleIsQuotient ==
  ASSUME NEW a \in Nat, NEW b \in Nat
  PROVE  Permille(a, b) = (a * b) \div 1000
  <1>. DEFINE x == a * b
  <1>1. x \in Nat
    OBVIOUS
  <1>. HIDE DEF x
  <1>2. AllDiv(x, 1000) = x \div 1000
    BY <1>1, NaturalDivision
  <1> QED
    BY <1>2 DEF Permille, x

LEMMA PermilleKeepsOrder ==
  ASSUME NEW a \in Nat, NEW b \in Nat, a <= b, NEW c \in Nat, NEW d \in Nat, c <= d
  PROVE  Permille(a, c) <= Permille(b, d)
  <1>1. a * c \in Nat /\ b * d \in Nat
    OBVIOUS
  <1>2. a * c <= b * d
    <2>1. a * c <= b * c /\ b * c <= b * d
      OBVIOUS
    <2>2. b * c \in Nat
      OBVIOUS
    <2> QED
      BY <1>1, <2>1, <2>2
  <1>3. (a * c) \div 1000 <= (b * d) \div 1000
    <2>. DEFINE x == a * c
                y == b * d
    <2>. HIDE DEF x, y
    <2>1. x \in Int /\ y \in Int /\ x <= y
      BY <1>1, <1>2 DEF x, y
    <2>2. x \div 1000 <= y \div 1000
      BY <2>1
    <2> QED
      BY <2>2 DEF x, y
  <1>4. Permille(a, c) = (a * c) \div 1000 /\ Permille(b, d) = (b * d) \div 1000
    BY PermilleIsQuotient
  <1> QED
    BY <1>3, <1>4

LEMMA PermilleOfWhole ==
  ASSUME NEW a \in Nat
  PROVE  Permille(a, 1000) = a /\ Permille(1000, a) = a
  <1>1. a * 1000 \in Nat /\ (a * 1000) \div 1000 = a
    OBVIOUS
  <1>2. 1000 * a \in Nat /\ (1000 * a) \div 1000 = a
    OBVIOUS
  <1> QED
    BY <1>1, <1>2, NaturalDivision DEF Permille

LEMMA RatioBetween ==
  ASSUME NEW max \in Nat \ {0}, NEW x \in 0 .. max, NEW y \in 0 .. x
  PROVE  /\ RatioOf(x, max) \in Nat /\ RatioOf(x, max) <= 1000
         /\ RatioOf(y, max) \in Nat /\ RatioOf(y, max) <= 1000
         /\ RatioOf(y, max) <= RatioOf(x, max)
  <1>1. ASSUME NEW z \in 0 .. max
        PROVE  RatioOf(z, max) = (z * 1000) \div max /\ (z * 1000) \div max \in 0 .. 1000
    <2>1. z * 1000 \in Nat /\ max * 0 <= z * 1000 /\ z * 1000 <= max * 1000
      OBVIOUS
    <2>2. RatioOf(z, max) = (z * 1000) \div max
      BY <2>1, NaturalDivision DEF RatioOf
    <2> QED
      BY <2>1, <2>2, QuotientBetween
  <1>2. y * 1000 \in Int /\ x * 1000 \in Int /\ y * 1000 <= x * 1000
    OBVIOUS
  <1>3. (y * 1000) \div max <= (x * 1000) \div max
    BY <1>2, QuotientKeepsOrder
  <1>4. RatioOf(x, max) = (x * 1000) \div max /\ (x * 1000) \div max \in 0 .. 1000
    BY <1>1
  <1>5. RatioOf(y, max) = (y * 1000) \div max /\ (y * 1000) \div max \in 0 .. 1000
    <2>1. y \in 0 .. max
      OBVIOUS
    <2> QED
      BY <1>1, <2>1
  <1>. DEFINE p == (x * 1000) \div max
              q == (y * 1000) \div max
  <1>6. p \in 0 .. 1000 /\ q \in 0 .. 1000 /\ q <= p /\ RatioOf(x, max) = p /\ RatioOf(y, max) = q
    BY <1>3, <1>4, <1>5
  <1>. HIDE DEF p, q
  <1> QED
    BY <1>6

\* The power of a regiment falls with its men and its organization, and never exceeds
\* what its men alone are worth.
LEMMA PowerFalls ==
  ASSUME NEW rating \in Nat, NEW max \in Nat \ {0}, NEW maxOrg \in Nat \ {0},
         NEW s \in 0 .. max, NEW r \in 0 .. s, NEW o \in 0 .. maxOrg, NEW p \in 0 .. o
  PROVE  /\ FullPower(rating, r, max, p, maxOrg, 0, FALSE)
              <= FullPower(rating, s, max, o, maxOrg, 0, FALSE)
         /\ FullPower(rating, s, max, o, maxOrg, 0, FALSE) \in Nat
         /\ EffectivePower(rating, s, max) \in Nat
         /\ FullPower(rating, s, max, o, maxOrg, 0, FALSE) <= EffectivePower(rating, s, max)
  <1>. DEFINE health(m) == Permille(RatioOf(m, max), rating)
              morale(m, q) == Permille(RatioOf(q, maxOrg), health(m))
              half(x) == AllDiv(x * 1000, 2000)
  <1>1. ASSUME NEW m \in 0 .. max, NEW q \in 0 .. maxOrg
        PROVE  /\ health(m) \in Nat /\ morale(m, q) \in Nat /\ morale(m, q) <= health(m)
               /\ FullPower(rating, m, max, q, maxOrg, 0, FALSE)
                    = IF IsOperational(m, q) THEN morale(m, q) ELSE half(morale(m, q))
               /\ EffectivePower(rating, m, max) = health(m)
    <2>1. /\ RatioOf(m, max) \in Nat
          /\ RatioOf(q, maxOrg) \in Nat /\ RatioOf(q, maxOrg) <= 1000
      <3>1. m \in 0 .. m /\ q \in 0 .. q
        OBVIOUS
      <3> QED
        BY <3>1, RatioBetween
    <2>2. health(m) \in Nat
      BY <2>1, ProductOfNaturals
    <2>. HIDE DEF health
    <2>3. morale(m, q) \in Nat
      BY <2>1, <2>2, ProductOfNaturals
    <2>4. morale(m, q) <= health(m)
      <3>1. Permille(RatioOf(q, maxOrg), health(m)) <= Permille(1000, health(m))
        BY <2>1, <2>2, PermilleKeepsOrder
      <3> QED
        BY <2>2, <3>1, PermilleOfWhole
    <2>. HIDE DEF morale
    <2>5. Permille(morale(m, q), 1000 + Permille(0, 10)) = morale(m, q)
      <3>1. Permille(0, 10) = 0
        BY DEF Permille, AllDiv, Magnitude
      <3>2. 1000 + Permille(0, 10) = 1000
        BY <3>1
      <3>3. Permille(morale(m, q), 1000) = morale(m, q)
        BY <2>3, PermilleOfWhole
      <3> QED
        BY <3>2, <3>3
    <2>6. FullPower(rating, m, max, q, maxOrg, 0, FALSE)
            = IF IsOperational(m, q) THEN morale(m, q) ELSE half(morale(m, q))
      BY <2>5 DEF FullPower, morale, health
    <2> QED
      BY <2>2, <2>3, <2>4, <2>6 DEF EffectivePower, health
  <1>2. r \in 0 .. max /\ p \in 0 .. maxOrg
    OBVIOUS
  <1>3. morale(r, p) <= morale(s, o)
    <2>1. /\ RatioOf(r, max) \in Nat /\ RatioOf(s, max) \in Nat
          /\ RatioOf(r, max) <= RatioOf(s, max)
      BY RatioBetween
    <2>2. /\ RatioOf(p, maxOrg) \in Nat /\ RatioOf(o, maxOrg) \in Nat
          /\ RatioOf(p, maxOrg) <= RatioOf(o, maxOrg)
      BY RatioBetween
    <2>3. health(r) <= health(s)
      BY <2>1, PermilleKeepsOrder
    <2>4. health(r) \in Nat /\ health(s) \in Nat
      BY <2>1, ProductOfNaturals
    <2>. HIDE DEF health
    <2> QED
      BY <2>2, <2>3, <2>4, PermilleKeepsOrder
  <1>4. IsOperational(r, p) => IsOperational(s, o)
    BY DEF IsOperational, MinStrength, MinOrg
  <1>5. ASSUME NEW x \in Nat, NEW y \in Nat, y <= x
        PROVE  half(x) \in Nat /\ half(y) <= half(x) /\ half(x) <= x
    <2>1. half(x) = (x * 1000) \div 2000 /\ half(y) = (y * 1000) \div 2000
      BY NaturalDivision
    <2> QED
      BY <2>1, <1>5
  <1>. HIDE DEF health, morale, half
  <1>6. morale(r, p) \in Nat /\ morale(s, o) \in Nat /\ health(s) \in Nat
        /\ morale(s, o) <= health(s)
    BY <1>1, <1>2
  <1>7. /\ half(morale(r, p)) \in Nat /\ half(morale(r, p)) <= morale(r, p)
        /\ half(morale(s, o)) \in Nat /\ half(morale(s, o)) <= morale(s, o)
        /\ half(morale(r, p)) <= half(morale(s, o))
    BY <1>3, <1>5, <1>6
  <1>8. /\ FullPower(rating, s, max, o, maxOrg, 0, FALSE)
             = IF IsOperational(s, o) THEN morale(s, o) ELSE half(morale(s, o))
        /\ FullPower(rating, r, max, p, maxOrg, 0, FALSE)
             = IF IsOperational(r, p) THEN morale(r, p) ELSE half(morale(r, p))
        /\ EffectivePower(rating, s, max) = health(s)
    BY <1>1, <1>2
  <1>. DEFINE full  == FullPower(rating, s, max, o, maxOrg, 0, FALSE)
              after == FullPower(rating, r, max, p, maxOrg, 0, FALSE)
  <1>. SUFFICES /\ after <= full /\ full \in Nat /\ full <= health(s)
    BY <1>6, <1>8
  <1>9. CASE IsOperational(s, o) /\ IsOperational(r, p)
    <2>1. full = morale(s, o) /\ after = morale(r, p)
      BY <1>8, <1>9
    <2>. HIDE DEF full, after
    <2> QED
      BY <2>1, <1>3, <1>6
  <1>10. CASE IsOperational(s, o) /\ ~IsOperational(r, p)
    <2>1. full = morale(s, o) /\ after = half(morale(r, p))
      BY <1>8, <1>10
    <2>. HIDE DEF full, after
    <2> QED
      BY <2>1, <1>3, <1>6, <1>7
  <1>11. CASE ~IsOperational(s, o)
    <2>1. full = half(morale(s, o)) /\ after = half(morale(r, p))
      BY <1>4, <1>8, <1>11
    <2>. HIDE DEF full, after
    <2> QED
      BY <2>1, <1>6, <1>7
  <1> QED
    BY <1>9, <1>10, <1>11

LEMMA DivisionOfIntegers ==
  ASSUME NEW a \in Int, NEW b \in Nat \ {0}
  PROVE  AllDiv(a, b) \in Int
  <1>. DEFINE q == Magnitude(a) \div Magnitude(b)
  <1>1. Magnitude(a) \in Nat /\ Magnitude(b) = b
    BY DEF Magnitude
  <1>2. q \in Nat
    BY <1>1
  <1>3. AllDiv(a, b) = q \/ AllDiv(a, b) = -q
    BY DEF AllDiv
  <1>. HIDE DEF q
  <1> QED
    BY <1>2, <1>3

\* The power is a number, also where there is nothing to compare with.
LEMMA PowerIsInteger ==
  ASSUME NEW rating \in Int, NEW max \in Nat, NEW maxOrg \in Nat,
         NEW s \in Nat, NEW o \in Nat
  PROVE  FullPower(rating, s, max, o, maxOrg, 0, FALSE) \in Int
  <1>1. ASSUME NEW x \in Int, NEW y \in Int PROVE Permille(x, y) \in Int
    <2>1. x * y \in Int
      OBVIOUS
    <2> QED
      BY <2>1, DivisionOfIntegers DEF Permille
  <1>2. ASSUME NEW x \in Nat, NEW m \in Nat PROVE RatioOf(x, m) \in Int
    <2>1. x * 1000 \in Int
      OBVIOUS
    <2> QED
      BY <2>1, DivisionOfIntegers DEF RatioOf
  <1>. DEFINE health == Permille(RatioOf(s, max), rating)
              morale == Permille(RatioOf(o, maxOrg), health)
              power  == Permille(morale, 1000 + Permille(0, 10))
  <1>3. health \in Int
    BY <1>1, <1>2
  <1>. HIDE DEF health
  <1>4. morale \in Int
    BY <1>1, <1>2, <1>3
  <1>. HIDE DEF morale
  <1>5. Permille(0, 10) \in Int
    BY <1>1
  <1>6. 1000 + Permille(0, 10) \in Int
    BY <1>5
  <1>7. power \in Int
    BY <1>1, <1>4, <1>6
  <1>. HIDE DEF power
  <1>. DEFINE half == AllDiv(power * 1000, 2000)
              full == FullPower(rating, s, max, o, maxOrg, 0, FALSE)
  <1>8. half \in Int
    <2>1. power * 1000 \in Int
      BY <1>7
    <2> QED
      BY <2>1, DivisionOfIntegers
  <1>9. full = IF IsOperational(s, o) THEN power ELSE half
    BY DEF FullPower, power, morale, health
  <1>. HIDE DEF half, full
  <1>10. full = power \/ full = half
    BY <1>9
  <1>11. full \in Int
    BY <1>7, <1>8, <1>10
  <1> QED
    BY <1>11 DEF full

\* Nobody has more men or organization than it began with, and what never had any is
\* never struck.
PInv == \A u \in Unit : /\ strength[u] <= Men[u] /\ org[u] <= Order[u]
                        /\ Men[u] = 0 \/ Order[u] = 0 => Emptied(u)

\* A commit takes men and organization from those that something waits for.
LEMMA CommitTakes ==
  ASSUME QInv, NEW s \in Side, NEW U \in SUBSET Unit, Commit(s, U), NEW u \in Unit
  PROVE  /\ strength'[u] \in 0 .. strength[u] /\ org'[u] \in 0 .. org[u]
         /\ Emptied(u) => /\ strength'[u] = strength[u] /\ org'[u] = org[u]
                          /\ Emptied(u)'
  <1>. DEFINE men == [x \in U |-> Lost(x, PendingCasualties, strength[x])]
              loss == [x \in U |-> Lost(x, PendingLoss, org[x])]
  <1>1. Ranks /\ PendingCasualties \in Word /\ PendingLoss \in Word
    BY LandBattleAssumption DEF LandBattleAssumption, QInv
  <1>2. /\ strength' = [x \in Unit |-> strength[x] - IF x \in U THEN men[x] ELSE 0]
        /\ org' = [x \in Unit |-> org[x] - IF x \in U THEN loss[x] ELSE 0]
        /\ pending' = Cleared(U)
    BY DEF Commit
  <1>3. strength[u] \in Nat /\ org[u] \in Nat
    BY <1>1 DEF Ranks
  <1>4. Emptied(u) => Emptied(u)'
    BY <1>2 DEF Emptied, Cleared
  <1>5. ASSUME NEW w \in Word, NEW has \in Nat
        PROVE  Lost(u, w, has) \in 0 .. has /\ (Emptied(u) => Lost(u, w, has) = 0)
    BY <1>1 DEF Ranks, Lost, AtMost, AtLeast, Emptied
  <1>6. CASE u \in U
    <2>1. strength'[u] = strength[u] - men[u] /\ org'[u] = org[u] - loss[u]
      BY <1>2, <1>6
    <2>2. /\ men[u] \in 0 .. strength[u] /\ loss[u] \in 0 .. org[u]
          /\ Emptied(u) => men[u] = 0 /\ loss[u] = 0
      BY <1>1, <1>3, <1>5, <1>6
    <2>. HIDE DEF men, loss
    <2> QED
      BY <1>3, <1>4, <2>1, <2>2
  <1>7. CASE u \notin U
    <2>1. strength'[u] = strength[u] - 0 /\ org'[u] = org[u] - 0
      BY <1>2, <1>7
    <2> QED
      BY <1>3, <1>4, <2>1
  <1> QED
    BY <1>6, <1>7

\* Men and organization change in a commit, and nowhere else.
LEMMA MenChangeAtDusk ==
  ASSUME [Next]_battle
  PROVE  \/ UNCHANGED <<strength, org>>
         \/ \E s \in Side : \E U \in SUBSET Unit : Commit(s, U)
  <1>1. ASSUME NEW s \in Side, CommitTotal(s) PROVE \E U \in SUBSET Unit : Commit(s, U)
    BY <1>1 DEF CommitTotal, Of
  <1>2. ASSUME NEW s \in Side, NEW c \in Category, CommitByType(s, c)
        PROVE  \E U \in SUBSET Unit : Commit(s, U)
    BY <1>2 DEF CommitByType, Of
  <1>3. ASSUME NEW u \in Unit, Attack(u) PROVE UNCHANGED <<strength, org>>
    <2>1. strength' = strength
      BY <1>3 DEF Attack, Strike
    <2> QED
      BY <1>3, <2>1 DEF Attack
  <1>4. ASSUME \/ \E u \in Unit : Arrive(u) \/ Rout(u)
               \/ \E s \in Side : Deploy(s)
               \/ StartDay \/ EndFire \/ Judge \/ UNCHANGED battle
        PROVE  UNCHANGED <<strength, org>>
    BY <1>4 DEF Arrive, Rout, Deploy, StartDay, EndFire, Judge, battle
  <1> QED
    BY <1>1, <1>2, <1>3, <1>4 DEF Next

LEMMA NextPower == QInv /\ PInv /\ [Next]_battle => PInv'
  <1>. SUFFICES ASSUME QInv, PInv, [Next]_battle, NEW u \in Unit
                PROVE  /\ strength'[u] <= Men[u] /\ org'[u] <= Order[u]
                       /\ Men[u] = 0 \/ Order[u] = 0 => Emptied(u)'
    BY DEF PInv
  <1>1. /\ strength[u] \in Nat /\ org[u] \in Nat /\ Men[u] \in Nat /\ Order[u] \in Nat
        /\ strength[u] <= Men[u] /\ org[u] <= Order[u]
        /\ Men[u] = 0 \/ Order[u] = 0 => Emptied(u)
    BY LandBattleAssumption DEF LandBattleAssumption, QInv, Ranks, PInv
  <1>2. CASE \E s \in Side : \E U \in SUBSET Unit : Commit(s, U)
    <2>1. /\ strength'[u] \in 0 .. strength[u] /\ org'[u] \in 0 .. org[u]
          /\ Emptied(u) => Emptied(u)'
      BY <1>2, CommitTakes
    <2> QED
      BY <1>1, <2>1
  <1>3. CASE \E x \in Unit : Attack(x)
    <2>1. PICK x \in Unit : Attack(x)
      BY <1>3
    <2>2. UNCHANGED <<strength, org>>
      BY <2>1 DEF Attack, Strike
    <2>3. Men[u] = 0 \/ Order[u] = 0 => Emptied(u)'
      <3>1. CASE x \in ground.inactive \/ FindTarget(x) = Nobody
        BY <1>1, <2>1, <3>1 DEF Attack, Emptied
      <3>2. CASE ~(x \in ground.inactive \/ FindTarget(x) = Nobody)
        <4>1. PICK v : v = FindTarget(x)
          OBVIOUS
        <4>2. PICK d : d = Damage(x, v, strength[x])
          OBVIOUS
        <4>3. Strike(v, d)
          BY <2>1, <3>2, <4>1, <4>2 DEF Attack
        <4>4. v \in Unit /\ Operational(v)
          BY <3>2, <4>1, TargetStands DEF QInv
        <4>5. d \in [casualties : Nat, loss : Nat]
          BY <4>2, <4>4, DamageIsNatural DEF QInv, Ranks
        <4>6. u # v => pending'[u] = pending[u]
          BY <4>3, <4>4, <4>5, StrikeFacts DEF QInv, Ranks
        <4>7. u = v => Men[u] # 0 /\ Order[u] # 0
          BY <1>1, <4>4 DEF Operational, IsOperational, MinStrength, MinOrg
        <4> QED
          BY <1>1, <4>6, <4>7 DEF Emptied
      <3> QED
        BY <3>1, <3>2
    <2> QED
      BY <1>1, <2>2, <2>3
  <1>4. CASE \/ \E x \in Unit : Arrive(x) \/ Rout(x)
             \/ \E s \in Side : Deploy(s)
             \/ StartDay \/ EndFire \/ Judge \/ UNCHANGED battle
    <2>1. UNCHANGED <<strength, org, pending>>
      BY <1>4 DEF Arrive, Rout, Deploy, StartDay, EndFire, Judge, battle
    <2> QED
      BY <1>1, <2>1 DEF Emptied
  <1>5. ASSUME NEW s \in Side, CommitTotal(s) \/ \E c \in Category : CommitByType(s, c)
        PROVE  \E U \in SUBSET Unit : Commit(s, U)
    BY <1>5 DEF CommitTotal, CommitByType, Of
  <1> QED
    BY <1>2, <1>3, <1>4, <1>5 DEF Next

LEMMA InitPower == Init => PInv
  <1>. SUFFICES ASSUME Init, NEW u \in Unit
                PROVE  /\ strength[u] <= Men[u] /\ org[u] <= Order[u] /\ Emptied(u)
    BY DEF PInv
  <1>1. strength = Men /\ org = Order /\ pending = [x \in Unit |-> [w \in Word |-> 0]]
    BY DEF Init
  <1>2. Men[u] \in Nat /\ Order[u] \in Nat
    BY LandBattleAssumption DEF LandBattleAssumption
  <1> QED
    BY <1>1, <1>2 DEF Emptied

\* Whatever a battle costs it, no regiment of a type that is worth something at all is
\* ever worth more after a loss than before.
THEOREM LosingNeverPays ==
  ASSUME \A u \in Unit : Worth(u) \in Nat
  PROVE  Spec => NobodyGrowsStrongerByLosing
  <1>. DEFINE Falls == \A u \in Unit : Power(u, strength'[u], org'[u])
                                         <= Power(u, strength[u], org[u])
  <1>1. Init => QInv /\ PInv
    BY InitReserves, InitPower
  <1>2. QInv /\ PInv /\ [Next]_battle => (QInv /\ PInv)'
    BY NextReserves, NextPower
  <1>3. QInv /\ PInv /\ [Next]_battle => [Falls]_<<strength, org>>
    <2>. SUFFICES ASSUME QInv, PInv, [Next]_battle, ~(UNCHANGED <<strength, org>>),
                         NEW u \in Unit
                  PROVE  Power(u, strength'[u], org'[u]) <= Power(u, strength[u], org[u])
      OBVIOUS
    <2>1. /\ strength'[u] \in 0 .. strength[u] /\ org'[u] \in 0 .. org[u]
          /\ Emptied(u) => strength'[u] = strength[u] /\ org'[u] = org[u]
      BY MenChangeAtDusk, CommitTakes
    <2>2. /\ Men[u] \in Nat /\ Order[u] \in Nat /\ Worth(u) \in Nat
          /\ strength[u] \in 0 .. Men[u] /\ org[u] \in 0 .. Order[u]
          /\ Men[u] = 0 \/ Order[u] = 0 => Emptied(u)
      <3>1. /\ Men[u] \in Nat /\ Order[u] \in Nat
            /\ strength[u] \in Nat /\ org[u] \in Nat
        BY LandBattleAssumption DEF LandBattleAssumption, QInv, Ranks
      <3>2. /\ strength[u] <= Men[u] /\ org[u] <= Order[u]
            /\ Men[u] = 0 \/ Order[u] = 0 => Emptied(u)
        BY DEF PInv
      <3>3. Worth(u) \in Nat
        OBVIOUS
      <3>4. strength[u] \in 0 .. Men[u] /\ org[u] \in 0 .. Order[u]
        BY <3>1, <3>2
      <3> QED
        BY <3>1, <3>2, <3>3, <3>4
    <2>3. PICK s \in 0 .. Men[u], r \in Int, o \in 0 .. Order[u], p \in Int :
             /\ s = strength[u] /\ r = strength'[u] /\ r \in 0 .. s
             /\ o = org[u] /\ p = org'[u] /\ p \in 0 .. o
      BY <2>1, <2>2
    <2>4. CASE Men[u] = 0 \/ Order[u] = 0
      <3>1. strength'[u] = strength[u] /\ org'[u] = org[u]
        BY <2>1, <2>2, <2>4
      <3>2. Power(u, strength[u], org[u]) \in Int
        <4>1. strength[u] \in Nat /\ org[u] \in Nat /\ Worth(u) \in Int
          BY <2>2
        <4> QED
          BY <2>2, <4>1, PowerIsInteger DEF Power
      <3>3. Power(u, strength'[u], org'[u]) = Power(u, strength[u], org[u])
        BY <3>1
      <3> QED
        BY <3>2, <3>3
    <2>5. CASE Men[u] # 0 /\ Order[u] # 0
      <3>1. FullPower(Worth(u), r, Men[u], p, Order[u], 0, FALSE)
              <= FullPower(Worth(u), s, Men[u], o, Order[u], 0, FALSE)
        <4>1. Men[u] \in Nat \ {0} /\ Order[u] \in Nat \ {0}
          BY <2>2, <2>5
        <4>2. r \in 0 .. s /\ p \in 0 .. o /\ Worth(u) \in Nat
          BY <2>2, <2>3
        <4> QED
          BY <4>1, <4>2, PowerFalls
      <3> QED
        BY <2>3, <3>1 DEF Power
    <2> QED
      BY <2>4, <2>5, <2>2
  <1>4. QInv /\ PInv /\ [Next]_battle /\ (QInv /\ PInv)' => [Falls]_<<strength, org>>
    BY <1>3
  <1>. HIDE DEF Falls
  <1>5. Spec => [][Falls]_<<strength, org>>
    BY <1>1, <1>2, <1>3, PTL DEF Spec
  <1> QED
    BY <1>5 DEF NobodyGrowsStrongerByLosing, Falls

-------------------------------------------------------------------------------
(* Averages. *)

\* A weighted average lies between the bounds of what it averages.
LEMMA WeightedAverage ==
  ASSUME NEW U, IsFiniteSet(U), NEW f, NEW g, NEW lo \in Nat, NEW hi \in Nat,
         \A u \in U : /\ f[u] \in Nat /\ g[u] \in Nat
                      /\ lo * g[u] <= f[u] /\ f[u] <= hi * g[u],
         Total(g, U) > 0
  PROVE  LET average == AllDiv(Total(f, U) * 1000, Total(g, U) * 1000)
         IN  average \in Nat /\ lo <= average /\ average <= hi
  <1>. DEFINE F == SumFunctionOnSet(f, U)
              G == SumFunctionOnSet(g, U)
  <1>1. F \in Nat /\ G \in Nat
    BY SumOfNaturals
  <1>2. lo * G <= F
    <2>1. \A u \in U : f[u] \in Int /\ g[u] \in Int /\ lo * g[u] <= 1 * f[u]
      OBVIOUS
    <2>2. lo * G <= 1 * F
      BY <2>1, SumDominated
    <2>. HIDE DEF F, G
    <2> QED
      BY <1>1, <2>2
  <1>3. F <= hi * G
    <2>1. \A u \in U : f[u] \in Int /\ g[u] \in Int /\ 1 * f[u] <= hi * g[u]
      OBVIOUS
    <2>2. 1 * F <= hi * G
      BY <2>1, SumDominated
    <2>. HIDE DEF F, G
    <2> QED
      BY <1>1, <2>2
  <1>4. Total(f, U) = F /\ Total(g, U) = G /\ G > 0
    BY DEF Total
  <1>. HIDE DEF F, G
  <1>. DEFINE x == F * 1000
              n == G * 1000
  <1>5. x \in Nat /\ n \in Nat \ {0}
    BY <1>1, <1>4
  <1>6. n * lo <= x /\ x <= n * hi
    <2>1. lo * G \in Nat /\ hi * G \in Nat
      BY <1>1
    <2>2. n * lo = 1000 * (lo * G) /\ n * hi = 1000 * (hi * G)
      BY <1>1
    <2>3. 1000 * (lo * G) <= x /\ x <= 1000 * (hi * G)
      BY <1>1, <1>2, <1>3, <2>1
    <2> QED
      BY <2>2, <2>3
  <1>7. Total(f, U) * 1000 = x /\ Total(g, U) * 1000 = n
    BY <1>4
  <1>. HIDE DEF x, n
  <1>8. AllDiv(x, n) = x \div n /\ x \div n \in Nat
    BY <1>5, NaturalDivision
  <1>9. x \div n \in lo .. hi
    BY <1>5, <1>6, QuotientBetween
  <1>10. AllDiv(x, n) \in Nat /\ lo <= AllDiv(x, n) /\ AllDiv(x, n) <= hi
    BY <1>8, <1>9
  <1> QED
    BY <1>7, <1>10

\* So do the two averages over a set of regiments, which are one.
LEMMA PlainAverage ==
  ASSUME NEW U, IsFiniteSet(U), U # {}, NEW f, NEW lo \in Nat, NEW hi \in Nat,
         \A u \in U : f[u] \in Nat /\ lo <= f[u] /\ f[u] <= hi
  PROVE  /\ Cardinality(U) \in Nat \ {0}
         /\ FormationAverage(f, U, Cardinality(U)) \in lo .. hi
         /\ CohesionAverage(f, U, Cardinality(U))
              = FormationAverage(f, U, Cardinality(U))
  <1>. DEFINE g == [u \in U |-> 1]
  <1>1. Cardinality(U) \in Nat \ {0}
    BY FS_CardinalityType, FS_EmptySet
  <1>2. \A u \in U : g[u] = 1
    OBVIOUS
  <1>. HIDE DEF g
  <1>3. Total(g, U) = Cardinality(U)
    BY <1>2, SumOfOnes DEF Total
  <1>4. \A u \in U : /\ f[u] \in Nat /\ g[u] \in Nat
                     /\ lo * g[u] <= f[u] /\ f[u] <= hi * g[u]
    BY <1>2
  <1>5. Total(g, U) > 0
    BY <1>1, <1>3
  <1>. DEFINE average == AllDiv(Total(f, U) * 1000, Total(g, U) * 1000)
  <1>6. average \in Nat /\ lo <= average /\ average <= hi
    BY <1>4, <1>5, WeightedAverage
  <1>7. average = AllDiv(Total(f, U) * 1000, Cardinality(U) * 1000)
    BY <1>3
  <1>. HIDE DEF average
  <1>8. /\ FormationAverage(f, U, Cardinality(U)) = average
        /\ CohesionAverage(f, U, Cardinality(U)) = average
    BY <1>1, <1>7 DEF FormationAverage, CohesionAverage
  <1> QED
    BY <1>1, <1>6, <1>8

\* The least and the greatest of some numbers.
LEMMA Extremes ==
  ASSUME NEW U, IsFiniteSet(U), U # {}, NEW f, \A u \in U : f[u] \in Nat
  PROVE  LET V == {f[u] : u \in U}
         IN  /\ Min(V) \in Nat /\ Max(V) \in Nat
             /\ \A u \in U : Min(V) <= f[u] /\ f[u] <= Max(V)
  <1>. DEFINE V == {f[u] : u \in U}
              B == SumFunctionOnSet(f, U)
  <1>1. V \in SUBSET Nat /\ V # {}
    OBVIOUS
  <1>2. \A u \in U : f[u] <= B
    BY SumOfNaturals
  <1>3. B \in Nat
    BY SumOfNaturals
  <1>4. \A v \in V : v <= B
    BY <1>2
  <1>. HIDE DEF B
  <1>5. \A u \in U : f[u] \in V
    OBVIOUS
  <1>. HIDE DEF V
  <1>6. \E v \in V : \A w \in V : v <= w
    BY <1>1, Least
  <1>7. Min(V) \in V /\ \A w \in V : Min(V) <= w
    BY <1>6 DEF Min
  <1>8. \E v \in V : \A w \in V : w <= v
    <2>. DEFINE C == {B - v : v \in V}
    <2>1. C \in SUBSET Nat /\ C # {}
      <3>1. \A v \in V : v \in Nat
        BY <1>1
      <3>2. \A v \in V : B - v \in Nat
        BY <1>3, <1>4, <3>1
      <3>3. C # {}
        BY <1>1
      <3> QED
        BY <3>2, <3>3
    <2>2. PICK c \in C : \A d \in C : c <= d
      <3>. HIDE DEF C
      <3> QED
        BY <2>1, Least
    <2>3. PICK v \in V : c = B - v
      BY <2>2
    <2>4. \A w \in V : B - v <= B - w /\ w \in Nat /\ v \in Nat
      <3>1. \A w \in V : B - w \in C
        OBVIOUS
      <3> QED
        BY <1>1, <2>2, <2>3, <3>1
    <2> QED
      BY <1>3, <2>4
  <1>9. Max(V) \in V /\ \A w \in V : w <= Max(V)
    BY <1>8 DEF Max
  <1>10. Min(V) \in Nat /\ Max(V) \in Nat
    BY <1>1, <1>7, <1>9
  <1>11. \A u \in U : Min(V) <= f[u] /\ f[u] <= Max(V)
    BY <1>5, <1>7, <1>9
  <1> QED
    BY <1>10, <1>11 DEF V

\* A cohesion is a part of the whole, and it falls short of the sum it divides by less
\* than one for each regiment.
LEMMA CohesionOfParts ==
  ASSUME NEW U, IsFiniteSet(U), U # {}, NEW f, \A u \in U : f[u] \in Nat /\ f[u] <= 1000
  PROVE  /\ Cardinality(U) \in Nat \ {0}
         /\ CohesionAverage(f, U, Cardinality(U)) \in 0 .. 1000
         /\ Total(f, U) \in Nat
         /\ Total(f, U)
              < Cardinality(U) * (CohesionAverage(f, U, Cardinality(U)) + 1)
  <1>. DEFINE n == Cardinality(U)
              c == CohesionAverage(f, U, n)
              t == Total(f, U)
  <1>1. n \in Nat \ {0} /\ c \in 0 .. 1000
    <2>1. PICK lo \in Nat, hi \in Nat : lo = 0 /\ hi = 1000
      OBVIOUS
    <2>2. \A u \in U : f[u] \in Nat /\ lo <= f[u] /\ f[u] <= hi
      BY <2>1
    <2>3. n \in Nat \ {0} /\ c \in lo .. hi
      BY <2>2, PlainAverage
    <2> QED
      BY <2>1, <2>3
  <1>2. t \in Nat
    BY SumOfNaturals DEF Total
  <1>3. c = AllDiv(t * 1000, n * 1000)
    BY <1>1 DEF CohesionAverage
  <1>. HIDE DEF n, c, t
  <1>4. c = (t * 1000) \div (n * 1000)
    <2>1. t * 1000 \in Nat /\ n * 1000 \in Nat \ {0}
      BY <1>1, <1>2
    <2> QED
      BY <1>3, <2>1, NaturalDivision
  <1>5. t * 1000 < (n * 1000) * c + n * 1000
    <2>1. t * 1000 \in Int /\ n * 1000 \in Int /\ n * 1000 > 0
      BY <1>1, <1>2
    <2> QED
      BY <1>4, <2>1, Quotient
  <1>6. t < n * (c + 1)
    <2>1. (n * 1000) * c + n * 1000 = 1000 * (n * (c + 1))
      BY <1>1
    <2>2. n * (c + 1) \in Int
      BY <1>1
    <2> QED
      BY <1>2, <1>5, <2>1, <2>2
  <1> QED
    BY <1>1, <1>2, <1>6 DEF c, n, t

LEMMA ArmyAverage ==
  ASSUME NEW U, IsFiniteSet(U), U # {}, NEW f, NEW lo \in Nat, NEW hi \in Nat,
         \A u \in U : f[u] \in Nat /\ lo <= f[u] /\ f[u] <= hi
  PROVE  ArmyMorale(U, f, Cardinality(U), 0, 0) \in lo .. hi
  <1>. DEFINE average == FormationAverage(f, U, Cardinality(U))
  <1>1. average \in lo .. hi
    BY PlainAverage
  <1>2. ArmyMorale(U, f, Cardinality(U), 0, 0)
          = Permille(Permille(average, 1000 + 0), 1000 + 0)
    BY DEF ArmyMorale
  <1>. HIDE DEF average
  <1>3. Permille(average, 1000) = average
    BY <1>1, PermilleOfWhole
  <1>4. 1000 + 0 = 1000
    OBVIOUS
  <1> QED
    BY <1>1, <1>2, <1>3, <1>4

LEMMA CombatantAverage ==
  ASSUME NEW A, IsFiniteSet(A), A # {}, NEW count, NEW morale,
         NEW lo \in Nat, NEW hi \in Nat,
         \A a \in A : /\ count[a] \in Nat \ {0} /\ morale[a] \in Nat
                      /\ lo <= morale[a] /\ morale[a] <= hi
  PROVE  CombatantMorale(A, count, morale) \in lo .. hi
  <1>. DEFINE f == [a \in A |-> AllDiv(count[a] * 1000 * morale[a], 1000)]
              all == Total(count, A)
              average == AllDiv(Total(f, A) * 1000, all * 1000)
  <1>1. ASSUME NEW a \in A
        PROVE  /\ f[a] \in Nat /\ count[a] \in Nat
               /\ lo * count[a] <= f[a] /\ f[a] <= hi * count[a]
    <2>1. PICK k \in Nat \ {0}, m \in Nat :
             k = count[a] /\ m = morale[a] /\ lo <= m /\ m <= hi
      OBVIOUS
    <2>2. k * m \in Nat /\ k * 1000 * m = (k * m) * 1000
      OBVIOUS
    <2>3. AllDiv((k * m) * 1000, 1000) = k * m
      <3>. DEFINE x == k * m
      <3>. HIDE DEF x
      <3>1. x \in Nat
        BY <2>2 DEF x
      <3>2. x * 1000 \in Nat /\ (x * 1000) \div 1000 = x
        BY <3>1
      <3>3. AllDiv(x * 1000, 1000) = x
        BY <3>2, NaturalDivision
      <3> QED
        BY <3>3 DEF x
    <2>4. f[a] = k * m
      BY <2>1, <2>2, <2>3
    <2>5. lo * k <= k * m /\ k * m <= hi * k
      <3>1. k * lo <= k * m /\ k * m <= k * hi
        BY <2>1
      <3>2. k * lo = lo * k /\ k * hi = hi * k
        OBVIOUS
      <3> QED
        BY <3>1, <3>2
    <2>. HIDE DEF f
    <2> QED
      BY <2>1, <2>2, <2>4, <2>5
  <1>2. all > 0
    <2>1. PICK a \in A : TRUE
      OBVIOUS
    <2>2. all \in Nat /\ count[a] <= all
      <3>1. \A b \in A : count[b] \in Nat
        OBVIOUS
      <3> QED
        BY <3>1, SumOfNaturals DEF Total
    <2>. HIDE DEF all
    <2>3. count[a] \in Nat \ {0}
      OBVIOUS
    <2> QED
      BY <2>2, <2>3
  <1>3. average \in Nat /\ lo <= average /\ average <= hi
    <2>. HIDE DEF f
    <2> QED
      BY <1>1, <1>2, WeightedAverage
  <1>4. CombatantMorale(A, count, morale) = average
    BY <1>2 DEF CombatantMorale
  <1>. HIDE DEF average
  <1> QED
    BY <1>3, <1>4

\* Without technology a formation is worth what its regiments are.
LEMMA PlainFormation ==
  ASSUME NEW U, IsFiniteSet(U), NEW f, \A u \in U : f[u] \in Nat
  PROVE  FormationPower(f, U, 0) = Total(f, U) /\ Total(f, U) \in Nat
  <1>1. Total(f, U) \in Nat
    BY SumOfNaturals DEF Total
  <1>2. 1000 + 0 = 1000
    OBVIOUS
  <1> QED
    BY <1>1, <1>2, PermilleOfWhole DEF FormationPower

\* The powers of parts r of worths w, none of them above W.
LEMMA PartsOfTheBest ==
  ASSUME NEW U, IsFiniteSet(U), NEW r, NEW w, NEW p, NEW W \in Nat, NEW m \in Nat,
         \A u \in U : /\ r[u] \in Nat /\ w[u] \in Nat /\ w[u] <= W
                      /\ p[u] = Permille(r[u], w[u]),
         Total(r, U) <= m
  PROVE  Total(p, U) <= Permille(m, W)
  <1>. DEFINE P == SumFunctionOnSet(p, U)
              R == SumFunctionOnSet(r, U)
  <1>1. ASSUME NEW u \in U
        PROVE  p[u] \in Nat /\ r[u] \in Nat /\ 1000 * p[u] <= W * r[u]
    <2>1. PICK a \in Nat, b \in Nat : a = r[u] /\ b = w[u] /\ b <= W
      OBVIOUS
    <2>2. p[u] = (a * b) \div 1000
      BY <2>1, PermilleIsQuotient
    <2>3. a * b \in Nat /\ W * a \in Nat
      OBVIOUS
    <2>4. a * b <= W * a
      <3>1. a * b <= a * W
        BY <2>1
      <3>2. a * W = W * a
        OBVIOUS
      <3> QED
        BY <3>1, <3>2
    <2>. DEFINE x == a * b
                y == W * a
    <2>5. x \in Nat /\ y \in Nat /\ x <= y /\ p[u] = x \div 1000
      BY <2>2, <2>3, <2>4
    <2>. HIDE DEF x, y
    <2>6. p[u] \in Nat /\ 1000 * p[u] <= y
      BY <2>5
    <2> QED
      BY <2>1, <2>6 DEF y
  <1>2. 1000 * P <= W * R
    <2>1. \A u \in U : p[u] \in Int /\ r[u] \in Int /\ 1000 * p[u] <= W * r[u]
      BY <1>1
    <2> QED
      BY <2>1, SumDominated
  <1>3. P \in Nat /\ R \in Nat
    BY <1>1, SumOfNaturals
  <1>4. Total(p, U) = P /\ R <= m
    BY DEF Total
  <1>. HIDE DEF P, R
  <1>. DEFINE z == m * W
  <1>5. z \in Nat /\ 1000 * P <= z
    <2>1. W * R <= W * m /\ W * R \in Nat
      BY <1>3, <1>4
    <2>2. W * m = m * W /\ m * W \in Nat
      OBVIOUS
    <2> QED
      BY <1>2, <1>3, <2>1, <2>2
  <1>6. Permille(m, W) = z \div 1000
    BY PermilleIsQuotient
  <1>. HIDE DEF z
  <1>7. P <= z \div 1000
    BY <1>3, <1>5
  <1> QED
    BY <1>4, <1>6, <1>7

\* The figures of a side: its cohesion, in men and in morale; its two armies, those that
\* came late and the others, and their morale together; and what it is worth.
Ratios(s)    == [u \in Of(s) |-> RatioOf(strength[u], Men[u])]
Cohesion(s)  == StrengthRatio(Of(s), strength, Men, Cardinality(Of(s)))
Spirits(s)   == MoraleRatio(Of(s), org, Order, [u \in Of(s) |-> FALSE], Cardinality(Of(s)))
Armies(s)    == {Of(s) \cap Late, Of(s) \ Late} \ {{}}
Morale(s)    == CombatantMorale(Armies(s), [a \in Armies(s) |-> Cardinality(a)],
                    [a \in Armies(s) |-> ArmyMorale(a, org, Cardinality(a), 0, 0)])
Full(s)      == [u \in Of(s) |-> Power(u, strength[u], org[u])]
Effective(s) == [u \in Of(s) |-> EffectivePower(Worth(u), strength[u], Men[u])]

\* The regiments of a side, and the bounds on what each of them has.
LEMMA RegimentsInBounds ==
  ASSUME QInv, PInv, NEW s \in Side, NEW u \in Of(s), Men[u] > 0, Order[u] > 0
  PROVE  /\ Men[u] \in Nat \ {0} /\ strength[u] \in 0 .. Men[u]
         /\ Order[u] \in Nat \ {0} /\ org[u] \in 0 .. Order[u]
         /\ RatioOf(strength[u], Men[u]) \in Nat /\ RatioOf(strength[u], Men[u]) <= 1000
         /\ RatioOf(org[u], Order[u]) \in Nat /\ RatioOf(org[u], Order[u]) <= 1000
  <1>1. u \in Unit
    BY DEF Of
  <1>2. /\ Men[u] \in Nat /\ Order[u] \in Nat /\ strength[u] \in Nat /\ org[u] \in Nat
        /\ strength[u] <= Men[u] /\ org[u] <= Order[u]
    BY <1>1, LandBattleAssumption DEF LandBattleAssumption, QInv, Ranks, PInv
  <1>3. /\ Men[u] \in Nat \ {0} /\ strength[u] \in 0 .. Men[u]
        /\ Order[u] \in Nat \ {0} /\ org[u] \in 0 .. Order[u]
    BY <1>2
  <1>4. RatioOf(strength[u], Men[u]) \in Nat /\ RatioOf(strength[u], Men[u]) <= 1000
    <2>1. strength[u] \in 0 .. strength[u]
      BY <1>2
    <2> QED
      BY <1>3, <2>1, RatioBetween
  <1>5. RatioOf(org[u], Order[u]) \in Nat /\ RatioOf(org[u], Order[u]) <= 1000
    <2>1. org[u] \in 0 .. org[u]
      BY <1>2
    <2> QED
      BY <1>3, <2>1, RatioBetween
  <1> QED
    BY <1>3, <1>4, <1>5

LEMMA CohesionOfSide ==
  ASSUME QInv, PInv, NEW s \in Side, Of(s) # {}, \A u \in Unit : Men[u] > 0 /\ Order[u] > 0
  PROVE  /\ Cohesion(s) \in 0 .. 1000 /\ Spirits(s) \in 0 .. 1000
         /\ Cardinality(Of(s)) \in Nat \ {0} /\ Total(Ratios(s), Of(s)) \in Nat
         /\ Total(Ratios(s), Of(s)) < Cardinality(Of(s)) * (Cohesion(s) + 1)
  <1>. DEFINE calm == [u \in Of(s) |-> FALSE]
              ranks == [u \in Of(s) |-> RatioOf(IF calm[u] THEN 0 ELSE org[u], Order[u])]
  <1>1. IsFiniteSet(Of(s))
    BY OwnRegiments
  <1>2. ASSUME NEW u \in Of(s)
        PROVE  /\ Ratios(s)[u] \in Nat /\ Ratios(s)[u] <= 1000
               /\ ranks[u] \in Nat /\ ranks[u] <= 1000
    <2>1. Ratios(s)[u] = RatioOf(strength[u], Men[u])
      BY DEF Ratios
    <2>2. ranks[u] = RatioOf(org[u], Order[u])
      OBVIOUS
    <2>3. u \in Unit
      BY DEF Of
    <2> QED
      BY <2>1, <2>2, <2>3, RegimentsInBounds
  <1>3. /\ Cohesion(s) = CohesionAverage(Ratios(s), Of(s), Cardinality(Of(s)))
        /\ Spirits(s) = CohesionAverage(ranks, Of(s), Cardinality(Of(s)))
    BY DEF Cohesion, Spirits, Ratios, StrengthRatio, MoraleRatio
  <1>. HIDE DEF ranks
  <1>4. /\ Cardinality(Of(s)) \in Nat \ {0} /\ Total(Ratios(s), Of(s)) \in Nat
        /\ CohesionAverage(Ratios(s), Of(s), Cardinality(Of(s))) \in 0 .. 1000
        /\ Total(Ratios(s), Of(s))
             < Cardinality(Of(s))
                 * (CohesionAverage(Ratios(s), Of(s), Cardinality(Of(s))) + 1)
    BY <1>1, <1>2, CohesionOfParts
  <1>5. CohesionAverage(ranks, Of(s), Cardinality(Of(s))) \in 0 .. 1000
    BY <1>1, <1>2, CohesionOfParts
  <1> QED
    BY <1>3, <1>4, <1>5

LEMMA MoraleOfSide ==
  ASSUME QInv, NEW s \in Side, Of(s) # {}
  PROVE  Morale(s) \in Min({org[u] : u \in Of(s)}) .. Max({org[u] : u \in Of(s)})
  <1>. DEFINE U == Of(s)
              A == Armies(s)
              count == [a \in A |-> Cardinality(a)]
              morale == [a \in A |-> ArmyMorale(a, org, Cardinality(a), 0, 0)]
              V == {org[u] : u \in U}
  <1>1. IsFiniteSet(U) /\ U # {}
    BY OwnRegiments
  <1>2. \A u \in U : org[u] \in Nat
    BY DEF QInv, Ranks, Of
  <1>3. /\ IsFiniteSet(A) /\ A # {}
        /\ \A a \in A : a \in SUBSET U /\ IsFiniteSet(a) /\ a # {}
    <2>. HIDE DEF U
    <2>0. A = {U \cap Late, U \ Late} \ {{}}
      BY DEF Armies, U
    <2>. HIDE DEF A
    <2>1. IsFiniteSet({U \cap Late, U \ Late})
      <3>1. PICK x, y : x = U \cap Late /\ y = U \ Late
        OBVIOUS
      <3>2. IsFiniteSet({x})
        BY FS_Singleton
      <3>3. IsFiniteSet({x} \cup {y})
        BY <3>2, FS_AddElement
      <3>4. {U \cap Late, U \ Late} = {x} \cup {y}
        BY <3>1
      <3> QED
        BY <3>3, <3>4
    <2>2. IsFiniteSet(A)
      BY <2>0, <2>1, FS_Subset
    <2>3. \A a \in A : a \in SUBSET U /\ a # {}
      BY <2>0
    <2>4. A # {}
      <3>1. U \cap Late # {} \/ U \ Late # {}
        BY <1>1
      <3> QED
        BY <2>0, <3>1
    <2> QED
      BY <1>1, <2>2, <2>3, <2>4, FS_Subset
  <1>. HIDE DEF U
  <1>4. PICK lo \in Nat, hi \in Nat :
           /\ lo = Min(V) /\ hi = Max(V)
           /\ \A u \in U : lo <= org[u] /\ org[u] <= hi
    BY <1>1, <1>2, Extremes
  <1>. HIDE DEF V
  <1>5. ASSUME NEW a \in A
        PROVE  /\ count[a] \in Nat \ {0} /\ morale[a] \in Nat
               /\ lo <= morale[a] /\ morale[a] <= hi
    <2>1. a \in SUBSET U /\ IsFiniteSet(a) /\ a # {}
      BY <1>3
    <2>2. Cardinality(a) \in Nat \ {0}
      BY <2>1, FS_CardinalityType, FS_EmptySet
    <2>3. \A u \in a : org[u] \in Nat /\ lo <= org[u] /\ org[u] <= hi
      BY <1>2, <1>4, <2>1
    <2>4. ArmyMorale(a, org, Cardinality(a), 0, 0) \in lo .. hi
      BY <2>1, <2>3, ArmyAverage
    <2>5. count[a] = Cardinality(a) /\ morale[a] = ArmyMorale(a, org, Cardinality(a), 0, 0)
      OBVIOUS
    <2>. HIDE DEF count, morale
    <2> QED
      BY <2>2, <2>4, <2>5
  <1>. HIDE DEF A, count, morale
  <1>6. CombatantMorale(A, count, morale) \in lo .. hi
    BY <1>3, <1>5, CombatantAverage
  <1>7. CombatantMorale(A, count, morale) = Morale(s)
    BY DEF A, count, morale, Morale
  <1> QED
    BY <1>4, <1>6, <1>7 DEF U, V

\* What a side is worth, with its morale and without.
LEMMA WorthOfSide ==
  ASSUME QInv, PInv, NEW s \in Side, Of(s) # {},
         \A u \in Unit : Men[u] > 0 /\ Order[u] > 0 /\ Worth(u) \in Nat
  PROVE  /\ FormationPower(Full(s), Of(s), 0) <= FormationPower(Effective(s), Of(s), 0)
         /\ FormationPower(Effective(s), Of(s), 0)
              <= Permille(Cardinality(Of(s)) * (Cohesion(s) + 1),
                          Max({Worth(u) : u \in Of(s)}))
  <1>. DEFINE U == Of(s)
              full == Full(s)
              men == Effective(s)
              ratio == Ratios(s)
              w == [u \in U |-> Worth(u)]
              V == {Worth(u) : u \in U}
              m == Cardinality(U) * (Cohesion(s) + 1)
  <1>1. IsFiniteSet(U) /\ U # {}
    BY OwnRegiments
  <1>2. ASSUME NEW u \in U
        PROVE  /\ full[u] \in Nat /\ men[u] \in Nat /\ full[u] <= men[u]
               /\ ratio[u] \in Nat /\ w[u] \in Nat /\ men[u] = Permille(ratio[u], w[u])
    <2>1. u \in Unit
      BY DEF Of
    <2>2. /\ Men[u] \in Nat \ {0} /\ strength[u] \in 0 .. Men[u]
          /\ Order[u] \in Nat \ {0} /\ org[u] \in 0 .. Order[u]
          /\ RatioOf(strength[u], Men[u]) \in Nat
      BY <2>1, RegimentsInBounds
    <2>3. Worth(u) \in Nat
      BY <2>1
    <2>4. PICK rating \in Nat, max \in Nat \ {0}, maxOrg \in Nat \ {0} :
             rating = Worth(u) /\ max = Men[u] /\ maxOrg = Order[u]
      BY <2>2, <2>3
    <2>5. PICK x \in 0 .. max, y \in 0 .. maxOrg : x = strength[u] /\ y = org[u]
      BY <2>2, <2>4
    <2>6. /\ FullPower(rating, x, max, y, maxOrg, 0, FALSE) \in Nat
          /\ EffectivePower(rating, x, max) \in Nat
          /\ FullPower(rating, x, max, y, maxOrg, 0, FALSE)
               <= EffectivePower(rating, x, max)
      <3>1. x \in 0 .. x /\ y \in 0 .. y
        OBVIOUS
      <3> QED
        BY <3>1, PowerFalls
    <2>7. /\ full[u] = FullPower(rating, x, max, y, maxOrg, 0, FALSE)
          /\ men[u] = EffectivePower(rating, x, max)
          /\ men[u] = Permille(ratio[u], w[u])
          /\ ratio[u] \in Nat /\ w[u] \in Nat
      <3>1. full[u] = FullPower(rating, x, max, y, maxOrg, 0, FALSE)
        BY <2>4, <2>5 DEF Full, Power
      <3>2. men[u] = EffectivePower(rating, x, max)
        BY <2>4, <2>5 DEF Effective
      <3>3. men[u] = Permille(ratio[u], w[u])
        BY DEF EffectivePower, Effective, Ratios
      <3>4. ratio[u] \in Nat
        BY <2>2 DEF Ratios
      <3> QED
        BY <2>3, <3>4, <3>1, <3>2, <3>3
    <2>. HIDE DEF full, men, ratio, w
    <2> QED
      BY <2>6, <2>7
  <1>3. /\ Cardinality(U) \in Nat \ {0} /\ Total(ratio, U) \in Nat
        /\ Cohesion(s) \in 0 .. 1000
        /\ Total(ratio, U) < Cardinality(U) * (Cohesion(s) + 1)
    BY CohesionOfSide
  <1>4. V = {w[u] : u \in U}
    OBVIOUS
  <1>. HIDE DEF U, full, men, ratio, w, V
  <1>5. Total(full, U) <= Total(men, U)
    <2>1. \A u \in U : full[u] \in Int /\ men[u] \in Int /\ full[u] <= men[u]
      BY <1>2
    <2> QED
      BY <1>1, <2>1, SumKeepsOrder DEF Total
  <1>6. PICK W \in Nat : W = Max(V) /\ \A u \in U : w[u] <= W
    <2>1. \A u \in U : w[u] \in Nat
      BY <1>2
    <2> QED
      BY <1>1, <1>4, <2>1, Extremes
  <1>7. m \in Nat /\ Total(ratio, U) <= m
    BY <1>3
  <1>. HIDE DEF m
  <1>8. Total(men, U) <= Permille(m, W)
    BY <1>1, <1>2, <1>6, <1>7, PartsOfTheBest
  <1>9. /\ FormationPower(full, U, 0) = Total(full, U)
        /\ FormationPower(men, U, 0) = Total(men, U)
    <2>1. \A u \in U : full[u] \in Nat /\ men[u] \in Nat
      BY <1>2
    <2> QED
      BY <1>1, <2>1, PlainFormation
  <1>10. /\ FormationPower(full, U, 0) <= FormationPower(men, U, 0)
         /\ FormationPower(men, U, 0) <= Permille(m, Max(V))
    BY <1>5, <1>6, <1>8, <1>9
  <1> QED
    BY <1>10 DEF U, full, men, m, V

\* However its battle goes, no figure a side is given exceeds what its regiments have:
\* two sides with regiments that began with men and organization, of types worth
\* something or nothing.
THEOREM AveragesStayWithin ==
  ASSUME \A u \in Unit : Men[u] > 0 /\ Order[u] > 0 /\ Worth(u) \in Nat,
         \A s \in Side : Of(s) # {}
  PROVE  Spec => []AveragesKeepWithinTheirParts
  <1>1. Init => QInv /\ PInv
    BY InitReserves, InitPower
  <1>2. QInv /\ PInv /\ [Next]_battle => (QInv /\ PInv)'
    BY NextReserves, NextPower
  <1>3. QInv /\ PInv => AveragesKeepWithinTheirParts
    <2>. SUFFICES ASSUME QInv, PInv, NEW s \in Side
                  PROVE  /\ Cohesion(s) \in 0 .. 1000
                         /\ Spirits(s) \in 0 .. 1000
                         /\ Morale(s) \in Min({org[u] : u \in Of(s)}) .. Max({org[u] : u \in Of(s)})
                         /\ FormationPower(Full(s), Of(s), 0)
                              <= FormationPower(Effective(s), Of(s), 0)
                         /\ FormationPower(Effective(s), Of(s), 0)
                              <= Permille(Cardinality(Of(s)) * (Cohesion(s) + 1),
                                          Max({Worth(u) : u \in Of(s)}))
      BY Zenon DEF AveragesKeepWithinTheirParts, Cohesion, Spirits, Morale, Armies, Full,
                   Effective
    <2>1. Of(s) # {} /\ \A u \in Unit : Men[u] > 0 /\ Order[u] > 0
      OBVIOUS
    <2>2. Cohesion(s) \in 0 .. 1000 /\ Spirits(s) \in 0 .. 1000
      BY <2>1, CohesionOfSide
    <2>3. Morale(s) \in Min({org[u] : u \in Of(s)}) .. Max({org[u] : u \in Of(s)})
      BY <2>1, MoraleOfSide
    <2> QED
      BY <2>1, <2>2, <2>3, WorthOfSide
  <1> QED
    BY <1>1, <1>2, <1>3, PTL DEF Spec
===============================================================================
