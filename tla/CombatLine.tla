------------------------------ MODULE CombatLine ------------------------------
(***************************************************************************)
(* The battle line of one side of a land combat: CLandCombatant's          *)
(* front_line (+ 0x6C) and back_line (+ 0xEC), and the two passes that     *)
(* rearrange them every day,                                               *)
(*                                                                         *)
(*   PruneAndConsolidateLine (0x0059AEF0): a sweep from the centre to the  *)
(*     flanks that takes broken regiments out of the front, a call to      *)
(*     DeployFromReserve, and a sweep that closes gaps towards the centre; *)
(*   AdvanceReinforcementLine (0x0059B150): a sweep from the centre to the *)
(*     flanks that moves regiments of the second line forward.             *)
(*                                                                         *)
(* A sweep rearranges the line while it walks over it, so each column is a *)
(* step.  Both sweeps visit the columns in the same order, but the first   *)
(* indexes the arrays from 0 and the second from 1.  The game has 30       *)
(* columns (Half = 15) in arrays of 32 slots.                              *)
(***************************************************************************)
EXTENDS Integers, Sequences, SequencesExt

CONSTANTS Half,      \* half the number of columns: 15
          Unit,      \* the regiments of this side
          Empty,     \* a null slot
          Support,   \* the regiments whose type has support > 0
          DeployTo   \* the columns DeployFromReserve fills

Columns == 2 * Half
Slot == 0 .. Columns + 1

ASSUME CombatLineAssumption == /\ Half \in Nat \ {0, 1}
                               /\ Empty \notin Unit
                               /\ Support \subseteq Unit
                               /\ DeployTo \subseteq Slot

VARIABLES
    line,       \* the regiment, or none, in each slot of both rows
    reserve,    \* regiments of this side that are not deployed
    retreat,    \* the retreat list (+ 0x16C)
    routed,     \* the list of shattered regiments (+ 0x17C)
    collapsed,  \* regiments with strength < 100 or organization < 1000
    pc,         \* where the daily update of this side is
    col,        \* the loop counter of the sweep in progress
    allowed,    \* what IsTacticalRetreatAllowed answers for this pass
    changed,    \* line_changed
    broken,     \* history: collapsed regiments in front when the pass began
    left,       \* history: how many regiments the pass took out
    lined       \* history: no regiment has moved since the line was reinforced

vars == <<line, reserve, retreat, routed, collapsed, pc, col, allowed, changed,
          broken, left, lined>>

FrontSlot(c) == <<"front", c>>
BackSlot(c) == <<"back", c>>
Place == {"front", "back"} \X Slot

\* Regiments that hold a slot of l, in either row and in the first one.
Deployed(l) == {l[p] : p \in Place} \ {Empty}
InFront(l)  == {l[FrontSlot(c)] : c \in Slot} \ {Empty}

-------------------------------------------------------------------------------

\* Mutant of SweepColumn: the distance is not rounded up.
SweepRoundedDown(k) ==
    Half + 1 + (k \div 2) * (IF k % 2 = 0 THEN 1 ELSE -1)

\* The column the k-th step of a sweep visits: the centre, then one column to
\* its left, one to its right, and so on to the flanks; 1 .. Columns.
SweepColumn(k) ==
    Half + 1 + ((k + 1) \div 2) * (IF k % 2 = 0 THEN 1 ELSE -1)

\* A regiment changes slots.  Mutant: the slot it leaves is not cleared.
Copy(l, from, to) == [l EXCEPT ![to] = l[from]]
Move(l, from, to) == [l EXCEPT ![from] = Empty, ![to] = l[from]]

\* Mutant of Destination: a support regiment does not step up at all.
SupportStays(l, c) ==
    IF l[BackSlot(c)] \in Support THEN BackSlot(c)
    ELSE IF l[FrontSlot(c)] = Empty THEN FrontSlot(c)
    ELSE BackSlot(c)

\* Where the regiment behind column c goes: straight ahead, or else, unless it
\* is a support regiment, ahead to the right or ahead to the left, or nowhere.
Destination(l, c) ==
    IF l[FrontSlot(c)] = Empty THEN FrontSlot(c)
    ELSE IF l[BackSlot(c)] \in Support THEN BackSlot(c)
    ELSE IF c + 1 < Columns /\ l[FrontSlot(c + 1)] = Empty THEN FrontSlot(c + 1)
    ELSE IF c - 1 >= 0 /\ l[FrontSlot(c - 1)] = Empty THEN FrontSlot(c - 1)
    ELSE BackSlot(c)

\* AdvanceColumnReinforcement (0x0059B0E0); with nobody behind, nothing moves.
AdvanceColumn(l, c) == IF l[BackSlot(c)] = Empty THEN l
                       ELSE Move(l, BackSlot(c), Destination(l, c))

\* The column outwards of c, seen from the centre.
Outer(c) == IF c < Half THEN c - 1 ELSE c + 1

-------------------------------------------------------------------------------

Init == /\ line = [p \in Place |-> Empty]
        /\ reserve = Unit
        /\ retreat = <<>>
        /\ routed = <<>>
        /\ collapsed = {}
        /\ pc = "idle"
        /\ col = 0
        /\ allowed = FALSE
        /\ changed = FALSE
        /\ broken = {}
        /\ left = 0
        /\ lined = FALSE

\* Casualties of the day break a regiment.
Collapse == /\ pc = "idle"
            /\ \E u \in (Deployed(line) \cup reserve) \ collapsed :
                  collapsed' = collapsed \cup {u}
            /\ UNCHANGED <<line, reserve, retreat, routed, pc, col, allowed,
                           changed, broken, left, lined>>

\* Mutant of StartPrune: line_changed keeps its value from the last pass.
StartPruneChanged == /\ pc = "idle"
                     /\ pc' = "prune"
                     /\ col' = 0
                     /\ allowed' \in BOOLEAN
                     /\ changed' = changed
                     /\ broken' = InFront(line) \cap collapsed
                     /\ left' = 0
                     /\ lined' = FALSE
                     /\ UNCHANGED <<line, reserve, retreat, routed, collapsed>>

StartPrune == /\ pc = "idle"
              /\ pc' = "prune"
              /\ col' = 0
              /\ allowed' \in BOOLEAN
              /\ changed' = FALSE
              /\ broken' = InFront(line) \cap collapsed
              /\ left' = 0
              /\ lined' = FALSE
              /\ UNCHANGED <<line, reserve, retreat, routed, collapsed>>

\* The next column of the first sweep; column numbers start at 0 here.
PruneSlot == SweepColumn(col) - 1
Visited == line[FrontSlot(PruneSlot)]

NextPruneColumn == IF col + 1 < Columns THEN pc' = "prune" /\ col' = col + 1
                                        ELSE pc' = "deploy" /\ col' = 0

\* The regiment leaves its slot and the one behind it steps up.
Vacate == /\ line' = AdvanceColumn([line EXCEPT ![FrontSlot(PruneSlot)] = Empty],
                                   PruneSlot)
          /\ changed' = TRUE
          /\ left' = left + 1

PruneEmpty == /\ pc = "prune"
              /\ Visited = Empty
              /\ line' = AdvanceColumn(line, PruneSlot)
              /\ NextPruneColumn
              /\ UNCHANGED <<reserve, retreat, routed, collapsed, allowed,
                             changed, broken, left, lined>>

\* Tactical retreat allowed: every broken regiment is routed.
PruneRout == /\ pc = "prune"
             /\ allowed
             /\ Visited \in collapsed
             /\ routed' = Append(routed, Visited)
             /\ Vacate
             /\ NextPruneColumn
             /\ UNCHANGED <<reserve, retreat, collapsed, allowed, broken, lined>>

\* Mutant of Retreats: line_changed is not consulted.
RetreatsAnyway(hasTarget) == /\ ~allowed
                             /\ Visited \in collapsed \/ ~hasTarget

\* Not allowed: as long as nobody has left, a regiment that is broken or finds
\* no target retreats.  hasTarget is what FindTargetRegiment returns to it.
Retreats(hasTarget) == /\ ~allowed
                       /\ ~changed
                       /\ Visited \in collapsed \/ ~hasTarget

PruneRetreat == /\ pc = "prune"
                /\ Visited # Empty
                /\ \E hasTarget \in BOOLEAN : Retreats(hasTarget)
                /\ retreat' = Append(retreat, Visited)
                /\ Vacate
                /\ NextPruneColumn
                /\ UNCHANGED <<reserve, routed, collapsed, allowed, broken, lined>>

PruneKeep == /\ pc = "prune"
             /\ Visited # Empty
             /\ \E hasTarget \in BOOLEAN :
                   ~(allowed /\ Visited \in collapsed) /\ ~Retreats(hasTarget)
             /\ NextPruneColumn
             /\ UNCHANGED <<line, reserve, retreat, routed, collapsed, allowed,
                            changed, broken, left, lined>>

\* DeployFromReserve (0x0059B190) fills free slots of the line.
Deploy == /\ pc = "deploy"
          /\ \E u \in reserve, c \in DeployTo, row \in {"front", "back"} :
                /\ line[<<row, c>>] = Empty
                /\ line' = [line EXCEPT ![<<row, c>>] = u]
                /\ reserve' = reserve \ {u}
          /\ UNCHANGED <<retreat, routed, collapsed, pc, col, allowed, changed,
                         broken, left, lined>>

EndDeploy == /\ pc = "deploy"
             /\ pc' = "close"
             /\ col' = 1
             /\ UNCHANGED <<line, reserve, retreat, routed, collapsed, allowed,
                            changed, broken, left, lined>>

\* The last column of the second sweep.  Mutant: one column short.
LastClosedShort == Columns - 3
LastClosed      == Columns - 2

\* One column of the second sweep: an empty slot takes its outer neighbour.
CloseGap == /\ pc = "close"
            /\ line' = IF line[FrontSlot(col)] = Empty
                       THEN Move(line, FrontSlot(Outer(col)), FrontSlot(col))
                       ELSE line
            /\ IF col < LastClosed THEN pc' = "close" /\ col' = col + 1
                                    ELSE pc' = "idle" /\ col' = 0
            /\ UNCHANGED <<reserve, retreat, routed, collapsed, allowed, changed,
                           broken, left, lined>>

StartAdvance == /\ pc = "idle"
                /\ pc' = "advance"
                /\ col' = 0
                /\ lined' = FALSE
                /\ UNCHANGED <<line, reserve, retreat, routed, collapsed, allowed,
                               changed, broken, left>>

\* The next column of the reinforcement sweep; column numbers start at 1 here.
AdvanceNext == /\ pc = "advance"
               /\ line' = AdvanceColumn(line, SweepColumn(col))
               /\ IF col + 1 < Columns
                     THEN pc' = "advance" /\ col' = col + 1 /\ lined' = FALSE
                     ELSE pc' = "idle" /\ col' = 0 /\ lined' = TRUE
               /\ UNCHANGED <<reserve, retreat, routed, collapsed, allowed,
                              changed, broken, left>>

Prune == StartPrune \/ PruneEmpty \/ PruneRout \/ PruneRetreat \/ PruneKeep
            \/ EndDeploy \/ CloseGap
Advance == StartAdvance \/ AdvanceNext

Next == Collapse \/ Deploy \/ Prune \/ Advance

Spec == Init /\ [][Next]_vars

\* A pass that began goes on to its end, and both begin every day.
FairSpec == /\ Spec
            /\ WF_vars(Prune \/ Advance)
            /\ SF_vars(StartPrune)
            /\ SF_vars(StartAdvance)

-------------------------------------------------------------------------------

TypeOK == /\ line \in [Place -> Unit \cup {Empty}]
          /\ reserve \subseteq Unit
          /\ retreat \in Seq(Unit)
          /\ routed \in Seq(Unit)
          /\ collapsed \subseteq Unit
          /\ pc \in {"idle", "prune", "deploy", "close", "advance"}
          /\ col \in 0 .. Columns - 1
          /\ allowed \in BOOLEAN
          /\ changed \in BOOLEAN
          /\ broken \subseteq Unit
          /\ left \in Nat
          /\ lined \in BOOLEAN

\* No regiment is lost or doubled while the sweeps move it about: each one is in
\* reserve, in exactly one slot, or exactly once on one of the two lists.
ExactlyOnePlace ==
    /\ \A p, q \in Place : line[p] = line[q] /\ line[p] # Empty => p = q
    /\ \A i, j \in DOMAIN retreat : retreat[i] = retreat[j] => i = j
    /\ \A i, j \in DOMAIN routed : routed[i] = routed[j] => i = j
    /\ Deployed(line) \cap reserve = {}
    /\ ToSet(retreat) \cap ToSet(routed) = {}
    /\ (Deployed(line) \cup reserve) \cap (ToSet(retreat) \cup ToSet(routed)) = {}
    /\ Unit = Deployed(line) \cup reserve \cup ToSet(retreat) \cup ToSet(routed)

\* With tactical retreat allowed one pass routs every regiment that was broken
\* and in front when it began, although the pass moves others past the sweep.
BrokenAreRouted == pc = "deploy" /\ allowed => broken \subseteq ToSet(routed)

\* Without it a pass gives up one regiment at most: the front cannot dissolve
\* in a day because no enemy is in reach.
OneRetreatAPass == ~allowed => left <= 1

\* Once the line has been reinforced, no regiment of the columns 1 .. Columns
\* stands behind an empty front slot.
NoGapInFrontOfReinforcements ==
    pc = "idle" /\ lined =>
        \A c \in 1 .. Columns : line[FrontSlot(c)] = Empty => line[BackSlot(c)] = Empty

\* A broken regiment does not stay in the front for ever, not even when the
\* passes let only one regiment go at a time.
BrokenLeavesTheFront ==
    \A u \in Unit :
        (u \in InFront(line) /\ u \in collapsed) ~> (u \notin InFront(line))

\* From some day on the front has no gap on either wing.
Compact == \A c \in 1 .. Columns - 2 :
              line[FrontSlot(c)] = Empty => line[FrontSlot(Outer(c))] = Empty
EventuallyCompact == <>[]Compact

===============================================================================
