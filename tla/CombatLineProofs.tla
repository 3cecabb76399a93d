--------------------------- MODULE CombatLineProofs ---------------------------
(***************************************************************************)
(* Proofs about CombatLine: the sweeps visit every column exactly once,    *)
(* no regiment is lost or doubled, a pass without tactical retreat gives   *)
(* up one regiment at most, one with it routs every broken regiment of the *)
(* front, and a line that is reinforced has no gap in front of anybody.    *)
(***************************************************************************)
EXTENDS CombatLine, CollectionLemmas

USE CombatLineAssumption DEF Columns, LastClosed

-------------------------------------------------------------------------------
(* The order of a sweep. *)

LEMMA SweepInRange == \A k \in 0 .. Columns - 1 : SweepColumn(k) \in 1 .. Columns
  <1> TAKE k \in 0 .. Columns - 1
  <1>1. CASE k % 2 = 0
    BY <1>1 DEF SweepColumn
  <1>2. CASE k % 2 # 0
    BY <1>2 DEF SweepColumn
  <1> QED
    BY <1>1, <1>2

\* The sweep from the centre to the flanks comes to every column.
LEMMA SweepIsOnto == \A c \in 1 .. Columns :
                         \E k \in 0 .. Columns - 1 : SweepColumn(k) = c
  <1> TAKE c \in 1 .. Columns
  <1>1. CASE c <= Half
    <2> DEFINE k == 2 * (Half + 1 - c) - 1
    <2>1. k \in 0 .. Columns - 1 /\ k % 2 = 1 /\ (k + 1) \div 2 = Half + 1 - c
      BY <1>1
    <2> HIDE DEF k
    <2>2. SweepColumn(k) = Half + 1 + (Half + 1 - c) * (-1)
      BY <2>1 DEF SweepColumn
    <2> QED
      BY <2>1, <2>2
  <1>2. CASE c > Half
    <2> DEFINE k == 2 * (c - Half - 1)
    <2>1. k \in 0 .. Columns - 1 /\ k % 2 = 0 /\ (k + 1) \div 2 = c - Half - 1
      BY <1>2
    <2> HIDE DEF k
    <2>2. SweepColumn(k) = Half + 1 + (c - Half - 1) * 1
      BY <2>1 DEF SweepColumn
    <2> QED
      BY <2>1, <2>2
  <1> QED
    BY <1>1, <1>2

\* It comes to none of them twice.
LEMMA SweepIsInjective ==
    \A j, k \in 0 .. Columns - 1 : SweepColumn(j) = SweepColumn(k) => j = k
  <1> TAKE j, k \in 0 .. Columns - 1
  <1>1. /\ j % 2 = 0 => j = 2 * ((j + 1) \div 2) /\ SweepColumn(j) = Half + 1 + (j + 1) \div 2
        /\ j % 2 # 0 => j = 2 * ((j + 1) \div 2) - 1 /\ SweepColumn(j) = Half + 1 - (j + 1) \div 2
        /\ (j + 1) \div 2 \in Nat /\ (j % 2 # 0 => (j + 1) \div 2 > 0)
    BY DEF SweepColumn
  <1>2. /\ k % 2 = 0 => k = 2 * ((k + 1) \div 2) /\ SweepColumn(k) = Half + 1 + (k + 1) \div 2
        /\ k % 2 # 0 => k = 2 * ((k + 1) \div 2) - 1 /\ SweepColumn(k) = Half + 1 - (k + 1) \div 2
        /\ (k + 1) \div 2 \in Nat /\ (k % 2 # 0 => (k + 1) \div 2 > 0)
    BY DEF SweepColumn
  <1> QED
    BY <1>1, <1>2

-------------------------------------------------------------------------------
(* Moving regiments about. *)

Board == [Place -> Unit \cup {Empty}]
NobodyTwice(l) == \A p, q \in Place : l[p] = l[q] /\ l[p] # Empty => p = q

\* Moving into a free slot, or nowhere, keeps every regiment on the line.
LEMMA MoveKeeps ==
    ASSUME NEW l \in Board, NEW from \in Place, NEW to \in Place,
           NobodyTwice(l), l[to] = Empty \/ to = from
    PROVE  /\ Move(l, from, to) \in Board
           /\ NobodyTwice(Move(l, from, to))
           /\ Deployed(Move(l, from, to)) = Deployed(l)
  <1> DEFINE m == Move(l, from, to)
  <1>1. /\ m \in Board
        /\ m[to] = l[from]
        /\ from # to => m[from] = Empty
        /\ \A p \in Place \ {from, to} : m[p] = l[p]
    BY DEF Board, Move
  <1> HIDE DEF m
  <1>2. NobodyTwice(m)
    BY <1>1 DEF NobodyTwice, Board
  <1>3. Deployed(m) \subseteq Deployed(l)
    BY <1>1 DEF Deployed, Board
  <1>4. Deployed(l) \subseteq Deployed(m)
    <2> SUFFICES ASSUME NEW p \in Place, l[p] # Empty
                 PROVE  \E q \in Place : m[q] = l[p]
      BY DEF Deployed
    <2>1. CASE p = from
      BY <1>1, <2>1
    <2>2. CASE p # from
      BY <1>1, <2>2
    <2> QED
      BY <2>1, <2>2
  <1> QED
    BY <1>1, <1>2, <1>3, <1>4 DEF m

\* So does AdvanceColumn, and no regiment of the first row gives up its slot.
LEMMA AdvanceKeeps ==
    ASSUME NEW l \in Board, NEW c \in 0 .. Columns, NobodyTwice(l)
    PROVE  /\ AdvanceColumn(l, c) \in Board
           /\ NobodyTwice(AdvanceColumn(l, c))
           /\ Deployed(AdvanceColumn(l, c)) = Deployed(l)
           /\ \A d \in Slot : l[FrontSlot(d)] # Empty =>
                 AdvanceColumn(l, c)[FrontSlot(d)] = l[FrontSlot(d)]
  <1> DEFINE to == Destination(l, c)
  <1>1. /\ BackSlot(c) \in Place
        /\ to \in Place
        /\ l[to] = Empty \/ to = BackSlot(c)
    BY DEF Destination, FrontSlot, BackSlot, Place, Slot
  <1> HIDE DEF to
  <1>2. CASE l[BackSlot(c)] = Empty
    BY <1>2 DEF AdvanceColumn
  <1>3. CASE l[BackSlot(c)] # Empty
    <2>1. AdvanceColumn(l, c) = Move(l, BackSlot(c), to)
      BY <1>3 DEF AdvanceColumn, to
    <2>2. \A d \in Slot : l[FrontSlot(d)] # Empty =>
             Move(l, BackSlot(c), to)[FrontSlot(d)] = l[FrontSlot(d)]
      BY <1>1 DEF Move, Board, FrontSlot, BackSlot, Place
    <2> QED
      BY <1>1, <2>1, <2>2, MoveKeeps
  <1> QED
    BY <1>2, <1>3

\* Taking regiment u out of column c and letting the one behind it step up.
LEMMA VacateKeeps ==
    ASSUME NEW l \in Board, NEW c \in 0 .. Columns, NobodyTwice(l),
           l[FrontSlot(c)] # Empty
    PROVE  LET m == AdvanceColumn([l EXCEPT ![FrontSlot(c)] = Empty], c)
           IN  /\ m \in Board
               /\ NobodyTwice(m)
               /\ Deployed(m) = Deployed(l) \ {l[FrontSlot(c)]}
               /\ \A d \in Slot \ {c} : l[FrontSlot(d)] # Empty =>
                     m[FrontSlot(d)] = l[FrontSlot(d)]
  <1> DEFINE v == [l EXCEPT ![FrontSlot(c)] = Empty]
  <1>1. /\ FrontSlot(c) \in Place
        /\ v \in Board
        /\ v[FrontSlot(c)] = Empty
        /\ \A p \in Place : p # FrontSlot(c) => v[p] = l[p]
    BY DEF Board, FrontSlot, Place, Slot
  <1> HIDE DEF v
  <1>2. NobodyTwice(v)
    BY <1>1 DEF NobodyTwice
  <1>3. Deployed(v) = Deployed(l) \ {l[FrontSlot(c)]}
    <2>1. \A p \in Place : p # FrontSlot(c) /\ l[p] # Empty => l[p] # l[FrontSlot(c)]
      BY <1>1 DEF NobodyTwice
    <2> QED
      BY <1>1, <2>1 DEF Deployed
  <1>4. \A d \in Slot \ {c} : v[FrontSlot(d)] = l[FrontSlot(d)]
    BY <1>1 DEF FrontSlot, Place
  <1>5. /\ AdvanceColumn(v, c) \in Board
        /\ NobodyTwice(AdvanceColumn(v, c))
        /\ Deployed(AdvanceColumn(v, c)) = Deployed(v)
        /\ \A d \in Slot : v[FrontSlot(d)] # Empty =>
              AdvanceColumn(v, c)[FrontSlot(d)] = v[FrontSlot(d)]
    BY <1>1, <1>2, AdvanceKeeps
  <1> QED
    BY <1>3, <1>4, <1>5 DEF v

NoRepeat(s) == \A i, j \in DOMAIN s : s[i] = s[j] => i = j

LEMMA AppendOnce ==
    ASSUME NEW s \in Seq(Unit), NoRepeat(s), NEW u \in Unit, u \notin ToSet(s)
    PROVE  /\ Append(s, u) \in Seq(Unit)
           /\ NoRepeat(Append(s, u))
           /\ ToSet(Append(s, u)) = ToSet(s) \cup {u}
  <1> DEFINE t == Append(s, u)
  <1>1. /\ t \in Seq(Unit)
        /\ Len(t) = Len(s) + 1
        /\ \A i \in 1 .. Len(s) : t[i] = s[i]
        /\ t[Len(s) + 1] = u
        /\ ToSet(t) = ToSet(s) \cup {u}
    BY AppendMembers
  <1>2. \A i \in 1 .. Len(s) : s[i] # u
    BY ToSetMembers
  <1> HIDE DEF t
  <1>3. DOMAIN t = 1 .. Len(s) + 1
    BY <1>1
  <1>4. NoRepeat(t)
    BY <1>1, <1>2, <1>3 DEF NoRepeat
  <1> QED
    BY <1>1, <1>4 DEF t

-------------------------------------------------------------------------------
(* The inductive invariant. *)

\* Four sets that divide the regiments still do when one changes sets.
Divided(D, R, A, B) == /\ D \cap R = {}
                       /\ A \cap B = {}
                       /\ (D \cup R) \cap (A \cup B) = {}
                       /\ Unit = D \cup R \cup A \cup B

LEMMA DividedMove ==
    ASSUME NEW D, NEW R, NEW A, NEW B, Divided(D, R, A, B), NEW u \in D
    PROVE  /\ Divided(D \ {u}, R, A \cup {u}, B)
           /\ Divided(D \ {u}, R, A, B \cup {u})
  BY DEF Divided

\* What ExactlyOnePlace says, with the definitions the lemmas speak of.
Placed == /\ NobodyTwice(line)
          /\ NoRepeat(retreat)
          /\ NoRepeat(routed)
          /\ Divided(Deployed(line), reserve, ToSet(retreat), ToSet(routed))

\* line_changed counts the regiments that left as long as there is one.
Counted == ~allowed => left = (IF changed THEN 1 ELSE 0)

IInv == /\ TypeOK
        /\ pc = "close" => col \in 1 .. Columns - 2
        /\ Placed
        /\ Counted

LEMMA InitInvariant == Init => IInv
  <1> SUFFICES ASSUME Init PROVE IInv
    OBVIOUS
  <1>1. Deployed(line) = {}
    BY DEF Init, Deployed, Place, Slot
  <1>2. ToSet(<<>>) = {}
    BY DEF ToSet
  <1>3. TypeOK
    <2>1. line \in [Place -> Unit \cup {Empty}]
      BY DEF Init
    <2>2. <<>> \in Seq(Unit) /\ 0 \in 0 .. Columns - 1
      OBVIOUS
    <2> QED
      BY <2>1, <2>2 DEF Init, TypeOK
  <1>4. NobodyTwice(line) /\ NoRepeat(<<>>)
    BY DEF Init, NobodyTwice, NoRepeat
  <1>5. Placed
    BY <1>1, <1>2, <1>4 DEF Init, Placed, Divided
  <1> QED
    BY <1>3, <1>5 DEF Init, IInv, Counted

\* A regiment that leaves goes from the line to one list.
LEMMA LeavingKeeps ==
    ASSUME IInv, NEW s \in 0 .. Columns - 1, NEW u \in Unit,
           line[FrontSlot(s)] = u,
           line' = AdvanceColumn([line EXCEPT ![FrontSlot(s)] = Empty], s),
           reserve' = reserve,
           \/ retreat' = Append(retreat, u) /\ routed' = routed
           \/ routed' = Append(routed, u) /\ retreat' = retreat
    PROVE  /\ line' \in Board
           /\ retreat' \in Seq(Unit)
           /\ routed' \in Seq(Unit)
           /\ Placed'
  <1>1. /\ line \in Board /\ NobodyTwice(line) /\ u # Empty
        /\ retreat \in Seq(Unit) /\ routed \in Seq(Unit)
        /\ NoRepeat(retreat) /\ NoRepeat(routed)
    BY DEF IInv, TypeOK, Placed, Board
  <1>2. /\ line' \in Board
        /\ NobodyTwice(line')
        /\ Deployed(line') = Deployed(line) \ {u}
    <2>1. s \in 0 .. Columns /\ line[FrontSlot(s)] # Empty
      BY <1>1
    <2> DEFINE m == AdvanceColumn([line EXCEPT ![FrontSlot(s)] = Empty], s)
    <2>2. /\ m \in Board
          /\ NobodyTwice(m)
          /\ Deployed(m) = Deployed(line) \ {line[FrontSlot(s)]}
      BY <1>1, <2>1, VacateKeeps
    <2> QED
      BY <2>2
  <1>3. u \in Deployed(line)
    BY <1>1 DEF Deployed, Place, FrontSlot, Slot
  <1>4. u \notin ToSet(retreat) /\ u \notin ToSet(routed)
    BY <1>3 DEF IInv, Placed, Divided
  <1>5. CASE retreat' = Append(retreat, u) /\ routed' = routed
    <2>1. /\ retreat' \in Seq(Unit)
          /\ NoRepeat(retreat')
          /\ ToSet(retreat') = ToSet(retreat) \cup {u}
      BY <1>1, <1>4, <1>5, AppendOnce
    <2>2. NoRepeat(routed') /\ ToSet(routed') = ToSet(routed)
      BY <1>1, <1>5
    <2>3. Divided(Deployed(line'), reserve', ToSet(retreat'), ToSet(routed'))
      <3>1. Divided(Deployed(line), reserve, ToSet(retreat), ToSet(routed))
        BY DEF IInv, Placed
      <3>2. Divided(Deployed(line) \ {u}, reserve, ToSet(retreat) \cup {u}, ToSet(routed))
        BY <1>3, <3>1, DividedMove
      <3> QED
        BY <1>2, <2>1, <2>2, <3>2
    <2>4. Placed'
      BY <1>2, <2>1, <2>2, <2>3 DEF Placed
    <2> QED
      BY <1>1, <1>2, <1>5, <2>1, <2>4
  <1>6. CASE routed' = Append(routed, u) /\ retreat' = retreat
    <2>1. /\ routed' \in Seq(Unit)
          /\ NoRepeat(routed')
          /\ ToSet(routed') = ToSet(routed) \cup {u}
      BY <1>1, <1>4, <1>6, AppendOnce
    <2>2. NoRepeat(retreat') /\ ToSet(retreat') = ToSet(retreat)
      BY <1>1, <1>6
    <2>3. Divided(Deployed(line'), reserve', ToSet(retreat'), ToSet(routed'))
      <3>1. Divided(Deployed(line), reserve, ToSet(retreat), ToSet(routed))
        BY DEF IInv, Placed
      <3>2. Divided(Deployed(line) \ {u}, reserve, ToSet(retreat), ToSet(routed) \cup {u})
        BY <1>3, <3>1, DividedMove
      <3> QED
        BY <1>2, <2>1, <2>2, <3>2
    <2>4. Placed'
      BY <1>2, <2>1, <2>2, <2>3 DEF Placed
    <2> QED
      BY <1>1, <1>2, <1>6, <2>1, <2>4
  <1> QED
    BY <1>5, <1>6

LEMMA PruneSlotInRange == IInv => PruneSlot \in 0 .. Columns - 1
  BY SweepInRange DEF IInv, TypeOK, PruneSlot

\* A step that only moves regiments within the line leaves the rest in place.
LEMMA MovingKeeps ==
    ASSUME IInv, line' \in Board, NobodyTwice(line'),
           Deployed(line') = Deployed(line),
           UNCHANGED <<reserve, retreat, routed>>
    PROVE  Placed'
  <1>1. /\ NoRepeat(retreat') /\ NoRepeat(routed')
        /\ ToSet(retreat') = ToSet(retreat) /\ ToSet(routed') = ToSet(routed)
    BY DEF IInv, Placed
  <1>2. Divided(Deployed(line'), reserve', ToSet(retreat'), ToSet(routed'))
    BY <1>1 DEF IInv, Placed
  <1> QED
    BY <1>1, <1>2 DEF Placed

LEMMA LineFacts == IInv => line \in Board /\ NobodyTwice(line)
  BY DEF IInv, TypeOK, Placed, Board

LEMMA CollapsePreserves == IInv /\ Collapse => IInv'
  <1> SUFFICES ASSUME IInv, Collapse PROVE IInv'
    OBVIOUS
  <1>1. collapsed' \subseteq Unit
    BY DEF Collapse, IInv, TypeOK, Deployed
  <1>2. Placed'
    BY LineFacts, MovingKeeps DEF Collapse
  <1> QED
    BY <1>1, <1>2 DEF Collapse, IInv, TypeOK, Counted

LEMMA StartPrunePreserves == IInv /\ StartPrune => IInv'
  <1> SUFFICES ASSUME IInv, StartPrune PROVE IInv'
    OBVIOUS
  <1>1. Placed'
    BY LineFacts, MovingKeeps DEF StartPrune
  <1>2. TypeOK'
    <2>1. broken' \subseteq Unit
      BY DEF StartPrune, IInv, TypeOK
    <2>2. col' \in 0 .. Columns - 1 /\ left' \in Nat
      BY DEF StartPrune
    <2> QED
      BY <2>1, <2>2 DEF StartPrune, IInv, TypeOK
  <1> QED
    BY <1>1, <1>2 DEF StartPrune, IInv, Counted

LEMMA PruneEmptyPreserves == IInv /\ PruneEmpty => IInv'
  <1> SUFFICES ASSUME IInv, PruneEmpty PROVE IInv'
    OBVIOUS
  <1>1. /\ line' \in Board /\ NobodyTwice(line')
        /\ Deployed(line') = Deployed(line)
    <2>1. PruneSlot \in 0 .. Columns
      BY PruneSlotInRange
    <2>2. line' = AdvanceColumn(line, PruneSlot)
      BY DEF PruneEmpty
    <2> HIDE DEF PruneSlot
    <2> QED
      BY <2>1, <2>2, LineFacts, AdvanceKeeps
  <1>2. Placed'
    BY <1>1, MovingKeeps DEF PruneEmpty
  <1>3. TypeOK' /\ pc' # "close"
    BY <1>1 DEF PruneEmpty, NextPruneColumn, IInv, TypeOK, Board
  <1> QED
    BY <1>2, <1>3 DEF PruneEmpty, IInv, Counted

LEMMA PruneKeepPreserves == IInv /\ PruneKeep => IInv'
  <1> SUFFICES ASSUME IInv, PruneKeep PROVE IInv'
    OBVIOUS
  <1>1. Placed'
    BY LineFacts, MovingKeeps DEF PruneKeep
  <1>2. TypeOK' /\ pc' # "close"
    BY DEF PruneKeep, NextPruneColumn, IInv, TypeOK
  <1> QED
    BY <1>1, <1>2 DEF PruneKeep, IInv, Counted

\* The regiment the sweep has come to, when there is one.
LEMMA VisitedUnit ==
    ASSUME IInv, Visited # Empty
    PROVE  Visited \in Unit
  <1>1. FrontSlot(PruneSlot) \in Place
    BY PruneSlotInRange DEF FrontSlot, Place, Slot
  <1> QED
    BY <1>1 DEF IInv, TypeOK, Visited

LEMMA PruneRoutPreserves == IInv /\ PruneRout => IInv'
  <1> SUFFICES ASSUME IInv, PruneRout PROVE IInv'
    OBVIOUS
  <1>1. Visited \in Unit /\ Visited # Empty
    BY DEF PruneRout, IInv, TypeOK
  <1>2. /\ line' \in Board
        /\ retreat' \in Seq(Unit)
        /\ routed' \in Seq(Unit)
        /\ Placed'
    <2>1. /\ PruneSlot \in 0 .. Columns - 1
          /\ line[FrontSlot(PruneSlot)] = Visited
          /\ line' = AdvanceColumn([line EXCEPT ![FrontSlot(PruneSlot)] = Empty],
                                   PruneSlot)
          /\ reserve' = reserve
          /\ routed' = Append(routed, Visited) /\ retreat' = retreat
      BY PruneSlotInRange DEF PruneRout, Vacate, Visited
    <2> HIDE DEF PruneSlot, Visited
    <2> QED
      BY <1>1, <2>1, LeavingKeeps
  <1>3. TypeOK' /\ pc' # "close"
    <2>1. col' \in 0 .. Columns - 1 /\ pc' \in {"prune", "deploy"}
      BY DEF PruneRout, NextPruneColumn, IInv, TypeOK
    <2>2. left' \in Nat /\ changed' \in BOOLEAN
      BY DEF PruneRout, Vacate, IInv, TypeOK
    <2> QED
      BY <1>2, <2>1, <2>2 DEF PruneRout, IInv, TypeOK, Board
  <1>4. Counted'
    BY DEF PruneRout, Counted
  <1> QED
    BY <1>2, <1>3, <1>4 DEF IInv

LEMMA PruneRetreatPreserves == IInv /\ PruneRetreat => IInv'
  <1> SUFFICES ASSUME IInv, PruneRetreat PROVE IInv'
    OBVIOUS
  <1>1. Visited \in Unit /\ Visited # Empty
    BY VisitedUnit DEF PruneRetreat
  <1>2. /\ line' \in Board
        /\ retreat' \in Seq(Unit)
        /\ routed' \in Seq(Unit)
        /\ Placed'
    <2>1. /\ PruneSlot \in 0 .. Columns - 1
          /\ line[FrontSlot(PruneSlot)] = Visited
          /\ line' = AdvanceColumn([line EXCEPT ![FrontSlot(PruneSlot)] = Empty],
                                   PruneSlot)
          /\ reserve' = reserve
          /\ retreat' = Append(retreat, Visited) /\ routed' = routed
      BY PruneSlotInRange DEF PruneRetreat, Vacate, Visited
    <2> HIDE DEF PruneSlot, Visited
    <2> QED
      BY <1>1, <2>1, LeavingKeeps
  <1>3. TypeOK' /\ pc' # "close"
    <2>1. col' \in 0 .. Columns - 1 /\ pc' \in {"prune", "deploy"}
      BY DEF PruneRetreat, NextPruneColumn, IInv, TypeOK
    <2>2. left' \in Nat /\ changed' \in BOOLEAN
      BY DEF PruneRetreat, Vacate, IInv, TypeOK
    <2> QED
      BY <1>2, <2>1, <2>2 DEF PruneRetreat, IInv, TypeOK, Board
  <1>4. Counted'
    <2>1. ~changed /\ left = 0
      BY DEF PruneRetreat, Retreats, IInv, Counted
    <2> QED
      BY <2>1 DEF PruneRetreat, Vacate, Counted
  <1> QED
    BY <1>2, <1>3, <1>4 DEF IInv

LEMMA DeployPreserves == IInv /\ Deploy => IInv'
  <1> SUFFICES ASSUME IInv, Deploy PROVE IInv'
    OBVIOUS
  <1>1. PICK u \in reserve, c \in DeployTo, row \in {"front", "back"} :
           /\ line[<<row, c>>] = Empty
           /\ line' = [line EXCEPT ![<<row, c>>] = u]
           /\ reserve' = reserve \ {u}
    BY DEF Deploy
  <1>2. /\ u \in Unit /\ u # Empty /\ <<row, c>> \in Place
        /\ u \notin Deployed(line)
    BY DEF IInv, TypeOK, Place, Placed, Divided
  <1>3. /\ line' \in Board
        /\ line'[<<row, c>>] = u
        /\ \A p \in Place : p # <<row, c>> => line'[p] = line[p]
    BY <1>1, <1>2, LineFacts DEF Board
  <1>4. Deployed(line') = Deployed(line) \cup {u}
    BY <1>1, <1>2, <1>3 DEF Deployed
  <1>5. NobodyTwice(line')
    <2>1. \A p \in Place : line[p] # u
      BY <1>2 DEF Deployed
    <2> QED
      BY <1>2, <1>3, <2>1, LineFacts DEF NobodyTwice
  <1>6. /\ NoRepeat(retreat') /\ NoRepeat(routed')
        /\ ToSet(retreat') = ToSet(retreat) /\ ToSet(routed') = ToSet(routed)
    BY DEF Deploy, IInv, Placed
  <1>7. Divided(Deployed(line'), reserve', ToSet(retreat'), ToSet(routed'))
    <2>1. Divided(Deployed(line), reserve, ToSet(retreat), ToSet(routed))
      BY DEF IInv, Placed
    <2>2. Divided(Deployed(line) \cup {u}, reserve \ {u},
                  ToSet(retreat), ToSet(routed))
      BY <2>1 DEF Divided
    <2> QED
      BY <1>1, <1>4, <1>6, <2>2
  <1>8. Placed'
    BY <1>5, <1>6, <1>7 DEF Placed
  <1>9. TypeOK' /\ pc' # "close"
    BY <1>1, <1>3 DEF Deploy, IInv, TypeOK, Board
  <1> QED
    BY <1>8, <1>9 DEF Deploy, IInv, Counted

LEMMA EndDeployPreserves == IInv /\ EndDeploy => IInv'
  <1> SUFFICES ASSUME IInv, EndDeploy PROVE IInv'
    OBVIOUS
  <1>1. Placed'
    BY LineFacts, MovingKeeps DEF EndDeploy
  <1>2. TypeOK' /\ col' \in 1 .. Columns - 2
    BY DEF EndDeploy, IInv, TypeOK
  <1> QED
    BY <1>1, <1>2 DEF EndDeploy, IInv, Counted

LEMMA CloseGapPreserves == IInv /\ CloseGap => IInv'
  <1> SUFFICES ASSUME IInv, CloseGap PROVE IInv'
    OBVIOUS
  <1>1. /\ FrontSlot(col) \in Place
        /\ FrontSlot(Outer(col)) \in Place
    BY DEF CloseGap, IInv, FrontSlot, Outer, Place, Slot
  <1>2. /\ line' \in Board /\ NobodyTwice(line')
        /\ Deployed(line') = Deployed(line)
    <2>1. CASE line[FrontSlot(col)] = Empty
      BY <1>1, <2>1, LineFacts, MoveKeeps DEF CloseGap
    <2>2. CASE line[FrontSlot(col)] # Empty
      BY <2>2, LineFacts DEF CloseGap
    <2> QED
      BY <2>1, <2>2
  <1>3. Placed'
    BY <1>2, MovingKeeps DEF CloseGap
  <1>4. TypeOK' /\ (pc' = "close" => col' \in 1 .. Columns - 2)
    BY <1>2 DEF CloseGap, IInv, TypeOK, Board
  <1> QED
    BY <1>3, <1>4 DEF CloseGap, IInv, Counted

LEMMA StartAdvancePreserves == IInv /\ StartAdvance => IInv'
  <1> SUFFICES ASSUME IInv, StartAdvance PROVE IInv'
    OBVIOUS
  <1>1. Placed'
    BY LineFacts, MovingKeeps DEF StartAdvance
  <1>2. TypeOK' /\ pc' # "close"
    <2>1. col' \in 0 .. Columns - 1
      BY DEF StartAdvance
    <2> QED
      BY <2>1 DEF StartAdvance, IInv, TypeOK
  <1> QED
    BY <1>1, <1>2 DEF StartAdvance, IInv, Counted

LEMMA AdvanceNextPreserves == IInv /\ AdvanceNext => IInv'
  <1> SUFFICES ASSUME IInv, AdvanceNext PROVE IInv'
    OBVIOUS
  <1>1. SweepColumn(col) \in 0 .. Columns
    BY SweepInRange DEF IInv, TypeOK
  <1>2. /\ line' \in Board /\ NobodyTwice(line')
        /\ Deployed(line') = Deployed(line)
    BY <1>1, LineFacts, AdvanceKeeps DEF AdvanceNext
  <1>3. Placed'
    BY <1>2, MovingKeeps DEF AdvanceNext
  <1>4. TypeOK' /\ pc' # "close"
    <2>1. col' \in 0 .. Columns - 1 /\ pc' \in {"advance", "idle"}
      BY DEF AdvanceNext, IInv, TypeOK
    <2>2. lined' \in BOOLEAN
      BY Zenon DEF AdvanceNext
    <2> QED
      BY <1>2, <2>1, <2>2 DEF AdvanceNext, IInv, TypeOK, Board
  <1> QED
    BY <1>3, <1>4 DEF AdvanceNext, IInv, Counted

THEOREM Invariance == Spec => []IInv
  <1>1. IInv /\ [Next]_vars => IInv'
    <2> SUFFICES ASSUME IInv, [Next]_vars PROVE IInv'
      OBVIOUS
    <2>1. CASE UNCHANGED vars
      <3>1. Placed'
        BY <2>1, LineFacts, MovingKeeps DEF vars
      <3>2. TypeOK'
        BY <2>1 DEF vars, IInv, TypeOK
      <3> QED
        BY <2>1, <3>1, <3>2 DEF vars, IInv, Counted
    <2> QED
      BY <2>1, CollapsePreserves, StartPrunePreserves, PruneEmptyPreserves,
         PruneRoutPreserves, PruneRetreatPreserves, PruneKeepPreserves,
         DeployPreserves, EndDeployPreserves, CloseGapPreserves,
         StartAdvancePreserves, AdvanceNextPreserves
         DEF Next, Prune, Advance
  <1> QED
    BY <1>1, InitInvariant, PTL DEF Spec

-------------------------------------------------------------------------------
(* With tactical retreat allowed, the sweep misses no broken regiment. *)

\* The last two slots of both rows are never used when the reserve is deployed
\* to the columns the first sweep looks at.
LastSlotsFree == \A c \in Slot : c >= Columns =>
                     line[FrontSlot(c)] = Empty /\ line[BackSlot(c)] = Empty

\* A regiment that was broken and in front when the pass began is routed, or it
\* still is in a column the sweep has not come to.
Ahead(u) == \E k \in col .. Columns - 1 : line[FrontSlot(SweepColumn(k) - 1)] = u
BrokenAhead == pc = "prune" /\ allowed =>
                   \A u \in broken : u \in ToSet(routed) \/ Ahead(u)

RInv == /\ LastSlotsFree
        /\ broken \subseteq collapsed
        /\ BrokenAhead
        /\ BrokenAreRouted

\* Advancing a column leaves the last slots free.
LEMMA AdvanceInside ==
    ASSUME NEW l \in Board, NEW c \in 0 .. Columns,
           \A d \in Slot : d >= Columns =>
              l[FrontSlot(d)] = Empty /\ l[BackSlot(d)] = Empty
    PROVE  \A d \in Slot : d >= Columns =>
              /\ AdvanceColumn(l, c)[FrontSlot(d)] = Empty
              /\ AdvanceColumn(l, c)[BackSlot(d)] = Empty
  <1>1. CASE l[BackSlot(c)] = Empty
    BY <1>1 DEF AdvanceColumn
  <1>2. CASE l[BackSlot(c)] # Empty
    <2> DEFINE to == Destination(l, c)
               m == AdvanceColumn(l, c)
    <2>1. c \in 0 .. Columns - 1
      BY <1>2 DEF Slot
    <2>2. to = BackSlot(c) \/ \E d \in 0 .. Columns - 1 : to = FrontSlot(d)
      BY <2>1 DEF Destination
    <2>3. \A p \in Place \ {BackSlot(c), to} : m[p] = l[p]
      BY <1>2 DEF AdvanceColumn, Move, Board
    <2> HIDE DEF m, to
    <2>4. SUFFICES ASSUME NEW d \in Slot, d >= Columns
                   PROVE  m[FrontSlot(d)] = Empty /\ m[BackSlot(d)] = Empty
      BY DEF m
    <2>5. /\ FrontSlot(d) \in Place \ {BackSlot(c), to}
          /\ BackSlot(d) \in Place \ {BackSlot(c), to}
      BY <2>1, <2>2, <2>4 DEF FrontSlot, BackSlot, Place
    <2> QED
      BY <2>3, <2>4, <2>5
  <1> QED
    BY <1>1, <1>2

\* Vacating one does, too.
LEMMA VacateInside ==
    ASSUME NEW l \in Board, NEW c \in 0 .. Columns - 1,
           \A d \in Slot : d >= Columns =>
              l[FrontSlot(d)] = Empty /\ l[BackSlot(d)] = Empty
    PROVE  LET m == AdvanceColumn([l EXCEPT ![FrontSlot(c)] = Empty], c)
           IN  \A d \in Slot : d >= Columns =>
                  m[FrontSlot(d)] = Empty /\ m[BackSlot(d)] = Empty
  <1> DEFINE v == [l EXCEPT ![FrontSlot(c)] = Empty]
  <1>1. v \in Board
    BY DEF Board, FrontSlot, Place, Slot
  <1>2. \A d \in Slot : d >= Columns =>
           v[FrontSlot(d)] = Empty /\ v[BackSlot(d)] = Empty
    BY DEF Board, FrontSlot, BackSlot, Place, Slot
  <1> HIDE DEF v
  <1>3. \A d \in Slot : d >= Columns =>
           /\ AdvanceColumn(v, c)[FrontSlot(d)] = Empty
           /\ AdvanceColumn(v, c)[BackSlot(d)] = Empty
    BY <1>1, <1>2, AdvanceInside
  <1> QED
    BY <1>3 DEF v

\* One column of the sweep, whatever it does there.
LEMMA SweepStep ==
    ASSUME IInv, RInv, pc = "prune", allowed, NextPruneColumn,
           broken' = broken,
           \A k \in col + 1 .. Columns - 1 :
              line[FrontSlot(SweepColumn(k) - 1)] # Empty =>
                 line'[FrontSlot(SweepColumn(k) - 1)]
                    = line[FrontSlot(SweepColumn(k) - 1)],
           ToSet(routed) \subseteq ToSet(routed'),
           Visited \in broken => Visited \in ToSet(routed')
    PROVE  BrokenAhead' /\ BrokenAreRouted'
  <1>1. ASSUME NEW u \in broken, u \notin ToSet(routed')
        PROVE  \E k \in col + 1 .. Columns - 1 :
                  line'[FrontSlot(SweepColumn(k) - 1)] = u
    <2>1. u # Empty /\ col \in 0 .. Columns - 1
      BY DEF IInv, TypeOK
    <2>2. PICK k \in col .. Columns - 1 : line[FrontSlot(SweepColumn(k) - 1)] = u
      BY <1>1 DEF RInv, BrokenAhead, Ahead
    <2>3. k # col
      BY <1>1, <2>2 DEF Visited, PruneSlot
    <2>4. k \in col + 1 .. Columns - 1
      BY <2>1, <2>3
    <2> QED
      BY <2>1, <2>2, <2>4
  <1>2. BrokenAreRouted'
    <2> SUFFICES ASSUME pc' = "deploy" PROVE broken \subseteq ToSet(routed')
      BY DEF BrokenAreRouted
    <2>1. ~(col + 1 < Columns) /\ col \in 0 .. Columns - 1
      BY DEF NextPruneColumn, IInv, TypeOK
    <2> QED
      BY <1>1, <2>1
  <1>3. BrokenAhead'
    <2> SUFFICES ASSUME pc' = "prune", NEW u \in broken, u \notin ToSet(routed')
                 PROVE  \E k \in col' .. Columns - 1 :
                           line'[FrontSlot(SweepColumn(k) - 1)] = u
      BY DEF BrokenAhead, Ahead, SweepColumn
    <2>1. col' = col + 1
      BY DEF NextPruneColumn
    <2> QED
      BY <1>1, <2>1
  <1> QED
    BY <1>2, <1>3

\* Columns still to come are not the one the sweep is at.
LEMMA OtherColumns ==
    ASSUME IInv, NEW k \in col + 1 .. Columns - 1
    PROVE  /\ PruneSlot \in 0 .. Columns - 1
           /\ SweepColumn(k) - 1 \in Slot \ {PruneSlot}
  <1>1. col \in 0 .. Columns - 1 /\ k \in 0 .. Columns - 1 /\ k # col
    BY DEF IInv, TypeOK
  <1>2. /\ SweepColumn(k) \in 1 .. Columns
        /\ SweepColumn(col) \in 1 .. Columns
        /\ SweepColumn(k) # SweepColumn(col)
    BY <1>1, SweepInRange, SweepIsInjective
  <1> QED
    BY <1>2 DEF PruneSlot, Slot

LEMMA PruneEmptyRouts == IInv /\ RInv /\ PruneEmpty => RInv'
  <1> SUFFICES ASSUME IInv, RInv, PruneEmpty PROVE RInv'
    OBVIOUS
  <1>1. /\ line \in Board /\ NobodyTwice(line) /\ PruneSlot \in 0 .. Columns
        /\ line' = AdvanceColumn(line, PruneSlot)
    BY LineFacts, PruneSlotInRange DEF PruneEmpty
  <1>2. LastSlotsFree'
    <2>1. \A d \in Slot : d >= Columns =>
             line[FrontSlot(d)] = Empty /\ line[BackSlot(d)] = Empty
      BY DEF RInv, LastSlotsFree
    <2> HIDE DEF PruneSlot
    <2>2. \A d \in Slot : d >= Columns =>
             line'[FrontSlot(d)] = Empty /\ line'[BackSlot(d)] = Empty
      BY <1>1, <2>1, AdvanceInside
    <2> QED
      BY <2>2 DEF LastSlotsFree, FrontSlot, BackSlot
  <1>3. \A k \in col + 1 .. Columns - 1 :
              line[FrontSlot(SweepColumn(k) - 1)] # Empty =>
                 line'[FrontSlot(SweepColumn(k) - 1)]
                    = line[FrontSlot(SweepColumn(k) - 1)]
    BY <1>1, OtherColumns, AdvanceKeeps
  <1>4. Visited \notin broken
    BY DEF PruneEmpty, IInv, TypeOK
  <1>5. BrokenAhead' /\ BrokenAreRouted'
    <2>1. CASE allowed
      BY <1>3, <1>4, <2>1, SweepStep DEF PruneEmpty
    <2>2. CASE ~allowed
      BY <2>2 DEF PruneEmpty, BrokenAhead, BrokenAreRouted
    <2> QED
      BY <2>1, <2>2
  <1> QED
    BY <1>2, <1>5 DEF PruneEmpty, RInv

LEMMA PruneKeepRouts == IInv /\ RInv /\ PruneKeep => RInv'
  <1> SUFFICES ASSUME IInv, RInv, PruneKeep PROVE RInv'
    OBVIOUS
  <1>1. LastSlotsFree'
    BY DEF PruneKeep, RInv, LastSlotsFree, FrontSlot, BackSlot
  <1>2. BrokenAhead' /\ BrokenAreRouted'
    <2>1. CASE allowed
      <3>1. Visited \notin broken
        BY <2>1 DEF PruneKeep, RInv
      <3> QED
        BY <2>1, <3>1, SweepStep DEF PruneKeep
    <2>2. CASE ~allowed
      BY <2>2 DEF PruneKeep, BrokenAhead, BrokenAreRouted
    <2> QED
      BY <2>1, <2>2
  <1> QED
    BY <1>1, <1>2 DEF PruneKeep, RInv

\* The two steps that take a regiment out.
LEMMA VacateRouts ==
    ASSUME IInv, RInv, pc = "prune", Visited # Empty, Vacate, NextPruneColumn,
           broken' = broken, collapsed' = collapsed, allowed' = allowed,
           allowed => /\ ToSet(routed) \subseteq ToSet(routed')
                      /\ Visited \in ToSet(routed')
    PROVE  RInv'
  <1>1. /\ line \in Board /\ NobodyTwice(line)
        /\ PruneSlot \in 0 .. Columns - 1 /\ PruneSlot \in 0 .. Columns
        /\ line[FrontSlot(PruneSlot)] # Empty
        /\ line' = AdvanceColumn([line EXCEPT ![FrontSlot(PruneSlot)] = Empty],
                                 PruneSlot)
    BY LineFacts, PruneSlotInRange DEF Vacate, Visited
  <1>2. LastSlotsFree'
    <2>1. \A d \in Slot : d >= Columns =>
             line[FrontSlot(d)] = Empty /\ line[BackSlot(d)] = Empty
      BY DEF RInv, LastSlotsFree
    <2> HIDE DEF PruneSlot
    <2>2. \A d \in Slot : d >= Columns =>
             line'[FrontSlot(d)] = Empty /\ line'[BackSlot(d)] = Empty
      BY <1>1, <2>1, VacateInside
    <2> QED
      BY <2>2 DEF LastSlotsFree, FrontSlot, BackSlot
  <1>3. \A k \in col + 1 .. Columns - 1 :
              line[FrontSlot(SweepColumn(k) - 1)] # Empty =>
                 line'[FrontSlot(SweepColumn(k) - 1)]
                    = line[FrontSlot(SweepColumn(k) - 1)]
    <2>1. \A d \in Slot \ {PruneSlot} : line[FrontSlot(d)] # Empty =>
              line'[FrontSlot(d)] = line[FrontSlot(d)]
      <3> HIDE DEF PruneSlot
      <3> QED
        BY <1>1, VacateKeeps
    <2> QED
      BY <2>1, OtherColumns
  <1>4. BrokenAhead' /\ BrokenAreRouted'
    <2>1. CASE allowed
      BY <1>3, <2>1, SweepStep
    <2>2. CASE ~allowed
      BY <2>2 DEF BrokenAhead, BrokenAreRouted
    <2> QED
      BY <2>1, <2>2
  <1> QED
    BY <1>2, <1>4 DEF RInv

LEMMA PruneRoutRouts == IInv /\ RInv /\ PruneRout => RInv'
  <1> SUFFICES ASSUME IInv, RInv, PruneRout PROVE RInv'
    OBVIOUS
  <1>1. Visited \in Unit /\ Visited # Empty /\ routed \in Seq(Unit)
    BY DEF PruneRout, IInv, TypeOK
  <1>2. ToSet(routed') = ToSet(routed) \cup {Visited}
    BY <1>1, AppendMembers DEF PruneRout
  <1> QED
    BY <1>1, <1>2, VacateRouts DEF PruneRout

LEMMA PruneRetreatRouts == IInv /\ RInv /\ PruneRetreat => RInv'
  <1> SUFFICES ASSUME IInv, RInv, PruneRetreat PROVE RInv'
    OBVIOUS
  <1>1. ~allowed /\ Visited # Empty
    BY DEF PruneRetreat, Retreats
  <1> QED
    BY <1>1, VacateRouts DEF PruneRetreat

LEMMA StartPruneRouts == IInv /\ RInv /\ StartPrune => RInv'
  <1> SUFFICES ASSUME IInv, RInv, StartPrune PROVE RInv'
    OBVIOUS
  <1>1. ASSUME NEW u \in InFront(line)
        PROVE  \E k \in 0 .. Columns - 1 : line[FrontSlot(SweepColumn(k) - 1)] = u
    <2>1. PICK c \in Slot : line[FrontSlot(c)] = u /\ u # Empty
      BY DEF InFront
    <2>2. c \in 0 .. Columns - 1
      BY <2>1 DEF RInv, LastSlotsFree, Slot
    <2>3. PICK k \in 0 .. Columns - 1 : SweepColumn(k) = c + 1
      BY <2>2, SweepIsOnto
    <2>4. SweepColumn(k) - 1 = c
      BY <2>2, <2>3
    <2> QED
      BY <2>1, <2>4
  <1>2. BrokenAhead'
    <2> SUFFICES ASSUME NEW u \in broken'
                 PROVE  \E k \in col' .. Columns - 1 :
                           line'[FrontSlot(SweepColumn(k) - 1)] = u
      BY DEF BrokenAhead, Ahead, SweepColumn
    <2> QED
      BY <1>1 DEF StartPrune
  <1> QED
    BY <1>2 DEF StartPrune, RInv, LastSlotsFree, BrokenAreRouted, FrontSlot,
                BackSlot

LEMMA CloseGapRouts == IInv /\ RInv /\ CloseGap => RInv'
  <1> SUFFICES ASSUME IInv, RInv, CloseGap PROVE RInv'
    OBVIOUS
  <1>1. /\ line \in Board /\ col \in 1 .. Columns - 2
        /\ Outer(col) \in 0 .. Columns - 1
    BY LineFacts DEF IInv, CloseGap, Outer
  <1>2. LastSlotsFree'
    <2> SUFFICES ASSUME NEW d \in Slot, d >= Columns
                 PROVE  line'[FrontSlot(d)] = Empty /\ line'[BackSlot(d)] = Empty
      BY DEF LastSlotsFree, FrontSlot, BackSlot
    <2>1. line[FrontSlot(d)] = Empty /\ line[BackSlot(d)] = Empty
      BY DEF RInv, LastSlotsFree
    <2>2. CASE line[FrontSlot(col)] = Empty
      <3>1. line' = Move(line, FrontSlot(Outer(col)), FrontSlot(col))
        BY <2>2 DEF CloseGap
      <3>2. /\ FrontSlot(d) \in Place /\ BackSlot(d) \in Place
            /\ FrontSlot(d) # FrontSlot(col)
            /\ FrontSlot(d) # FrontSlot(Outer(col))
            /\ BackSlot(d) # FrontSlot(col)
            /\ BackSlot(d) # FrontSlot(Outer(col))
        BY <1>1 DEF FrontSlot, BackSlot, Place
      <3> QED
        BY <1>1, <2>1, <3>1, <3>2 DEF Move, Board
    <2>3. CASE line[FrontSlot(col)] # Empty
      BY <2>1, <2>3 DEF CloseGap
    <2> QED
      BY <2>2, <2>3
  <1>3. pc' \in {"close", "idle"}
    BY DEF CloseGap
  <1> QED
    BY <1>2, <1>3 DEF CloseGap, RInv, BrokenAhead, BrokenAreRouted

LEMMA AdvanceNextRouts == IInv /\ RInv /\ AdvanceNext => RInv'
  <1> SUFFICES ASSUME IInv, RInv, AdvanceNext PROVE RInv'
    OBVIOUS
  <1>1. /\ line \in Board /\ SweepColumn(col) \in 0 .. Columns
        /\ line' = AdvanceColumn(line, SweepColumn(col))
    BY LineFacts, SweepInRange DEF IInv, TypeOK, AdvanceNext
  <1>2. \A d \in Slot : d >= Columns =>
           line[FrontSlot(d)] = Empty /\ line[BackSlot(d)] = Empty
    BY DEF RInv, LastSlotsFree
  <1>3. \A d \in Slot : d >= Columns =>
           line'[FrontSlot(d)] = Empty /\ line'[BackSlot(d)] = Empty
    BY <1>1, <1>2, AdvanceInside
  <1>4. LastSlotsFree'
    BY <1>3 DEF LastSlotsFree, FrontSlot, BackSlot
  <1>5. pc' \in {"advance", "idle"}
    BY DEF AdvanceNext
  <1> QED
    BY <1>4, <1>5 DEF AdvanceNext, RInv, BrokenAhead, BrokenAreRouted

LEMMA DeployRouts ==
    ASSUME DeployTo \subseteq 0 .. Columns - 1
    PROVE  IInv /\ RInv /\ Deploy => RInv'
  <1> SUFFICES ASSUME IInv, RInv, Deploy PROVE RInv'
    OBVIOUS
  <1>1. PICK u \in reserve, c \in DeployTo, row \in {"front", "back"} :
           line' = [line EXCEPT ![<<row, c>>] = u]
    BY DEF Deploy
  <1>2. LastSlotsFree'
    <2> SUFFICES ASSUME NEW d \in Slot, d >= Columns
                 PROVE  line'[FrontSlot(d)] = Empty /\ line'[BackSlot(d)] = Empty
      BY DEF LastSlotsFree, FrontSlot, BackSlot
    <2>1. line[FrontSlot(d)] = Empty /\ line[BackSlot(d)] = Empty
      BY DEF RInv, LastSlotsFree
    <2>2. c # d
      OBVIOUS
    <2>3. /\ FrontSlot(d) \in Place /\ BackSlot(d) \in Place
          /\ FrontSlot(d) # <<row, c>> /\ BackSlot(d) # <<row, c>>
      BY <2>2 DEF FrontSlot, BackSlot, Place
    <2> QED
      BY <1>1, <2>1, <2>3, LineFacts DEF Board
  <1> QED
    BY <1>2 DEF Deploy, RInv, BrokenAhead, BrokenAreRouted

-------------------------------------------------------------------------------
(* Gaps in front of reinforcements. *)

\* Nobody stands behind an empty front slot of column c.
Covered(l, c) == l[FrontSlot(c)] = Empty => l[BackSlot(c)] = Empty

\* The sweep has covered the columns it has visited, and a line stays reinforced
\* until the next pass begins.
GInv == /\ pc = "advance" => \A k \in 0 .. col - 1 : Covered(line, SweepColumn(k))
        /\ lined => pc = "idle" /\ \A c \in 1 .. Columns : Covered(line, c)

\* The column the sweep visits is covered afterwards, and one that was stays covered:
\* nobody joins a second row, and nobody leaves the first.
LEMMA AdvanceCovers ==
    ASSUME NEW l \in Board, NEW c \in 1 .. Columns, NobodyTwice(l)
    PROVE  /\ Covered(AdvanceColumn(l, c), c)
           /\ \A d \in 1 .. Columns : Covered(l, d) => Covered(AdvanceColumn(l, c), d)
  <1> DEFINE m  == AdvanceColumn(l, c)
             to == Destination(l, c)
  <1>1. c \in 0 .. Columns /\ c \in Slot
    BY DEF Slot
  <1>2. \A d \in Slot : l[FrontSlot(d)] # Empty => m[FrontSlot(d)] = l[FrontSlot(d)]
    BY <1>1, AdvanceKeeps
  <1>3. CASE l[BackSlot(c)] = Empty
    <2>1. m = l
      BY <1>3 DEF AdvanceColumn
    <2> QED
      BY <1>3, <2>1 DEF Covered
  <1>4. CASE l[BackSlot(c)] # Empty
    <2>1. m = Move(l, BackSlot(c), to)
      BY <1>4 DEF AdvanceColumn
    <2>2. /\ to \in Place
          /\ to = BackSlot(c) \/ \E d \in Slot : to = FrontSlot(d)
          /\ l[FrontSlot(c)] = Empty => to = FrontSlot(c)
      BY <1>1 DEF Destination, FrontSlot, BackSlot, Place, Slot
    <2> HIDE DEF m, to
    <2>3. \A d \in 1 .. Columns : /\ FrontSlot(d) \in Place /\ BackSlot(d) \in Place
                                  /\ d \in Slot
      BY DEF FrontSlot, BackSlot, Place, Slot
    <2>4. Covered(m, c)
      <3>1. CASE l[FrontSlot(c)] = Empty
        <4>1. m[FrontSlot(c)] = l[BackSlot(c)]
          BY <2>1, <2>2, <2>3, <3>1 DEF Move, Board
        <4> QED
          BY <1>4, <4>1 DEF Covered
      <3>2. CASE l[FrontSlot(c)] # Empty
        BY <1>1, <1>2, <3>2 DEF Covered
      <3> QED
        BY <3>1, <3>2
    <2>5. ASSUME NEW d \in 1 .. Columns, Covered(l, d), d # c
          PROVE  Covered(m, d)
      <3>1. BackSlot(d) # BackSlot(c) /\ BackSlot(d) # to
        BY <2>2, <2>5 DEF FrontSlot, BackSlot
      <3>2. m[BackSlot(d)] = l[BackSlot(d)]
        BY <2>1, <2>3, <3>1 DEF Move, Board
      <3> QED
        BY <1>2, <2>3, <2>5, <3>2 DEF Covered
    <2> QED
      BY <2>4, <2>5 DEF m
  <1> QED
    BY <1>3, <1>4

LEMMA AdvanceNextCovers == IInv /\ GInv /\ AdvanceNext => GInv'
  <1> SUFFICES ASSUME IInv, GInv, AdvanceNext PROVE GInv'
    OBVIOUS
  <1>1. /\ line \in Board /\ NobodyTwice(line) /\ col \in 0 .. Columns - 1
        /\ SweepColumn(col) \in 1 .. Columns
        /\ line' = AdvanceColumn(line, SweepColumn(col))
    BY LineFacts, SweepInRange DEF IInv, TypeOK, AdvanceNext
  <1>2. \A k \in 0 .. col : Covered(line', SweepColumn(k))
    <2> SUFFICES ASSUME NEW k \in 0 .. col PROVE Covered(line', SweepColumn(k))
      OBVIOUS
    <2>1. SweepColumn(k) \in 1 .. Columns
      BY <1>1, SweepInRange
    <2>2. CASE k = col
      BY <1>1, <2>2, AdvanceCovers
    <2>3. CASE k # col
      <3>1. k \in 0 .. col - 1
        BY <1>1, <2>3
      <3>2. Covered(line, SweepColumn(k))
        BY <3>1 DEF GInv, AdvanceNext
      <3> QED
        BY <1>1, <2>1, <3>2, AdvanceCovers
    <2> QED
      BY <2>2, <2>3
  <1>3. CASE col + 1 < Columns
    <2>1. pc' = "advance" /\ col' = col + 1 /\ lined' = FALSE
      BY <1>3 DEF AdvanceNext
    <2>2. \A k \in 0 .. col' - 1 : Covered(line', SweepColumn(k))
      BY <1>1, <1>2, <2>1
    <2> QED
      BY <2>1, <2>2 DEF GInv, Covered, FrontSlot, BackSlot, SweepColumn
  <1>4. CASE ~(col + 1 < Columns)
    <2>1. pc' = "idle" /\ col = Columns - 1
      BY <1>1, <1>4 DEF AdvanceNext
    <2>2. \A c \in 1 .. Columns : Covered(line', c)
      BY <1>2, <2>1, SweepIsOnto
    <2> QED
      BY <2>1, <2>2 DEF GInv, Covered, FrontSlot, BackSlot
  <1> QED
    BY <1>3, <1>4

-------------------------------------------------------------------------------
(* The results. *)

\* Every variable keeps its type.
THEOREM TypeCorrect == Spec => []TypeOK
  BY Invariance, PTL DEF IInv

\* No sweep, whatever it moves, loses a regiment or puts it in two places.
THEOREM NoRegimentLost == Spec => []ExactlyOnePlace
  <1>1. IInv => ExactlyOnePlace
    BY DEF IInv, Placed, Divided, NobodyTwice, NoRepeat, ExactlyOnePlace
  <1> QED
    BY <1>1, Invariance, PTL

\* A pass without tactical retreat gives up one regiment at most.
THEOREM OneRetreat == Spec => []OneRetreatAPass
  <1>1. IInv => OneRetreatAPass
    BY DEF IInv, TypeOK, Counted, OneRetreatAPass
  <1> QED
    BY <1>1, Invariance, PTL

\* When the reserve is deployed to columns the first sweep looks at, one pass
\* with tactical retreat routs every regiment broken and in front at its start.
THEOREM EveryBrokenRouted ==
    ASSUME DeployTo \subseteq 0 .. Columns - 1
    PROVE  Spec => []BrokenAreRouted
  <1>1. Init => RInv
    BY DEF Init, RInv, LastSlotsFree, BrokenAhead, BrokenAreRouted, FrontSlot,
           BackSlot, Place
  <1>2. IInv /\ RInv /\ [Next]_vars => RInv'
    <2> SUFFICES ASSUME IInv, RInv, [Next]_vars PROVE RInv'
      OBVIOUS
    <2>1. CASE Collapse
      BY <2>1 DEF Collapse, RInv, LastSlotsFree, BrokenAhead, BrokenAreRouted,
                  FrontSlot, BackSlot
    <2>2. CASE EndDeploy
      BY <2>2 DEF EndDeploy, RInv, LastSlotsFree, BrokenAhead, BrokenAreRouted,
                  FrontSlot, BackSlot
    <2>3. CASE StartAdvance
      BY <2>3 DEF StartAdvance, RInv, LastSlotsFree, BrokenAhead,
                  BrokenAreRouted, FrontSlot, BackSlot
    <2>4. CASE UNCHANGED vars
      BY <2>4 DEF vars, RInv, LastSlotsFree, BrokenAhead, BrokenAreRouted,
                  FrontSlot, BackSlot, Ahead, SweepColumn
    <2> QED
      BY <2>1, <2>2, <2>3, <2>4, StartPruneRouts, PruneEmptyRouts,
         PruneRoutRouts, PruneRetreatRouts, PruneKeepRouts, DeployRouts,
         CloseGapRouts, AdvanceNextRouts DEF Next, Prune, Advance
  <1>3. RInv => BrokenAreRouted
    BY DEF RInv
  <1> QED
    BY <1>1, <1>2, <1>3, Invariance, PTL DEF Spec

\* Behind a front slot that is empty when the line has been reinforced nobody stands,
\* whatever the sweep moved past the columns it had seen.
THEOREM ReinforcedWithoutGaps == Spec => []NoGapInFrontOfReinforcements
  <1>1. Init => GInv
    BY DEF Init, GInv
  <1>2. IInv /\ GInv /\ [Next]_vars => GInv'
    <2> SUFFICES ASSUME IInv, GInv, [Next]_vars PROVE GInv'
      OBVIOUS
    <2> USE DEF GInv, Covered, FrontSlot, BackSlot
    <2>1. CASE Collapse
      BY <2>1 DEF Collapse
    <2>2. CASE Deploy
      BY <2>2 DEF Deploy
    <2>3. CASE StartPrune
      BY <2>3 DEF StartPrune
    <2>4. CASE PruneEmpty \/ PruneRout \/ PruneRetreat \/ PruneKeep
      BY <2>4 DEF PruneEmpty, PruneRout, PruneRetreat, PruneKeep, NextPruneColumn
    <2>5. CASE EndDeploy
      BY <2>5 DEF EndDeploy
    <2>6. CASE CloseGap
      BY <2>6 DEF CloseGap
    <2>7. CASE StartAdvance
      BY <2>7 DEF StartAdvance
    <2>8. CASE AdvanceNext
      BY <2>8, AdvanceNextCovers
    <2>9. CASE UNCHANGED vars
      BY <2>9 DEF vars, SweepColumn
    <2> QED
      BY <2>1, <2>2, <2>3, <2>4, <2>5, <2>6, <2>7, <2>8, <2>9 DEF Next, Prune, Advance
  <1>3. GInv => NoGapInFrontOfReinforcements
    BY DEF GInv, Covered, NoGapInFrontOfReinforcements
  <1> QED
    BY <1>1, <1>2, <1>3, Invariance, PTL DEF Spec
===============================================================================
