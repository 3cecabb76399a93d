----------------------------- MODULE PopMigration -----------------------------
(***************************************************************************)
(* People who move between provinces.  Their journey has two halves:       *)
(*                                                                         *)
(*   0x004BA430  during the update of the countries, takes people and      *)
(*               their share of the money out of a POP and puts them in a  *)
(*               slot of the vector of the province they go to (+0x30C):   *)
(*               the first empty slot, or a new one at the end;            *)
(*   0x004BA780  afterwards, province by province, walks that vector and   *)
(*               merges each slot into a POP of the province that suits    *)
(*               it, or into a new POP, and empties the slot.              *)
(*                                                                         *)
(* Between the two the people are in no POP.  The monthly update moves     *)
(* people between two POPs of one province, without slots and without      *)
(* their money (Promote).                                                  *)
(*                                                                         *)
(* Every type has the byte +0x40 at zero here, so the tracked size +0x60   *)
(* is the size.  The branch of 0x004BA430 that calls 0x004BA430 again is   *)
(* not recovered: a call it makes is a Distribute of its own here.         *)
(***************************************************************************)
EXTENDS Integers, Sequences, SequencesExt, FiniteSetsExt

CONSTANTS Provinces,    \* in the order the consumers run: a sequence
          CountryOf,    \* province + 0x12C
          Catalogue,    \* the sequence of POP types
          TypeOf,       \* by type: [level, limit, demotes, barred, floor, index, real]
          GroupOf,      \* by culture: + 0x50
          Religions,
          MaxSize,      \* of a POP: 2,000,000
          Fixed,        \* one, in the fixed point of ratios: 2^15
          Half,         \* balances are in -Half .. Half - 1: 2^63
          Wealth,       \* all money there is at the start
          InitialPops,  \* what the provinces may start with
          Requests,     \* the numbers of people that the callers ask for
          MaxMoves      \* bound on the calls of 0x004BA430 and of Promote

Province == Range(Provinces)
Country  == {CountryOf[p] : p \in Province}
Type     == Range(Catalogue)
Culture  == DOMAIN GroupOf
Size     == 0 .. MaxSize
Unlimited == -1

Pop  == [type : Type, culture : Culture, religion : Religions,
         size : Size, balance : 0 .. Half - 1]
Slot == [type : Type, culture : Culture, religion : Religions,
         size : Size, balance : 0 .. Half - 1, region : Province]

SizesOf(bag, Test(_)) ==
    SumFunction([i \in DOMAIN bag |-> IF Test(bag[i]) THEN bag[i].size ELSE 0])
Balances(bag) == SumFunction([i \in DOMAIN bag |-> bag[i].balance])
OverProvinces(f(_)) == SumFunction([p \in Province |-> f(p)])

\* Money is conserved only while a balance times Fixed fits the signed word.
ASSUME MigrationAssumption ==
    /\ MaxSize \in Nat \ {0} /\ Fixed \in Nat \ {0} /\ Half \in Nat
    /\ Wealth \in Nat /\ Wealth * Fixed < Half
    /\ Requests \subseteq Nat /\ MaxMoves \in Nat
    /\ Provinces \in Seq(Province) /\ Catalogue \in Seq(Type)
    /\ CountryOf \in [Province -> Country]
    /\ TypeOf \in [Type -> [level : Int, limit : Int, demotes : BOOLEAN,
                            barred : BOOLEAN, floor : Nat, index : Nat, real : BOOLEAN]]
    /\ \A q \in InitialPops :
          /\ q \in [Province -> Seq(Pop)]
          /\ OverProvinces(LAMBDA p : Balances(q[p])) = Wealth

VARIABLES
    pops,      \* the POPs of each province, in the order of its lists
    pending,   \* + 0x30C: the vector of slots of each province
    events,    \* the POPs' counters + 0x158 of people that moved, summed
    turn,      \* 0 while the countries update, then which consumer runs
    next,      \* the slot the consumer looks at
    moves

vars == <<pops, pending, events, turn, next, moves>>

Abroad(p, q) == CountryOf[p] # CountryOf[q]

\* Counters 7 and 2 of people that crossed a border, 8 and 1 of those that did not.
Left(p, q)    == IF Abroad(p, q) THEN "emigrated" ELSE "movedOut"
Arrived(p, q) == IF Abroad(p, q) THEN "immigrated" ELSE "movedIn"

-----------------------------------------------------------------------------
\* 0x00955FD0.
SetSize(n) == IF n < 0 THEN 0 ELSE IF n > MaxSize THEN MaxSize ELSE n

\* A 64-bit result read as signed; money below zero is zero.
Signed(x)   == ((x + Half) % (2 * Half)) - Half
NotBelow0(x) == IF x < 0 THEN 0 ELSE x

\* Mutant: the slot keeps the culture of those it held before.
StaleSlot(slot, source) ==
    IF slot.size # 0 THEN slot ELSE [slot EXCEPT !.religion = source.religion]

\* 0x00955A00: an empty slot takes after the first POP that uses it.  The balance
\* is not among the fields it resets.
Initialized(slot, source) ==
    IF slot.size # 0 THEN slot
    ELSE [slot EXCEPT !.culture = source.culture, !.religion = source.religion]

\* Mutant: counts the people that were asked for.
TransferCountsRequest(source, slot, request) ==
    LET amount == IF request < source.size THEN request ELSE source.size
        ratio  == (amount * Fixed) \div source.size
        delta  == Signed(ratio * source.balance) \div Fixed
        to     == [Initialized(slot, source) EXCEPT !.size = SetSize(@ + amount)]
    IN  IF source.size = 0 THEN [from |-> source, to |-> to, amount |-> request]
        ELSE [from   |-> [source EXCEPT !.size    = SetSize(@ - amount),
                                        !.balance = NotBelow0(Signed(@ - delta))],
              to     |-> [to EXCEPT !.balance = NotBelow0(Signed(@ + delta))],
              amount |-> request]

\* 0x005345A0: both ends of a transfer.
Transfer(source, slot, request) ==
    LET amount == IF request < source.size THEN request ELSE source.size
        ratio  == (amount * Fixed) \div source.size
        delta  == Signed(ratio * source.balance) \div Fixed
        to     == [Initialized(slot, source) EXCEPT !.size = SetSize(@ + amount)]
    IN  IF source.size = 0 THEN [from |-> source, to |-> to, amount |-> 0]
        ELSE [from   |-> [source EXCEPT !.size    = SetSize(@ - amount),
                                        !.balance = NotBelow0(Signed(@ - delta))],
              to     |-> [to EXCEPT !.balance = NotBelow0(Signed(@ + delta))],
              amount |-> amount]

NewSlot(source, p) ==
    [type |-> source.type, culture |-> source.culture, religion |-> source.religion,
     size |-> 0, balance |-> 0, region |-> p]

FreeSlot(vector) == SelectInSeq(vector, LAMBDA slot : slot.size = 0)

\* 0x004BA430, called for the k-th POP of p: people that go to q.
Distribute(p, k, q, request) ==
    /\ turn = 0 /\ moves < MaxMoves
    /\ LET source == pops[p][k]
           free   == FreeSlot(pending[q])
           slot   == IF free = 0 THEN NewSlot(source, p)
                     ELSE [pending[q][free] EXCEPT !.type = source.type]
           done   == Transfer(source, slot, request)
           to     == [done.to EXCEPT !.region = p]
       IN  /\ pops' = [pops EXCEPT ![p][k] = done.from]
           /\ pending' = [pending EXCEPT ![q] =
                             IF free = 0 THEN Append(@, to) ELSE [@ EXCEPT ![free] = to]]
           /\ events' = [events EXCEPT ![Left(p, q)] = @ + done.amount]
    /\ moves' = moves + 1
    /\ UNCHANGED <<turn, next>>

\* Mutant: the rest of the POP goes, and does not arrive.
PromoteLosesRest(p, j, k, request) ==
    /\ turn = 0 /\ moves < MaxMoves
    /\ j # k
    /\ LET source == pops[p][j]
           rest   == source.size - request
           delta  == IF rest < TypeOf[source.type].floor THEN source.size ELSE request
       IN  pops' = [pops EXCEPT ![p][j].size = SetSize(@ - delta),
                                ![p][k].size = SetSize(@ + request)]
    /\ moves' = moves + 1
    /\ UNCHANGED <<pending, events, turn, next>>

\* 0x009584A6 and its two likes: the rest of a POP goes too when it is less than
\* its type may have.
Promote(p, j, k, request) ==
    /\ turn = 0 /\ moves < MaxMoves
    /\ j # k
    /\ LET source == pops[p][j]
           rest   == source.size - request
           delta  == IF rest < TypeOf[source.type].floor THEN source.size ELSE request
       IN  pops' = [pops EXCEPT ![p][j].size = SetSize(@ - delta),
                                ![p][k].size = SetSize(@ + delta)]
    /\ moves' = moves + 1
    /\ UNCHANGED <<pending, events, turn, next>>

-----------------------------------------------------------------------------
\* The passes of the consumer's search: does the POP c suit the people of a slot?
Fits(c)  == \/ TypeOf[c.type].limit = Unlimited
            \/ c.size < TypeOf[c.type].limit
Level(x) == TypeOf[x.type].level

Exact(c, slot) ==
    c.type = slot.type /\ c.culture = slot.culture /\ c.religion = slot.religion
SameLevel(c, slot) ==
    ~TypeOf[c.type].barred /\ Level(c) = Level(slot) /\ c.culture = slot.culture
SameGroup(c, slot) ==
    /\ ~TypeOf[c.type].barred /\ c.type = slot.type
    /\ GroupOf[c.culture] = GroupOf[slot.culture]
Lower(c, slot) ==
    /\ ~TypeOf[c.type].barred /\ Level(c) < Level(slot)
    /\ c.culture = slot.culture /\ c.religion = slot.religion

\* Only the list that the slot's type has in the province is searched.
First(p, slot, Test(_, _)) ==
    SelectInSeq(pops[p], LAMBDA c : /\ TypeOf[c.type].index = TypeOf[slot.type].index
                                    /\ Fits(c) /\ Test(c, slot))

\* The first POP of the earliest pass that finds one, 0 if none does.
SelectDestination(p, slot) ==
    LET exact == First(p, slot, Exact)
        level == First(p, slot, SameLevel)
    IN  IF TypeOf[slot.type].demotes /\ Abroad(slot.region, p)
        THEN First(p, slot, Lower)
        ELSE IF exact # 0 THEN exact
        ELSE IF level # 0 THEN level
        ELSE First(p, slot, SameGroup)

\* 0x004BAA33: the last type of the catalogue that is lower than the slot's.
SelectFactoryType(slot) ==
    LET lower == {i \in DOMAIN Catalogue :
                    LET t == TypeOf[Catalogue[i]]
                    IN  t.real /\ ~t.barred /\ t.level < Level(slot)}
    IN  IF TypeOf[slot.type].demotes /\ lower # {} THEN Catalogue[Max(lower)]
        ELSE slot.type

\* Mutant: the share of the larger end replaces the sum.
AddBalanceKeepsLarger(to, from) == IF to > from THEN to ELSE from

\* 0x0095A5F0.
AddBalance(to, from) ==
    LET sum == Signed(to + from)
    IN  IF to >= 0 /\ from > 0 /\ sum < 0 THEN Half - 1 ELSE NotBelow0(sum)

\* 0x00964370.
Merge(c, slot) == [c EXCEPT !.size = SetSize(@ + slot.size),
                            !.balance = AddBalance(@, slot.balance)]

\* 0x004B8D30, 0x00955A00 and 0x00955FD0.
Factory(slot) ==
    [type |-> SelectFactoryType(slot), culture |-> slot.culture,
     religion |-> slot.religion, size |-> SetSize(slot.size),
     balance |-> NotBelow0(slot.balance)]

\* One turn of the loop of 0x004BA780.
ConsumeSlot ==
    /\ turn # 0
    /\ LET p == Provinces[turn] IN
        /\ next <= Len(pending[p])
        /\ LET slot == pending[p][next]
               d    == SelectDestination(p, slot)
           IN  IF slot.size <= 0 THEN UNCHANGED <<pops, pending, events>>
               ELSE /\ pops' = IF d = 0 THEN [pops EXCEPT ![p] = Append(@, Factory(slot))]
                               ELSE [pops EXCEPT ![p][d] = Merge(@, slot)]
                    /\ pending' = [pending EXCEPT ![p][next].size = 0,
                                                  ![p][next].balance = 0]
                    /\ events' = [events EXCEPT ![Arrived(slot.region, p)] = @ + slot.size]
    /\ next' = next + 1
    /\ UNCHANGED <<turn, moves>>

\* The day goes from the countries to the consumers, from one to the next, and on.
NextPhase ==
    /\ turn # 0 => next > Len(pending[Provinces[turn]])
    /\ turn' = IF turn = Len(Provinces) THEN 0 ELSE turn + 1
    /\ next' = 1
    /\ UNCHANGED <<pops, pending, events, moves>>

Init ==
    /\ pops \in InitialPops
    /\ pending = [p \in Province |-> <<>>]
    /\ events = [e \in {"emigrated", "movedOut", "immigrated", "movedIn"} |-> 0]
    /\ turn = 0 /\ next = 1 /\ moves = 0

Next ==
    \/ \E p, q \in Province : \E k \in DOMAIN pops[p], n \in Requests :
          p # q /\ Distribute(p, k, q, n)
    \/ \E p \in Province : \E j, k \in DOMAIN pops[p], n \in Requests : Promote(p, j, k, n)
    \/ ConsumeSlot
    \/ NextPhase

Spec == Init /\ [][Next]_vars

-----------------------------------------------------------------------------
TypeOK ==
    /\ pops \in [Province -> Seq(Pop)]
    /\ pending \in [Province -> Seq(Slot)]
    /\ events \in [{"emigrated", "movedOut", "immigrated", "movedIn"} -> Nat]
    /\ turn \in 0 .. Len(Provinces) /\ next \in Nat \ {0} /\ moves \in 0 .. MaxMoves

\* The people that Test picks, in POPs and on their way.
People(Test(_)) ==
    OverProvinces(LAMBDA p : SizesOf(pops[p], Test) + SizesOf(pending[p], Test))

AtCap == \E p \in Province : \E k \in DOMAIN pops[p] : pops[p][k].size = MaxSize

\* Nobody is born on the way, and nobody is lost but where a POP is full: no step
\* makes the population grow, and one that makes it shrink leaves a POP at the cap.
\* POP-TRANSFER-THRESHOLD.md says it of a promotion; it has to hold of both halves
\* of a journey, with slots used again and deliveries merged.
PopulationOnlyLostAtCap ==
    [][ /\ People(LAMBDA x : TRUE)' <= People(LAMBDA x : TRUE)
        /\ People(LAMBDA x : TRUE)' < People(LAMBDA x : TRUE) => AtCap' ]_vars

\* All the money is in POPs and slots at any time: what a transfer takes, rounded, is
\* what it gives, the people that are delivered bring theirs, and no slot is used
\* again while it holds some.
MoneyConserved ==
    OverProvinces(LAMBDA p : Balances(pops[p]) + Balances(pending[p])) = Wealth

\* The counters agree with each other and with the slots: of the people that left
\* their POPs for another province, at home or abroad, those that have not been
\* counted as arrived are the ones in slots.
MovementsBalance ==
    LET OnTheWay(abroad) ==
            OverProvinces(LAMBDA q :
                SizesOf(pending[q], LAMBDA s : Abroad(s.region, q) = abroad))
    IN  /\ events.movedOut  = events.movedIn    + OnTheWay(FALSE)
        /\ events.emigrated = events.immigrated + OnTheWay(TRUE)

\* A journey changes neither the culture group of those that make it nor lifts them:
\* with the slots used again by others in between, and whichever pass finds their
\* new POP, the people of a group at a level or above it do not become more but by
\* Promote, which is the step that leaves slots and counters alone.
NobodyRisesByMoving ==
    [][ turn # 0 \/ pending' # pending =>
        \A g \in Range(GroupOf), l \in {TypeOf[t].level : t \in Type} :
            LET Above(x) == GroupOf[x.culture] = g /\ Level(x) >= l
            IN  People(Above)' <= People(Above) ]_vars
===============================================================================
